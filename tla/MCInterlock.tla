----------------------------- MODULE MCInterlock -----------------------------
(***************************************************************************)
(* Interlock on small instances, and what the comment at the head of       *)
(* Center.v7.c says of it where the code does otherwise.  The bounds are   *)
(* in the .cfg files.                                                      *)
(***************************************************************************)
EXTENDS Interlock

(* "CENTER: luc reset thi timedownMinute = 0, BLOCK = 1 (tuc gui lenh cho  *)
(* relay dong)": a Center that has been reset closes an open relay.        *)
ResetClosesRelay ==
  ~Running /\ relayPin = "HIGH" ~> relayPin = "LOW" \/ BLOCK = 0

(* "Co nong do con ... BLOCK = 1": the update that reports alcohol leaves  *)
(* the car locked.                                                         *)
AlcoholLocks ==
  [][pc = "alcohol" /\ pc' # "alcohol" => BLOCK' = 1]_vars

(* "Khong co nong do con ... BLOCK = 0": the update that reports a clean   *)
(* test leaves the car unlocked.  Without the house WiFi, where no press   *)
(* of the app can be the reason that it does not.                          *)
CleanTestUnlocks ==
  [][wifiFlash = 0 /\ pc = "clean" /\ pc' = "countdown" => BLOCK' = 0]_vars
==============================================================================

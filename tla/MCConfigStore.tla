---------------------------- MODULE MCConfigStore ----------------------------
(***************************************************************************)
(* ConfigStore on small instances, and what the repository says of the     *)
(* settings where the code does otherwise.                                 *)
(***************************************************************************)
EXTENDS ConfigStore

(* write_EEPROM.c fills cell 105, with a note to change it in off_blynk as *)
(* well, and offBlynk.h says "update threshold" for V34 alone: clearing    *)
(* the alarm table leaves the threshold that the next boot loads alone.    *)
ThresholdSurvives ==
  [][pc = "boot" /\ pc' = "run" /\ trusted = 1
       => threshold' = threshold]_vars
==============================================================================

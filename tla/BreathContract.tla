---------------------------- MODULE BreathContract ----------------------------
(***************************************************************************)
(* What the breath test promises to the rest of the Center, without        *)
(* sensor, camera or the order in which the interrupt meets the loop: a    *)
(* press starts a test, or goes into the one that is under way; a test     *)
(* ends with at most one verdict, and with none while another waits.       *)
(*                                                                         *)
(* BreathTest implements it, the steps PressButton and Verdict of          *)
(* Interlock allow all of it, and its update takes verdicts as it says.    *)
(***************************************************************************)
EXTENDS Integers

VARIABLES testing,          \* 1 while a test is under way
          alcohol, clean    \* 1 while that verdict waits for the update

contractVars == <<testing, alcohol, clean>>

ContractInit == testing = 0 /\ alcohol = 0 /\ clean = 0

Begin == testing' = 1 /\ UNCHANGED <<alcohol, clean>>

End == testing = 1 /\ testing' = 0

GiveUp == End /\ UNCHANGED <<alcohol, clean>>

Give ==
  /\ End /\ alcohol = 0 /\ clean = 0
  /\ alcohol' \in {0, 1} /\ clean' = 1 - alcohol'

Take ==
  alcohol' \in {alcohol, 0} /\ clean' \in {clean, 0} /\ UNCHANGED testing

ContractNext == Begin \/ GiveUp \/ Give \/ Take

ContractSpec == ContractInit /\ [][ContractNext]_contractVars
=============================================================================

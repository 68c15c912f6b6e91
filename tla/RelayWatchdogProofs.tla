------------------------- MODULE RelayWatchdogProofs -------------------------
(***************************************************************************)
(* Proofs about RelayWatchdog for all times.  The inductive invariant      *)
(* ties the three clocks: an unread heartbeat is the last one sent and     *)
(* waits at most NetworkDelay plus the time since the last poll, and the   *)
(* silence is at most the age of the last heartbeat that was read.         *)
(***************************************************************************)
EXTENDS RelayWatchdog, TLAPS

BeatInv ==
  /\ beat # NoBeat => beat <= NetworkDelay + sincePoll
  /\ up = 1 /\ beat # NoBeat =>
       /\ beat = sinceSent
       /\ sinceHeard <= HeartbeatPeriod + RelayLag + 1 + beat
  /\ up = 1 /\ beat = NoBeat => sinceHeard <= sinceSent

UpdateInv ==
  /\ sinceUpdate <= UpdatePeriod + sincePoll
                      + IF pc = "update" THEN CenterPass ELSE 0
  /\ sinceHeard <= WatchdogLimit + sinceUpdate
  /\ k = 0 => sinceHeard = 0

IInv == TypeOK /\ BeatInv /\ UpdateInv

(* The inductive invariant, which the three theorems below project.        *)
THEOREM Invariance == Spec => []IInv
<1> USE TimesAssumption, SpacingAssumption DEF NoBeat
<1>1. Init => IInv
    BY DEF Init, IInv, TypeOK, BeatInv, UpdateInv
<1>2. IInv /\ [Next]_vars => IInv'
  <2> SUFFICES ASSUME IInv, [Next]_vars PROVE IInv'
      OBVIOUS
  <2> USE DEF IInv, TypeOK, BeatInv, UpdateInv
  <2>1. CASE RelayHeartbeat
      BY <2>1 DEF RelayHeartbeat
  <2>2. CASE Poll
      BY <2>2 DEF Poll, Heard
  <2>3. CASE PollAccepts
      BY <2>3 DEF PollAccepts
  <2>4. CASE Update
      BY <2>4 DEF Update, UpdateDue, Silent
  <2>5. CASE WatchdogReset
      BY <2>5 DEF WatchdogReset
  <2>6. CASE SkipUpdate
      BY <2>6 DEF SkipUpdate, UpdateDue
  <2>7. CASE NextPass
      BY <2>7 DEF NextPass
  <2>8. CASE LinkLoss
      BY <2>8 DEF LinkLoss
  <2>9. CASE RelayRestart
      BY <2>9 DEF RelayRestart
  <2>10. CASE Tick
      BY <2>10 DEF Tick
  <2>11. CASE UNCHANGED vars
      BY <2>11 DEF vars
  <2>12. QED
      BY <2>1, <2>2, <2>3, <2>4, <2>5, <2>6, <2>7, <2>8, <2>9, <2>10, <2>11
      DEF Next, Center
<1>3. QED
    BY <1>1, <1>2, PTL DEF Spec

(* The clocks keep their ranges.                                           *)
THEOREM WatchdogTypes == Spec => []TypeOK
<1>1. IInv => TypeOK
    BY DEF IInv
<1>2. QED
    BY <1>1, Invariance, PTL

(* A limit above the longest silence never resets the Center over a Relay  *)
(* that is connected and sending.                                          *)
THEOREM FalseAlarmFree == Spec => []NoFalseAlarm
<1>1. IInv => NoFalseAlarm
    BY TimesAssumption
    DEF IInv, TypeOK, BeatInv, NoBeat, NoFalseAlarm, LongestSilence, Silent
<1>2. QED
    BY <1>1, Invariance, PTL

(* No silence lasts longer than the limit, an update period and two passes *)
(* of the loop.                                                            *)
THEOREM SilenceBounded == Spec => []SilenceIsNoticed
<1>1. IInv => SilenceIsNoticed
    BY TimesAssumption DEF IInv, TypeOK, UpdateInv, SilenceIsNoticed
<1>2. QED
    BY <1>1, Invariance, PTL
=============================================================================

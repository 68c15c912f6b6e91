--------------------------- MODULE InterlockProofs ---------------------------
(***************************************************************************)
(* Proofs about Interlock for every set of unlock times, every window and  *)
(* any number of faults.  The inductive invariant is the conjunction of    *)
(* the type invariant, CountdownMatchesLock and RelayAgrees: the answer to *)
(* "/" keeps RelayAgrees only because the countdown matches the lock, and  *)
(* that only holds when no unlock time is 0.                               *)
(***************************************************************************)
EXTENDS Interlock, TLAPS, SequenceTheorems

(* Frames are only ever appended, and a sent frame decides the final pin.  *)
LEMMA SendIfType ==
  ASSUME NEW q \in Seq(Messages), NEW m \in Messages, NEW flag
  PROVE  SendIf(flag, m, q) \in Seq(Messages)
BY DEF SendIf

LEMMA CommandsType == TypeOK => Commands \in Seq(Messages)
<1> SUFFICES ASSUME TypeOK PROVE Commands \in Seq(Messages)
    OBVIOUS
<1> USE DEF Messages, Opening, Closing
<1>1. toRelay \in Seq(Messages)
    BY DEF TypeOK
<1>2. SendIf(blockNowState, "blockNow", toRelay) \in Seq(Messages)
    BY <1>1, SendIfType
<1>3. QED
    BY <1>2, SendIfType DEF Commands

(* What is left of a queue once some frames have been lost or read.        *)
LEMMA PrefixType ==
  ASSUME NEW q \in Seq(Messages), NEW n \in 0..Len(q)
  PROVE  SubSeq(q, 1, n) \in Seq(Messages)
OBVIOUS

-----------------------------------------------------------------------------
LEMMA ResetCenterType ==
  ASSUME TypeOK, ResetCenter, toRelay' \in Seq(Messages)
  PROVE  TypeOK'
BY ConstantsAssumption DEF TypeOK, ResetCenter, Bit

(* The variables keep their types, whatever the unlock times.              *)
THEOREM TypeInvariant == Spec => []TypeOK
<1> USE ConstantsAssumption
<1>1. Init => TypeOK
    BY DEF Init, TypeOK, Bit
<1>2. TypeOK /\ [Next]_vars => TypeOK'
  <2> SUFFICES ASSUME TypeOK, [Next]_vars PROVE TypeOK'
      OBVIOUS
  <2> USE DEF TypeOK, Bit, loopVars, lockVars, flagVars, linkVars
  <2>1. CASE Setup
      BY <2>1 DEF Setup
  <2>2. CASE AppLogin \/ LoopHead \/ PollSockets \/ SkipUpdate
             \/ SkipCountdown \/ SkipBreath \/ LoopEnd
      BY <2>2 DEF AppLogin, LoopHead, PollSockets, SkipUpdate, SkipCountdown,
                  SkipBreath, LoopEnd
  <2>3. CASE AcceptRelay
      BY <2>3 DEF AcceptRelay, Answer, Messages, Opening, Closing
  <2>4. CASE ReportAlcohol \/ ReportClean \/ CarryOutCommands
    <3>1. secondDue' \in Bit
        BY <2>4 DEF ReportAlcohol, ReportClean, CarryOutCommands, Updating
    <3>2. CASE ReportAlcohol
      <4>1. toRelay' \in Seq(Messages)
          BY <3>2, SendIfType DEF ReportAlcohol, Messages, Closing
      <4>2. QED
          BY <3>1, <3>2, <4>1 DEF ReportAlcohol
    <3>3. CASE ReportClean
      <4>1. toRelay' \in Seq(Messages)
          BY <3>3, SendIfType DEF ReportClean, Messages, Opening
      <4>2. QED
          BY <3>1, <3>3, <4>1 DEF ReportClean
    <3>4. CASE CarryOutCommands
      <4>1. NewBLOCK \in Bit /\ NewTimedown \in Nat
          BY DEF NewBLOCK, NewTimedown
      <4>2. minuteDue' \in Bit
          BY <3>4 DEF CarryOutCommands
      <4>3. toRelay' \in Seq(Messages)
          BY <3>4, CommandsType DEF CarryOutCommands
      <4>4. QED
          BY <3>1, <3>4, <4>1, <4>2, <4>3 DEF CarryOutCommands, ClearCommands
    <3>5. QED
        BY <2>4, <3>2, <3>3, <3>4
  <2>5. CASE CountMinute
      BY <2>5 DEF CountMinute, MinuteElapsed, LockAtZero
  <2>6. CASE Verdict
      BY <2>6 DEF Verdict
  <2>7. CASE App
      BY <2>7 DEF App, AppButton, AppUnlockTime
  <2>8. CASE PressButton \/ Clock
      BY <2>8 DEF PressButton, Clock, SecondPasses, MinutePasses
  <2>9. CASE RelayConnect \/ RelayUpgraded \/ RelayNoticesLoss
             \/ RelayRestart \/ CenterNoticesLoss
    <3>1. <<>> \in Seq(Messages)
        OBVIOUS
    <3>2. CASE RelayConnect \/ RelayUpgraded
        BY <3>1, <3>2 DEF RelayConnect, RelayUpgraded
    <3>3. CASE RelayNoticesLoss \/ CenterNoticesLoss
        BY <3>3 DEF RelayNoticesLoss, CenterNoticesLoss
    <3>4. CASE RelayRestart
        BY <3>1, <3>4 DEF RelayRestart
    <3>5. QED
        BY <2>9, <3>2, <3>3, <3>4
  <2>10. CASE RelayReceive
    <3>1. Tail(toRelay) \in Seq(Messages)
        BY <2>10 DEF RelayReceive
    <3>2. QED
        BY <2>10, <3>1 DEF RelayReceive, PinAfter
  <2>11. CASE LinkLoss
    <3>1. toRelay' \in Seq(Messages)
        BY <2>11, PrefixType DEF LinkLoss
    <3>2. QED
        BY <2>11, <3>1 DEF LinkLoss
  <2>12. CASE Reset
    <3>1. toRelay' \in Seq(Messages)
        BY <2>12, PrefixType DEF Reset
    <3>2. QED
        BY <2>12, <3>1, ResetCenterType DEF Reset
  <2>13. CASE WatchdogReset
    <3>1. toRelay' \in Seq(Messages)
        BY <2>13, PrefixType, CommandsType DEF WatchdogReset
    <3>2. QED
        BY <2>13, <3>1, ResetCenterType DEF WatchdogReset
  <2>14. CASE UNCHANGED vars
      BY <2>14 DEF vars
  <2>15. QED
      BY <2>1, <2>2, <2>3, <2>4, <2>5, <2>6, <2>7, <2>8, <2>9, <2>10, <2>11,
         <2>12, <2>13, <2>14 DEF Next, Loop, Relay, Faults
<1>3. QED
    BY <1>1, <1>2, PTL DEF Spec

-----------------------------------------------------------------------------
(* The last frame decides: appending one fixes the final pin, reading one  *)
(* from the front leaves it alone.                                         *)
Outcome(q, pin) == IF q = <<>> THEN pin ELSE PinAfter(q[Len(q)])

LEMMA OutcomeOfSend ==
  ASSUME NEW q \in Seq(Messages), NEW m \in Messages, NEW flag, NEW pin,
         wire = 1, slot = 1
  PROVE  Outcome(SendIf(flag, m, q), pin)
           = IF flag = 1 THEN PinAfter(m) ELSE Outcome(q, pin)
<1>1. CASE flag = 1
  <2>1. SendIf(flag, m, q) = Append(q, m)
      BY <1>1 DEF SendIf
  <2>2. Append(q, m) # <<>> /\ Append(q, m)[Len(Append(q, m))] = m
      OBVIOUS
  <2>3. QED
      BY <1>1, <2>1, <2>2 DEF Outcome
<1>2. CASE flag # 1
    BY <1>2 DEF SendIf
<1>3. QED
    BY <1>1, <1>2

LEMMA OutcomeOfRead ==
  ASSUME NEW q \in Seq(Messages), q # <<>>, NEW pin
  PROVE  Outcome(Tail(q), PinAfter(Head(q))) = Outcome(q, pin)
<1> Len(q) \in Nat \ {0} /\ Head(q) = q[1]
    BY EmptySeq
<1> /\ Tail(q) \in Seq(Messages) /\ Len(Tail(q)) = Len(q) - 1
    /\ \A i \in 1..Len(Tail(q)) : Tail(q)[i] = q[i + 1]
    BY HeadTailProperties
<1>0. Tail(q) # <<>> => Len(Tail(q)) # 0
    BY EmptySeq
<1>1. CASE Len(q) = 1
  <2>1. Tail(q) = <<>>
      BY <1>0, <1>1
  <2>2. QED
      BY <1>1, <2>1 DEF Outcome
<1>2. CASE Len(q) # 1
  <2>1. Len(Tail(q)) \in 1..Len(Tail(q)) /\ Len(Tail(q)) + 1 = Len(q)
      BY <1>2
  <2>2. Tail(q)[Len(Tail(q))] = q[Len(q)]
      BY <2>1
  <2>3. Tail(q) # <<>>
    <3>1. Len(<<>>) = 0
        BY EmptySeq
    <3>2. Len(Tail(q)) # 0
        BY <2>1
    <3>3. QED
        BY <3>1, <3>2, Zenon
  <2>4. QED
      BY <2>2, <2>3 DEF Outcome
<1>3. QED
    BY <1>1, <1>2

(* What the commands of an update send ends in the state they leave.       *)
LEMMA OutcomeOfCommands ==
  ASSUME TypeOK, wire = 1, slot = 1
  PROVE  Outcome(Commands, relayPin)
           = IF blockNowState = 1 \/ unblockNowState = 1
               THEN PinFor(NewBLOCK) ELSE FinalPin
<1> USE DEF Messages, Opening, Closing
<1> DEFINE q == SendIf(blockNowState, "blockNow", toRelay)
<1>1. toRelay \in Seq(Messages)
    BY DEF TypeOK
<1>2. q \in Seq(Messages)
    BY <1>1, SendIfType
<1>3. Commands = SendIf(unblockNowState, "unblockNow", q)
    BY DEF Commands
<1>4. Outcome(Commands, relayPin) =
        IF unblockNowState = 1 THEN PinAfter("unblockNow")
        ELSE Outcome(q, relayPin)
    BY <1>2, <1>3, OutcomeOfSend
<1>5. Outcome(q, relayPin) =
        IF blockNowState = 1 THEN PinAfter("blockNow")
        ELSE Outcome(toRelay, relayPin)
    BY <1>1, OutcomeOfSend
<1>6. FinalPin = Outcome(toRelay, relayPin)
    BY DEF FinalPin, Outcome
<1> HIDE DEF q
<1>7. QED
    BY <1>4, <1>5, <1>6 DEF PinAfter, PinFor, NewBLOCK

-----------------------------------------------------------------------------
IInv == TypeOK /\ CountdownMatchesLock /\ RelayAgrees

(* A report leaves the lock and the frame it sends in step, so that what   *)
(* the app does during it finds a Center that agrees with its Relay.       *)
LEMMA ReportKeepsIInv ==
  ASSUME 0 \notin Minutes, IInv, ReportAlcohol \/ ReportClean
  PROVE  CountdownMatchesLock' /\ RelayAgrees'
<1> USE DEF IInv, TypeOK, Bit
<1>1. CountdownMatchesLock'
    BY ConstantsAssumption DEF CountdownMatchesLock, ReportAlcohol, ReportClean
<1>2. RelayAgrees'
  <2> SUFFICES ASSUME wire = 1, slot = 1
               PROVE  FinalPin' = PinFor(BLOCK')
      BY DEF RelayAgrees, ReportAlcohol, ReportClean
  <2>1. FinalPin' = Outcome(toRelay', relayPin)
      BY DEF ReportAlcohol, ReportClean, FinalPin, Outcome
  <2>2. CASE ReportAlcohol
      BY <2>1, <2>2, OutcomeOfSend
      DEF ReportAlcohol, Messages, Closing, PinAfter, PinFor
  <2>3. CASE ReportClean
      BY <2>1, <2>3, OutcomeOfSend
      DEF ReportClean, Messages, Opening, Closing, PinAfter, PinFor
  <2>4. QED
      BY <2>2, <2>3
<1>3. QED
    BY <1>1, <1>2

LEMMA CommandsKeepIInv ==
  ASSUME 0 \notin Minutes, IInv, CarryOutCommands
  PROVE  CountdownMatchesLock' /\ RelayAgrees'
<1> USE DEF IInv, TypeOK, Bit
<1>1. CountdownMatchesLock'
    BY ConstantsAssumption
    DEF CountdownMatchesLock, CarryOutCommands, NewBLOCK, NewTimedown
<1>2. RelayAgrees'
  <2> SUFFICES ASSUME wire = 1, slot = 1
               PROVE  FinalPin' = PinFor(BLOCK')
      BY DEF RelayAgrees, CarryOutCommands
  <2>1. FinalPin' = Outcome(Commands, relayPin)
      BY DEF CarryOutCommands, FinalPin, Outcome
  <2>2. CASE blockNowState = 1 \/ unblockNowState = 1
      BY <2>1, <2>2, OutcomeOfCommands DEF CarryOutCommands
  <2>3. CASE ~(blockNowState = 1 \/ unblockNowState = 1)
    <3>1. FinalPin = PinFor(BLOCK)
        BY <2>3 DEF RelayAgrees
    <3>2. QED
        BY <2>1, <2>3, <3>1, OutcomeOfCommands DEF CarryOutCommands, NewBLOCK
  <2>4. QED
      BY <2>2, <2>3
<1>3. QED
    BY <1>1, <1>2

(* On a live session the pin ends up where the Center's lock is, through   *)
(* any losses, resets and reconnections, when every unlock time is at      *)
(* least a minute.                                                         *)
THEOREM Agreement ==
  ASSUME 0 \notin Minutes
  PROVE  Spec => [](CountdownMatchesLock /\ RelayAgrees)
<1> USE ConstantsAssumption
<1>1. Init => IInv
  <2>1. Init => TypeOK
      BY DEF Init, TypeOK, Bit
  <2>2. QED
      BY <2>1 DEF IInv, Init, CountdownMatchesLock, RelayAgrees
<1>2. IInv /\ TypeOK' /\ [Next]_vars => IInv'
  <2> SUFFICES ASSUME IInv, TypeOK', [Next]_vars
               PROVE  CountdownMatchesLock' /\ RelayAgrees'
      BY DEF IInv
  <2> USE DEF loopVars, lockVars, flagVars, linkVars, CountdownMatchesLock
  <2>1. CASE Setup \/ AppLogin \/ LoopHead \/ PollSockets \/ SkipUpdate
             \/ SkipCountdown \/ SkipBreath \/ Verdict \/ LoopEnd
      BY <2>1 DEF IInv, RelayAgrees, FinalPin, Setup, AppLogin, LoopHead,
                  PollSockets, SkipUpdate, SkipCountdown, SkipBreath, Verdict,
                  LoopEnd
  <2>2. CASE AcceptRelay
    <3>1. FinalPin' = PinFor(BLOCK)'
        BY <2>2 DEF AcceptRelay, Answer, IInv, TypeOK, Bit, FinalPin, PinAfter,
                    PinFor, Closing
    <3>2. QED
        BY <2>2, <3>1 DEF AcceptRelay, IInv, RelayAgrees
  <2>3. CASE ReportAlcohol \/ ReportClean \/ CarryOutCommands
      BY <2>3, ReportKeepsIInv, CommandsKeepIInv
  <2>4. CASE CountMinute
      BY <2>4 DEF CountMinute, MinuteElapsed, LockAtZero, IInv, TypeOK, Bit,
                  RelayAgrees, FinalPin
  <2>5. CASE App
      BY <2>5 DEF App, AppButton, AppUnlockTime, IInv, RelayAgrees, FinalPin
  <2>6. CASE PressButton \/ Clock
      BY <2>6 DEF PressButton, Clock, SecondPasses, MinutePasses, IInv,
                  RelayAgrees, FinalPin
  <2>7. CASE RelayReceive
    <3>1. FinalPin' = FinalPin
        BY <2>7, OutcomeOfRead DEF RelayReceive, IInv, TypeOK, FinalPin, Outcome
    <3>2. QED
        BY <2>7, <3>1 DEF RelayReceive, IInv, RelayAgrees
  <2>8. CASE RelayUpgraded \/ RelayConnect \/ RelayNoticesLoss
             \/ CenterNoticesLoss
      BY <2>8 DEF RelayUpgraded, RelayConnect, RelayNoticesLoss,
                  CenterNoticesLoss, IInv, RelayAgrees, FinalPin
  <2>9. CASE RelayRestart \/ LinkLoss
      BY <2>9 DEF RelayRestart, LinkLoss, IInv, RelayAgrees
  <2>10. CASE Reset \/ WatchdogReset
      BY <2>10 DEF Reset, WatchdogReset, ResetCenter, RelayAgrees
  <2>11. CASE UNCHANGED vars
      BY <2>11 DEF vars, IInv, RelayAgrees, FinalPin
  <2>12. QED
      BY <2>1, <2>2, <2>3, <2>4, <2>5, <2>6, <2>7, <2>8, <2>9, <2>10, <2>11
      DEF Next, Loop, Relay, Faults
<1>3. IInv => CountdownMatchesLock /\ RelayAgrees
    BY DEF IInv
<1>4. QED
    BY <1>1, <1>2, <1>3, TypeInvariant, PTL DEF Spec

-----------------------------------------------------------------------------
(* The countdown runs exactly while the Center is unlocked, however        *)
(* verdicts, the app's button, the countdown and resets interleave.        *)
THEOREM CountdownAgreement ==
  ASSUME 0 \notin Minutes
  PROVE  Spec => []CountdownMatchesLock
  BY Agreement, PTL

-----------------------------------------------------------------------------
(* What holds whatever the unlock times, 0 minutes included: a locked      *)
(* Center does not count, and a command to unlock waits in a locked one,   *)
(* or in one whose update is about to carry it out.                        *)
LockedRests ==
  /\ BLOCK = 1 => timedownMinute = 0
  /\ unblockNowState = 1 => BLOCK = 1 \/ pc = "clean"

(* The steps that change the lock, a command or the place of the report of *)
(* a clean test; no other leaves that place.                               *)
LEMMA OnlyFewLock ==
  ASSUME [Next]_vars
  PROVE  \/ ReportAlcohol \/ ReportClean \/ CarryOutCommands
         \/ CountMinute \/ AppButton \/ Reset \/ WatchdogReset
         \/ /\ UNCHANGED <<lockVars, blockNowState, unblockNowState>>
            /\ pc = "clean" => pc' = "clean"
BY DEF Next, Loop, App, Clock, Relay, Faults, vars, loopVars, lockVars,
       flagVars, Setup, AppLogin, LoopHead, PollSockets, AcceptRelay,
       SkipUpdate, SkipCountdown, SkipBreath, Verdict, LoopEnd, AppUnlockTime,
       PressButton, SecondPasses, MinutePasses, RelayConnect, RelayUpgraded,
       RelayReceive, RelayNoticesLoss, CenterNoticesLoss, RelayRestart, LinkLoss

LEMMA LockedRestsHolds == Spec => []LockedRests
<1>1. Init => LockedRests
    BY DEF Init, LockedRests
<1>2. TypeOK /\ LockedRests /\ [Next]_vars => LockedRests'
  <2> SUFFICES ASSUME TypeOK, LockedRests, [Next]_vars PROVE LockedRests'
      OBVIOUS
  <2> USE DEF LockedRests, loopVars, lockVars, flagVars
  <2>1. CASE ReportAlcohol \/ ReportClean
      BY <2>1 DEF ReportAlcohol, ReportClean
  <2>2. CASE CarryOutCommands
      BY <2>2 DEF CarryOutCommands, ClearCommands, NewBLOCK, NewTimedown
  <2>3. CASE CountMinute
      BY <2>3 DEF CountMinute, MinuteElapsed, LockAtZero, TypeOK, Bit
  <2>4. CASE AppButton
      BY <2>4 DEF AppButton
  <2>5. CASE Reset \/ WatchdogReset
      BY <2>5 DEF Reset, WatchdogReset, ResetCenter
  <2>6. CASE /\ UNCHANGED <<lockVars, blockNowState, unblockNowState>>
             /\ pc = "clean" => pc' = "clean"
      BY <2>6
  <2>7. QED
      BY <2>1, <2>2, <2>3, <2>4, <2>5, <2>6, OnlyFewLock
<1>3. QED
    BY <1>1, <1>2, TypeInvariant, PTL DEF Spec

(* No command to lock is given while one to unlock waits, by the app or by *)
(* the countdown, but for a press inside the report of a clean test.  So   *)
(* it is only there that the fixed order of updateWebsocket() can differ   *)
(* from the order in which these commands were given.                      *)
THEOREM CommandOrder == Spec => OnlyCleanReportReorders
<1>1. LockedRests /\ [Next]_vars => [LocksBehindUnlock => pc = "clean"]_vars
  <2> SUFFICES ASSUME LockedRests, [Next]_vars, LocksBehindUnlock
               PROVE  pc = "clean"
      OBVIOUS
  <2> USE DEF LocksBehindUnlock, LockedRests
  <2>1. CASE AppButton
      BY <2>1 DEF AppButton
  <2>2. CASE CountMinute
    <3>1. BLOCK # 1
        BY <2>2 DEF CountMinute, MinuteElapsed
    <3>2. QED
        BY <3>1
  <2>3. CASE ReportAlcohol \/ ReportClean
      BY <2>3 DEF ReportAlcohol, ReportClean
  <2>4. CASE CarryOutCommands \/ Reset \/ WatchdogReset
      BY <2>4 DEF CarryOutCommands, ClearCommands, Reset, WatchdogReset,
                  ResetCenter
  <2>5. CASE UNCHANGED blockNowState
      BY <2>5
  <2>6. QED
      BY <2>1, <2>2, <2>3, <2>4, <2>5, OnlyFewLock
<1>2. QED
    BY <1>1, LockedRestsHolds, PTL DEF Spec, OnlyCleanReportReorders

-----------------------------------------------------------------------------
(* Losing or reading frames brings no opening one, sending brings those    *)
(* that are sent.                                                          *)
OpeningIn(q) == \E i \in DOMAIN q : q[i] \in Opening

LEMMA OpeningOfPrefix ==
  ASSUME NEW q \in Seq(Messages), NEW n \in 0..Len(q),
         OpeningIn(SubSeq(q, 1, n))
  PROVE  OpeningIn(q)
<1>1. PICK i \in DOMAIN SubSeq(q, 1, n) : SubSeq(q, 1, n)[i] \in Opening
    BY DEF OpeningIn
<1>2. i \in DOMAIN q /\ SubSeq(q, 1, n)[i] = q[i]
    OBVIOUS
<1>3. QED
    BY <1>1, <1>2 DEF OpeningIn

LEMMA OpeningOfTail ==
  ASSUME NEW q \in Seq(Messages), q # <<>>, OpeningIn(Tail(q))
  PROVE  OpeningIn(q)
<1>1. PICK i \in DOMAIN Tail(q) : Tail(q)[i] \in Opening
    BY DEF OpeningIn
<1>2. i + 1 \in DOMAIN q /\ Tail(q)[i] = q[i + 1]
    OBVIOUS
<1>3. QED
    BY <1>1, <1>2 DEF OpeningIn

LEMMA OpeningOfSend ==
  ASSUME NEW q \in Seq(Messages), NEW m \in Messages, NEW flag,
         OpeningIn(SendIf(flag, m, q))
  PROVE  OpeningIn(q) \/ (flag = 1 /\ m \in Opening)
<1>1. CASE SendIf(flag, m, q) = q
    BY <1>1
<1>2. CASE SendIf(flag, m, q) = Append(q, m) /\ flag = 1
  <2>1. PICK i \in DOMAIN Append(q, m) : Append(q, m)[i] \in Opening
      BY <1>2 DEF OpeningIn
  <2>2. \/ i \in DOMAIN q /\ Append(q, m)[i] = q[i]
        \/ Append(q, m)[i] = m
      OBVIOUS
  <2>3. QED
      BY <1>2, <2>1, <2>2 DEF OpeningIn
<1>3. QED
    BY <1>1, <1>2 DEF SendIf

(* What the commands of an update send opens only for unblockNowState.     *)
LEMMA OpeningOfCommands ==
  ASSUME TypeOK, OpeningIn(Commands)
  PROVE  OpeningInFlight \/ unblockNowState = 1
<1> USE DEF Messages, Opening, Closing
<1> DEFINE q == SendIf(blockNowState, "blockNow", toRelay)
<1>1. toRelay \in Seq(Messages)
    BY DEF TypeOK
<1>2. q \in Seq(Messages)
    BY <1>1, SendIfType
<1>3. OpeningIn(SendIf(unblockNowState, "unblockNow", q))
    BY DEF Commands
<1>4. OpeningIn(q) => OpeningIn(toRelay)
    BY <1>1, OpeningOfSend
<1> HIDE DEF q
<1>5. OpeningIn(q) \/ unblockNowState = 1
    BY <1>2, <1>3, OpeningOfSend
<1>6. QED
    BY <1>4, <1>5 DEF OpeningIn, OpeningInFlight

(* The steps that neither ask nor answer.                                  *)
LEMMA QuietSteps ==
  ASSUME [Next]_vars
  PROVE  \/ AcceptRelay \/ ReportAlcohol \/ ReportClean
         \/ CarryOutCommands \/ CountMinute \/ Verdict \/ AppButton
         \/ RelayConnect \/ RelayReceive \/ RelayRestart
         \/ LinkLoss \/ Reset \/ WatchdogReset
         \/ UNCHANGED <<BLOCK, notAlcoholState, unblockNowState, toRelay,
                       relayPin>>
BY DEF Next, Loop, App, Clock, Relay, Faults, vars, lockVars, flagVars,
       linkVars, Setup, AppLogin, LoopHead, PollSockets, SkipUpdate,
       SkipCountdown, SkipBreath, LoopEnd, AppUnlockTime, PressButton,
       SecondPasses, MinutePasses, RelayUpgraded, RelayNoticesLoss,
       CenterNoticesLoss

(* The relay opens for nothing but a clean test or the app's button,       *)
(* whatever the unlock times: the answer to "/" cannot open it because a   *)
(* locked Center does not count.                                           *)
THEOREM OpeningsAsked == Spec => OpensOnlyWhenAsked
<1> DEFINE A == /\ MayOpen' => MayOpen \/ AskedByDriver \/ AskedByApp
                /\ relayPin' = "HIGH" => relayPin = "HIGH" \/ MayOpen
<1>1. TypeOK /\ LockedRests /\ [Next]_vars => [A]_vars
  <2> SUFFICES ASSUME TypeOK, LockedRests, [Next]_vars PROVE A
      OBVIOUS
  <2> USE DEF MayOpen, Unlocks, lockVars, flagVars
  <2>a. OpeningInFlight <=> OpeningIn(toRelay)
      BY DEF OpeningInFlight, OpeningIn
  <2>b. OpeningInFlight' <=> OpeningIn(toRelay')
      BY DEF OpeningInFlight, OpeningIn
  <2>c. toRelay \in Seq(Messages)
      BY DEF TypeOK
  <2>1. CASE AcceptRelay
    <3>1. BLOCK = 1 => Answer = "blockNow"
        BY DEF LockedRests, Answer
    <3>2. BLOCK \in {0, 1} /\ UNCHANGED <<BLOCK, flagVars, relayPin>>
        BY <2>1 DEF AcceptRelay, TypeOK, Bit
    <3>3. BLOCK = 1 => ~OpeningIn(toRelay')
        BY <2>1, <3>1 DEF AcceptRelay, OpeningIn, Opening
    <3>4. QED
        BY <2>b, <3>2, <3>3
  <2>2. CASE CarryOutCommands
    <3>1. OpeningInFlight' => MayOpen
        BY <2>2, <2>b, OpeningOfCommands DEF CarryOutCommands
    <3>2. BLOCK' = 0 => BLOCK = 0 \/ Unlocks
        BY <2>2 DEF CarryOutCommands, NewBLOCK
    <3>3. ~Unlocks'
        BY <2>2 DEF CarryOutCommands, ClearCommands
    <3>4. QED
        BY <2>2, <3>1, <3>2, <3>3 DEF CarryOutCommands
  <2>3. CASE ReportAlcohol
    <3>1. OpeningIn(toRelay') => OpeningIn(toRelay)
        BY <2>c, <2>3, OpeningOfSend
        DEF ReportAlcohol, Messages, Closing, Opening
    <3>2. QED
        BY <2>a, <2>b, <2>3, <3>1 DEF ReportAlcohol
  <2>4. CASE ReportClean
      BY <2>4 DEF ReportClean
  <2>5. CASE CountMinute
      BY <2>a, <2>b, <2>5 DEF CountMinute, LockAtZero, linkVars
  <2>6. CASE Verdict
      BY <2>a, <2>b, <2>6 DEF Verdict, AskedByDriver, linkVars
  <2>7. CASE AppButton
      BY <2>a, <2>b, <2>7 DEF AppButton, AskedByApp, linkVars
  <2>8. CASE RelayConnect \/ RelayRestart
    <3>1. ~OpeningIn(toRelay')
        BY <2>8 DEF RelayConnect, RelayRestart, OpeningIn
    <3>2. QED
        BY <2>b, <2>8, <3>1 DEF RelayConnect, RelayRestart
  <2>9. CASE RelayReceive
    <3>1. OpeningIn(toRelay') => OpeningIn(toRelay)
        BY <2>c, <2>9, OpeningOfTail DEF RelayReceive
    <3>2. relayPin' = "HIGH" => OpeningIn(toRelay)
      <4>1. 1 \in DOMAIN toRelay /\ Head(toRelay) = toRelay[1]
          BY <2>c, <2>9 DEF RelayReceive
      <4>2. toRelay[1] \in Messages
          BY <2>c, <4>1
      <4>3. QED
          BY <2>9, <4>1, <4>2 DEF RelayReceive, PinAfter, OpeningIn, Messages
    <3>3. QED
        BY <2>a, <2>b, <2>9, <3>1, <3>2 DEF RelayReceive
  <2>10. CASE LinkLoss \/ Reset
    <3>1. OpeningIn(toRelay') => OpeningIn(toRelay)
        BY <2>c, <2>10, OpeningOfPrefix DEF LinkLoss, Reset
    <3>2. QED
        BY <2>a, <2>b, <2>10, <3>1 DEF LinkLoss, Reset, ResetCenter
  <2>11. CASE WatchdogReset
    <3>1. OpeningIn(toRelay') => OpeningIn(Commands)
        BY <2>11, CommandsType, OpeningOfPrefix DEF WatchdogReset
    <3>2. QED
        BY <2>b, <2>11, <3>1, OpeningOfCommands DEF WatchdogReset, ResetCenter
  <2>12. CASE UNCHANGED <<BLOCK, notAlcoholState, unblockNowState, toRelay,
                          relayPin>>
      BY <2>a, <2>b, <2>12
  <2>13. QED
      BY <2>1, <2>2, <2>3, <2>4, <2>5, <2>6, <2>7, <2>8, <2>9, <2>10,
         <2>11, <2>12, QuietSteps
<1>2. QED
    BY <1>1, TypeInvariant, LockedRestsHolds, PTL DEF Spec, OpensOnlyWhenAsked

(* The Center implements the lease: the report of a clean test answers the *)
(* test and unblockNow the app, alcohol, blockNow and every reset revoke,  *)
(* the countdown ticks, and the link is invisible.                         *)
THEOREM LeaseRefinement ==
  ASSUME 0 \notin Minutes
  PROVE  Spec => KeepsLease
<1> USE ConstantsAssumption
<1>1. Init => TheLease!LeaseInit
    BY DEF Init, TheLease!LeaseInit, Waiting
<1>2. TypeOK /\ CountdownMatchesLock /\ [Next]_vars
        => [TheLease!LeaseNext]_(TheLease!leaseVars)
  <2> SUFFICES ASSUME TypeOK, CountdownMatchesLock, [Next]_vars
               PROVE  TheLease!LeaseNext \/ UNCHANGED TheLease!leaseVars
      OBVIOUS
  <2> USE DEF loopVars, lockVars, flagVars, TheLease!leaseVars, Waiting
  <2>1. CASE ReportAlcohol
    <3>1. TheLease!Revoke
        BY <2>1 DEF ReportAlcohol, TheLease!Revoke
    <3>2. QED
        BY <3>1 DEF TheLease!LeaseNext
  <2>2. CASE ReportClean
    <3>1. TheLease!Grant("test")
        BY <2>2 DEF ReportClean, TypeOK, TheLease!Grant
    <3>2. QED
        BY <3>1 DEF TheLease!LeaseNext, TheLease!Requesters
  <2>3. CASE CarryOutCommands
    <3>1. CASE unblockNowState = 1
      <4>1. TheLease!Grant("app")
          BY <2>3, <3>1
          DEF CarryOutCommands, ClearCommands, NewBLOCK, NewTimedown, TypeOK,
              TheLease!Grant
      <4>2. QED
          BY <4>1 DEF TheLease!LeaseNext, TheLease!Requesters
    <3>2. CASE unblockNowState # 1 /\ blockNowState = 1
      <4>1. TheLease!Revoke
          BY <2>3, <3>2
          DEF CarryOutCommands, ClearCommands, NewBLOCK, NewTimedown,
              TheLease!Revoke
      <4>2. QED
          BY <4>1 DEF TheLease!LeaseNext
    <3>3. CASE unblockNowState # 1 /\ blockNowState # 1
        BY <2>3, <3>3
        DEF CarryOutCommands, ClearCommands, NewBLOCK, NewTimedown
    <3>4. QED
        BY <3>1, <3>2, <3>3
  <2>4. CASE CountMinute
    <3>1. TheLease!Tick
        BY <2>4 DEF CountMinute, MinuteElapsed, LockAtZero, TheLease!Tick,
                    CountdownMatchesLock, TypeOK, Bit
    <3>2. QED
        BY <3>1 DEF TheLease!LeaseNext
  <2>5. CASE Verdict
    <3>1. UNCHANGED <<BLOCK, timedownMinute>>
        BY <2>5 DEF Verdict
    <3>2. \/ UNCHANGED Waiting
          \/ "test" \notin Waiting /\ Waiting' = Waiting \cup {"test"}
        BY <2>5 DEF Verdict
    <3>3. UNCHANGED Waiting \/ TheLease!Ask("test")
        BY <3>1, <3>2 DEF TheLease!Ask
    <3>4. QED
        BY <3>1, <3>3 DEF TheLease!LeaseNext, TheLease!Requesters
  <2>6. CASE AppButton
    <3>1. UNCHANGED <<BLOCK, timedownMinute>>
        BY <2>6 DEF AppButton
    <3>2. \/ UNCHANGED Waiting
          \/ "app" \notin Waiting /\ Waiting' = Waiting \cup {"app"}
        BY <2>6 DEF AppButton
    <3>3. UNCHANGED Waiting \/ TheLease!Ask("app")
        BY <3>1, <3>2 DEF TheLease!Ask
    <3>4. QED
        BY <3>1, <3>3 DEF TheLease!LeaseNext, TheLease!Requesters
  <2>7. CASE Reset \/ WatchdogReset
    <3>1. TheLease!Revoke
        BY <2>7 DEF Reset, WatchdogReset, ResetCenter, TheLease!Revoke
    <3>2. QED
        BY <3>1 DEF TheLease!LeaseNext
  <2>8. CASE Setup \/ AppLogin \/ LoopHead \/ PollSockets \/ AcceptRelay
             \/ SkipUpdate \/ SkipCountdown \/ SkipBreath \/ LoopEnd
             \/ AppUnlockTime
      BY <2>8 DEF Setup, AppLogin, LoopHead, PollSockets, AcceptRelay,
                  SkipUpdate, SkipCountdown, SkipBreath, LoopEnd, AppUnlockTime
  <2>9. CASE PressButton \/ Clock \/ Relay \/ CenterNoticesLoss
             \/ RelayRestart \/ LinkLoss
      BY <2>9 DEF PressButton, Clock, SecondPasses, MinutePasses, Relay,
                  RelayConnect, RelayUpgraded, RelayReceive, RelayNoticesLoss,
                  CenterNoticesLoss, RelayRestart, LinkLoss
  <2>10. CASE UNCHANGED vars
      BY <2>10 DEF vars
  <2>11. QED
      BY <2>1, <2>2, <2>3, <2>4, <2>5, <2>6, <2>7, <2>8, <2>9, <2>10
      DEF Next, Loop, App, Faults
<1>3. Spec => [](TypeOK /\ CountdownMatchesLock)
    BY TypeInvariant, Agreement, PTL
<1>4. QED
    BY <1>1, <1>2, <1>3, PTL DEF Spec, KeepsLease, TheLease!LeaseSafety

-----------------------------------------------------------------------------
(* Interlock allows the breath test everything its contract does: what the *)
(* contract may do in readIsAlcohol() is a step Verdict, a press is a step *)
(* PressButton, and a report takes the verdict.  BreathTest refines the    *)
(* contract, so Interlock leaves out nothing the breath test can say.      *)
TheContract == INSTANCE BreathContract
  WITH testing <- alcoholFlash, alcohol <- isAlcoholState,
       clean <- notAlcoholState

BesidesBreath ==
  <<secondDue, minuteDue, wifiFlash, lockVars, blockNowState, unblockNowState,
    k, unlockMinutes, linkVars, relayPin, faults>>

LEMMA ContractIsAdmitted ==
  /\ /\ TheContract!GiveUp \/ TheContract!Give
     /\ pc = "breath" /\ pc' = "blynk" /\ UNCHANGED BesidesBreath
     => Verdict
  /\ TheContract!Begin /\ Running /\ UNCHANGED <<pc, BesidesBreath>>
     => PressButton
  /\ ReportAlcohol \/ ReportClean => TheContract!Take
<1> USE DEF BesidesBreath, lockVars, linkVars
<1>1. ASSUME TheContract!GiveUp \/ TheContract!Give,
             pc = "breath", pc' = "blynk", UNCHANGED BesidesBreath
      PROVE  Verdict
    BY <1>1 DEF TheContract!GiveUp, TheContract!Give, TheContract!End, Verdict
<1>2. ASSUME TheContract!Begin, Running, UNCHANGED <<pc, BesidesBreath>>
      PROVE  PressButton
    BY <1>2 DEF TheContract!Begin, PressButton, loopVars, flagVars
<1>3. ASSUME ReportAlcohol \/ ReportClean PROVE TheContract!Take
    BY <1>3 DEF ReportAlcohol, ReportClean, TheContract!Take
<1>4. QED
    BY <1>1, <1>2, <1>3
=============================================================================

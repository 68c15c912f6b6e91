------------------------------ MODULE Interlock ------------------------------
(***************************************************************************)
(* The ignition interlock: the Center (main/Center.v7) decides whether the *)
(* car is locked, the Relay (main/Relay.v3) obeys over a WebSocket on the  *)
(* Center's own access point.                                              *)
(*                                                                         *)
(* The Center is one Arduino loop; pc names the call the pass has reached: *)
(*                                                                         *)
(*   check -> ws -> update -> countdown -> breath -> blynk -> check ...    *)
(*                                                                         *)
(* Handlers set the four command flags, updateWebsocket() turns the flags  *)
(* into broadcasts about once a second, the countdown locks again when the *)
(* minutes granted by a clean test have passed.  While the update reports  *)
(* a verdict to the app ("alcohol", "clean"), Blynk delivers what the app  *)
(* has sent, in the middle of the update.  The relay pin follows the last  *)
(* message delivered on the TCP session, which may die and be replaced at  *)
(* any time.  C flags and bools are 0 or 1, as in the code.                *)
(*                                                                         *)
(* The breath test is reduced to its verdict (module BreathTest has it in  *)
(* full), and how long the Relay has been silent to a free choice.         *)
(***************************************************************************)
EXTENDS Integers, Sequences

CONSTANTS Minutes,     \* unlock times the app may store with V30, in minutes
          Window,      \* bound: frames in flight before the loop sends more
          MaxFaults    \* bound: link losses, resets and relay restarts

ASSUME ConstantsAssumption ==
  /\ Minutes \subseteq Nat
  /\ Minutes # {}
  /\ Window \in Nat \ {0}
  /\ MaxFaults \in Nat

Bit == {0, 1}
Closing == {"detectAlcohol", "blockNow"}
Opening == {"notDetectAlcohol", "unblockNow"}
Messages == Closing \cup Opening

VARIABLES
  pc,               \* the call loop() has reached, or "boot" or "login"
  wifiFlash,        \* booted with the house WiFi, hence with Blynk
  BLOCK,            \* the Center's lock flag
  timedownMinute,   \* minutes until the next breath test is due
  isAlcoholState, notAlcoholState, blockNowState, unblockNowState,
  alcoholFlash,     \* a breath test is under way
  k,                \* a relay has connected since boot: the watchdog is armed
  secondDue,        \* more than 1 s since updateWebsocket() last ran
  minuteDue,        \* more than 59.953 s since previousOneMinuteCounter
  unlockMinutes,    \* EEPROM[100..101], survives a reset
  wire,             \* the TCP session the Relay last opened is alive
  slot,             \* the Center holds it as a CONNECTED WebSocket client
  relayEnd,         \* status of the Relay's WebSocketsClient
  toRelay,          \* frames sent on that session, oldest first
  relayPin,         \* GPIO0 of the Relay: HIGH lets the engine start
  faults            \* faults so far

loopVars == <<pc, secondDue, minuteDue>>
lockVars == <<BLOCK, timedownMinute>>
flagVars == <<isAlcoholState, notAlcoholState, blockNowState, unblockNowState>>
linkVars == <<wire, slot, relayEnd, toRelay>>
vars == <<loopVars, wifiFlash, lockVars, flagVars, alcoholFlash, k,
          unlockMinutes, linkVars, relayPin, faults>>

-----------------------------------------------------------------------------
(* What a frame does to the pin, and what the pin will be once every frame *)
(* in flight has been applied.                                             *)
PinAfter(m) == IF m \in Closing THEN "LOW" ELSE "HIGH"

FinalPin == IF toRelay = <<>> THEN relayPin ELSE PinAfter(toRelay[Len(toRelay)])

PinFor(block) == IF block = 1 THEN "LOW" ELSE "HIGH"

(* broadcastTXT drops the frame unless the client's slot is CONNECTED; on  *)
(* a dead session it is lost on the way.                                   *)
SendIf(flag, m, q) ==
  IF flag = 1 /\ wire = 1 /\ slot = 1 THEN Append(q, m) ELSE q

-----------------------------------------------------------------------------
Init ==
  /\ pc = "boot" /\ wifiFlash = 0
  /\ BLOCK = 1 /\ timedownMinute = 0
  /\ isAlcoholState = 0 /\ notAlcoholState = 0
  /\ blockNowState = 0 /\ unblockNowState = 0
  /\ alcoholFlash = 0 /\ k = 0 /\ secondDue = 0 /\ minuteDue = 0
  /\ unlockMinutes \in Minutes
  /\ wire = 0 /\ slot = 0 /\ relayEnd = "closed" /\ toRelay = <<>>
  /\ relayPin = "LOW" /\ faults = 0

(* setup(): testWiFi() picks the branch.  With WiFi, Blynk.begin() then    *)
(* tries until the app's server answers; the access point, the WebSocket   *)
(* server and the button come after it.  Booting takes more than a second. *)
Setup ==
  /\ pc = "boot" /\ secondDue' = 1
  /\ \/ wifiFlash' = 0 /\ pc' = "check"
     \/ wifiFlash' = 1 /\ pc' = "login"
  /\ UNCHANGED <<minuteDue, lockVars, flagVars, alcoholFlash, k,
                 unlockMinutes, linkVars, relayPin, faults>>

AppLogin ==
  /\ pc = "login" /\ pc' = "check"
  /\ UNCHANGED <<secondDue, minuteDue, wifiFlash, lockVars, flagVars,
                 alcoholFlash, k, unlockMinutes, linkVars, relayPin, faults>>

Running == pc \notin {"boot", "login"}

(* ESP.reset(): RAM is lost, the EEPROM is not; the session dies, but the  *)
(* Relay may still read the frames its TCP stack has received.             *)
ResetCenter ==
  /\ faults < MaxFaults /\ faults' = faults + 1
  /\ pc' = "boot" /\ wifiFlash' = 0
  /\ BLOCK' = 1 /\ timedownMinute' = 0
  /\ isAlcoholState' = 0 /\ notAlcoholState' = 0
  /\ blockNowState' = 0 /\ unblockNowState' = 0
  /\ alcoholFlash' = 0 /\ k' = 0 /\ secondDue' = 0 /\ minuteDue' = 0
  /\ wire' = 0 /\ slot' = 0
  /\ UNCHANGED <<unlockMinutes, relayEnd, relayPin>>

(* The head of loop(): a failed check_connect() or a new WiFi saved by     *)
(* cai_dat() resets, as may a power cut at any other point.                *)
LoopHead ==
  /\ pc = "check" /\ pc' = "ws"
  /\ UNCHANGED <<secondDue, minuteDue, wifiFlash, lockVars, flagVars,
                 alcoholFlash, k, unlockMinutes, linkVars, relayPin, faults>>

Reset ==
  /\ pc # "boot"
  /\ ResetCenter
  /\ \E n \in 0..Len(toRelay) : toRelay' = SubSeq(toRelay, 1, n)

(* webSocket.loop() with no new relay: heartbeats change nothing here.     *)
PollSockets ==
  /\ pc = "ws" /\ pc' = "update"
  /\ UNCHANGED <<secondDue, minuteDue, wifiFlash, lockVars, flagVars,
                 alcoholFlash, k, unlockMinutes, linkVars, relayPin, faults>>

(* Mutant: the Relay is always told to lock when it connects.              *)
AnswerAlwaysBlocks == "blockNow"

(* webSocketEvent() answers the CONNECTED event, whose payload is the URL  *)
(* "/", from timedownMinute.                                               *)
Answer == IF timedownMinute = 0 THEN "blockNow" ELSE "unblockNow"

(* webSocket.loop() completing a handshake.                                *)
AcceptRelay ==
  /\ pc = "ws" /\ pc' = "update"
  /\ wire = 1 /\ slot = 0 /\ relayEnd = "handshake"
  /\ slot' = 1 /\ k' = 1
  /\ toRelay' = <<Answer>>
  /\ UNCHANGED <<secondDue, minuteDue, wifiFlash, lockVars, flagVars,
                 alcoholFlash, unlockMinutes, wire, relayEnd, relayPin, faults>>

(* updateWebsocket() handles the four flags in the order of the code, and  *)
(* a later branch overrides what an earlier one has just set.  The two     *)
(* branches of a verdict end in writes to the app, which are points where  *)
(* Blynk runs; the two of a command write nothing.                         *)
Updating ==
  IF pc = "update"
    THEN secondDue = 1 /\ Len(toRelay) < Window /\ secondDue' = 0
    ELSE pc \in {"alcohol", "clean"} /\ UNCHANGED secondDue

ReportAlcohol ==
  /\ Updating /\ isAlcoholState = 1 /\ pc' = "alcohol"
  /\ toRelay' = SendIf(1, "detectAlcohol", toRelay)
  /\ BLOCK' = 1 /\ timedownMinute' = 0 /\ isAlcoholState' = 0
  /\ UNCHANGED <<minuteDue, wifiFlash, notAlcoholState, blockNowState,
                 unblockNowState, alcoholFlash, k, unlockMinutes,
                 wire, slot, relayEnd, relayPin, faults>>

ReportClean ==
  /\ Updating /\ isAlcoholState = 0 /\ notAlcoholState = 1 /\ pc' = "clean"
  /\ toRelay' = SendIf(1, "notDetectAlcohol", toRelay)
  /\ BLOCK' = 0 /\ timedownMinute' = unlockMinutes /\ notAlcoholState' = 0
  /\ UNCHANGED <<minuteDue, wifiFlash, isAlcoholState, blockNowState,
                 unblockNowState, alcoholFlash, k, unlockMinutes,
                 wire, slot, relayEnd, relayPin, faults>>

(* blockNowState, then unblockNowState.                                    *)
NewBLOCK ==
  IF unblockNowState = 1 THEN 0 ELSE IF blockNowState = 1 THEN 1 ELSE BLOCK

(* Mutant: the countdown is left running by a command that locks.          *)
NewTimedownKeptByLock ==
  IF unblockNowState = 1 THEN unlockMinutes ELSE timedownMinute

NewTimedown ==
  IF unblockNowState = 1 THEN unlockMinutes
  ELSE IF blockNowState = 1 THEN 0 ELSE timedownMinute

Commands ==
  SendIf(unblockNowState, "unblockNow",
  SendIf(blockNowState, "blockNow", toRelay))

(* Mutant: unblockNowState is not consumed.                                *)
ClearCommandsButUnblock == blockNowState' = 0 /\ UNCHANGED unblockNowState

ClearCommands == blockNowState' = 0 /\ unblockNowState' = 0

(* What is left of the update once no verdict waits.  The minute starts    *)
(* again after the report of a clean test and after an unblockNow.         *)
CarryOutCommands ==
  /\ Updating /\ isAlcoholState = 0 /\ notAlcoholState = 0
  /\ pc' = "countdown"
  /\ toRelay' = Commands
  /\ BLOCK' = NewBLOCK /\ timedownMinute' = NewTimedown
  /\ ClearCommands
  /\ minuteDue' =
       IF pc = "clean" \/ unblockNowState = 1 THEN 0 ELSE minuteDue
  /\ UNCHANGED <<wifiFlash, isAlcoholState, notAlcoholState, alcoholFlash, k,
                 unlockMinutes, wire, slot, relayEnd, relayPin, faults>>

(* The tail of updateWebsocket(): nothing heard from the Relay for 25 s.   *)
(* The flags have been handled, so their frames may reach the Relay.       *)
WatchdogReset ==
  /\ pc \in {"update", "alcohol", "clean"}
  /\ pc = "update" => secondDue = 1 /\ Len(toRelay) < Window
  /\ isAlcoholState = 0 /\ notAlcoholState = 0 /\ k = 1
  /\ ResetCenter
  /\ \E n \in 0..Len(Commands) : toRelay' = SubSeq(Commands, 1, n)

SkipUpdate ==
  /\ pc = "update" /\ secondDue = 0 /\ pc' = "countdown"
  /\ UNCHANGED <<secondDue, minuteDue, wifiFlash, lockVars, flagVars,
                 alcoholFlash, k, unlockMinutes, linkVars, relayPin, faults>>

(* Mutants: the guard on the minutes is dropped, or stops one short.       *)
MinuteElapsedAtZero == minuteDue = 1
MinuteElapsedAboveOne == minuteDue = 1 /\ timedownMinute > 1

MinuteElapsed == minuteDue = 1 /\ timedownMinute # 0

(* Mutant: the Relay is not told that the time is up.                      *)
LockAtZeroSilently(left) ==
  /\ BLOCK' = IF left = 0 THEN 1 ELSE BLOCK
  /\ UNCHANGED blockNowState

LockAtZero(left) ==
  IF left = 0 THEN BLOCK' = 1 /\ blockNowState' = 1
              ELSE UNCHANGED <<BLOCK, blockNowState>>

(* The countdown of loop(): the flag locks at once, the Relay is told by   *)
(* the next updateWebsocket().                                             *)
CountMinute ==
  /\ pc = "countdown" /\ MinuteElapsed
  /\ pc' = "breath" /\ minuteDue' = 0
  /\ timedownMinute' = timedownMinute - 1
  /\ LockAtZero(timedownMinute - 1)
  /\ UNCHANGED <<secondDue, wifiFlash, isAlcoholState, notAlcoholState,
                 unblockNowState, alcoholFlash, k, unlockMinutes, linkVars,
                 relayPin, faults>>

SkipCountdown ==
  /\ pc = "countdown" /\ ~MinuteElapsed
  /\ pc' = "breath"
  /\ UNCHANGED <<secondDue, minuteDue, wifiFlash, lockVars, flagVars,
                 alcoholFlash, k, unlockMinutes, linkVars, relayPin, faults>>

(* readIsAlcohol(), only called while alcoholFlash is set: sample and go   *)
(* on, or close the window with one of the three outcomes.  A verdict is   *)
(* only given once the previous one has been consumed (BreathContract:     *)
(* a window lasts 7 s, and one that ends early has no verdict).            *)
SkipBreath ==
  /\ pc = "breath" /\ pc' = "blynk"
  /\ UNCHANGED <<secondDue, minuteDue, wifiFlash, lockVars, flagVars,
                 alcoholFlash, k, unlockMinutes, linkVars, relayPin, faults>>

Verdict ==
  /\ pc = "breath" /\ alcoholFlash = 1
  /\ pc' = "blynk" /\ alcoholFlash' = 0
  /\ \/ /\ isAlcoholState = 0 /\ notAlcoholState = 0
        /\ \/ isAlcoholState' = 1 /\ UNCHANGED notAlcoholState
           \/ notAlcoholState' = 1 /\ UNCHANGED isAlcoholState
     \/ UNCHANGED <<isAlcoholState, notAlcoholState>>
  /\ UNCHANGED <<secondDue, minuteDue, wifiFlash, lockVars, blockNowState,
                 unblockNowState, k, unlockMinutes, linkVars, relayPin, faults>>

(* Blynk.run() delivers what the app has sent: from loop(), and, because   *)
(* each write to the app may call it (BlynkProtocol::sendCmd), from within *)
(* the reports of a verdict, the status written ahead of the countdown,    *)
(* and setup(), whose commands stand at "check".  Not from a handler: one  *)
(* message is handled at a time.  Writes elsewhere (the answer to "/",     *)
(* readIsAlcohol(), the watchdog) add no order to these.                   *)
BlynkRuns ==
  wifiFlash = 1 /\ pc \in {"check", "alcohol", "clean", "countdown", "blynk"}

(* The V1 button of the app toggles whatever BLOCK says now.               *)
AppButton ==
  /\ BlynkRuns
  /\ IF BLOCK = 1
       THEN unblockNowState' = 1 /\ UNCHANGED blockNowState
       ELSE blockNowState' = 1 /\ UNCHANGED unblockNowState
  /\ UNCHANGED <<loopVars, wifiFlash, lockVars, isAlcoholState,
                 notAlcoholState, alcoholFlash, k, unlockMinutes, linkVars,
                 relayPin, faults>>

(* V30 stores a new unlock time.                                           *)
AppUnlockTime ==
  /\ BlynkRuns
  /\ unlockMinutes' \in Minutes
  /\ UNCHANGED <<loopVars, wifiFlash, lockVars, flagVars, alcoholFlash, k,
                 linkVars, relayPin, faults>>

LoopEnd ==
  /\ pc = "blynk" /\ pc' = "check"
  /\ UNCHANGED <<secondDue, minuteDue, wifiFlash, lockVars, flagVars,
                 alcoholFlash, k, unlockMinutes, linkVars, relayPin, faults>>

-----------------------------------------------------------------------------
(* The interrupt measureAlcoholConcentration(), at any point of the loop.  *)
(* setup() clears alcoholFlash last, so a press during boot is lost.       *)
PressButton ==
  /\ Running
  /\ alcoholFlash' = 1
  /\ UNCHANGED <<loopVars, wifiFlash, lockVars, flagVars, k, unlockMinutes,
                 linkVars, relayPin, faults>>

(* millis(): a second passes since the last updateWebsocket(), and, not    *)
(* before a second has, a minute since the last countdown.                 *)
SecondPasses ==
  /\ Running /\ secondDue = 0 /\ secondDue' = 1
  /\ UNCHANGED <<pc, minuteDue, wifiFlash, lockVars, flagVars, alcoholFlash,
                 k, unlockMinutes, linkVars, relayPin, faults>>

MinutePasses ==
  /\ Running /\ minuteDue = 0 /\ minuteDue' = 1 /\ secondDue' = 1
  /\ UNCHANGED <<pc, wifiFlash, lockVars, flagVars, alcoholFlash, k,
                 unlockMinutes, linkVars, relayPin, faults>>

-----------------------------------------------------------------------------
(* The Relay: WebSocketsClient::loop() and webSocketEvent().               *)
RelayConnect ==
  /\ relayEnd = "closed" /\ Running
  /\ relayEnd' = "handshake" /\ wire' = 1 /\ slot' = 0 /\ toRelay' = <<>>
  /\ UNCHANGED <<loopVars, wifiFlash, lockVars, flagVars, alcoholFlash, k,
                 unlockMinutes, relayPin, faults>>

(* The 101 response arrives ahead of the frames sent after it.             *)
RelayUpgraded ==
  /\ relayEnd = "handshake" /\ (slot = 1 \/ toRelay # <<>>)
  /\ relayEnd' = "open"
  /\ UNCHANGED <<loopVars, wifiFlash, lockVars, flagVars, alcoholFlash, k,
                 unlockMinutes, wire, slot, toRelay, relayPin, faults>>

RelayReceive ==
  /\ relayEnd = "open" /\ toRelay # <<>>
  /\ relayPin' = PinAfter(Head(toRelay))
  /\ toRelay' = Tail(toRelay)
  /\ UNCHANGED <<loopVars, wifiFlash, lockVars, flagVars, alcoholFlash, k,
                 unlockMinutes, wire, slot, relayEnd, faults>>

(* LinkLoss has left the frames that are read before the loss is noticed.  *)
(* The DISCONNECTED event only blinks the LED, the pin keeps its level.    *)
RelayNoticesLoss ==
  /\ relayEnd # "closed" /\ wire = 0 /\ toRelay = <<>>
  /\ relayEnd' = "closed"
  /\ UNCHANGED <<loopVars, wifiFlash, lockVars, flagVars, alcoholFlash, k,
                 unlockMinutes, wire, slot, toRelay, relayPin, faults>>

(* setup() of the Relay drives the pin LOW.                                *)
RelayRestart ==
  /\ faults < MaxFaults /\ faults' = faults + 1
  /\ relayPin' = "LOW" /\ relayEnd' = "closed" /\ wire' = 0 /\ toRelay' = <<>>
  /\ UNCHANGED <<loopVars, wifiFlash, lockVars, flagVars, alcoholFlash, k,
                 unlockMinutes, slot>>

(* The TCP session dies (radio, timeout, either end closing it): what the  *)
(* Relay has not yet received is lost.                                     *)
LinkLoss ==
  /\ wire = 1 /\ wire' = 0
  /\ faults < MaxFaults /\ faults' = faults + 1
  /\ \E n \in 0..Len(toRelay) : toRelay' = SubSeq(toRelay, 1, n)
  /\ UNCHANGED <<loopVars, wifiFlash, lockVars, flagVars, alcoholFlash, k,
                 unlockMinutes, slot, relayEnd, relayPin>>

(* clientDisconnect(): the event's payload is "", which no branch matches. *)
CenterNoticesLoss ==
  /\ pc = "ws" /\ slot = 1 /\ wire = 0 /\ slot' = 0
  /\ UNCHANGED <<loopVars, wifiFlash, lockVars, flagVars, alcoholFlash, k,
                 unlockMinutes, wire, relayEnd, toRelay, relayPin, faults>>

-----------------------------------------------------------------------------
Loop ==
  \/ Setup \/ LoopHead \/ PollSockets \/ AcceptRelay
  \/ ReportAlcohol \/ ReportClean \/ CarryOutCommands \/ SkipUpdate
  \/ CountMinute \/ SkipCountdown
  \/ SkipBreath \/ Verdict \/ LoopEnd

App == AppButton \/ AppUnlockTime

Clock == SecondPasses \/ MinutePasses

Relay == RelayConnect \/ RelayUpgraded \/ RelayReceive \/ RelayNoticesLoss

Faults == Reset \/ WatchdogReset \/ RelayRestart \/ LinkLoss

Next ==
  Loop \/ AppLogin \/ App \/ PressButton \/ Clock \/ Relay
  \/ CenterNoticesLoss \/ Faults

Spec == Init /\ [][Next]_vars

(* The loop keeps running, time passes, a socket that has bytes is read,   *)
(* and a Relay that is powered keeps reconnecting.  Nothing is assumed of  *)
(* the driver, of the app's user or of faults.                             *)
Fairness ==
  /\ WF_vars(Loop) /\ SF_vars(AcceptRelay)
  /\ WF_vars(SecondPasses) /\ WF_vars(MinutePasses)
  /\ WF_vars(RelayConnect) /\ WF_vars(RelayUpgraded)
  /\ WF_vars(RelayReceive) /\ WF_vars(RelayNoticesLoss)

FairSpecWithoutAppServer == Spec /\ Fairness

(* FairSpec also assumes that the app's server answers in the end.         *)
FairSpec == FairSpecWithoutAppServer /\ WF_vars(AppLogin)

-----------------------------------------------------------------------------
(* The types of the variables; in particular the countdown stops at 0.     *)
TypeOK ==
  /\ pc \in {"boot", "login", "check", "ws", "update", "alcohol", "clean",
            "countdown", "breath", "blynk"}
  /\ {wifiFlash, BLOCK, isAlcoholState, notAlcoholState, blockNowState,
      unblockNowState, alcoholFlash, k, secondDue, minuteDue, wire, slot}
        \subseteq Bit
  /\ timedownMinute \in Nat /\ unlockMinutes \in Minutes
  /\ relayEnd \in {"closed", "handshake", "open"}
  /\ toRelay \in Seq(Messages)
  /\ relayPin \in {"LOW", "HIGH"}
  /\ faults \in 0..MaxFaults

(* The "/" handler answers a new session from timedownMinute, everything   *)
(* else decides by BLOCK: the two must never tell different stories.       *)
CountdownMatchesLock == BLOCK = 1 <=> timedownMinute = 0

(* On a live session, once the frames in flight are applied the pin shows  *)
(* the Center's lock, except while the countdown has locked and its        *)
(* blockNow waits for the next updateWebsocket().  This is what the        *)
(* broadcasts, the "/" answer and TCP's order add up to, over any number   *)
(* of losses, resets and reconnections.                                    *)
RelayAgrees ==
  wire = 1 /\ slot = 1 =>
    FinalPin = PinFor(BLOCK) \/ (BLOCK = 1 /\ blockNowState = 1)

(* The Relay opens for nothing but a request: once the Center is locked,   *)
(* no request waits and no opening frame is on its way, only a clean test  *)
(* or the app's button can lead to one, whatever is lost, reset, buffered  *)
(* or answered to a reconnecting Relay.                                    *)
OpeningInFlight == \E i \in DOMAIN toRelay : toRelay[i] \in Opening

Unlocks == notAlcoholState = 1 \/ unblockNowState = 1

MayOpen == BLOCK = 0 \/ Unlocks \/ OpeningInFlight

AskedByDriver == pc = "breath" /\ alcoholFlash = 1 /\ notAlcoholState' = 1
AskedByApp == BlynkRuns /\ BLOCK = 1 /\ unblockNowState' = 1

OpensOnlyWhenAsked ==
  [][/\ MayOpen' => MayOpen \/ AskedByDriver \/ AskedByApp
     /\ relayPin' = "HIGH" => relayPin = "HIGH" \/ MayOpen]_vars

(* updateWebsocket() carries out a waiting unblockNow after a waiting      *)
(* blockNow, whichever was given first, so a blockNow given while an       *)
(* unblockNow waits is lost to the older command.  The app's button and    *)
(* the countdown give one only at one place: a press that Blynk delivers   *)
(* while the update reports a clean test, which has set BLOCK to 0 ahead   *)
(* of the unblockNow that waits behind it.                                 *)
LocksBehindUnlock ==
  unblockNowState = 1 /\ unblockNowState' = 1 /\ blockNowState' # blockNowState

OnlyCleanReportReorders == [][LocksBehindUnlock => pc = "clean"]_vars

(* The Center implements the lease: its loop, flags and resets never let   *)
(* the car be unlocked without a request or past the countdown.            *)
Waiting ==
  (IF notAlcoholState = 1 THEN {"test"} ELSE {})
    \cup (IF unblockNowState = 1 THEN {"app"} ELSE {})

TheLease == INSTANCE Lease
  WITH locked <- BLOCK, lease <- timedownMinute, asked <- Waiting

KeepsLease == TheLease!LeaseSafety

(* ... and every request is answered and a lease runs down.                *)
ImplementsLease == TheLease!LeaseSpec

(* "Sau do CENTER dem nguoc timedownMinute tro ve 0 thi gui lenh dong      *)
(* RELAY": the car is not unlocked for ever, unless the driver keeps       *)
(* starting tests.                                                         *)
Relocks == []<>(BLOCK = 1 \/ alcoholFlash = 1)

(* A Center that stays locked closes the relay in the end, whatever has    *)
(* happened to the session that should have carried the command.           *)
RelayFollowsLock == []<>(BLOCK = 1 => relayPin = "LOW")
=============================================================================

---------------------------- MODULE RelayWatchdog ----------------------------
(***************************************************************************)
(* The Center's watchdog over the Relay, with the times that decide it.    *)
(* The Relay sends "relayClosing" or "relayOpening" every HeartbeatPeriod; *)
(* the Center resets itself when it has handled no frame of the Relay for  *)
(* WatchdogLimit.  Both run cooperative loops: a frame waits in the socket *)
(* while the Center is in a delay() of some other call.                    *)
(*                                                                         *)
(* Time is discrete: Tick advances every age, and is held back at the      *)
(* deadlines that bound the loops.                                         *)
(***************************************************************************)
EXTENDS Integers

CONSTANTS HeartbeatPeriod,  \* 20000 ms, Relay.v3.c:90
          RelayLag,         \* longest pass of the Relay's loop
          NetworkDelay,     \* longest time a frame is under way
          CenterPass,       \* longest time between two webSocket.loop()
          UpdatePeriod,     \* 1000 ms, Center.v7.c:383
          WatchdogLimit     \* 25000 ms, offWebsocket.h:164

ASSUME TimesAssumption ==
  /\ {HeartbeatPeriod, RelayLag, NetworkDelay, CenterPass, UpdatePeriod,
      WatchdogLimit} \subseteq Nat
  /\ CenterPass > 0

(* The Relay sends the next heartbeat after the last one has been read.    *)
ASSUME SpacingAssumption == NetworkDelay + CenterPass <= HeartbeatPeriod

NoBeat == -1

VARIABLES
  pc,            \* the Center: "poll" and "update" of a pass, or "rest" of it
  k,             \* the watchdog is armed
  up,            \* the Relay has a session the Center has accepted
  beat,          \* age of the heartbeat not yet read, or NoBeat
  sinceSent,     \* age of the Relay's previousMillis
  sinceHeard,    \* age of previousCheckConnectOfCenterVsRelay, 0 unless armed
  sincePoll,     \* time since the Center's last webSocket.loop()
  sinceUpdate    \* time since its last updateWebsocket()

vars == <<pc, k, up, beat, sinceSent, sinceHeard, sincePoll, sinceUpdate>>

Init ==
  /\ pc = "poll" /\ k = 0 /\ up = 0 /\ beat = NoBeat
  /\ sinceSent = 0 /\ sinceHeard = 0 /\ sincePoll = 0 /\ sinceUpdate = 0

(* The Relay's loop tests the period once per pass, and starts the next    *)
(* period whether or not sendTXT() found a session.                        *)
RelayHeartbeat ==
  /\ sinceSent > HeartbeatPeriod
  /\ sinceSent' = 0
  /\ beat' = IF up = 1 THEN 0 ELSE beat
  /\ UNCHANGED <<pc, k, up, sinceHeard, sincePoll, sinceUpdate>>

(* Mutant: a heartbeat is read, but the time of it is not taken.           *)
HeardIgnored(read) == UNCHANGED sinceHeard

Heard(read) == sinceHeard' = IF read THEN 0 ELSE sinceHeard

(* webSocket.loop(): a heartbeat that has arrived is read.                 *)
Poll ==
  /\ pc = "poll" /\ pc' = "update" /\ sincePoll' = 0
  /\ \E read \in BOOLEAN :
       /\ read => beat # NoBeat
       /\ beat >= NetworkDelay => read
       /\ beat' = IF read THEN NoBeat ELSE beat
       /\ Heard(read)
  /\ UNCHANGED <<k, up, sinceSent, sinceUpdate>>

(* webSocket.loop(): the "/" of a new session arms the watchdog.           *)
PollAccepts ==
  /\ pc = "poll" /\ pc' = "update" /\ sincePoll' = 0
  /\ up = 0 /\ up' = 1 /\ k' = 1 /\ beat' = NoBeat /\ sinceHeard' = 0
  /\ UNCHANGED <<sinceSent, sinceUpdate>>

(* Mutant: a period in the wrong unit.                                     *)
UpdateDueLate == sinceUpdate > 60 * UpdatePeriod

UpdateDue == sinceUpdate > UpdatePeriod

(* Mutant: a limit twice as long.                                          *)
SilentTwice == k = 1 /\ sinceHeard > 2 * WatchdogLimit

Silent == k = 1 /\ sinceHeard > WatchdogLimit

Update ==
  /\ pc = "update" /\ UpdateDue /\ ~Silent
  /\ pc' = "rest" /\ sinceUpdate' = 0
  /\ UNCHANGED <<k, up, beat, sinceSent, sinceHeard, sincePoll>>

(* ESP.reset(): the Center starts over and the session is gone.  The time  *)
(* of setup() is left out: nothing is armed before the next "/".           *)
WatchdogReset ==
  /\ pc = "update" /\ UpdateDue /\ Silent
  /\ pc' = "poll" /\ k' = 0 /\ up' = 0 /\ beat' = NoBeat
  /\ sinceHeard' = 0 /\ sincePoll' = 0 /\ sinceUpdate' = 0
  /\ UNCHANGED sinceSent

SkipUpdate ==
  /\ pc = "update" /\ ~UpdateDue /\ pc' = "rest"
  /\ UNCHANGED <<k, up, beat, sinceSent, sinceHeard, sincePoll, sinceUpdate>>

NextPass ==
  /\ pc = "rest" /\ pc' = "poll"
  /\ UNCHANGED <<k, up, beat, sinceSent, sinceHeard, sincePoll, sinceUpdate>>

(* The session dies; a heartbeat the Center has received can still be read.*)
LinkLoss ==
  /\ up = 1 /\ up' = 0
  /\ beat' \in {beat, NoBeat}
  /\ UNCHANGED <<pc, k, sinceSent, sinceHeard, sincePoll, sinceUpdate>>

(* A Relay that restarts starts its period over.                           *)
RelayRestart ==
  /\ up' = 0 /\ beat' \in {beat, NoBeat} /\ sinceSent' = 0
  /\ UNCHANGED <<pc, k, sinceHeard, sincePoll, sinceUpdate>>

Tick ==
  /\ sincePoll < CenterPass
  /\ sinceSent <= HeartbeatPeriod + RelayLag
  /\ sincePoll' = sincePoll + 1
  /\ sinceSent' = sinceSent + 1
  /\ sinceUpdate' = sinceUpdate + 1
  /\ sinceHeard' = IF k = 1 THEN sinceHeard + 1 ELSE 0
  /\ beat' = IF beat = NoBeat THEN NoBeat ELSE beat + 1
  /\ UNCHANGED <<pc, k, up>>

Center ==
  \/ Poll \/ PollAccepts \/ Update \/ WatchdogReset \/ SkipUpdate \/ NextPass

Next == Center \/ RelayHeartbeat \/ LinkLoss \/ RelayRestart \/ Tick

Spec == Init /\ [][Next]_vars

-----------------------------------------------------------------------------
(* The types of the variables and the deadlines that hold Tick back.       *)
TypeOK ==
  /\ pc \in {"poll", "update", "rest"}
  /\ k \in {0, 1} /\ up \in {0, 1}
  /\ beat \in Nat \cup {NoBeat}
  /\ sinceSent \in 0..(HeartbeatPeriod + RelayLag + 1)
  /\ sincePoll \in 0..CenterPass
  /\ sinceHeard \in Nat
  /\ sinceUpdate \in 0..(UpdatePeriod + 2 * CenterPass)

(* The longest silence of a Relay that is there: a heartbeat may be late,  *)
(* then under way, then waiting for the Center to poll.                    *)
LongestSilence == HeartbeatPeriod + RelayLag + 1 + NetworkDelay + CenterPass

(* A limit above it leaves a Relay that is connected and sending alone,    *)
(* whatever the loops were doing when its frames arrived.                  *)
NoFalseAlarm == LongestSilence <= WatchdogLimit => (up = 1 => ~Silent)

(* A Relay that is gone is noticed before this much silence.               *)
SilenceIsNoticed ==
  sinceHeard <= WatchdogLimit + UpdatePeriod + 2 * CenterPass
=============================================================================

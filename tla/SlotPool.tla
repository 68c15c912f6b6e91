------------------------------ MODULE SlotPool ------------------------------
(***************************************************************************)
(* The client slots of the Center's WebSocket server.  Each TCP connection *)
(* takes a slot until the server sees that it is lost, and it sees that    *)
(* only of a connection whose end says so or to which it has something to  *)
(* send: there is no keep-alive, no heartbeat and no time limit for a      *)
(* handshake.  The Relay is the only client.  It connects again whenever   *)
(* it has lost its connection, so one Relay may hold many slots.           *)
(*                                                                         *)
(* Of the frames only this is left: whether the Center has sent something  *)
(* into a slot that nobody will acknowledge.                               *)
(***************************************************************************)
EXTENDS Naturals, Sequences

CONSTANTS Slots,      \* WEBSOCKETS_SERVER_CLIENT_MAX, 5 in the code
          MaxFaults   \* bound: connections lost, and resets but PoolFull

ASSUME SlotPoolAssumption == Slots \in Nat \ {0} /\ MaxFaults \in Nat

VARIABLES
  slots,       \* _clients
  unclaimed,   \* connections that loop() has not taken yet
  at,          \* 0 in handleNewClients(), else the slot handleClientData() is at
  relay,       \* status of the Relay's own client
  faults

vars == <<slots, unclaimed, at, relay, faults>>

Pool == 1..Slots

(* The other end of a connection: the Relay ("live"), nobody, but TCP does *)
(* not know ("gone"), or nobody, and TCP knows ("dead").                   *)
Ends == {"live", "gone", "dead"}

Free == [status |-> "NOT_CONNECTED", peer |-> "none",
         request |-> FALSE, sent |-> FALSE]

(* Mutant: the status is left as it is in a free slot.                     *)
ClientWithoutStatus(c) ==
  [status |-> "NOT_CONNECTED", peer |-> c.peer,
   request |-> c.request, sent |-> FALSE]

NewClient(c) ==
  [status |-> "HEADER", peer |-> c.peer, request |-> c.request, sent |-> FALSE]

(* The code after a reset.  What the Relay has of the old connection is    *)
(* with it alone.                                                          *)
Boot ==
  /\ slots' = [i \in Pool |-> Free] /\ unclaimed' = <<>> /\ at' = 0
  /\ UNCHANGED relay

Init ==
  /\ slots = [i \in Pool |-> Free] /\ unclaimed = <<>> /\ at = 0
  /\ relay = "off" /\ faults = 0

-----------------------------------------------------------------------------
(* Mutant: a lost connection counts until somebody cleans it up.           *)
KeepsLost(s) == s.status # "NOT_CONNECTED"

ClientIsConnected(s) ==
  s.status # "NOT_CONNECTED" /\ s.peer \in {"live", "gone"}

(* clientIsConnected() disconnects a client it finds lost.                 *)
Cleaned(s) == IF ClientIsConnected(s) THEN s ELSE Free

SendFrame(s) ==
  IF ClientIsConnected(s) /\ s.status = "CONNECTED" /\ s.peer = "gone"
  THEN [s EXCEPT !.sent = TRUE] ELSE Cleaned(s)

BroadcastTXT(pool) == [j \in Pool |-> SendFrame(pool[j])]

(* handleNewClients(): the first slot that is not connected.               *)
HandleNewClient ==
  /\ at = 0 /\ unclaimed # <<>>
  /\ \E i \in Pool :
       /\ ~ClientIsConnected(slots[i])
       /\ \A j \in 1..(i - 1) : ClientIsConnected(slots[j])
       /\ slots' = [slots EXCEPT ![i] = NewClient(Head(unclaimed))]
  /\ unclaimed' = Tail(unclaimed)
  /\ UNCHANGED <<at, relay, faults>>

Full == \A i \in Pool : ClientIsConnected(slots[i])

(* No free space: dropNativeClient(client) reads through the null pointer  *)
(* that newClient() has returned, which is an exception and a reset.       *)
PoolFull ==
  /\ at = 0 /\ unclaimed # <<>> /\ Full
  /\ Boot /\ UNCHANGED faults

NoNewClient ==
  /\ at = 0 /\ unclaimed = <<>> /\ at' = 1
  /\ UNCHANGED <<slots, unclaimed, relay, faults>>

(* Mutant: only the new session is answered.                               *)
AnswerCaller(pool, i) == [pool EXCEPT ![i] = SendFrame(pool[i])]

(* webSocketEvent("/"): the answer goes to every session.                  *)
Answer(pool, i) == BroadcastTXT(pool)

(* The handshake, a ping and the answer are sent when the header is whole. *)
HandleHeader(i) ==
  /\ ClientIsConnected(slots[i])
  /\ slots[i].status = "HEADER" /\ slots[i].request
  /\ LET upgraded == [slots[i] EXCEPT !.status = "CONNECTED", !.request = FALSE]
     IN slots' = Answer([slots EXCEPT ![i] = SendFrame(upgraded)], i)

HandleOther(i) ==
  /\ ~(ClientIsConnected(slots[i]) /\ slots[i].request)
  /\ slots' = [slots EXCEPT ![i] = Cleaned(slots[i])]

HandleClientData ==
  /\ at \in Pool /\ at' = at + 1
  /\ HandleHeader(at) \/ HandleOther(at)
  /\ UNCHANGED <<unclaimed, relay, faults>>

(* The rest of loop(), where updateWebsocket() may have news for the Relay.*)
LoopRest ==
  /\ at = Slots + 1 /\ at' = 0
  /\ slots' \in {slots, BroadcastTXT(slots)}
  /\ UNCHANGED <<unclaimed, relay, faults>>

(* A lost network, a silent Relay, settings saved or a power cut.          *)
Reset == faults < MaxFaults /\ faults' = faults + 1 /\ Boot

-----------------------------------------------------------------------------
LiveSlots == {i \in Pool : slots[i].peer = "live"}
LiveUnclaimed == {k \in DOMAIN unclaimed : unclaimed[k].peer = "live"}

RelayConnects ==
  /\ relay = "off" /\ relay' = "header"
  /\ unclaimed' = Append(unclaimed, [peer |-> "live", request |-> FALSE])
  /\ UNCHANGED <<slots, at, faults>>

(* The last line of the Relay's header reaches the Center.                 *)
RequestArrives ==
  /\ relay = "header"
  /\ \/ \E i \in LiveSlots :
          /\ slots[i].status = "HEADER" /\ ~slots[i].request
          /\ slots' = [slots EXCEPT ![i].request = TRUE]
          /\ UNCHANGED unclaimed
     \/ \E k \in LiveUnclaimed :
          /\ ~unclaimed[k].request
          /\ unclaimed' = [unclaimed EXCEPT ![k].request = TRUE]
          /\ UNCHANGED slots
  /\ UNCHANGED <<at, relay, faults>>

RelayUpgraded ==
  /\ relay = "header" /\ \E i \in LiveSlots : slots[i].status = "CONNECTED"
  /\ relay' = "connected"
  /\ UNCHANGED <<slots, unclaimed, at, faults>>

(* The Relay loses power or the network, with or without a last word, and  *)
(* perhaps with a frame on its way to it.                                  *)
ConnectionLost ==
  /\ faults < MaxFaults /\ faults' = faults + 1
  /\ \E end \in {"gone", "dead"} :
       \/ \E i \in LiveSlots, late \in BOOLEAN :
            /\ late => slots[i].status = "CONNECTED"
            /\ slots' = [slots EXCEPT ![i].peer = end, ![i].sent = late]
            /\ UNCHANGED unclaimed
       \/ \E k \in LiveUnclaimed :
            /\ unclaimed' = [unclaimed EXCEPT ![k].peer = end]
            /\ UNCHANGED slots
  /\ UNCHANGED <<at, relay>>

RelayNoticesLoss ==
  /\ relay # "off" /\ LiveSlots = {} /\ LiveUnclaimed = {}
  /\ relay' = "off"
  /\ UNCHANGED <<slots, unclaimed, at, faults>>

(* A frame is answered with a reset of the connection, or never.           *)
TcpGivesUp(i) ==
  /\ slots[i].peer = "gone" /\ slots[i].sent
  /\ slots' = [slots EXCEPT ![i].peer = "dead"]
  /\ UNCHANGED <<unclaimed, at, relay, faults>>

-----------------------------------------------------------------------------
Loop == HandleNewClient \/ PoolFull \/ NoNewClient \/ HandleClientData \/ LoopRest

RelayWork == RelayConnects \/ RequestArrives \/ RelayUpgraded \/ RelayNoticesLoss

Next ==
  \/ Loop \/ RelayWork \/ Reset \/ ConnectionLost
  \/ \E i \in Pool : TcpGivesUp(i)

Spec == Init /\ [][Next]_vars

(* Both loops go on, and TCP gives up in the end.                          *)
FairSpec ==
  /\ Spec /\ WF_vars(Loop) /\ WF_vars(RelayWork)
  /\ \A i \in Pool : WF_vars(TcpGivesUp(i))

-----------------------------------------------------------------------------
TypeOK ==
  /\ slots \in [Pool -> [status : {"NOT_CONNECTED", "HEADER", "CONNECTED"},
                         peer : Ends \cup {"none"},
                         request : BOOLEAN, sent : BOOLEAN]]
  /\ \A i \in Pool : slots[i].peer = "none" <=> slots[i].status = "NOT_CONNECTED"
  /\ unclaimed \in Seq([peer : Ends, request : BOOLEAN])
  /\ at \in 0..(Slots + 1)
  /\ relay \in {"off", "header", "connected"}
  /\ faults \in 0..MaxFaults

(* The slots run out, and with them the Center's uptime, only if each one  *)
(* holds a connection whose end has vanished without a word: never while   *)
(* one of them is the Relay's or known to be lost, however connections end *)
(* while they wait, shake hands or are open.                               *)
FullOnlyOfGone ==
  unclaimed # <<>> /\ Full => \A i \in Pool : slots[i].peer = "gone"

(* Whoever is in session, TCP is already trying every session that has     *)
(* vanished before: the answer to the one went into all of them.  That is  *)
(* all that ever ends a vanished session.                                  *)
VanishedAreTried ==
  (\E i \in LiveSlots : slots[i].status = "CONNECTED") =>
    \A j \in Pool :
      slots[j].status = "CONNECTED" /\ slots[j].peer = "gone" => slots[j].sent

(* A session that has vanished does not keep its slot: the answer to the   *)
(* Relay's next session goes into it, too.                                 *)
SessionsEnd ==
  \A i \in Pool :
    []<>~(slots[i].status = "CONNECTED" /\ slots[i].peer = "gone")

(* Once connections are no longer lost, the Relay has a session that every *)
(* broadcast reaches, whatever slots are held by connections that are gone.*)
InSession ==
  relay = "connected" /\ \E i \in LiveSlots : slots[i].status = "CONNECTED"

RelayIsServed == <>[]InSession
=============================================================================

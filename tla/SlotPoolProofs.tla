--------------------------- MODULE SlotPoolProofs ---------------------------
(***************************************************************************)
(* Theorems about SlotPool, for every number of slots and of faults.       *)
(***************************************************************************)
EXTENDS SlotPool, TLAPS

Client == [status : {"NOT_CONNECTED", "HEADER", "CONNECTED"},
           peer : Ends \cup {"none"}, request : BOOLEAN, sent : BOOLEAN]

Connection == [peer : Ends, request : BOOLEAN]

Coupled(s) == s.peer = "none" <=> s.status = "NOT_CONNECTED"

(* The Relay's connection is the newest one: nothing waits behind it, and  *)
(* nothing waits at all once it has a slot.                                *)
NewestLast ==
  /\ relay = "off" =>
       /\ \A i \in Pool : slots[i].peer # "live"
       /\ \A k \in DOMAIN unclaimed : unclaimed[k].peer # "live"
  /\ unclaimed # <<>> => \A i \in Pool : slots[i].peer # "live"
  /\ \A k \in DOMAIN unclaimed :
       unclaimed[k].peer = "live" => k = Len(unclaimed)

Inv == TypeOK /\ NewestLast

-----------------------------------------------------------------------------
(* What the server does with a slot leaves it a slot, and makes no end     *)
(* live.                                                                   *)
LEMMA FreeTypes == Free \in Client /\ Coupled(Free) /\ Free.peer # "live"
  BY DEF Free, Client, Coupled, Ends

LEMMA CleanedTypes ==
  ASSUME NEW s \in Client, Coupled(s)
  PROVE  /\ Cleaned(s) \in Client /\ Coupled(Cleaned(s))
         /\ Cleaned(s).peer = "live" => s.peer = "live"
  BY FreeTypes DEF Cleaned

LEMMA SendFrameTypes ==
  ASSUME NEW s \in Client, Coupled(s)
  PROVE  /\ SendFrame(s) \in Client /\ Coupled(SendFrame(s))
         /\ SendFrame(s).peer = "live" => s.peer = "live"
  <1>1. CASE ClientIsConnected(s) /\ s.status = "CONNECTED" /\ s.peer = "gone"
    BY <1>1 DEF SendFrame, Client, Coupled
  <1>2. CASE ~(ClientIsConnected(s) /\ s.status = "CONNECTED" /\ s.peer = "gone")
    BY <1>2, CleanedTypes DEF SendFrame
  <1> QED BY <1>1, <1>2

LEMMA NewClientTypes ==
  ASSUME NEW c \in Connection
  PROVE  /\ NewClient(c) \in Client /\ Coupled(NewClient(c))
         /\ NewClient(c).peer = c.peer
  BY DEF NewClient, Connection, Client, Coupled, Ends

Clients == {f \in [Pool -> Client] : \A i \in Pool : Coupled(f[i])}

LEMMA BroadcastTypes ==
  ASSUME NEW f \in Clients
  PROVE  /\ BroadcastTXT(f) \in Clients
         /\ \A i \in Pool : BroadcastTXT(f)[i].peer = "live" => f[i].peer = "live"
  BY SendFrameTypes DEF BroadcastTXT, Clients

LEMMA ReplaceTypes ==
  ASSUME NEW f \in Clients, NEW i \in Pool, NEW s \in Client, Coupled(s)
  PROVE  /\ [f EXCEPT ![i] = s] \in Clients
         /\ \A j \in Pool : [f EXCEPT ![i] = s][j] = IF j = i THEN s ELSE f[j]
  BY DEF Clients

LEMMA ReplaceConnection ==
  ASSUME NEW q \in Seq(Connection), NEW k \in DOMAIN q, NEW c \in Connection,
         NEW r, r = [q EXCEPT ![k] = c]
  PROVE  /\ r \in Seq(Connection) /\ Len(r) = Len(q) /\ DOMAIN r = DOMAIN q
         /\ \A h \in DOMAIN q : r[h] = IF h = k THEN c ELSE q[h]
         /\ r # <<>> => q # <<>>
  <1>1. Len(q) \in Nat /\ DOMAIN q = 1..Len(q) OBVIOUS
  <1>2. r \in [1..Len(q) -> Connection] BY <1>1
  <1>3. r \in Seq(Connection) /\ Len(r) = Len(q) BY <1>1, <1>2
  <1> QED BY <1>1, <1>2, <1>3

LEMMA TypeOKSplit ==
  TypeOK <=> /\ slots \in Clients /\ unclaimed \in Seq(Connection)
             /\ at \in 0..(Slots + 1) /\ relay \in {"off", "header", "connected"}
             /\ faults \in 0..MaxFaults
  BY DEF TypeOK, Clients, Client, Coupled, Connection

-----------------------------------------------------------------------------
LEMMA InitInv == Init => Inv
  <1> SUFFICES ASSUME Init PROVE Inv OBVIOUS
  <1>1. slots \in Clients /\ \A i \in Pool : slots[i].peer # "live"
    BY FreeTypes DEF Init, Clients
  <1>2. unclaimed \in Seq(Connection) /\ DOMAIN unclaimed = {}
    BY DEF Init
  <1>3. at \in 0..(Slots + 1) /\ faults \in 0..MaxFaults
    BY SlotPoolAssumption DEF Init
  <1>4. TypeOK BY <1>1, <1>2, <1>3, TypeOKSplit DEF Init
  <1> QED BY <1>1, <1>2, <1>4 DEF Inv, NewestLast, Init

LEMMA BootInv == ASSUME Inv, Boot, faults' \in 0..MaxFaults PROVE Inv'
  <1>1. slots' \in Clients /\ \A i \in Pool : slots'[i].peer # "live"
    BY FreeTypes DEF Boot, Clients
  <1>2. unclaimed' \in Seq(Connection) /\ DOMAIN unclaimed' = {}
    BY DEF Boot
  <1>3. at' \in 0..(Slots + 1) /\ relay' \in {"off", "header", "connected"}
    BY SlotPoolAssumption, TypeOKSplit DEF Boot, Inv
  <1>4. TypeOK' BY <1>1, <1>2, <1>3 DEF TypeOK, Clients, Client, Coupled, Connection
  <1> QED BY <1>1, <1>2, <1>4 DEF Inv, NewestLast, Boot

(* A step of the server that neither connects nor changes the Relay.       *)
LEMMA ServerStep ==
  ASSUME Inv, slots' \in Clients, UNCHANGED <<unclaimed, relay>>,
         at' \in 0..(Slots + 1), faults' \in 0..MaxFaults,
         \A i \in Pool : slots'[i].peer = "live" => slots[i].peer = "live"
  PROVE  Inv'
  <1>1. TypeOK'
    BY TypeOKSplit DEF Inv, TypeOK, Clients, Client, Coupled, Connection
  <1> QED BY <1>1 DEF Inv, NewestLast

LEMMA HandleNewClientInv == ASSUME Inv, HandleNewClient PROVE Inv'
  <1> DEFINE c == Head(unclaimed)
  <1>1. /\ slots \in Clients /\ unclaimed \in Seq(Connection)
        /\ at \in 0..(Slots + 1) /\ relay \in {"off", "header", "connected"}
        /\ faults \in 0..MaxFaults /\ NewestLast
    BY TypeOKSplit DEF Inv
  <1>2. /\ unclaimed # <<>> /\ unclaimed' = Tail(unclaimed)
        /\ UNCHANGED <<at, relay, faults>>
    BY DEF HandleNewClient
  <1>3. PICK i \in Pool : slots' = [slots EXCEPT ![i] = NewClient(c)]
    BY DEF HandleNewClient
  <1>4. c \in Connection /\ c = unclaimed[1] /\ 1 \in DOMAIN unclaimed
    BY <1>1, <1>2
  <1>5. /\ unclaimed' \in Seq(Connection)
        /\ Len(unclaimed') = Len(unclaimed) - 1
        /\ \A k \in DOMAIN unclaimed' :
             k + 1 \in DOMAIN unclaimed /\ unclaimed'[k] = unclaimed[k + 1]
    BY <1>1, <1>2
  <1>6. /\ slots' \in Clients
        /\ \A j \in Pool : slots'[j] = IF j = i THEN NewClient(c) ELSE slots[j]
    <2>1. NewClient(c) \in Client /\ Coupled(NewClient(c))
      BY <1>4, NewClientTypes
    <2> DEFINE s == NewClient(c)
    <2>2. slots' = [slots EXCEPT ![i] = s] BY <1>3
    <2>3. s \in Client /\ Coupled(s) BY <2>1
    <2> HIDE DEF s, c
    <2>4. /\ slots' \in Clients
          /\ \A j \in Pool : slots'[j] = IF j = i THEN s ELSE slots[j]
      BY <1>1, <2>2, <2>3 DEF Clients
    <2> QED BY <2>4 DEF s
  <1>7. TypeOK'
    BY <1>1, <1>2, <1>5, <1>6 DEF TypeOK, Clients, Client, Coupled, Connection
  <1>8. \A j \in Pool : slots'[j].peer = "live" => c.peer = "live"
    BY <1>1, <1>2, <1>4, <1>6, NewClientTypes DEF NewestLast
  <1>9. c.peer = "live" => Len(unclaimed) = 1
    BY <1>1, <1>4 DEF NewestLast
  <1>10. unclaimed' # <<>> => \A j \in Pool : slots'[j].peer # "live"
    BY <1>1, <1>2, <1>5, <1>8, <1>9
  <1>11. \A k \in DOMAIN unclaimed' :
           unclaimed'[k].peer = "live" => k = Len(unclaimed')
    <2> TAKE k \in DOMAIN unclaimed'
    <2> HAVE unclaimed'[k].peer = "live"
    <2>1. k + 1 = Len(unclaimed) BY <1>1, <1>5 DEF NewestLast
    <2>2. k \in Nat /\ Len(unclaimed) \in Nat BY <1>1, <1>5
    <2> QED BY <2>1, <2>2, <1>5
  <1>12. relay' = "off" =>
           /\ \A j \in Pool : slots'[j].peer # "live"
           /\ \A k \in DOMAIN unclaimed' : unclaimed'[k].peer # "live"
    BY <1>1, <1>2, <1>4, <1>5, <1>8 DEF NewestLast
  <1> QED BY <1>7, <1>10, <1>11, <1>12 DEF Inv, NewestLast

LEMMA HandleClientDataInv == ASSUME Inv, HandleClientData PROVE Inv'
  <1>1. slots \in Clients /\ at \in Pool /\ Slots \in Nat /\ faults \in 0..MaxFaults
    BY TypeOKSplit, SlotPoolAssumption DEF Inv, HandleClientData
  <1>2. slots[at] \in Client /\ Coupled(slots[at]) BY <1>1 DEF Clients
  <1>3. at' \in 0..(Slots + 1) /\ UNCHANGED <<unclaimed, relay, faults>>
    BY <1>1 DEF HandleClientData, Pool
  <1>4. slots' \in Clients
        /\ \A i \in Pool : slots'[i].peer = "live" => slots[i].peer = "live"
    <2>1. CASE HandleHeader(at)
      <3> DEFINE up == [slots[at] EXCEPT !.status = "CONNECTED", !.request = FALSE]
                 s == SendFrame(up)
                 pool == [slots EXCEPT ![at] = s]
      <3>1. up \in Client /\ up.peer = slots[at].peer /\ up.status = "CONNECTED"
        BY <1>2 DEF Client
      <3>2. Coupled(up)
        BY <2>1, <1>2, <3>1 DEF HandleHeader, ClientIsConnected, Coupled
      <3>3. s \in Client /\ Coupled(s) /\ (s.peer = "live" => slots[at].peer = "live")
        BY <3>1, <3>2, SendFrameTypes
      <3> HIDE DEF s
      <3>4. /\ pool \in Clients
            /\ \A i \in Pool : pool[i].peer = "live" => slots[i].peer = "live"
        BY <1>1, <3>3, ReplaceTypes
      <3>5. slots' = BroadcastTXT(pool)
        BY <2>1 DEF HandleHeader, Answer, s, up
      <3> HIDE DEF pool
      <3> QED BY <3>4, <3>5, BroadcastTypes
    <2>2. CASE HandleOther(at)
      <3>1. slots' = [slots EXCEPT ![at] = Cleaned(slots[at])]
        BY <2>2 DEF HandleOther
      <3> DEFINE s == Cleaned(slots[at])
      <3>2. s \in Client /\ Coupled(s) /\ (s.peer = "live" => slots[at].peer = "live")
        BY <1>2, CleanedTypes
      <3>3. slots' = [slots EXCEPT ![at] = s] BY <3>1
      <3> HIDE DEF s
      <3> QED BY <1>1, <3>2, <3>3 DEF Clients
    <2> QED BY <2>1, <2>2 DEF HandleClientData
  <1> QED BY <1>1, <1>3, <1>4, ServerStep

LEMMA LoopInv == ASSUME Inv, Loop PROVE Inv'
  <1>1. slots \in Clients /\ at \in 0..(Slots + 1) /\ Slots \in Nat \ {0}
        /\ faults \in 0..MaxFaults
    BY TypeOKSplit, SlotPoolAssumption DEF Inv
  <1>2. CASE HandleNewClient BY <1>2, HandleNewClientInv
  <1>3. CASE PoolFull BY <1>1, <1>3, BootInv DEF PoolFull
  <1>4. CASE NoNewClient BY <1>1, <1>4, ServerStep DEF NoNewClient
  <1>5. CASE HandleClientData BY <1>5, HandleClientDataInv
  <1>6. CASE LoopRest
    <2>1. /\ slots' \in Clients
          /\ \A i \in Pool : slots'[i].peer = "live" => slots[i].peer = "live"
      BY <1>1, <1>6, BroadcastTypes DEF LoopRest
    <2> QED BY <1>1, <1>6, <2>1, ServerStep DEF LoopRest
  <1> QED BY <1>2, <1>3, <1>4, <1>5, <1>6 DEF Loop

LEMMA RelayWorkInv == ASSUME Inv, RelayWork PROVE Inv'
  <1>1. /\ slots \in Clients /\ unclaimed \in Seq(Connection)
        /\ at \in 0..(Slots + 1) /\ relay \in {"off", "header", "connected"}
        /\ faults \in 0..MaxFaults /\ NewestLast
    BY TypeOKSplit DEF Inv
  <1>2. CASE RelayConnects
    <2> DEFINE c == [peer |-> "live", request |-> FALSE]
    <2>1. /\ unclaimed' = Append(unclaimed, c) /\ relay' = "header"
          /\ relay = "off" /\ UNCHANGED <<slots, at, faults>>
      BY <1>2 DEF RelayConnects
    <2>2. c \in Connection BY DEF Connection, Ends
    <2>3. /\ unclaimed' \in Seq(Connection)
          /\ Len(unclaimed') = Len(unclaimed) + 1
          /\ \A k \in DOMAIN unclaimed' :
               \/ k = Len(unclaimed')
               \/ k \in DOMAIN unclaimed /\ unclaimed'[k] = unclaimed[k]
      <3>1. /\ unclaimed' \in Seq(Connection)
            /\ Len(unclaimed') = Len(unclaimed) + 1
        BY <1>1, <2>1, <2>2
      <3>2. DOMAIN unclaimed = 1..Len(unclaimed) /\ Len(unclaimed) \in Nat
        BY <1>1
      <3>3. DOMAIN unclaimed' = 1..(Len(unclaimed) + 1)
        BY <3>1
      <3>4. \A k \in 1..Len(unclaimed) : unclaimed'[k] = unclaimed[k]
        BY <1>1, <2>1
      <3> QED BY <3>1, <3>2, <3>3, <3>4
    <2>4. TypeOK'
      BY <1>1, <2>1, <2>3 DEF TypeOK, Clients, Client, Coupled, Connection
    <2>5. NewestLast'
      BY <1>1, <2>1, <2>3 DEF NewestLast
    <2> QED BY <2>4, <2>5 DEF Inv
  <1>3. CASE RequestArrives
    <2>1. ASSUME NEW i \in LiveSlots,
                 slots' = [slots EXCEPT ![i].request = TRUE], UNCHANGED unclaimed
          PROVE  Inv'
      <3> DEFINE s == [slots[i] EXCEPT !.request = TRUE]
      <3>1. i \in Pool /\ slots[i] \in Client /\ Coupled(slots[i])
            /\ slots[i].peer = "live"
        BY <1>1, <2>1 DEF LiveSlots, Clients
      <3>2. s \in Client /\ Coupled(s) /\ s.peer = slots[i].peer
        BY <3>1 DEF Client, Coupled
      <3>3. slots' = [slots EXCEPT ![i] = s] BY <2>1
      <3> HIDE DEF s
      <3>4. /\ slots' \in Clients
            /\ \A j \in Pool : slots'[j].peer = "live" => slots[j].peer = "live"
        BY <1>1, <3>1, <3>2, <3>3 DEF Clients
      <3> QED BY <1>1, <1>3, <2>1, <3>4, ServerStep DEF RequestArrives
    <2>2. ASSUME NEW k \in LiveUnclaimed,
                 unclaimed' = [unclaimed EXCEPT ![k].request = TRUE], UNCHANGED slots
          PROVE  Inv'
      <3>1. /\ unclaimed' \in Seq(Connection) /\ Len(unclaimed') = Len(unclaimed)
            /\ DOMAIN unclaimed' = DOMAIN unclaimed
            /\ \A h \in DOMAIN unclaimed : unclaimed'[h].peer = unclaimed[h].peer
            /\ unclaimed' # <<>> => unclaimed # <<>>
        <4> DEFINE c == [unclaimed[k] EXCEPT !.request = TRUE]
        <4>1. k \in DOMAIN unclaimed /\ unclaimed[k] \in Connection
          BY <1>1, <2>2 DEF LiveUnclaimed
        <4>2. c \in Connection /\ c.peer = unclaimed[k].peer
          BY <4>1 DEF Connection
        <4>3. unclaimed' = [unclaimed EXCEPT ![k] = c] BY <2>2
        <4> HIDE DEF c
        <4> QED BY <1>1, <4>1, <4>2, <4>3, ReplaceConnection
      <3>2. TypeOK'
        BY <1>1, <1>3, <2>2, <3>1
        DEF RequestArrives, TypeOK, Clients, Client, Coupled, Connection
      <3>3. NewestLast' BY <1>1, <1>3, <2>2, <3>1 DEF RequestArrives, NewestLast
      <3> QED BY <3>2, <3>3 DEF Inv
    <2> QED BY <1>3, <2>1, <2>2 DEF RequestArrives
  <1>4. CASE RelayUpgraded
    BY <1>1, <1>4
    DEF RelayUpgraded, Inv, NewestLast, TypeOK, Clients, Client, Coupled, Connection
  <1>5. CASE RelayNoticesLoss
    BY <1>1, <1>5
    DEF RelayNoticesLoss, LiveSlots, LiveUnclaimed, Inv, NewestLast, TypeOK,
        Clients, Client, Coupled, Connection
  <1> QED BY <1>2, <1>3, <1>4, <1>5 DEF RelayWork

LEMMA ConnectionLostInv == ASSUME Inv, ConnectionLost PROVE Inv'
  <1>1. /\ slots \in Clients /\ unclaimed \in Seq(Connection)
        /\ at \in 0..(Slots + 1) /\ relay \in {"off", "header", "connected"}
        /\ faults \in 0..MaxFaults /\ MaxFaults \in Nat /\ NewestLast
    BY TypeOKSplit, SlotPoolAssumption DEF Inv
  <1>2. faults' \in 0..MaxFaults /\ UNCHANGED <<at, relay>>
    BY <1>1 DEF ConnectionLost
  <1>3. PICK end \in {"gone", "dead"} :
       \/ \E i \in LiveSlots, late \in BOOLEAN :
            /\ slots' = [slots EXCEPT ![i].peer = end, ![i].sent = late]
            /\ UNCHANGED unclaimed
       \/ \E k \in LiveUnclaimed :
            /\ unclaimed' = [unclaimed EXCEPT ![k].peer = end]
            /\ UNCHANGED slots
    BY DEF ConnectionLost
  <1>4. ASSUME NEW i \in LiveSlots, NEW late \in BOOLEAN, UNCHANGED unclaimed,
               slots' = [slots EXCEPT ![i].peer = end, ![i].sent = late]
        PROVE  Inv'
    <2> DEFINE s == [slots[i] EXCEPT !.peer = end, !.sent = late]
    <2>1. i \in Pool /\ slots[i] \in Client /\ Coupled(slots[i])
          /\ slots[i].peer = "live"
      BY <1>1, <1>4 DEF LiveSlots, Clients
    <2>2. s \in Client /\ Coupled(s) /\ s.peer # "live"
      BY <2>1 DEF Client, Coupled, Ends
    <2>3. slots' = [slots EXCEPT ![i] = s]
      BY <1>1, <1>4, <2>1 DEF Clients, Client
    <2> HIDE DEF s
    <2>4. /\ slots' \in Clients
          /\ \A j \in Pool : slots'[j].peer = "live" => slots[j].peer = "live"
      BY <1>1, <2>1, <2>2, <2>3 DEF Clients
    <2> QED BY <1>1, <1>2, <1>4, <2>4, ServerStep
  <1>5. ASSUME NEW k \in LiveUnclaimed, UNCHANGED slots,
               unclaimed' = [unclaimed EXCEPT ![k].peer = end]
        PROVE  Inv'
    <2>1. /\ unclaimed' \in Seq(Connection) /\ Len(unclaimed') = Len(unclaimed)
          /\ DOMAIN unclaimed' = DOMAIN unclaimed
          /\ \A h \in DOMAIN unclaimed :
               unclaimed'[h].peer = "live" => unclaimed[h].peer = "live"
          /\ unclaimed' # <<>> => unclaimed # <<>>
      <3> DEFINE c == [unclaimed[k] EXCEPT !.peer = end]
      <3>1. k \in DOMAIN unclaimed /\ unclaimed[k] \in Connection
        BY <1>1, <1>5 DEF LiveUnclaimed
      <3>2. c \in Connection /\ c.peer # "live"
        BY <3>1 DEF Connection, Ends
      <3>3. unclaimed' = [unclaimed EXCEPT ![k] = c] BY <1>5
      <3> HIDE DEF c
      <3> QED BY <1>1, <3>1, <3>2, <3>3, ReplaceConnection
    <2>2. TypeOK'
      BY <1>1, <1>2, <1>5, <2>1 DEF TypeOK, Clients, Client, Coupled, Connection
    <2>3. NewestLast' BY <1>1, <1>2, <1>5, <2>1 DEF NewestLast
    <2> QED BY <2>2, <2>3 DEF Inv
  <1> QED BY <1>3, <1>4, <1>5

LEMMA TcpGivesUpInv == ASSUME Inv, NEW i \in Pool, TcpGivesUp(i) PROVE Inv'
  <1> DEFINE s == [slots[i] EXCEPT !.peer = "dead"]
  <1>1. slots \in Clients /\ at \in 0..(Slots + 1) /\ faults \in 0..MaxFaults
    BY TypeOKSplit DEF Inv
  <1>2. slots[i] \in Client /\ Coupled(slots[i]) /\ slots[i].peer = "gone"
    BY <1>1 DEF Clients, TcpGivesUp
  <1>3. s \in Client /\ Coupled(s) /\ s.peer # "live"
    BY <1>2 DEF Client, Coupled, Ends
  <1>4. slots' = [slots EXCEPT ![i] = s] BY DEF TcpGivesUp
  <1> HIDE DEF s
  <1>5. /\ slots' \in Clients
        /\ \A j \in Pool : slots'[j].peer = "live" => slots[j].peer = "live"
    BY <1>1, <1>3, <1>4 DEF Clients
  <1> QED BY <1>1, <1>5, ServerStep DEF TcpGivesUp

LEMMA NextInv == Inv /\ [Next]_vars => Inv'
  <1> SUFFICES ASSUME Inv, [Next]_vars PROVE Inv' OBVIOUS
  <1>1. CASE Loop BY <1>1, LoopInv
  <1>2. CASE RelayWork BY <1>2, RelayWorkInv
  <1>3. CASE Reset
    <2>1. faults' \in 0..MaxFaults
      BY <1>3, TypeOKSplit, SlotPoolAssumption DEF Reset, Inv
    <2> QED BY <1>3, <2>1, BootInv DEF Reset
  <1>4. CASE ConnectionLost BY <1>4, ConnectionLostInv
  <1>5. ASSUME NEW i \in Pool, TcpGivesUp(i) PROVE Inv' BY <1>5, TcpGivesUpInv
  <1>6. CASE UNCHANGED vars
    BY <1>6 DEF vars, Inv, NewestLast, TypeOK
  <1> QED BY <1>1, <1>2, <1>3, <1>4, <1>5, <1>6 DEF Next

LEMMA NewestMeansGone == Inv => FullOnlyOfGone
  <1> SUFFICES ASSUME Inv, unclaimed # <<>>, Full, NEW i \in Pool
               PROVE  slots[i].peer = "gone"
    BY DEF FullOnlyOfGone
  <1>1. slots[i].peer \in {"live", "gone"} BY DEF Full, ClientIsConnected
  <1> QED BY <1>1 DEF Inv, NewestLast

-----------------------------------------------------------------------------
(* Type correctness: each slot, each waiting connection and the cursor of  *)
(* handleClientData() stay in their ranges, and a slot holds a connection  *)
(* if and only if its status says so.                                      *)
THEOREM PoolTypes == Spec => []TypeOK
  <1>1. Inv => TypeOK BY DEF Inv
  <1> QED BY <1>1, InitInv, NextInv, PTL DEF Spec

(* newClient() runs out of slots only when every one of them holds a       *)
(* connection whose end has vanished without a word, however many slots    *)
(* there are: the Relay's own connection is always the newest.             *)
THEOREM OverflowNeedsLosses == Spec => []FullOnlyOfGone
  BY InitInv, NextInv, NewestMeansGone, PTL DEF Spec

-----------------------------------------------------------------------------
(* Only one slot holds the Relay's connection: when it vanishes nobody is  *)
(* in session, and the next one to be is upgraded by a broadcast.          *)
OneLive == \A i, j \in LiveSlots : i = j

InSessionSlot(i) == slots[i].peer = "live" /\ slots[i].status = "CONNECTED"

Untried(i) ==
  slots[i].status = "CONNECTED" /\ slots[i].peer = "gone" /\ ~slots[i].sent

TriedInv == OneLive /\ VanishedAreTried

(* A step that makes no slot live, in session or untried.                  *)
LEMMA QuietSlots ==
  ASSUME TriedInv,
         \A i \in Pool : /\ slots'[i].peer = "live" => slots[i].peer = "live"
                         /\ InSessionSlot(i)' => InSessionSlot(i)
                         /\ Untried(i)' => Untried(i)
  PROVE  TriedInv'
  <1>1. OneLive' BY DEF TriedInv, OneLive, LiveSlots
  <1>2. VanishedAreTried'
    BY DEF TriedInv, VanishedAreTried, LiveSlots, InSessionSlot, Untried
  <1> QED BY <1>1, <1>2 DEF TriedInv

(* A step after which nobody is in session.                                *)
LEMMA NobodyInSession ==
  ASSUME OneLive', \A i \in Pool : ~InSessionSlot(i)'
  PROVE  TriedInv'
  BY DEF TriedInv, VanishedAreTried, LiveSlots, InSessionSlot

(* A frame sent into a vanished session is one that TCP tries.             *)
LEMMA BroadcastTries ==
  ASSUME NEW f \in Clients, slots' = BroadcastTXT(f)
  PROVE  \A i \in Pool : ~Untried(i)'
  <1> SUFFICES ASSUME NEW i \in Pool PROVE ~Untried(i)' OBVIOUS
  <1>1. slots'[i] = SendFrame(f[i]) BY DEF BroadcastTXT
  <1>2. f[i] \in Client BY DEF Clients
  <1>3. CASE ClientIsConnected(f[i]) /\ f[i].status = "CONNECTED"
             /\ f[i].peer = "gone"
    BY <1>1, <1>2, <1>3 DEF SendFrame, Client, Untried
  <1>4. CASE ~(ClientIsConnected(f[i]) /\ f[i].status = "CONNECTED"
               /\ f[i].peer = "gone")
    <2>1. slots'[i] = Cleaned(f[i]) BY <1>1, <1>4 DEF SendFrame
    <2> QED BY <1>4, <2>1 DEF Cleaned, Free, ClientIsConnected, Untried
  <1> QED BY <1>3, <1>4

LEMMA AfterBroadcast ==
  ASSUME OneLive, \A i \in Pool : ~Untried(i)',
         \A i \in Pool : slots'[i].peer = "live" => slots[i].peer = "live"
  PROVE  TriedInv'
  BY DEF TriedInv, OneLive, VanishedAreTried, LiveSlots, Untried

LEMMA LoopTried == ASSUME Inv, TriedInv, Loop PROVE TriedInv'
  <1>1. slots \in Clients /\ NewestLast BY TypeOKSplit DEF Inv
  <1>2. CASE HandleNewClient
    <2>1. PICK i \in Pool :
            slots' = [slots EXCEPT ![i] = NewClient(Head(unclaimed))]
      BY <1>2 DEF HandleNewClient
    <2>2. \A j \in Pool : slots[j].peer # "live"
      BY <1>1, <1>2 DEF HandleNewClient, NewestLast
    <2>3. \A j \in Pool :
            slots'[j] = IF j = i THEN NewClient(Head(unclaimed)) ELSE slots[j]
      BY <1>1, <2>1 DEF Clients
    <2>4. OneLive' BY <2>2, <2>3 DEF OneLive, LiveSlots
    <2>5. \A j \in Pool : ~InSessionSlot(j)'
      BY <2>2, <2>3 DEF InSessionSlot, NewClient
    <2> QED BY <2>4, <2>5, NobodyInSession
  <1>3. CASE PoolFull
    <2>1. \A i \in Pool : slots'[i].peer # "live"
      BY <1>3 DEF PoolFull, Boot, Free
    <2> QED BY <2>1, NobodyInSession DEF OneLive, LiveSlots, InSessionSlot
  <1>4. CASE NoNewClient
    BY <1>4, QuietSlots DEF NoNewClient, InSessionSlot, Untried
  <1>5. CASE HandleClientData /\ HandleHeader(at)
    <2> DEFINE up == [slots[at] EXCEPT !.status = "CONNECTED", !.request = FALSE]
               s == SendFrame(up)
               pool == [slots EXCEPT ![at] = s]
    <2>1. at \in Pool /\ slots[at] \in Client /\ Coupled(slots[at])
      BY <1>1, <1>5 DEF HandleClientData, Clients
    <2>2. up \in Client /\ Coupled(up) /\ up.peer = slots[at].peer
      BY <1>5, <2>1 DEF HandleHeader, ClientIsConnected, Client, Coupled
    <2>3. s \in Client /\ Coupled(s) /\ (s.peer = "live" => slots[at].peer = "live")
      BY <2>2, SendFrameTypes
    <2> HIDE DEF s
    <2>4. /\ pool \in Clients
          /\ \A i \in Pool : pool[i].peer = "live" => slots[i].peer = "live"
      BY <1>1, <2>1, <2>3, ReplaceTypes
    <2>5. slots' = BroadcastTXT(pool)
      BY <1>5 DEF HandleHeader, Answer, s, up
    <2> HIDE DEF pool
    <2>6. \A i \in Pool : slots'[i].peer = "live" => slots[i].peer = "live"
      BY <2>4, <2>5, BroadcastTypes
    <2> QED BY <2>4, <2>5, <2>6, BroadcastTries, AfterBroadcast DEF TriedInv
  <1>6. CASE HandleClientData /\ HandleOther(at)
    <2>1. \A i \in Pool : slots'[i] \in {slots[i], Free}
      BY <1>1, <1>6 DEF HandleClientData, HandleOther, Cleaned, Clients
    <2> QED BY <2>1, QuietSlots DEF Free, InSessionSlot, Untried
  <1>7. CASE LoopRest /\ slots' = slots
    BY <1>7, QuietSlots DEF InSessionSlot, Untried
  <1>8. CASE LoopRest /\ slots' = BroadcastTXT(slots)
    BY <1>1, <1>8, BroadcastTypes, BroadcastTries, AfterBroadcast DEF TriedInv
  <1> QED BY <1>2, <1>3, <1>4, <1>5, <1>6, <1>7, <1>8
          DEF Loop, HandleClientData, LoopRest

LEMMA ConnectionLostTried == ASSUME Inv, TriedInv, ConnectionLost PROVE TriedInv'
  <1>1. slots \in Clients BY TypeOKSplit DEF Inv
  <1>2. CASE UNCHANGED slots
    BY <1>2, QuietSlots DEF InSessionSlot, Untried
  <1>3. ASSUME NEW end \in {"gone", "dead"}, NEW i \in LiveSlots,
               NEW late \in BOOLEAN,
               slots' = [slots EXCEPT ![i].peer = end, ![i].sent = late]
        PROVE  TriedInv'
    <2>1. i \in Pool /\ slots[i] \in Client BY <1>1 DEF LiveSlots, Clients
    <2>2. /\ slots'[i].peer # "live"
          /\ \A j \in Pool \ {i} : slots'[j] = slots[j]
      BY <1>1, <1>3, <2>1 DEF Clients, Client
    <2>3. \A j \in Pool \ {i} : slots[j].peer # "live"
      BY DEF TriedInv, OneLive, LiveSlots
    <2> QED BY <2>2, <2>3, NobodyInSession DEF OneLive, LiveSlots, InSessionSlot
  <1> QED BY <1>2, <1>3 DEF ConnectionLost

LEMMA TriedStep == Inv /\ TriedInv /\ [Next]_vars => TriedInv'
  <1> SUFFICES ASSUME Inv, TriedInv, [Next]_vars PROVE TriedInv' OBVIOUS
  <1>1. slots \in Clients BY TypeOKSplit DEF Inv
  <1>2. CASE Loop BY <1>2, LoopTried
  <1>3. CASE UNCHANGED slots BY <1>3, QuietSlots DEF InSessionSlot, Untried
  <1>4. ASSUME NEW i \in LiveSlots, slots' = [slots EXCEPT ![i].request = TRUE]
        PROVE  TriedInv'
    <2>1. /\ i \in Pool
          /\ \A j \in Pool : slots'[j].peer = slots[j].peer
                            /\ slots'[j].status = slots[j].status
                            /\ slots'[j].sent = slots[j].sent
      BY <1>1, <1>4 DEF LiveSlots, Clients, Client
    <2> QED BY <2>1, QuietSlots DEF InSessionSlot, Untried
  <1>5. CASE Reset
    <2>1. \A i \in Pool : slots'[i].peer # "live" BY <1>5 DEF Reset, Boot, Free
    <2> QED BY <2>1, NobodyInSession DEF OneLive, LiveSlots, InSessionSlot
  <1>6. CASE ConnectionLost BY <1>6, ConnectionLostTried
  <1>7. ASSUME NEW i \in Pool, TcpGivesUp(i) PROVE TriedInv'
    <2>1. \A j \in Pool : \/ slots'[j] = slots[j] \/ slots'[j].peer = "dead"
      BY <1>1, <1>7 DEF TcpGivesUp, Clients, Client
    <2> QED BY <2>1, QuietSlots DEF InSessionSlot, Untried
  <1> QED BY <1>2, <1>3, <1>4, <1>5, <1>6, <1>7
          DEF Next, RelayWork, RelayConnects, RequestArrives, RelayUpgraded,
              RelayNoticesLoss, vars

(* Once a Relay is in session every session that vanished before it is     *)
(* being tried by TCP, with any number of slots and losses.                *)
THEOREM SessionsTried == Spec => []VanishedAreTried
  <1>1. Init => TriedInv
    <2> SUFFICES ASSUME Init PROVE TriedInv OBVIOUS
    <2>1. \A i \in Pool : slots[i].peer # "live" BY DEF Init, Free
    <2> QED BY <2>1 DEF TriedInv, OneLive, VanishedAreTried, LiveSlots
  <1>2. TriedInv => VanishedAreTried BY DEF TriedInv
  <1> QED BY <1>1, <1>2, InitInv, NextInv, TriedStep, PTL DEF Spec
=============================================================================

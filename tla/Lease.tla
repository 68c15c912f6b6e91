-------------------------------- MODULE Lease --------------------------------
(***************************************************************************)
(* What the Center promises, without loop or link: the car is unlocked     *)
(* only for a lease, a lease is granted only when a clean breath test or   *)
(* the app asked for it, each request is answered at most once, and a      *)
(* lease that is not renewed runs down to the lock.                        *)
(***************************************************************************)
EXTENDS Integers

CONSTANT Minutes      \* lengths a lease can have

VARIABLES locked,     \* 1 when the car is locked
          lease,      \* minutes left
          asked       \* who waits for an answer to a request to unlock

Requesters == {"test", "app"}

leaseVars == <<locked, lease, asked>>

LeaseInit == locked = 1 /\ lease = 0 /\ asked = {}

Ask(r) == r \notin asked /\ asked' = asked \cup {r} /\ UNCHANGED <<locked, lease>>

Grant(r) ==
  /\ r \in asked /\ asked' = asked \ {r}
  /\ locked' = 0 /\ lease' \in Minutes

(* Locking answers nobody, a reset forgets who asked.                      *)
Revoke == locked' = 1 /\ lease' = 0 /\ asked' \in {asked, {}}

Tick ==
  /\ lease > 0 /\ lease' = lease - 1
  /\ locked' = IF lease = 1 THEN 1 ELSE 0
  /\ UNCHANGED asked

LeaseNext == (\E r \in Requesters : Ask(r) \/ Grant(r)) \/ Revoke \/ Tick

LeaseSafety == LeaseInit /\ [][LeaseNext]_leaseVars

(* Nobody waits for ever: a request is answered, or forgotten by a reset.  *)
Answered == \A r \in Requesters : []<>(r \notin asked)

(* A lease that stands, and that nobody asks to renew, keeps ticking.      *)
RunsDown == <>[](lease > 0 /\ asked = {}) => []<><<Tick>>_leaseVars

LeaseSpec == LeaseSafety /\ Answered /\ RunsDown
=============================================================================

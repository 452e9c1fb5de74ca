-------------------------- MODULE RendezvousLease --------------------------
(***************************************************************************)
(* What the rendezvous server promises, seen from outside: a registration  *)
(* is a lease.  It is accepted while the device's CA is trusted, for a     *)
(* time between the limits that counts from then, and takes effect later   *)
(* or never.  From then on nothing but time and another registration of    *)
(* the same device that was accepted in this way changes it: no cleanup,   *)
(* no restart, no change of the trusted CAs.  Rendezvous implements it.    *)
(***************************************************************************)
EXTENDS Integers

CONSTANTS Guid, MinWait, MaxWait

VARIABLES
    lease,      \* the time the registration of each device has left
    accepted,   \* registrations accepted and not in effect: device, time left
    trusted     \* devices whose chain is trusted

vars == <<lease, accepted, trusted>>

Over == -1

Init ==
    /\ lease = [g \in Guid |-> Over]
    /\ accepted = {}
    /\ trusted \in SUBSET Guid

Accept(g, n) ==
    /\ g \in trusted
    /\ accepted' = accepted \cup {<<g, n>>}
    /\ UNCHANGED <<lease, trusted>>

\* There may be another one, of the same device for the same time.
Grant(g, n) ==
    /\ <<g, n>> \in accepted
    /\ lease' = [lease EXCEPT ![g] = n]
    /\ accepted' \in {accepted, accepted \ {<<g, n>>}}
    /\ UNCHANGED trusted

\* Registrations fail after they were accepted.
Lose ==
    /\ accepted' \in SUBSET accepted
    /\ UNCHANGED <<lease, trusted>>

Trust(T) ==
    /\ trusted' = T
    /\ UNCHANGED <<lease, accepted>>

\* The server forgets what it has not stored.
Restart(T) ==
    /\ trusted' = T
    /\ accepted' = {}
    /\ UNCHANGED lease

OneLess(n) == IF n > Over THEN n - 1 ELSE Over

Tick ==
    /\ lease' = [g \in Guid |-> OneLess(lease[g])]
    /\ accepted' = {<<a[1], OneLess(a[2])>> : a \in accepted}
    /\ UNCHANGED trusted

Next ==
    \/ \E g \in Guid, n \in MinWait .. MaxWait : Accept(g, n)
    \/ \E g \in Guid, n \in Over .. MaxWait : Grant(g, n)
    \/ Lose
    \/ \E T \in SUBSET Guid : Trust(T) \/ Restart(T)
    \/ Tick

Spec == Init /\ [][Next]_vars
=============================================================================

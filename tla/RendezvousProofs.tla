-------------------------- MODULE RendezvousProofs --------------------------
(***************************************************************************)
(* Proofs about Rendezvous, for every number of workers, sessions and      *)
(* devices and every configuration of the waits and of the session         *)
(* timeout.                                                                *)
(***************************************************************************)
EXTENDS Rendezvous, TLAPS

\* What TypeOK needs to be inductive: a worker about to save a nonce has a
\* session in hand, one about to save a blob has a device and a granted wait,
\* and one that has not decided yet has the wait it was asked for.
InHand ==
    \A w \in Worker :
        /\ req[w].pc = "saveNonce" => req[w].tok \in SID
        /\ req[w].pc \in {"checkSession", "readNonce", "accept"} => req[w].wait \in Nat
        /\ req[w].pc = "saveBlob" => /\ req[w].guid \in Guid
                                     /\ req[w].wait \in Expired .. MaxWait

TypeInv == TypeOK /\ InHand

\* The two saturating steps of a clock stay within their bounds.
LEMMA OneLessType ==
    ASSUME NEW n \in Expired .. MaxWait
    PROVE  OneLess(n) \in Expired .. MaxWait
BY WaitAssumption DEF OneLess, Expired

\* A saturating count stays within its bound.
LEMMA OneMoreType ==
    ASSUME NEW bound \in Nat, NEW n \in 0 .. bound
    PROVE  OneMore(n, bound) \in 0 .. bound
BY DEF OneMore

\* An idle worker, and a worker moved to another label, is well typed.
LEMMA IdleType == Idle \in Request
BY DEF Idle, Request, Control, Message

\* The next call of a message keeps the requests well-typed.
LEMMA GotoType ==
    ASSUME TypeOK, NEW w \in Worker, NEW label \in Control, Goto(w, label)
    PROVE  /\ req' \in [Worker -> Request]
           /\ req'[w] = [req[w] EXCEPT !.pc = label]
           /\ \A v \in Worker \ {w} : req'[v] = req[v]
BY DEF TypeOK, Goto, Request

\* So does the end of a message.
LEMMA DoneType ==
    ASSUME TypeInv, NEW w \in Worker, Done(w)
    PROVE  req' \in [Worker -> Request] /\ InHand'
<1>1. Idle.pc = "idle"
  BY DEF Idle
<1>2. req' = [req EXCEPT ![w] = Idle]
  BY DEF Done
<1> QED
  BY <1>1, <1>2, IdleType DEF TypeInv, TypeOK, InHand

\* Deleting sessions keeps their tables well typed.
LEMMA DeleteSessionsType ==
    ASSUME TypeOK, NEW S, DeleteSessions(S)
    PROVE  /\ sessions' \subseteq SID
           /\ age' \in [SID -> 0 .. SessionMaxAge + 1]
           /\ to0' \subseteq SID
           /\ to1' \subseteq SID
<1>1. /\ sessions' = sessions \ S
      /\ age' = [s \in SID |-> IF s \in S THEN 0 ELSE age[s]]
      /\ to0' \in {to0, to0 \ S}
      /\ to1' \in {to1, to1 \ S}
  BY DEF DeleteSessions
<1> QED
  BY <1>1, AgeAssumption DEF TypeOK

\* The initial state is well typed.
LEMMA TypeInit == Init => TypeInv
<1> SUFFICES ASSUME Init PROVE TypeInv
  OBVIOUS
<1>1. /\ age \in [SID -> 0 .. SessionMaxAge + 1]
      /\ left \in [Guid -> Expired .. MaxWait]
      /\ untrusted \in [Guid -> 0 .. MaxWait + 1]
  BY WaitAssumption, AgeAssumption DEF Init, Expired
<1>2. req \in [Worker -> Request] /\ InHand
  BY IdleType DEF Init, InHand, Idle
<1> QED
  BY <1>1, <1>2 DEF Init, TypeInv, TypeOK

\* Every step of a worker keeps the state well typed.
LEMMA TypeWorkerStep ==
    ASSUME TypeInv, NEW w \in Worker, WorkerStep(w)
    PROVE  TypeInv'
<1> USE DEF TypeInv
<1>1. CASE GetSessionID(w)
  <2>1. CASE req[w].tok \notin sessions
    BY <1>1, <2>1, DoneType DEF GetSessionID, TypeOK, tables, environment
  <2>2. CASE req[w].tok \in sessions
    <3>1. \E label \in {"saveNonce", "readNonce"} : Goto(w, label)
      BY <1>1, <2>2 DEF GetSessionID
    <3>2. PICK label \in {"saveNonce", "readNonce"} : Goto(w, label)
      BY <3>1
    <3>3. /\ req' \in [Worker -> Request]
          /\ req'[w] = [req[w] EXCEPT !.pc = label]
          /\ \A v \in Worker \ {w} : req'[v] = req[v]
      BY <3>2, GotoType DEF Control
    <3>4. /\ req'[w].tok = req[w].tok
          /\ req'[w].wait = req[w].wait
          /\ req'[w].pc # "saveBlob"
      BY <3>3 DEF TypeOK, Request
    <3>5. InHand'
      BY <1>1, <2>2, <3>3, <3>4 DEF GetSessionID, InHand, TypeOK
    <3> QED
      BY <1>1, <3>3, <3>5 DEF GetSessionID, TypeOK, tables, environment
  <2> QED
    BY <2>1, <2>2
<1>2. CASE SaveNonce(w)
  <2>1. req[w].tok \in SID
    BY <1>2 DEF SaveNonce, InHand
  <2>2. /\ to0' \in {to0, to0 \cup {req[w].tok}}
        /\ to1' \in {to1, to1 \cup {req[w].tok}}
        /\ held' \in {held, held \cup {req[w].tok}}
    BY <1>2 DEF SaveNonce
  <2>3. to0' \subseteq SID /\ to1' \subseteq SID /\ held' \subseteq SID
    BY <2>1, <2>2 DEF TypeOK
  <2> QED
    BY <1>2, <2>3, DoneType DEF SaveNonce, TypeOK, environment
<1>3. CASE ReadNonce(w)
  <2>1. CASE Done(w)
    BY <1>3, <2>1, DoneType DEF ReadNonce, TypeOK, tables, environment
  <2>2. CASE \E label \in {"accept", "readBlob"} : Goto(w, label)
    <3>1. PICK label \in {"accept", "readBlob"} : Goto(w, label)
      BY <2>2
    <3>2. /\ req' \in [Worker -> Request]
          /\ req'[w] = [req[w] EXCEPT !.pc = label]
          /\ \A v \in Worker \ {w} : req'[v] = req[v]
      BY <3>1, GotoType DEF Control
    <3>3. InHand'
      BY <1>3, <3>2 DEF ReadNonce, InHand, TypeOK, Request
    <3> QED
      BY <1>3, <3>2, <3>3 DEF ReadNonce, TypeOK, tables, environment
  <2> QED
    BY <1>3, <2>1, <2>2 DEF ReadNonce
<1>4. CASE AcceptVoucher(w)
  <2>1. CASE Done(w)
    BY <1>4, <2>1, DoneType DEF AcceptVoucher, TypeOK, tables, environment
  <2>2. CASE ~Done(w)
    <3> DEFINE granted == GrantedWait(req[w].wait)
    <3>1. /\ req[w].guid \in trusted
          /\ ~(MinWait > 0 /\ req[w].wait < MinWait)
          /\ req' = [req EXCEPT ![w] = [@ EXCEPT !.pc = "saveBlob", !.wait = granted]]
      BY <1>4, <2>2 DEF AcceptVoucher
    <3>2. granted \in Expired .. MaxWait
      BY <1>4, WaitAssumption DEF AcceptVoucher, InHand, GrantedWait, Expired
    <3>3. granted \in Int /\ req[w].guid \in Guid
      BY <3>1, <3>2, WaitAssumption DEF TypeOK, Expired
    <3> HIDE DEF granted
    <3>7. [req[w] EXCEPT !.pc = "saveBlob", !.wait = granted] \in Request
      BY <3>3 DEF TypeOK, Request, Control
    <3>4. /\ req' \in [Worker -> Request]
          /\ req'[w] = [req[w] EXCEPT !.pc = "saveBlob", !.wait = granted]
          /\ \A v \in Worker \ {w} : req'[v] = req[v]
      BY <3>1, <3>7 DEF TypeOK
    <3>5. /\ req'[w].pc = "saveBlob"
          /\ req'[w].guid = req[w].guid
          /\ req'[w].wait = granted
      BY <3>4 DEF TypeOK, Request
    <3>6. InHand'
      BY <3>2, <3>3, <3>4, <3>5 DEF InHand
    <3> QED
      BY <1>4, <3>4, <3>6 DEF AcceptVoucher, TypeOK, tables, environment
  <2> QED
    BY <2>1, <2>2
<1>5. CASE SetRVBlob(w)
  <2>1. req[w].guid \in Guid /\ req[w].wait \in Expired .. MaxWait
    BY <1>5 DEF SetRVBlob, InHand
  <2>2. blobs' \subseteq Guid /\ left' \in [Guid -> Expired .. MaxWait]
    BY <1>5, <2>1 DEF SetRVBlob, TypeOK
  <2>3. /\ req' \in [Worker -> Request]
        /\ req'[w] = [req[w] EXCEPT !.pc = "invalidate"]
        /\ \A v \in Worker \ {w} : req'[v] = req[v]
    BY <1>5, GotoType DEF SetRVBlob, Control
  <2>4. InHand'
    BY <2>3 DEF InHand, TypeOK, Request
  <2> QED
    BY <1>5, <2>2, <2>3, <2>4 DEF SetRVBlob, TypeOK, environment
<1>6. CASE ReadRVBlob(w)
  <2>1. CASE Done(w)
    BY <1>6, <2>1, DoneType DEF ReadRVBlob, TypeOK, tables, environment
  <2>2. CASE Goto(w, "invalidate")
    <3>1. /\ req' \in [Worker -> Request]
          /\ req'[w] = [req[w] EXCEPT !.pc = "invalidate"]
          /\ \A v \in Worker \ {w} : req'[v] = req[v]
      BY <2>2, GotoType DEF Control
    <3>2. InHand'
      BY <3>1 DEF InHand, TypeOK, Request
    <3> QED
      BY <1>6, <3>1, <3>2 DEF ReadRVBlob, TypeOK, tables, environment
  <2> QED
    BY <1>6, <2>1, <2>2 DEF ReadRVBlob
<1>7. CASE InvalidateToken(w)
  <2>1. /\ sessions' \subseteq SID
        /\ age' \in [SID -> 0 .. SessionMaxAge + 1]
        /\ to0' \subseteq SID
        /\ to1' \subseteq SID
    BY <1>7, DeleteSessionsType DEF InvalidateToken
  <2> QED
    BY <1>7, <2>1, DoneType DEF InvalidateToken, TypeOK, environment
<1> QED
  BY <1>1, <1>2, <1>3, <1>4, <1>5, <1>6, <1>7 DEF WorkerStep

\* Every step keeps the state well typed.
LEMMA TypeStep == TypeInv /\ [Next]_vars => TypeInv'
<1> SUFFICES ASSUME TypeInv, [Next]_vars PROVE TypeInv'
  OBVIOUS
<1> USE DEF TypeInv
<1>1. ASSUME NEW w \in Worker, NEW msg \in Message, NEW s \in SID, NewToken(w, msg, s)
      PROVE  TypeInv'
  <2> DEFINE r == [pc |-> "checkSession", msg |-> msg, tok |-> s, guid |-> NoGuid, wait |-> 0]
  <2>1. /\ r \in Request
        /\ r.pc = "checkSession"
        /\ r.wait \in Nat
    BY DEF Request, Control
  <2>2. req' = [req EXCEPT ![w] = r] /\ sessions' = sessions \cup {s}
    BY <1>1 DEF NewToken
  <2> HIDE DEF r
  <2>3. req' \in [Worker -> Request] /\ InHand' /\ sessions' \subseteq SID
    BY <2>1, <2>2 DEF TypeOK, InHand
  <2> QED
    BY <1>1, <2>3 DEF NewToken, TypeOK, environment
<1>2. ASSUME NEW w \in Worker, NEW msg \in Message, NEW s \in SID, NEW g \in Guid,
             NEW wait \in 0 .. MaxRequest, Receive(w, msg, s, g, wait)
      PROVE  TypeInv'
  <2> DEFINE r == [pc |-> "checkSession", msg |-> msg, tok |-> s, guid |-> g, wait |-> wait]
  <2>1. /\ r \in Request
        /\ r.pc = "checkSession"
        /\ r.wait \in Nat
    BY WaitAssumption DEF Request, Control
  <2>2. req' = [req EXCEPT ![w] = r]
    BY <1>2 DEF Receive
  <2> HIDE DEF r
  <2>3. req' \in [Worker -> Request] /\ InHand'
    BY <2>1, <2>2 DEF TypeOK, InHand
  <2> QED
    BY <1>2, <2>3 DEF Receive, TypeOK, tables, environment
<1>3. ASSUME NEW w \in Worker, WorkerStep(w) PROVE TypeInv'
  BY <1>3, TypeWorkerStep
<1>4. ASSUME NEW w \in Worker, StatementFails(w) PROVE TypeInv'
  BY <1>4, DoneType DEF StatementFails, TypeOK, tables, environment
<1>5. ASSUME NEW s \in SID, ClientForgets(s) PROVE TypeInv'
  BY <1>5 DEF ClientForgets, TypeOK, InHand, tables, environment
<1>6. CASE CleanupFires
  BY <1>6 DEF CleanupFires, TypeOK, InHand, tables, environment
<1>7. CASE CleanupExpiredBlobs
  <2>1. blobs' \subseteq Guid
    BY <1>7 DEF CleanupExpiredBlobs, TypeOK
  <2>2. left' \in [Guid -> Expired .. MaxWait]
    BY <1>7, WaitAssumption DEF CleanupExpiredBlobs, TypeOK, Expired
  <2> QED
    BY <1>7, <2>1, <2>2 DEF CleanupExpiredBlobs, TypeOK, InHand, environment
<1>8. CASE CleanupExpiredSessions
  <2>1. /\ sessions' \subseteq SID
        /\ age' \in [SID -> 0 .. SessionMaxAge + 1]
        /\ to0' \subseteq SID
        /\ to1' \subseteq SID
    BY <1>8, DeleteSessionsType DEF CleanupExpiredSessions, TypeOK
  <2> QED
    BY <1>8, <2>1 DEF CleanupExpiredSessions, TypeOK, InHand, environment
<1>9. CASE CleanupFails
  BY <1>9 DEF CleanupFails, AfterFailedCleanup, TypeOK, InHand, tables, environment
<1>10. ASSUME NEW T \in SUBSET Guid, ChangeTrusted(T) PROVE TypeInv'
  <2>1. untrusted' \in [Guid -> 0 .. MaxWait + 1]
    BY <1>10, WaitAssumption DEF ChangeTrusted, LoadTrusted, TypeOK
  <2> QED
    BY <1>10, <2>1 DEF ChangeTrusted, LoadTrusted, TypeOK, InHand, tables
<1>11. CASE Tick
  <2>1. age' \in [SID -> 0 .. SessionMaxAge + 1]
    <3>1. \A s \in SID : OneMore(age[s], SessionMaxAge + 1) \in 0 .. SessionMaxAge + 1
      BY OneMoreType, AgeAssumption DEF TypeOK
    <3> QED
      BY <1>11, <3>1 DEF Tick, TypeOK
  <2>2. left' \in [Guid -> Expired .. MaxWait]
    BY <1>11, OneLessType DEF Tick, TypeOK
  <2>3. untrusted' \in [Guid -> 0 .. MaxWait + 1]
    <3>1. \A g \in Guid : OneMore(untrusted[g], MaxWait + 1) \in 0 .. MaxWait + 1
      BY OneMoreType, WaitAssumption DEF TypeOK
    <3> QED
      BY <1>11, <3>1, WaitAssumption DEF Tick, TypeOK
  <2>4. ASSUME NEW w \in Worker
        PROVE  /\ req'[w] \in Request
               /\ req'[w].pc = req[w].pc
               /\ req'[w].tok = req[w].tok
               /\ req'[w].guid = req[w].guid
               /\ req'[w].pc # "saveBlob" => req'[w].wait = req[w].wait
               /\ req'[w].pc = "saveBlob" => req'[w].wait \in Expired .. MaxWait
    <3>1. CASE req[w].pc = "saveBlob"
      <4>1. OneLess(req[w].wait) \in Expired .. MaxWait
        BY <3>1, OneLessType DEF InHand
      <4>2. OneLess(req[w].wait) \in Int
        BY <4>1, WaitAssumption DEF Expired
      <4>3. req'[w] = [req[w] EXCEPT !.wait = OneLess(@)]
        BY <1>11, <3>1 DEF Tick
      <4> QED
        BY <3>1, <4>1, <4>2, <4>3 DEF TypeOK, Request
    <3>2. CASE req[w].pc # "saveBlob"
      BY <1>11, <3>2 DEF Tick, TypeOK
    <3> QED
      BY <3>1, <3>2
  <2>5. req' \in [Worker -> Request]
    BY <1>11, <2>4 DEF Tick
  <2>6. InHand'
    BY <2>4 DEF InHand
  <2> QED
    BY <1>11, <2>1, <2>2, <2>3, <2>5, <2>6 DEF Tick, TypeOK
<1>12. ASSUME NEW T \in SUBSET Guid, Restart(T) PROVE TypeInv'
  <2>1. req' \in [Worker -> Request] /\ InHand'
    BY <1>12, IdleType DEF Restart, InHand, Idle
  <2>2. untrusted' \in [Guid -> 0 .. MaxWait + 1]
    BY <1>12, WaitAssumption DEF Restart, LoadTrusted, TypeOK
  <2> QED
    BY <1>12, <2>1, <2>2 DEF Restart, LoadTrusted, TypeOK, tables
<1>13. CASE UNCHANGED vars
  BY <1>13 DEF vars, TypeOK, InHand
<1> QED
  BY <1>1, <1>2, <1>3, <1>4, <1>5, <1>6, <1>7, <1>8, <1>9, <1>10, <1>11, <1>12, <1>13
  DEF Next, ServerNext, AnyRestart

\* Type correctness of every reachable state.
THEOREM TypeCorrect == Spec => []TypeOK
<1>1. Spec => []TypeInv
  BY TypeInit, TypeStep, PTL DEF Spec
<1> QED
  BY <1>1, PTL DEF TypeInv

-----------------------------------------------------------------------------
(***************************************************************************)
(* DistrustIsBounded.  The time a blob has left, and the time a blob about *)
(* to be saved will have, never exceeds what remains of to0_max_wait       *)
(* counted from the moment its device lost trust.                          *)
(***************************************************************************)

Within(g, n) == n >= 0 => n + untrusted[g] <= MaxWait

Lease ==
    /\ \A g \in trusted : untrusted[g] = 0
    /\ \A g \in Guid : Within(g, left[g])
    /\ \A w \in Worker : req[w].pc = "saveBlob" => Within(req[w].guid, req[w].wait)

\* A worker that does not go to the label saveBlob is none of Lease's concern.
LEMMA LeaseKept ==
    ASSUME TypeInv, Lease, UNCHANGED <<left, environment>>,
           \A w \in Worker : req'[w] = req[w] \/ req'[w].pc # "saveBlob"
    PROVE  Lease'
BY DEF Lease, Within, environment, TypeInv, TypeOK

\* A message that ends is no registration about to be stored,
LEMMA LeaseDone ==
    ASSUME TypeInv, NEW w \in Worker, Done(w)
    PROVE  \A v \in Worker : req'[v] = req[v] \/ req'[v].pc # "saveBlob"
BY DEF Done, Idle, TypeInv, TypeOK

\* nor is one that goes on to anything but storing the blob.
LEMMA LeaseGoto ==
    ASSUME TypeInv, NEW w \in Worker, NEW label \in Control \ {"saveBlob"}, Goto(w, label)
    PROVE  \A v \in Worker : req'[v] = req[v] \/ req'[v].pc # "saveBlob"
<1>1. /\ req'[w] = [req[w] EXCEPT !.pc = label]
      /\ \A v \in Worker \ {w} : req'[v] = req[v]
  BY GotoType DEF TypeInv
<1> QED
  BY <1>1 DEF TypeInv, TypeOK, Request

\* So does another pool: a device only gains by it.
LEMMA LeaseLoad ==
    ASSUME TypeInv, Lease, NEW T \in SUBSET Guid, LoadTrusted(T), UNCHANGED left,
           \A w \in Worker : req'[w] = req[w] \/ req'[w].pc # "saveBlob"
    PROVE  Lease'
<1>1. \A g \in Guid : untrusted'[g] \in {0, untrusted[g]} /\ (g \in T => untrusted'[g] = 0)
  BY DEF LoadTrusted
<1>2. \A g \in Guid : Within(g, left[g])'
  BY <1>1, WaitAssumption DEF Lease, Within, TypeInv, TypeOK, Expired
<1>3. ASSUME NEW w \in Worker, req'[w].pc = "saveBlob"
      PROVE  Within(req[w].guid, req[w].wait)'
  BY <1>1, <1>3, WaitAssumption DEF Lease, Within, TypeInv, TypeOK, InHand, Expired
<1> QED
  BY <1>1, <1>2, <1>3 DEF LoadTrusted, Lease

\* Every step keeps Lease.
LEMMA LeaseStep == TypeInv /\ Lease /\ [Next]_vars => Lease'
<1> SUFFICES ASSUME TypeInv, Lease, [Next]_vars PROVE Lease'
  OBVIOUS
<1>1. ASSUME NEW w \in Worker, NEW msg \in Message, NEW s \in SID, NewToken(w, msg, s)
      PROVE  Lease'
  <2>1. \A v \in Worker : req'[v] = req[v] \/ req'[v].pc # "saveBlob"
    BY <1>1 DEF NewToken, TypeInv, TypeOK
  <2> QED
    BY <1>1, <2>1, LeaseKept DEF NewToken, environment
<1>2. ASSUME NEW w \in Worker, NEW msg \in Message, NEW s \in SID, NEW g \in Guid,
             NEW wait \in 0 .. MaxRequest, Receive(w, msg, s, g, wait)
      PROVE  Lease'
  <2>1. \A v \in Worker : req'[v] = req[v] \/ req'[v].pc # "saveBlob"
    BY <1>2 DEF Receive, TypeInv, TypeOK
  <2> QED
    BY <1>2, <2>1, LeaseKept DEF Receive, tables, environment
<1>3. ASSUME NEW w \in Worker, WorkerStep(w) PROVE Lease'
  <2>1. CASE AcceptVoucher(w)
    <3>1. CASE Done(w)
      BY <2>1, <3>1, LeaseDone, LeaseKept DEF AcceptVoucher, tables, environment
    <3>2. CASE ~Done(w)
      <4> DEFINE granted == GrantedWait(req[w].wait)
      <4>1. /\ req[w].guid \in trusted
            /\ req' = [req EXCEPT ![w] = [@ EXCEPT !.pc = "saveBlob", !.wait = granted]]
            /\ UNCHANGED <<left, trusted, untrusted>>
        BY <2>1, <3>2 DEF AcceptVoucher, tables, environment
      <4>2. granted \in Int /\ granted <= MaxWait
        BY <2>1, WaitAssumption DEF AcceptVoucher, TypeInv, InHand, GrantedWait
      <4> HIDE DEF granted
      <4>3. req'[w] = [req[w] EXCEPT !.pc = "saveBlob", !.wait = granted]
        BY <4>1 DEF TypeInv, TypeOK
      <4>4. req'[w].guid = req[w].guid /\ req'[w].wait = granted
        BY <4>3 DEF TypeInv, TypeOK, Request
      <4>5. untrusted'[req'[w].guid] = 0
        BY <4>1, <4>4 DEF Lease
      <4>6. Within(req[w].guid, req[w].wait)'
        BY <4>2, <4>4, <4>5, WaitAssumption DEF Within
      <4>7. \A v \in Worker \ {w} : req'[v] = req[v]
        BY <4>1 DEF TypeInv, TypeOK
      <4> QED
        BY <4>1, <4>6, <4>7 DEF Lease, Within
    <3> QED
      BY <3>1, <3>2
  <2>2. CASE SetRVBlob(w)
    <3>1. /\ left' = [left EXCEPT ![req[w].guid] = req[w].wait]
          /\ UNCHANGED <<trusted, untrusted>>
          /\ Within(req[w].guid, req[w].wait)
      BY <2>2 DEF SetRVBlob, environment, Lease
    <3>2. \A g \in Guid : Within(g, left[g])'
      BY <3>1 DEF Lease, Within, TypeInv, TypeOK
    <3>3. \A v \in Worker : req'[v] = req[v] \/ req'[v].pc # "saveBlob"
      BY <2>2, LeaseGoto DEF SetRVBlob, Control
    <3> QED
      BY <3>1, <3>2, <3>3 DEF Lease, Within
  <2>3. CASE GetSessionID(w)
    <3>1. Done(w) \/ \E label \in {"saveNonce", "readNonce"} : Goto(w, label)
      BY <2>3 DEF GetSessionID
    <3> QED
      BY <2>3, <3>1, LeaseDone, LeaseGoto, LeaseKept
      DEF GetSessionID, tables, environment, Control
  <2>4. CASE SaveNonce(w)
    BY <2>4, LeaseDone, LeaseKept DEF SaveNonce, environment
  <2>5. CASE ReadNonce(w)
    <3>1. Done(w) \/ \E label \in {"accept", "readBlob"} : Goto(w, label)
      BY <2>5 DEF ReadNonce
    <3> QED
      BY <2>5, <3>1, LeaseDone, LeaseGoto, LeaseKept
      DEF ReadNonce, tables, environment, Control
  <2>6. CASE ReadRVBlob(w)
    <3>1. Done(w) \/ Goto(w, "invalidate")
      BY <2>6 DEF ReadRVBlob
    <3> QED
      BY <2>6, <3>1, LeaseDone, LeaseGoto, LeaseKept
      DEF ReadRVBlob, tables, environment, Control
  <2>7. CASE InvalidateToken(w)
    BY <2>7, LeaseDone, LeaseKept DEF InvalidateToken, environment
  <2> QED
    BY <1>3, <2>1, <2>2, <2>3, <2>4, <2>5, <2>6, <2>7 DEF WorkerStep
<1>4. ASSUME NEW w \in Worker, StatementFails(w) PROVE Lease'
  BY <1>4, LeaseDone, LeaseKept DEF StatementFails, tables, environment
<1>5. CASE CleanupExpiredBlobs
  <2>1. \A g \in Guid : left'[g] = left[g] \/ left'[g] = Expired
    BY <1>5 DEF CleanupExpiredBlobs
  <2> QED
    BY <1>5, <2>1 DEF CleanupExpiredBlobs, environment, Lease, Within, Expired
<1>6. ASSUME NEW T \in SUBSET Guid, ChangeTrusted(T) PROVE Lease'
  BY <1>6, LeaseLoad DEF ChangeTrusted, tables
<1>7. CASE Tick
  <2>1. \A g \in Guid : /\ left'[g] = OneLess(left[g])
                        /\ untrusted'[g] \in Int
                        /\ untrusted'[g] <= untrusted[g] + 1
                        /\ g \in trusted => untrusted'[g] = 0
    BY <1>7, WaitAssumption DEF Tick, OneMore, TypeInv, TypeOK
  <2>2. \A g \in Guid : Within(g, left[g])'
    BY <2>1, WaitAssumption DEF Lease, Within, OneLess, Expired, TypeInv, TypeOK
  <2>3. ASSUME NEW w \in Worker, req'[w].pc = "saveBlob"
        PROVE  Within(req[w].guid, req[w].wait)'
    <3>1. /\ req[w].pc = "saveBlob"
          /\ req'[w] = [req[w] EXCEPT !.wait = OneLess(@)]
      BY <1>7, <2>3 DEF Tick
    <3>2. /\ req'[w].guid = req[w].guid
          /\ req'[w].wait = OneLess(req[w].wait)
      BY <3>1 DEF TypeInv, TypeOK, Request
    <3>3. /\ req[w].guid \in Guid
          /\ req[w].wait \in Expired .. MaxWait
          /\ Within(req[w].guid, req[w].wait)
      BY <3>1 DEF TypeInv, InHand, Lease
    <3> QED
      BY <2>1, <3>2, <3>3, WaitAssumption DEF Within, OneLess, Expired, TypeInv, TypeOK
  <2> QED
    BY <1>7, <2>1, <2>2, <2>3 DEF Tick, Lease, TypeInv, TypeOK
<1>8. ASSUME NEW T \in SUBSET Guid, Restart(T) PROVE Lease'
  <2>1. \A w \in Worker : req'[w] = req[w] \/ req'[w].pc # "saveBlob"
    BY <1>8 DEF Restart, Idle
  <2> QED
    BY <1>8, <2>1, LeaseLoad DEF Restart, tables
<1>9. CASE UNCHANGED <<left, environment, req>>
  BY <1>9, LeaseKept
<1> QED
  BY <1>1, <1>2, <1>3, <1>4, <1>5, <1>6, <1>7, <1>8, <1>9
  DEF Next, ServerNext, AnyRestart, vars, ClientForgets, CleanupFires, CleanupExpiredSessions, CleanupFails,
      tables, environment

\* A device that lost trust is not served any more once to0_max_wait has
\* passed, for every interleaving of registrations with the removal of its CA
\* (DistrustIsBounded).
THEOREM BoundedDistrust == Spec => []DistrustIsBounded
<1>1. Init => Lease
  BY IdleType DEF Init, Lease, Within, Idle, Expired
<1>2. TypeInv /\ Lease => DistrustIsBounded
  BY WaitAssumption DEF TypeInv, TypeOK, Lease, Within, DistrustIsBounded, Served, Expired
<1> QED
  BY <1>1, <1>2, TypeInit, TypeStep, LeaseStep, PTL DEF Spec

-----------------------------------------------------------------------------
(***************************************************************************)
(* The refinement.                                                         *)
(***************************************************************************)

LeaseOf == [g \in Guid |-> IF g \in blobs THEN left[g] ELSE Expired]

AcceptedOf == {<<req[w].guid, req[w].wait>> : w \in {v \in Worker : req[v].pc = "saveBlob"}}

\* A step that leaves blobs and trust alone, and brings no worker to storing
\* another blob, at most loses registrations that were accepted.
LEMMA LoseIsStep ==
    ASSUME UNCHANGED <<blobs, left, environment>>,
           \A w \in Worker : req'[w] = req[w] \/ req'[w].pc # "saveBlob"
    PROVE  Leases!Next
<1>1. AcceptedOf' \subseteq AcceptedOf
  BY DEF AcceptedOf
<1>2. LeaseOf' = LeaseOf /\ trusted' = trusted
  BY DEF LeaseOf, environment
<1>3. Leases!Lose
  BY <1>1, <1>2 DEF Leases!Lose, LeaseOf, AcceptedOf
<1> QED
  BY <1>3 DEF Leases!Next

\* acceptVoucher accepts a registration, of a trusted device within the limits.
LEMMA AcceptIsStep ==
    ASSUME TypeInv, NEW w \in Worker, AcceptVoucher(w)
    PROVE  Leases!Next
<1>0. UNCHANGED <<blobs, left, trusted, untrusted>>
  BY DEF AcceptVoucher, tables, environment
<1>1. CASE Done(w)
  BY <1>0, <1>1, LeaseDone, LoseIsStep DEF environment
<1>2. CASE ~Done(w)
  <2> DEFINE granted == GrantedWait(req[w].wait)
  <2>1. /\ req[w].guid \in trusted
        /\ ~(MinWait > 0 /\ req[w].wait < MinWait)
        /\ req' = [req EXCEPT ![w] = [@ EXCEPT !.pc = "saveBlob", !.wait = granted]]
        /\ req[w].pc = "accept"
    BY <1>2 DEF AcceptVoucher
  <2>2. granted \in MinWait .. MaxWait
    BY <2>1, WaitAssumption DEF TypeInv, InHand, GrantedWait
  <2>3. req[w].guid \in Guid
    BY <2>1 DEF TypeInv, TypeOK
  <2> HIDE DEF granted
  <2>4. PICK g \in Guid, n \in MinWait .. MaxWait : g = req[w].guid /\ n = granted
    BY <2>2, <2>3
  <2>5. req'[w] = [req[w] EXCEPT !.pc = "saveBlob", !.wait = granted]
    BY <2>1 DEF TypeInv, TypeOK
  <2>6. /\ req'[w].pc = "saveBlob"
        /\ req'[w].guid = g
        /\ req'[w].wait = n
    BY <2>4, <2>5 DEF TypeInv, TypeOK, Request
  <2>7. \A v \in Worker \ {w} : req'[v] = req[v]
    BY <2>1 DEF TypeInv, TypeOK
  <2>8. AcceptedOf' = AcceptedOf \cup {<<g, n>>}
    <3>1. ASSUME NEW a \in AcceptedOf PROVE a \in AcceptedOf'
      <4>1. PICK v \in Worker : req[v].pc = "saveBlob" /\ a = <<req[v].guid, req[v].wait>>
        BY DEF AcceptedOf
      <4>2. v # w
        BY <2>1, <4>1
      <4> QED
        BY <2>7, <4>1, <4>2 DEF AcceptedOf
    <3>2. <<g, n>> \in AcceptedOf'
      BY <2>6 DEF AcceptedOf
    <3>3. ASSUME NEW a \in AcceptedOf' PROVE a \in AcceptedOf \cup {<<g, n>>}
      <4>1. PICK v \in Worker : req'[v].pc = "saveBlob" /\ a = <<req'[v].guid, req'[v].wait>>
        BY DEF AcceptedOf
      <4>2. CASE v = w
        BY <2>6, <4>1, <4>2
      <4>3. CASE v # w
        BY <2>7, <4>1, <4>3 DEF AcceptedOf
      <4> QED
        BY <4>2, <4>3
    <3> QED
      BY <3>1, <3>2, <3>3
  <2>9. LeaseOf' = LeaseOf
    BY <1>0 DEF LeaseOf
  <2>10. Leases!Accept(g, n)
    BY <1>0, <2>1, <2>4, <2>8, <2>9 DEF Leases!Accept, LeaseOf, AcceptedOf
  <2> QED
    BY <2>10 DEF Leases!Next
<1> QED
  BY <1>1, <1>2

\* SetRVBlob puts one that was accepted into effect.
LEMMA SetIsGrant ==
    ASSUME TypeInv, NEW w \in Worker, SetRVBlob(w)
    PROVE  Leases!Next
<1>0. /\ req[w].pc = "saveBlob"
      /\ req[w].guid \in Guid
      /\ req[w].wait \in Expired .. MaxWait
  BY DEF SetRVBlob, TypeInv, InHand
<1>1. PICK g \in Guid, n \in Expired .. MaxWait : g = req[w].guid /\ n = req[w].wait
  BY <1>0
<1>2. /\ blobs' = blobs \cup {g}
      /\ left' = [left EXCEPT ![g] = n]
      /\ UNCHANGED trusted
  BY <1>1 DEF SetRVBlob, environment
<1>3. LeaseOf' = [LeaseOf EXCEPT ![g] = n]
  BY <1>1, <1>2 DEF LeaseOf, TypeInv, TypeOK
<1>4. <<g, n>> \in AcceptedOf
  BY <1>0, <1>1 DEF AcceptedOf
<1>5. /\ req'[w] = [req[w] EXCEPT !.pc = "invalidate"]
      /\ \A v \in Worker \ {w} : req'[v] = req[v]
  BY GotoType DEF SetRVBlob, Control, TypeInv
<1>6. \A v \in Worker : req'[v] = req[v] \/ req'[v].pc # "saveBlob"
  BY <1>5 DEF TypeInv, TypeOK, Request
<1>7. AcceptedOf' \subseteq AcceptedOf
  BY <1>6 DEF AcceptedOf
<1>8. ASSUME NEW a \in AcceptedOf, a # <<g, n>> PROVE a \in AcceptedOf'
  <2>1. PICK v \in Worker : req[v].pc = "saveBlob" /\ a = <<req[v].guid, req[v].wait>>
    BY DEF AcceptedOf
  <2>2. v # w
    BY <1>1, <1>8, <2>1
  <2> QED
    BY <1>5, <2>1, <2>2 DEF AcceptedOf
<1>9. AcceptedOf' \in {AcceptedOf, AcceptedOf \ {<<g, n>>}}
  <2> HIDE DEF AcceptedOf
  <2>1. CASE <<g, n>> \in AcceptedOf'
    <3>1. AcceptedOf' = AcceptedOf
      BY <1>7, <1>8, <2>1
    <3> QED
      BY <3>1
  <2>2. CASE <<g, n>> \notin AcceptedOf'
    <3>1. AcceptedOf' = AcceptedOf \ {<<g, n>>}
      BY <1>7, <1>8, <2>2
    <3> QED
      BY <3>1
  <2> QED
    BY <2>1, <2>2
<1>10. Leases!Grant(g, n)
  BY <1>2, <1>3, <1>4, <1>9 DEF Leases!Grant, LeaseOf, AcceptedOf
<1>11. n \in Leases!Over .. MaxWait
  BY DEF Leases!Over, Expired
<1> QED
  BY <1>10, <1>11 DEF Leases!Next

\* Time passes for leases and for what is about to become one.
LEMMA TickIsTick ==
    ASSUME TypeInv, Tick
    PROVE  Leases!Next
<1>1. LeaseOf' = [g \in Guid |-> Leases!OneLess(LeaseOf[g])]
  BY DEF Tick, OneLess, LeaseOf, TypeInv, TypeOK, Expired, Leases!OneLess, Leases!Over
<1>2. ASSUME NEW w \in Worker
      PROVE  /\ req'[w].pc = req[w].pc
             /\ req[w].pc = "saveBlob" => /\ req'[w].guid = req[w].guid
                                          /\ req'[w].wait = Leases!OneLess(req[w].wait)
  <2>1. CASE req[w].pc = "saveBlob"
    <3>1. req'[w] = [req[w] EXCEPT !.wait = OneLess(@)]
      BY <2>1 DEF Tick
    <3> QED
      BY <2>1, <3>1 DEF TypeInv, TypeOK, Request, OneLess, Expired, Leases!OneLess, Leases!Over
  <2>2. CASE req[w].pc # "saveBlob"
    BY <2>2 DEF Tick
  <2> QED
    BY <2>1, <2>2
<1>3. AcceptedOf' = {<<a[1], Leases!OneLess(a[2])>> : a \in AcceptedOf}
  <2> DEFINE Aged == {<<a[1], Leases!OneLess(a[2])>> : a \in AcceptedOf}
  <2>1. ASSUME NEW b \in AcceptedOf' PROVE b \in Aged
    <3>1. PICK w \in Worker : req'[w].pc = "saveBlob" /\ b = <<req'[w].guid, req'[w].wait>>
      BY DEF AcceptedOf
    <3>2. <<req[w].guid, req[w].wait>> \in AcceptedOf
      BY <1>2, <3>1 DEF AcceptedOf
    <3>3. b = <<req[w].guid, Leases!OneLess(req[w].wait)>>
      BY <1>2, <3>1
    <3> HIDE DEF AcceptedOf
    <3> QED
      BY <3>2, <3>3
  <2>2. ASSUME NEW b \in Aged PROVE b \in AcceptedOf'
    <3>1. PICK a \in AcceptedOf : b = <<a[1], Leases!OneLess(a[2])>>
      OBVIOUS
    <3>2. PICK w \in Worker : req[w].pc = "saveBlob" /\ a = <<req[w].guid, req[w].wait>>
      BY DEF AcceptedOf
    <3>3. b = <<req'[w].guid, req'[w].wait>> /\ req'[w].pc = "saveBlob"
      BY <1>2, <3>1, <3>2
    <3> QED
      BY <3>3 DEF AcceptedOf
  <2> HIDE DEF Aged, AcceptedOf
  <2>3. AcceptedOf' = Aged
    BY <2>1, <2>2
  <2> QED
    BY <2>3 DEF Aged
<1>4. Leases!Tick
  BY <1>1, <1>3 DEF Tick, Leases!Tick, LeaseOf, AcceptedOf
<1> QED
  BY <1>4 DEF Leases!Next

\* Every step of the server is a step of the leases or leaves them alone.
LEMMA LeaseRefinement == TypeInv /\ [Next]_vars => [Leases!Next]_(Leases!vars)
<1> SUFFICES ASSUME TypeInv, [Next]_vars
             PROVE  Leases!Next \/ UNCHANGED Leases!vars
  OBVIOUS
<1> DEFINE NoneNew == \A w \in Worker : req'[w] = req[w] \/ req'[w].pc # "saveBlob"
<1>1. ASSUME NEW w \in Worker, NEW msg \in Message, NEW s \in SID, NewToken(w, msg, s)
      PROVE  Leases!Next
  <2>1. NoneNew
    BY <1>1 DEF NewToken, TypeInv, TypeOK
  <2> QED
    BY <1>1, <2>1, LoseIsStep DEF NewToken, environment
<1>2. ASSUME NEW w \in Worker, NEW msg \in Message, NEW s \in SID, NEW g \in Guid,
             NEW wait \in 0 .. MaxRequest, Receive(w, msg, s, g, wait)
      PROVE  Leases!Next
  <2>1. NoneNew
    BY <1>2 DEF Receive, TypeInv, TypeOK
  <2> QED
    BY <1>2, <2>1, LoseIsStep DEF Receive, tables, environment
<1>3. ASSUME NEW w \in Worker, WorkerStep(w) PROVE Leases!Next
  <2>1. CASE AcceptVoucher(w)
    BY <2>1, AcceptIsStep
  <2>2. CASE SetRVBlob(w)
    BY <2>2, SetIsGrant
  <2>3. CASE GetSessionID(w)
    <3>1. Done(w) \/ \E label \in {"saveNonce", "readNonce"} : Goto(w, label)
      BY <2>3 DEF GetSessionID
    <3>2. NoneNew
      BY <3>1, LeaseDone, LeaseGoto DEF Control
    <3> QED
      BY <2>3, <3>2, LoseIsStep DEF GetSessionID, tables, environment
  <2>4. CASE SaveNonce(w)
    BY <2>4, LeaseDone, LoseIsStep DEF SaveNonce, environment
  <2>5. CASE ReadNonce(w)
    <3>1. Done(w) \/ \E label \in {"accept", "readBlob"} : Goto(w, label)
      BY <2>5 DEF ReadNonce
    <3>2. NoneNew
      BY <3>1, LeaseDone, LeaseGoto DEF Control
    <3> QED
      BY <2>5, <3>2, LoseIsStep DEF ReadNonce, tables, environment
  <2>6. CASE ReadRVBlob(w)
    <3>1. Done(w) \/ Goto(w, "invalidate")
      BY <2>6 DEF ReadRVBlob
    <3>2. NoneNew
      BY <3>1, LeaseDone, LeaseGoto DEF Control
    <3> QED
      BY <2>6, <3>2, LoseIsStep DEF ReadRVBlob, tables, environment
  <2>7. CASE InvalidateToken(w)
    BY <2>7, LeaseDone, LoseIsStep DEF InvalidateToken, environment
  <2> QED
    BY <1>3, <2>1, <2>2, <2>3, <2>4, <2>5, <2>6, <2>7 DEF WorkerStep
<1>4. ASSUME NEW w \in Worker, StatementFails(w) PROVE Leases!Next
  BY <1>4, LeaseDone, LoseIsStep DEF StatementFails, tables, environment
<1>5. CASE CleanupExpiredBlobs
  <2>1. LeaseOf' = LeaseOf
    BY <1>5 DEF CleanupExpiredBlobs, BlobIsOver, LeaseOf, TypeInv, TypeOK, Expired
  <2>2. AcceptedOf' = AcceptedOf /\ trusted' = trusted
    BY <1>5 DEF CleanupExpiredBlobs, AcceptedOf, environment
  <2> QED
    BY <2>1, <2>2 DEF Leases!vars, LeaseOf, AcceptedOf
<1>6. ASSUME NEW T \in SUBSET Guid, ChangeTrusted(T) PROVE Leases!Next
  <2>1. LeaseOf' = LeaseOf /\ AcceptedOf' = AcceptedOf /\ trusted' = T
    BY <1>6 DEF ChangeTrusted, LoadTrusted, tables, LeaseOf, AcceptedOf
  <2>2. Leases!Trust(T)
    BY <2>1 DEF Leases!Trust, LeaseOf, AcceptedOf
  <2> QED
    BY <2>2 DEF Leases!Next
<1>7. CASE Tick
  BY <1>7, TickIsTick
<1>8. ASSUME NEW T \in SUBSET Guid, Restart(T) PROVE Leases!Next
  <2>1. AcceptedOf' = {}
    BY <1>8 DEF Restart, Idle, AcceptedOf
  <2>2. LeaseOf' = LeaseOf /\ trusted' = T
    BY <1>8 DEF Restart, LoadTrusted, tables, LeaseOf
  <2>3. Leases!Restart(T)
    BY <2>1, <2>2 DEF Leases!Restart, LeaseOf, AcceptedOf
  <2> QED
    BY <2>3 DEF Leases!Next
<1>9. CASE UNCHANGED <<blobs, left, environment, req>>
  <2>1. LeaseOf' = LeaseOf /\ AcceptedOf' = AcceptedOf /\ trusted' = trusted
    BY <1>9 DEF LeaseOf, AcceptedOf, environment
  <2> QED
    BY <2>1 DEF Leases!vars, LeaseOf, AcceptedOf
<1> QED
  BY <1>1, <1>2, <1>3, <1>4, <1>5, <1>6, <1>7, <1>8, <1>9
  DEF Next, ServerNext, AnyRestart, vars, tables, environment, ClientForgets, CleanupFires,
      CleanupExpiredSessions, CleanupFails

\* The server implements the leases that RendezvousLease promises, for every
\* number of requests under way: nothing but time and a registration that was
\* accepted before changes what is served for a device (ImplementsLeases).
THEOREM LeasesImplemented == Spec => ImplementsLeases
<1>1. Init => Leases!Init
  <2> SUFFICES ASSUME Init PROVE Leases!Init
    OBVIOUS
  <2>1. AcceptedOf = {}
    BY DEF Init, Idle, AcceptedOf
  <2>2. LeaseOf = [g \in Guid |-> Leases!Over] /\ trusted \in SUBSET Guid
    BY DEF Init, LeaseOf, Leases!Over, Expired
  <2> QED
    BY <2>1, <2>2 DEF Leases!Init, LeaseOf, AcceptedOf
<1> QED
  BY <1>1, TypeInit, TypeStep, LeaseRefinement, PTL
  DEF Spec, ImplementsLeases, Leases!Spec

-----------------------------------------------------------------------------
(***************************************************************************)
(* Sessions and blobs.                                                     *)
(***************************************************************************)

\* When every connection enforces foreign keys no nonce row outlives its
\* session, although a session may be deleted between the check of
\* getSessionID and the insert that relies on it (NoOrphans).
THEOREM OrphanFree ==
    ASSUME FKEnforced = {TRUE}
    PROVE  Spec => []NoOrphans
<1>1. Init => NoOrphans
  BY DEF Init, NoOrphans
<1>2. ASSUME NoOrphans, NEW S, DeleteSessions(S) PROVE NoOrphans'
  BY <1>2 DEF NoOrphans, DeleteSessions
<1>3. NoOrphans /\ [Next]_vars => NoOrphans'
  <2> SUFFICES ASSUME NoOrphans, [Next]_vars PROVE NoOrphans'
    OBVIOUS
  <2>1. ASSUME NEW w \in Worker, SaveNonce(w) PROVE NoOrphans'
    BY <2>1 DEF SaveNonce, ReferenceHolds, NoOrphans
  <2>2. ASSUME NEW w \in Worker, InvalidateToken(w) PROVE NoOrphans'
    BY <1>2, <2>2 DEF InvalidateToken
  <2>3. CASE CleanupExpiredSessions
    BY <1>2, <2>3 DEF CleanupExpiredSessions, NoOrphans
  <2>4. ASSUME NEW w \in Worker, NEW msg \in Message, NEW s \in SID, NewToken(w, msg, s)
        PROVE  NoOrphans'
    BY <2>4 DEF NewToken, NoOrphans
  <2>5. CASE UNCHANGED <<sessions, to0, to1>>
    BY <2>5 DEF NoOrphans
  <2> QED
    BY <2>1, <2>2, <2>3, <2>4, <2>5
    DEF Next, ServerNext, AnyRestart, WorkerStep, vars, tables, Receive, GetSessionID, ReadNonce, AcceptVoucher,
        SetRVBlob, ReadRVBlob, StatementFails, ClientForgets, CleanupFires,
        CleanupExpiredBlobs, CleanupFails, ChangeTrusted, Tick, Restart
<1> QED
  BY <1>1, <1>3, PTL DEF Spec

\* A worker that creates a session has a token of its own, which no client
\* holds and no nonce belongs to, until it has saved the nonce.
NewSessionIsOwn ==
    \A w \in Worker :
        /\ req[w].pc = "saveNonce" => req[w].msg \in {"TO0.Hello", "TO1.HelloRV"}
        /\ req[w].pc \in {"checkSession", "saveNonce"}
             /\ req[w].msg \in {"TO0.Hello", "TO1.HelloRV"} =>
                /\ req[w].tok \in SID
                /\ req[w].tok \notin to0 \cup to1 \cup held
                /\ \A v \in Worker \ {w} : req[v].tok # req[w].tok

Whole == NewSessionIsOwn /\ HandshakesAreWhole

\* Deleting sessions, with or without the rows that refer to them, leaves the
\* handshakes of the others whole.
LEMMA WholeDelete ==
    ASSUME Whole, NEW S, DeleteSessions(S), UNCHANGED held,
           \A w \in Worker : \/ req'[w] = req[w]
                             \/ req'[w] = Idle
    PROVE  Whole'
<1>1. /\ sessions' = sessions \ S
      /\ to0' \in {to0, to0 \ S}
      /\ to1' \in {to1, to1 \ S}
  BY DEF DeleteSessions
<1>2. HandshakesAreWhole'
  BY <1>1 DEF Whole, HandshakesAreWhole
<1>3. NewSessionIsOwn'
  BY <1>1, IdAssumption DEF Whole, NewSessionIsOwn, Idle
<1> QED
  BY <1>2, <1>3 DEF Whole

\* So does a step on requests alone that begins no new session.
LEMMA WholeKept ==
    ASSUME TypeInv, Whole, UNCHANGED <<sessions, to0, to1>>, held' \subseteq held,
           \A w \in Worker :
              \/ req'[w] = Idle
              \/ /\ req'[w].tok = req[w].tok
                 /\ req'[w].msg = req[w].msg
                 /\ req'[w].pc \in {req[w].pc, "accept", "saveBlob", "readNonce", "readBlob",
                                    "invalidate"}
    PROVE  Whole'
<1>1. HandshakesAreWhole'
  BY DEF Whole, HandshakesAreWhole
<1>2. NewSessionIsOwn'
  BY IdAssumption DEF Whole, NewSessionIsOwn, Idle
<1> QED
  BY <1>1, <1>2 DEF Whole

\* Every step keeps the handshakes whole.
LEMMA WholeStep == TypeInv /\ Whole /\ [Next]_vars => Whole'
<1> SUFFICES ASSUME TypeInv, Whole, [Next]_vars PROVE Whole'
  OBVIOUS
<1> USE DEF TypeInv
<1>d. ASSUME NEW w \in Worker, Done(w)
      PROVE  \A v \in Worker : req'[v] = (IF v = w THEN Idle ELSE req[v])
  BY <1>d DEF Done, TypeOK
<1>g. ASSUME NEW w \in Worker, NEW label \in Control, Goto(w, label)
      PROVE  \A v \in Worker : /\ req'[v].tok = req[v].tok
                               /\ req'[v].msg = req[v].msg
                               /\ req'[v].pc = (IF v = w THEN label ELSE req[v].pc)
  <2>1. TypeOK
    OBVIOUS
  <2>2. /\ req'[w] = [req[w] EXCEPT !.pc = label]
        /\ \A v \in Worker \ {w} : req'[v] = req[v]
    BY <1>g, <2>1, GotoType
  <2> QED
    BY <2>1, <2>2 DEF TypeOK, Request
<1>1. ASSUME NEW w \in Worker, NEW msg \in Message, NEW s \in SID, NewToken(w, msg, s)
      PROVE  Whole'
  <2> DEFINE r == [pc |-> "checkSession", msg |-> msg, tok |-> s, guid |-> NoGuid, wait |-> 0]
  <2>1. /\ req'[w] = r
        /\ \A v \in Worker \ {w} : req'[v] = req[v]
        /\ r.tok = s /\ r.pc = "checkSession"
    BY <1>1 DEF NewToken, TypeOK
  <2>2. /\ s \notin sessions \cup to0 \cup to1 \cup held
        /\ \A v \in Worker : req[v].tok # s
        /\ sessions' = sessions \cup {s}
        /\ UNCHANGED <<to0, to1, held>>
    BY <1>1 DEF NewToken, Fresh
  <2> HIDE DEF r
  <2>3. HandshakesAreWhole'
    BY <2>2 DEF Whole, HandshakesAreWhole
  <2>4. NewSessionIsOwn'
    BY <2>1, <2>2 DEF Whole, NewSessionIsOwn
  <2> QED
    BY <2>3, <2>4 DEF Whole
<1>2. ASSUME NEW w \in Worker, NEW msg \in Message, NEW s \in SID, NEW g \in Guid,
             NEW wait \in 0 .. MaxRequest, Receive(w, msg, s, g, wait)
      PROVE  Whole'
  <2> DEFINE r == [pc |-> "checkSession", msg |-> msg, tok |-> s, guid |-> g, wait |-> wait]
  <2>1. /\ req'[w] = r
        /\ \A v \in Worker \ {w} : req'[v] = req[v]
        /\ r.tok = s /\ r.pc = "checkSession" /\ r.msg = msg
        /\ s \in held /\ msg \notin {"TO0.Hello", "TO1.HelloRV"}
        /\ UNCHANGED <<sessions, to0, to1, held>>
    BY <1>2 DEF Receive, tables, TypeOK
  <2> HIDE DEF r
  <2>2. HandshakesAreWhole'
    BY <2>1 DEF Whole, HandshakesAreWhole
  <2>3. NewSessionIsOwn'
    BY <2>1 DEF Whole, NewSessionIsOwn
  <2> QED
    BY <2>2, <2>3 DEF Whole
<1>3. ASSUME NEW w \in Worker, GetSessionID(w) PROVE Whole'
  <2>0. UNCHANGED <<sessions, to0, to1, held>>
    BY <1>3 DEF GetSessionID, tables
  <2>1. CASE Done(w)
    BY <1>d, <2>0, <2>1, WholeKept
  <2>2. CASE ~Done(w)
    <3>1. PICK label \in {"saveNonce", "readNonce"} :
              /\ Goto(w, label)
              /\ label = "saveNonce" => req[w].msg \in {"TO0.Hello", "TO1.HelloRV"}
      BY <1>3, <2>2 DEF GetSessionID
    <3>2. \A v \in Worker : /\ req'[v].tok = req[v].tok
                            /\ req'[v].msg = req[v].msg
                            /\ req'[v].pc = (IF v = w THEN label ELSE req[v].pc)
      BY <1>g, <3>1 DEF Control
    <3>3. HandshakesAreWhole'
      BY <2>0 DEF Whole, HandshakesAreWhole
    <3>4. NewSessionIsOwn'
      BY <1>3, <2>0, <3>1, <3>2 DEF GetSessionID, Whole, NewSessionIsOwn
    <3> QED
      BY <3>3, <3>4 DEF Whole
  <2> QED
    BY <2>1, <2>2
<1>4. ASSUME NEW w \in Worker, SaveNonce(w) PROVE Whole'
  <2>1. \A v \in Worker : req'[v] = (IF v = w THEN Idle ELSE req[v])
    BY <1>d, <1>4 DEF SaveNonce
  <2>2. /\ req[w].msg \in {"TO0.Hello", "TO1.HelloRV"}
        /\ req[w].tok \in SID
        /\ req[w].tok \notin to0 \cup to1 \cup held
        /\ \A v \in Worker \ {w} : req[v].tok # req[w].tok
    BY <1>4 DEF SaveNonce, Whole, NewSessionIsOwn
  <2>3. CASE UNCHANGED <<to0, to1, held>>
    BY <1>4, <2>1, <2>3, WholeKept DEF SaveNonce
  <2>4. CASE /\ to0' = IF req[w].msg = "TO0.Hello" THEN to0 \cup {req[w].tok} ELSE to0
             /\ to1' = IF req[w].msg = "TO1.HelloRV" THEN to1 \cup {req[w].tok} ELSE to1
             /\ held' = held \cup {req[w].tok}
    <3>1. HandshakesAreWhole'
      BY <1>4, <2>2, <2>4 DEF SaveNonce, Whole, HandshakesAreWhole
    <3>2. NewSessionIsOwn'
      <4>1. to0' \cup to1' \cup held' = to0 \cup to1 \cup held \cup {req[w].tok}
        BY <2>2, <2>4
      <4> QED
        BY <2>1, <2>2, <4>1, IdAssumption DEF Whole, NewSessionIsOwn, Idle
    <3> QED
      BY <3>1, <3>2 DEF Whole
  <2> QED
    BY <1>4, <2>3, <2>4 DEF SaveNonce
<1>5. ASSUME NEW w \in Worker, ReadNonce(w) \/ ReadRVBlob(w) \/ SetRVBlob(w) \/ StatementFails(w)
      PROVE  Whole'
  <2>1. UNCHANGED <<sessions, to0, to1, held>>
    BY <1>5 DEF ReadNonce, ReadRVBlob, SetRVBlob, StatementFails, tables
  <2>2. Done(w) \/ \E label \in {"accept", "readBlob", "invalidate"} : Goto(w, label)
    BY <1>5 DEF ReadNonce, ReadRVBlob, SetRVBlob, StatementFails
  <2>3. CASE Done(w)
    BY <1>d, <2>1, <2>3, WholeKept
  <2>4. ASSUME NEW label \in {"accept", "readBlob", "invalidate"}, Goto(w, label)
        PROVE  Whole'
    BY <1>g, <2>1, <2>4, WholeKept DEF Control
  <2> QED
    BY <2>2, <2>3, <2>4
<1>6. ASSUME NEW w \in Worker, AcceptVoucher(w) PROVE Whole'
  <2>1. UNCHANGED <<sessions, to0, to1, held>>
    BY <1>6 DEF AcceptVoucher, tables
  <2>2. CASE Done(w)
    BY <1>d, <2>1, <2>2, WholeKept
  <2>3. CASE ~Done(w)
    <3>1. req' = [req EXCEPT ![w] =
                    [@ EXCEPT !.pc = "saveBlob", !.wait = GrantedWait(req[w].wait)]]
      BY <1>6, <2>3 DEF AcceptVoucher
    <3>2. \A v \in Worker : /\ req'[v].tok = req[v].tok
                            /\ req'[v].msg = req[v].msg
                            /\ req'[v].pc \in {req[v].pc, "saveBlob"}
      BY <3>1 DEF TypeOK, Request
    <3> QED
      BY <2>1, <3>2, WholeKept
  <2> QED
    BY <2>2, <2>3
<1>7. ASSUME NEW w \in Worker, InvalidateToken(w) PROVE Whole'
  BY <1>d, <1>7, WholeDelete DEF InvalidateToken
<1>8. CASE CleanupExpiredSessions
  BY <1>8, WholeDelete DEF CleanupExpiredSessions, Whole, NewSessionIsOwn, HandshakesAreWhole
<1>9. CASE Tick
  <2>1. ASSUME NEW w \in Worker
        PROVE  /\ req'[w].tok = req[w].tok
               /\ req'[w].msg = req[w].msg
               /\ req'[w].pc = req[w].pc
    BY <1>9 DEF Tick, TypeOK, Request
  <2> QED
    BY <1>9, <2>1, WholeKept DEF Tick
<1>10. ASSUME NEW T \in SUBSET Guid, Restart(T) PROVE Whole'
  BY <1>10, WholeKept DEF Restart, tables
<1>11. ASSUME UNCHANGED <<sessions, to0, to1, req>>, held' \subseteq held PROVE Whole'
  BY <1>11, WholeKept
<1> QED
  BY <1>1, <1>2, <1>3, <1>4, <1>5, <1>6, <1>7, <1>8, <1>9, <1>10, <1>11
  DEF Next, ServerNext, AnyRestart, WorkerStep, vars, tables, ClientForgets, CleanupFires,
      CleanupExpiredBlobs, CleanupFails, ChangeTrusted

\* A client that holds the token of a session that exists can end its
\* handshake: the nonce is there, and of one protocol only, whether or not the
\* connections enforce foreign keys (HandshakesAreWhole).
THEOREM HandshakesWhole == Spec => []HandshakesAreWhole
<1>1. Init => Whole
  BY DEF Init, Whole, NewSessionIsOwn, HandshakesAreWhole, Idle
<1>2. Whole => HandshakesAreWhole
  BY DEF Whole
<1> QED
  BY <1>1, <1>2, TypeInit, TypeStep, WholeStep, PTL DEF Spec

\* No cleanup removes a blob that would still be served (CleanupKeepsServed).
THEOREM CleanupSafe == Spec => CleanupKeepsServed
<1> DEFINE Kept == cleaner' # cleaner /\ req' = req => \A g \in Guid : Served(g) => Served(g)'
<1>1. TypeInv /\ [Next]_vars => [Kept]_vars
  <2> SUFFICES ASSUME TypeInv, Next PROVE Kept
    OBVIOUS
  <2>1. CASE CleanupExpiredBlobs
    BY <2>1 DEF CleanupExpiredBlobs, Served, BlobIsOver, TypeInv, TypeOK, Expired
  <2>2. CASE UNCHANGED <<blobs, left>>
    BY <2>2 DEF Served
  <2>3. CASE UNCHANGED cleaner
    BY <2>3
  <2> QED
    BY <2>1, <2>2, <2>3
    DEF Next, ServerNext, AnyRestart, WorkerStep, tables, NewToken, Receive, GetSessionID, SaveNonce, ReadNonce,
        AcceptVoucher, SetRVBlob, ReadRVBlob, InvalidateToken, StatementFails,
        ClientForgets, CleanupFires, CleanupExpiredSessions, CleanupFails, ChangeTrusted,
        Tick, Restart
<1> QED
  BY <1>1, TypeInit, TypeStep, PTL DEF Spec, CleanupKeepsServed
=============================================================================

------------------------- MODULE ServiceInfoProofs -------------------------
(***************************************************************************)
(* Theorems about TO2's session state and modules, for any sessions and    *)
(* any configuration.                                                      *)
(***************************************************************************)
EXTENDS ServiceInfo, TLAPS

\* The columns, one by one.
LEMMA Columns ==
    /\ Column = {"guid", "prove_device", "setup_device", "rv_info", "mtu", "devmod",
                 "devmod_complete", "new_guid", "hmac", "xsession"}
    /\ \A c \in {"guid", "prove_device", "setup_device", "rv_info", "mtu", "devmod",
                 "devmod_complete"} : Table[c] = "to2"
    /\ \A c \in {"new_guid", "hmac"} : Table[c] = "replacement"
    /\ Table["xsession"] = "kex"
BY DEF Column, Table

\* The stage after a message.
LEMMA AfterType == \A st \in Stage : After[st] \in Stage
BY DEF Stage, After

\* Every call of every message is one.
LEMMA CallTypes ==
    /\ \A c \in Column : Set(c) \in Called /\ Get(c) \in Called
    /\ Module \in Called /\ NextModule \in Called /\ ReplaceVoucher \in Called
    /\ CleanupModules \in Called /\ InvalidateToken \in Called
BY Columns DEF Called, Set, Get, Module, NextModule, ReplaceVoucher, CleanupModules,
               InvalidateToken, Call

\* A call's name and column.
LEMMA CallFields ==
    /\ \A c \in Column : Set(c).name = "set" /\ Set(c).column = c /\ Get(c).name = "get"
    /\ Module.name = "module" /\ NextModule.name = "next" /\ ReplaceVoucher.name = "replace"
    /\ CleanupModules.name = "cleanup" /\ InvalidateToken.name = "invalidate"
BY DEF Set, Get, Module, NextModule, ReplaceVoucher, CleanupModules, InvalidateToken, Call

\* The messages, one by one.
LEMMA Scripts ==
    ASSUME NEW st \in Stage, NEW c \in Script(st)
    PROVE  \/ st = "hello" /\ c = <<Set("guid"), Set("prove_device"), Set("xsession")>>
           \/ st = "prove" /\ c = <<Get("prove_device"), Get("xsession"), Get("guid"), Set("xsession"),
                                    Set("new_guid"), Set("setup_device"), Set("rv_info")>>
           \/ st = "ready" /\ c = <<Get("xsession"), Set("hmac"), Set("mtu")>>
           \/ st = "devmod" /\ c = <<Get("xsession"), Get("guid"), Set("devmod")>>
           \/ st = "devmod" /\ c = <<Get("xsession"), Get("guid"), Set("devmod_complete"), NextModule>>
           \/ st = "info" /\ c = <<Get("xsession"), Get("mtu"), Module>>
           \/ st = "info" /\ c = <<Get("xsession"), Get("mtu"), Module, NextModule>>
           \/ st = "done" /\ c = <<Get("xsession"), Get("prove_device"), Get("setup_device"),
                                   Get("new_guid"), Get("hmac"), ReplaceVoucher, CleanupModules,
                                   InvalidateToken>>
BY DEF Stage, Script

\* What a message has the library do is a sequence of calls.
LEMMA ScriptType == ASSUME NEW st \in Stage, NEW c \in Script(st) PROVE c \in Seq(Called)
<1>0. \A x \in Column : Set(x) \in Called /\ Get(x) \in Called
  BY CallTypes
<1>1. CASE c = <<Set("guid"), Set("prove_device"), Set("xsession")>>
  BY <1>1, <1>0, CallTypes, Columns
<1>2. CASE c = <<Get("prove_device"), Get("xsession"), Get("guid"), Set("xsession"),
                Set("new_guid"), Set("setup_device"), Set("rv_info")>>
  BY <1>2, <1>0, CallTypes, Columns
<1>3. CASE c = <<Get("xsession"), Set("hmac"), Set("mtu")>>
  BY <1>3, <1>0, CallTypes, Columns
<1>4. CASE c = <<Get("xsession"), Get("guid"), Set("devmod")>>
  BY <1>4, <1>0, CallTypes, Columns
<1>5. CASE c = <<Get("xsession"), Get("guid"), Set("devmod_complete"), NextModule>>
  BY <1>5, <1>0, CallTypes, Columns
<1>6. CASE c = <<Get("xsession"), Get("mtu"), Module>>
  BY <1>6, <1>0, CallTypes, Columns
<1>7. CASE c = <<Get("xsession"), Get("mtu"), Module, NextModule>>
  BY <1>7, <1>0, CallTypes, Columns
<1>8. CASE c = <<Get("xsession"), Get("prove_device"), Get("setup_device"),
                Get("new_guid"), Get("hmac"), ReplaceVoucher, CleanupModules, InvalidateToken>>
  BY <1>8, <1>0, CallTypes, Columns
<1> QED
  BY Scripts, <1>1, <1>2, <1>3, <1>4, <1>5, <1>6, <1>7, <1>8

\* The rest of a message, once its first call has returned.
LEMMA Rest ==
    ASSUME NEW q \in Seq(Called), q # <<>>
    PROVE  /\ Tail(q) \in Seq(Called)
           /\ Len(Tail(q)) = Len(q) - 1
           /\ Len(q) \in Nat \ {0}
           /\ \A k \in 1 .. Len(q) - 1 : Tail(q)[k] = q[k + 1]
           /\ Head(q) = q[1]
           /\ Head(q) \in Called
OBVIOUS

\* A message without a call left is empty.
LEMMA LenZero == ASSUME NEW q \in Seq(Called), Len(q) = 0 PROVE q = <<>>
OBVIOUS

\* The entry that the iterator moves to is one, or there is none left; one is
\* after the entry it was at.
LEMMA MovesOn ==
    ASSUME NEW s \in Session, NEW after, NEW end, NEW i, YieldsNext(s, after, end, i)
    PROVE  (i \in Entry /\ i > after) \/ i = Exhausted
BY DEF YieldsNext, Supported

\* The entries are positions of the iterator.
LEMMA EntriesType == Len(Fsims) \in Nat /\ 0 \in 0 .. Exhausted /\ Exhausted \in 0 .. Exhausted /\ Entry \subseteq 0 .. Exhausted
BY FsimsAssumption DEF Exhausted, Entry

USE EntriesType

\* A failed call leaves everything well-typed.
LEMMA FailsType ==
    ASSUME TypeOK, NEW s \in Session, Fails(s), UNCHANGED <<up, disk, modules>>
    PROVE  TypeOK'
<1>1. todo' \in [Session -> Seq(Called)]
  BY DEF TypeOK, Fails
<1>2. stage' \in [Session -> Stage]
  BY DEF TypeOK, Fails, Stage
<1>3. states' \in [Session -> 0 .. Exhausted]
  BY DEF TypeOK, Fails
<1> QED
  BY <1>1, <1>2, <1>3 DEF TypeOK, Fails

\* The return of a call keeps the messages and stages well-typed.
LEMMA ReturnType ==
    ASSUME TypeOK, NEW s \in Session, NEW next \in Stage, Return(s, next), todo[s] # <<>>
    PROVE  todo' \in [Session -> Seq(Called)] /\ stage' \in [Session -> Stage]
BY Rest DEF TypeOK, Return

\* The types hold at first,
LEMMA TypeInit == Init => TypeOK
<1> SUFFICES ASSUME Init PROVE TypeOK
  OBVIOUS
<1>1. up \in BOOLEAN
  BY DEF Init, Validates
<1>2. todo \in [Session -> Seq(Called)] /\ ran \in [Session -> Seq(Entry)]
  BY DEF Init
<1> QED
  BY <1>1, <1>2 DEF Init, TypeOK, Stage

\* and after every step.
LEMMA TypeNext == TypeOK /\ [Next]_vars => TypeOK'
<1> SUFFICES ASSUME TypeOK, [Next]_vars PROVE TypeOK'
  OBVIOUS
<1>1. ASSUME NEW s \in Session, NEW supported \in SUBSET Fsim, HelloDevice(s, supported)
      PROVE  TypeOK'
  <2>1. PICK calls \in Script("hello") : todo' = [todo EXCEPT ![s] = calls]
    BY <1>1 DEF HelloDevice
  <2>2. calls \in Seq(Called)
    BY ScriptType DEF Stage
  <2> QED
    BY <1>1, <2>1, <2>2 DEF HelloDevice, TypeOK, Stage
<1>2. ASSUME NEW s \in Session, Send(s) PROVE TypeOK'
  <2>1. PICK calls \in Script(stage[s]) : todo' = [todo EXCEPT ![s] = calls]
    BY <1>2 DEF Send
  <2>2. calls \in Seq(Called)
    BY ScriptType DEF TypeOK
  <2> QED
    BY <1>2, <2>1, <2>2 DEF Send, TypeOK
<1>3. ASSUME NEW s \in Session, SetColumn(s) PROVE TypeOK'
  <2>1. CASE s \notin sessions
    BY <1>3, <2>1, FailsType DEF SetColumn
  <2>2. CASE s \in sessions
    <3>1. todo[s] # <<>> /\ Head(todo[s]).column \in Column
      BY <1>3, Rest DEF SetColumn, Calls, TypeOK, Called
    <3>2. After[stage[s]] \in Stage
      BY AfterType DEF TypeOK
    <3>3. todo' \in [Session -> Seq(Called)] /\ stage' \in [Session -> Stage]
      <4>1. Return(s, After[stage[s]])
        BY <1>3, <2>2 DEF SetColumn
      <4> QED
        BY <3>1, <3>2, <4>1, ReturnType
    <3>4. stored' \in [Session -> SUBSET Column] /\ acked' \in [Session -> SUBSET Column]
      <4> DEFINE column == Head(todo[s]).column
      <4>1. /\ acked' = [acked EXCEPT ![s] = @ \cup {column}]
            /\ stored' = [stored EXCEPT ![s] =
                            IF column \in Creates \/ HasRow(s, column) THEN @ \cup {column} ELSE @]
        BY <1>3, <2>2 DEF SetColumn
      <4>2. column \in Column
        BY <3>1
      <4> HIDE DEF column
      <4>3. acked[s] \cup {column} \in SUBSET Column /\ stored[s] \cup {column} \in SUBSET Column
        BY <4>2 DEF TypeOK
      <4> QED
        BY <4>1, <4>3 DEF TypeOK
    <3> QED
      BY <1>3, <2>2, <3>3, <3>4 DEF SetColumn, TypeOK
  <2> QED
    BY <2>1, <2>2
<1>4. ASSUME NEW s \in Session, GetColumn(s) PROVE TypeOK'
  <2>1. CASE Fails(s)
    BY <1>4, <2>1, FailsType DEF GetColumn
  <2>2. CASE ~Fails(s)
    <3>1. todo[s] # <<>> /\ After[stage[s]] \in Stage
      BY <1>4, AfterType DEF GetColumn, Calls, TypeOK
    <3> QED
      BY <1>4, <2>2, <3>1, ReturnType DEF GetColumn, TypeOK
  <2> QED
    BY <2>1, <2>2
<1>5. ASSUME NEW s \in Session, CurrentModule(s) PROVE TypeOK'
  <2>1. CASE Fails(s)
    BY <1>5, <2>1, FailsType DEF CurrentModule
  <2>2. CASE ~Fails(s)
    <3>1. todo[s] # <<>> /\ After[stage[s]] \in Stage
      BY <1>5, AfterType DEF CurrentModule, Calls, TypeOK
    <3> QED
      BY <1>5, <2>2, <3>1, ReturnType DEF CurrentModule, TypeOK
  <2> QED
    BY <2>1, <2>2
<1>6. ASSUME NEW s \in Session, MoveIterator(s) PROVE TypeOK'
  <2>1. CASE states[s] = 0 /\ ~(s \in sessions /\ "guid" \in stored[s])
    BY <1>6, <2>1, FailsType DEF MoveIterator
  <2>2. CASE ~(states[s] = 0 /\ ~(s \in sessions /\ "guid" \in stored[s]))
    <3>1. PICK end \in Ends(s, states[s]), i \in Entry \cup {Exhausted} : Moves(s, end, i)
      BY <1>6, <2>2 DEF MoveIterator
    <3>2. todo[s] # <<>> /\ MessageAfter(i) \in Stage
      BY <1>6 DEF MoveIterator, Calls, MessageAfter, Stage
    <3>3. todo' \in [Session -> Seq(Called)] /\ stage' \in [Session -> Stage]
      BY <3>1, <3>2, ReturnType DEF Moves
    <3>4. ran' \in [Session -> Seq(Entry)]
      BY <3>1 DEF TypeOK, Valid, Moves
    <3>5. /\ logged' \in [Session -> SUBSET Entry]
          /\ cut' \in [Session -> SUBSET Entry]
      BY <3>1 DEF TypeOK, Supported, Moves
    <3> QED
      BY <1>6, <3>1, <3>3, <3>4, <3>5 DEF MoveIterator, Moves, TypeOK
  <2> QED
    BY <2>1, <2>2
<1>7. ASSUME NEW s \in Session, Replace(s) PROVE TypeOK'
  <2>1. CASE Fails(s)
    BY <1>7, <2>1, FailsType DEF Replace
  <2>2. CASE ~Fails(s)
    <3>1. todo[s] # <<>> /\ After[stage[s]] \in Stage
      BY <1>7, AfterType DEF Replace, Calls, TypeOK
    <3> QED
      BY <1>7, <2>2, <3>1, ReturnType DEF Replace, TypeOK
  <2> QED
    BY <2>1, <2>2
<1>8. ASSUME NEW s \in Session, Cleanup(s) PROVE TypeOK'
  <2>1. todo[s] # <<>> /\ After[stage[s]] \in Stage
    BY <1>8, AfterType DEF Cleanup, Calls, TypeOK
  <2> QED
    BY <1>8, <2>1, ReturnType DEF Cleanup, TypeOK
<1>9. ASSUME NEW s \in Session, Invalidate(s) PROVE TypeOK'
  <2>1. CASE s \notin sessions
    BY <1>9, <2>1, FailsType DEF Invalidate
  <2>2. CASE s \in sessions
    <3>1. todo[s] # <<>> /\ After[stage[s]] \in Stage
      BY <1>9, AfterType DEF Invalidate, Calls, TypeOK
    <3> QED
      BY <1>9, <2>2, <3>1, ReturnType DEF Invalidate, TypeOK
  <2> QED
    BY <2>1, <2>2
<1>10. ASSUME NEW s \in Session, StatementFails(s) \/ GivesUp(s) PROVE TypeOK'
  BY <1>10, FailsType DEF StatementFails, GivesUp
<1>11. ASSUME NEW p \in Path, DiskChanges(p) PROVE TypeOK'
  BY <1>11 DEF DiskChanges, TypeOK
<1>12. CASE Restart
  BY <1>12 DEF Restart, TypeOK, Validates, Stage
<1>13. CASE UNCHANGED vars
  BY <1>13 DEF vars, TypeOK
<1> QED
  BY <1>1, <1>2, <1>3, <1>4, <1>5, <1>6, <1>7, <1>8, <1>9, <1>10, <1>11, <1>12, <1>13
     DEF Next, CallStep

\* Sessions, iterators and messages stay well-typed; in particular the iterator
\* is never past the end of the configured list (moduleStateMachines).
THEOREM TypeCorrect == Spec => []TypeOK
BY TypeInit, TypeNext, PTL DEF Spec

-----------------------------------------------------------------------------
(***************************************************************************)
(* The order of the modules.                                               *)
(***************************************************************************)

\* NextModule is the last call of a message: either the one that completes the
\* devmod, or one before which Module has found an iterator, or will have.
NextGuarded(s) ==
    \A k \in 1 .. Len(todo[s]) :
        todo[s][k].name = "next" =>
            /\ k = Len(todo[s])
            /\ \/ stage[s] = "devmod"
               \/ /\ stage[s] = "info"
                  /\ k = 1 => states[s] # 0
                  /\ k > 1 => todo[s][k - 1].name = "module"

\* The device is given nothing before the devmod is complete.
NoneBefore(s) == stage[s] \in {"new", "hello", "prove", "ready", "devmod"} => ran[s] = <<>>

\* No iterator is behind what its device was given.
Behind(s) == ran[s] # <<>> /\ states[s] # 0 => ran[s][Len(ran[s])] <= states[s]

Increasing(s) == \A k \in 1 .. Len(ran[s]) - 1 : ran[s][k] < ran[s][k + 1]

Ordered(s) == NextGuarded(s) /\ NoneBefore(s) /\ Behind(s) /\ Increasing(s)

\* The order is a matter of a session's own state.
LEMMA OrderFrame ==
    ASSUME NEW t, Ordered(t), todo'[t] = todo[t], stage'[t] = stage[t],
           states'[t] = states[t], ran'[t] = ran[t]
    PROVE  Ordered(t)'
BY DEF Ordered, NextGuarded, NoneBefore, Behind, Increasing

\* A call that fails.
LEMMA OrderFails ==
    ASSUME TypeOK, NEW s \in Session, NEW t \in Session, Ordered(t), Fails(s)
    PROVE  Ordered(t)'
<1>1. CASE t = s
  <2>1. todo'[s] = <<>> /\ stage'[s] = "failed" /\ ran'[s] = ran[s] /\ states'[s] \in {states[s], 0}
    BY DEF Fails, TypeOK
  <2> QED
    BY <1>1, <2>1 DEF Ordered, NextGuarded, NoneBefore, Behind, Increasing
<1>2. CASE t # s
  BY <1>2, OrderFrame DEF Fails, TypeOK
<1> QED
  BY <1>1, <1>2

\* A call that returns, other than NextModule.
LEMMA OrderReturn ==
    ASSUME TypeOK, NEW s \in Session, Ordered(s), todo[s] # <<>>, Return(s, After[stage[s]]),
           ran'[s] = ran[s], states'[s] \in {states[s], 0},
           Head(todo[s]).name = "module" => states'[s] # 0
    PROVE  Ordered(s)'
<1>1. /\ todo'[s] = Tail(todo[s])
      /\ stage'[s] = IF Len(todo[s]) = 1 THEN After[stage[s]] ELSE stage[s]
  BY DEF Return, TypeOK
<1>2. /\ Len(Tail(todo[s])) = Len(todo[s]) - 1
      /\ Len(todo[s]) \in Nat \ {0}
      /\ \A k \in 1 .. Len(todo[s]) - 1 : Tail(todo[s])[k] = todo[s][k + 1]
      /\ Head(todo[s]) = todo[s][1]
  BY Rest DEF TypeOK
<1>3. NextGuarded(s)'
  <2> SUFFICES ASSUME NEW k \in 1 .. Len(todo'[s]), todo'[s][k].name = "next"
               PROVE  /\ k = Len(todo'[s])
                      /\ \/ stage'[s] = "devmod"
                         \/ /\ stage'[s] = "info"
                            /\ k = 1 => states'[s] # 0
                            /\ k > 1 => todo'[s][k - 1].name = "module"
    BY DEF NextGuarded
  <2>1. k + 1 \in 1 .. Len(todo[s]) /\ todo[s][k + 1].name = "next" /\ Len(todo[s]) # 1
    BY <1>1, <1>2
  <2>2. k + 1 = Len(todo[s]) /\ k = Len(todo'[s]) /\ stage'[s] = stage[s]
    BY <1>1, <1>2, <2>1 DEF Ordered, NextGuarded
  <2>3. \/ stage[s] = "devmod"
        \/ stage[s] = "info" /\ todo[s][k].name = "module"
    <3>1. k + 1 > 1 /\ (k + 1) - 1 = k
      OBVIOUS
    <3> QED
      BY <2>1, <3>1 DEF Ordered, NextGuarded
  <2>4. k > 1 => k - 1 \in 1 .. Len(todo[s]) - 1 /\ todo'[s][k - 1] = todo[s][k]
    BY <1>1, <1>2, <2>1
  <2> QED
    BY <1>2, <2>2, <2>3, <2>4
<1>4. NoneBefore(s)'
  BY <1>1 DEF Ordered, NoneBefore, After, TypeOK, Stage
<1>5. Behind(s)' /\ Increasing(s)'
  BY DEF Ordered, Behind, Increasing
<1> QED
  BY <1>3, <1>4, <1>5 DEF Ordered

\* Ordered holds at first,
LEMMA OrderInit == Init => \A s \in Session : Ordered(s)
<1> SUFFICES ASSUME Init, NEW s \in Session PROVE Ordered(s)
  OBVIOUS
<1>1. todo[s] = <<>> /\ ran[s] = <<>>
  BY DEF Init
<1>2. NextGuarded(s)
  BY <1>1 DEF NextGuarded
<1>3. NoneBefore(s) /\ Behind(s)
  BY <1>1 DEF NoneBefore, Behind
<1>4. Increasing(s)
  BY <1>1 DEF Increasing
<1> QED
  BY <1>2, <1>3, <1>4 DEF Ordered

\* A message that is sent: where its NextModule is.
LEMMA ScriptGuarded ==
    ASSUME NEW st \in Stage, NEW c \in Script(st), NEW k \in 1 .. Len(c), c[k].name = "next"
    PROVE  k = Len(c) /\ (st = "devmod" \/ (st = "info" /\ k > 1 /\ c[k - 1].name = "module"))
<1>1. CASE st = "hello" /\ c = <<Set("guid"), Set("prove_device"), Set("xsession")>>
  BY <1>1, CallFields, Columns
<1>2. CASE st = "prove" /\ c = <<Get("prove_device"), Get("xsession"), Get("guid"), Set("xsession"),
                Set("new_guid"), Set("setup_device"), Set("rv_info")>>
  BY <1>2, CallFields, Columns
<1>3. CASE st = "ready" /\ c = <<Get("xsession"), Set("hmac"), Set("mtu")>>
  BY <1>3, CallFields, Columns
<1>4. CASE st = "devmod" /\ c = <<Get("xsession"), Get("guid"), Set("devmod")>>
  BY <1>4, CallFields, Columns
<1>5. CASE st = "devmod" /\ c = <<Get("xsession"), Get("guid"), Set("devmod_complete"), NextModule>>
  BY <1>5, CallFields, Columns
<1>6. CASE st = "info" /\ c = <<Get("xsession"), Get("mtu"), Module>>
  BY <1>6, CallFields, Columns
<1>7. CASE st = "info" /\ c = <<Get("xsession"), Get("mtu"), Module, NextModule>>
  BY <1>7, CallFields, Columns
<1>8. CASE st = "done" /\ c = <<Get("xsession"), Get("prove_device"), Get("setup_device"),
                Get("new_guid"), Get("hmac"), ReplaceVoucher, CleanupModules, InvalidateToken>>
  BY <1>8, CallFields, Columns
<1> QED
  BY Scripts, <1>1, <1>2, <1>3, <1>4, <1>5, <1>6, <1>7, <1>8

\* a new message keeps it,
LEMMA OrderSent ==
    ASSUME TypeOK, NEW s \in Session, NEW st \in Stage, NEW c \in Script(st), Ordered(s),
           todo'[s] = c, stage'[s] = st, states'[s] = states[s], ran'[s] = ran[s],
           NoneBefore(s)'
    PROVE  Ordered(s)'
<1>1. NextGuarded(s)'
  BY ScriptGuarded DEF NextGuarded
<1> QED
  BY <1>1 DEF Ordered, Behind, Increasing

\* The iterator moves on from what the device was given.
LEMMA OrderMoves ==
    ASSUME TypeOK, NEW s \in Session, NEW end, NEW i \in Entry \cup {Exhausted}, Ordered(s),
           Calls(s, "next"), Moves(s, end, i)
    PROVE  Ordered(s)'
<1>1. /\ todo'[s] = Tail(todo[s]) /\ states'[s] = i
      /\ ran'[s] = IF Valid(i) THEN Append(ran[s], i) ELSE ran[s]
      /\ stage'[s] = IF Len(todo[s]) = 1 THEN MessageAfter(i) ELSE stage[s]
  BY DEF Moves, Return, TypeOK
<1>2. /\ Len(Tail(todo[s])) = Len(todo[s]) - 1
      /\ Len(todo[s]) \in Nat \ {0}
      /\ todo[s][1].name = "next"
  BY Rest DEF TypeOK, Calls
<1>3. Len(todo[s]) = 1 /\ (stage[s] = "devmod" \/ states[s] # 0)
  <2>1. 1 \in 1 .. Len(todo[s])
    BY <1>2
  <2> QED
    BY <1>2, <2>1 DEF Ordered, NextGuarded
<1>4. NextGuarded(s)'
  BY <1>1, <1>2, <1>3 DEF NextGuarded
<1>5. NoneBefore(s)'
  BY <1>1, <1>3 DEF NoneBefore, MessageAfter
<1>6. ran[s] \in Seq(Entry) /\ states[s] \in 0 .. Exhausted
  BY DEF TypeOK
<1>7. Behind(s)' /\ Increasing(s)'
  <2>1. CASE i = Exhausted
    <3>1. ran[s] # <<>> => ran[s][Len(ran[s])] \in Entry
      BY <1>6
    <3> QED
      BY <1>1, <2>1, <3>1 DEF Ordered, Behind, Increasing, Valid, Entry, Exhausted
  <2>2. CASE i # Exhausted
    <3>1. i \in Entry /\ i > states[s]
      BY <2>2, MovesOn DEF Moves
    <3>2. ran'[s] = Append(ran[s], i)
      BY <1>1, <2>2 DEF Valid
    <3>3. /\ Len(Append(ran[s], i)) = Len(ran[s]) + 1
          /\ Append(ran[s], i)[Len(ran[s]) + 1] = i
          /\ \A k \in 1 .. Len(ran[s]) : Append(ran[s], i)[k] = ran[s][k]
          /\ Len(ran[s]) \in Nat
      BY <1>6, <3>1
    <3>4. ran[s] # <<>> => ran[s][Len(ran[s])] < i
      <4>1. ran[s] # <<>> => stage[s] # "devmod" /\ states[s] # 0
        BY <1>3 DEF Ordered, NoneBefore
      <4>2. ran[s] # <<>> => ran[s][Len(ran[s])] <= states[s] /\ ran[s][Len(ran[s])] \in Entry
        BY <1>6, <4>1 DEF Ordered, Behind
      <4> QED
        BY <1>6, <3>1, <4>2 DEF Entry, Exhausted
    <3>5. Behind(s)'
      BY <1>1, <3>1, <3>2, <3>3 DEF Behind, Entry
    <3>6. Increasing(s)'
      <4> SUFFICES ASSUME NEW k \in 1 .. Len(ran'[s]) - 1
                   PROVE  ran'[s][k] < ran'[s][k + 1]
        BY DEF Increasing
      <4>1. CASE k = Len(ran[s])
        <5>1. ran[s] # <<>>
          BY <4>1, <1>6
        <5> QED
          BY <3>2, <3>3, <3>4, <4>1, <5>1
      <4>2. CASE k # Len(ran[s])
        BY <3>2, <3>3, <4>2 DEF Ordered, Increasing
      <4> QED
        BY <4>1, <4>2
    <3> QED
      BY <3>5, <3>6
  <2> QED
    BY <2>1, <2>2
<1> QED
  BY <1>4, <1>5, <1>7 DEF Ordered

\* and so does every step.
LEMMA OrderNext ==
    ASSUME TypeOK, [Next]_vars, \A s \in Session : Ordered(s)
    PROVE  \A t \in Session : Ordered(t)'
<1> TAKE t \in Session
<1>0. Ordered(t)
  OBVIOUS
<1>1. ASSUME NEW s \in Session, NEW supported \in SUBSET Fsim, HelloDevice(s, supported)
      PROVE  Ordered(t)'
  <2>1. PICK c \in Script("hello") : todo' = [todo EXCEPT ![s] = c]
    BY <1>1 DEF HelloDevice
  <2>2. CASE t = s
    <3>1. /\ todo'[s] = c /\ stage'[s] = "hello" /\ states'[s] = states[s]
          /\ ran'[s] = ran[s] /\ stage[s] = "new"
      BY <1>1, <2>1 DEF HelloDevice, TypeOK
    <3>2. NoneBefore(s)'
      BY <1>0, <2>2, <3>1 DEF Ordered, NoneBefore
    <3> QED
      BY <1>0, <2>2, <3>1, <3>2, OrderSent DEF Stage
  <2>3. CASE t # s
    BY <1>0, <1>1, <2>3, OrderFrame DEF HelloDevice, TypeOK
  <2> QED
    BY <2>2, <2>3
<1>2. ASSUME NEW s \in Session, Send(s) PROVE Ordered(t)'
  <2>1. PICK c \in Script(stage[s]) : todo' = [todo EXCEPT ![s] = c]
    BY <1>2 DEF Send
  <2>2. CASE t = s
    <3>1. /\ todo'[s] = c /\ stage'[s] = stage[s] /\ states'[s] = states[s]
          /\ ran'[s] = ran[s] /\ stage[s] \in Stage
      BY <1>2, <2>1 DEF Send, TypeOK
    <3>2. NoneBefore(s)'
      BY <1>0, <2>2, <3>1 DEF Ordered, NoneBefore
    <3> QED
      BY <1>0, <2>2, <3>1, <3>2, OrderSent
  <2>3. CASE t # s
    BY <1>0, <1>2, <2>3, OrderFrame DEF Send, TypeOK
  <2> QED
    BY <2>2, <2>3
<1>3. ASSUME NEW s \in Session, Fails(s) PROVE Ordered(t)'
  BY <1>0, <1>3, OrderFails
<1>4. ASSUME NEW s \in Session, Return(s, After[stage[s]]), todo[s] # <<>>,
             UNCHANGED <<states, ran>>, Head(todo[s]).name = "module" => states[s] # 0
      PROVE  Ordered(t)'
  <2>1. CASE t = s
    BY <1>0, <1>4, <2>1, OrderReturn
  <2>2. CASE t # s
    BY <1>0, <1>4, <2>2, OrderFrame DEF Return, TypeOK
  <2> QED
    BY <2>1, <2>2
<1>5. ASSUME NEW s \in Session, SetColumn(s) \/ GetColumn(s) \/ Replace(s) \/ Invalidate(s)
      PROVE  Ordered(t)'
  BY <1>3, <1>4, <1>5 DEF SetColumn, GetColumn, Replace, Invalidate, Calls
<1>6. ASSUME NEW s \in Session, CurrentModule(s) PROVE Ordered(t)'
  BY <1>3, <1>4, <1>6 DEF CurrentModule, Calls, ModuleFound
<1>7. ASSUME NEW s \in Session, MoveIterator(s) PROVE Ordered(t)'
  <2>1. CASE Fails(s)
    BY <1>3, <2>1
  <2>2. CASE ~Fails(s)
    <3>1. PICK end \in Ends(s, states[s]), i \in Entry \cup {Exhausted} : Moves(s, end, i)
      BY <1>7, <2>2 DEF MoveIterator
    <3>2. CASE t = s
      BY <1>0, <1>7, <3>1, <3>2, OrderMoves DEF MoveIterator
    <3>3. CASE t # s
      BY <1>0, <3>1, <3>3, OrderFrame DEF Moves, Return, TypeOK
    <3> QED
      BY <3>2, <3>3
  <2> QED
    BY <2>1, <2>2
<1>8. ASSUME NEW s \in Session, Cleanup(s) PROVE Ordered(t)'
  <2>1. CASE t = s
    <3>1. /\ Return(s, After[stage[s]]) /\ todo[s] # <<>> /\ Head(todo[s]).name = "cleanup"
          /\ ran'[s] = ran[s] /\ states'[s] = 0
      BY <1>8 DEF Cleanup, Calls, TypeOK
    <3> QED
      BY <1>0, <2>1, <3>1, OrderReturn
  <2>2. CASE t # s
    BY <1>0, <1>8, <2>2, OrderFrame DEF Cleanup, Return, TypeOK
  <2> QED
    BY <2>1, <2>2
<1>9. ASSUME NEW s \in Session, StatementFails(s) \/ GivesUp(s) PROVE Ordered(t)'
  BY <1>3, <1>9 DEF StatementFails, GivesUp
<1>10. ASSUME NEW p \in Path, DiskChanges(p) PROVE Ordered(t)'
  BY <1>0, <1>10, OrderFrame DEF DiskChanges
<1>11. CASE Restart
  <2>1. /\ todo'[t] = <<>> /\ states'[t] = 0 /\ ran'[t] = ran[t]
        /\ stage'[t] \in {"failed", stage[t]}
    BY <1>11 DEF Restart
  <2>2. NextGuarded(t)'
    BY <2>1 DEF NextGuarded
  <2>3. NoneBefore(t)' /\ Behind(t)'
    BY <1>0, <2>1 DEF Ordered, NoneBefore, Behind
  <2>4. Increasing(t)'
    BY <1>0, <2>1 DEF Ordered, Increasing
  <2> QED
    BY <2>2, <2>3, <2>4 DEF Ordered
<1>12. CASE UNCHANGED vars
  BY <1>0, <1>12, OrderFrame DEF vars
<1> QED
  BY <1>1, <1>2, <1>5, <1>6, <1>7, <1>8, <1>9, <1>10, <1>11, <1>12 DEF Next, CallStep

\* A device is given the entries in the order of the configuration and none of
\* them twice (moduleStateMachines, ownerModules), whatever fails or restarts:
\* NextModule is only called where an iterator is there, or was never needed.
THEOREM OrderKept == Spec => []InConfiguredOrder
<1> DEFINE Inv == TypeOK /\ \A s \in Session : Ordered(s)
<1>1. Init => Inv
  BY TypeInit, OrderInit
<1>2. Inv /\ [Next]_vars => Inv'
  BY TypeNext, OrderNext
<1>3. Inv => InConfiguredOrder
  BY DEF Ordered, Increasing, InConfiguredOrder
<1> QED
  BY <1>1, <1>2, <1>3, PTL DEF Spec

-----------------------------------------------------------------------------
(***************************************************************************)
(* What is reported as stored is stored.                                   *)
(***************************************************************************)

\* A set whose UPDATE needs a row finds it, or comes after one that creates it.
Creating(call, column) == call.name = "set" /\ call.column \in Creates /\ Table[call.column] = Table[column]

RowFirst(s) ==
    \A k \in 1 .. Len(todo[s]) :
        todo[s][k].name = "set" /\ todo[s][k].column \notin Creates =>
            \/ HasRow(s, todo[s][k].column)
            \/ \E j \in 1 .. k - 1 : Creating(todo[s][j], todo[s][k].column)

\* The messages of a session come in order, and those that create a row come
\* before those that need it.
Comes(s, column) == column \in stored[s] \/ \E k \in 1 .. Len(todo[s]) : todo[s][k] = Set(column)

Rows(s) ==
    /\ stage[s] \in {"prove", "ready", "devmod", "info", "done"} => "guid" \in stored[s]
    /\ stage[s] \in {"ready", "devmod", "info", "done"} => "new_guid" \in stored[s]
    /\ stage[s] = "hello" /\ todo[s] # <<>> => Comes(s, "guid")
    /\ stage[s] = "prove" /\ todo[s] # <<>> => Comes(s, "new_guid")

Storing(s) == RowFirst(s) /\ Rows(s) /\ acked[s] \subseteq stored[s]

\* Storing is a matter of a session's own rows and calls.
LEMMA StoringFrame ==
    ASSUME NEW t, Storing(t), todo'[t] = todo[t], stage'[t] = stage[t],
           stored'[t] = stored[t], acked'[t] = acked[t]
    PROVE  Storing(t)'
BY DEF Storing, RowFirst, Creating, HasRow, Rows, Comes

\* A message that fails keeps Storing.
LEMMA StoringFails ==
    ASSUME TypeOK, NEW s \in Session, NEW t \in Session, Storing(t), Fails(s)
    PROVE  Storing(t)'
<1>1. CASE t = s
  <2>1. todo'[s] = <<>> /\ stage'[s] = "failed" /\ stored'[s] = stored[s] /\ acked'[s] = acked[s]
    BY DEF Fails, TypeOK
  <2>2. RowFirst(s)'
    BY <2>1 DEF RowFirst
  <2> QED
    BY <1>1, <2>1, <2>2 DEF Storing, Rows
<1>2. CASE t # s
  BY <1>2, StoringFrame DEF Fails, TypeOK
<1> QED
  BY <1>1, <1>2

\* What a message needs of rows, and creates.
LEMMA ScriptRows ==
    ASSUME NEW st \in Stage, NEW c \in Script(st), NEW k \in 1 .. Len(c),
           c[k].name = "set", c[k].column \notin Creates
    PROVE  \/ \E j \in 1 .. k - 1 : Creating(c[j], c[k].column)
           \/ st \in {"prove", "ready", "devmod"} /\ Table[c[k].column] = "to2"
           \/ st = "ready" /\ Table[c[k].column] = "replacement"
<1>1. CASE st = "hello" /\ c = <<Set("guid"), Set("prove_device"), Set("xsession")>>
  <2>1. k = 2
    BY <1>1, CallFields, Columns DEF Creates
  <2>2. Creating(c[1], c[2].column)
    BY <1>1, CallFields, Columns DEF Creating, Creates
  <2> QED
    BY <2>1, <2>2
<1>2. CASE st = "prove" /\ c = <<Get("prove_device"), Get("xsession"), Get("guid"), Set("xsession"),
                                 Set("new_guid"), Set("setup_device"), Set("rv_info")>>
  BY <1>2, CallFields, Columns DEF Creates
<1>3. CASE st = "ready" /\ c = <<Get("xsession"), Set("hmac"), Set("mtu")>>
  BY <1>3, CallFields, Columns DEF Creates
<1>4. CASE st = "devmod" /\ c = <<Get("xsession"), Get("guid"), Set("devmod")>>
  BY <1>4, CallFields, Columns DEF Creates
<1>5. CASE st = "devmod" /\ c = <<Get("xsession"), Get("guid"), Set("devmod_complete"), NextModule>>
  BY <1>5, CallFields, Columns DEF Creates
<1>6. CASE st = "info" /\ c = <<Get("xsession"), Get("mtu"), Module>>
  BY <1>6, CallFields, Columns DEF Creates
<1>7. CASE st = "info" /\ c = <<Get("xsession"), Get("mtu"), Module, NextModule>>
  BY <1>7, CallFields, Columns DEF Creates
<1>8. CASE st = "done" /\ c = <<Get("xsession"), Get("prove_device"), Get("setup_device"), Get("new_guid"),
                                Get("hmac"), ReplaceVoucher, CleanupModules, InvalidateToken>>
  BY <1>8, CallFields, Columns DEF Creates
<1> QED
  BY Scripts, <1>1, <1>2, <1>3, <1>4, <1>5, <1>6, <1>7, <1>8

\* The messages that create the rows do.
LEMMA ScriptCreates ==
    ASSUME NEW st \in Stage, NEW c \in Script(st)
    PROVE  /\ st = "hello" => \E k \in 1 .. Len(c) : c[k] = Set("guid")
           /\ st = "prove" => \E k \in 1 .. Len(c) : c[k] = Set("new_guid")
<1>1. ASSUME st = "hello" PROVE \E k \in 1 .. Len(c) : c[k] = Set("guid")
  <2>1. c = <<Set("guid"), Set("prove_device"), Set("xsession")>>
    BY <1>1, Scripts
  <2>2. 1 \in 1 .. Len(c) /\ c[1] = Set("guid")
    BY <2>1
  <2> QED
    BY <2>2
<1>2. ASSUME st = "prove" PROVE \E k \in 1 .. Len(c) : c[k] = Set("new_guid")
  <2>1. c = <<Get("prove_device"), Get("xsession"), Get("guid"), Set("xsession"),
              Set("new_guid"), Set("setup_device"), Set("rv_info")>>
    BY <1>2, Scripts
  <2>2. 5 \in 1 .. Len(c) /\ c[5] = Set("new_guid")
    BY <2>1
  <2> QED
    BY <2>2
<1> QED
  BY <1>1, <1>2

\* A new message keeps Storing.
LEMMA StoringSent ==
    ASSUME TypeOK, NEW s \in Session, NEW st \in Stage, NEW c \in Script(st), Storing(s),
           todo'[s] = c, stage'[s] = st, stored'[s] = stored[s], acked'[s] = acked[s],
           st = stage[s] \/ st = "hello"
    PROVE  Storing(s)'
<1>1. /\ st \in {"prove", "ready", "devmod", "info", "done"} => "guid" \in stored[s]
      /\ st \in {"ready", "devmod", "info", "done"} => "new_guid" \in stored[s]
  BY DEF Storing, Rows
<1>2. RowFirst(s)'
  <2> SUFFICES ASSUME NEW k \in 1 .. Len(c), c[k].name = "set", c[k].column \notin Creates
               PROVE  HasRow(s, c[k].column)' \/ \E j \in 1 .. k - 1 : Creating(c[j], c[k].column)
    BY DEF RowFirst, Creating
  <2>1. CASE st \in {"prove", "ready", "devmod"} /\ Table[c[k].column] = "to2"
    BY <1>1, <2>1, Columns DEF HasRow, Creates
  <2>2. CASE st = "ready" /\ Table[c[k].column] = "replacement"
    BY <1>1, <2>2, Columns DEF HasRow, Creates
  <2> QED
    BY <2>1, <2>2, ScriptRows
<1>3. Rows(s)'
  BY <1>1, ScriptCreates DEF Rows, Comes
<1> QED
  BY <1>2, <1>3 DEF Storing

\* A call that returns: a set has stored what it reports.
LEMMA StoringReturn ==
    ASSUME TypeOK, NEW s \in Session, NEW next, Storing(s), todo[s] # <<>>, Return(s, next),
           \/ next = After[stage[s]]
           \/ stage[s] \in {"devmod", "info"} /\ next \in {"info", "done"},
           stored[s] \subseteq stored'[s], acked'[s] \subseteq stored'[s],
           Head(todo[s]).name = "set" /\ Head(todo[s]).column \in Creates =>
              Head(todo[s]).column \in stored'[s]
    PROVE  Storing(s)'
<1>1. /\ todo'[s] = Tail(todo[s])
      /\ stage'[s] = IF Len(todo[s]) = 1 THEN next ELSE stage[s]
  BY DEF Return, TypeOK
<1>2. /\ Len(Tail(todo[s])) = Len(todo[s]) - 1
      /\ Len(todo[s]) \in Nat \ {0}
      /\ \A k \in 1 .. Len(todo[s]) - 1 : Tail(todo[s])[k] = todo[s][k + 1]
      /\ Head(todo[s]) = todo[s][1]
  BY Rest DEF TypeOK
<1>3. RowFirst(s)'
  <2> SUFFICES ASSUME NEW k \in 1 .. Len(todo'[s]), todo'[s][k].name = "set",
                      todo'[s][k].column \notin Creates
               PROVE  \/ HasRow(s, todo[s][k].column)'
                      \/ \E j \in 1 .. k - 1 : Creating(todo'[s][j], todo'[s][k].column)
    BY DEF RowFirst, Creating
  <2>1. k + 1 \in 1 .. Len(todo[s]) /\ todo'[s][k] = todo[s][k + 1]
    BY <1>1, <1>2
  <2>2. CASE HasRow(s, todo[s][k + 1].column)
    BY <2>1, <2>2 DEF HasRow
  <2>3. CASE \E j \in 1 .. k : Creating(todo[s][j], todo[s][k + 1].column)
    <3>1. PICK j \in 1 .. k : Creating(todo[s][j], todo[s][k + 1].column)
      BY <2>3
    <3>2. CASE j = 1
      BY <1>2, <2>1, <3>1, <3>2 DEF Creating, HasRow
    <3>3. CASE j # 1
      <4>1. j - 1 \in 1 .. k - 1 /\ todo'[s][j - 1] = todo[s][j]
        BY <1>1, <1>2, <3>3
      <4> QED
        BY <2>1, <3>1, <4>1
    <3> QED
      BY <3>2, <3>3
  <2>4. (k + 1) - 1 = k
    OBVIOUS
  <2> QED
    BY <2>1, <2>2, <2>3, <2>4 DEF Storing, RowFirst
<1>4. ASSUME NEW column \in {"guid", "new_guid"}, Comes(s, column)
      PROVE  Comes(s, column)' /\ (Len(todo[s]) = 1 => column \in stored'[s])
  <2>1. CASE column \in stored[s]
    BY <2>1 DEF Comes
  <2>2. CASE column \notin stored[s]
    <3>1. PICK k \in 1 .. Len(todo[s]) : todo[s][k] = Set(column)
      BY <1>4, <2>2 DEF Comes
    <3>2. CASE k = 1
      <4>1. column \in stored'[s]
        BY <1>2, <3>1, <3>2, CallFields, Columns DEF Creates
      <4> QED
        BY <4>1 DEF Comes
    <3>3. CASE k # 1
      <4>1. k - 1 \in 1 .. Len(todo'[s]) /\ todo'[s][k - 1] = Set(column) /\ Len(todo[s]) # 1
        BY <1>1, <1>2, <3>1, <3>3
      <4> QED
        BY <4>1 DEF Comes
    <3> QED
      BY <3>2, <3>3
  <2> QED
    BY <2>1, <2>2
<1>5. Rows(s)'
  <2>1. CASE Len(todo[s]) # 1
    BY <1>1, <1>4, <2>1 DEF Storing, Rows
  <2>2. CASE Len(todo[s]) = 1
    <3>1. todo'[s] = <<>> /\ stage'[s] = next
      <4>1. Tail(todo[s]) \in Seq(Called) /\ Len(Tail(todo[s])) = 0
        BY <1>2, <2>2, Rest DEF TypeOK
      <4>2. Tail(todo[s]) = <<>>
        BY <4>1, LenZero
      <4> QED
        BY <1>1, <2>2, <4>2
    <3> QED
      BY <1>4, <2>2, <3>1 DEF Storing, Rows, After, TypeOK, Stage
  <2> QED
    BY <2>1, <2>2
<1> QED
  BY <1>3, <1>5 DEF Storing

\* Storing holds at first,
LEMMA StoringInit == Init => \A s \in Session : Storing(s)
<1> SUFFICES ASSUME Init, NEW s \in Session PROVE Storing(s)
  OBVIOUS
<1>1. todo[s] = <<>> /\ stage[s] = "new" /\ acked[s] = {}
  BY DEF Init
<1>2. RowFirst(s)
  BY <1>1 DEF RowFirst
<1> QED
  BY <1>1, <1>2 DEF Storing, Rows

\* and after every step.
LEMMA StoringNext ==
    ASSUME TypeOK, [Next]_vars, \A s \in Session : Ordered(s) /\ Storing(s)
    PROVE  \A t \in Session : Storing(t)'
<1> TAKE t \in Session
<1>0. Storing(t)
  OBVIOUS
<1>1. ASSUME NEW s \in Session, NEW supported \in SUBSET Fsim, HelloDevice(s, supported)
      PROVE  Storing(t)'
  <2>1. PICK c \in Script("hello") : todo' = [todo EXCEPT ![s] = c]
    BY <1>1 DEF HelloDevice
  <2>2. CASE t = s
    <3>1. todo'[s] = c /\ stage'[s] = "hello" /\ stored'[s] = stored[s] /\ acked'[s] = acked[s]
      BY <1>1, <2>1 DEF HelloDevice, TypeOK
    <3> QED
      BY <1>0, <2>2, <3>1, StoringSent DEF Stage
  <2>3. CASE t # s
    BY <1>0, <1>1, <2>3, StoringFrame DEF HelloDevice, TypeOK
  <2> QED
    BY <2>2, <2>3
<1>2. ASSUME NEW s \in Session, Send(s) PROVE Storing(t)'
  <2>1. PICK c \in Script(stage[s]) : todo' = [todo EXCEPT ![s] = c]
    BY <1>2 DEF Send
  <2>2. CASE t = s
    <3>1. /\ todo'[s] = c /\ stage'[s] = stage[s] /\ stored'[s] = stored[s]
          /\ acked'[s] = acked[s] /\ stage[s] \in Stage
      BY <1>2, <2>1 DEF Send, TypeOK
    <3> QED
      BY <1>0, <2>2, <3>1, StoringSent
  <2>3. CASE t # s
    BY <1>0, <1>2, <2>3, StoringFrame DEF Send, TypeOK
  <2> QED
    BY <2>2, <2>3
<1>3. ASSUME NEW s \in Session, Fails(s) PROVE Storing(t)'
  BY <1>0, <1>3, StoringFails
<1>4. ASSUME NEW s \in Session, Return(s, After[stage[s]]), todo[s] # <<>>,
             UNCHANGED <<stored, acked>>, Head(todo[s]).name # "set"
      PROVE  Storing(t)'
  <2>1. CASE t = s
    <3>1. acked'[s] \subseteq stored'[s]
      BY <1>0, <1>4, <2>1 DEF Storing
    <3> QED
      BY <1>0, <1>4, <2>1, <3>1, StoringReturn
  <2>2. CASE t # s
    BY <1>0, <1>4, <2>2, StoringFrame DEF Return, TypeOK
  <2> QED
    BY <2>1, <2>2
<1>5. ASSUME NEW s \in Session,
             GetColumn(s) \/ CurrentModule(s) \/ Replace(s) \/ Cleanup(s) \/ Invalidate(s)
      PROVE  Storing(t)'
  BY <1>3, <1>4, <1>5 DEF GetColumn, CurrentModule, Replace, Cleanup, Invalidate, Calls
<1>6. ASSUME NEW s \in Session, SetColumn(s) PROVE Storing(t)'
  <2> DEFINE column == Head(todo[s]).column
  <2>1. CASE s \notin sessions
    BY <1>3, <1>6, <2>1 DEF SetColumn
  <2>2. CASE s \in sessions
    <3>1. /\ acked' = [acked EXCEPT ![s] = @ \cup {column}]
          /\ stored' = [stored EXCEPT ![s] =
                          IF column \in Creates \/ HasRow(s, column) THEN @ \cup {column} ELSE @]
          /\ Return(s, After[stage[s]])
          /\ todo[s] # <<>> /\ Head(todo[s]).name = "set"
      BY <1>6, <2>2 DEF SetColumn, Calls
    <3>2. CASE t = s
      <4>1. column \in Creates \/ HasRow(s, column)
        <5>1. Head(todo[s]) = todo[s][1] /\ 1 \in 1 .. Len(todo[s]) /\ 1 .. 1 - 1 = {}
          BY <3>1, Rest DEF TypeOK
        <5> QED
          BY <3>1, <5>1, <1>0, <3>2 DEF Storing, RowFirst
      <4>2. acked'[s] = acked[s] \cup {column} /\ stored'[s] = stored[s] \cup {column}
        BY <3>1, <4>1 DEF TypeOK
      <4>3. acked'[s] \subseteq stored'[s] /\ stored[s] \subseteq stored'[s] /\ column \in stored'[s]
        BY <1>0, <3>2, <4>2 DEF Storing
      <4> QED
        BY <1>0, <3>1, <3>2, <4>3, StoringReturn
    <3>3. CASE t # s
      BY <1>0, <3>1, <3>3, StoringFrame DEF Return, TypeOK
    <3> QED
      BY <3>2, <3>3
  <2> QED
    BY <2>1, <2>2
<1>7. ASSUME NEW s \in Session, MoveIterator(s) PROVE Storing(t)'
  <2>1. CASE Fails(s)
    BY <1>3, <2>1
  <2>2. CASE ~Fails(s)
    <3>1. PICK end \in Ends(s, states[s]), i \in Entry \cup {Exhausted} : Moves(s, end, i)
      BY <1>7, <2>2 DEF MoveIterator
    <3>2. todo[s] # <<>> /\ Head(todo[s]).name = "next"
      BY <1>7 DEF MoveIterator, Calls
    <3>3. CASE t = s
      <4>1. stage[s] \in {"devmod", "info"}
        <5>1. Head(todo[s]) = todo[s][1] /\ 1 \in 1 .. Len(todo[s])
          BY <3>2, Rest DEF TypeOK
        <5> QED
          BY <3>2, <5>1 DEF Ordered, NextGuarded
      <4>2. acked'[s] \subseteq stored'[s] /\ stored[s] \subseteq stored'[s]
        BY <1>0, <3>1, <3>3 DEF Storing, Moves
      <4>3. Return(s, MessageAfter(i)) /\ MessageAfter(i) \in {"info", "done"}
        BY <3>1 DEF Moves, MessageAfter
      <4> QED
        BY <1>0, <3>2, <3>3, <4>1, <4>2, <4>3, StoringReturn
    <3>4. CASE t # s
      BY <1>0, <3>1, <3>4, StoringFrame DEF Moves, Return, TypeOK
    <3> QED
      BY <3>3, <3>4
  <2> QED
    BY <2>1, <2>2
<1>8. ASSUME NEW s \in Session, StatementFails(s) \/ GivesUp(s) PROVE Storing(t)'
  BY <1>3, <1>8 DEF StatementFails, GivesUp
<1>9. ASSUME NEW p \in Path, DiskChanges(p) PROVE Storing(t)'
  BY <1>0, <1>9, StoringFrame DEF DiskChanges
<1>10. CASE Restart
  <2>1. /\ todo'[t] = <<>> /\ stored'[t] = stored[t] /\ acked'[t] = acked[t]
        /\ stage'[t] \in {"failed", stage[t]}
    BY <1>10 DEF Restart
  <2>2. RowFirst(t)'
    BY <2>1 DEF RowFirst
  <2>3. Rows(t)'
    BY <1>0, <2>1 DEF Storing, Rows
  <2> QED
    BY <1>0, <2>1, <2>2, <2>3 DEF Storing
<1>11. CASE UNCHANGED vars
  BY <1>0, <1>11, StoringFrame DEF vars
<1> QED
  BY <1>1, <1>2, <1>5, <1>6, <1>7, <1>8, <1>9, <1>10, <1>11 DEF Next, CallStep

\* What a Set function of state_to2.go reported as stored is stored, although
\* most of them are UPDATEs that do not notice a missing row: the messages that
\* reach them come after the one that created it.
THEOREM ReportsAreTrue == Spec => []ReportedIsStored
<1> DEFINE Inv == TypeOK /\ \A s \in Session : Ordered(s) /\ Storing(s)
<1>1. Init => Inv
  BY TypeInit, OrderInit, StoringInit
<1>2. Inv /\ [Next]_vars => Inv'
  BY TypeNext, OrderNext, StoringNext
<1>3. Inv => ReportedIsStored
  BY DEF Storing, ReportedIsStored
<1> QED
  BY <1>1, <1>2, <1>3, PTL DEF Spec

-----------------------------------------------------------------------------
(***************************************************************************)
(* Skipped entries are explained.                                          *)
(***************************************************************************)

\* An entry was given to the device, or the log explains why not.
Explained(s, i) ==
    \/ \E k \in 1 .. Len(ran[s]) : ran[s][k] = i
    \/ i \in logged[s]
    \/ \E j \in cut[s] : j < i

\* The entries up to one that the device supports are explained.
Accounted(s, upto) ==
    \A i \in Entry : i <= upto /\ Fsims[i].fsim \in modules[s] => Explained(s, i)

\* The iterator of a device that is past its devmod accounts for the entries up
\* to where it is, and a device that is past the modules for all of them.
Passed(s) ==
    /\ stage[s] \in {"done", "over"} => Accounted(s, Exhausted)
    /\ stage[s] = "info" /\ states[s] # 0 => Accounted(s, states[s])

\* An iterator is only made once the devmod is complete: one made earlier would
\* pass over everything, as if the device supported nothing.
NoneMade(s) == stage[s] \in {"new", "hello", "prove", "ready", "devmod"} => states[s] = 0

DevmodFirst(s) ==
    /\ stage[s] = "info" => "devmod_complete" \in stored[s]
    /\ stage[s] = "devmod" =>
          \A k \in 1 .. Len(todo[s]) :
              todo[s][k].name = "next" =>
                  \/ "devmod_complete" \in stored[s]
                  \/ \E j \in 1 .. k - 1 : todo[s][j] = Set("devmod_complete")

Complete(s) == Passed(s) /\ NoneMade(s) /\ DevmodFirst(s) /\ cut[s] \subseteq logged[s]

\* Complete is a matter of a session's own state.
LEMMA CompleteFrame ==
    ASSUME NEW t, Complete(t), todo'[t] = todo[t], stage'[t] = stage[t], states'[t] = states[t],
           ran'[t] = ran[t], logged'[t] = logged[t], cut'[t] = cut[t], modules'[t] = modules[t],
           stored'[t] = stored[t]
    PROVE  Complete(t)'
BY DEF Complete, Passed, Accounted, Explained, NoneMade, DevmodFirst

\* A message that fails keeps Complete.
LEMMA CompleteFails ==
    ASSUME TypeOK, NEW s \in Session, NEW t \in Session, Complete(t), Fails(s),
           UNCHANGED modules
    PROVE  Complete(t)'
<1>1. CASE t = s
  <2>1. stage'[s] = "failed" /\ UNCHANGED <<logged, cut>>
    BY DEF Fails, TypeOK
  <2> QED
    BY <1>1, <2>1 DEF Complete, Passed, NoneMade, DevmodFirst
<1>2. CASE t # s
  BY <1>2, CompleteFrame DEF Fails, TypeOK
<1> QED
  BY <1>1, <1>2

\* The message that has the library make an iterator completes the devmod first.
LEMMA ScriptDevmod ==
    ASSUME NEW c \in Script("devmod"), NEW k \in 1 .. Len(c), c[k].name = "next"
    PROVE  \E j \in 1 .. k - 1 : c[j] = Set("devmod_complete")
<1>1. CASE c = <<Get("xsession"), Get("guid"), Set("devmod")>>
  BY <1>1, CallFields, Columns
<1>2. CASE c = <<Get("xsession"), Get("guid"), Set("devmod_complete"), NextModule>>
  <2>1. k = 4 /\ c[3] = Set("devmod_complete") /\ 3 \in 1 .. k - 1
    BY <1>2, CallFields, Columns
  <2> QED
    BY <2>1
<1> QED
  BY <1>1, <1>2, Scripts DEF Stage

\* A call that returns, other than NextModule.
LEMMA CompleteReturn ==
    ASSUME TypeOK, NEW s \in Session, Complete(s), todo[s] # <<>>, Return(s, After[stage[s]]),
           ran'[s] = ran[s], logged'[s] = logged[s], cut'[s] = cut[s], modules'[s] = modules[s],
           states'[s] \in {states[s], 0}, stored[s] \subseteq stored'[s],
           Head(todo[s]).name = "set" => Head(todo[s]).column \in stored'[s]
    PROVE  Complete(s)'
<1>1. /\ todo'[s] = Tail(todo[s])
      /\ stage'[s] = IF Len(todo[s]) = 1 THEN After[stage[s]] ELSE stage[s]
  BY DEF Return, TypeOK
<1>2. /\ Len(Tail(todo[s])) = Len(todo[s]) - 1
      /\ Len(todo[s]) \in Nat \ {0}
      /\ \A k \in 1 .. Len(todo[s]) - 1 : Tail(todo[s])[k] = todo[s][k + 1]
      /\ Head(todo[s]) = todo[s][1]
  BY Rest DEF TypeOK
<1>3. /\ stage'[s] \in {"done", "over"} => stage[s] \in {"done", "over"}
      /\ stage'[s] = "info" => stage[s] = "info"
      /\ stage'[s] = "devmod" => stage[s] = "devmod" \/ Len(todo[s]) = 1
      /\ stage'[s] \in {"new", "hello", "prove", "ready", "devmod"} =>
            stage[s] \in {"new", "hello", "prove", "ready", "devmod"}
  BY <1>1 DEF After, TypeOK, Stage
<1>4. \A n : Accounted(s, n) => Accounted(s, n)'
  BY DEF Accounted, Explained
<1>5. Passed(s)' /\ NoneMade(s)'
  BY <1>3, <1>4 DEF Complete, Passed, NoneMade
<1>6. DevmodFirst(s)'
  <2> SUFFICES ASSUME stage'[s] = "devmod",
                      NEW k \in 1 .. Len(todo'[s]), todo'[s][k].name = "next"
               PROVE  \/ "devmod_complete" \in stored'[s]
                      \/ \E j \in 1 .. k - 1 : todo'[s][j] = Set("devmod_complete")
    BY <1>3 DEF Complete, DevmodFirst
  <2>1. k + 1 \in 1 .. Len(todo[s]) /\ todo[s][k + 1].name = "next" /\ stage[s] = "devmod"
    BY <1>1, <1>2, <1>3
  <2>2. CASE "devmod_complete" \in stored[s]
    BY <2>2
  <2>3. CASE "devmod_complete" \notin stored[s]
    <3>1. (k + 1) - 1 = k
      OBVIOUS
    <3>2. PICK j \in 1 .. k : todo[s][j] = Set("devmod_complete")
      BY <2>1, <2>3, <3>1 DEF Complete, DevmodFirst
    <3>3. CASE j = 1
      BY <1>2, <3>2, <3>3, CallFields, Columns
    <3>4. CASE j # 1
      <4>1. j - 1 \in 1 .. k - 1 /\ todo'[s][j - 1] = Set("devmod_complete")
        BY <1>1, <1>2, <2>1, <3>2, <3>4
      <4> QED
        BY <4>1
    <3> QED
      BY <3>3, <3>4
  <2> QED
    BY <2>2, <2>3
<1> QED
  BY <1>5, <1>6 DEF Complete

\* What the iterator passes over without giving it to the device did not open,
\* or the iteration ended there or before.
LEMMA PassedOver ==
    ASSUME NEW s, NEW after, NEW end \in Entry \cup {Exhausted}, NEW i \in Entry \cup {Exhausted},
           YieldsNext(s, after, end, i), NEW j \in Supported(s, after), j < i
    PROVE  \/ j <= end /\ (Opens(j) => j = end)
           \/ i = Exhausted /\ end \in Entry /\ end < j
<1> DEFINE yields == {k \in Supported(s, after) : Opens(k) /\ k < end}
<1>1. \/ \A k \in yields : i <= k
      \/ i = Exhausted /\ yields = {}
  BY DEF YieldsNext
<1>2. j \notin yields
  BY <1>1 DEF Supported, Entry, Exhausted
<1>3. ~Opens(j) \/ j >= end
  BY <1>2 DEF Supported, Entry, Exhausted
<1>4. CASE i = Exhausted
  BY <1>3, <1>4 DEF Supported, Entry, Exhausted
<1>5. CASE i # Exhausted
  <2>1. i < end
    BY <1>5 DEF YieldsNext
  <2> QED
    BY <1>3, <2>1 DEF Supported, Entry, Exhausted
<1> QED
  BY <1>4, <1>5

\* Where an iteration ends is an entry, or the end of them.
LEMMA EndIsPosition ==
    ASSUME NEW s, NEW after, NEW end \in Ends(s, after)
    PROVE  end \in Entry \cup {Exhausted}
BY DEF Ends, Supported

\* The iterator moves on, and accounts for what it passes over.
LEMMA CompleteMoves ==
    ASSUME TypeOK, NEW s \in Session, NEW end \in Ends(s, states[s]), NEW i \in Entry \cup {Exhausted},
           Ordered(s), Complete(s), Calls(s, "next"), Moves(s, end, i), UNCHANGED modules
    PROVE  Complete(s)'
<1>1. /\ states'[s] = i /\ stored'[s] = stored[s] /\ modules'[s] = modules[s]
      /\ ran'[s] = IF Valid(i) THEN Append(ran[s], i) ELSE ran[s]
      /\ logged'[s] = logged[s] \cup
            {j \in Supported(s, states[s]) : j < i /\ j <= end /\ (Opens(j) => j = end)}
      /\ cut'[s] = IF Valid(i) THEN cut[s] ELSE cut[s] \cup ({end} \cap Entry)
      /\ stage'[s] = IF Len(todo[s]) = 1 THEN MessageAfter(i) ELSE stage[s]
  BY DEF Moves, Return, TypeOK
<1>2. todo[s][1].name = "next" /\ 1 \in 1 .. Len(todo[s]) /\ 1 .. 1 - 1 = {}
  BY Rest DEF TypeOK, Calls
<1>3. Len(todo[s]) = 1 /\ (stage[s] = "devmod" \/ (stage[s] = "info" /\ states[s] # 0))
  BY <1>2 DEF Ordered, NextGuarded
<1>4. stage'[s] = (IF i = Exhausted THEN "done" ELSE "info")
  BY <1>1, <1>3 DEF MessageAfter, Valid
<1>5. "devmod_complete" \in stored[s]
  BY <1>2, <1>3 DEF Complete, DevmodFirst
<1>6. /\ ran[s] \in Seq(Entry) /\ states[s] \in 0 .. Exhausted /\ i \in 1 .. Exhausted
      /\ \A j \in Entry : j \in 1 .. Exhausted /\ j < Exhausted
  BY DEF TypeOK, Entry, Exhausted
<1>7. Accounted(s, i)'
  <2> SUFFICES ASSUME NEW j \in Entry, j <= i, Fsims[j].fsim \in modules[s]
               PROVE  Explained(s, j)'
    BY <1>1 DEF Accounted
  <2>1. ASSUME NEW k \in 1 .. Len(ran[s]), ran[s][k] = j
        PROVE  \E l \in 1 .. Len(ran'[s]) : ran'[s][l] = j
    <3>1. k \in 1 .. Len(ran'[s]) /\ ran'[s][k] = j
      BY <1>1, <1>6, <2>1 DEF Valid
    <3> QED
      BY <3>1
  <2>2. CASE j <= states[s]
    <3>1. Accounted(s, states[s])
      BY <1>3, <1>6, <2>2 DEF Complete, Passed, NoneMade
    <3> QED
      BY <1>1, <2>1, <2>2, <3>1 DEF Accounted, Explained
  <2>3. CASE j > states[s] /\ j < i
    <3>1. j \in Supported(s, states[s])
      BY <1>5, <2>3 DEF Supported, Devmod
    <3>2. \/ j <= end /\ (Opens(j) => j = end)
          \/ i = Exhausted /\ end \in Entry /\ end < j
      BY <2>3, <3>1, EndIsPosition, PassedOver DEF Moves
    <3> QED
      BY <1>1, <2>3, <3>1, <3>2 DEF Valid, Explained
  <2>4. CASE j = i
    <3>1. /\ ran'[s] = Append(ran[s], i)
          /\ Len(Append(ran[s], i)) = Len(ran[s]) + 1
          /\ Append(ran[s], i)[Len(ran[s]) + 1] = i
          /\ Len(ran[s]) \in Nat
      BY <1>1, <1>6, <2>4 DEF Valid
    <3> QED
      BY <2>4, <3>1 DEF Explained
  <2> QED
    BY <1>6, <2>2, <2>3, <2>4
<1>8. Passed(s)'
  BY <1>1, <1>4, <1>7 DEF Passed
<1>9. cut'[s] \subseteq logged'[s]
  <2>1. ASSUME i = Exhausted, end \in Entry PROVE end \in logged'[s]
    <3>1. end \in Supported(s, states[s])
      BY <1>6, <2>1 DEF Ends
    <3>2. end < i /\ end <= end
      BY <1>6, <2>1 DEF Entry
    <3> QED
      BY <1>1, <3>1, <3>2
  <2> QED
    BY <1>1, <2>1 DEF Complete, Valid
<1> QED
  BY <1>1, <1>4, <1>5, <1>8, <1>9 DEF Complete, NoneMade, DevmodFirst

\* Complete holds at first,
LEMMA CompleteInit == Init => \A s \in Session : Complete(s)
<1> SUFFICES ASSUME Init, NEW s \in Session PROVE Complete(s)
  OBVIOUS
<1>1. stage[s] = "new" /\ states[s] = 0 /\ cut[s] = {}
  BY DEF Init
<1> QED
  BY <1>1 DEF Complete, Passed, NoneMade, DevmodFirst

\* and after every step.
LEMMA CompleteNext ==
    ASSUME TypeOK, [Next]_vars, \A s \in Session : Ordered(s) /\ Storing(s) /\ Complete(s)
    PROVE  \A t \in Session : Complete(t)'
<1> TAKE t \in Session
<1>0. Complete(t) /\ Storing(t)'
  BY StoringNext
<1>1. ASSUME NEW s \in Session, NEW supported \in SUBSET Fsim, HelloDevice(s, supported)
      PROVE  Complete(t)'
  <2>1. CASE t = s
    <3>1. /\ stage[s] = "new" /\ stage'[s] = "hello" /\ states'[s] = states[s]
          /\ UNCHANGED <<logged, cut>>
      BY <1>1 DEF HelloDevice, TypeOK
    <3> QED
      BY <1>0, <2>1, <3>1 DEF Complete, Passed, NoneMade, DevmodFirst
  <2>2. CASE t # s
    BY <1>0, <1>1, <2>2, CompleteFrame DEF HelloDevice, TypeOK
  <2> QED
    BY <2>1, <2>2
<1>2. ASSUME NEW s \in Session, Send(s) PROVE Complete(t)'
  <2>1. PICK c \in Script(stage[s]) : todo' = [todo EXCEPT ![s] = c]
    BY <1>2 DEF Send
  <2>2. CASE t = s
    <3>1. todo'[s] = c /\ UNCHANGED <<stage, states, stored, ran, logged, cut, modules>>
      BY <1>2, <2>1 DEF Send, TypeOK
    <3>2. Passed(s)' /\ NoneMade(s)'
      BY <1>0, <2>2, <3>1 DEF Complete, Passed, Accounted, Explained, NoneMade
    <3>3. DevmodFirst(s)'
      BY <1>0, <2>2, <3>1, ScriptDevmod DEF Complete, DevmodFirst
    <3> QED
      BY <1>0, <2>2, <3>1, <3>2, <3>3 DEF Complete
  <2>3. CASE t # s
    BY <1>0, <1>2, <2>3, CompleteFrame DEF Send, TypeOK
  <2> QED
    BY <2>2, <2>3
<1>3. ASSUME NEW s \in Session, Fails(s), UNCHANGED modules PROVE Complete(t)'
  BY <1>0, <1>3, CompleteFails
<1>4. ASSUME NEW s \in Session, Return(s, After[stage[s]]), todo[s] # <<>>,
             UNCHANGED <<stored, ran, logged, cut, modules>>, Head(todo[s]).name # "set",
             states' \in {states, [states EXCEPT ![s] = 0]}
      PROVE  Complete(t)'
  <2>1. CASE t = s
    <3>1. states'[s] \in {states[s], 0}
      BY <1>4 DEF TypeOK
    <3> QED
      BY <1>0, <1>4, <2>1, <3>1, CompleteReturn
  <2>2. CASE t # s
    BY <1>0, <1>4, <2>2, CompleteFrame DEF Return, TypeOK
  <2> QED
    BY <2>1, <2>2
<1>5. ASSUME NEW s \in Session,
             GetColumn(s) \/ CurrentModule(s) \/ Replace(s) \/ Cleanup(s) \/ Invalidate(s)
      PROVE  Complete(t)'
  BY <1>3, <1>4, <1>5 DEF GetColumn, CurrentModule, Replace, Cleanup, Invalidate, Calls
<1>6. ASSUME NEW s \in Session, SetColumn(s) PROVE Complete(t)'
  <2> DEFINE column == Head(todo[s]).column
  <2>1. CASE s \notin sessions
    BY <1>3, <1>6, <2>1 DEF SetColumn
  <2>2. CASE s \in sessions
    <3>1. /\ acked' = [acked EXCEPT ![s] = @ \cup {column}]
          /\ stored' = [stored EXCEPT ![s] =
                          IF column \in Creates \/ HasRow(s, column) THEN @ \cup {column} ELSE @]
          /\ Return(s, After[stage[s]])
          /\ todo[s] # <<>>
          /\ UNCHANGED <<states, ran, logged, cut, modules>>
      BY <1>6, <2>2 DEF SetColumn, Calls
    <3>2. CASE t = s
      <4>1. acked'[s] = acked[s] \cup {column} /\ stored[s] \subseteq stored'[s]
        BY <3>1 DEF TypeOK
      <4>2. column \in stored'[s]
        BY <1>0, <3>2, <4>1 DEF Storing
      <4> QED
        BY <1>0, <3>1, <3>2, <4>1, <4>2, CompleteReturn
    <3>3. CASE t # s
      BY <1>0, <3>1, <3>3, CompleteFrame DEF Return, TypeOK
    <3> QED
      BY <3>2, <3>3
  <2> QED
    BY <2>1, <2>2
<1>7. ASSUME NEW s \in Session, MoveIterator(s) PROVE Complete(t)'
  <2>1. CASE Fails(s)
    BY <1>3, <1>7, <2>1 DEF MoveIterator
  <2>2. CASE ~Fails(s)
    <3>1. PICK end \in Ends(s, states[s]), i \in Entry \cup {Exhausted} : Moves(s, end, i)
      BY <1>7, <2>2 DEF MoveIterator
    <3>2. CASE t = s
      BY <1>0, <1>7, <3>1, <3>2, CompleteMoves DEF MoveIterator
    <3>3. CASE t # s
      BY <1>0, <1>7, <3>1, <3>3, CompleteFrame DEF MoveIterator, Moves, Return, TypeOK
    <3> QED
      BY <3>2, <3>3
  <2> QED
    BY <2>1, <2>2
<1>8. ASSUME NEW s \in Session, StatementFails(s) \/ GivesUp(s) PROVE Complete(t)'
  BY <1>3, <1>8 DEF StatementFails, GivesUp
<1>9. ASSUME NEW p \in Path, DiskChanges(p) PROVE Complete(t)'
  BY <1>0, <1>9, CompleteFrame DEF DiskChanges
<1>10. CASE Restart
  <2>1. /\ todo'[t] = <<>> /\ states'[t] = 0 /\ stage'[t] \in {"failed", stage[t]}
        /\ UNCHANGED <<stored, ran, logged, cut, modules>>
    BY <1>10 DEF Restart
  <2>2. Passed(t)' /\ NoneMade(t)'
    BY <1>0, <2>1 DEF Complete, Passed, Accounted, Explained, NoneMade
  <2>3. DevmodFirst(t)'
    BY <1>0, <2>1 DEF Complete, DevmodFirst
  <2> QED
    BY <1>0, <2>1, <2>2, <2>3 DEF Complete
<1>11. CASE UNCHANGED vars
  BY <1>0, <1>11, CompleteFrame DEF vars
<1> QED
  BY <1>1, <1>2, <1>5, <1>6, <1>7, <1>8, <1>9, <1>10, <1>11 DEF Next, CallStep

\* For any configuration, an onboarded device was given every entry that it
\* supports, or the log has the failure of that entry, or of an upload before it
\* whose replacement GUID could not be read (ownerModules): wherever the iterator
\* is, it accounts for what is behind it, and no iterator is made before the list
\* of the device's modules is stored.
THEOREM SkipsExplained == Spec => []SkipsAreExplained
<1> DEFINE Inv == TypeOK /\ \A s \in Session : Ordered(s) /\ Storing(s) /\ Complete(s)
<1>1. Init => Inv
  BY TypeInit, OrderInit, StoringInit, CompleteInit
<1>2. Inv /\ [Next]_vars => Inv'
  BY TypeNext, OrderNext, StoringNext, CompleteNext
<1>3. Inv => SkipsAreExplained
  <2>1. \A i \in Entry : i <= Exhausted
    BY DEF Entry, Exhausted
  <2> QED
    BY <2>1 DEF Complete, Passed, Accounted, Explained, SkipsAreExplained
<1> QED
  BY <1>1, <1>2, <1>3, PTL DEF Spec
=============================================================================

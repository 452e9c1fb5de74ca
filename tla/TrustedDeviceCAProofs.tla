----------------------- MODULE TrustedDeviceCAProofs -----------------------
(***************************************************************************)
(* Proofs about TrustedDeviceCA, for every set of certificates and         *)
(* handlers and every length of the request bodies.                        *)
(***************************************************************************)
EXTENDS TrustedDeviceCA, FiniteSetTheorems, TLAPS

\* What TypeOK needs to be inductive: a handler about to run a statement for
\* a certificate has one in hand.
CertInHand ==
    \A h \in Handler :
        /\ pc[h] \in {"count", "create"} => body[h][pos[h]] \in Cert
        /\ pc[h] = "delete" => body[h][1] \in Cert

TypeInv == TypeOK /\ CertInHand

\* A request body is a sequence of blocks.
LEMMA PayloadIsSeq == Payload \subseteq Seq(Block)
BY BoundAssumption DEF Payload

\* So is what a limited reader leaves of it.
LEMMA LimitReaderSeq ==
    ASSUME NEW blocks \in Seq(Block), NEW limit \in Nat
    PROVE  LimitReader(blocks, limit) \in Seq(Block)
BY DEF LimitReader

\* Counting keeps the statistics well typed.
LEMMA CountType ==
    ASSUME TypeOK, NEW h \in Handler, NEW fields, Count(h, fields)
    PROVE  stats' \in [Handler -> Stats]
<1> DEFINE bump(f) == IF f \in fields THEN 1 ELSE 0
<1>1. stats[h] \in Stats
  BY DEF TypeOK
<1>2. DOMAIN NoStats = {"detected", "imported", "skipped", "malformed"}
  BY DEF NoStats
<1>3. [f \in DOMAIN NoStats |-> stats[h][f] + bump(f)] \in Stats
  BY <1>1, <1>2 DEF Stats
<1> QED
  BY <1>3 DEF Count, TypeOK

\* The statistics of a new import are well typed.
LEMMA NoStatsType == NoStats \in Stats
BY DEF NoStats, Stats

\* Moving to a label, moving to the next block and answering keep the locals
\* of the handlers well typed.
LEMMA GotoType ==
    ASSUME TypeOK, NEW h \in Handler, NEW label \in Control, Goto(h, label)
    PROVE  /\ pc' \in [Handler -> Control]
           /\ pc'[h] = label
           /\ \A k \in Handler \ {h} : pc'[k] = pc[k]
BY DEF TypeOK, Goto

\* The next block keeps the positions well-typed.
LEMMA AdvanceType ==
    ASSUME TypeOK, NEW h \in Handler, Advance(h)
    PROVE  /\ pos' \in [Handler -> Nat]
           /\ \A k \in Handler \ {h} : pos'[k] = pos[k]
BY DEF TypeOK, Advance

\* An answer keeps the handler's locals well-typed.
LEMMA AnswerType ==
    ASSUME TypeInv, NEW h \in Handler, NEW status \in Reply, Answer(h, status)
    PROVE  /\ pc' \in [Handler -> Control]
           /\ op' \in [Handler -> {"import", "delete"}]
           /\ body' \in [Handler -> Seq(Block)]
           /\ pos' \in [Handler -> Nat]
           /\ stats' \in [Handler -> Stats]
           /\ certs' \in [Handler -> SUBSET Cert]
           /\ reply' \in [Handler -> Reply]
           /\ CertInHand'
<1>1. <<>> \in Seq(Block)
  OBVIOUS
<1> QED
  BY <1>1, NoStatsType DEF Answer, Goto, TypeInv, TypeOK, CertInHand, Control

\* So does beginning to serve a request.
LEMMA BeginType ==
    ASSUME TypeInv, NEW h \in Handler, NEW label \in {"parse", "delete"},
           NEW operation \in {"import", "delete"}, NEW content \in Seq(Block),
           Begin(h, label, operation, content), label = "delete" => content[1] \in Cert
    PROVE  /\ pc' \in [Handler -> Control]
           /\ op' \in [Handler -> {"import", "delete"}]
           /\ body' \in [Handler -> Seq(Block)]
           /\ reply' \in [Handler -> Reply]
           /\ UNCHANGED <<pos, stats, certs>>
           /\ CertInHand'
BY DEF Begin, Goto, TypeInv, TypeOK, CertInHand, Control, Reply

\* The initial state is well typed.
LEMMA TypeInit == Init => TypeInv
<1> SUFFICES ASSUME Init PROVE TypeInv
  OBVIOUS
<1>1. body \in [Handler -> Seq(Block)]
  BY DEF Init
<1> QED
  BY <1>1, NoStatsType DEF Init, TypeInv, TypeOK, CertInHand, Control, Reply

\* Every step keeps the state well typed.
LEMMA TypeStep == TypeInv /\ [Next]_vars => TypeInv'
<1> SUFFICES ASSUME TypeInv, [Next]_vars PROVE TypeInv'
  OBVIOUS
<1> USE DEF TypeInv, ghostVars, Installing
<1>1. ASSUME NEW h \in Handler, RejectBody(h) PROVE TypeInv'
  BY <1>1, NoStatsType DEF RejectBody, Answer, Goto, TypeOK, CertInHand, Control, Reply
<1>2. ASSUME NEW h \in Handler, NEW payload \in Payload,
             ImportTrustedDeviceCACerts(h, payload)
      PROVE TypeInv'
  <2> DEFINE pemData == LimitReader(LimitReader(payload, BodyLimit), BodyLimit + 1)
  <2>1. pemData \in Seq(Block)
    BY PayloadIsSeq, LimitReaderSeq, BoundAssumption
  <2>2. \/ Answer(h, "413")
        \/ Begin(h, "parse", "import", pemData)
    BY <1>2 DEF ImportTrustedDeviceCACerts
  <2>3. UNCHANGED <<table, pool, expired, ghostVars, claims>>
    BY <1>2 DEF ImportTrustedDeviceCACerts
  <2> HIDE DEF pemData
  <2>4. CASE Answer(h, "413")
    BY <2>3, <2>4, AnswerType DEF TypeOK, Reply
  <2>5. CASE Begin(h, "parse", "import", pemData)
    BY <2>1, <2>3, <2>5, BeginType DEF TypeOK
  <2> QED
    BY <2>2, <2>4, <2>5
<1>3. ASSUME NEW h \in Handler, NEW c \in Cert, DeleteTrustedDeviceCACert(h, c)
      PROVE TypeInv'
  <2>1. <<c>> \in Seq(Block) /\ <<c>>[1] = c
    BY DEF Block
  <2> QED
    BY <1>3, <2>1, BeginType DEF DeleteTrustedDeviceCACert, TypeOK
<1>4. ASSUME NEW h \in Handler, ParseBlock(h) PROVE TypeInv'
  <2>1. stats' \in [Handler -> Stats]
    BY <1>4, CountType DEF ParseBlock, SkipOther, SkipBlock, TypeOK
  <2>2. pos' \in [Handler -> Nat]
    BY <1>4, AdvanceType DEF ParseBlock, SkipOther, SkipBlock, TypeOK
  <2>3. pc' \in [Handler -> Control]
    BY <1>4, GotoType DEF ParseBlock, TypeOK, Control
  <2>4. CertInHand'
    BY <1>4 DEF ParseBlock, SkipOther, SkipBlock, Advance, Goto, Parses, TypeOK, CertInHand
  <2> QED
    BY <1>4, <2>1, <2>2, <2>3, <2>4 DEF ParseBlock, TypeOK
<1>5. ASSUME NEW h \in Handler, CountExisting(h) PROVE TypeInv'
  <2>1. CASE body[h][pos[h]] \in table
    <3>1. SkipBlock(h, {"skipped"}) /\ Goto(h, "parse")
      BY <1>5, <2>1 DEF CountExisting
    <3>2. /\ stats' \in [Handler -> Stats]
          /\ pos' \in [Handler -> Nat]
          /\ pc' \in [Handler -> Control]
      BY <3>1, CountType, AdvanceType, GotoType DEF SkipBlock, Control
    <3>3. CertInHand'
      BY <1>5, <3>1, AdvanceType, GotoType DEF CountExisting, SkipBlock, CertInHand, Control
    <3> QED
      BY <1>5, <3>2, <3>3 DEF CountExisting, TypeOK
  <2>2. CASE body[h][pos[h]] \notin table
    <3>1. Goto(h, "create") /\ UNCHANGED <<pos, stats>>
      BY <1>5, <2>2 DEF CountExisting
    <3>2. pc' \in [Handler -> Control]
      BY <3>1, GotoType DEF Control
    <3>3. CertInHand'
      BY <1>5, <3>1, GotoType DEF CountExisting, CertInHand, Control
    <3> QED
      BY <1>5, <3>1, <3>2, <3>3 DEF CountExisting, TypeOK
  <2> QED
    BY <2>1, <2>2
<1>6. ASSUME NEW h \in Handler, CreateRow(h) PROVE TypeInv'
  <2>1. stats' \in [Handler -> Stats]
    BY <1>6, CountType DEF CreateRow, Create, Inserted, SkipBlock, TypeOK
  <2>2. body[h][pos[h]] \in Cert
    BY <1>6 DEF CreateRow, CertInHand
  <2>3. /\ table' \subseteq Cert
        /\ claims' \in [Cert -> Nat]
    <3> DEFINE c == body[h][pos[h]]
    <3>1. \/ UNCHANGED <<table, claims>>
          \/ /\ table' = table \cup {c}
             /\ claims' = [claims EXCEPT ![c] = @ + 1]
      BY <1>6 DEF CreateRow, Create, Inserted
    <3>2. c \in Cert
      BY <2>2
    <3>3. claims \in [Cert -> Nat] /\ table \subseteq Cert
      BY DEF TypeOK
    <3> HIDE DEF c
    <3> QED
      BY <3>1, <3>2, <3>3
  <2>5. /\ pos' \in [Handler -> Nat]
        /\ pc' \in [Handler -> Control]
    BY <1>6, AdvanceType, GotoType DEF CreateRow, Create, Inserted, SkipBlock, Control
  <2>4. CertInHand'
    BY <1>6, GotoType, AdvanceType
    DEF CreateRow, Create, Inserted, SkipBlock, CertInHand, Control
  <2> QED
    BY <1>6, <2>1, <2>3, <2>4, <2>5 DEF CreateRow, TypeOK
<1>7. ASSUME NEW h \in Handler, ImportReturns(h) PROVE TypeInv'
  <2>1. CASE NeedsReload(h)
    BY <1>7, <2>1, GotoType DEF ImportReturns, TypeOK, CertInHand, Control
  <2>2. CASE ~NeedsReload(h)
    BY <1>7, <2>2, AnswerType DEF ImportReturns, TypeOK, Reply
  <2> QED
    BY <2>1, <2>2
<1>8. ASSUME NEW h \in Handler, DeleteRow(h) PROVE TypeInv'
  <2>1. CASE body[h][1] \in table
    <3>1. /\ pc' \in [Handler -> Control]
          /\ CertInHand'
      BY <1>8, <2>1, GotoType DEF DeleteRow, CertInHand, Control
    <3> DEFINE c == body[h][1]
    <3>a. /\ table' = table \ {c}
          /\ claims' = [claims EXCEPT ![c] = 0]
      BY <1>8, <2>1 DEF DeleteRow
    <3> HIDE DEF c
    <3>2. /\ table' \subseteq Cert
          /\ claims' \in [Cert -> Nat]
      BY <3>a DEF TypeOK
    <3>3. UNCHANGED <<pool, expired, op, body, pos, stats, certs, reply, ghostVars>>
      BY <1>8, <2>1 DEF DeleteRow
    <3> QED
      BY <3>1, <3>2, <3>3 DEF TypeOK
  <2>2. CASE body[h][1] \notin table
    BY <1>8, <2>2, AnswerType DEF DeleteRow, TypeOK, Reply
  <2> QED
    BY <2>1, <2>2
<1>9. ASSUME NEW h \in Handler, FindRows(h) PROVE TypeInv'
  BY <1>9 DEF FindRows, Goto, TypeOK, CertInHand, Control
<1>10. ASSUME NEW h \in Handler, InstallPool(h) PROVE TypeInv'
  BY <1>10, NoStatsType DEF InstallPool, NewPool, Answer, Goto, TypeOK, CertInHand, Control, Reply
<1>11. ASSUME NEW h \in Handler, StatementFails(h) PROVE TypeInv'
  BY <1>11, NoStatsType DEF StatementFails, Answer, Goto, TypeOK, CertInHand, Control, Reply
<1>12. ASSUME NEW c \in Cert, Expire(c) PROVE TypeInv'
  BY <1>12 DEF Expire, handlerVars, TypeOK, CertInHand
<1>13. ASSUME Restart PROVE TypeInv'
  <2>1. body' \in [Handler -> Seq(Block)]
    BY <1>13 DEF Restart
  <2> QED
    BY <1>13, <2>1, NoStatsType DEF Restart, TypeOK, CertInHand, Control, Reply
<1>14. ASSUME UNCHANGED vars PROVE TypeInv'
  BY <1>14 DEF vars, handlerVars, TypeOK, CertInHand
<1> QED
  BY <1>1, <1>2, <1>3, <1>4, <1>5, <1>6, <1>7, <1>8, <1>9, <1>10, <1>11, <1>12,
     <1>13, <1>14 DEF Next, APINext, HandlerStep

\* Type correctness of every reachable state.
THEOREM TypeCorrect == Spec => []TypeOK
<1>1. Spec => []TypeInv
  BY TypeInit, TypeStep, PTL DEF Spec
<1> QED
  BY <1>1, PTL DEF TypeInv

-----------------------------------------------------------------------------
\* A row is reported as imported at most once between two deletions of it,
\* whatever imports race (EachRowClaimedOnce).
THEOREM ClaimedOnce == Spec => []EachRowClaimedOnce
<1>1. Init => EachRowClaimedOnce
  BY DEF Init, EachRowClaimedOnce
<1>2. TypeInv /\ EachRowClaimedOnce /\ [Next]_vars => EachRowClaimedOnce'
  <2> SUFFICES ASSUME TypeInv, EachRowClaimedOnce, [Next]_vars
               PROVE  EachRowClaimedOnce'
    OBVIOUS
  <2>1. ASSUME NEW h \in Handler, CreateRow(h) PROVE EachRowClaimedOnce'
    <3>1. CASE body[h][pos[h]] \in table
      BY <2>1, <3>1 DEF CreateRow, Create, EachRowClaimedOnce
    <3>2. CASE body[h][pos[h]] \notin table
      <4>1. /\ table' = table \cup {body[h][pos[h]]}
            /\ claims' = [claims EXCEPT ![body[h][pos[h]]] = @ + 1]
        BY <2>1, <3>2 DEF CreateRow, Create, Inserted
      <4> QED
        BY <3>2, <4>1 DEF EachRowClaimedOnce, TypeInv, TypeOK
    <3> QED
      BY <3>1, <3>2
  <2>2. ASSUME NEW h \in Handler, DeleteRow(h) PROVE EachRowClaimedOnce'
    <3>1. CASE body[h][1] \in table
      <4>1. /\ table' = table \ {body[h][1]}
            /\ claims' = [claims EXCEPT ![body[h][1]] = 0]
        BY <2>2, <3>1 DEF DeleteRow
      <4> QED
        BY <4>1 DEF EachRowClaimedOnce, TypeInv, TypeOK
    <3>2. CASE body[h][1] \notin table
      BY <2>2, <3>2 DEF DeleteRow, EachRowClaimedOnce
    <3> QED
      BY <3>1, <3>2
  <2>3. ASSUME UNCHANGED <<table, claims>> PROVE EachRowClaimedOnce'
    BY <2>3 DEF EachRowClaimedOnce
  <2> QED
    BY <2>1, <2>2, <2>3
    DEF Next, APINext, HandlerStep, vars, RejectBody, ImportTrustedDeviceCACerts,
        DeleteTrustedDeviceCACert, ParseBlock, CountExisting, ImportReturns, FindRows,
        InstallPool, NewPool, StatementFails, Expire, Restart
<1> QED
  BY <1>1, <1>2, TypeInit, TypeStep, PTL DEF Spec

-----------------------------------------------------------------------------
\* A handler that is going to install a pool: it has created or deleted a row,
\* and will read the table, or it has read it.
Owes(h) ==
    \/ pc[h] \in {"find", "install"}
    \/ pc[h] \in {"parse", "count", "create"} /\ stats[h].imported > 0

\* While the pool is not the table somebody is going to install one; and the
\* rows a handler has read are the table, unless another handler will install
\* a pool after it.
PoolOwed ==
    /\ overtaken \subseteq Installing
    /\ excused \/ pool = table \/ \E h \in Handler : Owes(h)
    /\ \A h \in Installing \ overtaken :
          certs[h] = table \/ \E k \in Handler \ {h} : Owes(k)

\* A step of one handler that leaves table, pool and rows read alone, and after
\* which it still owes what it owed, keeps PoolOwed.
LEMMA QuietStep ==
    ASSUME PoolOwed, NEW h \in Handler,
           UNCHANGED <<table, pool, ghostVars>>,
           \A k \in Handler \ {h} :
              pc'[k] = pc[k] /\ stats'[k] = stats[k] /\ certs'[k] = certs[k],
           pc[h] # "install", pc'[h] # "install",
           Owes(h) => Owes(h)'
    PROVE  PoolOwed'
<1>1. Installing' = Installing /\ h \notin Installing
  BY DEF Installing
<1>2. \A k \in Handler : Owes(k) => Owes(k)'
  BY DEF Owes
<1>3. /\ overtaken' = overtaken
      /\ excused' = excused
      /\ \A k \in Installing : certs'[k] = certs[k]
  BY <1>1 DEF ghostVars, Installing
<1> QED
  BY <1>1, <1>2, <1>3 DEF PoolOwed

\* A step after which the handler owes a pool, whatever it did to the table,
\* keeps PoolOwed.
LEMMA CommittingStep ==
    ASSUME PoolOwed, NEW h \in Handler,
           UNCHANGED ghostVars,
           \A k \in Handler \ {h} : pc'[k] = pc[k],
           pc[h] # "install", pc'[h] # "install",
           Owes(h)'
    PROVE  PoolOwed'
<1>1. Installing' = Installing /\ h \notin Installing
  BY DEF Installing
<1> QED
  BY <1>1 DEF PoolOwed, ghostVars

\* What the helpers do to the handlers that do not move.
LEMMA OthersKept ==
    ASSUME TypeOK, NEW h \in Handler
    PROVE  /\ \A label \in Control : Goto(h, label) =>
                 pc'[h] = label /\ \A k \in Handler \ {h} : pc'[k] = pc[k]
           /\ \A fields : Count(h, fields) => \A k \in Handler \ {h} : stats'[k] = stats[k]
           /\ \A status : Answer(h, status) =>
                 /\ pc'[h] = "idle"
                 /\ \A k \in Handler \ {h} :
                       pc'[k] = pc[k] /\ stats'[k] = stats[k] /\ certs'[k] = certs[k]
BY DEF TypeOK, Goto, Count, Answer, Control

\* Counting a block as anything but imported leaves that number.
LEMMA ImportedKept ==
    ASSUME TypeOK, NEW h \in Handler, NEW fields, Count(h, fields)
    PROVE  stats'[h].imported = stats[h].imported + (IF "imported" \in fields THEN 1 ELSE 0)
BY DEF Count, NoStats, TypeOK, Stats

\* Every step keeps PoolOwed.
LEMMA PoolOwedStep == TypeInv /\ PoolOwed /\ [Next]_vars => PoolOwed'
<1> SUFFICES ASSUME TypeInv, PoolOwed, [Next]_vars PROVE PoolOwed'
  OBVIOUS
<1> USE DEF TypeInv
<1>1. ASSUME NEW h \in Handler, RejectBody(h) PROVE PoolOwed'
  <2>1. Answer(h, "400") /\ pc[h] = "idle" /\ UNCHANGED <<table, pool, ghostVars>>
    BY <1>1 DEF RejectBody
  <2>2. ~Owes(h)
    BY <2>1 DEF Owes
  <2> QED
    BY <2>1, <2>2, OthersKept, QuietStep
<1>2. ASSUME NEW h \in Handler, NEW payload \in Payload,
             ImportTrustedDeviceCACerts(h, payload)
      PROVE PoolOwed'
  <2>1. pc[h] = "idle" /\ UNCHANGED <<table, pool, ghostVars>>
    BY <1>2 DEF ImportTrustedDeviceCACerts
  <2>2. ~Owes(h)
    BY <2>1 DEF Owes
  <2>3. \/ Answer(h, "413")
        \/ Goto(h, "parse") /\ UNCHANGED <<stats, certs>>
    BY <1>2 DEF ImportTrustedDeviceCACerts, Begin
  <2>4. /\ pc'[h] \in {"idle", "parse"}
        /\ \A k \in Handler \ {h} :
              pc'[k] = pc[k] /\ stats'[k] = stats[k] /\ certs'[k] = certs[k]
    BY <2>3, OthersKept DEF Control, TypeOK
  <2> QED
    BY <2>1, <2>2, <2>4, QuietStep
<1>3. ASSUME NEW h \in Handler, NEW c \in Cert, DeleteTrustedDeviceCACert(h, c)
      PROVE PoolOwed'
  <2>1. /\ Goto(h, "delete") /\ pc[h] = "idle"
        /\ UNCHANGED <<table, pool, stats, certs, ghostVars>>
    BY <1>3 DEF DeleteTrustedDeviceCACert, Begin
  <2>2. ~Owes(h)
    BY <2>1 DEF Owes
  <2>3. pc'[h] = "delete" /\ \A k \in Handler \ {h} : pc'[k] = pc[k]
    BY <2>1, OthersKept DEF Control
  <2> QED
    BY <2>1, <2>2, <2>3, QuietStep
<1>4. ASSUME NEW h \in Handler, ParseBlock(h) PROVE PoolOwed'
  <2>1. pc[h] = "parse" /\ UNCHANGED <<table, pool, certs, ghostVars>>
    BY <1>4 DEF ParseBlock
  <2>2. PICK fields : Count(h, fields) /\ "imported" \notin fields
    BY <1>4 DEF ParseBlock, SkipOther, SkipBlock
  <2>3. stats'[h].imported = stats[h].imported
    BY <2>2, ImportedKept DEF TypeOK, Stats
  <2>4. UNCHANGED pc \/ Goto(h, "count")
    BY <1>4 DEF ParseBlock
  <2>5. pc'[h] \in {"parse", "count"} /\ \A k \in Handler \ {h} : pc'[k] = pc[k]
    BY <2>1, <2>4, OthersKept DEF Control
  <2>6. Owes(h) => Owes(h)'
    BY <2>1, <2>3, <2>5 DEF Owes
  <2> QED
    BY <2>1, <2>2, <2>5, <2>6, OthersKept, QuietStep
<1>5. ASSUME NEW h \in Handler, CountExisting(h) PROVE PoolOwed'
  <2>1. pc[h] = "count" /\ UNCHANGED <<table, pool, certs, ghostVars>>
    BY <1>5 DEF CountExisting
  <2>2. \/ Count(h, {"skipped"}) /\ Goto(h, "parse")
        \/ Goto(h, "create") /\ UNCHANGED stats
    BY <1>5 DEF CountExisting, SkipBlock
  <2>3. stats'[h].imported = stats[h].imported
    BY <2>2, ImportedKept DEF TypeOK, Stats
  <2>4. /\ pc'[h] \in {"parse", "create"}
        /\ \A k \in Handler \ {h} : pc'[k] = pc[k] /\ stats'[k] = stats[k]
    BY <2>2, OthersKept DEF Control
  <2>5. Owes(h) => Owes(h)'
    BY <2>1, <2>3, <2>4 DEF Owes
  <2> QED
    BY <2>1, <2>4, <2>5, QuietStep
<1>6. ASSUME NEW h \in Handler, CreateRow(h) PROVE PoolOwed'
  <2>1. /\ pc[h] = "create" /\ Goto(h, "parse")
        /\ UNCHANGED <<pool, certs, ghostVars>>
    BY <1>6 DEF CreateRow
  <2>2. pc'[h] = "parse" /\ \A k \in Handler \ {h} : pc'[k] = pc[k]
    BY <2>1, OthersKept DEF Control
  <2>3. CASE body[h][pos[h]] \in table
    <3>1. Count(h, {"skipped"}) /\ UNCHANGED table
      BY <1>6, <2>3 DEF CreateRow, Create, SkipBlock
    <3>2. stats'[h].imported = stats[h].imported
      BY <3>1 DEF Count, NoStats, TypeOK, Stats
    <3>3. Owes(h) => Owes(h)'
      BY <2>1, <2>2, <3>2 DEF Owes
    <3> QED
      BY <2>1, <2>2, <3>1, <3>3, OthersKept, QuietStep
  <2>4. CASE body[h][pos[h]] \notin table
    <3>1. Count(h, {"imported"})
      BY <1>6, <2>4 DEF CreateRow, Create, Inserted, SkipBlock
    <3>2. stats'[h].imported = stats[h].imported + 1 /\ stats[h].imported \in Nat
      BY <3>1, ImportedKept DEF TypeOK, Stats
    <3>3. Owes(h)'
      BY <2>2, <3>2 DEF Owes
    <3> QED
      BY <2>1, <2>2, <3>3, CommittingStep
  <2> QED
    BY <2>3, <2>4
<1>7. ASSUME NEW h \in Handler, ImportReturns(h) PROVE PoolOwed'
  <2>1. pc[h] = "parse" /\ UNCHANGED <<table, pool, ghostVars>>
    BY <1>7 DEF ImportReturns
  <2>2. CASE NeedsReload(h)
    <3>1. Goto(h, "find")
      BY <1>7, <2>2 DEF ImportReturns
    <3>2. pc'[h] = "find" /\ \A k \in Handler \ {h} : pc'[k] = pc[k]
      BY <3>1, OthersKept DEF Control
    <3>3. Owes(h)'
      BY <3>2 DEF Owes
    <3> QED
      BY <2>1, <3>2, <3>3, CommittingStep
  <2>3. CASE ~NeedsReload(h)
    <3>1. Answer(h, "200")
      BY <1>7, <2>3 DEF ImportReturns
    <3>2. ~Owes(h)
      BY <2>1, <2>3 DEF Owes, NeedsReload
    <3> QED
      BY <2>1, <3>1, <3>2, OthersKept, QuietStep
  <2> QED
    BY <2>2, <2>3
<1>8. ASSUME NEW h \in Handler, DeleteRow(h) PROVE PoolOwed'
  <2>1. pc[h] = "delete" /\ UNCHANGED <<pool, ghostVars>>
    BY <1>8 DEF DeleteRow
  <2>2. CASE body[h][1] \in table
    <3>1. Goto(h, "find")
      BY <1>8, <2>2 DEF DeleteRow
    <3>2. pc'[h] = "find" /\ \A k \in Handler \ {h} : pc'[k] = pc[k]
      BY <3>1, OthersKept DEF Control
    <3>3. Owes(h)'
      BY <3>2 DEF Owes
    <3> QED
      BY <2>1, <3>2, <3>3, CommittingStep
  <2>3. CASE body[h][1] \notin table
    <3>1. Answer(h, "404") /\ UNCHANGED table
      BY <1>8, <2>3 DEF DeleteRow
    <3>2. ~Owes(h)
      BY <2>1 DEF Owes
    <3> QED
      BY <2>1, <3>1, <3>2, OthersKept, QuietStep
  <2> QED
    BY <2>2, <2>3
<1>9. ASSUME NEW h \in Handler, FindRows(h) PROVE PoolOwed'
  <2>1. /\ pc[h] = "find" /\ Goto(h, "install")
        /\ certs' = [certs EXCEPT ![h] = table]
        /\ UNCHANGED <<table, pool, ghostVars>>
    BY <1>9 DEF FindRows
  <2>2. /\ pc'[h] = "install" /\ certs'[h] = table
        /\ \A k \in Handler \ {h} : pc'[k] = pc[k] /\ certs'[k] = certs[k]
    BY <2>1, OthersKept DEF Control, TypeOK
  <2>3. Installing' = Installing \cup {h} /\ h \notin Installing
    BY <2>1, <2>2 DEF Installing
  <2>4. Owes(h)'
    BY <2>2 DEF Owes
  <2> QED
    BY <2>1, <2>2, <2>3, <2>4 DEF PoolOwed, ghostVars
<1>10. ASSUME NEW h \in Handler, InstallPool(h) PROVE PoolOwed'
  <2>1. /\ pc[h] = "install"
        /\ pool' = certs[h] /\ table' = table
        /\ excused' = (h \in overtaken)
        /\ overtaken' = Installing \ {h}
        /\ \E status : Answer(h, status)
    BY <1>10 DEF InstallPool, NewPool
  <2>2. /\ pc'[h] = "idle"
        /\ \A k \in Handler \ {h} : pc'[k] = pc[k] /\ stats'[k] = stats[k]
    BY <2>1, OthersKept
  <2>3. Installing' = Installing \ {h}
    BY <2>2 DEF Installing
  <2>4. \A k \in Handler \ {h} : Owes(k) => Owes(k)'
    BY <2>2 DEF Owes
  <2>5. h \in overtaken \/ certs[h] = table \/ \E k \in Handler \ {h} : Owes(k)
    BY <2>1 DEF PoolOwed, Installing
  <2> QED
    BY <2>1, <2>3, <2>4, <2>5 DEF PoolOwed
<1>11. ASSUME NEW h \in Handler, StatementFails(h) PROVE PoolOwed'
  <2>1. /\ pc[h] # "install"
        /\ excused' = TRUE /\ overtaken' = Installing
        /\ Answer(h, "500")
    BY <1>11 DEF StatementFails
  <2>2. Installing' = Installing
    BY <2>1, OthersKept DEF Installing
  <2> QED
    BY <2>1, <2>2 DEF PoolOwed
<1>12. ASSUME NEW c \in Cert, Expire(c) PROVE PoolOwed'
  BY <1>12 DEF Expire, handlerVars, ghostVars, PoolOwed, Owes, Installing
<1>13. CASE Restart
  BY <1>13 DEF Restart, PoolOwed, Installing
<1>14. CASE UNCHANGED vars
  BY <1>14 DEF vars, handlerVars, ghostVars, PoolOwed, Owes, Installing
<1> QED
  BY <1>1, <1>2, <1>3, <1>4, <1>5, <1>6, <1>7, <1>8, <1>9, <1>10, <1>11, <1>12,
     <1>13, <1>14 DEF Next, APINext, HandlerStep

\* For any number of handlers, an idle server trusts exactly the rows of the
\* table, unless a statement failed or another pool was installed since the
\* rows of its pool were read (SettledPoolIsTable).
THEOREM SettledPool == Spec => []SettledPoolIsTable
<1>1. Init => PoolOwed
  BY DEF Init, PoolOwed, Installing
<1>2. PoolOwed => SettledPoolIsTable
  BY DEF PoolOwed, SettledPoolIsTable, Quiescent, Owes
<1> QED
  BY <1>1, <1>2, PoolOwedStep, TypeInit, TypeStep, PTL DEF Spec

-----------------------------------------------------------------------------
(***************************************************************************)
(* The statistics of an import.                                            *)
(***************************************************************************)

\* A certificate that is looked up or about to be created is counted as detected
\* and not yet as anything else; a handler that serves nothing has counted
\* nothing.
Tally(h) ==
    /\ pos[h] \in Nat \ {0}
    /\ pc[h] = "idle" => pos[h] = 1 /\ stats[h] = NoStats
    /\ pc[h] = "delete" => op[h] = "delete"
    /\ op[h] = "import" /\ pc[h] \in {"parse", "find", "install"} =>
          /\ stats[h].detected = stats[h].imported + stats[h].skipped
          /\ stats[h].detected + stats[h].malformed = Cardinality(Passed(h))
    /\ op[h] = "import" /\ pc[h] \in {"count", "create"} =>
          /\ stats[h].detected = stats[h].imported + stats[h].skipped + 1
          /\ stats[h].detected + stats[h].malformed = Cardinality(Passed(h)) + 1

\* The tally is a matter of a handler's own locals.
LEMMA TallyFrame ==
    ASSUME NEW k, Tally(k), pos'[k] = pos[k], pc'[k] = pc[k], stats'[k] = stats[k],
           op'[k] = op[k], body'[k] = body[k]
    PROVE  Tally(k)'
BY DEF Tally, Passed

\* A block that is counted adds one to each of the fields.
LEMMA Counted ==
    ASSUME TypeOK, NEW h \in Handler, NEW fields, Count(h, fields)
    PROVE  /\ stats'[h].detected = stats[h].detected + (IF "detected" \in fields THEN 1 ELSE 0)
           /\ stats'[h].imported = stats[h].imported + (IF "imported" \in fields THEN 1 ELSE 0)
           /\ stats'[h].skipped = stats[h].skipped + (IF "skipped" \in fields THEN 1 ELSE 0)
           /\ stats'[h].malformed = stats[h].malformed + (IF "malformed" \in fields THEN 1 ELSE 0)
           /\ \A k \in Handler \ {h} : stats'[k] = stats[k]
BY DEF Count, NoStats, TypeOK, Stats

\* The blocks that the loop is past are finitely many, none before the first,
\* and one more when it goes past one that is a CERTIFICATE block.
LEMMA PassedFinite ==
    ASSUME NEW h, pos[h] \in Nat \ {0}
    PROVE  IsFiniteSet(Passed(h)) /\ Cardinality(Passed(h)) \in Nat
<1>1. IsFiniteSet(1 .. pos[h] - 1)
  BY FS_Interval
<1>2. IsFiniteSet(Passed(h))
  BY <1>1, FS_Subset DEF Passed
<1> QED
  BY <1>2, FS_CardinalityType

\* Advancing past a block adds it to those passed, unless its type is ignored.
LEMMA PassedAdvances ==
    ASSUME TypeOK, NEW h \in Handler, pos[h] \in Nat \ {0}, Advance(h), body'[h] = body[h]
    PROVE  /\ pos'[h] \in Nat \ {0}
           /\ Cardinality(Passed(h)') = Cardinality(Passed(h))
                                          + (IF body[h][pos[h]] = Other THEN 0 ELSE 1)
<1>1. pos'[h] = pos[h] + 1
  BY DEF Advance, TypeOK
<1>2. Passed(h)' = IF body[h][pos[h]] = Other THEN Passed(h) ELSE Passed(h) \cup {pos[h]}
  <2>1. 1 .. pos'[h] - 1 = (1 .. pos[h] - 1) \cup {pos[h]}
    BY <1>1
  <2> QED
    BY <2>1 DEF Passed
<1>3. pos[h] \notin Passed(h)
  BY DEF Passed
<1>4. IsFiniteSet(Passed(h)) /\ Cardinality(Passed(h)) \in Nat
  BY PassedFinite
<1>5. Cardinality(Passed(h) \cup {pos[h]}) = Cardinality(Passed(h)) + 1
  BY <1>3, <1>4, FS_AddElement
<1> QED
  BY <1>1, <1>2, <1>4, <1>5

\* A handler that answers, and one that begins.
LEMMA TallyAnswer ==
    ASSUME TypeOK, NEW h \in Handler, NEW status, Answer(h, status)
    PROVE  /\ Tally(h)'
           /\ \A k \in Handler \ {h} : Tally(k) => Tally(k)'
<1>1. pos'[h] = 1 /\ pc'[h] = "idle" /\ stats'[h] = NoStats
  BY DEF Answer, Goto, TypeOK
<1>2. Tally(h)'
  BY <1>1 DEF Tally
<1>3. ASSUME NEW k \in Handler \ {h}, Tally(k) PROVE Tally(k)'
  BY <1>3, TallyFrame DEF Answer, Goto, TypeOK
<1> QED
  BY <1>2, <1>3

\* A request begins with nothing counted.
LEMMA TallyBegin ==
    ASSUME TypeOK, NEW h \in Handler, NEW label \in {"parse", "delete"}, NEW operation, NEW content,
           label = "delete" => operation = "delete",
           pc[h] = "idle", Tally(h), Begin(h, label, operation, content)
    PROVE  /\ Tally(h)'
           /\ \A k \in Handler \ {h} : Tally(k) => Tally(k)'
<1>1. pos'[h] = 1 /\ pc'[h] = label /\ stats'[h] = NoStats /\ op'[h] = operation
  BY DEF Begin, Goto, TypeOK, Tally
<1>2. Passed(h)' = {}
  BY <1>1 DEF Passed
<1>3. Cardinality({}) = 0
  BY FS_EmptySet
<1>4. Tally(h)'
  BY <1>1, <1>2, <1>3 DEF Tally, NoStats
<1>5. ASSUME NEW k \in Handler \ {h}, Tally(k) PROVE Tally(k)'
  BY <1>5, TallyFrame DEF Begin, Goto, TypeOK
<1> QED
  BY <1>4, <1>5

\* A block that is counted for good: the loop goes on with the next one.
LEMMA TallySkips ==
    ASSUME TypeInv, NEW h \in Handler, Tally(h), NEW fields, SkipBlock(h, fields),
           pc'[h] = "parse", UNCHANGED <<op, body>>,
           \/ pc[h] = "parse" /\ body[h][pos[h]] = Other /\ fields = {}
           \/ pc[h] = "parse" /\ body[h][pos[h]] # Other
                /\ fields \in {{"malformed"}, {"detected", "skipped"}}
           \/ pc[h] \in {"count", "create"} /\ fields \in {{"skipped"}, {"imported"}}
    PROVE  Tally(h)'
<1>1. Count(h, fields) /\ Advance(h)
  BY DEF SkipBlock
<1>2. stats[h] \in Stats /\ pos[h] \in Nat \ {0}
  BY DEF TypeInv, TypeOK, Tally
<1>3. /\ pos'[h] \in Nat \ {0}
      /\ Cardinality(Passed(h)') = Cardinality(Passed(h))
                                     + (IF body[h][pos[h]] = Other THEN 0 ELSE 1)
  BY <1>1, <1>2, PassedAdvances DEF TypeInv
<1>4. Cardinality(Passed(h)) \in Nat
  BY <1>2, PassedFinite
<1>5. pc[h] \in {"count", "create"} => body[h][pos[h]] # Other
  BY CertAssumption DEF TypeInv, CertInHand
<1>6. /\ stats'[h].detected = stats[h].detected + (IF "detected" \in fields THEN 1 ELSE 0)
      /\ stats'[h].imported = stats[h].imported + (IF "imported" \in fields THEN 1 ELSE 0)
      /\ stats'[h].skipped = stats[h].skipped + (IF "skipped" \in fields THEN 1 ELSE 0)
      /\ stats'[h].malformed = stats[h].malformed + (IF "malformed" \in fields THEN 1 ELSE 0)
  BY <1>1, Counted DEF TypeInv
<1>7. ASSUME op[h] = "import"
      PROVE  /\ stats'[h].detected = stats'[h].imported + stats'[h].skipped
             /\ stats'[h].detected + stats'[h].malformed = Cardinality(Passed(h)')
  <2>1. CASE pc[h] = "parse" /\ body[h][pos[h]] = Other /\ fields = {}
    BY <1>2, <1>3, <1>4, <1>6, <1>7, <2>1 DEF Tally, Stats
  <2>2. CASE pc[h] = "parse" /\ body[h][pos[h]] # Other
               /\ fields \in {{"malformed"}, {"detected", "skipped"}}
    BY <1>2, <1>3, <1>4, <1>6, <1>7, <2>2 DEF Tally, Stats
  <2>3. CASE pc[h] \in {"count", "create"} /\ fields \in {{"skipped"}, {"imported"}}
    BY <1>2, <1>3, <1>4, <1>5, <1>6, <1>7, <2>3 DEF Tally, Stats
  <2> QED
    BY <2>1, <2>2, <2>3
<1> QED
  BY <1>3, <1>7 DEF Tally

\* No step counts for another handler.
LEMMA TallyOthers ==
    ASSUME TypeOK, NEW h \in Handler, NEW k \in Handler \ {h}, Tally(k),
           UNCHANGED pos \/ Advance(h), UNCHANGED pc \/ \E label : Goto(h, label),
           UNCHANGED stats \/ \E fields : Count(h, fields), UNCHANGED <<op, body>>
    PROVE  Tally(k)'
<1>1. pos'[k] = pos[k] /\ pc'[k] = pc[k] /\ stats'[k] = stats[k]
  BY Counted DEF TypeOK, Advance, Goto
<1> QED
  BY <1>1, TallyFrame

\* Every step keeps the tally.
LEMMA TallyStep ==
    ASSUME TypeInv, \A h \in Handler : Tally(h), [Next]_vars
    PROVE  \A k \in Handler : Tally(k)'
<1> TAKE k \in Handler
<1> USE DEF TypeInv
<1>1. ASSUME NEW h \in Handler, RejectBody(h) \/ StatementFails(h) \/ InstallPool(h) PROVE Tally(k)'
  BY <1>1, TallyAnswer DEF RejectBody, StatementFails, InstallPool
<1>2. ASSUME NEW h \in Handler, NEW payload \in Payload, ImportTrustedDeviceCACerts(h, payload)
      PROVE  Tally(k)'
  BY <1>2, TallyAnswer, TallyBegin DEF ImportTrustedDeviceCACerts
<1>3. ASSUME NEW h \in Handler, NEW c \in Cert, DeleteTrustedDeviceCACert(h, c) PROVE Tally(k)'
  BY <1>3, TallyBegin DEF DeleteTrustedDeviceCACert
<1>4. ASSUME NEW h \in Handler, ParseBlock(h) PROVE Tally(k)'
  <2> DEFINE block == body[h][pos[h]]
  <2>1. pc[h] = "parse" /\ UNCHANGED <<op, body>>
    BY <1>4 DEF ParseBlock
  <2>2. \/ block = Other /\ SkipBlock(h, {}) /\ UNCHANGED pc
        \/ block = Malformed /\ SkipBlock(h, {"malformed"}) /\ UNCHANGED pc
        \/ block \in Cert /\ SkipBlock(h, {"detected", "skipped"}) /\ UNCHANGED pc
        \/ block \in Cert /\ Count(h, {"detected"}) /\ Goto(h, "count") /\ UNCHANGED pos
    BY <1>4 DEF ParseBlock, SkipOther, Parses, TypeOK
  <2>3. block = Malformed \/ block \in Cert => block # Other
    BY CertAssumption
  <2> HIDE DEF block
  <2>4. CASE k # h
    <3>1. /\ UNCHANGED pos \/ Advance(h)
          /\ UNCHANGED pc \/ \E label : Goto(h, label)
          /\ \E fields : Count(h, fields)
      BY <2>2 DEF SkipBlock
    <3> QED
      BY <2>1, <2>4, <3>1, TallyOthers
  <2>5. CASE k = h /\ UNCHANGED pc
    <3>1. \E fields :
             /\ SkipBlock(h, fields)
             /\ \/ block = Other /\ fields = {}
                \/ block # Other /\ fields \in {{"malformed"}, {"detected", "skipped"}}
      <4>1. ~Goto(h, "count")
        BY <2>1, <2>5 DEF Goto, TypeOK
      <4> QED
        BY <2>2, <2>3, <4>1
    <3>2. pc'[h] = "parse"
      BY <2>1, <2>5
    <3> QED
      BY <2>1, <2>5, <3>1, <3>2, TallySkips DEF block
  <2>6. CASE k = h /\ Count(h, {"detected"}) /\ Goto(h, "count") /\ UNCHANGED pos
    <3>1. pc'[h] = "count" /\ Passed(h)' = Passed(h) /\ op'[h] = op[h]
      BY <2>1, <2>6 DEF Goto, TypeOK, Passed
    <3>2. /\ stats'[h].detected = stats[h].detected + 1
          /\ stats'[h].imported = stats[h].imported
          /\ stats'[h].skipped = stats[h].skipped
          /\ stats'[h].malformed = stats[h].malformed
          /\ stats[h] \in Stats
      <4>1. Count(h, {"detected"}) /\ stats[h] \in Stats
        BY <2>6 DEF TypeOK
      <4>2. /\ stats'[h].detected = stats[h].detected + 1
            /\ stats'[h].imported = stats[h].imported + 0
            /\ stats'[h].skipped = stats[h].skipped + 0
            /\ stats'[h].malformed = stats[h].malformed + 0
        BY <4>1, Counted
      <4> QED
        BY <4>1, <4>2 DEF Stats
    <3>3. pos[h] \in Nat \ {0} /\ Cardinality(Passed(h)) \in Nat
      BY PassedFinite DEF Tally
    <3> QED
      BY <2>1, <2>6, <3>1, <3>2, <3>3 DEF Tally, Stats
  <2> QED
    BY <2>2, <2>4, <2>5, <2>6
<1>5. ASSUME NEW h \in Handler, CountExisting(h) PROVE Tally(k)'
  <2>1. pc[h] = "count" /\ UNCHANGED <<op, body>>
    BY <1>5 DEF CountExisting
  <2>2. \/ SkipBlock(h, {"skipped"}) /\ Goto(h, "parse")
        \/ Goto(h, "create") /\ UNCHANGED <<pos, stats>>
    BY <1>5 DEF CountExisting
  <2>3. CASE k # h
    BY <2>1, <2>2, <2>3, TallyOthers DEF SkipBlock
  <2>4. CASE k = h /\ SkipBlock(h, {"skipped"}) /\ Goto(h, "parse")
    <3>1. pc'[h] = "parse"
      BY <2>4 DEF Goto, TypeOK
    <3> QED
      BY <2>1, <2>4, <3>1, TallySkips
  <2>5. CASE k = h /\ Goto(h, "create") /\ UNCHANGED <<pos, stats>>
    <3>1. pc'[h] = "create" /\ Passed(h)' = Passed(h)
      BY <2>1, <2>5 DEF Goto, TypeOK, Passed
    <3> QED
      BY <2>1, <2>5, <3>1 DEF Tally
  <2> QED
    BY <2>2, <2>3, <2>4, <2>5
<1>6. ASSUME NEW h \in Handler, CreateRow(h) PROVE Tally(k)'
  <2>1. pc[h] = "create" /\ UNCHANGED <<op, body>> /\ Goto(h, "parse")
    BY <1>6 DEF CreateRow
  <2>2. \E fields \in {{"skipped"}, {"imported"}} : SkipBlock(h, fields)
    BY <1>6 DEF CreateRow, Create, Inserted
  <2>3. CASE k # h
    BY <2>1, <2>2, <2>3, TallyOthers DEF SkipBlock
  <2>4. CASE k = h
    <3>1. pc'[h] = "parse"
      BY <2>1 DEF Goto, TypeOK
    <3> QED
      BY <2>1, <2>2, <2>4, <3>1, TallySkips
  <2> QED
    BY <2>3, <2>4
<1>7. ASSUME NEW h \in Handler, ImportReturns(h) PROVE Tally(k)'
  <2>1. CASE NeedsReload(h)
    <3>1. pc[h] = "parse" /\ Goto(h, "find") /\ UNCHANGED <<op, body, pos, stats>>
      BY <1>7, <2>1 DEF ImportReturns
    <3>2. CASE k # h
      BY <3>1, <3>2, TallyOthers
    <3>3. CASE k = h
      BY <3>1, <3>3 DEF Goto, TypeOK, Tally, Passed
    <3> QED
      BY <3>2, <3>3
  <2>2. CASE ~NeedsReload(h)
    BY <1>7, <2>2, TallyAnswer DEF ImportReturns
  <2> QED
    BY <2>1, <2>2
<1>8. ASSUME NEW h \in Handler, DeleteRow(h) PROVE Tally(k)'
  <2>1. CASE Answer(h, "404")
    BY <2>1, TallyAnswer
  <2>2. CASE ~Answer(h, "404")
    <3>1. pc[h] = "delete" /\ Goto(h, "find") /\ UNCHANGED <<op, body, pos, stats>>
      BY <1>8, <2>2 DEF DeleteRow
    <3>2. CASE k # h
      BY <3>1, <3>2, TallyOthers
    <3>3. CASE k = h
      BY <3>1, <3>3 DEF Goto, TypeOK, Tally, Passed
    <3> QED
      BY <3>2, <3>3
  <2> QED
    BY <2>1, <2>2
<1>9. ASSUME NEW h \in Handler, FindRows(h) PROVE Tally(k)'
  <2>1. pc[h] = "find" /\ Goto(h, "install") /\ UNCHANGED <<op, body, pos, stats>>
    BY <1>9 DEF FindRows
  <2>2. CASE k # h
    BY <2>1, <2>2, TallyOthers
  <2>3. CASE k = h
    BY <2>1, <2>3 DEF Goto, TypeOK, Tally, Passed
  <2> QED
    BY <2>2, <2>3
<1>10. ASSUME NEW c \in Cert, Expire(c) PROVE Tally(k)'
  BY <1>10, TallyFrame DEF Expire, handlerVars
<1>11. CASE Restart
  BY <1>11 DEF Restart, Tally
<1>12. CASE UNCHANGED vars
  BY <1>12, TallyFrame DEF vars, handlerVars
<1> QED
  BY <1>1, <1>2, <1>3, <1>4, <1>5, <1>6, <1>7, <1>8, <1>9, <1>10, <1>11, <1>12
     DEF Next, APINext, HandlerStep

\* For any number of handlers and any length of the files, whatever rows come, go
\* or expire while a file is imported, every CERTIFICATE block that the loop is
\* past is counted once (ImportDeviceCACertificates).
THEOREM StatsCorrect == Spec => []StatsAddUp
<1>1. Init => \A h \in Handler : Tally(h)
  BY DEF Init, Tally
<1>2. (\A h \in Handler : Tally(h)) => StatsAddUp
  BY DEF Tally, StatsAddUp
<1>3. TypeInv /\ (\A h \in Handler : Tally(h)) /\ [Next]_vars => (\A h \in Handler : Tally(h))'
  BY TallyStep
<1> QED
  BY <1>1, <1>2, <1>3, TypeInit, TypeStep, PTL DEF Spec
=============================================================================

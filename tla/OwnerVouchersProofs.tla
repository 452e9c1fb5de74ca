------------------------ MODULE OwnerVouchersProofs ------------------------
(***************************************************************************)
(* What OwnerVouchers guarantees for any number of GUIDs, importers,       *)
(* resellers and TO2 workers, on a database that need not serialise        *)
(* transactions.                                                           *)
(***************************************************************************)
EXTENDS OwnerVouchers, TLAPS

\* An importer past the verification of a block has one, and it is a voucher.
AtVoucher ==
    \A i \in Importer :
        pc[i] \in {"fetch", "insert"} => body[i] # <<>> /\ Head(body[i]) \in Guid

TypeInv == TypeOK /\ AtVoucher

-----------------------------------------------------------------------------
(***************************************************************************)
(* How the operators that several actions share keep the types.            *)
(***************************************************************************)

\* BodyIsSeq: what a request may carry is a sequence of blocks.
LEMMA BodyIsSeq == Body \subseteq Seq(Block)
  BY BoundsAssumption DEF Body

\* AnsweredType: the end of a request keeps the importers well-formed.
LEMMA AnsweredType ==
    ASSUME TypeInv, NEW i \in Importer, Answered(i)
    PROVE  /\ pc' \in [Importer -> {"idle", "fetch", "insert"}]
           /\ body' \in [Importer -> Seq(Block)]
           /\ AtVoucher'
  <1>1. /\ pc \in [Importer -> {"idle", "fetch", "insert"}]
        /\ body \in [Importer -> Seq(Block)]
    BY DEF TypeInv, TypeOK
  <1>2. <<>> \in Seq(Block)
    OBVIOUS
  <1> QED BY <1>1, <1>2 DEF Answered, Goto, TypeInv, AtVoucher

\* ProceedType: so does the step to the next block, if there is one.
LEMMA ProceedType ==
    ASSUME TypeInv, NEW i \in Importer, NEW blocks \in Seq(Block), Proceed(i, blocks)
    PROVE  /\ pc' \in [Importer -> {"idle", "fetch", "insert"}]
           /\ body' \in [Importer -> Seq(Block)]
           /\ AtVoucher'
  <1>1. /\ pc \in [Importer -> {"idle", "fetch", "insert"}]
        /\ body \in [Importer -> Seq(Block)]
        /\ AtVoucher
    BY DEF TypeInv, TypeOK
  <1>2. CASE Answered(i)
    BY <1>2, AnsweredType
  <1>3. ASSUME NEW k \in NextVoucher(blocks),
               Goto(i, "fetch"),
               body' = [body EXCEPT ![i] = SubSeq(blocks, k, Len(blocks))]
        PROVE  /\ pc' \in [Importer -> {"idle", "fetch", "insert"}]
               /\ body' \in [Importer -> Seq(Block)]
               /\ AtVoucher'
    <2> DEFINE rest == SubSeq(blocks, k, Len(blocks))
    <2>1. k \in 1 .. Len(blocks) /\ blocks[k] \in Guid
      BY DEF NextVoucher, Verifies
    <2>2. rest \in Seq(Block) /\ rest # <<>> /\ Head(rest) \in Guid
      <3>1. rest \in Seq(Block)
        BY <2>1
      <3>2. Len(rest) = Len(blocks) - k + 1 /\ rest[1] = blocks[k]
        BY <2>1
      <3> HIDE DEF rest
      <3> QED BY <2>1, <3>1, <3>2
    <2>3. body' = [body EXCEPT ![i] = rest]
      BY <1>3
    <2> HIDE DEF rest
    <2>4. body' \in [Importer -> Seq(Block)] /\ body'[i] = rest
      BY <1>1, <2>2, <2>3
    <2>5. pc' \in [Importer -> {"idle", "fetch", "insert"}]
      BY <1>1, <1>3 DEF Goto
    <2>6. ASSUME NEW j \in Importer, pc'[j] \in {"fetch", "insert"}
          PROVE  body'[j] # <<>> /\ Head(body'[j]) \in Guid
      <3>1. CASE j = i
        BY <2>2, <2>4, <3>1
      <3>2. CASE j # i
        BY <1>1, <1>3, <2>3, <2>6, <3>2 DEF Goto, AtVoucher
      <3> QED BY <3>1, <3>2
    <2> QED BY <2>4, <2>5, <2>6 DEF AtVoucher
  <1> QED BY <1>2, <1>3 DEF Proceed

\* NextBlockType: the loop goes on behind the block it is at.
LEMMA NextBlockType ==
    ASSUME TypeInv, NEW i \in Importer, body[i] # <<>>, NextBlock(i)
    PROVE  /\ pc' \in [Importer -> {"idle", "fetch", "insert"}]
           /\ body' \in [Importer -> Seq(Block)]
           /\ AtVoucher'
  <1>1. body \in [Importer -> Seq(Block)]
    BY DEF TypeInv, TypeOK
  <1>2. Tail(body[i]) \in Seq(Block)
    BY <1>1
  <1> QED BY <1>2, ProceedType DEF NextBlock

\* AtVoucherType: moving on with a verified voucher keeps them well-formed.
LEMMA AtVoucherType ==
    ASSUME TypeInv, NEW i \in Importer, NEW label \in {"fetch", "insert"},
           body[i] # <<>>, Head(body[i]) \in Guid, Goto(i, label), UNCHANGED body
    PROVE  /\ pc' \in [Importer -> {"idle", "fetch", "insert"}]
           /\ body' \in [Importer -> Seq(Block)]
           /\ AtVoucher'
  <1>1. /\ pc \in [Importer -> {"idle", "fetch", "insert"}]
        /\ body \in [Importer -> Seq(Block)]
    BY DEF TypeInv, TypeOK
  <1> QED BY <1>1 DEF Goto, TypeInv, AtVoucher

\* The steps of one resale.
ResellStep(r) ==
    \/ \E g \in Guid : ResellReads(r, g)
    \/ ResellDeletes(r)
    \/ ResellUntracks(r)
    \/ ResellFails(r)

-----------------------------------------------------------------------------
(***************************************************************************)
(* Type correctness.                                                       *)
(***************************************************************************)

\* TypeInit: the server starts well-formed.
LEMMA TypeInit == Init => TypeInv
  <1>1. <<>> \in Seq(Block)
    OBVIOUS
  <1> QED BY <1>1 DEF Init, TypeInv, TypeOK, AtVoucher, Status

\* TypeNext: every step keeps it well-formed.
LEMMA TypeNext == TypeInv /\ [Next]_storeVars => TypeInv'
  <1> SUFFICES ASSUME TypeInv, [Next]_storeVars
               PROVE  TypeInv'
    OBVIOUS
  <1>t. /\ vouchers \subseteq Guid
        /\ status \in [Guid -> Status]
        /\ newGuid \in [Guid -> Guid \cup {NoGuid}]
        /\ untracked \subseteq Guid
        /\ pc \in [Importer -> {"idle", "fetch", "insert"}]
        /\ body \in [Importer -> Seq(Block)]
        /\ resale \in [Reseller -> Guid \cup {NoGuid}]
        /\ missed \subseteq {r \in Reseller : resale[r] # NoGuid}
        /\ to2 \in [TO2Worker -> Guid \cup {NoGuid}]
        /\ AtVoucher
    BY DEF TypeInv, TypeOK
  <1>1. ASSUME NEW i \in Importer, NEW blocks \in Body, ImportVouchers(i, blocks)
        PROVE  TypeInv'
    <2>1. blocks \in Seq(Block)
      BY BodyIsSeq
    <2> QED BY <1>1, <1>t, <2>1, ProceedType DEF ImportVouchers, rows, resales, TypeInv, TypeOK
  <1>2. ASSUME NEW i \in Importer, FetchVoucher(i)
        PROVE  TypeInv'
    <2>1. body[i] # <<>> /\ Head(body[i]) \in Guid
      BY <1>2, <1>t DEF FetchVoucher, AtVoucher
    <2>2. CASE NextBlock(i)
      BY <1>2, <1>t, <2>1, <2>2, NextBlockType DEF FetchVoucher, rows, resales, TypeInv, TypeOK
    <2>3. CASE Goto(i, "insert") /\ UNCHANGED body
      BY <1>2, <1>t, <2>1, <2>3, AtVoucherType DEF FetchVoucher, rows, resales, TypeInv, TypeOK
    <2> QED BY <1>2, <2>2, <2>3 DEF FetchVoucher
  <1>3. ASSUME NEW i \in Importer, InsertVoucher(i)
        PROVE  TypeInv'
    <2>1. body[i] # <<>> /\ Head(body[i]) \in Guid
      BY <1>3, <1>t DEF InsertVoucher, AtVoucher
    <2>2. CASE Answered(i) /\ UNCHANGED rows
      BY <1>3, <1>t, <2>2, AnsweredType DEF InsertVoucher, rows, resales, TypeInv, TypeOK
    <2>3. CASE /\ vouchers' = vouchers \cup {Head(body[i])}
               /\ Track(Head(body[i]))
               /\ untracked' = untracked \ {Head(body[i])}
               /\ NextBlock(i)
               /\ UNCHANGED newGuid
      <3>1. status' \in [Guid -> Status]
        BY <1>t, <2>1, <2>3 DEF Track, Status
      <3> QED BY <1>3, <1>t, <2>1, <2>3, <3>1, NextBlockType
              DEF InsertVoucher, resales, TypeInv, TypeOK
    <2> QED BY <1>3, <2>2, <2>3 DEF InsertVoucher
  <1>4. ASSUME NEW i \in Importer, InsertFails(i)
        PROVE  TypeInv'
    BY <1>4, <1>t, AnsweredType DEF InsertFails, rows, resales, TypeInv, TypeOK
  <1>5. ASSUME NEW r \in Reseller, ResellStep(r)
        PROVE  TypeInv'
    <2>1. /\ resale' \in [Reseller -> Guid \cup {NoGuid}]
          /\ missed' \subseteq {q \in Reseller : resale'[q] # NoGuid}
      <3>1. ASSUME ResellEnds(r)
            PROVE  /\ resale' \in [Reseller -> Guid \cup {NoGuid}]
                   /\ missed' \subseteq {q \in Reseller : resale'[q] # NoGuid}
        BY <1>t, <3>1 DEF ResellEnds
      <3>2. ASSUME NEW g \in Guid, ResellReads(r, g)
            PROVE  /\ resale' \in [Reseller -> Guid \cup {NoGuid}]
                   /\ missed' \subseteq {q \in Reseller : resale'[q] # NoGuid}
        BY <1>t, <3>2, GuidAssumption DEF ResellReads
      <3>3. ASSUME ResellDeletes(r)
            PROVE  /\ resale' \in [Reseller -> Guid \cup {NoGuid}]
                   /\ missed' \subseteq {q \in Reseller : resale'[q] # NoGuid}
        BY <1>t, <3>1, <3>3 DEF ResellDeletes
      <3> QED BY <1>5, <3>1, <3>2, <3>3 DEF ResellStep, ResellUntracks, ResellFails
    <2>2. /\ vouchers' \subseteq Guid
          /\ untracked' \subseteq Guid
          /\ status' \in [Guid -> Status]
          /\ newGuid' \in [Guid -> Guid \cup {NoGuid}]
      BY <1>5, <1>t
         DEF ResellStep, ResellReads, ResellDeletes, ResellUntracks, ResellFails,
             RemoveVoucher, Untrack, Status, rows
    <2>3. UNCHANGED <<pc, body, to2>>
      BY <1>5 DEF ResellStep, ResellReads, ResellDeletes, ResellUntracks, ResellFails
    <2> QED BY <1>t, <2>1, <2>2, <2>3 DEF TypeInv, TypeOK, AtVoucher
  <1>6. ASSUME NEW t \in TO2Worker, NEW g \in Guid, LoadForReplacement(t, g)
        PROVE  TypeInv'
    BY <1>6, <1>t DEF LoadForReplacement, rows, resales, TypeInv, TypeOK, AtVoucher
  <1>7. ASSUME NEW t \in TO2Worker, NEW n \in Guid, ReplaceVoucher(t, n)
        PROVE  TypeInv'
    <2>1. to2[t] \in Guid
      BY <1>7, <1>t DEF ReplaceVoucher
    <2> QED BY <1>7, <1>t, <2>1
            DEF ReplaceVoucher, Complete, Status, resales, TypeInv, TypeOK, AtVoucher
  <1>8. ASSUME NEW t \in TO2Worker, TO2Fails(t)
        PROVE  TypeInv'
    BY <1>8, <1>t DEF TO2Fails, rows, resales, TypeInv, TypeOK, AtVoucher
  <1>9. CASE StoreRestart
    <2>1. <<>> \in Seq(Block)
      OBVIOUS
    <2> QED BY <1>9, <1>t, <2>1 DEF StoreRestart, rows, TypeInv, TypeOK, AtVoucher
  <1>10. CASE UNCHANGED storeVars
    BY <1>10, <1>t DEF storeVars, TypeInv, TypeOK, AtVoucher
  <1> QED BY <1>1, <1>2, <1>3, <1>4, <1>5, <1>6, <1>7, <1>8, <1>9, <1>10
          DEF Next, StoreNext, ResellStep

\* TypeInvariant: what TypeCorrect and the safety theorems rest on.
LEMMA TypeInvariant == Spec => []TypeInv
  BY TypeInit, TypeNext, PTL DEF Spec

\* TypeCorrect: the tables and the handlers' locals keep their types; a row is
\* only ever stored under the GUID of a voucher that was verified.
THEOREM TypeCorrect == Spec => []TypeOK
  <1>1. TypeInv => TypeOK
    BY DEF TypeInv
  <1> QED BY <1>1, TypeInvariant, PTL

-----------------------------------------------------------------------------
(***************************************************************************)
(* Vouchers and onboarding rows.                                           *)
(***************************************************************************)

Tracking == PendingIsOwned /\ ImportedIsTracked

\* TrackingNext: no transaction on the two tables breaks the relation between
\* them.
LEMMA TrackingNext == TypeInv /\ Tracking /\ [Next]_storeVars => Tracking'
  <1> SUFFICES ASSUME TypeInv, Tracking, [Next]_storeVars
               PROVE  Tracking'
    OBVIOUS
  <1>t. /\ vouchers \subseteq Guid
        /\ status \in [Guid -> Status]
        /\ newGuid \in [Guid -> Guid \cup {NoGuid}]
        /\ untracked \subseteq Guid
        /\ to2 \in [TO2Worker -> Guid \cup {NoGuid}]
        /\ AtVoucher
    BY DEF TypeInv, TypeOK
  <1>r. ASSUME UNCHANGED rows PROVE Tracking'
    BY <1>r DEF rows, Tracking, PendingIsOwned, ImportedIsTracked
  <1>1. ASSUME NEW i \in Importer, InsertVoucher(i)
        PROVE  Tracking'
    <2>1. Head(body[i]) \in Guid
      BY <1>1, <1>t DEF InsertVoucher, AtVoucher
    <2>2. CASE UNCHANGED rows
      BY <2>2, <1>r
    <2>3. CASE /\ vouchers' = vouchers \cup {Head(body[i])}
               /\ Track(Head(body[i]))
               /\ untracked' = untracked \ {Head(body[i])}
      BY <1>t, <2>1, <2>3 DEF Track, Status, Tracking, PendingIsOwned, ImportedIsTracked
    <2> QED BY <1>1, <2>2, <2>3 DEF InsertVoucher
  <1>2. ASSUME NEW r \in Reseller, ResellStep(r)
        PROVE  Tracking'
    <2>1. CASE UNCHANGED rows
      BY <2>1, <1>r
    <2>2. CASE RemoveVoucher(resale[r])
      BY <1>t, <2>2 DEF RemoveVoucher, Untrack, Status, Tracking, PendingIsOwned, ImportedIsTracked
    <2>3. CASE ResellUntracks(r)
      BY <1>t, <2>3 DEF ResellUntracks, Untrack, Status, Tracking, PendingIsOwned, ImportedIsTracked
    <2> QED BY <1>2, <2>1, <2>2, <2>3 DEF ResellStep, ResellReads, ResellDeletes, ResellFails
  <1>3. ASSUME NEW t \in TO2Worker, NEW n \in Guid, ReplaceVoucher(t, n)
        PROVE  Tracking'
    <2>1. to2[t] \in Guid
      BY <1>3, <1>t DEF ReplaceVoucher
    <2> QED BY <1>3, <1>t, <2>1
            DEF ReplaceVoucher, Complete, Status, Tracking, PendingIsOwned, ImportedIsTracked
  <1>4. ASSUME NEW i \in Importer,
               \/ \E blocks \in Body : ImportVouchers(i, blocks)
               \/ FetchVoucher(i)
               \/ InsertFails(i)
        PROVE  Tracking'
    BY <1>4, <1>r DEF ImportVouchers, FetchVoucher, InsertFails
  <1>5. ASSUME NEW t \in TO2Worker,
               \/ \E g \in Guid : LoadForReplacement(t, g)
               \/ TO2Fails(t)
        PROVE  Tracking'
    BY <1>5, <1>r DEF LoadForReplacement, TO2Fails
  <1>6. CASE StoreRestart \/ UNCHANGED storeVars
    BY <1>6, <1>r DEF StoreRestart, storeVars, rows
  <1> QED BY <1>1, <1>2, <1>3, <1>4, <1>5, <1>6
          DEF Next, StoreNext, ResellStep

\* OwnedWhilePending: a device that still needs TO2 is one whose voucher the
\* server has, however imports, resales and TO2 overlap.
THEOREM OwnedWhilePending == Spec => []PendingIsOwned
  <1>1. Init => Tracking
    BY DEF Init, Tracking, PendingIsOwned, ImportedIsTracked
  <1>2. Tracking => PendingIsOwned
    BY DEF Tracking
  <1> QED BY <1>1, <1>2, TrackingNext, TypeInvariant, PTL DEF Spec

\* NoneForgotten: every voucher that was imported, and not produced by TO2,
\* has the onboarding row that makes the scheduler see it, except where a resale
\* whose own voucher was gone has deleted it.
THEOREM NoneForgotten == Spec => []ImportedIsTracked
  <1>1. Init => Tracking
    BY DEF Init, Tracking, PendingIsOwned, ImportedIsTracked
  <1>2. Tracking => ImportedIsTracked
    BY DEF Tracking
  <1> QED BY <1>1, <1>2, TrackingNext, TypeInvariant, PTL DEF Spec

\* CompletionIsFinal: only a resale takes back that a device completed TO2;
\* importing its old voucher again does not, whatever transactions overlap.
THEOREM CompletionIsFinal == Spec => CompletionSticks
  <1> DEFINE Kept ==
        \A g \in Guid :
            status[g] = "done" /\ status'[g] # "done" =>
                /\ status'[g] = "none"
                /\ \/ g \in vouchers \ vouchers'
                   \/ \E r \in missed : resale[r] = g /\ resale'[r] = NoGuid
  <1>1. TypeInv /\ [Next]_storeVars => [Kept]_storeVars
    <2> SUFFICES ASSUME TypeInv, Next PROVE Kept
      OBVIOUS
    <2>t. /\ status \in [Guid -> Status]
          /\ resale \in [Reseller -> Guid \cup {NoGuid}]
          /\ missed \subseteq Reseller
          /\ to2 \in [TO2Worker -> Guid \cup {NoGuid}]
          /\ AtVoucher
      BY DEF TypeInv, TypeOK
    <2>r. ASSUME status' = status PROVE Kept
      BY <2>r
    <2>1. ASSUME NEW i \in Importer, InsertVoucher(i)
          PROVE  Kept
      <3>1. Head(body[i]) \in Guid
        BY <2>1, <2>t DEF InsertVoucher, AtVoucher
      <3> QED BY <2>1, <2>t, <3>1 DEF InsertVoucher, Track, rows, Status
    <2>2. ASSUME NEW r \in Reseller, ResellStep(r)
          PROVE  Kept
      <3>1. CASE UNCHANGED rows
        BY <3>1, <2>r DEF rows
      <3>2. CASE RemoveVoucher(resale[r]) /\ resale[r] \in vouchers
        BY <2>t, <3>2 DEF RemoveVoucher, Untrack, Status
      <3>3. CASE ResellUntracks(r)
        <4>1. r \in missed /\ resale'[r] = NoGuid
          BY <2>t, <3>3 DEF ResellUntracks, ResellEnds
        <4>2. status' = [status EXCEPT ![resale[r]] = "none"]
          BY <3>3 DEF ResellUntracks, Untrack
        <4> QED BY <2>t, <4>1, <4>2 DEF Status
      <3> QED BY <2>2, <3>1, <3>2, <3>3 DEF ResellStep, ResellReads, ResellDeletes, ResellFails
    <2>3. ASSUME NEW t \in TO2Worker, NEW n \in Guid, ReplaceVoucher(t, n)
          PROVE  Kept
      <3>1. to2[t] \in Guid
        BY <2>3, <2>t DEF ReplaceVoucher
      <3> QED BY <2>3, <2>t, <3>1 DEF ReplaceVoucher, Complete, Status
    <2>4. ASSUME NEW i \in Importer,
                 \/ \E blocks \in Body : ImportVouchers(i, blocks)
                 \/ FetchVoucher(i)
                 \/ InsertFails(i)
          PROVE  Kept
      <3>1. UNCHANGED rows
        BY <2>4 DEF ImportVouchers, FetchVoucher, InsertFails
      <3> QED BY <3>1, <2>r DEF rows
    <2>5. ASSUME NEW t \in TO2Worker,
                 \/ \E g \in Guid : LoadForReplacement(t, g)
                 \/ TO2Fails(t)
          PROVE  Kept
      <3>1. UNCHANGED rows
        BY <2>5 DEF LoadForReplacement, TO2Fails
      <3> QED BY <3>1, <2>r DEF rows
    <2>6. CASE StoreRestart
      BY <2>6, <2>r DEF StoreRestart, rows
    <2> QED BY <2>1, <2>2, <2>3, <2>4, <2>5, <2>6
        DEF Next, StoreNext, ResellStep
  <1> QED BY <1>1, TypeInvariant, PTL DEF Spec, CompletionSticks
=============================================================================

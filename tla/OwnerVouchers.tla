--------------------------- MODULE OwnerVouchers ---------------------------
(***************************************************************************)
(* The vouchers of the owner server and the device_onboarding rows that    *)
(* track them: import, resale and the replacement that ends TO2            *)
(* (api/handlers/vouchers.go, internal/db/db.go,                           *)
(* internal/db/state_vouchers.go).                                         *)
(*                                                                         *)
(* A voucher is its GUID.  TO2 gives a device a new GUID: ReplaceVoucher   *)
(* stores a voucher for it in place of the old one.                        *)
(*                                                                         *)
(* SQLite serialises transactions.  PostgreSQL, at its default READ        *)
(* COMMITTED, does not: a statement sees what others committed before it,  *)
(* and waits for those that hold the row it writes.  InsertVoucher and     *)
(* ReplaceVoucher write the vouchers row first, and end as if they were    *)
(* one step; RemoveVoucher reads it first, and is split where others can   *)
(* commit.  With SQLite its steps follow one another, so that a resale     *)
(* never misses its voucher.                                               *)
(***************************************************************************)
EXTENDS Integers, Sequences, FiniteSets

CONSTANTS
    Guid,        \* GUIDs of devices, before and after TO2
    Spare,       \* those that TO2 may draw for a device
    NoGuid,
    Importer,    \* goroutines serving POST /owner/vouchers
    Reseller,    \* goroutines serving POST /owner/resell/{guid}
    TO2Worker,   \* goroutines serving the message that ends TO2
    Bad,         \* a voucher block that does not decode or verify
    Other,       \* a PEM block of another type
    MaxBlocks,   \* bound on the PEM blocks of one import
    MaxRequests, \* bound on the requests served at once
    DBCanFail    \* may a statement fail?

ASSUME GuidAssumption ==
    /\ NoGuid \notin Guid
    /\ Bad \notin Guid
    /\ Other \notin Guid
    /\ Bad # Other
    /\ Spare \subseteq Guid

ASSUME BoundsAssumption == MaxBlocks \in Nat /\ MaxRequests \in Nat

ASSUME FailAssumption == DBCanFail \in BOOLEAN

Block == Guid \cup {Bad, Other}

Body == UNION {[1 .. n -> Block] : n \in 0 .. MaxBlocks}

\* What device_onboarding says of a GUID: no row, to2_completed or not.
Status == {"none", "pending", "done"}

VARIABLES
    vouchers,   \* GUIDs of the vouchers rows
    status,     \* the device_onboarding row of each GUID
    newGuid,    \* its new_guid
    untracked,  \* ghost: vouchers that need not have an onboarding row
    pc,         \* where each importer is
    body,       \* the PEM blocks it has left
    resale,     \* the voucher each reseller's transaction has read
    missed,     \* resellers whose DELETE found that voucher gone
    to2         \* the voucher each TO2 worker has loaded and will replace

storeVars == <<vouchers, status, newGuid, untracked, pc, body, resale, missed, to2>>

TypeOK ==
    /\ vouchers \subseteq Guid
    /\ status \in [Guid -> Status]
    /\ newGuid \in [Guid -> Guid \cup {NoGuid}]
    /\ untracked \subseteq Guid
    /\ pc \in [Importer -> {"idle", "fetch", "insert"}]
    /\ body \in [Importer -> Seq(Block)]
    /\ resale \in [Reseller -> Guid \cup {NoGuid}]
    /\ missed \subseteq {r \in Reseller : resale[r] # NoGuid}
    /\ to2 \in [TO2Worker -> Guid \cup {NoGuid}]

Init ==
    /\ vouchers = {}
    /\ status = [g \in Guid |-> "none"]
    /\ newGuid = [g \in Guid |-> NoGuid]
    /\ untracked = {}
    /\ pc = [i \in Importer |-> "idle"]
    /\ body = [i \in Importer |-> <<>>]
    /\ resale = [r \in Reseller |-> NoGuid]
    /\ missed = {}
    /\ to2 = [t \in TO2Worker |-> NoGuid]

\* The requests that wait for the database.
Requests == {i \in Importer : pc[i] # "idle"}
            \cup {r \in Reseller : resale[r] # NoGuid}
            \cup {t \in TO2Worker : to2[t] # NoGuid}

HasRoom == Cardinality(Requests) < MaxRequests

rows == <<vouchers, status, newGuid, untracked>>
resales == <<resale, missed>>

-----------------------------------------------------------------------------
(***************************************************************************)
(* InsertVoucherHandler: the blocks of a PEM file, one after another.      *)
(***************************************************************************)

Goto(i, label) == pc' = [pc EXCEPT ![i] = label]

\* The request is answered.  What was inserted before an error stays.
Answered(i) ==
    /\ Goto(i, "idle")
    /\ body' = [body EXCEPT ![i] = <<>>]

\* cbor.Unmarshal and VerifyVoucher.
Verifies(block) == block \in Guid

\* The block that the loop comes to next: blocks of other types are skipped,
\* and one that does not verify ends the request with 400.
NextVoucher(blocks) ==
    {k \in DOMAIN blocks : /\ Verifies(blocks[k])
                           /\ \A j \in 1 .. k - 1 : blocks[j] = Other}

\* Up to the first statement of the loop, or to the answer: at the end of the
\* file it is 200, or 400 if something other than PEM follows.
Proceed(i, blocks) ==
    \/ \E k \in NextVoucher(blocks) :
          /\ Goto(i, "fetch")
          /\ body' = [body EXCEPT ![i] = SubSeq(blocks, k, Len(blocks))]
    \/ NextVoucher(blocks) = {} /\ Answered(i)

NextBlock(i) == Proceed(i, Tail(body[i]))

ImportVouchers(i, blocks) ==
    /\ pc[i] = "idle"
    /\ HasRoom
    /\ Proceed(i, blocks)
    /\ UNCHANGED <<rows, resales, to2>>

\* FetchVoucher: a voucher with this GUID is not overwritten.  An error is
\* taken to mean that there is none.
FetchVoucher(i) ==
    /\ pc[i] = "fetch"
    /\ \/ Head(body[i]) \in vouchers /\ NextBlock(i)
       \/ Head(body[i]) \notin vouchers /\ Goto(i, "insert") /\ UNCHANGED body
       \/ DBCanFail /\ Goto(i, "insert") /\ UNCHANGED body
    /\ UNCHANGED <<rows, resales, to2>>

MutantUntracked(g) == UNCHANGED status

MutantReset(g) == status' = [status EXCEPT ![g] = "pending"]

\* FirstOrCreate of the onboarding row: one that is there is left as it is.
Track(g) == status' = [status EXCEPT ![g] = IF @ = "none" THEN "pending" ELSE @]

\* InsertVoucher, one transaction.  A duplicate GUID fails it (500).
InsertVoucher(i) ==
    /\ pc[i] = "insert"
    /\ LET g == Head(body[i]) IN
          IF g \in vouchers
             THEN Answered(i) /\ UNCHANGED rows
             ELSE /\ vouchers' = vouchers \cup {g}
                  /\ Track(g)
                  /\ untracked' = untracked \ {g}
                  /\ NextBlock(i)
                  /\ UNCHANGED newGuid
    /\ UNCHANGED <<resales, to2>>

InsertFails(i) ==
    /\ DBCanFail
    /\ pc[i] = "insert"
    /\ Answered(i)
    /\ UNCHANGED <<rows, resales, to2>>

-----------------------------------------------------------------------------
(***************************************************************************)
(* Resale and TO2.                                                         *)
(***************************************************************************)

MutantRowLeft(g) == UNCHANGED <<status, newGuid>>

\* The onboarding row goes with the voucher.
Untrack(g) ==
    /\ status' = [status EXCEPT ![g] = "none"]
    /\ newGuid' = [newGuid EXCEPT ![g] = NoGuid]

RemoveVoucher(g) ==
    /\ vouchers' = vouchers \ {g}
    /\ untracked' = untracked \ {g}
    /\ Untrack(g)

\* ResellHandler: the transaction of RemoveVoucher reads the voucher ...
ResellReads(r, g) ==
    /\ resale[r] = NoGuid
    /\ HasRoom
    /\ g \in vouchers
    /\ resale' = [resale EXCEPT ![r] = g]
    /\ UNCHANGED <<rows, pc, body, missed, to2>>

ResellEnds(r) ==
    /\ resale' = [resale EXCEPT ![r] = NoGuid]
    /\ missed' = missed \ {r}

\* ... deletes it, and then nobody else can write to its rows before the commit;
\* or another transaction has removed it, and to delete no row is no error ...
ResellDeletes(r) ==
    /\ resale[r] # NoGuid
    /\ r \notin missed
    /\ IF resale[r] \in vouchers
          THEN RemoveVoucher(resale[r]) /\ ResellEnds(r)
          ELSE missed' = missed \cup {r} /\ UNCHANGED <<rows, resale>>
    /\ UNCHANGED <<pc, body, to2>>

\* ... and deletes the onboarding row that there is by then, of a later import
\* too.
ResellUntracks(r) ==
    /\ r \in missed
    /\ Untrack(resale[r])
    /\ untracked' = untracked \cup ({resale[r]} \cap vouchers)
    /\ ResellEnds(r)
    /\ UNCHANGED <<vouchers, pc, body, to2>>

\* A resale that fails is rolled back.
ResellFails(r) ==
    /\ resale[r] # NoGuid
    /\ ResellEnds(r)
    /\ UNCHANGED <<rows, pc, body, to2>>

\* The message that ends TO2 loads the voucher of the device ...
LoadForReplacement(t, g) ==
    /\ to2[t] = NoGuid
    /\ HasRoom
    /\ g \in vouchers
    /\ to2' = [to2 EXCEPT ![t] = g]
    /\ UNCHANGED <<rows, pc, body, resales>>

\* A replacement GUID is random: nobody has used it.
Fresh(n) ==
    /\ n \in Spare
    /\ n \notin vouchers
    /\ status[n] = "none"
    /\ \A g \in Guid : newGuid[g] # n
    /\ \A t \in TO2Worker : to2[t] # n
    /\ \A r \in Reseller : resale[r] # n
    /\ \A i \in Importer : \A k \in DOMAIN body[i] : body[i][k] # n

\* Assign ... FirstOrCreate: the row of the old GUID, made if it is missing.
Complete(g, n) ==
    /\ status' = [status EXCEPT ![g] = "done"]
    /\ newGuid' = [newGuid EXCEPT ![g] = n]

\* ... and ReplaceVoucher stores the new one, in one transaction.  The old
\* voucher need not be there any more.
ReplaceVoucher(t, n) ==
    /\ to2[t] # NoGuid
    /\ Fresh(n)
    /\ vouchers' = (vouchers \ {to2[t]}) \cup {n}
    /\ untracked' = (untracked \ {to2[t]}) \cup {n}
    /\ Complete(to2[t], n)
    /\ to2' = [to2 EXCEPT ![t] = NoGuid]
    /\ UNCHANGED <<pc, body, resales>>

\* The replacement fails, or the device never ends TO2.
TO2Fails(t) ==
    /\ to2[t] # NoGuid
    /\ to2' = [to2 EXCEPT ![t] = NoGuid]
    /\ UNCHANGED <<rows, pc, body, resales>>

\* The process stops and is started again: the requests are gone.
StoreRestart ==
    /\ pc' = [i \in Importer |-> "idle"]
    /\ body' = [i \in Importer |-> <<>>]
    /\ resale' = [r \in Reseller |-> NoGuid]
    /\ missed' = {}
    /\ to2' = [t \in TO2Worker |-> NoGuid]
    /\ UNCHANGED <<rows>>

StoreNext ==
    \/ \E i \in Importer :
          \/ \E blocks \in Body : ImportVouchers(i, blocks)
          \/ FetchVoucher(i)
          \/ InsertVoucher(i)
          \/ InsertFails(i)
    \/ \E r \in Reseller :
          \/ \E g \in Guid : ResellReads(r, g)
          \/ ResellDeletes(r)
          \/ ResellUntracks(r)
          \/ ResellFails(r)
    \/ \E t \in TO2Worker :
          \/ \E g \in Guid : LoadForReplacement(t, g)
          \/ \E n \in Guid : ReplaceVoucher(t, n)
          \/ TO2Fails(t)

Next == StoreNext \/ StoreRestart

Spec == Init /\ [][Next]_storeVars

-----------------------------------------------------------------------------
(***************************************************************************)
(* Properties.                                                             *)
(***************************************************************************)

\* PendingIsOwned: a device that still needs TO2 is one the server has the
\* voucher of, whatever import, resale and TO2 overlap (InsertVoucher,
\* RemoveVoucher, ReplaceVoucher).
PendingIsOwned == \A g \in Guid : status[g] = "pending" => g \in vouchers

\* ImportedIsTracked: every imported voucher has the onboarding row that
\* ListPendingTO0Vouchers needs to see it, so that no device is forgotten.  Two
\* kinds of voucher may have none: one that TO2 left, which needs no other TO2,
\* and one imported again while a resale that had read its predecessor before
\* TO2 replaced it was under way, which SQLite rules out.
ImportedIsTracked == \A g \in vouchers \ untracked : status[g] # "none"

\* CompletionSticks: a device that completed TO2 never becomes pending by
\* another import of its old voucher, nor by any other step; its row can only be
\* deleted, by the resale of a voucher: with the voucher, or by a resale that
\* found it gone.
CompletionSticks ==
    [][\A g \in Guid :
          status[g] = "done" /\ status'[g] # "done" =>
              /\ status'[g] = "none"
              /\ \/ g \in vouchers \ vouchers'
                 \/ \E r \in missed : resale[r] = g /\ resale'[r] = NoGuid]_storeVars
=============================================================================

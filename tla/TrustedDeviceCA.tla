-------------------------- MODULE TrustedDeviceCA --------------------------
(***************************************************************************)
(* The rendezvous server's trusted device CAs                              *)
(* (internal/state/deviceca.go, internal/handlers/deviceca/handler.go).    *)
(*                                                                         *)
(* The certificates are rows of a table.  What acceptVoucher verifies a    *)
(* device chain against is NOT the table but an x509.CertPool kept in      *)
(* memory, which LoadTrustedDeviceCAs rebuilds: it reads the whole table,  *)
(* then installs the new pool under a mutex.  The handlers of the          *)
(* management API run concurrently, one goroutine per request; each of     *)
(* their database statements is atomic, and nothing else is.               *)
(***************************************************************************)
EXTENDS Naturals, Sequences, FiniteSets

CONSTANTS
    Cert,        \* the certificates a client may upload
    Handler,     \* the goroutines serving requests
    Malformed,   \* a CERTIFICATE block x509.ParseCertificate refuses
    Other,       \* a PEM block of another type
    MaxBlocks,   \* bound on the PEM blocks of one request
    BodyLimit,   \* how many of them fit in the 1MB limit
    DBCanFail    \* may a statement fail (database down, request cancelled)?

ASSUME CertAssumption ==
    /\ Malformed \notin Cert
    /\ Other \notin Cert
    /\ Malformed # Other

ASSUME BoundAssumption == MaxBlocks \in Nat /\ BodyLimit \in Nat

ASSUME DBCanFailAssumption == DBCanFail \in BOOLEAN

Block == Cert \cup {Malformed, Other}

\* The PEM files a request may carry.
Payload == UNION {[1 .. n -> Block] : n \in 0 .. MaxBlocks}

Control == {"idle", "parse", "count", "create", "delete", "find", "install"}

Reply == {"none", "200", "204", "400", "404", "413", "500"}

\* CertificateImportStats.
Stats == [detected : Nat, imported : Nat, skipped : Nat, malformed : Nat]

NoStats == [detected |-> 0, imported |-> 0, skipped |-> 0, malformed |-> 0]

VARIABLES
    table,      \* fingerprints of the device_ca_certificates rows
    pool,       \* TrustedDeviceCACertPool
    expired,    \* certificates whose NotAfter has passed
    pc,         \* where each handler is
    op,         \* the operation it serves
    body,       \* the PEM blocks it read (a delete: the fingerprint)
    pos,        \* the block it looks at
    stats,      \* its import statistics
    certs,      \* the rows its LoadTrustedDeviceCAs read
    reply,      \* the status its request was answered with, until the next one
    excused,    \* ghost: since the rows of the pool were read, was a request
                \* answered 500 or another pool installed?
    overtaken,  \* ghost: handlers with rows read before such an event
    claims      \* ghost: times each row was reported as imported since its
                \* last deletion

handlerVars == <<pc, op, body, pos, stats, certs, reply>>
ghostVars == <<excused, overtaken>>
vars == <<table, pool, expired, handlerVars, ghostVars, claims>>

TypeOK ==
    /\ table \subseteq Cert
    /\ pool \subseteq Cert
    /\ expired \subseteq Cert
    /\ pc \in [Handler -> Control]
    /\ op \in [Handler -> {"import", "delete"}]
    /\ body \in [Handler -> Seq(Block)]
    /\ pos \in [Handler -> Nat]
    /\ stats \in [Handler -> Stats]
    /\ certs \in [Handler -> SUBSET Cert]
    /\ reply \in [Handler -> Reply]
    /\ excused \in BOOLEAN
    /\ overtaken \subseteq Handler
    /\ claims \in [Cert -> Nat]

\* The server starts on whatever an earlier process left in the table, and
\* InitDB loads the pool before the first request is served.
Init ==
    /\ table \in SUBSET Cert
    /\ pool = table
    /\ expired = {}
    /\ pc = [h \in Handler |-> "idle"]
    /\ op = [h \in Handler |-> "import"]
    /\ body = [h \in Handler |-> <<>>]
    /\ pos = [h \in Handler |-> 1]
    /\ stats = [h \in Handler |-> NoStats]
    /\ certs = [h \in Handler |-> {}]
    /\ reply = [h \in Handler |-> "none"]
    /\ excused = FALSE
    /\ overtaken = {}
    /\ claims = [c \in Cert |-> 0]

-----------------------------------------------------------------------------
(***************************************************************************)
(* POST: import the certificates of a PEM file.                            *)
(***************************************************************************)

Goto(h, label) == pc' = [pc EXCEPT ![h] = label]

\* A request for which the handler has something to do.
Begin(h, label, operation, content) ==
    /\ Goto(h, label)
    /\ op' = [op EXCEPT ![h] = operation]
    /\ body' = [body EXCEPT ![h] = content]
    /\ reply' = [reply EXCEPT ![h] = "none"]
    /\ UNCHANGED <<pos, stats, certs>>

\* The handler returns: its request is answered with this status, its locals
\* are gone.
Answer(h, status) ==
    /\ Goto(h, "idle")
    /\ op' = [op EXCEPT ![h] = "import"]
    /\ body' = [body EXCEPT ![h] = <<>>]
    /\ pos' = [pos EXCEPT ![h] = 1]
    /\ stats' = [stats EXCEPT ![h] = NoStats]
    /\ certs' = [certs EXCEPT ![h] = {}]
    /\ reply' = [reply EXCEPT ![h] = status]

Count(h, fields) ==
    stats' = [stats EXCEPT ![h] =
                 [f \in DOMAIN NoStats |-> @[f] + IF f \in fields THEN 1 ELSE 0]]

\* remaining = rest
Advance(h) == pos' = [pos EXCEPT ![h] = @ + 1]

\* The block is counted and the loop continues with the next one.
SkipBlock(h, fields) == Count(h, fields) /\ Advance(h)

\* io.LimitReader: what is past the limit is as if it had never been sent (a
\* block cut in two is not a block).
LimitReader(blocks, limit) ==
    SubSeq(blocks, 1, IF Len(blocks) <= limit THEN Len(blocks) ELSE limit)

\* The body cannot be read.
RejectBody(h) ==
    /\ pc[h] = "idle"
    /\ Answer(h, "400")
    /\ UNCHANGED <<table, pool, expired, ghostVars, claims>>

\* The handler reads at most one byte more than its limit and refuses a body
\* that long; bodySizeMiddleware has already cut it at that same limit.
ImportTrustedDeviceCACerts(h, payload) ==
    LET pemData == LimitReader(LimitReader(payload, BodyLimit), BodyLimit + 1) IN
    /\ pc[h] = "idle"
    /\ IF Len(pemData) > BodyLimit
          THEN Answer(h, "413")
          ELSE Begin(h, "parse", "import", pemData)
    /\ UNCHANGED <<table, pool, expired, ghostVars, claims>>

MutantNoRest(h) == UNCHANGED <<pos, stats>>

\* A block of another type is passed over, uncounted.
SkipOther(h) == SkipBlock(h, {})

MutantUnparsed(block) == block # Other

Parses(block) == block \in Cert

\* The head of the import loop: everything up to the first statement.
ParseBlock(h) ==
    /\ pc[h] = "parse"
    /\ pos[h] <= Len(body[h])
    /\ LET block == body[h][pos[h]] IN
          \/ block = Other /\ SkipOther(h) /\ UNCHANGED pc
          \/ block = Malformed /\ SkipBlock(h, {"malformed"}) /\ UNCHANGED pc
          \/ block \in expired /\ SkipBlock(h, {"detected", "skipped"}) /\ UNCHANGED pc
          \/ /\ Parses(block)
             /\ block \notin expired
             /\ Count(h, {"detected"})
             /\ Goto(h, "count")
             /\ UNCHANGED pos
    /\ UNCHANGED <<table, pool, expired, op, body, certs, reply, ghostVars, claims>>

\* SELECT count(*): the certificate already exists, or is to be created.
CountExisting(h) ==
    /\ pc[h] = "count"
    /\ IF body[h][pos[h]] \in table
          THEN SkipBlock(h, {"skipped"}) /\ Goto(h, "parse")
          ELSE Goto(h, "create") /\ UNCHANGED <<pos, stats>>
    /\ UNCHANGED <<table, pool, expired, op, body, certs, reply, ghostVars, claims>>

Inserted(h, c) ==
    /\ table' = table \cup {c}
    /\ claims' = [claims EXCEPT ![c] = @ + 1]
    /\ SkipBlock(h, {"imported"})

MutantUpsert(h, c) == Inserted(h, c)

MutantUncounted(h, c) ==
    IF c \in table
       THEN Advance(h) /\ UNCHANGED <<table, claims, stats>>
       ELSE Inserted(h, c)

\* INSERT: a row another handler created since the count is a duplicate key
\* (isDuplicateError), which counts as skipped.
Create(h, c) ==
    IF c \in table
       THEN SkipBlock(h, {"skipped"}) /\ UNCHANGED <<table, claims>>
       ELSE Inserted(h, c)

CreateRow(h) ==
    /\ pc[h] = "create"
    /\ Create(h, body[h][pos[h]])
    /\ Goto(h, "parse")
    /\ UNCHANGED <<pool, expired, op, body, certs, reply, ghostVars>>

MutantReloadIfSeveral(h) == stats[h].imported > 1

NeedsReload(h) == stats[h].imported > 0

\* No block is left: the pool is reloaded if a row was created.
ImportReturns(h) ==
    /\ pc[h] = "parse"
    /\ pos[h] > Len(body[h])
    /\ IF NeedsReload(h)
          THEN Goto(h, "find") /\ UNCHANGED <<op, body, pos, stats, certs, reply>>
          ELSE Answer(h, "200")
    /\ UNCHANGED <<table, pool, expired, ghostVars, claims>>

-----------------------------------------------------------------------------
(***************************************************************************)
(* DELETE: remove one certificate.                                         *)
(***************************************************************************)

DeleteTrustedDeviceCACert(h, c) ==
    /\ pc[h] = "idle"
    /\ Begin(h, "delete", "delete", <<c>>)
    /\ UNCHANGED <<table, pool, expired, ghostVars, claims>>

DeleteRow(h) ==
    /\ pc[h] = "delete"
    /\ LET c == body[h][1] IN
          IF c \in table
             THEN /\ table' = table \ {c}
                  /\ claims' = [claims EXCEPT ![c] = 0]
                  /\ Goto(h, "find")
                  /\ UNCHANGED <<op, body, pos, stats, certs, reply>>
             ELSE /\ Answer(h, "404")
                  /\ UNCHANGED <<table, claims>>
    /\ UNCHANGED <<pool, expired, ghostVars>>

-----------------------------------------------------------------------------
(***************************************************************************)
(* LoadTrustedDeviceCAs, and what happens around the handlers.             *)
(***************************************************************************)

\* SELECT of every row, outside the mutex.
FindRows(h) ==
    /\ pc[h] = "find"
    /\ certs' = [certs EXCEPT ![h] = table]
    /\ Goto(h, "install")
    /\ UNCHANGED <<table, pool, expired, op, body, pos, stats, reply, ghostVars, claims>>

Installing == {h \in Handler : pc[h] = "install"}

MutantAdds(h) == pool \cup certs[h]

\* x509.NewCertPool with every row that was read.  Expired certificates are
\* part of it: chain verification is what refuses them.
NewPool(h) == certs[h]

\* The pool built from the rows read is installed, under the mutex.
InstallPool(h) ==
    /\ pc[h] = "install"
    /\ pool' = NewPool(h)
    /\ excused' = (h \in overtaken)
    /\ overtaken' = Installing \ {h}
    /\ Answer(h, IF op[h] = "import" THEN "200" ELSE "204")
    /\ UNCHANGED <<table, expired, claims>>

\* A statement fails: the handler answers 500 at once and reloads nothing.
StatementFails(h) ==
    /\ DBCanFail
    /\ pc[h] \in {"count", "create", "delete", "find"}
    /\ Answer(h, "500")
    /\ excused' = TRUE
    /\ overtaken' = Installing
    /\ UNCHANGED <<table, pool, expired, claims>>

\* Time passes a NotAfter.
Expire(c) ==
    /\ c \notin expired
    /\ expired' = expired \cup {c}
    /\ UNCHANGED <<table, pool, handlerVars, ghostVars, claims>>

\* The process stops, whatever its handlers were doing, and is started again.
Restart ==
    /\ pool' = table
    /\ pc' = [h \in Handler |-> "idle"]
    /\ op' = [h \in Handler |-> "import"]
    /\ body' = [h \in Handler |-> <<>>]
    /\ pos' = [h \in Handler |-> 1]
    /\ stats' = [h \in Handler |-> NoStats]
    /\ certs' = [h \in Handler |-> {}]
    /\ reply' = [h \in Handler |-> "none"]
    /\ excused' = FALSE
    /\ overtaken' = {}
    /\ UNCHANGED <<table, expired, claims>>

HandlerStep(h) ==
    \/ ParseBlock(h)
    \/ CountExisting(h)
    \/ CreateRow(h)
    \/ ImportReturns(h)
    \/ DeleteRow(h)
    \/ FindRows(h)
    \/ InstallPool(h)

\* What happens while the server runs.
APINext ==
    \/ \E h \in Handler :
          \/ RejectBody(h)
          \/ \E payload \in Payload : ImportTrustedDeviceCACerts(h, payload)
          \/ \E c \in Cert : DeleteTrustedDeviceCACert(h, c)
          \/ HandlerStep(h)
          \/ StatementFails(h)
    \/ \E c \in Cert : Expire(c)

Next == APINext \/ Restart

Spec == Init /\ [][Next]_vars

\* A goroutine that can run eventually does.
FairSpec == Spec /\ \A h \in Handler : WF_vars(HandlerStep(h))
-----------------------------------------------------------------------------
(***************************************************************************)
(* Properties.                                                             *)
(***************************************************************************)

Quiescent == \A h \in Handler : pc[h] = "idle"

\* EachRowClaimedOnce: however many imports of one certificate race between
\* the count and the insert, at most one of them reports it as imported until
\* it is deleted again, and what was reported as imported is a row
\* (ImportDeviceCACertificates, isDuplicateError).
EachRowClaimedOnce ==
    \A c \in Cert : claims[c] = 0 \/ (claims[c] = 1 /\ c \in table)

\* The CERTIFICATE blocks that the import loop is past.
Passed(h) == {i \in 1 .. pos[h] - 1 : body[h][i] # Other}

\* StatsAddUp: whenever the import loop is between two blocks, and so in the
\* answer, every CERTIFICATE block passed is counted once as malformed,
\* imported or skipped, although the row may come, go or expire between the
\* count and the insert.
StatsAddUp ==
    \A h \in Handler :
        op[h] = "import" /\ pc[h] \in {"parse", "find", "install"} =>
            /\ stats[h].detected = stats[h].imported + stats[h].skipped
            /\ stats[h].detected + stats[h].malformed = Cardinality(Passed(h))

\* SettledPoolIsTable: when no request is being served, the pool that decides
\* which devices are trusted is the table, for any number of overlapping
\* imports and deletions, unless a statement failed or another reload was
\* installed since the rows of the pool were read.  In particular a row that
\* is created or deleted while a reload is under way is not lost
\* (LoadTrustedDeviceCAs after every change of the table).
SettledPoolIsTable ==
    Quiescent /\ ~excused => pool = table

\* PoolIsTable: when no request is being served the pool is the table, as
\* LoadTrustedDeviceCAs "should be called on server startup and whenever
\* device CA certificates are added or removed".  Two handlers that reload
\* concurrently break it.
PoolIsTable == Quiescent => pool = table

\* RequestsAnswered: every request is answered (the import loop gets past
\* every kind of block; no handler waits for another).
RequestsAnswered ==
    \A h \in Handler : pc[h] # "idle" ~> pc[h] = "idle"
=============================================================================

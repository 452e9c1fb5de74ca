----------------------------- MODULE Rendezvous -----------------------------
(***************************************************************************)
(* The rendezvous server: the sessions of the TO0 and TO1 protocols, the   *)
(* rendezvous blobs owners register for their devices, and the background  *)
(* cleanup of both (internal/state/token.go, to0.go, to1.go, rvblob.go,    *)
(* internal/handlers/rendezvous/handler.go).                               *)
(*                                                                         *)
(* A worker is a goroutine serving one protocol message.  Its database     *)
(* statements are atomic and interleave with those of the other workers    *)
(* and of the cleanup goroutine.  The order in which the go-fdo library    *)
(* calls the functions of this repository is external.                     *)
(*                                                                         *)
(* Time is relative: a session row keeps its age and a blob the time it    *)
(* has left, which Tick moves.  A blob with 0 left expires now, and is     *)
(* still served: time.Now().After(exp) is false.                           *)
(***************************************************************************)
EXTENDS Integers, FiniteSets

CONSTANTS
    Worker,          \* goroutines serving protocol messages
    SID,             \* session identifiers (32 random bytes each)
    Guid,            \* devices
    NoSID, NoGuid,
    MinWait,         \* to0_min_wait
    MaxWait,         \* to0_max_wait
    MaxRequest,      \* bound: the longest wait an owner asks for
    SessionMaxAge,   \* session_timeout, 0 disables the cleanup of sessions
    DBCanFail,       \* may a statement fail?
    FKEnforced       \* do the pooled connections enforce foreign keys?  {TRUE}:
                     \* all do; {TRUE, FALSE}: some do, some do not

ASSUME IdAssumption == NoSID \notin SID /\ NoGuid \notin Guid

\* RendezvousConfig.validate: the minimum is at most the maximum.
ASSUME WaitAssumption ==
    /\ MinWait \in Nat
    /\ MaxWait \in Nat
    /\ MinWait <= MaxWait
    /\ MaxRequest \in Nat

ASSUME AgeAssumption == SessionMaxAge \in Nat

ASSUME ModeAssumption ==
    /\ DBCanFail \in BOOLEAN
    /\ FKEnforced \in SUBSET BOOLEAN
    /\ FKEnforced # {}

Expired == -1

Control == {"idle", "checkSession", "saveNonce", "readNonce", "accept", "saveBlob",
            "readBlob", "invalidate"}

Message == {"TO0.Hello", "TO0.OwnerSign", "TO1.HelloRV", "TO1.ProveToRV"}

Request == [pc : Control, msg : Message, tok : SID \cup {NoSID},
            guid : Guid \cup {NoGuid}, wait : Int]

Idle == [pc |-> "idle", msg |-> "TO0.Hello", tok |-> NoSID, guid |-> NoGuid, wait |-> 0]

VARIABLES
    sessions,   \* the rows of sessions
    age,        \* how long ago each was created (saturated past the maximum)
    to0, to1,   \* the rows of to0_sessions and to1_sessions
    blobs,      \* the rows of rv_blobs
    left,       \* the time until each blob expires
    trusted,    \* devices whose chain the trusted CA pool verifies
    untrusted,  \* ghost: how long each of the others has been one of them
    req,        \* what each worker is doing
    held,       \* tokens that clients hold
    cleaner     \* where the cleanup goroutine is

vars == <<sessions, age, to0, to1, blobs, left, trusted, untrusted, req, held, cleaner>>

TypeOK ==
    /\ sessions \subseteq SID
    /\ age \in [SID -> 0 .. SessionMaxAge + 1]
    /\ to0 \subseteq SID
    /\ to1 \subseteq SID
    /\ blobs \subseteq Guid
    /\ left \in [Guid -> Expired .. MaxWait]
    /\ trusted \subseteq Guid
    /\ untrusted \in [Guid -> 0 .. MaxWait + 1]
    /\ req \in [Worker -> Request]
    /\ held \subseteq SID
    /\ cleaner \in {"timer", "blobs", "sessions"}

Init ==
    /\ sessions = {}
    /\ age = [s \in SID |-> 0]
    /\ to0 = {}
    /\ to1 = {}
    /\ blobs = {}
    /\ left = [g \in Guid |-> Expired]
    /\ trusted \in SUBSET Guid
    /\ untrusted = [g \in Guid |-> 0]
    /\ req = [w \in Worker |-> Idle]
    /\ held = {}
    /\ cleaner = "timer"

tables == <<sessions, age, to0, to1, blobs, left>>
environment == <<trusted, untrusted>>

-----------------------------------------------------------------------------
(***************************************************************************)
(* Rows and the statements on them.                                        *)
(***************************************************************************)

\* A random identifier is one that nobody has used.
Fresh(s) ==
    /\ s \notin sessions \cup to0 \cup to1 \cup held
    /\ \A w \in Worker : req[w].tok # s

MutantRowsOnly(S) ==
    /\ UNCHANGED <<sessions, age>>
    /\ to0' = to0 \ S
    /\ to1' = to1 \ S

\* DELETE FROM sessions: a connection that enforces foreign keys removes the
\* rows that refer to the session with it (OnDelete:CASCADE).
DeleteSessions(S) ==
    \E enforced \in FKEnforced :
        /\ sessions' = sessions \ S
        /\ age' = [s \in SID |-> IF s \in S THEN 0 ELSE age[s]]
        /\ to0' = IF enforced THEN to0 \ S ELSE to0
        /\ to1' = IF enforced THEN to1 \ S ELSE to1

Goto(w, label) == req' = [req EXCEPT ![w].pc = label]

\* The message is answered: with a result, or with an error.
Done(w) == req' = [req EXCEPT ![w] = Idle]

-----------------------------------------------------------------------------
(***************************************************************************)
(* The messages.                                                           *)
(***************************************************************************)

\* The first message of a protocol: NewToken creates the session.
NewToken(w, msg, s) ==
    /\ req[w].pc = "idle"
    /\ msg \in {"TO0.Hello", "TO1.HelloRV"}
    /\ Fresh(s)
    /\ sessions' = sessions \cup {s}
    /\ req' = [req EXCEPT ![w] =
          [pc |-> "checkSession", msg |-> msg, tok |-> s, guid |-> NoGuid, wait |-> 0]]
    /\ UNCHANGED <<age, to0, to1, blobs, left, environment, held, cleaner>>

\* A later message comes with a token: any that a client holds, in any state.
Receive(w, msg, s, g, wait) ==
    /\ req[w].pc = "idle"
    /\ msg \in {"TO0.OwnerSign", "TO1.ProveToRV"}
    /\ msg = "TO1.ProveToRV" => wait = 0
    /\ s \in held
    /\ req' = [req EXCEPT ![w] =
          [pc |-> "checkSession", msg |-> msg, tok |-> s, guid |-> g, wait |-> wait]]
    /\ UNCHANGED <<tables, environment, held, cleaner>>

\* getSessionID, which every function of TO0SessionState and TO1SessionState
\* begins with: the session must exist when it is called.
GetSessionID(w) ==
    /\ req[w].pc = "checkSession"
    /\ IF req[w].tok \notin sessions
          THEN Done(w)
          ELSE Goto(w, IF req[w].msg \in {"TO0.Hello", "TO1.HelloRV"}
                       THEN "saveNonce" ELSE "readNonce")
    /\ UNCHANGED <<tables, environment, held, cleaner>>

MutantNoReference(s, enforced) == TRUE

\* INSERT of a row that refers to a session: refused when that is gone, by a
\* connection that enforces foreign keys.
ReferenceHolds(s, enforced) == enforced => s \in sessions

\* The Save of SetTO0SignNonce and of SetTO1ProofNonce.
SaveNonce(w) ==
    /\ req[w].pc = "saveNonce"
    /\ \E enforced \in FKEnforced :
          IF ReferenceHolds(req[w].tok, enforced)
             THEN /\ to0' = IF req[w].msg = "TO0.Hello" THEN to0 \cup {req[w].tok} ELSE to0
                  /\ to1' = IF req[w].msg = "TO1.HelloRV" THEN to1 \cup {req[w].tok} ELSE to1
                  /\ held' = held \cup {req[w].tok}
             ELSE UNCHANGED <<to0, to1, held>>
    /\ Done(w)
    /\ UNCHANGED <<sessions, age, blobs, left, environment, cleaner>>

\* The query of TO0SignNonce and of TO1ProofNonce.  The library then compares
\* the nonce and verifies the signature, which may fail.
ReadNonce(w) ==
    /\ req[w].pc = "readNonce"
    /\ \/ /\ req[w].tok \in (IF req[w].msg = "TO0.OwnerSign" THEN to0 ELSE to1)
          /\ Goto(w, IF req[w].msg = "TO0.OwnerSign" THEN "accept" ELSE "readBlob")
       \/ Done(w)
    /\ UNCHANGED <<tables, environment, held, cleaner>>

MutantUncapped(requested) == requested

\* The wait an owner is granted, if it is not refused.
GrantedWait(requested) == IF requested > MaxWait THEN MaxWait ELSE requested

\* acceptVoucher: the device chain is verified against the pool of this
\* moment, and the expiry counts from it.
AcceptVoucher(w) ==
    /\ req[w].pc = "accept"
    /\ IF \/ req[w].guid \notin trusted
          \/ MinWait > 0 /\ req[w].wait < MinWait
          THEN Done(w)
          ELSE req' = [req EXCEPT ![w] =
                          [@ EXCEPT !.pc = "saveBlob", !.wait = GrantedWait(req[w].wait)]]
    /\ UNCHANGED <<tables, environment, held, cleaner>>

\* SetRVBlob: insert the blob of the device, or replace the one it has.
SetRVBlob(w) ==
    /\ req[w].pc = "saveBlob"
    /\ blobs' = blobs \cup {req[w].guid}
    /\ left' = [left EXCEPT ![req[w].guid] = req[w].wait]
    /\ Goto(w, "invalidate")
    /\ UNCHANGED <<sessions, age, to0, to1, environment, held, cleaner>>

MutantNoExpiry(g) == g \in blobs

\* What RVBlob returns: a blob that has not expired.
Served(g) == g \in blobs /\ left[g] >= 0

\* RVBlob: the device is told where its owner is, or that nobody knows.
ReadRVBlob(w) ==
    /\ req[w].pc = "readBlob"
    /\ IF Served(req[w].guid) THEN Goto(w, "invalidate") ELSE Done(w)
    /\ UNCHANGED <<tables, environment, held, cleaner>>

\* InvalidateToken, after the last message of a protocol.
InvalidateToken(w) ==
    /\ req[w].pc = "invalidate"
    /\ DeleteSessions({req[w].tok})
    /\ Done(w)
    /\ UNCHANGED <<blobs, left, environment, held, cleaner>>

\* A statement fails, or the client disconnects.
StatementFails(w) ==
    /\ DBCanFail
    /\ req[w].pc \notin {"idle", "accept"}
    /\ Done(w)
    /\ UNCHANGED <<tables, environment, held, cleaner>>

\* A client gives up a handshake.
ClientForgets(s) ==
    /\ s \in held
    /\ held' = held \ {s}
    /\ UNCHANGED <<tables, environment, req, cleaner>>

-----------------------------------------------------------------------------
(***************************************************************************)
(* The cleanup goroutine: StartPeriodicCleanup and runCleanup.             *)
(***************************************************************************)

CleanupFires ==
    /\ cleaner = "timer"
    /\ cleaner' = "blobs"
    /\ UNCHANGED <<tables, environment, req, held>>

MutantEarlyBlob(g) == left[g] <= 0

\* exp < now
BlobIsOver(g) == left[g] < 0

CleanupExpiredBlobs ==
    /\ cleaner = "blobs"
    /\ blobs' = {g \in blobs : ~BlobIsOver(g)}
    /\ left' = [g \in Guid |-> IF g \in blobs' THEN left[g] ELSE Expired]
    /\ cleaner' = "sessions"
    /\ UNCHANGED <<sessions, age, to0, to1, environment, req, held>>

\* created_at < now - maxAge
SessionIsOver(s) == age[s] > SessionMaxAge

CleanupExpiredSessions ==
    /\ cleaner = "sessions"
    /\ IF SessionMaxAge > 0
          THEN DeleteSessions({s \in sessions : SessionIsOver(s)})
          ELSE UNCHANGED <<sessions, age, to0, to1>>
    /\ cleaner' = "timer"
    /\ UNCHANGED <<blobs, left, environment, req, held>>

MutantGivesUp == "stopped"

\* A cleanup that fails is logged; the next one, then the timer, still follow.
AfterFailedCleanup == IF cleaner = "blobs" THEN "sessions" ELSE "timer"

CleanupFails ==
    /\ DBCanFail
    /\ cleaner # "timer"
    /\ cleaner' = AfterFailedCleanup
    /\ UNCHANGED <<tables, environment, req, held>>

-----------------------------------------------------------------------------
(***************************************************************************)
(* The world around the server.                                            *)
(***************************************************************************)

\* A pool is installed, and these are the devices it verifies.
LoadTrusted(T) ==
    /\ trusted' = T
    /\ untrusted' = [g \in Guid |-> IF g \in T THEN 0 ELSE untrusted[g]]

\* The management API changes the trusted device CAs, or one of them expires
\* (RendezvousServer has the steps behind this one).
ChangeTrusted(T) ==
    /\ T # trusted
    /\ LoadTrusted(T)
    /\ UNCHANGED <<tables, req, held, cleaner>>

OneLess(n) == IF n > Expired THEN n - 1 ELSE Expired

OneMore(n, bound) == IF n < bound THEN n + 1 ELSE bound

\* Time passes, also for an expiry that was computed and is not yet saved.
Tick ==
    /\ age' = [s \in SID |-> IF s \in sessions THEN OneMore(age[s], SessionMaxAge + 1) ELSE age[s]]
    /\ left' = [g \in Guid |-> OneLess(left[g])]
    /\ untrusted' = [g \in Guid |-> IF g \in trusted THEN 0 ELSE OneMore(untrusted[g], MaxWait + 1)]
    /\ req' = [w \in Worker |-> IF req[w].pc = "saveBlob"
                                   THEN [req[w] EXCEPT !.wait = OneLess(@)]
                                   ELSE req[w]]
    /\ UNCHANGED <<sessions, to0, to1, blobs, trusted, held, cleaner>>

\* The process stops at any point and is started again on the same database,
\* from which InitDB loads the trusted CAs.
Restart(T) ==
    /\ LoadTrusted(T)
    /\ req' = [w \in Worker |-> Idle]
    /\ cleaner' = "timer"
    /\ UNCHANGED <<tables, held>>

WorkerStep(w) ==
    \/ GetSessionID(w)
    \/ SaveNonce(w)
    \/ ReadNonce(w)
    \/ AcceptVoucher(w)
    \/ SetRVBlob(w)
    \/ ReadRVBlob(w)
    \/ InvalidateToken(w)

\* What the server does while it runs and its trusted CAs stay.
ServerNext ==
    \/ \E w \in Worker :
          \/ \E msg \in Message, s \in SID : NewToken(w, msg, s)
          \/ \E msg \in Message, s \in SID, g \in Guid, wait \in 0 .. MaxRequest :
                Receive(w, msg, s, g, wait)
          \/ WorkerStep(w)
          \/ StatementFails(w)
    \/ \E s \in SID : ClientForgets(s)
    \/ CleanupFires
    \/ CleanupExpiredBlobs
    \/ CleanupExpiredSessions
    \/ CleanupFails
    \/ Tick

AnyRestart == \E T \in SUBSET Guid : Restart(T)

Next ==
    \/ ServerNext
    \/ \E T \in SUBSET Guid : ChangeTrusted(T)
    \/ AnyRestart

Spec == Init /\ [][Next]_vars

\* Time passes and the timer fires: the server is up for a cleanup interval
\* now and then.  No statement of a cleanup fails, and no restart interrupts
\* it, every time it is tried.
FairSpec ==
    /\ Spec
    /\ WF_vars(CleanupFires)
    /\ WF_vars(Tick)
    /\ SF_vars(CleanupExpiredBlobs)
    /\ SF_vars(CleanupExpiredSessions)

-----------------------------------------------------------------------------
(***************************************************************************)
(* Properties.                                                             *)
(***************************************************************************)

\* The lease of a device is what its row says, if it has one; a registration
\* is accepted and not in effect while a worker is about to store it.
Leases == INSTANCE RendezvousLease WITH
    lease <- [g \in Guid |-> IF g \in blobs THEN left[g] ELSE Expired],
    accepted <- {<<req[w].guid, req[w].wait>> : w \in {v \in Worker : req[v].pc = "saveBlob"}}

\* ImplementsLeases: the server implements RendezvousLease: whatever requests,
\* cleanups, failures, restarts and changes of the trusted CAs overlap, what is
\* served for a device only ever changes by time or by a registration of that
\* device that was accepted before, while its CA was trusted, for a time
\* between the limits; every other step leaves it as it is, and no registration
\* takes effect with time it has already used up (acceptVoucher, SetRVBlob,
\* CleanupExpiredBlobs).
ImplementsLeases == Leases!Spec

\* NoOrphans: no to0_sessions or to1_sessions row is left without its session
\* ("This ensures CASCADE DELETE works properly to prevent orphaned
\* sessions"), although a session can be cleaned up between the check of
\* getSessionID and the Save that relies on it.
NoOrphans == to0 \cup to1 \subseteq sessions

\* DistrustIsBounded: once the CA of a device is no longer trusted, the server
\* stops sending that device to the owner registered for it after at most
\* to0_max_wait, even when the registration was being processed or repeated
\* while the CA was removed (acceptVoucher, SetRVBlob, RVBlob).
DistrustIsBounded ==
    \A g \in Guid : untrusted[g] > MaxWait => ~Served(g)

\* CleanupKeepsServed: a cleanup removes no blob that RVBlob would still
\* return (CleanupExpiredBlobs, RVBlob).
CleanupKeepsServed ==
    [][cleaner' # cleaner /\ req' = req => \A g \in Guid : Served(g) => Served(g)']_vars

\* HandshakesAreWhole: as long as the session of a token that a client holds
\* exists, so does the nonce that the client will be asked for, of one of the
\* two protocols: whatever is cleaned up, fails or restarts, a handshake can be
\* ended or is gone, and the token of one protocol opens no session of the
\* other (NewToken, SetTO0SignNonce, SetTO1ProofNonce, CleanupExpiredSessions).
HandshakesAreWhole ==
    \A s \in held \cap sessions : (s \in to0) # (s \in to1)

\* ExpiredBlobsGo: a blob that has expired is eventually removed or renewed,
\* although cleanups fail and the server restarts.
ExpiredBlobsGo ==
    \A g \in Guid : g \in blobs /\ ~Served(g) ~> g \notin blobs \/ Served(g)

\* AbandonedSessionsGo: a session that nobody ends is eventually removed, with
\* its rows in to0_sessions and to1_sessions.
AbandonedSessionsGo ==
    \A s \in SID : s \in sessions \cup to0 \cup to1 ~> s \notin sessions \cup to0 \cup to1

=============================================================================

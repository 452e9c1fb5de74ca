---------------------------- MODULE TO0Scheduler ----------------------------
(***************************************************************************)
(* The owner's background TO0 scheduler (cmd/owner.go, internal/to0/to0.go)*)
(* over the vouchers of OwnerVouchers: one goroutine that passes over the  *)
(* pending vouchers, registers each that is due with its rendezvous server *)
(* and waits for the ticker.  What it registers are the addresses of       *)
(* the owner_info row, which the management API may change at any time     *)
(* (api/handlers/ownerinfo.go, internal/db/db.go).                         *)
(*                                                                         *)
(* Time is relative and its unit is the ticker's 10 seconds.  nextTry is   *)
(* the time until a device is due (0: due, as is one without an entry),    *)
(* during a pass counted from the time that the pass goes by, which was    *)
(* read when it began; blob is the time a registration has left at the     *)
(* rendezvous server.                                                      *)
(***************************************************************************)
EXTENDS OwnerVouchers

CONSTANTS
    DefaultTTL,    \* defaultTo0TTL, which TO0 asks for
    RetryDelay,    \* the delay after a failure
    Bypass,        \* devices whose directives may all be RV bypass, or may not
    Unreachable,   \* devices whose rendezvous servers always refuse
    Silent         \* devices whose rendezvous server never answers

ASSUME TimeAssumption ==
    /\ DefaultTTL \in Nat \ {0}
    /\ RetryDelay \in 0 .. DefaultTTL

ASSUME ReachAssumption == Bypass \cup Unreachable \cup Silent \subseteq Guid

VARIABLES
    ownerInfo,  \* is there an owner_info row?
    stale,      \* devices registered with addresses that are not in it now
    old,        \* does the attempt under way have such addresses?
    sched,      \* where the scheduler is
    todo,       \* the vouchers of the pass it has not come to
    cur,        \* the voucher it works on
    elapsed,    \* time since the pass read it (now)
    nextTry,    \* the backoff map
    blob        \* what the rendezvous servers hold

schedVars == <<ownerInfo, stale, old, sched, todo, cur, elapsed, nextTry, blob>>
vars == <<storeVars, schedVars>>

SchedTypeOK ==
    /\ TypeOK
    /\ ownerInfo \in BOOLEAN
    /\ stale \subseteq Guid
    /\ old \in BOOLEAN
    /\ sched \in {"list", "loop", "load", "send", "wait"}
    /\ todo \subseteq Guid
    /\ cur \in Guid \cup {NoGuid}
    /\ elapsed \in 0 .. DefaultTTL
    /\ nextTry \in [Guid -> 0 .. DefaultTTL]
    /\ blob \in [Guid -> 0 .. DefaultTTL]

SchedInit ==
    /\ Init
    /\ ownerInfo = FALSE
    /\ stale = {}
    /\ old = FALSE
    /\ sched = "list"
    /\ todo = {}
    /\ cur = NoGuid
    /\ elapsed = 0
    /\ nextTry = [g \in Guid |-> 0]
    /\ blob = [g \in Guid |-> 0]

-----------------------------------------------------------------------------
(***************************************************************************)
(* A pass.                                                                 *)
(***************************************************************************)

\* ListPendingTO0Vouchers: vouchers joined with a row that is not completed.
Pending == {g \in vouchers : status[g] = "pending"}

\* The list is read, then the time that the whole pass goes by.
ListPending ==
    /\ sched = "list"
    /\ sched' = "loop"
    /\ todo' = Pending
    /\ elapsed' = 0
    /\ UNCHANGED <<stale, old, cur, nextTry, blob>>

ListFails ==
    /\ DBCanFail
    /\ sched = "list"
    /\ sched' = "wait"
    /\ UNCHANGED <<stale, old, todo, cur, elapsed, nextTry, blob>>

\* A missing row is not completed.
IsTO2Completed(g) == status[g] = "done"

\* One voucher of the list, in no particular order: is it completed by now,
\* then the backoff.
CheckVoucher(g) ==
    /\ sched = "loop"
    /\ g \in todo
    /\ todo' = todo \ {g}
    /\ nextTry' = [nextTry EXCEPT ![g] = IF IsTO2Completed(g) THEN 0 ELSE @]
    /\ IF ~IsTO2Completed(g) /\ nextTry[g] = 0
          THEN sched' = "load" /\ cur' = g
          ELSE UNCHANGED <<sched, cur>>
    /\ UNCHANGED <<stale, old, elapsed, blob>>

CheckFails(g) ==
    /\ DBCanFail
    /\ sched = "loop"
    /\ g \in todo
    /\ todo' = todo \ {g}
    /\ UNCHANGED <<stale, old, sched, cur, elapsed, nextTry, blob>>

MutantOverdue(delay) == delay - elapsed

\* What is left of a delay that counts from the time the pass read.
FromNow(delay) == IF delay > elapsed THEN delay - elapsed ELSE 0

PassEnds ==
    /\ sched = "loop"
    /\ todo = {}
    /\ sched' = "wait"
    /\ elapsed' = 0
    /\ nextTry' = [g \in Guid |-> FromNow(nextTry[g])]
    /\ UNCHANGED <<stale, old, todo, cur, blob>>

MutantStopsPass == "wait"

\* continue, with the next voucher of the list
AfterFailure == "loop"

\* RegisterRvBlob failed: the device waits, the others are still tried.
AttemptFails ==
    /\ nextTry' = [nextTry EXCEPT ![cur] = RetryDelay]
    /\ sched' = AfterFailure
    /\ cur' = NoGuid
    /\ old' = FALSE
    /\ UNCHANGED <<stale, todo, elapsed, blob>>

MutantIgnoresGrant(granted) == DefaultTTL

\* A refresh of 0 becomes the default, whether no registration was needed or
\* no time was granted.
Refresh(granted) == IF granted = 0 THEN DefaultTTL ELSE granted

AttemptSucceeds(granted) ==
    /\ nextTry' = [nextTry EXCEPT ![cur] = Refresh(granted)]
    /\ sched' = "loop"
    /\ cur' = NoGuid
    /\ old' = FALSE
    /\ UNCHANGED <<todo, elapsed>>

\* The TO0 client loads the voucher by GUID, not from the list of the pass.
VoucherLoads(g) == g \in vouchers

\* A statement fails during an attempt.
AttemptCannotRead ==
    /\ DBCanFail
    /\ sched = "load"
    /\ AttemptFails

\* The start of RegisterRvBlob: without owner info the attempt fails, a device
\* with nothing but bypass directives needs no registration, and for another
\* the TO0 client loads the voucher.  What the directives of a device in Bypass
\* are is left open at each attempt.
LoadVoucher ==
    /\ sched = "load"
    /\ \/ ~ownerInfo /\ AttemptFails
       \/ /\ ownerInfo
          /\ cur \in Bypass
          /\ AttemptSucceeds(0)
          /\ UNCHANGED <<blob, stale>>
       \/ /\ ownerInfo
          /\ ~VoucherLoads(cur)
          /\ AttemptFails
       \/ /\ ownerInfo
          /\ VoucherLoads(cur)
          /\ sched' = "send"
          /\ old' = FALSE
          /\ UNCHANGED <<stale, todo, cur, elapsed, nextTry, blob>>

\* The rendezvous server answers.  The client's transport sets no deadline, so
\* for one that does not the scheduler waits.
Answers(g) == g \notin Silent

\* A rendezvous server accepts the registration for some time, which may be
\* none at all.
Registered(granted) ==
    /\ sched = "send"
    /\ Answers(cur)
    /\ cur \notin Unreachable
    /\ blob' = [blob EXCEPT ![cur] = granted]
    /\ stale' = IF old THEN stale \cup {cur} ELSE stale \ {cur}
    /\ AttemptSucceeds(granted)

\* None of the directives' URLs accepts it.
RegistrationFails ==
    /\ sched = "send"
    /\ Answers(cur)
    /\ AttemptFails

\* <-ticker.C.  A tick that came during the pass is in the channel already, so
\* how long this waits is left open.
NextPass ==
    /\ sched = "wait"
    /\ sched' = "list"
    /\ UNCHANGED <<stale, old, todo, cur, elapsed, nextTry, blob>>

-----------------------------------------------------------------------------
(***************************************************************************)
(* The addresses of the owner.                                             *)
(***************************************************************************)

\* Bodies of a request: addresses, or something that is no list of them.
Document == {"addresses", "malformed"}

\* parseHumanToTO2AddrsJSON: every address has a host, and what it says of
\* IP, port and protocol is valid.
Parses(doc) == doc = "addresses"

\* POST: the row is made unless there is one (409).
InsertOwnerInfo(doc) ==
    /\ Parses(doc)
    /\ ~ownerInfo
    /\ ownerInfo' = TRUE
    /\ UNCHANGED <<stale, old, sched, todo, cur, elapsed, nextTry, blob>>

\* PUT: the row is changed if there is one (404).  Nothing tells the scheduler.
UpdateOwnerInfo(doc) ==
    /\ Parses(doc)
    /\ ownerInfo
    /\ stale' = {g \in Guid : blob[g] > 0}
    /\ old' = (sched = "send")
    /\ UNCHANGED <<ownerInfo, sched, todo, cur, elapsed, nextTry, blob>>

\* One of the two, as there is no other way to change the row.
Configure ==
    /\ \E doc \in Document : InsertOwnerInfo(doc) \/ UpdateOwnerInfo(doc)
    /\ UNCHANGED storeVars

-----------------------------------------------------------------------------
(***************************************************************************)
(* The scheduler among the rest of the server.                             *)
(***************************************************************************)

OneLess(n) == IF n > 0 THEN n - 1 ELSE 0

OneMore(n, bound) == IF n < bound THEN n + 1 ELSE bound

\* Ten seconds pass.
Tick ==
    /\ UNCHANGED <<storeVars, ownerInfo, old, sched, todo, cur>>
    /\ IF sched \in {"list", "wait"}
          THEN nextTry' = [g \in Guid |-> OneLess(nextTry[g])] /\ UNCHANGED elapsed
          ELSE elapsed' = OneMore(elapsed, DefaultTTL) /\ UNCHANGED nextTry
    /\ blob' = [g \in Guid |-> OneLess(blob[g])]
    /\ stale' = {g \in stale : blob[g] > 1}

\* The vouchers change, by an import, a resale or TO2.
StoreStep ==
    /\ StoreNext
    /\ UNCHANGED <<ownerInfo, stale, old, sched, todo, cur, elapsed, nextTry, blob>>

\* The server restarts: the backoff map is empty and a pass begins at once.
\* The rendezvous servers keep what they have.
Restart ==
    /\ StoreRestart
    /\ sched' = "list"
    /\ todo' = {}
    /\ cur' = NoGuid
    /\ elapsed' = 0
    /\ nextTry' = [g \in Guid |-> 0]
    /\ old' = FALSE
    /\ UNCHANGED <<ownerInfo, stale, blob>>

SchedulerStep ==
    /\ UNCHANGED <<storeVars, ownerInfo>>
    /\ \/ ListPending
       \/ ListFails
       \/ \E g \in Guid : CheckVoucher(g) \/ CheckFails(g)
       \/ PassEnds
       \/ LoadVoucher
       \/ AttemptCannotRead
       \/ \E granted \in 0 .. DefaultTTL : Registered(granted)
       \/ RegistrationFails
       \/ NextPass

SchedNext == SchedulerStep \/ StoreStep \/ Configure \/ Tick \/ Restart

SchedSpec == SchedInit /\ [][SchedNext]_vars

\* The loop comes to a device that is due, and no statement fails.
Turn(g) ==
    /\ sched = "loop"
    /\ sched' # "list"
    /\ g \in todo \ todo'
    /\ nextTry[g] = 0
    /\ ~IsTO2Completed(g)

Checks(g) == Turn(g) /\ CheckVoucher(g)

\* The attempt gets past the database, and the rendezvous server grants some
\* time to the addresses of this moment.
Loads(g) == cur = g /\ LoadVoucher /\ UNCHANGED <<storeVars, ownerInfo>>

Accepts(g) ==
    /\ cur = g
    /\ ~old
    /\ \E granted \in 1 .. DefaultTTL : Registered(granted)
    /\ UNCHANGED <<storeVars, ownerInfo>>

\* A pass that had a list is over, and not by a restart.
PassIsOver == sched \notin {"list", "wait"} /\ sched' = "wait"

\* The goroutine runs and time passes.  What may go wrong does not every time it
\* is tried: a restart or a list that cannot be read does not end every pass;
\* and for a device whose rendezvous server can be reached, no statement fails at
\* each of its turns, and the server does not refuse, or grant no time, nor do
\* the addresses change meanwhile, in each of its attempts.  Passes with nothing
\* to do, turns in backoff and restarts may go on for ever.
SchedFairSpec ==
    /\ SchedSpec
    /\ WF_vars(Tick)
    /\ WF_vars(SchedulerStep)
    /\ []<>(sched = "list") => []<><<PassIsOver>>_vars
    /\ \A g \in Guid \ (Unreachable \cup Silent) :
          /\ []<><<Turn(g)>>_vars => []<><<Checks(g)>>_vars
          /\ SF_vars(Loads(g))
          /\ SF_vars(Accepts(g))

-----------------------------------------------------------------------------
(***************************************************************************)
(* Properties.                                                             *)
(***************************************************************************)

\* RenewedInTime: while a device is registered, the scheduler comes back to it
\* no later than the registration runs out at the rendezvous server, which may
\* have granted less than TO0 asked for, however long the pass that registered
\* it took; or its last attempt failed, and then it waits no longer than the
\* retry delay.  (A device that was granted no time is not registered, and is
\* left alone for the default time all the same.)
RenewedInTime ==
    \A g \in Guid \ Bypass :
        blob[g] > 0 => \/ nextTry[g] - elapsed <= blob[g]
                       \/ nextTry[g] - elapsed <= RetryDelay

\* PendingRegistered: once there are addresses, a device that needs TO2 is
\* registered with its rendezvous server, again each time the registration
\* runs out and with the new addresses when they change, until it is onboarded
\* or resold; another device's rendezvous server that refuses does not prevent
\* it ("the Owner automatically starts TO0 with the Rendezvous server and tries
\* until the onboard is successful").
PendingRegistered ==
    \A g \in Guid \ (Unreachable \cup Silent) :
        ownerInfo /\ g \in Pending \ Bypass ~>
            g \notin Pending \/ (blob[g] > 0 /\ g \notin stale)
===========================================================================

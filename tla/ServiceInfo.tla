---------------------------- MODULE ServiceInfo ----------------------------
(***************************************************************************)
(* TO2 at the owner server: the session state that the protocol library    *)
(* keeps through internal/db/state_to2.go and state.go, and the modules    *)
(* that the configuration has devices run (cmd/owner.go, cmd/config.go).   *)
(*                                                                         *)
(* A session's nonces, keys and module list are columns of database rows;  *)
(* where it is in the list of modules is an iterator in memory.  A device  *)
(* sends one message at a time, and the library turns a message into a     *)
(* sequence of calls.  What a session does concerns its own rows and its   *)
(* own entry of the map of iterators only.  That map is not synchronised:  *)
(* the outcome of two requests that collide on it is that the process dies,*)
(* which is Restart, or that nothing happens.                              *)
(***************************************************************************)
EXTENDS Integers, Sequences

CONSTANTS
    Session,     \* tokens
    Fsims,       \* service_info.fsims, an entry for every file of an operation
    Path,        \* the paths on the server's disk that the configuration names
    DefaultDirs, \* the directories in service_info.defaults, for download and upload
    DBCanFail    \* may a statement fail?

Fsim == {"fdo.command", "fdo.download", "fdo.upload", "fdo.wget"}

\* path is the file to download, or the directory to upload to; it means
\* nothing in the entry of a command or of a wget.
ASSUME FsimsAssumption ==
    Fsims \in Seq([fsim : Fsim, path : Path, may_fail : BOOLEAN])

ASSUME DefaultDirsAssumption == DefaultDirs \subseteq Path

ASSUME DBCanFailAssumption == DBCanFail \in BOOLEAN

Entry == 1 .. Len(Fsims)

\* What the iterator's position is when it has no entry left.
Exhausted == Len(Fsims) + 1

\* The columns of to2_sessions, replacement_vouchers and key_exchanges.
Table == [guid |-> "to2", prove_device |-> "to2", setup_device |-> "to2", rv_info |-> "to2",
          mtu |-> "to2", devmod |-> "to2", devmod_complete |-> "to2",
          new_guid |-> "replacement", hmac |-> "replacement",
          xsession |-> "kex"]

Column == DOMAIN Table

\* A device's progress: the message it sends next, or sends just now.
Stage == {"new", "hello", "prove", "ready", "devmod", "info", "done", "over", "failed"}

Called == [name : {"set", "get", "module", "next", "replace", "cleanup", "invalidate"},
           column : Column]

Call(name, column) == [name |-> name, column |-> column]
Set(column) == Call("set", column)
Get(column) == Call("get", column)
Module == Call("module", "guid")
NextModule == Call("next", "guid")
ReplaceVoucher == Call("replace", "guid")
CleanupModules == Call("cleanup", "guid")
InvalidateToken == Call("invalidate", "guid")

\* The calls that a message makes of the library: one of these sequences.  A
\* device may need several messages for its devmod, and for each module.
Script(stage) ==
    CASE stage = "hello" -> {<<Set("guid"), Set("prove_device"), Set("xsession")>>}
      [] stage = "prove" -> {<<Get("prove_device"), Get("xsession"), Get("guid"), Set("xsession"),
                               Set("new_guid"), Set("setup_device"), Set("rv_info")>>}
      [] stage = "ready" -> {<<Get("xsession"), Set("hmac"), Set("mtu")>>}
      [] stage = "devmod" -> {<<Get("xsession"), Get("guid"), Set("devmod")>>,
                              <<Get("xsession"), Get("guid"), Set("devmod_complete"), NextModule>>}
      [] stage = "info" -> {<<Get("xsession"), Get("mtu"), Module>>,
                            <<Get("xsession"), Get("mtu"), Module, NextModule>>}
      [] stage = "done" -> {<<Get("xsession"), Get("prove_device"), Get("setup_device"), Get("new_guid"),
                              Get("hmac"), ReplaceVoucher, CleanupModules, InvalidateToken>>}
      [] OTHER -> {}

VARIABLES
    up,        \* is the process running?
    disk,      \* the paths that can be opened, or created
    sessions,  \* rows of sessions
    stored,    \* the columns that each session has a value in
    modules,   \* the modules that each device supports
    states,    \* the iterator of each session: 0 (no entry in the map), the
               \* entry of Fsims it is at, or Exhausted
    stage,
    todo,      \* calls left of the message being served
    acked,     \* ghost: columns that a Set reported as stored
    ran,       \* ghost: entries that the device was given, in order
    logged,    \* ghost: entries that the log has an error about
    cut        \* ghost: uploads at which the iteration ended

vars == <<up, disk, sessions, stored, modules, states, stage, todo, acked, ran, logged, cut>>

TypeOK ==
    /\ up \in BOOLEAN
    /\ disk \subseteq Path
    /\ sessions \subseteq Session
    /\ stored \in [Session -> SUBSET Column]
    /\ modules \in [Session -> SUBSET Fsim]
    /\ states \in [Session -> 0 .. Exhausted]
    /\ stage \in [Session -> Stage]
    /\ todo \in [Session -> Seq(Called)]
    /\ acked \in [Session -> SUBSET Column]
    /\ ran \in [Session -> Seq(Entry)]
    /\ logged \in [Session -> SUBSET Entry]
    /\ cut \in [Session -> SUBSET Entry]

\* ServiceInfoConfig.validate: what must be on the disk at startup are the default
\* directories and the files to download; where uploads go need not be.
Validates(paths) ==
    /\ DefaultDirs \subseteq paths
    /\ \A i \in Entry : Fsims[i].fsim = "fdo.download" => Fsims[i].path \in paths

Init ==
    /\ disk = Path
    /\ up = Validates(disk)
    /\ sessions = {}
    /\ stored = [s \in Session |-> {}]
    /\ modules = [s \in Session |-> {}]
    /\ states = [s \in Session |-> 0]
    /\ stage = [s \in Session |-> "new"]
    /\ todo = [s \in Session |-> <<>>]
    /\ acked = [s \in Session |-> {}]
    /\ ran = [s \in Session |-> <<>>]
    /\ logged = [s \in Session |-> {}]
    /\ cut = [s \in Session |-> {}]

-----------------------------------------------------------------------------
(***************************************************************************)
(* Messages.                                                               *)
(***************************************************************************)

\* The first message of a device: NewToken, then the calls.
HelloDevice(s, supported) ==
    /\ up
    /\ stage[s] = "new"
    /\ sessions' = sessions \cup {s}
    /\ modules' = [modules EXCEPT ![s] = supported]
    /\ stage' = [stage EXCEPT ![s] = "hello"]
    /\ todo' \in {[todo EXCEPT ![s] = calls] : calls \in Script("hello")}
    /\ UNCHANGED <<up, disk, stored, states, acked, ran, logged, cut>>

Send(s) ==
    /\ up
    /\ todo[s] = <<>>
    /\ todo' \in {[todo EXCEPT ![s] = calls] : calls \in Script(stage[s])}
    /\ UNCHANGED <<up, disk, sessions, stored, modules, states, stage, acked, ran, logged, cut>>

Calls(s, name) == todo[s] # <<>> /\ Head(todo[s]).name = name

\* The call returns; after the last one the message is answered.
Return(s, next) ==
    /\ todo' = [todo EXCEPT ![s] = Tail(@)]
    /\ stage' = [stage EXCEPT ![s] = IF Len(todo[s]) = 1 THEN next ELSE @]

After == [new |-> "hello", hello |-> "prove", prove |-> "ready", ready |-> "devmod",
          devmod |-> "devmod", info |-> "info", done |-> "over", over |-> "over",
          failed |-> "failed"]

\* The call fails, and with it TO2 for this device: it is answered with an
\* error.  The library may or may not clean up the modules.
Fails(s) ==
    /\ todo' = [todo EXCEPT ![s] = <<>>]
    /\ stage' = [stage EXCEPT ![s] = "failed"]
    /\ states' \in {states, [states EXCEPT ![s] = 0]}
    /\ UNCHANGED <<sessions, stored, acked, ran, logged, cut>>

MutantUpdatesGuid == {"new_guid", "xsession"}

\* The columns that are written by FirstOrCreate or Save; the others are by an
\* UPDATE, which a row that is missing does not make fail.
Creates == {"guid", "new_guid", "xsession"}

HasRow(s, column) == \E c \in stored[s] \cap Creates : Table[c] = Table[column]

\* Every function first looks for the session (getSessionID).
SetColumn(s) ==
    LET column == Head(todo[s]).column IN
    /\ Calls(s, "set")
    /\ IF s \notin sessions
          THEN Fails(s)
          ELSE /\ stored' = [stored EXCEPT ![s] =
                                IF column \in Creates \/ HasRow(s, column) THEN @ \cup {column} ELSE @]
               /\ acked' = [acked EXCEPT ![s] = @ \cup {column}]
               /\ Return(s, After[stage[s]])
               /\ UNCHANGED <<sessions, states, ran, logged, cut>>
    /\ UNCHANGED <<up, disk, modules>>

GetColumn(s) ==
    /\ Calls(s, "get")
    /\ IF s \in sessions /\ Head(todo[s]).column \in stored[s]
          THEN /\ Return(s, After[stage[s]])
               /\ UNCHANGED <<sessions, stored, states, acked, ran, logged, cut>>
          ELSE Fails(s)
    /\ UNCHANGED <<up, disk, modules>>

-----------------------------------------------------------------------------
(***************************************************************************)
(* Modules.                                                                *)
(***************************************************************************)

MutantAnyState(s) == TRUE

\* Is there an entry in the map?  ("NextModule not called")
ModuleFound(s) == states[s] # 0

CurrentModule(s) ==
    /\ Calls(s, "module")
    /\ IF ModuleFound(s)
          THEN /\ Return(s, After[stage[s]])
               /\ UNCHANGED <<sessions, stored, states, acked, ran, logged, cut>>
          ELSE Fails(s)
    /\ UNCHANGED <<up, disk, modules>>

\* Devmod: the modules of a devmod that is not there are none.
Devmod(s) == IF "devmod_complete" \in stored[s] THEN modules[s] ELSE {}

\* The entries after one that the device supports.
Supported(s, after) == {i \in Entry : i > after /\ Fsims[i].fsim \in Devmod(s)}

\* The file can be opened, or the directory made; a wget's URL and checksum
\* were validated at startup.
Opens(i) == Fsims[i].fsim \in {"fdo.download", "fdo.upload"} => Fsims[i].path \in disk

GetReplacementGUID(s) == s \in sessions /\ "new_guid" \in stored[s]

\* Where the iteration may end early: every upload first looks up the
\* replacement GUID, and if it cannot, the function returns.
Ends(s, after) ==
    LET uploads == {j \in Supported(s, after) : Fsims[j].fsim = "fdo.upload"} IN
    IF GetReplacementGUID(s)
       THEN {Exhausted} \cup IF DBCanFail THEN uploads ELSE {}
       ELSE {j \in uploads \cup {Exhausted} : \A k \in uploads : j <= k}

MutantBreaks(s, after, end, i) ==
    IF after + 1 \in Supported(s, after) /\ Opens(after + 1) /\ after + 1 < end
       THEN i = after + 1
       ELSE i = Exhausted

\* ownerModules, from one yield to the next: the first entry that the device
\* supports and that opens, unless the iteration ends before it.
YieldsNext(s, after, end, i) ==
    LET yields == {j \in Supported(s, after) : Opens(j) /\ j < end}
    IN  \/ i \in yields /\ \A j \in yields : i <= j
        \/ i = Exhausted /\ yields = {}

MutantAlwaysValid(i) == TRUE

Valid(i) == i # Exhausted

MutantNeverDone(i) == "info"

\* The answer tells the device whether there is another module.
MessageAfter(i) == IF Valid(i) THEN "info" ELSE "done"

\* An entry that does not open is logged, and so is an upload at which the
\* iteration ends; nothing is logged of the entries behind it.
Moves(s, end, i) ==
    /\ YieldsNext(s, states[s], end, i)
    /\ states' = [states EXCEPT ![s] = i]
    /\ logged' = [logged EXCEPT ![s] =
                     @ \cup {j \in Supported(s, states[s]) : j < i /\ j <= end /\ (Opens(j) => j = end)}]
    /\ cut' = [cut EXCEPT ![s] = IF Valid(i) THEN @ ELSE @ \cup ({end} \cap Entry)]
    /\ ran' = [ran EXCEPT ![s] = IF Valid(i) THEN Append(@, i) ELSE @]
    /\ Return(s, MessageAfter(i))
    /\ UNCHANGED <<sessions, stored, acked>>

\* A session without an entry in the map is given an iterator; then the
\* iterator moves.
MoveIterator(s) ==
    /\ Calls(s, "next")
    /\ IF states[s] = 0 /\ ~(s \in sessions /\ "guid" \in stored[s])
          THEN Fails(s)
          ELSE \E end \in Ends(s, states[s]), i \in Entry \cup {Exhausted} : Moves(s, end, i)
    /\ UNCHANGED <<up, disk, modules>>

-----------------------------------------------------------------------------
(***************************************************************************)
(* The end of TO2.                                                         *)
(***************************************************************************)

\* The voucher is replaced (OwnerVouchers), or is no longer there.
Replace(s) ==
    /\ Calls(s, "replace")
    /\ \/ /\ Return(s, After[stage[s]])
          /\ UNCHANGED <<sessions, stored, states, acked, ran, logged, cut>>
       \/ Fails(s)
    /\ UNCHANGED <<up, disk, modules>>

Cleanup(s) ==
    /\ Calls(s, "cleanup")
    /\ states' = [states EXCEPT ![s] = 0]
    /\ Return(s, After[stage[s]])
    /\ UNCHANGED <<up, disk, sessions, stored, modules, acked, ran, logged, cut>>

\* The row of sessions goes; those that hold the columns do not.
Invalidate(s) ==
    /\ Calls(s, "invalidate")
    /\ IF s \in sessions
          THEN /\ sessions' = sessions \ {s}
               /\ Return(s, After[stage[s]])
               /\ UNCHANGED <<stored, states, acked, ran, logged, cut>>
          ELSE Fails(s)
    /\ UNCHANGED <<up, disk, modules>>

StatementFails(s) ==
    /\ DBCanFail
    /\ \/ Calls(s, "set")
       \/ Calls(s, "get")
       \/ Calls(s, "next") /\ states[s] = 0
       \/ Calls(s, "invalidate")
    /\ Fails(s)
    /\ UNCHANGED <<up, disk, modules>>

\* A device gives up between two messages, with an error message or without.
GivesUp(s) ==
    /\ todo[s] = <<>>
    /\ stage[s] \notin {"new", "over", "failed"}
    /\ Fails(s)
    /\ UNCHANGED <<up, disk, modules>>

\* A file or directory of the server comes or goes.
DiskChanges(p) ==
    /\ disk' \in {disk \cup {p}, disk \ {p}}
    /\ disk' # disk
    /\ UNCHANGED <<up, sessions, stored, modules, states, stage, todo, acked, ran, logged, cut>>

\* The process ends, whatever it was doing, and is started again, if the
\* configuration still validates.
Restart ==
    /\ up' = Validates(disk)
    /\ states' = [s \in Session |-> 0]
    /\ stage' = [s \in Session |-> IF todo[s] # <<>> THEN "failed" ELSE stage[s]]
    /\ todo' = [s \in Session |-> <<>>]
    /\ UNCHANGED <<disk, sessions, stored, modules, acked, ran, logged, cut>>

CallStep(s) ==
    \/ SetColumn(s)
    \/ GetColumn(s)
    \/ CurrentModule(s)
    \/ MoveIterator(s)
    \/ Replace(s)
    \/ Cleanup(s)
    \/ Invalidate(s)

Next ==
    \/ \E s \in Session :
          \/ \E supported \in SUBSET Fsim : HelloDevice(s, supported)
          \/ Send(s)
          \/ CallStep(s)
          \/ StatementFails(s)
          \/ GivesUp(s)
    \/ \E p \in Path : DiskChanges(p)
    \/ Restart

Spec == Init /\ [][Next]_vars

\* The message with which the devmod, or a module, is complete.
SendLast(s) == Send(s) /\ \E k \in 1 .. Len(todo'[s]) : todo'[s][k] = NextModule

\* A device that neither is onboarded nor has failed goes on: it sends its next
\* message, or gives up when the server is down.  It does not exchange data with
\* a module for ever.  The server does not restart for ever.
FairSpec ==
    /\ Spec
    /\ \A s \in Session :
          /\ WF_vars(CallStep(s))
          /\ WF_vars(Send(s))
          /\ WF_vars(~up /\ GivesUp(s))
          /\ SF_vars(SendLast(s))
    /\ <>[][~Restart]_vars

-----------------------------------------------------------------------------
(***************************************************************************)
(* Properties.                                                             *)
(***************************************************************************)

\* ReportedIsStored: a value of which a Set function reported no error is there
\* for the messages that follow, although the Set functions are UPDATEs that
\* do not notice a missing row: no order of messages, failures and restarts
\* reaches one before the row is created (SetGUID, SetReplacementGUID).
ReportedIsStored == \A s \in Session : acked[s] \subseteq stored[s]

\* InConfiguredOrder: a device is given the entries in the order of the
\* configuration and none twice in a session, although a restart loses the
\* iterators: a session without one is ended rather than begun again.
InConfiguredOrder ==
    \A s \in Session :
        \A k \in 1 .. Len(ran[s]) - 1 : ran[s][k] < ran[s][k + 1]

\* SkipsAreExplained: an entry that an onboarded device supports and was not
\* given is one that the log has an error about, or it is behind an upload whose
\* replacement GUID could not be looked up, and only of that the log has one
\* (ownerModules).
SkipsAreExplained ==
    \A s \in Session :
        stage[s] \in {"done", "over"} =>
            /\ cut[s] \subseteq logged[s]
            /\ \A i \in Entry : Fsims[i].fsim \in modules[s] =>
                  \/ \E k \in 1 .. Len(ran[s]) : ran[s][k] = i
                  \/ i \in logged[s]
                  \/ \E j \in cut[s] : j < i

\* MandatoryIsGiven: a device is only onboarded once it was given every
\* download that may not fail ("If true, allow the download to fail without
\* aborting onboarding", false by default).  A file that is gone since the
\* server was started breaks it: ownerModules skips the entry.
MandatoryIsGiven ==
    \A s \in Session :
        stage[s] = "over" =>
            \A i \in Entry :
                Fsims[i].fsim = "fdo.download" /\ "fdo.download" \in modules[s] /\ ~Fsims[i].may_fail =>
                    \E k \in 1 .. Len(ran[s]) : ran[s][k] = i

\* ServiceInfoEnds: a device that has begun with the modules comes to their end,
\* or fails (moduleStateMachines: the iterator moves on each time).
ServiceInfoEnds ==
    \A s \in Session : stage[s] = "info" ~> stage[s] \in {"done", "over", "failed"}
=============================================================================

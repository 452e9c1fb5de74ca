--------------------------- MODULE Manufacturing ---------------------------
(***************************************************************************)
(* The manufacturing server: device initialisation (DI)                    *)
(* (internal/handlers/manufacturing/handler.go, internal/db/state.go,      *)
(* state_vouchers.go, cmd/manufacturing.go).                               *)
(*                                                                         *)
(* A device sends AppStart and is answered with a voucher header, which    *)
(* holds a new GUID and the rendezvous information of that moment; it      *)
(* sends SetHMAC over that header and is answered Done.  A worker is a     *)
(* goroutine serving one of these messages, statement by statement; what a *)
(* device does, and the order in which the go-fdo library calls the        *)
(* functions of this repository, are external.                             *)
(***************************************************************************)
EXTENDS Naturals, FiniteSets

CONSTANTS
    Device,
    Worker,          \* goroutines serving protocol messages
    SID,             \* session identifiers (32 random bytes each)
    Guid,            \* GUIDs (16 random bytes each)
    Config,          \* the rendezvous information an operator may set
    None,
    Key,             \* the type and encoding of key each device asks for
    MfgKeyFamily,    \* the family of the manufacturer's key, "ec" or "rsa"
    MaxFaults        \* bound: how many things go wrong

KeyRequest == [type : {"ec", "rsa", "other"}, enc : {"x509", "cose", "x5chain", "other"}]

ASSUME KeyAssumption == Key \in [Device -> KeyRequest] /\ MfgKeyFamily \in {"ec", "rsa"}

ASSUME FaultAssumption == MaxFaults \in Nat

ASSUME NoneAssumption == None \notin SID \cup Guid \cup Config \cup Device \cup Worker

Header == [guid : Guid, config : Config]

\* A voucher: its header, the device its certificate chain is for, and which
\* device computed its HMAC over which header.
Voucher == [header : Header, chain : Device, by : Device, over : Header]

ASSUME NoRowAssumption == None \notin Header \cup Voucher

Control == {"idle", "newToken", "saveChain", "buildHeader", "saveHeader",
            "readHeader", "readChain", "newVoucher", "invalidate"}

\* What a worker has: the device, its token, the header that the request or
\* the database gave it, and the chain.
Request == [pc : Control, dev : Device \cup {None}, tok : SID \cup {None},
            told : Header \cup {None}, header : Header \cup {None},
            chain : Device \cup {None}]

Idle == [pc |-> "idle", dev |-> None, tok |-> None, told |-> None,
         header |-> None, chain |-> None]

\* What a device has: the worker whose answer it waits for, and what the last
\* answer told it.
Phase == {"new", "starting", "told", "finishing", "again", "done"}

DeviceState == [phase : Phase, worker : Worker \cup {None}, tok : SID \cup {None},
                header : Header \cup {None}]

NewDevice == [phase |-> "new", worker |-> None, tok |-> None, header |-> None]

VARIABLES
    config,      \* the rendezvous information, None if there is none that can be read
    sessions,    \* the rows of sessions
    chains,      \* the rows of device_info, by session
    headers,     \* the rows of incomplete_vouchers, by session
    vouchers,    \* the rows of vouchers, by GUID
    req,         \* what each worker is doing
    dev,         \* what each device knows
    faults       \* how many more things may go wrong

dbVars == <<config, sessions, chains, headers, vouchers>>
vars == <<dbVars, req, dev, faults>>

TypeOK ==
    /\ config \in Config \cup {None}
    /\ sessions \subseteq SID
    /\ chains \in [SID -> Device \cup {None}]
    /\ headers \in [SID -> Header \cup {None}]
    /\ vouchers \in [Guid -> Voucher \cup {None}]
    /\ req \in [Worker -> Request]
    /\ dev \in [Device -> DeviceState]
    /\ faults \in 0 .. MaxFaults

Init ==
    /\ config = None
    /\ sessions = {}
    /\ chains = [s \in SID |-> None]
    /\ headers = [s \in SID |-> None]
    /\ vouchers = [g \in Guid |-> None]
    /\ req = [w \in Worker |-> Idle]
    /\ dev = [d \in Device |-> NewDevice]
    /\ faults = MaxFaults

-----------------------------------------------------------------------------
(***************************************************************************)
(* Identifiers, and the answers to a device.                               *)
(***************************************************************************)

\* A random identifier is one that nobody uses, and which of them does not
\* matter.  The rows of a session whose token nobody has are never read again:
\* their identifier stands for another one.
UsedSIDs == {req[w].tok : w \in Worker} \cup {dev[d].tok : d \in Device}

UsedHeaders == {req[w].told : w \in Worker} \cup {req[w].header : w \in Worker}
                  \cup {dev[d].header : d \in Device}

UsedGuids == {g \in Guid : vouchers[g] # None}
                \cup {h.guid : h \in UsedHeaders \ {None}}

NewSID == CHOOSE s \in SID : s \notin UsedSIDs

NewGuid == CHOOSE g \in Guid : g \notin UsedGuids

\* The worker answers; the device sees it if it still waits for it.
Answer(w, answered) ==
    /\ req' = [req EXCEPT ![w] = Idle]
    /\ dev' = [d \in Device |-> IF dev[d].worker = w THEN answered ELSE dev[d]]

\* An error, or (a handler that panics) a connection that is closed: the
\* device has to start over.
Abort(w) == Answer(w, NewDevice)

Continue(w, label) == req' = [req EXCEPT ![w].pc = label] /\ UNCHANGED dev

-----------------------------------------------------------------------------
(***************************************************************************)
(* AppStart.                                                               *)
(***************************************************************************)

\* A device that has no answer to wait for starts (over).
SendAppStart(d, w) ==
    /\ dev[d].phase \in {"new", "again"}
    /\ req[w] = Idle
    /\ req' = [req EXCEPT ![w] = [Idle EXCEPT !.pc = "newToken", !.dev = d]]
    /\ dev' = [dev EXCEPT ![d] = [NewDevice EXCEPT !.phase = "starting", !.worker = w]]
    /\ UNCHANGED <<dbVars, faults>>

NewToken(w) ==
    LET s == NewSID IN
    /\ req[w].pc = "newToken"
    /\ ~(SID \subseteq UsedSIDs)
    /\ sessions' = sessions \cup {s}
    /\ chains' = [chains EXCEPT ![s] = None]
    /\ headers' = [headers EXCEPT ![s] = None]
    /\ req' = [req EXCEPT ![w] = [@ EXCEPT !.pc = "saveChain", !.tok = s]]
    /\ UNCHANGED <<config, vouchers, dev, faults>>

\* getSessionID, then FirstOrCreate with Assign.
SetDeviceCertChain(w) ==
    /\ req[w].pc = "saveChain"
    /\ IF req[w].tok \in sessions
          THEN /\ chains' = [chains EXCEPT ![req[w].tok] = req[w].dev]
               /\ Continue(w, "buildHeader")
          ELSE Abort(w) /\ UNCHANGED chains
    /\ UNCHANGED <<config, sessions, headers, vouchers, faults>>

MutantAssertsOther(key) ==
    IF key.enc \in {"x509", "cose"} /\ key.type \in {"ec", "rsa"} \ {MfgKeyFamily}
       THEN {"key"} ELSE {"panic"}

\* encodePublicKey with the manufacturer's key and no chain.  A key of the
\* other family is a failed type assertion, which net/http recovers from; what
\* the library makes of an X5Chain without a chain is not known here.
EncodePublicKey(key) ==
    CASE key.enc \in {"x509", "cose"} /\ key.type = MfgKeyFamily -> {"key"}
      [] key.enc \in {"x509", "cose"} /\ key.type \in {"ec", "rsa"} \ {MfgKeyFamily} -> {"panic"}
      [] key.enc = "x5chain" -> {"key", "error"}
      [] OTHER -> {"error"}

MutantNoError == TRUE

\* FetchRvInfo finds a row, and can decode it.
RvInfoFound == config # None

\* DeviceInfo, then RvInfo: the header has a random GUID and the rendezvous
\* information of this moment, if there is any.
BuildHeader(w) ==
    /\ req[w].pc = "buildHeader"
    /\ ~(Guid \subseteq UsedGuids)
    /\ \E encoded \in EncodePublicKey(Key[req[w].dev]) :
          IF encoded = "key" /\ RvInfoFound
             THEN /\ req' = [req EXCEPT ![w] =
                        [@ EXCEPT !.pc = "saveHeader",
                                  !.header = [guid |-> NewGuid, config |-> config]]]
                  /\ UNCHANGED dev
             ELSE Abort(w)
    /\ UNCHANGED <<dbVars, faults>>

\* getSessionID, then Save; the header is the answer.
SetIncompleteVoucherHeader(w) ==
    /\ req[w].pc = "saveHeader"
    /\ IF req[w].tok \in sessions
          THEN /\ headers' = [headers EXCEPT ![req[w].tok] = req[w].header]
               /\ Answer(w, [phase |-> "told", worker |-> None, tok |-> req[w].tok,
                             header |-> req[w].header])
          ELSE Abort(w) /\ UNCHANGED headers
    /\ UNCHANGED <<config, sessions, chains, vouchers, faults>>

-----------------------------------------------------------------------------
(***************************************************************************)
(* SetHMAC.                                                                *)
(***************************************************************************)

\* The device sends the HMAC of the header it was told, once more if it had no
\* answer.
SendSetHMAC(d, w) ==
    /\ dev[d].phase \in {"told", "again"}
    /\ req[w] = Idle
    /\ req' = [req EXCEPT ![w] = [Idle EXCEPT !.pc = "readHeader", !.dev = d,
                                              !.tok = dev[d].tok, !.told = dev[d].header]]
    /\ dev' = [dev EXCEPT ![d].phase = "finishing", ![d].worker = w]
    /\ UNCHANGED <<dbVars, faults>>

MutantFirstHeader(s) == CHOOSE h \in {headers[t] : t \in SID} : h # None

\* The row of incomplete_vouchers that the session has.
HeaderOf(s) == headers[s]

\* getSessionID, then the query.
IncompleteVoucherHeader(w) ==
    /\ req[w].pc = "readHeader"
    /\ IF req[w].tok \in sessions /\ headers[req[w].tok] # None
          THEN /\ req' = [req EXCEPT ![w] = [@ EXCEPT !.pc = "readChain",
                                                      !.header = HeaderOf(req[w].tok)]]
               /\ UNCHANGED dev
          ELSE Abort(w)
    /\ UNCHANGED <<dbVars, faults>>

DeviceCertChain(w) ==
    /\ req[w].pc = "readChain"
    /\ IF req[w].tok \in sessions /\ chains[req[w].tok] # None
          THEN /\ req' = [req EXCEPT ![w] = [@ EXCEPT !.pc = "newVoucher",
                                                      !.chain = chains[req[w].tok]]]
               /\ UNCHANGED dev
          ELSE Abort(w)
    /\ UNCHANGED <<dbVars, faults>>

\* BeforeVoucherPersist extends the voucher to the owner; NewVoucher creates
\* its row, unless there is one with this GUID.
NewVoucher(w) ==
    /\ req[w].pc = "newVoucher"
    /\ LET g == req[w].header.guid IN
          IF vouchers[g] = None
             THEN /\ vouchers' = [vouchers EXCEPT ![g] =
                        [header |-> req[w].header, chain |-> req[w].chain,
                         by |-> req[w].dev, over |-> req[w].told]]
                  /\ Continue(w, "invalidate")
             ELSE Abort(w) /\ UNCHANGED vouchers
    /\ UNCHANGED <<config, sessions, chains, headers, faults>>

\* The device has its credential.
Done(w) ==
    Answer(w, [phase |-> "done", worker |-> None, tok |-> None, header |-> req[w].told])

\* DI is over: the session goes, and only it (no other table refers to it);
\* then the device is told.
InvalidateToken(w) ==
    /\ req[w].pc = "invalidate"
    /\ sessions' = sessions \ {req[w].tok}
    /\ Done(w)
    /\ UNCHANGED <<config, chains, headers, vouchers, faults>>

-----------------------------------------------------------------------------
(***************************************************************************)
(* What goes wrong.                                                        *)
(***************************************************************************)

\* The management API sets, changes or deletes the rendezvous information
\* (RvInfo has the steps behind this one).
SetConfig(c) ==
    /\ c # config
    /\ config' = c
    /\ UNCHANGED <<sessions, chains, headers, vouchers, req, dev, faults>>

\* A statement fails.  If it is the last one, the device may still be told.
StatementFails(w) ==
    /\ req[w].pc # "idle"
    /\ \/ Abort(w)
       \/ req[w].pc = "invalidate" /\ Done(w)

\* What is left of a device whose request is not answered: it starts over, or
\* sends its HMAC again.
Unanswered(d) ==
    IF dev[d].phase = "starting" THEN NewDevice
    ELSE [dev[d] EXCEPT !.phase = "again", !.worker = None]

\* The answer is lost, or too late: the worker goes on, the device does not
\* know.
GiveUp(d) ==
    /\ dev[d].worker # None
    /\ dev' = [dev EXCEPT ![d] = Unanswered(d)]
    /\ UNCHANGED req

\* The process stops at any point, and is started again on the same database.
\* A shutdown is no different: Serve returns as soon as the signal goroutine
\* has called Shutdown, then Start and main return, and what Shutdown was
\* waiting for is cut off.
Restart ==
    /\ req' = [w \in Worker |-> Idle]
    /\ dev' = [d \in Device |->
                  IF dev[d].worker = None THEN dev[d] ELSE Unanswered(d)]

Fault ==
    /\ faults > 0
    /\ \/ \E w \in Worker : StatementFails(w)
       \/ \E d \in Device : GiveUp(d)
       \/ Restart
    /\ faults' = faults - 1
    /\ UNCHANGED dbVars

WorkerStep(w) ==
    \/ NewToken(w)
    \/ SetDeviceCertChain(w)
    \/ BuildHeader(w)
    \/ SetIncompleteVoucherHeader(w)
    \/ IncompleteVoucherHeader(w)
    \/ DeviceCertChain(w)
    \/ NewVoucher(w)
    \/ InvalidateToken(w)

DeviceStep(d) == \E w \in Worker : SendAppStart(d, w) \/ SendSetHMAC(d, w)

Next ==
    \/ \E w \in Worker : WorkerStep(w)
    \/ \E d \in Device : DeviceStep(d)
    \/ \E c \in Config \cup {None} : SetConfig(c)
    \/ Fault

Spec == Init /\ [][Next]_vars

\* Goroutines run, and a device goes on.  Strong
\* fairness stands for what the bounds take away: the server never runs out of
\* goroutines and identifiers.
FairSpec ==
    /\ Spec
    /\ \A w \in Worker : SF_vars(WorkerStep(w))
    /\ \A d \in Device : SF_vars(DeviceStep(d))

-----------------------------------------------------------------------------
(***************************************************************************)
(* Properties.                                                             *)
(***************************************************************************)

\* DoneIsOwnVoucher: a device that was told Done has a voucher in the store,
\* under the GUID and with the rendezvous information that it was told, for
\* its own certificate and with its own HMAC over that same header; whatever
\* requests it abandoned and repeated, other devices sent, and changes of the
\* rendezvous information came between its two messages (NewVoucher,
\* IncompleteVoucherHeader, DeviceCertChain).
DoneIsOwnVoucher ==
    \A d \in Device : dev[d].phase = "done" =>
        vouchers[dev[d].header.guid] =
            [header |-> dev[d].header, chain |-> d, by |-> d, over |-> dev[d].header]

\* The devices that ask for a key of the manufacturer's family.
Encodable == {d \in Device : Key[d].type = MfgKeyFamily /\ Key[d].enc \in {"x509", "cose"}}

\* DeviceInitialised: a device that keeps trying and whose key can be encoded
\* is initialised in the end, if there is rendezvous information in the end,
\* whatever was left behind by its requests that failed half-way and by
\* devices whose requests panic (SetDeviceCertChain, NewVoucher,
\* encodePublicKey).
DeviceInitialised ==
    <>[](config # None) => \A d \in Encodable : <>(dev[d].phase = "done")
=============================================================================

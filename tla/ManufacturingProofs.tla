------------------------ MODULE ManufacturingProofs ------------------------
(***************************************************************************)
(* A device that is told Done has its own voucher, for any number of       *)
(* devices, requests and faults.                                           *)
(***************************************************************************)
EXTENDS Manufacturing, TLAPS

\* A worker that serves an AppStart and has a token, one that serves a SetHMAC.
InAppStart(w) == req[w].pc \in {"saveChain", "buildHeader", "saveHeader"}

InSetHMAC(w) == req[w].pc \in {"readHeader", "readChain", "newVoucher", "invalidate"}

\* The rows of a session are what this device was told.
RowsFor(s, d, h) ==
    /\ s \in SID
    /\ h \in Header
    /\ headers[s] = h
    /\ chains[s] = d

\* The voucher of this device and header is stored.
VoucherFor(d, h) ==
    /\ h \in Header
    /\ vouchers[h.guid] = [header |-> h, chain |-> d, by |-> d, over |-> h]

\* What a worker has, it has of its own device and session.
WorkerInv(w) ==
    /\ req[w].pc # "idle" => req[w].dev \in Device
    /\ InAppStart(w) => req[w].tok \in SID
    /\ req[w].pc \in {"buildHeader", "saveHeader"} => chains[req[w].tok] = req[w].dev
    /\ req[w].pc = "saveHeader" => req[w].header \in Header
    /\ InSetHMAC(w) => RowsFor(req[w].tok, req[w].dev, req[w].told)
    /\ req[w].pc \in {"readChain", "newVoucher", "invalidate"} => req[w].header = req[w].told
    /\ req[w].pc \in {"newVoucher", "invalidate"} => req[w].chain = req[w].dev
    /\ req[w].pc = "invalidate" => VoucherFor(req[w].dev, req[w].told)

\* While AppStart is being served, nobody else has its token.
Exclusive(w) ==
    InAppStart(w) =>
        /\ \A v \in Worker \ {w} : req[v].tok # req[w].tok
        /\ \A d \in Device : dev[d].tok # req[w].tok

\* The worker that a device waits for serves its request.
Awaited(d) ==
    dev[d].worker # None =>
        LET w == dev[d].worker IN
        /\ req[w].dev = d
        /\ \/ dev[d].phase = "starting" /\ (req[w].pc = "newToken" \/ InAppStart(w))
           \/ dev[d].phase = "finishing" /\ InSetHMAC(w) /\ req[w].told = dev[d].header

\* What a device was told is in the rows of its session, then in a voucher.
Told(d) ==
    /\ dev[d].phase \in {"told", "finishing", "again"} => RowsFor(dev[d].tok, d, dev[d].header)
    /\ dev[d].phase = "done" => VoucherFor(d, dev[d].header)

Inv ==
    /\ TypeOK
    /\ \A w \in Worker : WorkerInv(w) /\ Exclusive(w)
    /\ \A d \in Device : Awaited(d) /\ Told(d)

-----------------------------------------------------------------------------
(***************************************************************************)
(* Lemmas about the operators.                                             *)
(***************************************************************************)

\* FreshSID: the identifier of a new session is one that nobody uses.
LEMMA FreshSID ==
    ASSUME ~(SID \subseteq UsedSIDs)
    PROVE  /\ NewSID \in SID
           /\ \A w \in Worker : req[w].tok # NewSID
           /\ \A d \in Device : dev[d].tok # NewSID
<1>1. \E s \in SID : s \notin UsedSIDs
  OBVIOUS
<1>2. NewSID \in SID /\ NewSID \notin UsedSIDs
  BY <1>1 DEF NewSID
<1> QED BY <1>2 DEF UsedSIDs

\* FreshGuid: so is the GUID of a new header.
LEMMA FreshGuid == ~(Guid \subseteq UsedGuids) => NewGuid \in Guid
  BY DEF NewGuid

\* IdleType: the state of a worker, and of a device, without a request.
LEMMA IdleType == Idle \in Request /\ NewDevice \in DeviceState
  BY DEF Idle, Request, NewDevice, DeviceState, Control, Phase

\* AbortKeeps: a worker that aborts its request, with nothing stored, leaves
\* what the others have.
LEMMA AbortKeeps ==
    ASSUME Inv, NEW w \in Worker, Abort(w), UNCHANGED dbVars, faults' \in 0 .. MaxFaults
    PROVE  Inv'
<1> USE DEF Abort, Answer, dbVars
<1>1. TypeOK'
  BY IdleType DEF Inv, TypeOK
<1>2. \A v \in Worker : req'[v] = IF v = w THEN Idle ELSE req[v]
  BY DEF Inv, TypeOK
<1>3. \A d \in Device : dev'[d] = IF dev[d].worker = w THEN NewDevice ELSE dev[d]
  BY DEF Inv, TypeOK
<1>4. ASSUME NEW v \in Worker PROVE WorkerInv(v)' /\ Exclusive(v)'
  BY <1>2, <1>3, NoneAssumption
  DEF Inv, WorkerInv, Exclusive, InAppStart, InSetHMAC, RowsFor, VoucherFor, Idle, NewDevice
<1>5. ASSUME NEW d \in Device PROVE Awaited(d)' /\ Told(d)'
  BY <1>2, <1>3
  DEF Inv, TypeOK, DeviceState, Awaited, Told, InAppStart, InSetHMAC, RowsFor, VoucherFor, NewDevice
<1> QED BY <1>1, <1>4, <1>5 DEF Inv

\* WorkerMoves: a worker that goes on with its request, with nothing stored,
\* leaves what the others have.
LEMMA WorkerMoves ==
    ASSUME Inv, NEW w \in Worker, NEW r \in Request,
           req' = [req EXCEPT ![w] = r],
           UNCHANGED <<dbVars, dev, faults>>,
           r.dev = req[w].dev, r.tok = req[w].tok, r.told = req[w].told,
           \/ InAppStart(w) /\ InAppStart(w)'
           \/ InSetHMAC(w) /\ InSetHMAC(w)',
           WorkerInv(w)'
    PROVE  Inv'
<1> USE DEF dbVars
<1>1. TypeOK'
  BY DEF Inv, TypeOK
<1>2. \A v \in Worker : req'[v] = IF v = w THEN r ELSE req[v]
  BY DEF Inv, TypeOK
<1>3. ASSUME NEW v \in Worker PROVE WorkerInv(v)' /\ Exclusive(v)'
  <2>1. WorkerInv(v)'
    BY <1>2 DEF Inv, WorkerInv, InAppStart, InSetHMAC, RowsFor, VoucherFor
  <2>2. Exclusive(v)'
    BY <1>2 DEF Inv, Exclusive, InAppStart, InSetHMAC
  <2> QED BY <2>1, <2>2
<1>4. ASSUME NEW d \in Device PROVE Awaited(d)' /\ Told(d)'
  BY <1>2 DEF Inv, TypeOK, DeviceState, Awaited, Told, InAppStart, InSetHMAC, RowsFor, VoucherFor
<1> QED BY <1>1, <1>3, <1>4 DEF Inv

-----------------------------------------------------------------------------
(***************************************************************************)
(* The invariant.                                                          *)
(***************************************************************************)

\* Inv is inductive: it holds at first,
LEMMA InvInit == Init => Inv
<1> SUFFICES ASSUME Init PROVE Inv
  OBVIOUS
<1>1. TypeOK
  BY IdleType, FaultAssumption DEF Init, TypeOK
<1>2. ASSUME NEW w \in Worker PROVE WorkerInv(w) /\ Exclusive(w)
  BY DEF Init, WorkerInv, Exclusive, InAppStart, InSetHMAC, Idle
<1>3. ASSUME NEW d \in Device PROVE Awaited(d) /\ Told(d)
  BY DEF Init, Awaited, Told, NewDevice
<1> QED BY <1>1, <1>2, <1>3 DEF Inv

\* SendKeeps: a request begins.
LEMMA SendKeeps ==
    ASSUME Inv, NEW d \in Device, DeviceStep(d)
    PROVE  Inv'
<1> PICK w \in Worker : SendAppStart(d, w) \/ SendSetHMAC(d, w)
  BY DEF DeviceStep
<1> USE DEF dbVars
<1>0. dev[d] \in DeviceState /\ \A v \in Worker : req[v] \in Request
  BY DEF Inv, TypeOK
<1>1. CASE SendAppStart(d, w)
  <2> DEFINE r == [Idle EXCEPT !.pc = "newToken", !.dev = d]
             n == [NewDevice EXCEPT !.phase = "starting", !.worker = w]
  <2>1. r \in Request /\ n \in DeviceState
    BY DEF Idle, Request, NewDevice, DeviceState, Control, Phase
  <2>2. \A v \in Worker : req'[v] = IF v = w THEN r ELSE req[v]
    BY <1>1 DEF SendAppStart, Inv, TypeOK
  <2>3. \A e \in Device : dev'[e] = IF e = d THEN n ELSE dev[e]
    BY <1>1 DEF SendAppStart, Inv, TypeOK
  <2>4. TypeOK'
    BY <1>1, <2>1 DEF SendAppStart, Inv, TypeOK
  <2>5. \A e \in Device : dev[e].worker # w
    BY <1>1, NoneAssumption DEF SendAppStart, Inv, Awaited, InAppStart, InSetHMAC, Idle
  <2>6. ASSUME NEW v \in Worker PROVE WorkerInv(v)' /\ Exclusive(v)'
    BY <1>1, <2>2, <2>3, NoneAssumption
    DEF SendAppStart, Inv, WorkerInv, Exclusive, InAppStart, InSetHMAC, RowsFor, VoucherFor, Idle, NewDevice
  <2>7. ASSUME NEW e \in Device PROVE Awaited(e)' /\ Told(e)'
    BY <1>1, <2>2, <2>3, <2>5, NoneAssumption
    DEF SendAppStart, Inv, TypeOK, DeviceState, Awaited, Told, InAppStart, InSetHMAC, RowsFor,
        VoucherFor, Idle, NewDevice
  <2> QED BY <2>4, <2>6, <2>7 DEF Inv
<1>2. CASE SendSetHMAC(d, w)
  <2> DEFINE r == [Idle EXCEPT !.pc = "readHeader", !.dev = d,
                               !.tok = dev[d].tok, !.told = dev[d].header]
             n == [dev[d] EXCEPT !.phase = "finishing", !.worker = w]
  <2>1. r \in Request /\ n \in DeviceState
    BY <1>0 DEF Idle, Request, DeviceState, Control, Phase
  <2>2. \A v \in Worker : req'[v] = IF v = w THEN r ELSE req[v]
    BY <1>2 DEF SendSetHMAC, Inv, TypeOK
  <2>3. \A e \in Device : dev'[e] = IF e = d THEN n ELSE dev[e]
    BY <1>0, <1>2 DEF SendSetHMAC, Inv, TypeOK, DeviceState
  <2>4. TypeOK'
    BY <1>0, <1>2, <2>1 DEF SendSetHMAC, Inv, TypeOK, DeviceState
  <2>5. \A e \in Device : dev[e].worker # w
    BY <1>2, NoneAssumption DEF SendSetHMAC, Inv, Awaited, InAppStart, InSetHMAC, Idle
  <2>6. n.tok = dev[d].tok /\ n.header = dev[d].header /\ n.worker = w /\ n.phase = "finishing"
    BY <1>0 DEF DeviceState
  <2>7. RowsFor(dev[d].tok, d, dev[d].header)
    BY <1>2 DEF SendSetHMAC, Inv, Told
  <2>8. ASSUME NEW v \in Worker PROVE WorkerInv(v)'
    BY <1>2, <2>2, <2>7
    DEF SendSetHMAC, Inv, WorkerInv, InAppStart, InSetHMAC, RowsFor, VoucherFor, Idle
  <2>9. ASSUME NEW v \in Worker PROVE Exclusive(v)'
    <3>1. \A e \in Device : dev'[e].tok = dev[e].tok
      BY <2>3, <2>6
    <3>2. req'[w].pc = "readHeader" /\ req'[w].tok = dev[d].tok
      BY <2>2 DEF Idle
    <3> QED BY <2>2, <3>1, <3>2 DEF Inv, Exclusive, InAppStart
  <2>10. ASSUME NEW e \in Device PROVE Awaited(e)' /\ Told(e)'
    BY <1>2, <2>2, <2>3, <2>5, <2>6, <2>7
    DEF SendSetHMAC, Inv, TypeOK, DeviceState, Awaited, Told, InAppStart, InSetHMAC, RowsFor,
        VoucherFor, Idle
  <2> QED BY <2>4, <2>8, <2>9, <2>10 DEF Inv
<1> QED BY <1>1, <1>2

\* AppStartKeeps: the steps of AppStart.  Only they write the rows of a
\* session, and only while nobody else has its token.
LEMMA AppStartKeeps ==
    ASSUME Inv, NEW w \in Worker,
           \/ NewToken(w) \/ SetDeviceCertChain(w)
           \/ BuildHeader(w) \/ SetIncompleteVoucherHeader(w)
    PROVE  Inv'
<1> USE DEF dbVars
<1>0. /\ \A v \in Worker : req[v] \in Request
      /\ \A d \in Device : dev[d] \in DeviceState
      /\ faults \in 0 .. MaxFaults
  BY DEF Inv, TypeOK
<1>1. CASE NewToken(w)
  <2> DEFINE s == NewSID
             r == [req[w] EXCEPT !.pc = "saveChain", !.tok = s]
  <2>1. /\ s \in SID
        /\ \A v \in Worker : req[v].tok # s
        /\ \A d \in Device : dev[d].tok # s
    BY <1>1, FreshSID DEF NewToken
  <2> HIDE DEF s
  <2>2. r \in Request /\ r.pc = "saveChain" /\ r.tok = s /\ r.dev = req[w].dev
    BY <1>0, <2>1 DEF Request, Control
  <2>3. \A v \in Worker : req'[v] = IF v = w THEN r ELSE req[v]
    BY <1>1, <1>0 DEF NewToken, Inv, TypeOK, s
  <2>4. /\ chains' = [chains EXCEPT ![s] = None]
        /\ headers' = [headers EXCEPT ![s] = None]
        /\ req' = [req EXCEPT ![w] = r]
        /\ sessions' = sessions \cup {s}
        /\ UNCHANGED <<config, vouchers, dev, faults>>
    BY <1>1 DEF NewToken, s
  <2> HIDE DEF r
  <2>5. TypeOK'
    BY <2>1, <2>2, <2>4 DEF Inv, TypeOK
  <2>6. \A t \in SID \ {s} : chains'[t] = chains[t] /\ headers'[t] = headers[t]
    BY <2>4 DEF Inv, TypeOK
  <2>7. ASSUME NEW v \in Worker PROVE WorkerInv(v)'
    <3>1. CASE v = w
      <4>1. req[w].dev \in Device
        BY <1>1 DEF NewToken, Inv, WorkerInv
      <4> QED BY <2>1, <2>2, <2>3, <3>1, <4>1 DEF WorkerInv, InAppStart, InSetHMAC
    <3>2. CASE v # w
      BY <2>1, <2>3, <2>4, <2>6, <3>2
      DEF Inv, WorkerInv, InAppStart, InSetHMAC, RowsFor, VoucherFor
    <3> QED BY <3>1, <3>2
  <2>8. ASSUME NEW v \in Worker PROVE Exclusive(v)'
    BY <2>1, <2>2, <2>3, <2>4 DEF Inv, Exclusive, InAppStart
  <2>9. ASSUME NEW d \in Device PROVE Awaited(d)' /\ Told(d)'
    <3>1. Awaited(d)'
      BY <1>0, <1>1, <2>2, <2>3, <2>4 DEF NewToken, Inv, DeviceState, Awaited, InAppStart, InSetHMAC
    <3>2. Told(d)'
      BY <2>1, <2>4, <2>6 DEF Inv, Told, RowsFor, VoucherFor
    <3> QED BY <3>1, <3>2
  <2> QED BY <2>5, <2>7, <2>8, <2>9 DEF Inv
<1>2. CASE SetDeviceCertChain(w)
  <2>1. CASE req[w].tok \in sessions
    <3> DEFINE s == req[w].tok
               r == [req[w] EXCEPT !.pc = "buildHeader"]
    <3>1. /\ req[w].pc = "saveChain"
          /\ s \in SID
          /\ req[w].dev \in Device
          /\ \A v \in Worker \ {w} : req[v].tok # s
          /\ \A d \in Device : dev[d].tok # s
      BY <1>2 DEF SetDeviceCertChain, Inv, WorkerInv, Exclusive, InAppStart
    <3>2. /\ r \in Request /\ r.pc = "buildHeader"
          /\ r.tok = s /\ r.dev = req[w].dev /\ r.told = req[w].told
      BY <1>0 DEF Request, Control
    <3>3. /\ chains' = [chains EXCEPT ![s] = req[w].dev]
          /\ req' = [req EXCEPT ![w] = r]
          /\ UNCHANGED <<config, sessions, headers, vouchers, dev, faults>>
      BY <1>0, <1>2, <2>1 DEF SetDeviceCertChain, Continue, Request, Inv, TypeOK
    <3> HIDE DEF s, r
    <3>4. \A v \in Worker : req'[v] = IF v = w THEN r ELSE req[v]
      BY <3>3 DEF Inv, TypeOK
    <3>5. /\ chains'[s] = req[w].dev
          /\ \A t \in SID \ {s} : chains'[t] = chains[t]
      BY <3>1, <3>3 DEF Inv, TypeOK
    <3>6. TypeOK'
      BY <3>1, <3>2, <3>3 DEF Inv, TypeOK
    <3>7. ASSUME NEW v \in Worker PROVE WorkerInv(v)'
      BY <3>1, <3>2, <3>3, <3>4, <3>5
      DEF Inv, WorkerInv, InAppStart, InSetHMAC, RowsFor, VoucherFor
    <3>8. ASSUME NEW v \in Worker PROVE Exclusive(v)'
      BY <3>1, <3>2, <3>3, <3>4 DEF Inv, Exclusive, InAppStart, s
    <3>9. ASSUME NEW d \in Device PROVE Awaited(d)' /\ Told(d)'
      BY <1>0, <3>1, <3>2, <3>3, <3>4, <3>5
      DEF Inv, DeviceState, Awaited, Told, InAppStart, InSetHMAC, RowsFor, VoucherFor
    <3> QED BY <3>6, <3>7, <3>8, <3>9 DEF Inv
  <2>2. CASE req[w].tok \notin sessions
    BY <1>0, <1>2, <2>2, AbortKeeps DEF SetDeviceCertChain
  <2> QED BY <2>1, <2>2
<1>3. CASE BuildHeader(w)
  <2> PICK encoded \in EncodePublicKey(Key[req[w].dev]) :
          IF encoded = "key" /\ RvInfoFound
             THEN /\ req' = [req EXCEPT ![w] =
                        [@ EXCEPT !.pc = "saveHeader",
                                  !.header = [guid |-> NewGuid, config |-> config]]]
                  /\ UNCHANGED dev
             ELSE Abort(w)
    BY <1>3 DEF BuildHeader
  <2>1. CASE encoded = "key" /\ RvInfoFound
    <3> DEFINE h == [guid |-> NewGuid, config |-> config]
               r == [req[w] EXCEPT !.pc = "saveHeader", !.header = h]
    <3>1. h \in Header
      BY <1>3, <2>1, FreshGuid DEF BuildHeader, RvInfoFound, Header, Inv, TypeOK
    <3> HIDE DEF h
    <3>2. /\ r \in Request /\ r.pc = "saveHeader" /\ r.header = h
          /\ r.tok = req[w].tok /\ r.dev = req[w].dev /\ r.told = req[w].told
      BY <1>0, <3>1 DEF Request, Control
    <3>3. req' = [req EXCEPT ![w] = r] /\ UNCHANGED <<dbVars, dev, faults>>
      BY <1>3, <2>1 DEF BuildHeader, h
    <3> HIDE DEF r
    <3>4. req'[w] = r
      BY <3>3 DEF Inv, TypeOK
    <3>5. InAppStart(w) /\ InAppStart(w)'
      BY <1>3, <3>2, <3>4 DEF BuildHeader, InAppStart
    <3>6. WorkerInv(w)'
      BY <1>3, <3>1, <3>2, <3>3, <3>4
      DEF BuildHeader, Inv, WorkerInv, InAppStart, InSetHMAC
    <3> QED BY <3>2, <3>3, <3>5, <3>6, WorkerMoves
  <2>2. CASE ~(encoded = "key" /\ RvInfoFound)
    BY <1>0, <1>3, <2>2, AbortKeeps DEF BuildHeader
  <2> QED BY <2>1, <2>2
<1>4. CASE SetIncompleteVoucherHeader(w)
  <2>1. CASE req[w].tok \in sessions
    <3> DEFINE s == req[w].tok
               h == req[w].header
               n == [phase |-> "told", worker |-> None, tok |-> s, header |-> h]
    <3>1. /\ req[w].pc = "saveHeader"
          /\ s \in SID
          /\ h \in Header
          /\ chains[s] = req[w].dev
          /\ \A v \in Worker \ {w} : req[v].tok # s
          /\ \A d \in Device : dev[d].tok # s
      BY <1>4 DEF SetIncompleteVoucherHeader, Inv, WorkerInv, Exclusive, InAppStart
    <3>2. n \in DeviceState
      BY <3>1 DEF DeviceState, Phase
    <3>3. /\ headers' = [headers EXCEPT ![s] = h]
          /\ req' = [req EXCEPT ![w] = Idle]
          /\ dev' = [d \in Device |-> IF dev[d].worker = w THEN n ELSE dev[d]]
          /\ UNCHANGED <<config, sessions, chains, vouchers, faults>>
      BY <1>4, <2>1 DEF SetIncompleteVoucherHeader, Answer
    <3> HIDE DEF s, h
    <3>4. /\ \A v \in Worker : req'[v] = IF v = w THEN Idle ELSE req[v]
          /\ \A d \in Device : dev'[d] = IF dev[d].worker = w THEN n ELSE dev[d]
      BY <3>3 DEF Inv, TypeOK
    <3>5. /\ headers'[s] = h
          /\ \A t \in SID \ {s} : headers'[t] = headers[t]
      BY <3>1, <3>3 DEF Inv, TypeOK
    <3>6. \A d \in Device : dev[d].worker = w => d = req[w].dev
      BY NoneAssumption DEF Inv, Awaited
    <3>7. TypeOK'
      BY <3>1, <3>2, <3>3, IdleType DEF Inv, TypeOK
    <3>8. ASSUME NEW v \in Worker PROVE WorkerInv(v)'
      BY <3>1, <3>3, <3>4, <3>5
      DEF Inv, WorkerInv, InAppStart, InSetHMAC, RowsFor, VoucherFor, Idle
    <3>9. ASSUME NEW v \in Worker PROVE Exclusive(v)'
      BY <3>1, <3>4, NoneAssumption DEF Inv, WorkerInv, Exclusive, InAppStart, Idle
    <3>10. ASSUME NEW d \in Device PROVE Awaited(d)' /\ Told(d)'
      BY <1>0, <3>1, <3>3, <3>4, <3>5, <3>6
      DEF Inv, DeviceState, Awaited, Told, InAppStart, InSetHMAC, RowsFor, VoucherFor
    <3> QED BY <3>7, <3>8, <3>9, <3>10 DEF Inv
  <2>2. CASE req[w].tok \notin sessions
    BY <1>0, <1>4, <2>2, AbortKeeps DEF SetIncompleteVoucherHeader
  <2> QED BY <2>1, <2>2
<1> QED BY <1>1, <1>2, <1>3, <1>4

\* DoneKeeps: a device that is told Done, with its voucher stored.
LEMMA DoneKeeps ==
    ASSUME Inv, NEW w \in Worker, Done(w), VoucherFor(req[w].dev, req[w].told),
           sessions' \subseteq sessions, faults' \in 0 .. MaxFaults,
           UNCHANGED <<config, chains, headers, vouchers>>
    PROVE  Inv'
<1> DEFINE n == [phase |-> "done", worker |-> None, tok |-> None, header |-> req[w].told]
<1>1. n \in DeviceState
  BY DEF DeviceState, Phase, VoucherFor
<1>2. /\ req' = [req EXCEPT ![w] = Idle]
      /\ dev' = [d \in Device |-> IF dev[d].worker = w THEN n ELSE dev[d]]
  BY DEF Done, Answer
<1>3. TypeOK'
  BY <1>1, <1>2, IdleType DEF Inv, TypeOK
<1>4. /\ \A v \in Worker : req'[v] = IF v = w THEN Idle ELSE req[v]
      /\ \A d \in Device : dev'[d] = IF dev[d].worker = w THEN n ELSE dev[d]
  BY <1>2 DEF Inv, TypeOK
<1>5. \A d \in Device : dev[d].worker = w => d = req[w].dev
  BY NoneAssumption DEF Inv, Awaited
<1>6. ASSUME NEW v \in Worker PROVE WorkerInv(v)' /\ Exclusive(v)'
  BY <1>4, NoneAssumption
  DEF Inv, WorkerInv, Exclusive, InAppStart, InSetHMAC, RowsFor, VoucherFor, Idle
<1>7. ASSUME NEW d \in Device PROVE Awaited(d)' /\ Told(d)'
  BY <1>4, <1>5
  DEF Inv, TypeOK, DeviceState, Awaited, Told, InAppStart, InSetHMAC, RowsFor, VoucherFor
<1> QED BY <1>3, <1>6, <1>7 DEF Inv

\* SetHMACKeeps: the steps of SetHMAC.  They write vouchers, and never over
\* one that is there.
LEMMA SetHMACKeeps ==
    ASSUME Inv, NEW w \in Worker,
           \/ IncompleteVoucherHeader(w) \/ DeviceCertChain(w)
           \/ NewVoucher(w) \/ InvalidateToken(w)
    PROVE  Inv'
<1> USE DEF dbVars
<1>0. /\ req[w] \in Request
      /\ \A d \in Device : dev[d] \in DeviceState
      /\ faults \in 0 .. MaxFaults
  BY DEF Inv, TypeOK
<1>1. InSetHMAC(w) /\ RowsFor(req[w].tok, req[w].dev, req[w].told) /\ req[w].dev \in Device
  BY DEF IncompleteVoucherHeader, DeviceCertChain, NewVoucher, InvalidateToken, Inv, WorkerInv, InSetHMAC
<1>2. CASE IncompleteVoucherHeader(w)
  <2>1. CASE req[w].tok \in sessions /\ headers[req[w].tok] # None
    <3> DEFINE r == [req[w] EXCEPT !.pc = "readChain", !.header = HeaderOf(req[w].tok)]
    <3>1. /\ r \in Request /\ r.pc = "readChain" /\ r.header = req[w].told
          /\ r.tok = req[w].tok /\ r.dev = req[w].dev /\ r.told = req[w].told
      BY <1>0, <1>1 DEF Request, Control, HeaderOf, RowsFor
    <3>2. req' = [req EXCEPT ![w] = r] /\ UNCHANGED <<dbVars, dev, faults>>
      BY <1>2, <2>1 DEF IncompleteVoucherHeader
    <3> HIDE DEF r
    <3>3. req'[w] = r
      BY <3>2 DEF Inv, TypeOK
    <3>4. WorkerInv(w)' /\ InSetHMAC(w)'
      BY <1>1, <3>1, <3>2, <3>3 DEF WorkerInv, InAppStart, InSetHMAC, RowsFor
    <3> QED BY <1>1, <3>1, <3>2, <3>4, WorkerMoves
  <2>2. CASE ~(req[w].tok \in sessions /\ headers[req[w].tok] # None)
    BY <1>0, <1>2, <2>2, AbortKeeps DEF IncompleteVoucherHeader
  <2> QED BY <2>1, <2>2
<1>3. CASE DeviceCertChain(w)
  <2>1. CASE req[w].tok \in sessions /\ chains[req[w].tok] # None
    <3> DEFINE r == [req[w] EXCEPT !.pc = "newVoucher", !.chain = chains[req[w].tok]]
    <3>1. /\ r \in Request /\ r.pc = "newVoucher" /\ r.chain = req[w].dev /\ r.header = req[w].header
          /\ r.tok = req[w].tok /\ r.dev = req[w].dev /\ r.told = req[w].told
      BY <1>0, <1>1 DEF Request, Control, RowsFor
    <3>2. req' = [req EXCEPT ![w] = r] /\ UNCHANGED <<dbVars, dev, faults>>
      BY <1>3, <2>1 DEF DeviceCertChain
    <3> HIDE DEF r
    <3>3. req'[w] = r
      BY <3>2 DEF Inv, TypeOK
    <3>4. req[w].header = req[w].told
      BY <1>3 DEF DeviceCertChain, Inv, WorkerInv
    <3>5. WorkerInv(w)' /\ InSetHMAC(w)'
      BY <1>1, <3>1, <3>2, <3>3, <3>4 DEF WorkerInv, InAppStart, InSetHMAC, RowsFor
    <3> QED BY <1>1, <3>1, <3>2, <3>5, WorkerMoves
  <2>2. CASE ~(req[w].tok \in sessions /\ chains[req[w].tok] # None)
    BY <1>0, <1>3, <2>2, AbortKeeps DEF DeviceCertChain
  <2> QED BY <2>1, <2>2
<1>4. CASE NewVoucher(w)
  <2> DEFINE h == req[w].told
             g == h.guid
             v0 == [header |-> h, chain |-> req[w].dev, by |-> req[w].dev, over |-> h]
  <2>1. h \in Header /\ g \in Guid /\ req[w].header = h /\ req[w].chain = req[w].dev
    BY <1>1, <1>4 DEF NewVoucher, Inv, WorkerInv, RowsFor, Header
  <2>2. CASE vouchers[g] = None
    <3> DEFINE r == [req[w] EXCEPT !.pc = "invalidate"]
    <3>1. /\ r \in Request /\ r.pc = "invalidate" /\ r.chain = req[w].dev /\ r.header = h
          /\ r.tok = req[w].tok /\ r.dev = req[w].dev /\ r.told = h
      BY <1>0, <2>1 DEF Request, Control
    <3>2. v0 \in Voucher
      BY <1>1, <2>1 DEF Voucher
    <3>3. /\ vouchers' = [vouchers EXCEPT ![g] = v0]
          /\ req' = [req EXCEPT ![w] = r]
          /\ UNCHANGED <<config, sessions, chains, headers, dev, faults>>
      BY <1>0, <1>4, <2>1, <2>2 DEF NewVoucher, Continue, Request, Inv, TypeOK
    <3> HIDE DEF r
    <3>4. \A v \in Worker : req'[v] = IF v = w THEN r ELSE req[v]
      BY <3>3 DEF Inv, TypeOK
    <3>5. TypeOK'
      BY <2>1, <3>1, <3>2, <3>3 DEF Inv, TypeOK
    <3>6. ASSUME NEW d \in Device, NEW k, VoucherFor(d, k)
          PROVE  VoucherFor(d, k)'
      <4>1. k \in Header /\ k.guid \in Guid
        BY <3>6 DEF VoucherFor, Header
      <4>2. vouchers[k.guid] \in Voucher
        BY <3>6, <4>1 DEF VoucherFor, Voucher
      <4>3. k.guid # g
        BY <2>2, <4>2, NoRowAssumption
      <4> QED BY <3>3, <3>6, <4>1, <4>3 DEF VoucherFor, Inv, TypeOK
    <3>7. VoucherFor(req[w].dev, req[w].told)'
      BY <2>1, <3>1, <3>3, <3>4 DEF VoucherFor, Inv, TypeOK
    <3>8. ASSUME NEW v \in Worker PROVE WorkerInv(v)'
      <4>1. CASE v = w
        BY <1>1, <3>1, <3>3, <3>4, <3>7, <4>1 DEF WorkerInv, InAppStart, InSetHMAC, RowsFor
      <4>2. CASE v # w
        BY <3>3, <3>4, <3>6, <4>2 DEF Inv, WorkerInv, InAppStart, InSetHMAC, RowsFor
      <4> QED BY <4>1, <4>2
    <3>9. ASSUME NEW v \in Worker PROVE Exclusive(v)'
      BY <3>1, <3>3, <3>4 DEF Inv, Exclusive, InAppStart
    <3>10. ASSUME NEW d \in Device PROVE Awaited(d)' /\ Told(d)'
      <4>1. Awaited(d)'
        BY <1>0, <1>1, <3>1, <3>3, <3>4 DEF Inv, DeviceState, Awaited, InAppStart, InSetHMAC
      <4>2. Told(d)'
        BY <3>3, <3>6 DEF Inv, Told, RowsFor
      <4> QED BY <4>1, <4>2
    <3> QED BY <3>5, <3>8, <3>9, <3>10 DEF Inv
  <2>3. CASE vouchers[g] # None
    BY <1>0, <1>4, <2>1, <2>3, AbortKeeps DEF NewVoucher
  <2> QED BY <2>2, <2>3
<1>5. CASE InvalidateToken(w)
  <2>1. VoucherFor(req[w].dev, req[w].told)
    BY <1>5 DEF InvalidateToken, Inv, WorkerInv
  <2>2. /\ sessions' \subseteq sessions
        /\ UNCHANGED <<config, chains, headers, vouchers, faults>>
        /\ Done(w)
    BY <1>5 DEF InvalidateToken
  <2> QED BY <1>0, <2>1, <2>2, DoneKeeps
<1> QED BY <1>2, <1>3, <1>4, <1>5

\* FaultKeeps: what goes wrong stores nothing.
LEMMA FaultKeeps == Inv /\ Fault => Inv'
<1> SUFFICES ASSUME Inv, Fault PROVE Inv'
  OBVIOUS
<1> USE DEF dbVars
<1>0. /\ faults' \in 0 .. MaxFaults
      /\ UNCHANGED dbVars
      /\ \A w \in Worker : req[w] \in Request
      /\ \A d \in Device : dev[d] \in DeviceState
  BY FaultAssumption DEF Fault, Inv, TypeOK
<1>1. ASSUME NEW w \in Worker, StatementFails(w) PROVE Inv'
  <2>1. CASE Abort(w)
    BY <1>0, <2>1, AbortKeeps
  <2>2. CASE req[w].pc = "invalidate" /\ Done(w)
    <3>1. VoucherFor(req[w].dev, req[w].told)
      BY <2>2 DEF Inv, WorkerInv
    <3> QED BY <1>0, <2>2, <3>1, DoneKeeps
  <2> QED BY <1>1, <2>1, <2>2 DEF StatementFails
<1>2. ASSUME NEW d \in Device, dev[d].worker # None
      PROVE  /\ Unanswered(d) \in DeviceState
             /\ Unanswered(d).worker = None
             /\ \/ Unanswered(d) = NewDevice
                \/ /\ Unanswered(d).phase = "again"
                   /\ dev[d].phase = "finishing"
                   /\ Unanswered(d).tok = dev[d].tok
                   /\ Unanswered(d).header = dev[d].header
  BY <1>0, <1>2, IdleType DEF Inv, Awaited, Unanswered, DeviceState, Phase, NewDevice
<1>3. ASSUME NEW d \in Device, GiveUp(d) PROVE Inv'
  <2>1. /\ dev[d].worker # None
        /\ dev' = [dev EXCEPT ![d] = Unanswered(d)]
        /\ UNCHANGED req
    BY <1>3 DEF GiveUp
  <2>2. \A e \in Device : dev'[e] = IF e = d THEN Unanswered(d) ELSE dev[e]
    BY <2>1 DEF Inv, TypeOK
  <2>3. TypeOK'
    BY <1>0, <1>2, <2>1 DEF Inv, TypeOK
  <2>4. ASSUME NEW v \in Worker PROVE WorkerInv(v)' /\ Exclusive(v)'
    BY <1>0, <1>2, <2>1, <2>2, NoneAssumption
    DEF Inv, WorkerInv, Exclusive, InAppStart, InSetHMAC, RowsFor, VoucherFor, NewDevice
  <2>5. ASSUME NEW e \in Device PROVE Awaited(e)' /\ Told(e)'
    BY <1>0, <1>2, <2>1, <2>2
    DEF Inv, Awaited, Told, InAppStart, InSetHMAC, RowsFor, VoucherFor, NewDevice
  <2> QED BY <2>3, <2>4, <2>5 DEF Inv
<1>4. CASE Restart
  <2>1. /\ req' = [w \in Worker |-> Idle]
        /\ \A d \in Device : dev'[d] = IF dev[d].worker = None THEN dev[d] ELSE Unanswered(d)
    BY <1>4 DEF Restart
  <2>2. TypeOK'
    BY <1>0, <1>2, <1>4, IdleType DEF Restart, Inv, TypeOK
  <2>3. ASSUME NEW v \in Worker PROVE WorkerInv(v)' /\ Exclusive(v)'
    BY <2>1 DEF WorkerInv, Exclusive, InAppStart, InSetHMAC, Idle
  <2>4. ASSUME NEW d \in Device PROVE Awaited(d)' /\ Told(d)'
    BY <1>0, <1>2, <2>1
    DEF Inv, Awaited, Told, RowsFor, VoucherFor, NewDevice
  <2> QED BY <2>2, <2>3, <2>4 DEF Inv
<1> QED BY <1>1, <1>3, <1>4 DEF Fault

\* every statement, message, fault and restart preserves it,
LEMMA InvStep == Inv /\ [Next]_vars => Inv'
<1> SUFFICES ASSUME Inv, [Next]_vars PROVE Inv'
  OBVIOUS
<1>1. ASSUME NEW w \in Worker, WorkerStep(w) PROVE Inv'
  BY <1>1, AppStartKeeps, SetHMACKeeps DEF WorkerStep
<1>2. ASSUME NEW d \in Device, DeviceStep(d) PROVE Inv'
  BY <1>2, SendKeeps
<1>3. ASSUME config' \in Config \cup {None},
             UNCHANGED <<sessions, chains, headers, vouchers, req, dev, faults>>
      PROVE  Inv'
  BY <1>3 DEF Inv, TypeOK, WorkerInv, Exclusive, Awaited, Told, InAppStart, InSetHMAC, RowsFor, VoucherFor
<1>4. ASSUME NEW c \in Config \cup {None}, SetConfig(c) PROVE Inv'
  BY <1>3, <1>4 DEF SetConfig
<1>5. CASE Fault
  BY <1>5, FaultKeeps
<1>6. CASE UNCHANGED vars
  BY <1>3, <1>6 DEF vars, dbVars, Inv, TypeOK
<1> QED BY <1>1, <1>2, <1>4, <1>5, <1>6 DEF Next

\* so it always holds.
LEMMA Invariant == Spec => []Inv
  BY InvInit, InvStep, PTL DEF Spec

-----------------------------------------------------------------------------
(***************************************************************************)
(* Theorems.                                                               *)
(***************************************************************************)

\* TypeCorrect: rows, requests and devices stay well-typed for any devices,
\* requests and number of faults; in particular every voucher that
\* NewVoucher stores is complete.
THEOREM TypeCorrect == Spec => []TypeOK
<1>1. Inv => TypeOK
  BY DEF Inv
<1> QED BY <1>1, Invariant, PTL

\* OwnVoucher: for any number of devices, overlapping requests and faults, a
\* device that was told Done has its own voucher in the store, over the header
\* that it was told.
THEOREM OwnVoucher == Spec => []DoneIsOwnVoucher
<1>1. Inv => DoneIsOwnVoucher
  BY DEF Inv, Told, VoucherFor, DoneIsOwnVoucher
<1> QED BY <1>1, Invariant, PTL
=============================================================================

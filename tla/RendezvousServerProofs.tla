----------------------- MODULE RendezvousServerProofs -----------------------
(***************************************************************************)
(* The rendezvous server as a whole implements both of its sides: the      *)
(* management API reaches the protocol only through the pool, the protocol *)
(* reaches the API not at all.  What is proved of Rendezvous then bounds   *)
(* how long a removed CA matters.                                          *)
(***************************************************************************)
EXTENDS RendezvousServer, RendezvousProofs

\* VerifiedDevices: the pool trusts devices.
LEMMA VerifiedDevices == Verified \in SUBSET Guid /\ Verified' \in SUBSET Guid
  BY DEF Verified

\* StepIsRendezvousStep: every step of the server is one of the protocol side,
\* a change of the trusted devices, a restart, or nothing to the protocol.
LEMMA StepIsRendezvousStep == [ServerStep]_serverVars => [Next]_vars
  <1> SUFFICES ASSUME [ServerStep]_serverVars
               PROVE  [Next]_vars
    OBVIOUS
  <1>1. CASE ManagementStep
    BY <1>1, VerifiedDevices DEF ManagementStep, Next
  <1>2. CASE ProtocolStep
    BY <1>2 DEF ProtocolStep, Next
  <1>3. CASE ServerRestart
    BY <1>3, VerifiedDevices DEF ServerRestart, Next, AnyRestart
  <1>4. CASE UNCHANGED serverVars
    BY <1>4 DEF serverVars
  <1> QED BY <1>1, <1>2, <1>3, <1>4 DEF ServerStep

\* StepIsAPIStep: and it is one of the management API, a restart, or nothing
\* to the API.
LEMMA StepIsAPIStep == [ServerStep]_serverVars => [API!Next]_(API!vars)
  <1> SUFFICES ASSUME [ServerStep]_serverVars
               PROVE  [API!Next]_(API!vars)
    OBVIOUS
  <1>1. CASE ManagementStep
    BY <1>1 DEF ManagementStep, API!Next
  <1>2. CASE UNCHANGED apiVars
    BY <1>2 DEF apiVars, API!vars, API!handlerVars, API!ghostVars
  <1>3. CASE ServerRestart
    BY <1>3 DEF ServerRestart, API!Next
  <1> QED BY <1>1, <1>2, <1>3 DEF ServerStep, ProtocolStep, serverVars

\* ServerAlone: on the protocol side no step changes which devices are
\* trusted, and only time changes how long one has been without trust.
LEMMA ServerAlone == ServerNext => trusted' = trusted /\ (Tick \/ untrusted' = untrusted)
  BY DEF ServerNext, NewToken, Receive, WorkerStep, GetSessionID, SaveNonce,
         ReadNonce, AcceptVoucher, SetRVBlob, ReadRVBlob, InvalidateToken,
         StatementFails, ClientForgets, CleanupFires, CleanupExpiredBlobs,
         CleanupExpiredSessions, CleanupFails, environment, Tick

\* The devices the protocol trusts are those the pool verifies.
PoolDecides == trusted = Verified

\* Composition: running in one process, the protocol side behaves as
\* Rendezvous says and the management API as TrustedDeviceCA says, and the
\* devices the one trusts are at every moment those verified by the pool of
\* the other (VerifyDeviceCertChain in acceptVoucher, LoadTrustedDeviceCAs).
THEOREM Composition == ServerSpec => Spec /\ API!Spec /\ []PoolDecides
  <1>1. ServerInit => Init /\ API!Init /\ PoolDecides
    BY DEF ServerInit, PoolDecides
  <1>2. PoolDecides /\ [ServerStep]_serverVars => PoolDecides'
    <2> SUFFICES ASSUME PoolDecides, [ServerStep]_serverVars PROVE trusted' = Verified'
      BY DEF PoolDecides
    <2>1. CASE ManagementStep
      BY <2>1 DEF ManagementStep, ChangeTrusted, LoadTrusted, vars, environment
    <2>2. CASE ProtocolStep
      <3>1. trusted' = trusted
        BY <2>2, ServerAlone DEF ProtocolStep
      <3> QED BY <2>2, <3>1 DEF ProtocolStep, apiVars, PoolDecides, Verified
    <2>3. CASE ServerRestart
      BY <2>3 DEF ServerRestart, Restart, LoadTrusted
    <2>4. CASE UNCHANGED serverVars
      BY <2>4 DEF serverVars, vars, environment, apiVars, PoolDecides, Verified
    <2> QED BY <2>1, <2>2, <2>3, <2>4 DEF ServerStep
  <1> QED BY <1>1, <1>2, StepIsRendezvousStep, StepIsAPIStep, PTL
          DEF ServerSpec, Spec, API!Spec

-----------------------------------------------------------------------------
(***************************************************************************)
(* How long a removed CA matters.                                          *)
(***************************************************************************)

\* pc and certs are arrays over the handlers.
Arrays == DOMAIN pc = Handler /\ DOMAIN certs = Handler

\* The rows a handler is about to install are still those of the table.
RowsCurrent == \A h \in Handler : pc[h] = "install" => certs[h] = table

\* A CA whose removal was answered is in no row and not in the pool, and each
\* of its devices has been without trust for at least as long.
RevokedIsOut ==
    \A c \in Cert : revoked[c] # NotRevoked =>
        /\ c \notin table
        /\ c \notin pool
        /\ \A g \in Guid : IssuedBy[g] = c => revoked[c] <= untrusted[g]

Revocation ==
    /\ revoked \in [Cert -> NotRevoked .. MaxWait + 1]
    /\ Arrays
    /\ RowsCurrent
    /\ RevokedIsOut

\* InstallsTable: with one handler, what a step installs is the table; a
\* removal that is answered 204 has just installed it.
LEMMA InstallsTable ==
    ASSUME NEW h, Handler = {h}, Arrays, RowsCurrent, [API!Next]_(API!vars)
    PROVE  /\ Arrays'
           /\ RowsCurrent'
           /\ pool' = pool \/ pool' = table'
           /\ (\E c \in Cert : Answered204(c)) => pool' = table'
<1> DEFINE Quiet == Arrays' /\ RowsCurrent' /\ pool' = pool /\ ~ \E c \in Cert : Answered204(c)
<1> USE DEF Arrays, RowsCurrent, Answered204
<1>1. h \in DOMAIN pc /\ h \in DOMAIN certs
  OBVIOUS
<1>3. ASSUME UNCHANGED <<table, pool, certs, pc>>
      PROVE  Quiet
  BY <1>3
<1>4. ASSUME pool' = pool, Arrays', pc[h] # "install", pc'[h] # "install"
      PROVE  Quiet
  BY <1>4
<1>5. CASE API!RejectBody(h)
  BY <1>1, <1>4, <1>5 DEF API!RejectBody, API!Answer, API!Goto
<1>6. ASSUME NEW payload \in API!Payload, API!ImportTrustedDeviceCACerts(h, payload)
      PROVE  Quiet
  BY <1>1, <1>4, <1>6 DEF API!ImportTrustedDeviceCACerts, API!Answer, API!Begin, API!Goto
<1>7. ASSUME NEW c \in Cert, API!DeleteTrustedDeviceCACert(h, c)
      PROVE  Quiet
  BY <1>1, <1>4, <1>7 DEF API!DeleteTrustedDeviceCACert, API!Begin, API!Goto
<1>8. CASE API!ParseBlock(h)
  BY <1>1, <1>4, <1>8 DEF API!ParseBlock, API!Goto
<1>9. CASE API!CountExisting(h)
  BY <1>1, <1>4, <1>9 DEF API!CountExisting, API!Goto
<1>10. CASE API!CreateRow(h)
  BY <1>1, <1>4, <1>10 DEF API!CreateRow, API!Goto
<1>11. CASE API!ImportReturns(h)
  BY <1>1, <1>4, <1>11 DEF API!ImportReturns, API!Answer, API!Goto
<1>12. CASE API!DeleteRow(h)
  BY <1>1, <1>4, <1>12 DEF API!DeleteRow, API!Answer, API!Goto
<1>13. CASE API!FindRows(h)
  BY <1>1, <1>13 DEF API!FindRows, API!Goto
<1>14. CASE API!InstallPool(h)
  BY <1>1, <1>14 DEF API!InstallPool, API!NewPool, API!Answer, API!Goto
<1>15. CASE API!StatementFails(h)
  BY <1>1, <1>4, <1>15 DEF API!StatementFails, API!Answer, API!Goto
<1>16. ASSUME NEW c \in Cert, API!Expire(c)
       PROVE  Quiet
  BY <1>3, <1>16 DEF API!Expire, API!handlerVars
<1>17. CASE API!Restart
  BY <1>17 DEF API!Restart
<1>18. CASE UNCHANGED API!vars
  BY <1>3, <1>18 DEF API!vars, API!handlerVars
<1> QED
  BY <1>5, <1>6, <1>7, <1>8, <1>9, <1>10, <1>11, <1>12, <1>13, <1>14, <1>15, <1>16, <1>17, <1>18
  DEF API!Next, API!APINext, API!HandlerStep

\* Every step of the server preserves the inductive invariant.
LEMMA RevocationStep ==
    ASSUME NEW h, Handler = {h}, TypeOK, PoolDecides, Revocation, [ServerStep]_serverVars
    PROVE  Revocation'
<1> USE WaitAssumption DEF NotRevoked
<1>0. /\ revoked \in [Cert -> NotRevoked .. MaxWait + 1]
      /\ untrusted \in [Guid -> 0 .. MaxWait + 1]
  BY DEF Revocation, TypeOK
<1>2. /\ Arrays'
      /\ RowsCurrent'
      /\ pool' = pool \/ pool' = table'
      /\ (\E c \in Cert : Answered204(c)) => pool' = table'
  BY StepIsAPIStep, InstallsTable DEF Revocation
<1>3. ASSUME NEW g \in Guid, IssuedBy[g] \notin pool' PROVE g \notin Verified'
  BY <1>3 DEF Verified
<1>4. CASE ManagementStep
  <2>1. \A c \in Cert : revoked'[c] = IF c \in table' THEN NotRevoked
                                      ELSE IF Answered204(c) THEN 0 ELSE revoked[c]
    BY <1>4 DEF ManagementStep
  <2>2. revoked' \in [Cert -> NotRevoked .. MaxWait + 1]
    BY <1>0, <1>4 DEF ManagementStep
  <2>3. \A g \in Guid \ Verified' : untrusted'[g] = untrusted[g]
    BY <1>4 DEF ManagementStep, ChangeTrusted, LoadTrusted, vars, environment
  <2>4. ASSUME NEW c \in Cert, revoked'[c] # NotRevoked
        PROVE  /\ c \notin table'
               /\ c \notin pool'
               /\ \A g \in Guid : IssuedBy[g] = c => revoked'[c] <= untrusted'[g]
    <3>1. c \notin table' /\ c \notin pool'
      BY <1>2, <2>1, <2>4 DEF Revocation, RevokedIsOut
    <3>2. ASSUME NEW g \in Guid, IssuedBy[g] = c PROVE revoked'[c] <= untrusted'[g]
      <4>1. untrusted'[g] = untrusted[g]
        BY <1>3, <2>3, <3>1, <3>2
      <4> QED BY <1>0, <2>1, <2>4, <3>2, <4>1 DEF Revocation, RevokedIsOut
    <3> QED BY <3>1, <3>2
  <2> QED BY <1>2, <2>2, <2>4 DEF Revocation, RevokedIsOut
<1>5. CASE ProtocolStep
  <2>1. UNCHANGED <<table, pool>>
    BY <1>5 DEF ProtocolStep, apiVars
  <2>2. CASE Tick
    <3>1. \A c \in Cert : revoked'[c] = IF revoked[c] = NotRevoked THEN NotRevoked
                                        ELSE OneMore(revoked[c], MaxWait + 1)
      BY <1>5, <2>2 DEF ProtocolStep
    <3>2. revoked' \in [Cert -> NotRevoked .. MaxWait + 1]
      BY <1>0, <1>5, <2>2 DEF ProtocolStep, OneMore
    <3>3. \A g \in Guid \ trusted : untrusted'[g] = OneMore(untrusted[g], MaxWait + 1)
      BY <2>2 DEF Tick
    <3>4. ASSUME NEW c \in Cert, revoked'[c] # NotRevoked, NEW g \in Guid, IssuedBy[g] = c
          PROVE  revoked'[c] <= untrusted'[g]
      <4>1. revoked[c] # NotRevoked /\ revoked'[c] = OneMore(revoked[c], MaxWait + 1)
        BY <3>1, <3>4
      <4>2. g \notin trusted /\ revoked[c] <= untrusted[g]
        BY <3>4, <4>1 DEF Revocation, RevokedIsOut, PoolDecides, Verified
      <4> QED BY <1>0, <3>3, <4>1, <4>2 DEF OneMore
    <3> QED BY <1>2, <2>1, <3>1, <3>2, <3>4 DEF Revocation, RevokedIsOut
  <2>3. CASE ~Tick
    BY <1>2, <1>5, <2>1, <2>3, ServerAlone DEF ProtocolStep, Revocation, RevokedIsOut
  <2> QED BY <2>2, <2>3
<1>6. CASE ServerRestart
  <2>1. revoked' = revoked /\ table' = table /\ pool' = table
    BY <1>6 DEF ServerRestart, API!Restart
  <2>2. \A g \in Guid \ Verified' : untrusted'[g] = untrusted[g]
    BY <1>6 DEF ServerRestart, Restart, LoadTrusted
  <2>3. ASSUME NEW c \in Cert, revoked[c] # NotRevoked, NEW g \in Guid, IssuedBy[g] = c
        PROVE  revoked[c] <= untrusted'[g]
    BY <1>3, <2>1, <2>2, <2>3 DEF Revocation, RevokedIsOut
  <2> QED BY <1>2, <2>1, <2>3 DEF Revocation, RevokedIsOut
<1>7. CASE UNCHANGED serverVars
  BY <1>2, <1>7 DEF serverVars, vars, environment, apiVars, Revocation, RevokedIsOut
<1> QED BY <1>4, <1>5, <1>6, <1>7 DEF ServerStep

\* BoundedRevocation: with one administrator at a time, for any CAs, devices,
\* workers and limits, the devices of a CA whose removal was answered 204 are
\* sent to their owners no longer than the maximum wait from then on.  With
\* two at a time this is false: the older one of two reloads may be installed
\* last.
THEOREM BoundedRevocation ==
    ASSUME NEW h, Handler = {h}
    PROVE  ServerSpec => []RevocationBounded
<1>1. ServerSpec => []TypeOK /\ []DistrustIsBounded /\ []PoolDecides
  BY Composition, TypeCorrect, BoundedDistrust, PTL
<1>2. ServerInit => Revocation
  BY WaitAssumption DEF ServerInit, API!Init, Revocation, Arrays, RowsCurrent, RevokedIsOut, NotRevoked
<1>3. TypeOK /\ PoolDecides /\ Revocation /\ [ServerStep]_serverVars => Revocation'
  BY RevocationStep
<1>4. TypeOK /\ DistrustIsBounded /\ Revocation => RevocationBounded
  <2> SUFFICES ASSUME TypeOK, DistrustIsBounded, Revocation,
                      NEW g \in Guid, revoked[IssuedBy[g]] > MaxWait
               PROVE  ~Served(g)
    BY DEF RevocationBounded
  <2>1. IssuedBy[g] \in Cert /\ untrusted[g] \in 0 .. MaxWait + 1 /\ MaxWait \in Nat
    BY IssuedByAssumption, WaitAssumption DEF TypeOK
  <2>2. revoked[IssuedBy[g]] \in NotRevoked .. MaxWait + 1
    BY <2>1 DEF Revocation
  <2>3. revoked[IssuedBy[g]] # NotRevoked
    BY <2>1, <2>2 DEF NotRevoked
  <2>4. revoked[IssuedBy[g]] <= untrusted[g]
    BY <2>1, <2>3 DEF Revocation, RevokedIsOut
  <2>5. untrusted[g] > MaxWait
    BY <2>1, <2>2, <2>4 DEF NotRevoked
  <2> QED BY <2>5 DEF DistrustIsBounded, Served
<1> QED BY <1>1, <1>2, <1>3, <1>4, PTL DEF ServerSpec
=============================================================================

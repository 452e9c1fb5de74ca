-------------------------- MODULE RendezvousServer --------------------------
(***************************************************************************)
(* The whole rendezvous server: the protocol side (Rendezvous) and the     *)
(* management API of the trusted device CAs (TrustedDeviceCA) in one       *)
(* process (cmd/rendezvous.go, internal/handlers/rendezvous/handler.go).   *)
(*                                                                         *)
(* They share the certificate pool and nothing else: the API's reloads     *)
(* install it, acceptVoucher reads it.  What Rendezvous calls trusted is   *)
(* here the devices whose CA is in the pool and has not expired.           *)
(***************************************************************************)
EXTENDS Rendezvous, Sequences

CONSTANTS
    Cert, Handler, Malformed, Other, MaxBlocks, BodyLimit,   \* see TrustedDeviceCA
    IssuedBy                                                 \* the CA of each device

ASSUME IssuedByAssumption == IssuedBy \in [Guid -> Cert]

VARIABLES
    table, pool, expired, pc, op, body, pos, stats, certs, reply, excused,
    overtaken, claims,   \* see TrustedDeviceCA
    revoked              \* ghost: how long ago the removal of each CA was
                         \* answered 204, if it was and has not been imported since

API == INSTANCE TrustedDeviceCA

apiVars == <<table, pool, expired, pc, op, body, pos, stats, certs, reply,
             excused, overtaken, claims>>
serverVars == <<vars, apiVars, revoked>>

\* ov.VerifyDeviceCertChain(certPool) succeeds.
Verified == {g \in Guid : IssuedBy[g] \in pool \ expired}

NotRevoked == -1

ServerInit ==
    /\ API!Init
    /\ Init
    /\ trusted = Verified
    /\ revoked = [c \in Cert |-> NotRevoked]

-----------------------------------------------------------------------------
\* The removals a step answers 204.
Answered204(c) ==
    \E h \in Handler :
        /\ pc[h] = "install" /\ pc'[h] = "idle"
        /\ reply'[h] = "204"
        /\ body[h][1] = c

\* A step of the management API, or the expiry of a CA.  Nothing in the
\* protocol's tables depends on it: a blob registered for a device whose CA is
\* removed stays until it expires.
ManagementStep ==
    /\ API!APINext
    /\ ChangeTrusted(Verified') \/ (Verified' = trusted /\ UNCHANGED vars)
    /\ revoked' = [c \in Cert |-> IF c \in table' THEN NotRevoked
                                  ELSE IF Answered204(c) THEN 0
                                  ELSE revoked[c]]

\* A step of the protocol side, or time.
ProtocolStep ==
    /\ ServerNext
    /\ UNCHANGED apiVars
    /\ revoked' = IF Tick
                     THEN [c \in Cert |-> IF revoked[c] = NotRevoked THEN NotRevoked
                                          ELSE OneMore(revoked[c], MaxWait + 1)]
                     ELSE revoked

\* InitDB loads the pool, then the server listens.
ServerRestart ==
    /\ API!Restart
    /\ Restart(Verified')
    /\ UNCHANGED revoked

ServerStep ==
    \/ ManagementStep
    \/ ProtocolStep
    \/ ServerRestart

ServerSpec == ServerInit /\ [][ServerStep]_serverVars

-----------------------------------------------------------------------------
(***************************************************************************)
(* Properties.                                                             *)
(***************************************************************************)

\* RevocationBounded: with one administrator at a time, no later than the
\* maximum wait after the removal of a CA was answered 204 the server sends
\* none of its devices to the owner registered for it, whatever registrations
\* were under way, other imports and failures followed, and restarts happened
\* in between (DeleteTrustedDeviceCACert, LoadTrustedDeviceCAs, acceptVoucher,
\* RVBlob).
RevocationBounded ==
    \A g \in Guid : revoked[IssuedBy[g]] > MaxWait => ~Served(g)
=============================================================================

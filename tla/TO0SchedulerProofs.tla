------------------------- MODULE TO0SchedulerProofs -------------------------
(***************************************************************************)
(* What the scheduler guarantees for any number of devices and any delays: *)
(* it leaves the guarantees of OwnerVouchers as they are, and it renews a  *)
(* registration before it runs out.                                        *)
(***************************************************************************)
EXTENDS TO0Scheduler, OwnerVouchersProofs

\* An attempt is the attempt of some device.
AttemptHasDevice == sched \in {"load", "send"} => cur \in Guid

\* The time of a pass is counted from its start.
ClockIsOfPass == sched \in {"list", "wait"} => elapsed = 0

SchedTypeInv == SchedTypeOK /\ AttemptHasDevice /\ ClockIsOfPass

-----------------------------------------------------------------------------
(***************************************************************************)
(* The scheduler only reads the vouchers.                                  *)
(***************************************************************************)

\* StoreStepOrStutter: a step of the scheduler's specification is a step of
\* the store's, or leaves the store alone.
LEMMA StoreStepOrStutter == [SchedNext]_vars => [Next]_storeVars
  <1>1. StoreStep => Next
    BY DEF StoreStep, Next
  <1>2. Restart => Next
    BY DEF Restart, Next
  <1>3. SchedulerStep => UNCHANGED storeVars
    BY DEF SchedulerStep
  <1>4. Tick \/ Configure => UNCHANGED storeVars
    BY DEF Tick, Configure, storeVars
  <1>5. UNCHANGED vars => UNCHANGED storeVars
    BY DEF vars
  <1> QED BY <1>1, <1>2, <1>3, <1>4, <1>5 DEF SchedNext

\* ImplementsStore: the store with the scheduler running on it behaves as
\* OwnerVouchers says, so that all that is proved of OwnerVouchers holds here.
THEOREM ImplementsStore == SchedSpec => Spec
  <1>1. SchedInit => Init
    BY DEF SchedInit
  <1> QED BY <1>1, StoreStepOrStutter, PTL DEF SchedSpec, Spec

-----------------------------------------------------------------------------
(***************************************************************************)
(* Type correctness.                                                       *)
(***************************************************************************)

\* FromNowType: the time left of a delay is never negative and never more than
\* the delay.
LEMMA FromNowType ==
    ASSUME elapsed \in 0 .. DefaultTTL, NEW delay \in 0 .. DefaultTTL
    PROVE  FromNow(delay) \in 0 .. DefaultTTL
  BY TimeAssumption DEF FromNow

\* AttemptFailsType: a failed attempt leaves the scheduler well-formed.
LEMMA AttemptFailsType ==
    ASSUME SchedTypeInv, TypeOK', cur \in Guid, AttemptFails, UNCHANGED ownerInfo
    PROVE  SchedTypeInv'
  <1>1. nextTry' \in [Guid -> 0 .. DefaultTTL]
    BY TimeAssumption DEF AttemptFails, SchedTypeInv, SchedTypeOK
  <1> QED BY <1>1
          DEF AttemptFails, AfterFailure, SchedTypeInv, SchedTypeOK, AttemptHasDevice,
              ClockIsOfPass

\* AttemptSucceedsType: so does one that succeeds, whatever it does to blob.
LEMMA AttemptSucceedsType ==
    ASSUME SchedTypeInv, TypeOK', cur \in Guid, NEW granted \in 0 .. DefaultTTL,
           AttemptSucceeds(granted), UNCHANGED ownerInfo,
           blob' \in [Guid -> 0 .. DefaultTTL], stale' \subseteq Guid
    PROVE  SchedTypeInv'
  <1>1. Refresh(granted) \in 0 .. DefaultTTL
    BY TimeAssumption DEF Refresh
  <1>2. nextTry' \in [Guid -> 0 .. DefaultTTL]
    BY <1>1 DEF AttemptSucceeds, SchedTypeInv, SchedTypeOK
  <1> QED BY <1>2
          DEF AttemptSucceeds, SchedTypeInv, SchedTypeOK, AttemptHasDevice, ClockIsOfPass

\* SchedulerStepType: a step of the goroutine keeps it well-formed.
LEMMA SchedulerStepType ==
    ASSUME SchedTypeInv, TypeOK', SchedulerStep
    PROVE  SchedTypeInv'
  <1>t. /\ TypeOK
        /\ ownerInfo \in BOOLEAN
        /\ stale \subseteq Guid
        /\ old \in BOOLEAN
        /\ sched \in {"list", "loop", "load", "send", "wait"}
        /\ todo \subseteq Guid
        /\ cur \in Guid \cup {NoGuid}
        /\ elapsed \in 0 .. DefaultTTL
        /\ nextTry \in [Guid -> 0 .. DefaultTTL]
        /\ blob \in [Guid -> 0 .. DefaultTTL]
        /\ AttemptHasDevice
        /\ ClockIsOfPass
    BY DEF SchedTypeInv, SchedTypeOK
  <1>i. UNCHANGED ownerInfo
    BY DEF SchedulerStep
  <1>1. CASE ListPending
    <2>1. Pending \subseteq Guid
      BY <1>t, <1>i DEF Pending, TypeOK
    <2> QED BY <1>1, <1>t, <1>i, <2>1, TimeAssumption
            DEF ListPending, SchedTypeInv, SchedTypeOK, AttemptHasDevice, ClockIsOfPass
  <1>2. CASE ListFails
    BY <1>2, <1>t, <1>i DEF ListFails, SchedTypeInv, SchedTypeOK, AttemptHasDevice, ClockIsOfPass
  <1>3. ASSUME NEW g \in Guid, CheckVoucher(g)
        PROVE  SchedTypeInv'
    <2>1. nextTry' \in [Guid -> 0 .. DefaultTTL]
      BY <1>3, <1>t, <1>i, TimeAssumption DEF CheckVoucher
    <2> QED BY <1>3, <1>t, <1>i, <2>1
            DEF CheckVoucher, SchedTypeInv, SchedTypeOK, AttemptHasDevice, ClockIsOfPass
  <1>4. ASSUME NEW g \in Guid, CheckFails(g)
        PROVE  SchedTypeInv'
    BY <1>4, <1>t, <1>i DEF CheckFails, SchedTypeInv, SchedTypeOK, AttemptHasDevice, ClockIsOfPass
  <1>5. CASE PassEnds
    BY <1>5, <1>t, <1>i, TimeAssumption DEF PassEnds, FromNow, SchedTypeInv, SchedTypeOK, AttemptHasDevice, ClockIsOfPass
  <1>6. CASE LoadVoucher
    <2>1. cur \in Guid
      BY <1>6, <1>t, <1>i DEF LoadVoucher, AttemptHasDevice
    <2>2. CASE AttemptFails
      BY <1>i, <2>1, <2>2, AttemptFailsType
    <2>3. CASE AttemptSucceeds(0) /\ UNCHANGED <<blob, stale>>
      <3>1. 0 \in 0 .. DefaultTTL
        BY TimeAssumption
      <3> QED BY <1>t, <1>i, <2>1, <2>3, <3>1, AttemptSucceedsType
    <2>4. CASE /\ sched' = "send"
               /\ old' = FALSE
               /\ UNCHANGED <<stale, todo, cur, elapsed, nextTry, blob>>
      BY <1>t, <1>i, <2>1, <2>4 DEF SchedTypeInv, SchedTypeOK, AttemptHasDevice, ClockIsOfPass
    <2> QED BY <1>6, <2>2, <2>3, <2>4 DEF LoadVoucher
  <1>7. ASSUME NEW granted \in 0 .. DefaultTTL, Registered(granted)
        PROVE  SchedTypeInv'
    <2>1. cur \in Guid
      BY <1>7, <1>t, <1>i DEF Registered, AttemptHasDevice
    <2>2. blob' \in [Guid -> 0 .. DefaultTTL]
      BY <1>7, <1>t, <1>i DEF Registered
    <2>3. stale' \subseteq Guid
      BY <1>7, <1>t, <2>1 DEF Registered
    <2> QED BY <1>7, <1>i, <2>1, <2>2, <2>3, AttemptSucceedsType DEF Registered
  <1>8. CASE RegistrationFails
    <2>1. cur \in Guid
      BY <1>8, <1>t, <1>i DEF RegistrationFails, AttemptHasDevice
    <2> QED BY <1>8, <1>i, <2>1, AttemptFailsType DEF RegistrationFails
  <1>9. CASE NextPass
    BY <1>9, <1>t, <1>i DEF NextPass, SchedTypeInv, SchedTypeOK, AttemptHasDevice, ClockIsOfPass
  <1>10. CASE AttemptCannotRead
    <2>1. cur \in Guid
      BY <1>10, <1>t DEF AttemptCannotRead, AttemptHasDevice
    <2> QED BY <1>10, <1>i, <2>1, AttemptFailsType DEF AttemptCannotRead
  <1> QED BY <1>1, <1>2, <1>3, <1>4, <1>5, <1>6, <1>7, <1>8, <1>9, <1>10 DEF SchedulerStep

\* SchedTypeNext: every step keeps the scheduler well-formed.
LEMMA SchedTypeNext ==
    SchedTypeInv /\ TypeOK' /\ [SchedNext]_vars => SchedTypeInv'
  <1> SUFFICES ASSUME SchedTypeInv, TypeOK', [SchedNext]_vars
               PROVE  SchedTypeInv'
    OBVIOUS
  <1>1. CASE SchedulerStep
    BY <1>1, SchedulerStepType
  <1>2. CASE StoreStep
    BY <1>2 DEF StoreStep, SchedTypeInv, SchedTypeOK, AttemptHasDevice, ClockIsOfPass
  <1>3. CASE Tick
    <2>1. elapsed' \in 0 .. DefaultTTL
      BY <1>3, TimeAssumption DEF Tick, OneMore, SchedTypeInv, SchedTypeOK
    <2>2. nextTry' \in [Guid -> 0 .. DefaultTTL]
      BY <1>3, TimeAssumption DEF Tick, OneLess, SchedTypeInv, SchedTypeOK
    <2>3. blob' \in [Guid -> 0 .. DefaultTTL]
      BY <1>3, TimeAssumption DEF Tick, OneLess, SchedTypeInv, SchedTypeOK
    <2>4. stale' \subseteq Guid
      BY <1>3 DEF Tick, SchedTypeInv, SchedTypeOK
    <2> QED BY <1>3, <2>1, <2>2, <2>3, <2>4
            DEF Tick, SchedTypeInv, SchedTypeOK, AttemptHasDevice, ClockIsOfPass
  <1>4. CASE Restart
    <2>1. old' \in BOOLEAN
      BY <1>4 DEF Restart
    <2>2. /\ elapsed' \in 0 .. DefaultTTL
          /\ nextTry' \in [Guid -> 0 .. DefaultTTL]
      BY <1>4, TimeAssumption DEF Restart
    <2> QED BY <1>4, <2>1, <2>2 DEF Restart, SchedTypeInv, SchedTypeOK, AttemptHasDevice, ClockIsOfPass
  <1>5. CASE UNCHANGED vars
    BY <1>5 DEF vars, schedVars, SchedTypeInv, SchedTypeOK, AttemptHasDevice, ClockIsOfPass
  <1>6. CASE Configure
    <2>1. ownerInfo' \in BOOLEAN /\ old' \in BOOLEAN
      BY <1>6 DEF Configure, InsertOwnerInfo, UpdateOwnerInfo, SchedTypeInv, SchedTypeOK
    <2>2. stale' \subseteq Guid
      BY <1>6 DEF Configure, InsertOwnerInfo, UpdateOwnerInfo, SchedTypeInv, SchedTypeOK
    <2> QED BY <1>6, <2>1, <2>2
            DEF Configure, InsertOwnerInfo, UpdateOwnerInfo,
                SchedTypeInv, SchedTypeOK, AttemptHasDevice, ClockIsOfPass
  <1> QED BY <1>1, <1>2, <1>3, <1>4, <1>5, <1>6 DEF SchedNext

\* SchedTypeInvariant: what the theorems rest on.
LEMMA SchedTypeInvariant == SchedSpec => []SchedTypeInv
  <1>1. SchedInit => SchedTypeInv
    <2>1. SchedInit => TypeOK
      BY TypeInit DEF SchedInit, TypeInv
    <2>2. SchedInit => /\ old \in BOOLEAN
                       /\ ownerInfo \in BOOLEAN
      BY DEF SchedInit
    <2>3. SchedInit => /\ elapsed \in 0 .. DefaultTTL
                       /\ nextTry \in [Guid -> 0 .. DefaultTTL]
                       /\ blob \in [Guid -> 0 .. DefaultTTL]
                     BY TimeAssumption DEF SchedInit
    <2>4. SchedInit => /\ stale \subseteq Guid
                       /\ sched \in {"list", "loop", "load", "send", "wait"}
                       /\ todo \subseteq Guid
                       /\ cur \in Guid \cup {NoGuid}
                       /\ AttemptHasDevice
                       /\ ClockIsOfPass
      BY DEF SchedInit, AttemptHasDevice, ClockIsOfPass
    <2> QED BY <2>1, <2>2, <2>3, <2>4 DEF SchedTypeInv, SchedTypeOK
  <1>2. SchedSpec => []TypeOK
    BY ImplementsStore, TypeCorrect, PTL
  <1> QED BY <1>1, <1>2, SchedTypeNext, PTL DEF SchedSpec

\* SchedTypeCorrect: the scheduler's state keeps its types; in particular no
\* delay in the backoff map is negative or longer than the TTL TO0 asks for.
THEOREM SchedTypeCorrect == SchedSpec => []SchedTypeOK
  <1>1. SchedTypeInv => SchedTypeOK
    BY DEF SchedTypeInv
  <1> QED BY <1>1, SchedTypeInvariant, PTL

-----------------------------------------------------------------------------
(***************************************************************************)
(* Registrations are renewed in time.                                      *)
(***************************************************************************)

\* RenewedBeforeExpiry: however long a pass takes and whatever time is granted,
\* none at all included, the next attempt for a registered device is due before
\* the registration runs out, or within the retry delay of a failed one.
THEOREM RenewedBeforeExpiry == SchedSpec => []RenewedInTime
  <1>1. SchedInit => RenewedInTime
    <2> SUFFICES ASSUME SchedInit, NEW g \in Guid \ Bypass
                 PROVE  nextTry[g] - elapsed <= blob[g]
      BY DEF RenewedInTime
    <2>1. /\ nextTry = [h \in Guid |-> 0]
          /\ blob = [h \in Guid |-> 0]
          /\ elapsed = 0
      BY DEF SchedInit
    <2> QED BY <2>1
  <1>2. SchedTypeInv /\ RenewedInTime /\ [SchedNext]_vars => RenewedInTime'
    <2> SUFFICES ASSUME SchedTypeInv, RenewedInTime, [SchedNext]_vars
                 PROVE  RenewedInTime'
      OBVIOUS
    <2>t. /\ elapsed \in 0 .. DefaultTTL
          /\ nextTry \in [Guid -> 0 .. DefaultTTL]
          /\ blob \in [Guid -> 0 .. DefaultTTL]
          /\ AttemptHasDevice
          /\ ClockIsOfPass
      BY DEF SchedTypeInv, SchedTypeOK
    <2>u. ASSUME UNCHANGED <<elapsed, nextTry, blob>> PROVE RenewedInTime'
      BY <2>u DEF RenewedInTime
    <2>1. CASE SchedulerStep
      <3>1. CASE AttemptFails /\ cur \in Guid
        BY <2>t, <3>1, TimeAssumption DEF AttemptFails, RenewedInTime
      <3>2. ASSUME NEW granted \in 0 .. DefaultTTL, Registered(granted)
            PROVE  RenewedInTime'
        <4>1. cur \in Guid
          BY <2>t, <3>2 DEF Registered, AttemptHasDevice
        <4>2. granted > 0 => Refresh(granted) <= granted
          BY DEF Refresh
        <4>3. Refresh(granted) \in Nat
          BY TimeAssumption DEF Refresh
        <4> QED BY <2>t, <3>2, <4>1, <4>2, <4>3
                DEF Registered, AttemptSucceeds, RenewedInTime
      <3>3. CASE cur \in Bypass /\ AttemptSucceeds(0) /\ UNCHANGED blob
        BY <2>t, <3>3 DEF AttemptSucceeds, RenewedInTime
      <3>4. ASSUME NEW g \in Guid, CheckVoucher(g)
            PROVE  RenewedInTime'
        BY <2>t, <3>4, TimeAssumption DEF CheckVoucher, RenewedInTime
      <3>5. CASE LoadVoucher
        <4>1. cur \in Guid
          BY <2>t, <3>5 DEF LoadVoucher, AttemptHasDevice
        <4>2. CASE UNCHANGED <<elapsed, nextTry, blob>>
          BY <2>u, <4>2
        <4> QED BY <3>1, <3>3, <3>5, <4>1, <4>2 DEF LoadVoucher
      <3>6. CASE RegistrationFails \/ AttemptCannotRead
        BY <2>t, <3>1, <3>6 DEF RegistrationFails, AttemptCannotRead, AttemptHasDevice
      <3>7. CASE ListPending
        BY <2>u, <2>t, <3>7 DEF ListPending, ClockIsOfPass
      <3>8. CASE PassEnds
        BY <2>t, <3>8, TimeAssumption DEF PassEnds, FromNow, RenewedInTime
      <3>9. CASE ListFails \/ NextPass \/ \E g \in Guid : CheckFails(g)
        BY <2>u, <3>9 DEF ListFails, CheckFails, NextPass
      <3> QED BY <2>1, <3>2, <3>4, <3>5, <3>6, <3>7, <3>8, <3>9 DEF SchedulerStep
    <2>2. CASE Tick
      <3> SUFFICES ASSUME NEW g \in Guid \ Bypass, blob'[g] > 0
                   PROVE  \/ nextTry'[g] - elapsed' <= blob'[g]
                          \/ nextTry'[g] - elapsed' <= RetryDelay
        BY DEF RenewedInTime
      <3>1. blob[g] > 0 /\ blob'[g] = blob[g] - 1
        BY <2>t, <2>2 DEF Tick, OneLess
      <3>2. CASE sched \in {"list", "wait"}
        BY <2>t, <2>2, <3>1, <3>2, TimeAssumption DEF Tick, OneLess, ClockIsOfPass, RenewedInTime
      <3>3. CASE sched \notin {"list", "wait"}
        BY <2>t, <2>2, <3>1, <3>3, TimeAssumption DEF Tick, OneMore, RenewedInTime
      <3> QED BY <3>2, <3>3
    <2>3. CASE Restart
      BY <2>t, <2>3, TimeAssumption DEF Restart, RenewedInTime
    <2>4. CASE StoreStep \/ Configure \/ UNCHANGED vars
      BY <2>u, <2>4
         DEF StoreStep, Configure, InsertOwnerInfo, UpdateOwnerInfo, vars, schedVars
    <2> QED BY <2>1, <2>2, <2>3, <2>4 DEF SchedNext
  <1> QED BY <1>1, <1>2, SchedTypeInvariant, PTL DEF SchedSpec
=============================================================================

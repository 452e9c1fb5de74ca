# go-fdo-server: TLA+ models, checks and proofs

go-fdo-server implements the three servers of FIDO Device Onboard: the
*manufacturing* server initialises devices (DI) and issues ownership vouchers,
the *rendezvous* server tells a device where its owner is (TO0 registers, TO1
asks), and the *owner* server registers its devices (TO0) and onboards them
(TO2). The protocol messages themselves are handled by the go-fdo library; this
repository supplies the state the library works on, the management APIs and the
background work. That is what is modelled here.

## Inventory

| Part | State | Operations | Hard because |
|---|---|---|---|
| Trusted device CAs (`internal/state/deviceca.go`, `internal/handlers/deviceca`) | a table; an in-memory `CertPool` behind a mutex | import, delete, list, get, reload | check-then-insert; the pool is a copy of the table, made in two steps by concurrent handlers; failures between the steps |
| Rendezvous sessions and blobs (`internal/state/token.go`, `to0.go`, `to1.go`, `rvblob.go`, `internal/handlers/rendezvous`) | `sessions`, `to0_sessions`, `to1_sessions`, `rv_blobs`; the cleanup timer | token and nonce functions, `acceptVoucher`, `SetRVBlob`, `RVBlob`, periodic cleanup | a session can vanish between check and use; expiry boundaries; trust is checked once and its result stored; foreign keys per connection |
| Owner vouchers (`api/handlers/vouchers.go`, `internal/db/db.go`, `state_vouchers.go`) | `vouchers`, `device_onboarding` | import, resell, replacement at the end of TO2, queries | two tables that must agree, written by three overlapping operations; GUIDs that change |
| TO0 scheduler (`cmd/owner.go`, `internal/to0`) | the backoff map, a ticker | one pass over the pending vouchers per tick | works on a list that grows old; one goroutine for all devices; backoff lost on restart |
| Rendezvous information (`api/handlers/rvinfo.go`, `internal/handlers/rvinfo`, `internal/state/rvinfo.go`, `internal/db`) | one row of CBOR | V1 POST/PUT/GET, V2 PUT/GET/DELETE, migration | three formats, four hand-written conversions, two APIs on one row |
| Owner redirect information (`api/handlers/ownerinfo.go`) | one row of JSON | POST/PUT/GET | read for every TO0 attempt, changed without telling the scheduler |
| TO2 session state and module state machines (`internal/db/state_to2.go`, `cmd/owner.go`, `cmd/config.go`) | `sessions`, `to2_sessions`, `replacement_vouchers`, `key_exchanges`; a map of iterators | column-wise updates; `Module`, `NextModule`, `CleanupModules` | unsynchronised map; half of the state in memory, half in the database; updates that do not notice a missing row; files checked at startup and opened later |
| Device initialisation (`internal/handlers/manufacturing`, `cmd/manufacturing.go`, `internal/db`) | `sessions`, `device_info`, `incomplete_vouchers`, `vouchers` | the calls of AppStart and SetHMAC | two messages that meet in the database; lost answers and repeated requests; the configuration changes between them |
| Server lifecycle (`cmd/*.go`) | listener, signal goroutine | start, shutdown | shutdown is not waited for |
| Configuration, keys, health, TLS, generated API code | – | – | stateless or I/O |

The parts meet in the database and in three other places: the CA pool that the
management API rebuilds is what `acceptVoucher` verifies against; the scheduler
reads what the voucher handlers and TO2 write; the configuration of the
manufacturing server becomes part of each voucher and thus decides where the
owner's scheduler registers the device.

`PROJECT.json` lists the same parts as components, with the lines each
definition translates, and under *hazards* each place where something can go
wrong that a test would hardly reach.

## Modules

Every module takes a database statement, or an explicit transaction, as atomic
and lets everything else interleave. Every module has a `Restart` action that
can happen at any point: the tables stay, the memory goes.

**`TrustedDeviceCA`.** `table` and `pool` are the rows and the `CertPool`; each
handler has a program counter that follows the code from one statement to the
next: `ParseBlock` is the head of the import loop, `CountExisting` and
`CreateRow` are its two statements, `FindRows` and `InstallPool` are the two
halves of `LoadTrustedDeviceCAs`. A PEM file is a sequence of certificates,
malformed blocks and blocks of other types. `LimitReader` is applied twice, as in
the code: by the middleware and by the handler. `claims`, `excused` and
`overtaken` are history variables; the last two say whether the pool has an excuse
for not being the table: a statement failed, or another reload was installed, after
its rows were read. The 413 branch is in the model and cannot be taken, because
the middleware has already cut the body at the limit the handler checks.

**`Rendezvous`.** A worker is a goroutine serving one message. The first message
of a protocol creates a session and stores a nonce, the last one reads the nonce,
stores or reads a blob and invalidates the token; the order of these calls is the
library's (external), each call is the repository's. Clients send any token they
hold at any time, so messages are repeated, reordered and abandoned. Time is
relative: sessions have an age and blobs a time left, and `Tick` moves both,
including an expiry that has been computed and is not stored yet. `FKEnforced`
says what the connections of the pool do about foreign keys: `{TRUE}` for
PostgreSQL or a pool of one connection, `{TRUE, FALSE}` for a SQLite pool in
which one connection has executed the PRAGMA.

**`RendezvousLease`** is the abstract specification of the same server, as its
clients see it: a registration is a lease. It is accepted (`Accept`) while the device
is trusted, for a time between the limits that counts from then; it takes effect
(`Grant`) only after that and with the time it still has; and a lease is changed by
nothing but time and another such registration. A restart loses what was accepted and
leaves the leases. `Rendezvous` implements it (`ImplementsLeases`) with the blobs' time
left as the leases and the workers about to store a blob as what is accepted; the
sessions, the nonces and the cleanup are steps that may not change a lease.

**`RendezvousServer`** composes the two: it extends `Rendezvous` and has an instance
`API` of `TrustedDeviceCA`; `trusted` is at every moment `Verified`, the devices whose
CA is in the pool and has not expired. A step is one of the management API, one of the
protocol or time, or a restart of both. `revoked` is a history variable: the time since the
removal of a CA was answered 204.

**`OwnerVouchers`.** A voucher is its GUID. Importers go through a PEM file block
by block; `InsertVoucher` and `ReplaceVoucher` are two transactions that write the
`vouchers` row first, so that others wait for them. The transaction of `RemoveVoucher`
reads first, and at READ COMMITTED, the default of PostgreSQL, others can commit before
it deletes: `ResellReads` and `ResellDeletes` are its two sides. If the voucher is gone by
then the DELETE finds no row, which is no error (`missed`), and the onboarding row that is
there later goes as well (`ResellUntracks`). SQLite serialises transactions; its behaviours
are those of the model in which the steps of a resale follow one another. `untracked` is a
history variable: the vouchers that need not have an onboarding row. TO2 workers load a
voucher and replace it later, whatever happened to it meanwhile.

**`TO0Scheduler`** extends `OwnerVouchers` with the scheduler goroutine, so
that imports, resales and TO2 happen between any two of its steps. The unit of
time is the 10-second tick. `nextTry` is the backoff map as time left, during a pass
counted from the moment the pass goes by, `elapsed` ticks ago; `FromNow` is what is left
when it ends. A pass may take any time, and how long it waits for the ticker is left open,
since a tick of before is kept in the channel. `Registered` grants any time up to the one
asked for, 0 included, which `Refresh` turns into the default like the code. A device's
rendezvous server may refuse (`Unreachable`; also the case of a device without
usable directives), never answer (`Silent`), or not be needed (`Bypass`; whether the
directives of such a device all are RV bypass is left open at each attempt).
The owner's redirect information is `ownerInfo`, set by POST and changed by PUT
(`InsertOwnerInfo`, `UpdateOwnerInfo`); what is told apart of its content is
whether the rendezvous servers (`stale`) and the attempt under way (`old`) have
addresses that are no longer in the row.

**`RvInfo`.** JSON and CBOR values are tuples of a type and a content, so that a
conversion that changes the type, or refuses a value, is visible. All sixteen
keys of both formats are modelled. `Legacy` are the V1 documents that an earlier
release left in the row. Which texts are IP addresses, or bytes in hex, and
their canonical form are the constants `IPText` and `HexText`, of which only is assumed
that what is printed is read as what was printed (`TextAssumption`). A document is any
JSON; `DocumentAssumption` says what `encoding/json` makes of it: values of the JSON
types, no field that `rvHuman` does not have. V1 appends the fields that are present in
the order of the struct (`InOrder`). `Saturates` chooses between the two results that builds
give for the out-of-range conversion of a float64 to uint32. The Save of gorm is
an UPDATE and an INSERT (external).

**`ServiceInfo`.** TO2 as the owner server sees it. A message of the device is the
sequence of calls that the library makes (`Script`, external); each call is the
repository's: `SetColumn` and `GetColumn` are the functions of `state_to2.go`,
with `Creates` telling those that create a row (`FirstOrCreate`, `Save`) from
those that are an UPDATE; `CurrentModule`, `MoveIterator` and `Cleanup` are the
methods of `moduleStateMachines`; `YieldsNext` is `ownerModules` from one yield to
the next. An entry of `Fsims` is one file of an operation, since each is yielded
by itself. `disk` are the paths that can be opened; `Validates` looks at it at
startup only. A session touches its own rows and its own iterator only, and a
device waits for an answer before it sends the next message. The map of iterators
is not synchronised: the Go runtime ends the process when it sees a collision
(`Restart`) and otherwise nothing happens. Rows of `to2_sessions`,
`replacement_vouchers` and `key_exchanges` have no foreign key and stay when their
session goes. `Ends` is where the iteration may end early: at an upload whose replacement
GUID cannot be looked up. `acked`, `ran`, `logged` and `cut` (the uploads that ended the
list) are history variables.

**`Manufacturing`.** Two messages of DI, AppStart and SetHMAC, each served by a
worker statement by statement: the new session, the stored chain, the header with
its random GUID and the rendezvous information of that moment, and in the second
message the reads of both, the voucher and the end of the session. A voucher
records whose chain it has and which header the HMAC is over, so that a mix-up of
two devices or of two headers is visible. What the device does (external) is part of
the model, because the hard cases begin with it: it gives up on an answer, sends
SetHMAC again while the first one is still being served, or starts over.
`EncodePublicKey` is `encodePublicKey` of `cmd/manufacturing.go`, with the failed
type assertion for a key of the other family. A shutdown is a `Restart` like any
other, since the process does not wait for what `Shutdown` drains.

The `MC*` modules add symmetry sets, the entries of `ServiceInfo`, the issuer of
`RendezvousServer`, the keys of `Manufacturing` and, for `RvInfo`, the documents to
try. `TO0Scheduler` needs none.
The `*Proofs` modules hold the theorems.

Operators named `Mutant...` are plausible mistakes, each in front of the
definition it stands in for; nothing uses them but the mutation runs, which show
that each property notices one.

## Runs

Passing runs:

| Run | Instance | States | Shows |
|---|---|---|---|
| `ca_race` | 2 handlers, 1 certificate, 2 blocks, failing statements, fairness | 113,993 | `EachRowClaimedOnce`, `StatsAddUp`: the count/insert race never counts a row twice, and the fields add up to the blocks the loop is past (`Passed`); `SettledPoolIsTable`: the pool settles on the table unless a statement failed or a reload was overtaken; `RequestsAnswered` |
| `rv_server` | 2 workers, 1 session, 1 device, minimum = maximum wait = 1, requests of 0 to 2, session timeout 1, failing statements, fairness | 101,586 | `NoOrphans`, `DistrustIsBounded`, `CleanupKeepsServed`, `HandshakesAreWhole`, `ExpiredBlobsGo`, `AbandonedSessionsGo`, and the refinement `ImplementsLeases` |
| `rv_trust` | 1 handler, 1 certificate, 1 worker, 1 session, 1 device, waits of 0 and 1, failing statements | 1,215,885 | `RevocationBounded`: after the 204 of a DELETE the devices of the CA are served no longer than the maximum wait |
| `owner` | 2 GUIDs, one with a rendezvous server that refuses or with bypass directives, 1 importer, 1 resale, 1 TO2 worker, two of them at once, the scheduler, failing statements, fairness | 323,280 | `PendingIsOwned`, `ImportedIsTracked`, `CompletionSticks`, `RenewedInTime`, `PendingRegistered` |
| `rvinfo_codec` | every key, boundary values and refused values, documents of up to two directives | 25,191 | `ConfigReadable`, `V2ReadWriteKeeps`, `V1ReadWriteKeeps` |
| `si_modules` | 1 session, one entry of each module, a file and a directory that come and go, failing statements, fairness | 20,616 | `ReportedIsStored`, `InConfiguredOrder`, `SkipsAreExplained`, `ServiceInfoEnds` |
| `mfg` | 2 devices, 2 workers, 2 sessions, 4 GUIDs, 2 configurations, one fault, fairness | 351,444 | `DoneIsOwnVoucher`, `DeviceInitialised` |

Runs that find a disagreement between the code and what it says of itself:

| Run | What happens | Against |
|---|---|---|
| `ca_stale_pool` | of two concurrent reloads the older one is installed last; a deleted CA stays trusted | the comment of `LoadTrustedDeviceCAs` |
| `rv_orphans` | nonce rows outlive their session | "prevent orphaned sessions" (to0.go) |
| `to0_silent` | one silent rendezvous server stops TO0 for all devices | README: "tries until the onboard is successful" |
| `rvinfo_ext_rv` | V1 accepts an `ext_rv` that nothing can read back | db_cbor_test.go |
| `si_mandatory` | a mandatory download whose file is gone is skipped and onboarding completes | CONFIG.md on `may_fail` |

### Observations without a run

The models also show, or modelling met, the following; none has a run of its own.

* An import of CAs that fails after its first row is answered 500 without a
  reload (`internal/handlers/deviceca/handler.go:198`); repeated, it counts the row
  as skipped, reloads nothing and is answered 200, so the certificate is in the
  table and not trusted until the next change. `device-ca.yaml:161` calls the
  operation idempotent. A failed statement is one of the two excuses of
  `SettledPoolIsTable`.
* A body over 1MB is cut by `bodySizeMiddleware` (`internal/handlers/rendezvous/handler.go:142`)
  and imported in part; the 413 of `device-ca.yaml:272` is never sent.
* After a failure TO0 is tried again after 10 seconds (`cmd/owner.go:307`), where the
  comment above it says 60.
* V2 DELETE answers with the configuration it read, and deletes the one that is
  there by then (`internal/handlers/rvinfo/handler.go:143`; `rvinfo.yaml:187`).
* A V2 delay past the range of uint32 is stored as another delay
  (`internal/handlers/rvinfo/parser.go:239`, `ToUint32` in the model) while the answer
  repeats the request.
* `components.yaml` lists `wired_*` media; the code accepts `eth_all` and `wifi_all`.
* Import, TO2, import again, resale: `RemoveVoucher` (`internal/db/state_vouchers.go:171`)
  deletes the row of the old GUID and with it the completion that `ListDevices`
  looks for, so an onboarded device is listed as not onboarded (`Untrack`).
* An upload that cannot find the replacement GUID (`cmd/owner.go:449`) ends the
  list of modules instead of skipping the entry; TO2 completes without the
  modules that follow, and the log names the upload only. That is the one kind of entry
  left out without a log that `SkipsAreExplained` allows.
* On PostgreSQL a resale may read a voucher that TO2 replaces before the resale deletes it:
  the DELETE of no row is no error (`internal/db/state_vouchers.go:166`), so the resale is answered
  with an extended voucher of a device that has just been onboarded, and the DELETE after it
  removes the completed onboarding row, or the row of a voucher imported since, of which the
  scheduler then knows nothing. `CompletionSticks` and `ImportedIsTracked` allow this
  and nothing else.
* A rendezvous server that grants a wait of 0 (one with `to0_max_wait` 0 does,
  `internal/handlers/rendezvous/handler.go:181`) has stored a blob that is over at once; `cmd/owner.go:311`
  takes the 0 for no answer and leaves the device alone for 300 s. `RenewedInTime` is about
  devices that are registered; this one is not.
* The list of a pass is not a promise: a device resold or onboarded between
  `IsTO2Completed` or the load of its voucher and the answer of the rendezvous server is
  registered once more, for the time granted (`cmd/owner.go:282-304`).
* `to2_completed` is only set by `ReplaceVoucher`, which TO2 with credential reuse
  does not call: such a device stays pending and TO0 is repeated for it.
* Without an `owner_info` row every TO0 attempt fails and is repeated every ten
  seconds, also for a device whose directives are all RV bypass and which needs
  none (`internal/to0/to0.go:45` comes first). A JSON list without an address is
  accepted as the owner's addresses.
* A changed address reaches the rendezvous servers with the next refresh only, up to
  the time they granted later; `PendingRegistered` says that it does.
* `Serve` returns as soon as `Shutdown` begins (`cmd/manufacturing.go:149`,
  `cmd/rendezvous.go:209`, and the owner alike), then `Start` and `main` return: the
  requests that `Shutdown` drains are cut off, where the comment at
  `cmd/manufacturing.go:141` says that the server is shut down gracefully.
* If the answer to SetHMAC is lost, the voucher is stored and the session may be
  gone: a device that starts over gets a second voucher under another GUID, and the
  first one stays. `DoneIsOwnVoucher` is about the one that the device was told.
* `InvalidateToken` of DI deletes the session and leaves the rows of `device_info` and
  `incomplete_vouchers`.
* A device that asks for a key of another family than the manufacturer's makes
  `encodePublicKey` panic (`cmd/manufacturing.go:265`); `net/http` recovers and closes
  the connection, and the session stays.

### Bounds

`MaxBlocks`, `MaxRequests`, `BodyLimit`, `MaxRequest`, `SessionMaxAge`, `MaxWait`, `DefaultTTL`,
`RetryDelay`, `MaxPort`, `MaxUint32` and `MaxFaults` are the bounds. Two handlers
and two blocks are enough for a race between the loops of two requests and for a
failure between two rows; the handlers share nothing but the table and the pool.
Waits of 0, 1 and 2 around limits of 1 are below, at and above them, and ages and
times left saturate one past their limit, where no condition tells them apart.
In `TO0Scheduler` a TTL of two ticks and a delay of one distinguish every
comparison with the time of the pass (the real values are 30 ticks and one).
Ports and uint32 are scaled down: each range keeps 0, its ends and one past. Two
GUIDs allow a device and its replacement, imported, replaced and resold in any
order; `Spare` are the GUIDs that TO2 may draw. A single importer in `owner`, and two requests
at once (`MaxRequests`), keep the run with its liveness property small: a resale still overlaps
the TO2 that replaces its voucher, and the import that follows. What is proved of the
store holds for any number. The four entries of `ServiceInfo` are one of each kind, with the upload
before two others, so that what comes after a failed lookup can be left out; one
session is enough because sessions share nothing but the process. The theorems
below do not depend on any of these numbers.

Two workers share one session in `rv_server`, so that every conflict over a
session, its nonce and the device's blob happens; with one worker and two sessions
the same properties were checked too. `rv_orphans` has two of each.

`rv_trust` has one handler, so one management request is served at a time: with two,
`ca_stale_pool` shows that a removed CA may stay in the pool, and
`RevocationBounded` would be false. One worker is enough, as it may hold an accepted
registration across any number of steps of the API.

In `mfg` one fault (a failing statement, a lost answer, a restart) is enough for each
of its observations: a lost answer leaves two SetHMACs of one device under way, and a
restart may stop both devices at once. Faults past the last one would only repeat.
The second device asks for an X5Chain, which the library may refuse, and that ends a
request as the panic of `encodePublicKey` does. Random identifiers are the next unused ones, and
the identifier of a session whose token nobody holds is used again.

Symmetry is used in safety runs only. `CHECK_DEADLOCK` is on everywhere.

### Fairness

Go schedules every runnable goroutine: weak fairness of `HandlerStep`, of the
scheduler and of the cleanup's timer. Time passes: weak fairness of `Tick`. What may
fail does not fail *every* time it is tried; without that, nothing could be
promised. In `Rendezvous` this is strong fairness of the two cleanup statements, which also
says that some cleanups are not cut off by a restart; restarts, idle
cleanups and failing ones may go on for ever. In `SchedFairSpec`, of a scheduler that
lists again and again, infinitely many passes come to their end (`PassIsOver`); and for
each device whose rendezvous server can be reached, of infinitely many turns in which
it is due (`Turn`) infinitely many are not lost to a failing statement (`Checks`), some
attempts get past the database (`Loads`), and some are granted time with addresses that do not
change meanwhile (`Accepts`). Passes with nothing to do, turns in backoff, changes
of the addresses and restarts may go on for ever: a backoff that never expires, or a due
device that is passed over, is a violation. In `ServiceInfo`,
`<>[][~Restart]_vars` says that the server does not restart for ever. In
`Manufacturing` strong fairness of a worker and of a device makes up for what the
bounds take away: there is always a goroutine for a request and an unused
identifier, and a device goes on until it is done. The cleanup is taken to be enabled
(`cleanupInterval` not 0). In `ServiceInfo` a device
goes on sending until it is done or has failed, gives up when the server is down,
and does not exchange data with one module for ever (strong fairness of
`SendLast`); nothing is assumed of the iterator but that its step is taken.
`to0_silent` uses the same fairness: the scheduler is
stuck although everything it waits for is given its chance.

## Proofs

All theorems hold for every value of the constants that satisfies the named
assumptions next to their declaration.

* **`TrustedDeviceCAProofs`.** `TypeCorrect`. `ClaimedOnce`: with the type
  invariant `EachRowClaimedOnce` is inductive, because the insert, not the count,
  decides; `DeleteRow` removes the row and its claim together.
  `SettledPool`, for any number of handlers, needs `PoolOwed`: while the pool is not
  the table and nothing excuses it, some handler is committed to a reload (it has
  created or deleted a row, or has read the rows); and the rows a handler has read
  are the table, unless it was overtaken or another handler will still install a pool.
  `StatsCorrect`: `Tally` says of each place in the loop how far the fields are ahead of
  the blocks passed: a certificate that is being looked up or created is detected and
  not yet imported or skipped.
* **`RendezvousProofs`.** `TypeCorrect`, which includes that no blob has more than
  the maximum wait left. `BoundedDistrust` rests on `Lease`: for a device that is not
  trusted, the time since it lost trust plus the time its blob, or an accepted and
  not yet stored registration, has left is at most the maximum wait; accepting
  needs trust, and each tick moves one from the second to the first.
  `OrphanFree` assumes `FKEnforced = {TRUE}`, the very thing `rv_orphans`
  takes away. `HandshakesWhole` does not: with `NewSessionIsOwn`, a worker that makes a
  session has a token that nobody else holds and no nonce belongs to, until the nonce is
  saved, and a deletion takes a session with the rows that refer to it or leaves
  rows without it, never the other way round. `CleanupSafe` is a step property that
  follows from the type invariant, one action at a time. `LeasesImplemented`: each step maps
  to a step of `RendezvousLease` or changes nothing there; a step of `acceptVoucher` is an
  `Accept` (`AcceptIsStep`), the storing of a blob a `Grant` of what was accepted
  (`SetIsGrant`), and a cleanup, as it deletes only what is over, no step at all.
* **`RendezvousServerProofs`.** `Composition`: a behaviour of `RendezvousServer` is one
  of `Rendezvous` and one of `TrustedDeviceCA`, with the pool of the one deciding whom
  the other trusts. All theorems about the two so hold of the whole server.
  `BoundedRevocation`, for any certificates, devices and workers, assumes a single
  handler, as `RevocationBounded` is false for two (`ca_stale_pool`). Its invariant
  `Revocation` says that the rows about to be installed are the table (`RowsCurrent`),
  that a CA whose removal was answered is in no row and not in the pool, and that each of
  its devices has been without trust at least as long; `DistrustIsBounded` does the rest.
* **`OwnerVouchersProofs`.** `TypeCorrect` needs that an importer at a voucher
  (`AtVoucher`) has a block that is a GUID at the head of its list.
  `OwnedWhilePending` and `NoneForgotten` are proved together as `Tracking`:
  the insert transaction adds voucher and row, the resale removes both, or a row whose
  voucher it `missed`, and the replacement completes the old row as its voucher goes.
  `CompletionIsFinal`: the import leaves a row that is there as it is, and a row is deleted
  by a resale only, with the voucher or by one that missed it. All of this holds with
  transactions that overlap as READ COMMITTED lets them.
* **`TO0SchedulerProofs`.** `ImplementsStore`: every step of the composition is a
  step of `OwnerVouchers` or leaves it alone, so all of the above hold of the
  owner server with its scheduler. `SchedTypeCorrect` keeps, too, that an attempt is for a
  device and that no pass means no time elapsed (`ClockIsOfPass`). `RenewedBeforeExpiry`:
  given these, `RenewedInTime` is inductive: a registration sets both times, the
  one until the next attempt, from the moment of the pass, and the one granted, 0
  included; a tick takes one from each; and a failure sets the retry delay.
* **`ServiceInfoProofs`.** `TypeCorrect`. `OrderKept` needs, per session, that
  NextModule is the last call of a message and comes after a `Module` that found
  the iterator (`NextGuarded`; the message that completes the devmod excepted, before
  which the device was given nothing, `NoneBefore`), and that an iterator is not
  behind what the device was given (`Behind`). A restart drops the iterator; the
  next message's `Module` then fails before NextModule could make a new one.
  `ReportsAreTrue` needs that each UPDATE among the calls left of a message has its
  row or is behind the call that creates it (`RowFirst`), and which rows a session
  has at each message (`Rows`). `SkipsExplained` needs `Complete`: every entry up to where an
  iterator is was given, logged or cut off by an upload (`Accounted`), and none is made before
  the devmod is complete; one
  made earlier would pass over everything, as for a device that supports nothing.
* **`ManufacturingProofs`.** `TypeCorrect`, and `OwnVoucher` by an invariant that follows
  a device's identity through both messages: what a worker holds, it holds of its own
  device and session (`WorkerInv`); while AppStart is being served nobody else has its
  token (`Exclusive`), so the rows a device was told of are not changed afterwards
  (`Told`); and the worker a device waits for serves its request (`Awaited`), not
  an earlier one.
* **`RvInfoProofs`.** The inductive invariant says of the row that it is what an earlier
  release left, or a configuration in which every instruction is `Kept`: in range, and
  read by V2 as what is stored when V2 prints it; if V1 wrote it, also
  `KeptV1`, and the variables are in the order of the fields, each once (`StoredV1`).
  Each conversion is proved kind by kind (`KeptV2`, `KeptField`), then for directives of
  any length (`ParsedV1`, `ParsedV2`, `ReadWriteV1`, `ReadWriteV2`); that V1 reads back the
  same order rests on `InOrderKeys`. From it follow `TypeCorrect`, `V2ReadWrite`,
  `V1ReadWrite` and `OnlyExtRV`, which bounds what `rvinfo_ext_rv` found: nothing but
  `ext_rv` of V1 is accepted and cannot be read. `Readability` is `ConfigReadable` under the
  hypothesis that no V1 document has it, as in `rvinfo_codec`.

TLC has checked each inductive invariant, too, on the instance of its run.

Every invariant and action property of the passing runs is stated by a theorem. Only
model-checked is liveness (`RequestsAnswered`, `ExpiredBlobsGo`, `AbandonedSessionsGo`,
`PendingRegistered`, `ServiceInfoEnds`, `DeviceInitialised`): fairness and ENABLED are
beyond the prover. The theorems of `TrustedDeviceCAProofs` and `RendezvousProofs` reach the
composition through `Composition`; the prover cannot cite the theorems of a named
instance, so those about `API` are not repeated in `RendezvousServerProofs`.

## Not modelled, and why

Cryptography, encodings of keys and certificates, and the order of the library's
calls are external. List and get operations change nothing. The rate limiter only
drops requests. Health, configuration, TLS setup and generated code have no
state. TO2 with credential reuse does not replace the voucher and is not modelled;
neither is the request for a voucher's next entry, which only reads. The parser of TO2
addresses is reduced to whether it accepts a document. The shutdown is a stop at any
point; its signal, its deadline and the listener are I/O. The owner and manufacturing
servers have no cleanup of sessions, so there is nothing to say of it.

## Plan

Done, in order of importance: trust (1), rendezvous (2), vouchers and scheduler (3),
configuration (4), TO2 and its modules (5), the abstract rendezvous server and the
composition with its management API (6), the owner's addresses (7), device
initialisation (8), and a theorem for every safety property (9).

Next:

10. Owner, rendezvous and device together, implementing an abstract specification in
    which a device only ever meets an owner that held its voucher.

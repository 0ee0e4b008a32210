# Verification of the gate controller, its gateway, backend and portal

TLA+ models of this repository's core, their TLC configurations and
machine-checked proofs. The system opens physical gates. A **controller** (Go,
`src/controller`) at the gate verifies signed commands against one pinned key
and moves a relay; when nothing can reach it, a phone redeems an **offline
grant** with it over LAN or BLE. A **gateway** (Go, `src/gateway`) signs the
commands and carries them to the controller. The **reference backend**
(TypeScript on Workers and Postgres, `src/backend`) implements the tenants'
API: sign-in, members, locations, limits and the chat webhooks. The **portal**
(TypeScript, `src/src`) is what people see in a browser or the desktop shell.

## 1. The parts, their state and how they meet

| Part | Source | State | Operations |
| --- | --- | --- | --- |
| command processor | `controller/internal/command`, `noncestore` | remembered nonces (file), release timer, command in progress | verify, mark, execute `open hold close lockdown lift ping config repair`, ack, record |
| durable state, clock | `state`, `clock` | lockdown latch, pinned gateway key, last sync (memory and one file); offset (memory) | set, repair, sync, save, stale test |
| relay | `relay` | idle, pulsing, held; pulse timers | pulse, hold, release |
| offline grants | `grants`, `lanserver`, `blesession` | pending and used challenges (memory) | open → challenge, proof → result, sweep |
| agent | `agent` | the objects above, shared | wiring, restart, `GrantEnv`, `OnRedeemed` |
| event queue | `events`, `transport` | two append-only logs with cursors, overflow log | record, drain, ack, reopen |
| device hub | `gateway/internal/hub`, `httpapi/devices.go` | connections, offline queues, ack waiters, late-ack table | register, dispatch, resolve, reconcile, poll |
| sessions, administration | `backend/src/routes/auth.ts`, `admin.ts` | users, refresh tokens, reset and verification tokens, the claim | register, log in, rotate, log out, change and reset a password, Google, claim, change users |
| open path | `routes/access.ts`, `lib/rate-limit.ts`, `routes/whatsapp.ts`, `telegram.ts`, `slack.ts` | counters, cooldown sentinels, grants, audit rows, inbound messages | open, close, consume, refund, deliver, answer |
| membership | `routes/accounts.ts`, `phones.ts` | members, invites, numbers, challenges, one-time-code budgets | invite, accept, register, add, verify, delete |
| locations, devices | `routes/locations.ts`, `devices.ts`, `PATCH /admin/limits` | locations, quotas, devices, overrides | create, delete, set, register, claim |
| gates, wear meters | `routes/access.ts`, the meter triggers of the migrations | access points, command rows, maintenance entries, meters | create, open, close, enter an inspection or a service, delete the location |
| grants over time | `routes/access.ts`, `lib/access-lookup.ts`, `app.try_consume_grant` | temporary grants with window, uses, revocation | make, revoke, list, offer, consume, give back |
| portal session | `src/lib/api.ts`, `auth.tsx`, `gateway.ts`, sign-in pages | localStorage shared by tabs; user, calls, refresh of a page | call, refresh, retry, sign in, up and out, reload |
| portal gate buttons | `AccessPoint.tsx`, `OpenGate.tsx`, `AccessPointAction.tsx`, `RateLimitNotice.tsx` | stage, refusal, timers | press, pick, answer, count down |
| portal pages | members, devices, grants, settings, dashboard, analytics, the admin tables, limits | rows shown, requests under way | load, change, revert, switch account, search |
| portal entry | `GatewayGate.tsx`, `AppLayout.tsx`, `CreateLocationModal.tsx` | gateway chosen, probes, check for a first location, its form and saves | probe, pick, cancel, check, save, leave, enter |
| address search | `MapboxAddressInput.tsx` | text, suggestions, searches under way | type, search, choose, clear |

How they meet: an open reaches the open path, which writes an audit row and
charges the limits; the gateway signs an envelope and gives it to the hub; the
hub writes it to the controller's connection or queues it; the transport hands
it to the command processor; the ack finds its dispatch or is reconciled late.
Chat providers deliver messages to webhooks that end in the same open path. The
portal calls the HTTP API with an access token that it renews by a refresh
token. In the controller goroutines share relay, clock and latch; in the
backend requests share only the database, in READ COMMITTED transactions; in
the portal the tabs share localStorage.

What is hard: goroutines between two critical sections; process death between a
file write and what depends on it; envelopes, proofs and chat messages delivered
again; timers that fire while they are cancelled; a clock that moves both ways;
handlers that read in one transaction and write in another; statements that do
not see rows inserted after they began; deadlocks that are answered by letting
the gate open; answers that reach a page after it moved on. `PROJECT.json`,
`hazards`, lists each at its line with the properties about it.

What makes each part correct is the list of properties in section 3.

## 2. Modules

| Module | Stands for | Notes |
| --- | --- | --- |
| `Relay` | `relay.Mock` | pulse timers are a set of ids: the code never cancels one |
| `ControllerState` | `state.Store`, `clock.Synced` | extends `Relay`; `gatewayTime` is the true time, `clock` what the controller reads; the wall clock after a restart is arbitrary; key and sync have a value in memory and one in the file |
| `CommandProcessor` | `command.Processor`, `noncestore.Store` | extends `ControllerState` |
| `GrantExchange` | `grants.Exchange`, LAN/BLE handlers, `Agent.OnRedeemed` | extends `ControllerState`; the rest of the controller is an `Environment` that may do what those modules can, which `ImplementsExchange` proves of the agent |
| `GrantAnchor` | a history over `GrantExchange`: the latest gateway time that any run has heard | for `ExpiredBySyncRefused` |
| `Controller` | `agent.Agent` | `CommandProcessor` and an `INSTANCE` of `GrantExchange` over one relay, clock and latch |
| `EventQueue` | `events.Queue`, `drainEvents`, `longPollCycle` | by itself |
| `Hub` | `hub.Hub` and its HTTP handlers | by itself |
| `Sessions` | `auth.ts`, the user changes of `admin.ts` | by itself |
| `SessionEras` | a history of password changes over `Sessions` | for one run |
| `OpenPath` | `logAccess`, `rate-limit.ts`, the webhooks | implements `MeteredGate` |
| `MeteredGate` | what the limits promise | abstract specification: opens of a window stay within every limit |
| `DatabaseClock` | `now()` of Postgres and SQL null | extended by the next two |
| `Membership`, `Places`, `Gates`, `GrantWindows` | people, locations with quotas and devices, gates with meters, grants of a visitor | the four parts of an account |
| `Tenancy` | all four | a behaviour is of one part (`about`): their requests take no common lock |
| `PortalSession`, `PortalEntry`, `PortalPages`, `PortalGate`, `AddressSearch` | the parts of the portal | |
| `Portal` | all of them | a behaviour is of one part (`part`), under one fairness condition |
| `..._proofs` | | theorems, section 5 |
| `MC...` | | instances for TLC |

One action is one step that another actor can come between: a critical section,
a file write, a channel operation or a relay call in Go; a statement that takes
a lock, or a commit, in the backend; what the event loop runs between two
awaits in the portal.

*Controller and hub.* `Processor.Process` is split at `Mark`'s file write, at the
move of the gate and at the latch write; `HandleProof` into the lookup with its
checks, consumption, audit record and move; `Hub.Dispatch` at each release of
the mutex and each channel operation. `nonces` and `nonceFile` are the map and
the file of the nonce store, `job` the command that is about to be executed,
`finishing` commands that took effect and are not answered yet, `firing` timers
whose function is on its way. `state.mutate` writes the whole state file and on failure
puts back a shallow copy: so `pinnedKey` (memory) and `keyFile` are two values,
and `ApplyRepairUnwritten` leaves the new key in memory though the command is
answered as failed. A gateway time is in memory (`lastSync`) before
`SaveSync` writes it (`syncFile`), which may fail with nothing but a log line, or
not happen because the process dies; `saving` is what is still to be written, and
what the goroutine of the runner or of the ping does next waits for it. In
`EventQueue`, `log` and `cursor` are the files. In `Hub`,
`buffer` and `answer` are channels, `rows` the follow-up audit rows.

*Backend.* A handler that nothing can come between is one action; one that reads
and later writes is two or more, the request waiting in `req[r]`, `work[r]` or
`tx[r]` with what it has read. A row lock is an owner or a set `held`; a second
request waits by its guard. `Revoke(S)` revokes the rows of the statement's
snapshot `S`: rows inserted since are not in it. `OpenPath` bumps counters in
place under their row locks, which is sound because nobody reads a counter
without its lock, and takes them back at a rollback. A deadlock is a cycle of
`WaitsFor`; its victim degrades to an unmetered open as `guardedCheckOpenLimits`
does. Uses of a grant are consumed and refunded in transactions of their own. A
request may die anywhere (`Abort`).

*Portal.* `store` and `cached` are localStorage, everything else is a page's own
and dies with a reload. A portal in the desktop app (`native`) has one window
and sends a request of which it saw no answer once more (`Resend`;
`gateway.ts:106`); the first may still arrive (`stray`). The gateway's refresh
tokens are those of `gateway/internal/httpapi/auth.go` and `store/users.go`; a
sign-out is answered 200 also when the lookup or the revocation failed
(`unrevoked`). In `PortalEntry` a save outlives its form: `left` is what is
still there of the page it was begun on, and decides what its end does. An
answer is served by the gateway and delivered to the page in one step, except
that of a refresh, which is served and settled separately because a reload or a
sign-out may come between. An access token may be found expired at any time.
`PortalPages` has each page as a record of how it keeps its rows (what they
depend on, whether overtaken answers are dropped, what a failed load leaves) and
each form as one of how it changes them (told, shown, loaded again; ahead of the
answer or not; what it locks).

### Abstractions

A signature is the key in the record, an altered message has the key `Forged`;
times are small integers; one access point and one device stand for all. The
content of a row of the portal is one value. The detail that the account drawer
fetches is taken as the row, and it stays open while its change is under way; a
change of two calls of which the second fails counts as done with its answer
lost, except that `PortalEntry` has the rename and the creation of a first
location apart. Writes of other people to what a page shows are left out.
The wait for the phone's location is part of the command under way. An address
found is named like the text it was searched by, and an aborted search may still
answer. The portal talks to the Go gateway (`api.ts` says so), whose refresh and
logout handlers are steps of one SQLite writer. A claim of a device may carry a
public key or none, and a device paired without one is active with `NoKey`.
Of the requests that the desktop app sends twice, those are modelled that change
what the gateway knows of a session.
In `OpenPath` counter statements may fail for no reason (`StoreFaults`), which
covers the deadlocks with locks that are not modelled, such as that of the wear
meter's trigger.

## 3. The runs

Every property of a passing run fails for a mutant of a modelled definition
(`PROJECT.json`, `mutants`); the mutants are definitions whose comment says so.

| Run | Properties | Bounds |
| --- | --- | --- |
| `command_replay` | a signed command is carried out at most once (`AtMostOnce`); lockdown ends and the key changes only as they may (`DurableStateGuarded`) | two nonces, two keys, opens, holds, pings, latches and repairs, a store of one slot, clock up to 3, two envelopes signed at any time, disk faults, restarts, WebSocket and poll |
| `grant_redemption` | `AuditedBeforeOpen`, `NoReplayOnceConsumed`, `ExpiredBySyncRefused`; every accepted proof is answered (`AcceptedIsAnswered`) | two concurrent requests, one challenge, a good grant, a forged one, one that ends early and one of another device, the clock up to 3, command pulses, syncs in memory and not yet in the file, and restarts in between, proofs sent again |
| `controller_shared` | `HoldEndsOnPurpose`, `LockdownQuiesces`, `LockdownRefusesCommands`, `HeldGateHasRelease`, `HoldIsReleased` | all commands but pings and repairs, one key, two envelopes, one redemption over the same relay and latch; time stands still, as none of these is about it |
| `event_queue` | `NothingLost`, `EventuallySent` | three events, ring of two, reserved partition of one, two overlapping drains, failing writes, one crash |
| `hub_dispatch` | `OneLiveConnection`, `ReconciledOnce`, `AckedIsAnswered`, `DispatchEnds` | two dispatches, two connections, channels of one, failing audit log |
| `sessions` | one working token per family, none revived, an admin remains, changes are by admins of that moment | two people, two requests in flight, three tokens, one reset link |
| `open_path` | counters equal opens (`CountersExact`), uses of grants are accounted for, a message acts and is answered once, `MeteredGate` is implemented (its caps and quotas here, since an hour cap of one stops whoever the cooldown would; the cooldown by the theorem `MetersTheGate`) | an admin, a member, a visitor; two requests; batches of two and three messages, delivered again; limits of one and two, one open from the portal beside the messages, one change of status; 0.75 million states |
| `tenancy` | types with foreign keys, `GrantedOnce`, `GuessesBounded`, `QuotasKept`, `KillSwitchConfirmed`, `MetersAgree`, `UsedAsShown`, `DueUntilServiced` | two people and one number, an invite; two locations, one device, two keys, three PATCHes; two gates, two commands and two maintenance entries; two grants of one or two uses, three calls; clock 0..2; two requests of each kind; 2.3 million states |
| `portal` | `NoSelfReplay`, `SignOutReaches`, `TokensOfGateway`, `RetryHeld`, `ShownAgrees`, `OneFirstHome`, `Settles` | two tabs, one with two calls at a time, or the one window of the desktop app, two gateways, two token pairs (`MaxTurns` bounds what is sent twice, too); two gates, accounts, probes, requests, saves and searches; three or four acts of the user; 0.9 million states |

Why these are enough: each bound is the least at which the case exists and the
next of its kind can meet it. The two saves of a first home are one that
outlived its form and one of the form that came next. Two requests race, a third
races like the second; a store of one slot is full with one command; a ring of
two drops at the third event; a token pair, its successor and a second session
make three tokens; a limit of one is met by the second open, and a limit of two
by one more that is in flight; the two batches share messages in opposite order,
which makes the deadlock; two acts at a page are needed for answers to cross,
the others lead there.

Three runs end in a counterexample, each a disagreement of the code with what it
or its documents say:

* `grant_single_use`: two simultaneous requests with one proof both open
  (`grants.go:256`). `NoReplayOnceConsumed` is what does hold.
* `queue_torn`: the fragment of a short write makes the next start cut off the
  audit events behind it (`queue.go:161`). `event_queue` therefore lets writes
  fail only without a trace (`HalfWrites = FALSE`).
* `sessions_password`: a password change does not end the session whose token is
  inserted while the revoking UPDATE runs (`auth.ts:630`).

Known besides, and allowed for in the properties: a late `ping` moves the clock
back behind a pruning and a pruned command is carried out twice
(`noncestore.go:73`; `AtMostOnce` excludes exactly that by `regressed`); a fired
release timer ends the hold of the next command (`command.go:265`;
`HoldEndsOnPurpose` counts it as a release); a repair whose write failed is in
force until a restart takes it back, though it was answered as failed
(`state.go:99`, `:162`; `DurableStateGuarded` allows the return of the old key
after such an answer only); a sync that was not written is forgotten by a
restart (`anchorLost` in `ExpiredBySyncRefused`); a gate whose relay fails at a
close or at the end of a hold stays held (`command.go:204`); an ack between the
ack timer and the removal of its waiter is lost (`hub.go:350`); a redemption
checked just before a lockdown may open just after it (`LockdownQuiesces` is
what holds); a lost update of `PATCH /admin/limits`; a service that is entered
with an earlier date than one already in the log becomes the meter's last
service (`MetersAgree` asks only that the meter shows the service entered last);
a use of a grant lost with a rolled-back webhook (`lost` in `UsesAccounted`);
two tabs that refresh one token; gateways switched under another tab's call
(`crossed`); a refresh that the desktop app sends twice, which may end the
session for reuse (`resent`); a sign-out that revokes nothing though it is
answered 200 (`unrevoked`); a second first home after a lost answer, after the
form was taken away with its save under way, or when the answer to a question
that another had followed put the form up (`unsure`); the form of a first
location that is never enabled again when the re-read of the session fails
(`CreateLocationModal.tsx:51`, `:70`, `AppLayout.tsx:53`), and the loading shell
of a signed-in user without an account (`AppLayout.tsx:15`, `:37`), both of
which `EntryWaits` leaves out of `Settles` by name. The hazards without a
property say why they have none.

Where a property excuses something by a history variable (`regressed`, `lost`,
`crossed`, `unrevoked`, `unsure`, `anchorLost`, `doubled`, `excused`), the
variable is set only by the step that is excused, and the mutants show that the
property is not excused always.

## 4. Fairness

`FairAgentSpec` (controller): the goroutine that executes an accepted command
goes on, armed timers expire and their functions run. Nothing is assumed of the
network, the gateway or the power. `HoldIsReleased` needs the relay to work:
with `HardwareFaults` the timer function gives up after one failure.
`FairAnchorSpec`: an accepted request runs on and pulse timers fire. The
fairness of requests is strong for a reason of the model alone: `PulseId` bounds
the timers that run at a time, and pulses of commands may take the last one
again and again, for which the code, which has no such bound, never waits.
`FairQueueSpec`: a drain starts when there is something to deliver, what was
written is acknowledged, and a connection that comes back again and again stays
long enough to deliver one event (strong fairness of `WriteOut`: without it
nothing can be promised). `FairHubSpec`: a dispatch that has begun goes on; its
select always has the timer branch. No fairness is given to controllers,
connections or acks. `PortalSpec`: as long as an answer, a timer or a countdown
is due, one of them comes (every browser request ends, by an answer or an
error); the user owes nothing, and does a bounded number of things, so that
`Settles` says what becomes of the portal once they let go. The backend has no
liveness property: its requests may be stopped anywhere, and Postgres ends
deadlocks.

## 5. Proofs

All theorems hold for every value of the constants that satisfies the named
assumptions of the modules.

* `Controller_proofs`, about the processor by itself: `TypeCorrect`;
  `CarriedOutAtMostOnce` (`AtMostOnce`, by `OnceInv`: nonces are unique among
  signed envelopes, and everything carried out or in progress is remembered in
  memory and file until its horizon, or was pruned once its window had closed; an
  envelope inside its window whose nonce is not remembered cannot have been
  pruned); `LiveNoncesStay` (`NoLiveNonceForgotten`, which no run needs any more:
  what memory holds is on file, so that neither pruning, nor a full store, nor a
  restart forgets a nonce whose envelope would still pass).
  About the agent, with any number of redemptions beside the commands:
  `AgentCarriesOutOnce`; `AgentStateIsGuarded`, `AgentLockdownRefuses` and
  `LockdownIsQuiet` (`LockdownQuiesces`), by `WorkInv`: one command is at work at
  a time, and what Verify saw of key and latch still holds;
  `AgentHeldGateIsReleasable`, for a relay that does not fail; `HoldsEndOnPurpose`.
  The invariants carry over because a step of the exchange does nothing to the
  processor but pulse the relay (`Beside`). The reverse is the refinement
  `ImplementsExchange`: every step of the processor is one that the environment
  of `GrantExchange` may take, or a stutter, so that the theorems about
  `ExchangeSpec` hold of the agent. It needs `SignedTimes`, that a ping carries a
  time the gateway's clock has reached, and it was in attempting it that the
  environment was found too narrow: it had no pulses of commands, and no ping
  that arrives late.
* `GrantExchange_proofs`: `OpensAreAudited`, `ConsumedStaysConsumed`,
  `ExpiredStaysExpired`, by `ExchangeInv`: challenges are drawn once, one that was
  consumed has left the table, and a session past its record has it on storage.
  `ExpiredStaysExpired` is about all runs together, and rests on where the latest
  time is: in memory, in the file, or both, unless it was lost. The run has the
  crash between memory and file (`DiskFaults = FALSE` there, for its size); the
  theorem has the write that fails, too.
  `AuditedBeforeOpen` alone is not inductive, since the opening step happens
  later than the record.
* `EventQueue_proofs`: `NothingIsLost`, `GrantsAreKept`, by `QueueInv`. Lines of
  a log are numbered by their places; undelivered entries are lines beyond the
  cursor, in order (`EntriesRight`); what was recorded and neither sent nor
  dropped is such an entry (`RecordedRight`); and a drainer has every entry that
  is older than one it holds earlier in its own batch (`BatchRight`). Without the
  last part nothing keeps an acknowledgement of the later of two entries from
  carrying the cursor past the earlier one. Both theorems assume `~HalfWrites`:
  with it they are false, which is the finding of `queue_torn`.
* `Hub_proofs`: `OneConnectionIsLive`, `LateAcksReconcileOnce`,
  `SuccessIsSigned`, by `HubInv`: of the connections of a controller only the
  registered one is not closed; an envelope is in one place at a time (the
  channel of a dispatch, the offline queue, a connection's buffer) and handed out
  once; a waiter that has an answer was answered by the controller; the table of
  late acks has a command only while no follow-up row was written for it.
* `Sessions_proofs`: `OneLiveTokenPerFamily`, `NoSessionRevived`,
  `AnAdminRemains`, `ActorsAreAdmins`, by `SessionsInv`: snapshots contain minted
  rows only; who resets holds the lock of an unused token; who changes a user
  holds the advisory lock, was found an admin under it, and has found another
  admin who stays. That the lock is held from the check to the commit is what makes it
  inductive.
* `Tenancy_proofs`, part by part and then for the composition (`TenancyTypeCorrect`,
  `TenancyKeeps`: a step of one part leaves the invariants of the others alone):
  - membership: `MembershipTypeCorrect`, `InvitesGrantOnce`, by `MembershipInv`
    (an invite that is being accepted has made nobody a member, and no other
    request is accepting it; a matched challenge stays as it was), and
    `GuessesAreCharged`, by `GuessesCharged`: the wrong guesses made and the
    guesses that the code still has left are together at most `MaxAttempts` for
    each challenge charged to the person. Guesses are counted as the
    elements of a set of (number, attempt) pairs, so that making one takes an
    element out of it, and no sum is needed.
  - places: `PlacesTypeCorrect`, `ClaimPairsOnce`, `QuotasAreKept`,
    `KillSwitchIsConfirmed`, by `PlacesInv`: a location that is being deleted is
    held by nobody else, a device that is being claimed (with a key or without) is
    unpaired and claimed by nobody else, and a 0 that an override carries
    has been confirmed by someone.
  - gates: `GatesTypeCorrect`, `MetersAreTrue`, `DueStays`, by `GatesInv`: a
    command under way has a number that no row of the log has yet, and an entry
    under way has read a movement that the meter did have.
  - grants: `GrantsAreUsedAsShown`, `OverStaysOver`, by `WindowsInv`: the uses of a
    grant include those that may yet be given back, are at most `max_uses`, and
    the last of them is of a call that began within the window. The call may have
    waited for the row, and be charged when the grant is shown as expired.
* `Portal_proofs`: `RefusalIsHeld` (by `NoticeStays`: unless two commands were
  under way together, a refusal that counts down is on the button and nothing is
  under way beside it); `PagesDoNotReplay` (a token that a page
  has presented is in the store only while that refresh is under way, and a token
  fetched and not yet stored was presented by nobody; a refresh is begun once,
  and sent twice by the desktop app only); `TokensBelong` and
  `SignOutsReach`, by `SessionRight` (every token a page or the store has is one
  that its gateway minted, and of a session one token works: the stored one, or
  that of the refresh under way; a family that the gateway failed to revoke is
  in `unrevoked`); `OneHomeIsMade`, by `EntryInv` (a form has one save at a time
  and is of the account in force; while an account is not in `unsure`, every save
  of it that may still create has its form, and a form that is up, or an answer
  that would put it up, stands over an account without a location or with the one
  that the form's own save has made); `WhatIsShownAgrees`, by `PagesInv`, `GateRight` and `SearchRight`
  (rows that no request under way will change are those of the gateway).
* `OpenPath_proofs`, for any finite numbers of people and requests and any limits.
  All rests on `FlowInv`: what a request holds and carries at each stage, and that
  no two requests have a counter row or a chat locked together; the account's row
  is locked before any later one. From it, one after the other: `ActsOnce`, by
  `MessageInv` (a message is recorded before it is acted on, by the one request
  that has its sender's chat); `CountsExactly`, by `CounterInv` (every step of a
  request adds to a counter what it adds to what the request has in hand; a commit
  moves that to the opens); `AccountsForUses`, by `UseInv`, the same for grants;
  and `MetersTheGate`, the refinement of `MeteredGate`, by `GateInv`: counters are
  within caps and quotas, no counted win is of somebody in the cooldown (which no
  run decides), and
  the location's quota has room for all that a request has won. The limits of the
  gate follow since its opens are at most the counters; the cooldown, since only
  one request at a time has counted wins (`OneWinner`), because each of them has
  locked the rows of the location. The quota of the location needs a part of its
  own, as owners and admins raise its counter beyond it.

Three things of method. Sums over requests and people are library folds; a sum
is proved equal to the number of elements of a set (`SumCounts`: each summand
stands for that many units), which gives all other lemmas about sums without
induction on numbers. The induction theorems of the library take an operator as
their parameter and cannot be instantiated; where a proof needs induction over a
loop, a length or a finite set (`UpTo`, `LoopRuns` in `Hub_proofs`, `ReplayedOf`
in `EventQueue_proofs`, `SubsetInduction` in `OpenPath_proofs`) it takes a
minimal element of a set that is well-founded under strict inclusion. And loops
over sequences are written as recursive functions in the modules proved about
(`Replayed`, `Alive`), whose values those lemmas give.

Only model-checked: liveness (`AcceptedIsAnswered`, `HoldIsReleased`,
`EventuallySent`, `DispatchEnds`, `Settles`), which is beyond the
prover, as is `ENABLED`.

## 6. Not modelled, and why

* Controller: JSON canonicalisation and Ed25519 (a signature is perfect), BLE
  framing, mDNS, WebSocket framing, back-off, pairing on first start; a nonce
  file that a power cut takes back.
* Gateway: the poll challenge table and a restart of the hub; the audit hash
  chain (a recursive function of data); limits, sessions, members and devices in
  Go, which run over one SQLite writer: their concurrent form is modelled from
  the backend.
* Backend: PATCH of access points, profiles, names and addresses, analytics, e-mail, the contents of chat
  messages, Slack message events (a menu is answered again when one is
  delivered again), other counting windows than one.
* Portal: drawing, validation of input, routing beyond leaving a page, the
  map, the landing pages and the documentation pages.
* The desktop shell, the site, scripts, protocol vectors, and the test harnesses.

`PROJECT.json` lists every part with its reason.

## 7. Plan

Every safety property that a passing run checks is stated by a theorem. What is
left to prove: abstract specifications for the event queue and the hub (what is
sent of what was recorded; one answer for one dispatch), refined as `OpenPath`
refines `MeteredGate`. What is left to model: the composition of hub, network
and processor with "at most one actuation per open" as its abstract
specification; the hub's poll challenge table; grant windows (`InAnyWindow`,
`parseHM`) and BLE framing as pure functions against a reference definition.

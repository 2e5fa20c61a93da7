# Rivolt: verification of the leases and of the protocols around them

Rivolt keeps a live connection to Rivian for every vehicle of every user and
records drives, charges and samples from it. It runs as several identical pods
over one Postgres and one Redis. Rivian tolerates one connection per account,
and two recorders of one vehicle would write two histories, so the centre of the
system is the question *which pod acts for which account, and how do the others
know*. This directory models that core and the protocols around it in which
several pods, jobs or outside services meet (the recorder's hand-over, the
archive, re-authentication, the breaker, sends, billing), checks them with TLC and
proves the most important parts of the core with TLAPS. All paths below are relative to `src/internal/`
unless they start with `src/`.

## 1. Inventory

| Component | State | Operations | Interacts with | What is hard | What makes it correct |
|---|---|---|---|---|---|
| User-group lease, lead mode (`leases/groups_lead.go`) | `account_leases` rows; per pod `Store.groups`, `groupOKAt`, `stolenAt`, `draining` | `LeadGroups`, `AcquireGroups`, `ReleaseGroup`, `ReleaseAll`, `Fence`, `FenceTokenForUser` | coordinator, monitor, fenced writers | stalls between statements, lost replies, restarts under one pod id, users linked while passes run | a token trusted locally is backed by the row; one actor per group; epochs grow; no overlapping groups |
| Group leases beside the vehicle leases, lead mode off (`leases/groups.go`) | same rows | `RenewGroups`, `releaseGroups` | coordinator | dry run, nothing acts on it | - |
| Fair share (`groups_lead.go`, `Coordinator.chooseShed`) | `lease_pods`, `released_at` | `livePods`, `newestGeneration`, `fairShare`, shed | lease | stale counts, rollouts, crashed pods | everything ends up served, shares end up even, nothing moves for ever |
| Vehicle leases, lead mode off (`leases/leases.go`) | `subscription_leases`; per pod `owned`, `lastRenew` | reconcile: `Renew`, reap, `healSplitUsers`, `healUnstreamed`, `Acquire`; self-fence, `Shutdown` | monitor, Postgres advisory locks | acquire transactions of two pods, hand-off order, lost renew replies | owned means leased; one user on one pod; splits heal; leased means streamed |
| State monitor subscriptions (`rivian/monitor.go`, `monitor_registry.go`) | `active`, run goroutines | `EnsureSubscribed`, `Unsubscribe`, `Streaming` | coordinator | cancellation is asynchronous | one connection per vehicle |
| Fenced writes (`fence/`) | token in the context; Postgres function `rivolt_lease_ok` | `Exec`, `BeginBounded` | monitor, stores | admitted before, committed after a hand-over | no older write lands on a newer one after a steal |
| Recorder (`rivian/recorder.go`, `rejected_session.go`, `sessions`, `drives`, `charges`) | the accumulator of the open drive and charge; their rows | open, extend, close, rehydrate, resume, trim, janitor | fence, live state, timers | hand-over of an open session, deferred final write, rows that overlap | no energy lost by a hand-over, none counted twice, no row open for ever |
| Live state (`rivian/livestate*.go`) | Redis snapshot, epoch key | save, load, purge | recorder, account deletion | paused old owner, expiring epoch key | a newer epoch's snapshot is never overwritten |
| Rivian session (`rivian/live.go`, `rivian/accountsync.go`, `db/reauth.go`, `secrets/`) | versioned secret, `needs_reauth`, the version each pod knows | sign in, sign out, sync, reject | clients on all pods | rejection of an old version racing a sign-in | the flag is for the stored session |
| Upstream breaker (`rivian/breaker.go`) | closed/open/half-open, hits, probe time, cool-down | `Allow`, `Observe`, `ObserveSuccess` | every caller of Rivian | lost and late probes | it backs off while Rivian is down and recovers when it is up |
| Archive, thinning, retention (`archive/`, `samples/`) | object store, `archive_months`, `archive_deletions`, `archive_keys`, partitions | archive, verify, restore, delete, thin, drop | writers, history reset, account deletion | crash between uploads, a writer between check and drop, a reset during an upload | what is dropped is archived; what is to be deleted goes |
| Account deletion, Stripe closure, billing (`db/account_delete.go`, `stripebill/`, `applebill/`, `entitlements/`) | `billing_customers`, `billing_stripe_subs`, entitlements, `stripe_closed_customers`, cancellation queue | Checkout, webhook, close, delete, retry | Stripe, Apple | events in any order, replicas, late webhooks, crash between call and mark | what ended stays ended; a cancellation is tried until it works |
| Engagement sends (`engage/`) | `engage_sends` rows | consider, claim, deliver, mark, skip | lease clause, push and mail | two claims at once, crash after the delivery | at most once, within the budget |
| Singleton jobs (`singleton/`) | Postgres session lock | try, run | every scheduled job | connection loss | - |
| HTTP API, trip planner, weather, web and iOS clients | stores, caches | handlers, computation, rendering | stores | little | - |
| Wiring and shutdown (`src/cmd/rivolt/main.go`) | - | signals, order of shutdown | everything | cancelled contexts | rows are given back, or run out |

`PROJECT.json` lists the same components with what is modelled of each, and the
hazards of the code at their lines.

## 2. Modules

| Module | Models | Instances |
|---|---|---|
| `GroupLease` | the group lease: rows, tokens, passes, faults | `GroupLeaseMC` |
| `GroupLeaseProofs` | theorems about `GroupLease` | - |
| `FencedWritesProofs` | theorems about `FencedWrites`, on top of `GroupLeaseProofs` | - |
| `VehicleLeaseProofs`, `FairShareProofs` | theorems about `VehicleLease` and `FairShare` | - |
| `ChargeHandoverProofs` | theorems about `ChargeHandover` | - |
| `ArchiveProofs` | theorems about `Archive` and `ArchiveDeletion` | - |
| `ProtocolsProofs` | theorems about `ReauthFlag`, `Engage`, `StripeBilling` and `Breaker`, one part each | - |
| `NumberLemmas` | least and greatest members of sets of numbers, induction and recursion over the numbers | - |
| `FencedWrites` | EXTENDS `GroupLease`: guarded writes from the local check to the commit | `FencedWritesMC` |
| `FairShare` | who takes and sheds what, over a rollout | `FairShareMC` |
| `Ownership` | the abstract lease: who holds and who acts | refined by `GroupLease` |
| `VehicleLease` | vehicle leases, the coordinator, and the monitor's connections | the `.cfg` files directly |
| `ChargeHandover` | a vehicle's charge over several owners, its rows and its snapshot in Redis | `ProtocolsMC` |
| `Archive` | one month: writers, archive job, thinning, retention, restore | `ProtocolsMC` |
| `ArchiveDeletion` | deletion requests, the deleter, and uploads under way | `ProtocolsMC`, `ArchiveBefore.cfg` |
| `ReauthFlag` | the session's version and the re-auth flag over several pods | `ProtocolsMC` |
| `Breaker` | the circuit breaker and the calls in flight | `ProtocolsMC` |
| `Engage` | claims, deliveries and the budget | `ProtocolsMC` |
| `StripeBilling` | Checkout, the webhook, the closing of an account | `ProtocolsMC`, `StripeClosure.cfg` |

`ProtocolsMC` puts the last seven side by side: its variable `topic` says which of
them a behaviour is about, and the others stay as they begin. Each is modelled and
checked on its own, not interleaved with the others. Two of them are about the same
tables in the code: `Archive` and `ArchiveDeletion` both use `archive_months`, the object
store and the per-user archive lock. They are two modules because they ask two questions
(what is *in* an object, what becomes *of* an object) and their product is out of TLC's
reach: `Archive` has no resets and no deletions, `ArchiveDeletion` has archive runs and
uploads but not the rows in them. The others touch no table of one another.
`*MC` modules hold only constants and the symmetry sets. An operator whose comment
begins with *Deviation* is not used by the specification: it is a plausible bug
of the definition next to it, kept to show that a property depends on it.

### GroupLease

One row `[pod, epoch, left]` per group key; a group is keyed by its smallest
member, so the key changes when a shared vehicle links or parts users (`gid`).
`left` counts down to -1: at 0 a row is neither valid (`expires_at > now()`) nor
free (`< now()`). A pod has its tokens (`tok` = `Store.groups`), the age of its
last good pass since it was **sent** (`okAge` = `groupOKAt`), warm-ups (`warm` =
`stolenAt`) and the pass under way. A pass is `LeadStart`, `LeadRenew`,
`Snapshot` and `LeadAcquire` (the acquire; skipped when there is no room or the pod
drains), `LeadInstall` (the retire query and the assignment under `groupMu`), `Snapshot`
and `FollowOpen` (`AcquireGroups`) and one `GiveBack` per group (`ReleaseGroup`). Between
any two the pod may stall for any number of ticks, fail (`PassFail`, `FollowFail`), lose
the reply of a statement that committed (`RenewReplyLost`, `AcquireReplyLost`,
`FollowFail`), be drained, closed, released, crash or restart in the same pod. Which of
these a run includes is the constant `Faults`.

Which free groups are taken and which is shed is any choice (the share is in
`FairShare`); ownership must not depend on it.

An acquire is one `INSERT ... SELECT ... ON CONFLICT DO UPDATE` under READ COMMITTED, and
that is two steps: its SELECT reads a snapshot (`Snapshot`: what is free, the re-key guard
`Rekeyed`, and `was_held`, by which the warm-up is decided), and its commit asks nothing
again but the ON CONFLICT predicate at the row (`Won`). Links, other pods' acquires,
releases, crashes and shutdowns all come between. An acquire that has its snapshot is over
within a tick: it waits for nothing but row locks, of statements that end within 3 s, and
`groupRenewTimeout` ends its pass after 3 s. A statement ends with its pass here; one that
the server commits after the client has given up on it is `AcquireReplyLost`, not
something later. The epoch is taken at the commit; the code draws it from a sequence a
moment earlier. The other statements are an `UPDATE` that asks about the rows it locks, and
are one step (the renew reads its candidates before it waits for a row; one that is renewed
once too often is given back by a later pass).

`Ownership` says what all this promises, without clock, passes and faults: at most
one holder per group, an epoch that grows with every grant, nobody but the holder
acts, and only under that epoch. `OwnershipHolds` is the refinement: the row is the
holder, a running pod that trusts a token acts.

A deleted account removes its row, but a new row gets its epoch from a sequence,
so a key's epoch only grows; the removal itself is not modelled.

### FencedWrites

`StartWrite` is `fenceCtx`: the token of a group that is held and settled goes
into the context. `Admit` is the start of the statement, where `rivolt_lease_ok`
decides; `Refuse` is `ErrFenced` or the end of the context. An admitted write
commits or aborts within `Land` ticks, the statement timeout plus the
idle-in-transaction timeout, and does so even if its pod is dead. `stolen` is a
history variable: the epochs that took the row from a holder.

### FairShare

The choice is exact; a pass is three steps, `Look` (register, count live pods and
groups), `Take` and `Give`, and what was looked at may be stale when used. A tick
is one reconcile interval: every running pod makes exactly one pass in it, passes
do not fail or hang (that is `GroupLease`), and the follow of open sessions,
which is outside the share, is left out. All rows of a pod are renewed by one
statement, so the age of the renew is kept per pod. A release leaves `expires_at`, and a row
that has run out is free to everybody, whatever the grace: `Released` keeps of a released
row the ticks of the grace that are left.

### VehicleLease

Everything is about the vehicles of one user group. A pass is `Start`, `Renew`,
`Lost` (what the renew did not return is stopped; reaped vehicles are released),
`Split` (reaped ones are stopped, the splits are looked for), per vehicle
`StopGiven` and `ReleaseGiven` (the hand-off), `Heal` (`healUnstreamed`, then the
list to acquire), and per vehicle the transaction `Begin`, `LockGroup`, `Insert`,
`Commit`. The write of `Insert` is invisible until `Commit`; a renew waits for it.
`expires_at` counts from the start of the transaction. The monitor is `active`
(its map) and `running` (a connection that is up): `Unsubscribe` removes the
entry at once and the run ends later (`RunStops`). The five-minute pace of
`healUnstreamed` is left out, and `EnsureSubscribed` always succeeds. `Commit` also tells the
monitor (`leases.go:901-914`), and `Heal` leaves a closing pod alone (`leases.go:586-587`). A
shutdown that begins between the commit and the call has cancelled the context from which
every subscription's run derives (`main.go:392`, `1194`), so what is subscribed then
never connects.

### ChargeHandover

The accumulator `acc` of the present owner (`liveCharge`), the row of each charge,
and the snapshot in Redis (`shelf`). A frame is one action per outcome of
`handleChargeLifecycle`: `FrameOpens`, `FrameCounts`, `FrameCloses`, `FrameIdle`;
each ends with `persistLiveState` (`Recorded`), which may reach Redis at once,
late (`slow`, `SlowSaveLands`), or not at all. First contact takes the snapshot
(`Contact`), with the larger energy of it and the open row (`Seeded`), else
the open row (`Opened`). An owner is granted the vehicle after a release (`Take`) or
after a lease ran out (`Steal`), in which case it writes no row until `WarmUpOver`,
and the final write of a charge that ends before that waits for a timer (`late`,
`TimerFires`). Energy and battery are one unit; a row that overlaps another is cut
(`RowOf`, `trimCharge`). Drives follow the same protocol in the code and are not
modelled twice. A blip is a charge without gain: the code's other conditions on its
length are left out.

Two variables are history, for the properties only. `known` is what of a charge an owner at
the time has saved in Redis, or, where Redis did not answer, what an owner has gone on
with if that was less: what nobody could have known is not asked of the next owner.
`undone` says that a deferred final write has put a row back behind a newer one (`GoesBack`).

### Archive and ArchiveDeletion

`Archive` is one month of one vehicle. The jobs share an advisory lock, so `task` is
the one that runs; each of its statements and uploads is a step, and it may be the
last (`Abandon`). Writers do not take the lock: insert, flag (`Mark`), commit.
Rows are times; the object and the copy beside it (`.new`) are sets of rows that
read back whole or not; `archive_months` keeps count, first and last (`Stat`),
flag, `rearchive_gen` and the hold after a restore.

`ArchiveDeletion` keeps of an object only the key it is sealed with and when it was
written, and has the job's steps under the user's archive lock, `Reset`
(`ResetUserArchive`), `DeleteBefore` and the deleter's `List`, `DeleteObject`,
`MarkDone`.

### ReauthFlag

A sign-in's transaction is `WriteSession` (the session's row), `HoldUserRow` (the
user's row) and `CommitSession`; `Learn` is when the client is told the version.
A rejection is `Rejected` (the version known then), `LockForRaise` and `Raise` (the
statement after the lock). The tokens are left out: a pod may be rejected under any
version it knows.

### Breaker

All times are ages in ticks. A call is only counted, since nothing ties its result
to its admission. `probing` is history: how many probes failed since the breaker
closed and when the last call was let through. How a call ends is independent of Rivian
in one case: a GraphQL call whose caller gives up or times out is transient
(`errclass.go:295-302`) and reported by the deferred `Observe` (`live.go:806-808`), so it
opens a half-open breaker again although Rivian is up (`GivenUp`). A caller of the WebSocket
that gives up is not reported (`Unreported`).

### Engage

A send is `Consider` (the budget is read), `ClaimInsert`, `ClaimCommit`, `Deliver`,
`Marked`; the process may end between any two (`GiveUp`). A delivery that reports an error
may have reached the user all the same (`Deliver`): the provider's answer came after the
client's timeout, or another device had taken the push.

### StripeBilling

Stripe is `StripeMoves` (renewals, endings, refunds, a page that is completed) and
the set of events it has to deliver; `Webhook` takes any of them in any order. The
closing is `CloseAccount` (the customer on record), `Remember` (the row in
`stripe_closed_customers`), `BeforeDelete` (cancelled or queued), `DeleteUser`, and the
process may end between any two. The retry of what is queued is `RetryClose` (the calls, as
far as they come) and `Resolve`, each by whichever replica: the claim is for some minutes
only, so two may be at one customer. A resolve in the code names the queue's row, here the
customer; it is deleted by then, so a row that came since has nothing to do. A user
may have several Checkout pages open, and opens one beside a subscription that is past due.

## 3. Runs

All finish in under five minutes with two workers.

| Run | Question | Result |
|---|---|---|
| `group_lease` | One group, two pods, every fault but linking. Is a trusted token always backed (`TrustImpliesLease`), does only one pod act (`OneActor`), does all of it implement `Ownership` (`OwnershipHolds`): no lease is cut short, every hand-over has a higher epoch? | holds |
| `group_lease_linked` | Two users linked and parted at any time. Do two pods get live rows for overlapping users other than by a link, at the link or by an acquire that was under way across it (`OverlapOnlyByLinking`)? | holds |
| `fenced_writes` | Crashes and stalls, no lost reply, no graceful exit. Is the thief's first write after the last possible older commit (`StealWaits`), is every older write in flight from before the lease that replaced it (`OldWritesAreOlder`), does no older write land on one of a thief (`CommitOrder`)? | holds |
| `fenced_lost_reply` | The same, and the reply of an acquire may be lost. | `StealWaits` violated |
| `fenced_early_release` | The same with graceful exits: a thief may release before its warm-up is over. | `OrderAcrossSteal` violated |
| `fair_share` | A rollout of two generations. When things stay still, is every candidate group served for good (`Served`) and is nobody over the share (`Balanced`)? | holds |
| `vehicle_lease` | One vehicle; late renews, failures, crashes, sessions ending, connections that close slowly. Does a pod act only for rows it has (`HeldMeansLeased`)? | holds |
| `vehicle_lease_heals` | Two vehicles of one user, from any rows, with crashes and lost replies. Does any interleaving of acquires split a user (`AcquireKeepsTogether`), do splits converge (`SplitConverges`), is every vehicle leased and streamed in the end (`Streamed`)? | holds |
| `vehicle_handoff` | The same when a cancelled subscription takes time to end. Is there one connection per vehicle (`OneConnection`)? | violated |
| `protocols` | The seven protocols of `ProtocolsMC`; see the table below. | holds |
| `archive_delete_before` | Is every queued deletion served (`RequestsAreServed`), with a deleter that always runs and a store that works? | violated |
| `stripe_closure` | Is a deleted account never charged again (`NeverChargedAgain`), with every event delivered and every retry working? | violated |

| Topic of `protocols` | Properties |
|---|---|
| archive | `NothingLost`: a committed row is in the database or in a readable object. `CleanMeansHeld`: a month that counts as archived has its rows archived, whatever raced with a re-archive. `GoodCopy`: a good object at every step of a replacement. `ThinnedIsArchived`: thinning removes only what is archived. `Heals`: what was missed is archived in the end |
| deletion | `RecordedIsReadable`: nothing begun before a reset is recorded after it. `ShreddedIsGone`: the objects a reset leaves go in the end |
| charge | `RowsApart`: no two rows hold one stretch of the battery. `EnergyCountedOnce`: nor any energy twice, until a deferred write undoes a newer row. `SnapshotKeepsUp`: a late save takes nothing from a later owner's. `HandoverKeepsEnergy`: the next owner goes on with what the open row or the snapshot has. `OpenRowsEnd`: no ended charge stays open |
| session | `FlaggedForStored`: the flag is for the stored session |
| breaker | `ProbesBackOff`: the pauses between probes grow as they must. `Recovers`: it closes once Rivian is up, unless probes are given up by their callers for ever |
| sends | `SentAtMostOnce`. `BudgetHolds`: what counts is within the budget, and what reached the user counts or is recorded as failed |
| billing | `EndedIsEnded`, `RefundHolds`: no event order brings Pro back. `ClosedIsCancelled`: what was on record at the closing is cancelled in the end |

### Bounds

- *Timings.* Only their order matters to the code: `LocalDeadline < TTL` (20 s,
  30 s), `Land < WarmUp` (3 s, 5 s). The runs use the smallest numbers that keep
  the order and leave room for a tick in between (TTL 2, deadline 1; TTL 1,
  deadline 0 where other dimensions are large). `Land = WarmUp = 2` in the write
  runs is the tightest case the assumption allows; the code has a margin.
  The theorems hold for all values.
- *Pods.* Two, interchangeable in the group runs (symmetry). Every rule is between a
  holder and one other; `fenced_writes` has three grants, so a pod also meets its
  own old writes and a hand-over of a hand-over.
- *`MaxEpoch`* is the number of grants of a group: 2 for a hand-over with every
  fault (a pod that restarts has its first grant's row), 3 for two steals in a
  row, 1 per key with two keys. Passes, failures and renews are unbounded.
- *`MaxInFlight`* 2 writes, one per token: an order between two writes needs two,
  and those of one token are ordered by nothing in this code.
- *`FairShare`.* Four groups over two pods give shares of 3 (2 + 1) and 5 (alone),
  so both shedding and being full occur; TTL 2, window 1 and grace 1 tick keep the
  order of 30 s, 15 s and 10 s with a tick of 5 s rounded down. A pod name is used
  once, as pod ids are.
- *`VehicleLease`.* One or two vehicles: a split and the write skew of two acquires
  need two, one lease's life needs one. Lateness of renews is in the one-vehicle run
  only: see section 5, revived rows.

- *`protocols`.* Archive: three times give an object, rows a thinning takes and a
  row that comes later; two open writers; one upload that does not read back; flags
  up to generation 2 (a flag during a re-archive of a flag). Deletion: two months, two
  requests, two keys: a reset during an upload and the upload of a new key. Charge:
  a battery of two steps, two charges and three grants (a late save of the first owner
  over the second's, seen by the third). Breaker: cool-downs of 1, 2 and 3 ticks, three
  calls, so that a late result meets a later probe. Sends: two senders and two messages
  for a budget of one, one outside it. Billing: one subscription over two seconds with up
  to four events before Stripe stops changing it (the rules are per subscription; what
  several of them do to each other is in section 5). Session: two pods and two
  sign-ins.
  Three guards cut steps that no property can tell: the owner of the last grant saves
  nothing (nobody looks), a late snapshot without a charge is one that was lost, and
  the archive counts as calm only when no transaction is open (they all end).

### Fairness

Safety runs use none. `FairShare` assumes that the timer of every coordinator
fires and its passes end (they are bounded by statement timeouts), that a pod
told to drain is terminated (`terminationGracePeriodSeconds`), and that time
passes. `VehicleLease` assumes the same of the reconcile pass and the shutdown,
and strong fairness of `LockGroup`: a waiter for an advisory lock is in the
server's queue and gets it although others lock and unlock in between. Both
state liveness under `Quiet`: the environment stops joining, leaving, failing
and signing in and out at some point (a refused acquire is no failure: it goes on
being refused while a split lasts). Nothing is assumed of crashes, failures,
drives or sign-ins.

`PRSpec` states no fairness; each liveness property there
names what it needs (`Heals == ArFairness => ...`), so that
the safety properties do not depend on it (`ADSpec` and `SBSpec`, of the two runs that
end in a violation, have it in the specification):

- `ArFairness`: every pod runs the jobs daily (`main.go:2769-2842`); a step of a job
  and a transaction end. `Heals` further assumes that writers, restores and crashes
  come to an end.
- `ADFairness`: the deleter runs every hour over what is pending (WF of `List`); the
  store works time and again (SF of the deletions).
- `CHFairness`: a vehicle without an owner is taken; warm-ups end; the owner's janitor
  runs every ten minutes.
- `BrFairness`: pollers go on calling, time passes, and of the calls in flight some
  are answered (SF, since calls may also be given up or go unreported). It does not keep a
  half-open breaker from being reopened by a caller that gives up; `Recovers` names that.
- `SBFairness`: Stripe delivers an event until it is acknowledged; a retry that may
  fail is tried again until it works (SF).

## 4. Proofs

`GroupLeaseProofs`. For every set of pods and users, every set of groupings that key a group by one
of its members, every timing with `LocalDeadline < TTL`, every bound and every
subset of the faults:

- `TypeCorrect`: `Spec => []TypeOK`.
- `TrustIsBacked`: `Spec => []TrustImpliesLease`, the promise of `localDeadline`.
- `OneActorPerGroup`: `Spec => []OneActor`.
- `OverlapNeedsLinking`: `Spec => OverlapOnlyByLinking`.
- `ImplementsOwnership`: `Spec => OwnershipHolds`, the refinement of `Ownership`.

`TrustImpliesLease` is not inductive: nothing in it says why the row is still
valid when the pod has slept. The invariant `IInv` says it with time: a token
whose pass was sent `a` ticks ago and is still trusted is backed by a row of that
pod and epoch with at least `TTL - a` ticks **left** (`Backed`); and so is every
epoch that a pass under way would install (`HeldBacked`), counted from when that
pass was sent, whether or not its statements took long. A tick takes one from
`left` and adds one to `a`. A renew sets `left` to `TTL` and a pass is never
younger than its own send. A grant to a peer needs `left < 0`, which
`TTL - a > 0` excludes (`BackedNotTakable`, `GrantKeeps`): this is where
`LocalDeadline < TTL` is used. What other pods do keeps a pod's part
(`OthersKept`); what it does itself is `OwnStep`, one step per action. `OneActor`
follows: two trusted tokens would both have their pod in the one row. For
`OverlapOnlyByLinking`, the re-key guard was true at an acquire's snapshot and is not asked
at its commit. While no acquire is under way that a link has crossed, all that are under way
saw one grouping, so two of them want one key or keys of different groups (`GuardHolds`,
`CrossedAlike`: either each acquire under way has seen a link, or none has, and then its guard
still holds of the rows). Rows live after a step were live before it with the same pod, or
were granted in it.

For the refinement, `RowMoves` says what a step may do to a row (nothing, renew,
release, grant), `ActingIsEntitled` that whoever trusts a token is the row's pod at
its epoch (from `TrustImpliesLease`), and `OwnershipStep` maps the four to `Hold`,
`GiveUp` and `Grant`; a grant finds nobody acting by `OneActor`'s argument.

`FencedWritesProofs`, for any pods, users and timings with `Land <= WarmUp`, on top of
`IInv`:

- `OldWritesOlder`: `FWSpec => []OldWritesAreOlder`, under **every** fault, and `WritesTyped`.
  The strengthening `WriteOlder` measures each write in flight against the life of the row: a
  write of the epoch in force was admitted while the row had life (`age >= 1 - left`), one
  of an older epoch at least as long ago as the present lease was granted
  (`age >= TTL - left`), and strictly longer if that grant was a steal. `KnownEpochs` says
  that no pod knows of an epoch that was not granted.
- `StealsWait`: `FWSpec => []StealWaits` and `CommitsOrdered`: `FWSpec => CommitOrder`, both
  under `Remembers`: the faults are crashes and shutdowns. Each of the faults left out (a
  lost reply, a restart under the same pod id, sign-ins and links) makes a thief forget that
  it stole; for the lost reply a run shows the violation, so the assumption cannot be
  dropped. What an acquire knows of an earlier holder is from its snapshot; `SeenHeld` says
  that this is no less than the truth: a row it wants that has a holder and has run out had
  the holder then.
  `MemoryInv` says that what a pass is about to install is all that the pod holds
  (`HeldComplete`) and that the warm-up of a stolen row is shorter than the age of any older
  write in flight (`WarmCovers`), also between the acquire and the install. `OrderInv` says
  that once a write is admitted under a stolen epoch nothing older is left in flight (`Clear`
  of what was last committed, of what is in flight and of what a writer carries).
- `OrderNeedsSettledRelease`: the promise that the run `fenced_early_release` refutes holds
  in every behaviour in which a stolen group is only released by a pod past its warm-up
  (`ReleasedSettled`). So the early release is the whole cause. `HoldsInv`: while a write
  from before a steal is in flight, nobody has written since, nobody is about to, and the
  row has not been released.
- `WritesLeaveTheLease`: `FWSpec => Spec /\ OwnershipHolds`. Every behaviour with writes is
  one of the lease, so the lease's theorems hold in it.

`VehicleLeaseProofs`, for any number of pods and vehicles and any timing with
`FenceAt <= TTL`:

- `HeldIsLeased`: `VLSpec => []HeldMeansLeased`, under every fault, and `VLTyped`. The
  argument is that of the group lease with one more party: a renew's answer that is not
  installed yet (`ReturnedLasts`) and an insert that is not committed yet. The latter was
  of a free row when it was made and stays so until the commit, because whoever is past the
  advisory lock holds it (`LockHeld`, `WrittenFree`). `ActiveOwned` and `NewNotOwned` tie
  the monitor's map and the list to acquire to what is owned.
- `UsersStayTogether`: `VLSpec => AcquireKeepsTogether` under `InTime` (no renew is late,
  `FenceAt < TTL`). `TogetherInv`: a living pod's rows are alive, also those it does not know
  of because a reply was lost, so a row that ran out is nobody's to revive; and what an
  acquire has checked under the lock still holds when it commits (`Checked`). Without
  `InTime` it is false: the renew revives expired rows (section 5).
- `OneProcessEach`: `VLSpec => []OneConnection` under `StopsInTime`. The run
  `vehicle_handoff` refutes the property; the theorem says what would keep it: subscriptions
  that end when told to, renews in time, and no sign-out, since `reconcile` releases the
  rows of reaped vehicles before their subscriptions are stopped. It holds then through
  hand-offs, failures, lost replies, crashes and shutdowns.

`ArchiveProofs`, for any rows, writers, choice of jobs, generations and bad uploads:

- `CleanIsHeld` (`CleanMeansHeld`), `ThinningIsSafe` (`ThinnedIsArchived`) and `ArTyped`,
  whatever fails. `ArInv` says at each step of the archive job which copy is what (`Staged`,
  `Beside`, `NoStray`), and that what the job has in hand is all rows it can know of if the
  generation is still the one it started from (`Covers`): a writer that flagged meanwhile has
  raised it, and `Record` then keeps the flag. Thinning compares counts, so that they tell
  needs that the object has no row which the database lacks (`Backed`, `StatExact`).
- `OneBadUploadLeavesACopy` (`GoodCopy`) and `OneBadUploadLosesNothing` (`NothingLost`) while
  no more than one upload did not read back (`bad <= 1`). `Safe` ties the two: a verified
  month whose object is bad has had a bad upload, so the copy beside it is good. That the
  bound is needed is a finding of the proof (section 5).
- `RecordedStaysReadable`: `ADSpec => []RecordedIsReadable` for any months and keys. While a
  job works the user's key stays (`KeyStays`), so the object it uploaded is sealed with the
  key of the record it is about to write (`UploadedIsOurs`).

`FairShareProofs`, for any pods, groups, generations and windows:

- `NeverTakenFromTheRunning`: when a row outlives a round of the passes (`TTL >= 1` tick; 30 s
  and 5 s in the code) a running pod loses a group only by giving it back. `RenewsInTime`:
  what a running pod holds was renewed in this round or the last.
- `TakesNoMoreThanItsShare`: however stale its view, a pass grows what the pod holds to the
  share it saw and not past it. `PassGivesItsOwn`: what it decided to give back is still its
  own by then; whoever is inside a pass runs and has not made it yet (`InPass`), so no
  time passes and nobody takes what the pass has renewed. `SharesTyped`: `FSTypeOK`.

`ChargeHandoverProofs`, for any battery, any number of grants and any number of charges:

- `RowsStayApart`: `CHSpec => []RowsApart`. This one is inductive by itself, given types and
  that nothing is ahead of the battery (`CHTyped`): `RowOf` cuts what others hold, `Writable`
  excludes what they cover, and a timer is refused where it meets another row.
- `EnergyIsCountedOnce`: `CHSpec => []EnergyCountedOnce`. It is not inductive, and that every
  row's energy fits in its stretch is not either: an accumulator may carry the energy of a
  stretch that its row has lost to another. What it writes next fits because its beginning is
  before its row's (`AccOn`); and that is kept because each charge has a *base*, where it began,
  that no row or accumulator of it starts before, and a row that starts later does so because
  another row reaches there (`Covered`, `RowOn`), now and after any later write, since rows only
  go forward (`Forward`). Only a deferred final write breaks that, which is `undone`. `CHInv`
  (theorem `HandoverInvariant`) is all of this; the base is quantified in it, it is nowhere in
  the state. The sum over the rows is then bounded by counting the cells of the battery that
  the rows hold (`Cells`): disjoint, and all below `soc`.
- `SnapshotsKeepUp`: `CHSpec => []SnapshotKeepsUp`. `SnapInv`: the shelf's epoch is that of a
  grant, the slow save that may still be taken carries what its owner is known to have, and
  charges not opened have nothing.
- `EnergyHandedOver`: `CHSpec => HandoverKeepsEnergy`, from both: `FirstContact` has the three
  ways to begin (a new charge, the open row, the snapshot with the larger energy).

`ProtocolsProofs`, of `ReauthFlag`, for any clients and number of sign-ins:

- `FlagIsForStored`: `RFSpec => []FlaggedForStored`. With types and the fact that a
  sign-out stores no version (`SignOutsStoreNone`) the property is inductive: a commit
  that stores a version lowers the flag in the same transaction, and a raise compares the
  versions while it holds the user's row. That the row is held is not needed for safety in
  the model, where the comparison and the update are one step; the lock is what makes
  them one in the code.

of `Engage`, for any senders, any finite set of messages and any budget:

- `AtMostOnce`: `EnSpec => []SentAtMostOnce`. `EnInv` says that a sender past its claim has
  the message's row to itself (`OneOwner`), that the row is still `sending` (`OwnersRow`),
  that what arrived has a row that counts and that before the delivery nothing has
  arrived. A claim commits only where no row is, so it cannot meet another owner.
- `WithinTheBudget`: `EnSpec => []BudgetHolds`. `BudgetInv` adds that at most one sender is
  between its count and its commit (the advisory lock) and that for this one there is
  `Room`; its commit then adds one row to fewer than `Budget`. It needs that the
  messages are finitely many, which is part of `MessagesAssumption`. The theorem is about the
  rows that count and what becomes of a message that arrived; that no more than the budget
  *arrives* is not true of the code (section 5).

of `StripeBilling`, for any subscriptions and events in any order:

- `EndedStaysEnded` (`EndedIsEnded`) and `RefundStays` (`RefundHolds`). On Stripe's side
  nothing a subscription emits is newer than its end (`EndsLast`). On ours, Pro
  stands for the last event applied for its subscription (`Granted`), and every ending seen
  is before the refund or counted in what was applied (`Noted`).

of `Breaker`, for any settings:

- `ProbesAlwaysBackOff`: `BrSpec => ProbesBackOff`. The breaker does not remember how many
  probes failed, only the cool-down they made; `CooldownIs` ties the two, and says that a
  cool-down cut off at the maximum stays there whatever the doubling has come to. The age of
  the last admission is at least that of the breaker's clock in each state (`SinceProbe`): a
  reopening sets the clock back, and leaves the age alone.

`NumberLemmas`. The library states induction and recursion for operators, which no backend
takes as parameters. Over a *set* of numbers (`Induction`) and for a step that is a *function*
(`Recursion`) they can be stated and cited; both come from the least element of a set of
numbers (`Least`), and that from the library's well-founded order of finite sets. With them
the recursive functions of the models (`Backoff`, `EnergyOf`) are unfolded.

### What is only model-checked

- All liveness (`Served`, `Balanced`, `SplitConverges`, `Streamed`, `Heals`, `ShreddedIsGone`,
  `OpenRowsEnd`, `Recovers`, `ClosedIsCancelled`): the prover has no ENABLED, hence no
  fairness.
- The properties of the runs that end in a violation, which the code does not have; of
  `StealWaits`, `OrderAcrossSteal` and `OneConnection` the theorems above say under which
  conditions they do hold.

Every invariant and every property of steps that a passing run checks is a theorem, some of
them under conditions named above that the run has too.

## 5. What the work showed

The five runs that end in a violation are listed with quotes in `PROJECT.json`
under `findings`:

1. *A lost acquire reply loses the warm-up.* The steal is known only from the
   reply of the statement. The row is then renewed as one that was always held.
   The same happens when the group's session is removed and stored again during a
   warm-up (`stolenAt` is pruned by a pass that does not hold the group), and when
   the container restarts under the same pod id during it.
2. *A steal that is released at once loses the warm-up* for the next owner, who
   sees a released row.
3. *The hand-off of a vehicle does not wait for the connection to close*:
   `waitStopped` asks `Streaming`, whose map entry `Unsubscribe` has removed.
4. *Deleting the history before a month never deletes its objects.* The requests name
   a month of a vehicle; `deletePrefix` refuses every prefix but the user's.
5. *A Checkout page outlives its account.* Completed after the closing has looked for a
   customer, it starts a subscription that nothing cancels.

Further observations, not turned into runs:

- A graceful release has no warm-up by design, so a write the old owner had sent
  may commit after the new owner's first one.
- `NoOverlap` itself does not hold: when a shared vehicle links two users held by
  two pods, both rows stay live (the guard is on the acquires, not the renew)
  until one is no candidate any more. Nor does the guard keep an acquire from making such a
  pair, as `groups.go:119-121` has it: one whose snapshot is from before the link and one from
  after it do not see each other's rows, and both commit. `OverlapOnlyByLinking` is what the code gives.
- With lead mode off the renew has no `expires_at > now()`: a row that ran out is
  revived, possibly while a peer has taken the user's other vehicle. That is why
  `AcquireKeepsTogether` is checked with timely renews; `SplitConverges` shows that
  such a split heals.
- `pastFence` is looked at only after a renew failed, and callbacks run outside
  the pass's context, so the window its comment gives ("never later") holds only
  if no callback hangs. `HeldMeansLeased` is stated for renews younger than a TTL.
- The give-back of an acquire that a shutdown overtook runs under the cancelled
  context and may leave the row for a TTL.
- `reconcile` releases a reaped vehicle's row before its subscription is stopped, so a peer
  may connect beside it (`sign_out` in `StopsInTime`).
- If the DELETE of the vehicle leases fails in a shutdown, the group rows are not
  released either and run out; the model has both outcomes.
- The pass installs its result map as `Store.groups` and goes on changing it
  without `groupMu` (`leases.go:1091`, `1198`). In the model tokens change
  atomically.
- A pass past its last statement may install tokens after `ReleaseAll`; the
  database refuses its writes.

*Archive.*
- A row that a writer commits during a month's first archive finds no row to flag. Its
  month is healed by thinning (`FlagMismatched`); if retention drops the month before
  that, the row is gone (`unseen` in `NothingLost`). The same for a writer that is open
  while retention asks the archive (`retention.go:135-138`).
- A month that was thinned while it had no rows of this vehicle is not looked at again.
- Re-archiving a month that retention has dropped un-thinned would rebuild the object from
  the rows that came later alone; only that writers keep to the cutoff prevents it.
- Two uploads that do not read back can spoil both copies, against `archive/job.go:405-407`
  ("so a good copy is in the store at every step"). A re-archive whose write of the object
  failed its read-back leaves the `.new` as the only good copy; the next run reads from it
  (`readableKey`), and then overwrites it first ("A stale .new from a crashed run is
  overwritten"). If that upload is bad too, nothing good is left, and rows that were thinned
  away are lost. With `MaxBad = 2` TLC finds this behaviour. The runs have `MaxBad = 1`, the theorems `bad <= 1`. Writing
  the object first when only the `.new` is good would close it.
- The deleter takes 100 requests, oldest first: as many that always fail (finding 4)
  would keep every later one waiting.
- An advisory lock goes with its connection while an upload may continue; the deleter's
  clock margin of one minute and a put between its list and its delete are left out.

*Charges.*
- The deferred final write lives in a timer of the process. If the pod ends first, its row is
  closed by the janitor (`OpenRowsEnd`) with what the last open write had; the energy between
  the two is lost, and no property covers that.
- A save reads the epoch after the lock of the accumulator is gone (`recorder.go:587`, `1708`,
  `monitor.go:906-913`); `Recorded` has both in one step. A pod that stalls exactly there,
  loses the vehicle and gets it back would save its old snapshot under the new epoch. That
  needs a stall of two hand-overs inside a few lines, and `SnapshotKeepsUp` does not cover it.
- A charge that ends in a warm-up whose timer is dropped is not closed by the next owner,
  as `monitor.go:932-933` says, but by the janitor, as abandoned, with the energy of the
  last open write.
- A snapshot that still has a charge whose final row was written is taken up by the next
  owner, who closes it again, possibly with less energy.
- A deferred final write may replace a newer row of a charge that was reopened. It then
  starts and ends before what was written since, and the energy of all rows may from then
  on exceed what the truck drew: the stretch it gave up goes to another charge's row, and a
  snapshot of the first that was on its slow way is taken up with its own, later beginning and
  the row's energy (`Seeded`). TLC has found this only with nine grants, long past
  the run's bound; the proof attempt pointed to it. So `EnergyCountedOnce` excepts `undone`.
- An owner that Redis does not answer resumes the open row, which may have less than the last
  snapshot, and saves that: the energy of the difference is lost, at four grants.
  `HandoverKeepsEnergy` therefore asks for what such an owner could know (`known`).
- Two frames of one vehicle may save their snapshots in the other order (the model keeps
  one owner's saves in order). The snapshot has no energy anchor, so the stretch
  between the last frame before and the first after a hand-over counts only by the
  battery's gain, if at all.

*Breaker.* A late result of a call admitted before the trip decides the half-open state,
although `breaker.go:20-23` says that the probe's outcome does. A probe whose caller gives up
counts as one that failed: the breaker opens again, for twice as long, whatever Rivian's state
(`live.go:806-808`; the WebSocket's `reportWS` and `resultClass` leave such an end out).
With pollers that always give up first it would never close.

*Sends.* A delivery recorded as failed may have reached the user: a mail whose provider
answered after the 10 s of the client (`email/resend.go:62`, `145-148`), a push that one device
took and another refused. `engage.go:211-212` marks it failed, and the budget counts what is
sending or sent (`store.go:46`, `109`). The user may then get more than the budget of
`engage.go:5-6` in a window; each message still at most once.

*Sessions.* `learnStoredVersion` pairs the new version with whatever token the client
holds by then; a sync that restores while a sign-in commits may pair an old token with the
new version. Two sign-ins whose saves commit in the other order leave a pod with its own
session until the next sync. The model does not have tokens.

*Billing.*
- A refund ends Pro whatever subscription pays for it now, also a newer one.
- The entitlement is one row per source, so an old subscription's end can end what a newer
  one of the same account pays for.
- Two events of one second, neither an ending: the one delivered first wins.
- `BeforeDelete` that succeeded before a deletion that failed leaves an account without
  its subscription.
- Two Checkouts completed before the first webhook make two customers, of which one is
  on record.

## 6. Not modelled, and the plan

Done in this order, the most important behaviour first: the group lease with its
proofs, the writes it fences, the fair share, the vehicle leases; then the refinement
of `Ownership` and the protocols in which pods, jobs and services meet: archive,
deletion, charges, breaker, sends, billing, sessions.

What is left, with the reason:

- Drives and samples in the recorder: drives follow the protocol of charges; samples are
  append-only batches. The AC energy floor, prices, and notification hooks: numeric.
- Epoch keys in Redis that expire, and the purge of an account's snapshots.
- Tokens in `ReauthFlag`, MFA and the CSRF refresh.
- The App Store (`applebill`), trials, prices and countries in billing; the identity
  provider's and Apple's steps of a deletion, the inactive purge's schedule.
- The group leases beside the vehicle leases (`leases/groups.go`): a dry run, nothing acts
  on it. The singleton lock: a Postgres session lock, a model would restate Postgres.
- The HTTP API, planner, weather, maps and the clients: reads, computation and rendering.
  They are most of the code by lines, which is why the map covers a small part of it.

Proofs that could follow: a bound on the shares when nothing changes, and the same charge
invariant for drives, should they be modelled.

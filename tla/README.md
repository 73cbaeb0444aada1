# Verification of 通衢 API

TLA+ models, TLC runs and TLAPS proofs for the backend in `src/backend`: a
FastAPI service that sells access to a LiteLLM proxy to persons and to
enterprise customers, issues and revokes their keys, collects their usage and
charges it to their credit.

## 1. The system

One FastAPI process (`main.py`) serves requests as coroutines of one event loop
and runs background loops: the outbox worker, the usage sync, the usage backfill,
the refresh queue and the realtime usage worker (some of them in processes of
their own).  State lives in PostgreSQL (organizations, credit, orders, outbox,
usage), in SQLite (accounts, claims, the key vault), in Redis (realtime usage,
shared caches), in process memory (caches, locks) and at the LiteLLM proxy,
which the code can only ask over HTTP.  There are no distributed transactions:
what two stores must agree on is agreed on by retried jobs and compensations.

| Component | Source | State | Talks to | Hard because | Modules |
|---|---|---|---|---|---|
| Credit ledger and settlement | `organization_repository.py` 4793-5110, 2420-2490; `main.py` 1560-1660 | status, billing status, balance, effective day, ledger rows, settlements | warehouse (read), outbox | settlers with outdated figures, replays under other keys, boundaries at zero and at the first day | OrgEligibility, CreditLedger |
| Outbox | `organization_repository.py` 625-692, 2230-2420; `organization_provisioning.py` 781-825 | `customer_outbox` | every job handler | crashes, leases that expire under live workers, two-statement completion | Outbox |
| Enterprise tokens | `main.py` 3300-3560; `organization_repository.py` 4180-4790; `organization_provisioning.py` 624-780 | `customer_access_token`, keys at the proxy | proxy, outbox, ledger (eligibility) | lost answers, a lagging key list, four writers of one row | TokenLifecycle |
| Organization directory | `organization_repository.py` 700-2900 | organizations, departments, members, invitations | outbox | edits against jobs that have read the row | MemberAccess, MembershipClaims, TenantProjection |
| Projections | `organization_provisioning.py` 60-602 | organization and teams at the proxy | proxy | a delayed job overtakes a newer one; creates whose answer is lost | TenantProjection |
| Member provisioning | `organization_provisioning.py` 273-560 | upstream users and memberships | proxy, outbox, mail | retries against concurrent edits | MemberAccess |
| Adoption, pilot | `main.py` 9206-9800; `organization_repository.py` 3618-4180; `baic_pilot_reconcile.py` | operations, imported keys, mappings | proxy | long runs of calls without a transaction, run again | Adoption, PilotReconcile |
| LiteLLM client | `litellm_client.py` | key-create locks, key lists | proxy | cancellation while waiting, paging over a growing log | KeyCreateLock, LogScan, KeyRotation, TeamKeyReads |
| Personal billing, enterprise orders | `billing_store.py`, `main.py` 13400-14030 | orders, codes, totals | payment provider, proxy, ledger | repeated callbacks, totals overtaking each other, paid in one database and credited in another | TopUpOrders |
| Accounts and sessions | `auth_store.py`, `main.py` 6890-7480 | accounts, codes, links, sessions, claims | mail, proxy, PostgreSQL | one code, two registrations; handlers of several transactions | LocalAccounts, MembershipClaims |
| Key vault | `key_vault.py`, `main.py` 12955-13180 | secrets, pending rotations | proxy | three calls, two stores, no lock | KeyRotation |
| Usage sync and refresh queue | `usage_sync.py`, `usage_worker.py`, `usage_store.py` | daily usage, refresh requests, advisory lock | proxy | merged requests, claims that go stale, partial answers | UsageSync |
| Usage backfill | `organization_repository.py` 3239-3420; `usage_sync.py` 1573-1692 | import jobs and leases | proxy, warehouse | stale leases, poisoned windows | UsageBackfill (ImportProgress) |
| Realtime usage | `usage_realtime.py`, `usage_realtime_worker.py` | stream, facts, mirror, watermark | Redis, proxy | at-least-once delivery, lock expiry, midnight | RealtimeLive, RealtimeSettlement |
| Observability | `main.py` 371-870, 10900-12600; `observability_attempt_pusher.py`; `usage_store.py` 5205-6535 | attempts, snapshots, drill-downs, plans, savings | Redis, pusher in the proxy | rebuilds against invalidations, posts without retry, check-then-insert | AttemptPush, Dashboards, Drilldowns, CostPlans |
| Demonstration store | `organization_store.py` | directory, tokens, balance in memory | cached boards | rules over several rows, boards stored late | DemoDirectory |
| Other caches | `cache.py`, `main.py` 1534-1550 | values by lifetime | - | little | - |
| Mock runtime, frontend, scripts | `mock_*.py`, `assets`, `scripts` | stand-ins, pages | - | - | - |

`PROJECT.json` maps each definition to its lines, gives the status of every
component, and lists the hazards, each at its line, with the properties that
would notice it going wrong.

## 2. Modules

```
OrgEligibility  (abstract)          Outbox              ImportProgress  (abstract)
   ^        ^                         ^                        ^
   |        +---- TokenLifecycle -----+                        |
CreditLedger                                             UsageBackfill

MCUsagePipeline    UsageSync UsageBackfill LogScan RealtimeLive RealtimeSettlement
                   AttemptPush Dashboards Drilldowns CostPlans
MCBackgroundLive   UsageSync UsageBackfill RealtimeLive RealtimeSettlement Outbox KeyCreateLock
MCBackoffice       LocalAccounts MembershipClaims MemberAccess TenantProjection Adoption
                   PilotReconcile TopUpOrders KeyRotation TeamKeyReads DemoDirectory

CreditLedgerProofs   CreditLedger
OutboxProofs         Outbox
TokenLifecycleProofs TokenLifecycle OutboxProofs
WarehouseProofs      UsageSync UsageBackfill LogScan RealtimeLive RealtimeSettlement
DashboardProofs      MCUsagePipeline WarehouseProofs
AccountProofs        LocalAccounts MembershipClaims MemberAccess
ProjectionProofs     TenantProjection
BackofficeProofs     MCBackoffice AccountProofs ProjectionProofs
```

An arrow is EXTENDS or INSTANCE; below, a name is followed by the modules it
extends.  The `MC` modules give the bounds for TLC.  A step of a module is what
the code does between two points at which something else can happen: a
transaction, a call to the proxy with its answer, the code between two awaits,
one command to Redis.

*Credit.*  **OrgEligibility** is the contract between credit and tokens:
`swept` is TRUE when a revocation sweep was queued after the last moment at
which the organization could hold tokens.  **CreditLedger** implements it, with
one action per transaction.  A settler (`run_usage_sync`, then
`settle_usage_rows`) reads the figures of its window in `ReadSpend` and settles
them day by day in `SettleNext`, so that another settler, an operator, a
revision of the figures or a crash can come between.

*Jobs and tokens.*  **Outbox** has the transaction of `claim_outbox` as one
action, the handler's run, and the completion as the code has it: one statement
on success, two on failure, none of which checks that the worker still owns the
job.  Time is two flags per job; `stalled` records whether a lease has ever
expired under a live worker.  A failure is told by its text, and one without a
text is recorded as a success (observation 18): the modules that run handlers
have both ends of a failure and remember the jobs this happened to (`muted`,
in MemberAccess `lost`).  **TokenLifecycle** makes every `await` of create,
revoke and the two job handlers a step, against a proxy whose keys are unused,
hidden (made, not listed yet), listed or deleted.  **KeyCreateLock** is the
dictionary of `asyncio.Lock`s in `create_organization_key`.

*Organizations.*  **TenantProjection** numbers the objects of the proxy in the
order they are made; jobs carry the status they were queued with, `inOrder` says
that no sync was applied after a newer one, and `reopened` that an adoption, which
can be repeated after an archive and queues no sync, came last.  **MemberAccess**
follows one member; workers read the row and then make the calls one at a time,
and `crossed` says that an edit fell between reading and calling.
**MembershipClaims** follows one login name through two databases. **Adoption**
and **PilotReconcile** are the take-overs, each step of which may be the last of
its run.

*Persons.*  **LocalAccounts** follows one mail address: codes, registration,
logins, links, sessions and an invitation; each operation of the store is atomic,
a handler is several.  A login may find its password's hash outdated and write it
anew (`Rehash`), with what it was given whatever the row says by then.
**TopUpOrders** has personal orders, codes, the entitlement of the main and the
tool accounts, and enterprise orders with their grant.  **KeyRotation** and
**TeamKeyReads** are the keys of a person: what the proxy, the vault and two
layers of caches say about them.

*Usage.*  In **UsageSync** a counter stands for what the upstream has logged,
and a stored day remembers the version it was read at, which turns "older
figures overwrite newer ones" into a comparison.  **UsageBackfill** implements
**ImportProgress**: a frontier that moves only past imported days, by one window
at most.  **LogScan** reads pages of a log that grows in front of the reader.
**RealtimeLive** and **RealtimeSettlement** are the two halves of the realtime
worker, with their Redis lock, stream, facts, mirror and watermark.  Requests
enter the stream one by one, which its limit may trim (`MayTrim`), and the client
answers a read of an empty history with nothing or with an empty stream
(`emptyAnswer`, observation 19): in the second case fresh entries are never read
and requests reach the facts through settlement and calibration only.

*Dashboards.*  **AttemptPush** follows records from the proxy's callback to the
table and says of each lost one why it was lost.  **Dashboards** and
**Drilldowns** mark a payload `old` when it was built before a write; the code
does not see that mark.  **CostPlans** has each statement of the transactions on
plans and measurements at READ COMMITTED, the row locks and the index.

*Demonstration store.*  **DemoDirectory** has one action per operation (the
store has one lock), the reset of one customer among them, and three per cached
board.  One seeded customer stands for the three.

Mutants stand before the definition they replace and are marked "Mutant".

## 3. Runs

Three runs hold several components that share no state.  Each behaviour of such a
run picks one component at the start (`focus`) and runs only that; the run is the
sum of its components' state spaces, and a property is the conjunction of the
components' own, named in the module.  Two components of `backoffice` are explored
twice, each time under another bound: accounts with three requests, or with four
where an invitation and no registration is under way; the projection with two
departments and one edit, or with one department and two edits, which is what
archiving, adopting or restoring again takes.  Handlers of an account serve one
request each and are alike, so they are taken in one order (`InTurn`), which loses
no behaviour.  Two bounds are written beside the step for the same reason of size:
at most one way of losing a member's job in a behaviour (`OneLoss`), and no open or
kept board with the fourth edit of the demonstration store (`LastWithoutBoards`).
Components that do interact are
composed in a module of their own (TokenLifecycle with Outbox and OrgEligibility,
TopUpOrders with the grant, UsageBackfill with the warehouse).

| Run | Question | Distinct states |
|---|---|---|
| `credit_ledger` | do account, ledger, status, projection and sweep agree, is OrgEligibility implemented, and does settlement converge? | 382,420 |
| `credit_restore` | does a restored organization regain its credit? (violated) | - |
| `tokens` | do requests and worker keep the row, the key and the jobs of a token consistent, and is a token that must go revoked in the end? | 242,350 |
| `tokens_cleanup` | is only the key of a rejected activation removed? (violated) | - |
| `tokens_promise` | is a token revoked whose revocation was promised? (violated) | - |
| `key_lock_serial` | are creates of one alias serialized? (violated) | - |
| `usage_pipeline` | are the warehouse's figures whole and do the dashboards show them? | 1,700,929 |
| `background_live` | does everything queued, claimed, closed or waiting end, and is a job held once and settled for good? | 73,170 |
| `backoffice` | do accounts, memberships, orders, projections, take-overs, keys and the demonstration store keep their rules? | 717,261 |
| `invitation_race` | does the member's account exist? (violated) | - |
| `removed_access` | is a removed member out of the proxy? (violated) | - |
| `projection_drift` | does the projection converge? (violated) | - |

What the properties of the composed runs say:

- `SyncIsSound`: one synchronization at a time holds the lock, and a refresh is
  answered only when every backend it asked for was published in full.
  `FiguresNeverRegress`: no stored day goes back to an older reading.
- `ImplementsImportProgress`: the import refines its abstract promise.
- `ScanIsAccurate`: a scan that calls itself complete has each row that was
  there when it began, once.
- `SeenIsKept`, `DayWatermarkIsEarned`, `ShownStays`: a request seen is in the
  stream or in the facts, or its entry had as many newer ones behind it as the
  stream may hold; the watermark is past nothing of its day that was not stored; a
  shown figure does not shrink, and a failed rebuild takes nothing away.
- `DashboardsShowTheRows`: one rebuild at a time; after an invalidation nothing
  older is kept but what was in the air meanwhile; each reported attempt is in
  one place or lost for a reason, and counted once.
- `CostRulesHold`: one official plan a year, approved and complete; no day of
  savings counted twice, in whatever order rows with one first day are read.
- `ClaimsEnd`, `JobsAreSettled`, `BackfillCompletes`, `RealtimeArrives`,
  `WaitersProceed`: the liveness of queue, outbox, imports, realtime and locks.
  `RealtimeArrives` does not lean on the stream: the requests of a closed minute
  are settled into the facts, and what the facts have of the running day is shown.
- `LiveTokensAreQueued`, `RevocationIsDelivered` (run `tokens`): a token that
  must go has its revocation queued, and is revoked in the end, unless the
  revocation failed for good or was recorded as sent in failure.
- `AccountsAreSound`, `MembershipsAreSound`: one live link and one live
  invitation; sessions end with the password, unless a login that overlapped the
  change has put the old one back; a login opens on an active member; and once the
  queue is drained the proxy grants what the directory says, unless a job was given
  up or recorded as sent in failure.
- `OrdersAreSound`: each paid order is credited once, neither account at the proxy
  is allowed more than was paid towards it (the two together may be, observation
  13), nothing is reported delivered before it was.
- `ProjectionIsSound`, `TakeoversAreSound`, `KeysAreSound`, `DemoIsSound`: the
  final conjunctions of TenantProjection, Adoption and PilotReconcile,
  KeyRotation and TeamKeyReads, DemoDirectory.  `PromisesStay`: a delivered link
  works until it is used or superseded, the password changes, or a login writes
  the hash anew; an applied adoption stays.

*Bounds.*  Two workers everywhere, the least that shows a race; two of what they
fight over; one fault (crash, lost answer, failed call) or as many as a scenario
of the hazards needs.  Three days hold the day of the first grant, a billable
day and the current day; a grant of 1 and days of 2 take the balance through
positive, zero and negative.  Two attempts are one retry and one exhaustion.  An
import of five days in windows of two has a last short window.  A stream of one
entry is trimmed by the second.  Nine old rows in
pages of two and batches of three reach the page limit of four and the end of a
batch.  Two minutes a day and five minutes are two midnights.  Six requests are
what it takes to draft, approve and activate two plans of a year; with five the
unique index is never needed, as a mutant shows.  Four operations of the
demonstration store suffice to create, activate and demote a second
administrator, to move a member out of a department and archive it, or to remove
a seeded member, give the address to another and reset the customer.
`tokens` has one request at a time beside the worker, and a retry; that requests
overlap is covered by the proofs of its two safety properties, which hold for any
number, and by the runs `tokens_cleanup` and `tokens_promise`.
`background_live` uses smaller instances (one backend, one request of the live
loop, one settlement worker), since liveness needs the whole graph.  Every bound
is a CONSTANT named `Max...` or the size of a set.

`backoffice` uses symmetry in the three pairs of model values that stand for
workers, for claims, assets, new keys and tokens, and for persons: no module tells
the members of a pair apart.  It checks invariants and one action property.
`tokens` uses a view without `swept`, `tries`, `promised` and which job of a token
was muted, which no guard reads, without what a request or a handler remembers
once no later step reads it, and without the counters of settled jobs.  Runs whose
properties are temporal use no symmetry.

*Deadlock* is not checked where the bounded supply of inputs may be used up.

*Fairness.*  `SettlementConverges` assumes that the sync loop keeps reading and
finishes what it read (`usage_sync_loop` runs it every half hour).
`JobsAreSettled` and `RevocationIsDelivered` assume that workers poll, that a
handler ends (every HTTP call has a timeout) and that time passes; the proxy's key
list need not catch up, since a job that never finds its key fails and shows in
the health check.  `ClaimsEnd` and `BackfillCompletes` assume the same of sync
workers and importers, and that claims and leases go stale.  `RealtimeArrives`
assumes that a live worker takes its steps, and the lock when it is free, that a
worker is started again, and that the passes of its settlement come round; passes
fail, and live cycles with them, as often as the bounds allow, which are finite: a
proxy or a database that fails for ever settles nothing.  `WaitersProceed` assumes
that the event loop resumes what is ready.  No fairness is assumed of success: a
handler may fail each time, a worker crash each time the bound allows.

## 4. What is proved

All proofs are checked by TLAPS, for every value of the constants that satisfies
the assumptions of its module; these are bounds and types (a window has at least
one day, an absent id is not an id, what is counted is finite) and nothing about
how many actors there are.  Every safety property of the passing runs and every
action property is a theorem, and so are the two refinements.  For each component
an inductive invariant was found and proved; it implies the properties.

*CreditLedgerProofs*, assuming that amounts are positive integers, spend
is natural, the calendar is not empty and `None` is no value.  The inductive
invariant `AccountInv` is the conjunction of the checked invariants with one
addition, `UnlinkedIsQuiet` (nothing was projected before the organization was
linked upstream), without which `ProjectionIsCurrent` is not inductive: an
unlinked organization's balance moves without a projection.
`SettledDaysAreCharged` is what makes `HistoryIsKept` provable: a day without a
settlement has no charge row, hence `ChargeUsage` overwrites none.
`BalanceWritten` states once what every ledger write does next to its rows.
`IneligibleIsSwept` is proved on `OrgEligibility`, where it is inductive, and
carried over by `AccountImplementsEligibility`.

`AccountIdentity` sums rows over finite sets.  The sum is a recursive function on
the subsets of a finite set; that the member taken out first does not matter
would follow by induction over finite sets, whose theorem no prover here can
instantiate.  The proof takes a counterexample of least cardinality instead.
`RowAdded` then says what one more row adds, and the rest is one case per write.

*OutboxProofs*, assuming finitely many workers and at least one attempt.
`QueueInv` adds to the checked invariants: `HeldExist` (a held job exists, so
that no later insert changes its age and a worker's current job stays the same
while it is busy), `SeenIsPast` (the attempts a worker has read are not ahead of
the row, so that it gives up only what is exhausted, however late) and
`HeldIsLeased` (until a stall, a held job is in processing under a running lease
and held once).  `RunsAreBounded` needs a counting argument: an attempt is
counted at the claim and entitles the claimant to one run, so runs made plus
runs owed never exceed the attempts.

*TokenLifecycleProofs* shows that the composition implements both its parts
(`ImplementsOutbox`, `ImplementsOrgEligibility`), so that `QueueInv` holds of the
token jobs.  On top of it four facts carry `LiveTokensAreQueued`: a sweep's jobs
are new, no revocation is taken for a reconciliation, a revocation ends well only
under a revoked row, and is marked sent only then or in failure, which is
remembered.  `RevokedIsFinal` follows from
what one step can make of a row (`RowFate`): it keeps its status and key, stops
being active, or is activated while it waits for that and its organization is
eligible.

*WarehouseProofs.*  `SyncIsSound`: a request is answered in full because its claim
is a fixed point; while its worker serves it nobody changes what was wanted, the
window read covers it, the reading is at least as new as the request
(`ClaimsAreServed`), and figures never regress, since reading and publishing
happen under one lock (`LockMatchesSyncer`, `ReadingsAreNewest`).
`ImplementsImportProgress`: a claim that still holds its lease is on the window
that is the job's next, and completes it after its rows were stored; those two are
the inductive part, and turn each completion into a step of `ImportProgress`.
`ScanIsAccurate`: every old row on a page the scan has read is counted
(`ReadIsCounted`), if the log stands still or the pages are read in turn, since a
new row pushes an old one to a later page only; `InsertPlaces` says where.
`SeenIsKept` needs that each entry knows its place: what a trim takes has the
stream's limit of newer ones behind it, and keeps them.  `ShownNeverShrinks` holds
because until a worker outlives its lock, the one that holds it alone publishes,
and publishes what it read of the facts.  `DayWatermarkIsEarned` follows each task
of a settlement with what it may say of its window.

*DashboardProofs.*  Each cache's invariant says by when it has forgotten what a
write made old: the memory first, then the table or Redis (`MemoryForgets`,
`TableForgets`; `LocalForgets`, `SharedForgets`, with the generation that marks
answers built before an ingest).  `AttemptsAreAccounted` is an equation between
cardinalities, proved from `Apart`: the queue, the posts in flight, the table and
the losses by reason have no record in common and together have all.
`CostRulesHold` needs that a plan judged fit is locked until it is activated
(`JudgedStaysTrue`).  That no day is counted twice is shown for every order in
which the reader can go through the measurements, by the least pass at which it
would fail.

*AccountProofs.*  `AccountsInv` follows the password account: its links and
sessions are its own, a request that changed the password was let in by a
session, which keeps the account from being removed; a session of another
password is excused by a change between its steps or by a login that has put the
old password back.  `ClaimsInv` has the
agreement of the two tables of claims (`TablesAgree`), and the runner in which a
login resolves, binds and opens.  `MemberInv` has what is true in any
interleaving (`HistoryHolds`, `JobsHold`) and, as long as no edit fell between a
worker's reading and calling, that the proxy has what the row says or a job is on
its way that will make it so (`Converges`).

*ProjectionProofs.*  The jobs are a sequence, and `ProjectionInv` speaks of the
last job of each organization and of the blocking jobs of each department
(`OrgQueue`, `TeamQueue`), of what the last applied one did to the proxy while
`inOrder` holds (`OrgApplied`, `TeamApplied`), unless a job was muted or the row
reopened by an adoption, and of the departments a provisioning still has to visit
(`NoneLeft`).

*BackofficeProofs.*  Keys: `RequestHolds` says what a rotation knows of its two
keys at each step; `LoadsAreFresh` that a load in the present version of a cache
is as new as what was told.  Orders: `ClerkHolds`, what a request has read counts
the order it will mark.  Take-overs: `ApplierHolds`, what is done by the place a
run has come to.  Demonstration store: the rules over rows are inductive once an
administrator who leaves is known to leave another behind (`AnotherRemains`), and
that rows and tokens stay with their customer (`RowsBelong`), so that the reset of
one takes nothing from the others.

*The composed runs.*  `OfficeRuns` and `PipelineRuns` prove that every behaviour
of `MCBackoffice` and `MCUsagePipeline` is a behaviour of each component, the
others standing still, so that what is proved of the components is a theorem
about the specification the runs check (`OfficeAccountsSound` to
`OfficeTypeCorrect`, `PipelineUsageSound` to `PipelineTypeCorrect`).  The safety
properties of `background_live` are those of `Outbox` and are proved of it.

TLC checked the invariants that were hardest to find on small instances before
they were proved.

*Model-checked only.*  Liveness: `SettlementConverges`, `RevocationIsDelivered`,
`ClaimsEnd`, `BackfillCompletes`, `RealtimeArrives`, `JobsAreSettled` and
`WaitersProceed` rest on fairness, hence on ENABLED, which the provers do not
handle.  `KeyCreateLock`, whose safety property the code violates, has no
theorem.

## 5. Where code and documents disagree

Seven runs end in a violation, each of a sentence in the repository:

1. `credit_restore`: `README.md:129` says that restoring an organization lifts
   its ban on calls.  If one day was settled while it was archived, its billing
   status became `suspended`, which no code ever leaves.
2. `tokens_cleanup`: `main.py:3455` removes the key of a rejected activation
   because "eligibility changed".  The worker may instead have activated the
   token with that very key, which is then deleted under an active row.
3. `tokens_promise`: `main.py:3521` promises that a token whose state is unknown
   will be revoked after confirmation; what it queues is a reconciliation, which
   activates the token.
4. `key_lock_serial`: `litellm_client.py:644` says creates are serialized by
   alias; the lock is dropped from the dictionary while others wait for it.
5. `projection_drift`: `organization_repository.py:1050` says the projection
   converges; a job that failed is retried after a newer one and writes the older
   blocked state over it.
6. `removed_access`: `organization_provisioning.py:481` says a removed member
   must be taken out upstream; a provisioning that read him before the removal
   puts him back in, and nothing takes him out again.
7. `invitation_race`: `auth_store.py:547` removes a just-created account only
   without durable activity; of two acceptances of one invitation, the one that
   made the account and lost removes the account the other has bound to a member.

Observations made while modelling, without a run of their own.  Where one limits
a property, the property says so.

1. There is one reconciliation job per token, and inserting it again replaces
   its payload only.  Once it is settled, a later uncertain create of the same
   alias is not reconciled (`organization_repository.py:2263` against the
   comment at `main.py:3401`); neither is a create whose process died before
   it queued anything.
2. The alias of a token follows from its parameters, and a revoked row keeps its
   alias.  Issuing a token with the parameters of a revoked one creates a key
   and then rejects it (`README.md:131` says the name can be used again).
3. `finalize_token_record` marks a row revoked while the key just created lives
   on; `delete_token` then accepts the row, although the comment at
   `organization_repository.py:4768` says the key is gone by then.
4. A revoke that reconciles queues a payload without the upstream user id, by
   which the key of a member's token is not found
   (`organization_repository.py:2278` says alias and id are enough).
5. A refresh asked again while its window is read is merged into that run, and
   one whose claim went stale (300 s, against a task limit of 900 s) can be ended
   by its first worker: either may be completed without the figures asked for.
6. A page answer without totals and without `has_more` is read as the last one
   (`litellm_client.py:3663`); the comment at 3671 would go on to an empty page.
7. Completing a window of a lost lease raises and failing it raises again, out of
   the synchronization that ran the import: it is reported failed although its
   snapshot was published.
8. After an absence over midnight the watermark moves past the rest of the old
   day, although `usage_store.py:355` promises every closed minute.
9. *Keys.*  A block between the read of a key's status and its regeneration
   yields an active replacement; two regenerations leave two; a crash between
   making and storing leaves an active key nobody holds; a forced refresh joins
   a load that began before it.
10. *Members and claims.*  An old provisioning job activates a re-invited member
    who has not accepted; a claim whose member was removed stays `provisioning`,
    and a conflict in one claim starves those after it.
11. *Projection.*  Restoring or adopting activates departments without a job;
    an adoption repeated after an archive (`organization_repository.py:895`) sets
    the row active and queues no sync, so that the proxy goes on blocking it; two
    workers on one job can make two upstream organizations.
12. *Take-overs.*  The fingerprint of an adoption contains the spend, so that a
    half-way adoption cannot be completed once the spend has moved; completing
    the pilot's superseded job overwrites that status.
13. *Orders.*  Of two totals the older may be written last, until the next visit;
    an allocated order is marked done before the tool budget is written.  The main
    account is told the total of all orders (`main.py:13463`) and the tool account
    the total of those allocated to it (`main.py:13543`), so that the proxy allows
    an allocated order twice.
14. *Accounts.*  A login verified before a reset opens its session after it, and
    the session counts as one of the new password; the rehash at login
    (`main.py:7065`) writes the password the login was given over one chosen since,
    without ending a session, and uses up delivered reset links.
15. *Dashboards.*  A rebuild or a read of the table that began before a write is
    kept as fresh after its invalidation; invalidating costs does not move the
    generations of the drill-downs.  A failed post drops its batch, although the
    comment at `observability_attempt_pusher.py:417` counts on a repetition.
16. *Plans.*  `update_cost_plan_version` reads the status and updates without a
    guard, so that an approved or active plan can be edited, and lose its
    coverage, against "仅草稿计划可以编辑" (`usage_store.py:6235`); two savings
    measurements checked at once are both stored, and the reader leaves one out.
17. *Demonstration store.*  Restoring an organization does not look for
    another of its name.  The reset of one customer (`organization_store.py:2359`,
    which no route calls) brings a removed member of the seed back although the
    address may be in use elsewhere by then, against "Demo identities are globally
    unique across customer organizations" (`organization_store.py:1666`).
18. *Outbox.*  `process_outbox` passes `str(exc)` to `complete_outbox`, which tests
    `if error:` (`organization_repository.py:2322`).  An exception without a text,
    such as the `TimeoutError` of a statement that exceeds `command_timeout`
    (`organization_repository.py:589`), records the failed job as sent: it is
    neither retried nor reported.
19. *Realtime stream.*  `read_archive_batch` asks for fresh entries only if the
    read of its own history is false (`usage_realtime.py:441`).  redis-py 5.2
    answers an empty history with `[[stream, []]]`, which is true, so that with it
    the stream is not archived at all; the test double answers with an empty list.
    The stream is also trimmed to about 20,000 entries, read or not, while the
    deduplication keys live on (`usage_realtime.py:96`).

## 6. What is not modelled

Left out of the modelled components: wording of errors, audit rows, listings and
their paging, secrets and their masking, names; departments' and members' sweeps
of tokens (a subset of what an organization's sweep covers); expiry of tokens by
duration; amounts of orders and of the billing projection (`sync_billing`), so
that a delayed billing job is not seen to overtake a newer one.  Amounts of the
ledger are integers.  Isolation is taken as PostgreSQL gives it under the row
locks the code takes.

Left out altogether: login throttling and OAuth; caches by lifetime only
(TTL caches of usage queries, `AsyncStaleJSONCache`), which promise no more than
an age; stability actions and regressions, the cost ledger's listings and the
metrics, which are single-row writes and pure aggregation; retries and
catalogues of the LiteLLM client; the mock runtime, frontend and scripts.
`PROJECT.json` gives the status of every component and the reason.

## 7. Running it

```
tlc -workers 2 -config MCCreditLedger.cfg MCCreditLedger
tlapm CreditLedgerProofs.tla
```

A proof module takes between half a minute and a quarter of an hour; those that
extend another do not prove it again.

Every property of a passing run has a mutant: a definition of the model changed
the way a plausible bug would change the code.  With the mutant in place TLC
finds the property violated.

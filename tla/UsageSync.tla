------------------------------ MODULE UsageSync ------------------------------
(***************************************************************************)
(* The usage warehouse and the queue of refreshes readers ask for.         *)
(*                                                                         *)
(* A reader that misses data queues the window it wanted                   *)
(* (UsageStore.enqueue_refresh_request).  Sync workers claim every ripe    *)
(* request at once, run one synchronization over the union of the windows, *)
(* and put the requests back or complete them.  A synchronization holds a  *)
(* database advisory lock while it reads each upstream backend in turn and *)
(* then publishes, in one transaction, the backends it read completely.    *)
(*                                                                         *)
(* One counter, upstreamUsage, stands for everything the upstream has      *)
(* logged so far: a backend read when it is n holds the figures of version *)
(* n for every day of the window, and usageDaily remembers the version     *)
(* stored for a backend and a day.                                         *)
(***************************************************************************)
EXTENDS Naturals, FiniteSets

CONSTANTS
  SyncWorkers,     \* processes that run synchronizations
  Backends,        \* upstream LiteLLM backends
  Windows,         \* windows readers ask for, pairs <<first day, last day>>
  SyncPeriods,     \* windows the workers refresh and calibrate on their own
  LastDay,         \* today; days are 1..LastDay
  LogWindow,       \* USAGE_SYNC_LOG_MAX_WINDOW_DAYS
  MaxUsage,        \* bound: versions of the upstream's figures
  MaxSyncFaults,   \* bound: crashes and stalls of workers
  NoWorker

ASSUME SyncAssumption ==
  /\ LastDay \in Nat /\ LogWindow \in 1..LastDay
  /\ MaxUsage \in Nat \ {0} /\ MaxSyncFaults \in Nat
  /\ Windows \cup SyncPeriods \subseteq {w \in (1..LastDay) \X (1..LastDay) : w[1] <= w[2]}
  /\ NoWorker \notin SyncWorkers

VARIABLES
  upstreamUsage,   \* version of the figures the upstream would answer now
  usageDaily,      \* version stored per backend and day; 0 is no coverage
  refreshes,       \* usage_refresh_requests, by window
  syncLock,        \* holder of the advisory lock
  syncer,          \* what each worker is doing
  syncFaults

syncVars == <<upstreamUsage, usageDaily, refreshes, syncLock, syncer, syncFaults>>

Days == 1..LastDay
DaysOf(window) == window[1]..window[2]

\* The reading of a backend that failed or was found incomplete, or is missing.
Rejected == 0

Idle == [pc |-> "idle", batch |-> {}, window |-> <<1, LastDay>>, pass |-> 1,
         read |-> [b \in Backends |-> Rejected], status |-> "none"]

SyncInit ==
  /\ upstreamUsage = 1
  /\ usageDaily = [b \in Backends |-> [d \in Days |-> 0]]
  /\ refreshes = [w \in Windows |-> [status |-> "absent", wanted |-> 0,
                   ripe |-> TRUE, stale |-> FALSE, owner |-> NoWorker]]
  /\ syncLock = NoWorker
  /\ syncer = [k \in SyncWorkers |-> Idle]
  /\ syncFaults = 0

-----------------------------------------------------------------------------
(* Readers and the environment *)

\* A request that is being served keeps its claim and its time; any other is
\* pending again from now on.
AskRefresh(w) ==
  /\ refreshes[w].status # "running"
  /\ refreshes' = [refreshes EXCEPT ![w] =
        [status |-> "pending", wanted |-> upstreamUsage, ripe |-> TRUE,
         stale |-> FALSE, owner |-> NoWorker]]
  /\ UNCHANGED <<upstreamUsage, usageDaily, syncLock, syncer, syncFaults>>

UsageArrives ==
  /\ upstreamUsage < MaxUsage
  /\ upstreamUsage' = upstreamUsage + 1
  /\ UNCHANGED <<usageDaily, refreshes, syncLock, syncer, syncFaults>>

\* next_attempt_at is reached.
RetryRipens(w) ==
  /\ ~refreshes[w].ripe
  /\ refreshes' = [refreshes EXCEPT ![w].ripe = TRUE]
  /\ UNCHANGED <<upstreamUsage, usageDaily, syncLock, syncer, syncFaults>>

\* claimed_at falls behind stale_after_seconds: with the defaults that comes
\* 600 seconds before the time limit of the sync itself, so the worker that
\* claimed it may be alive (a fault, and bounded) or dead.
ClaimGoesStale(w) ==
  /\ refreshes[w].status = "running" /\ ~refreshes[w].stale
  /\ refreshes' = [refreshes EXCEPT ![w].stale = TRUE]
  /\ IF w \in UNION {syncer[k].batch : k \in SyncWorkers}
     THEN syncFaults < MaxSyncFaults /\ syncFaults' = syncFaults + 1
     ELSE UNCHANGED syncFaults
  /\ UNCHANGED <<upstreamUsage, usageDaily, syncLock, syncer>>

-----------------------------------------------------------------------------
(* Claiming *)

\* Mutant: only pending requests are claimed.
ClaimablePending(w) == refreshes[w].status = "pending" /\ refreshes[w].ripe

ClaimableRefresh(w) ==
  \/ refreshes[w].status = "pending" /\ refreshes[w].ripe
  \/ refreshes[w].status = "running" /\ refreshes[w].stale

ClaimBatch == {w \in Windows : ClaimableRefresh(w)}

\* The least window that covers all of a non-empty set of windows.
UnionOf(batch) ==
  LET firsts == {w[1] : w \in batch}
      lasts == {w[2] : w \in batch}
  IN  <<CHOOSE f \in firsts : \A g \in firsts : f <= g,
        CHOOSE l \in lasts : \A g \in lasts : l >= g>>

\* Every ripe request is claimed at once.  A worker that sees the realtime
\* settlement lag passes its turn, at most USAGE_REFRESH_REALTIME_MAX_DEFERS
\* times in a row: a delay, which any step of another actor models.
ConsumeRefreshes(k) ==
  /\ syncer[k].pc = "idle" /\ ClaimBatch # {}
  /\ refreshes' = [w \in Windows |->
        IF w \in ClaimBatch
        THEN [refreshes[w] EXCEPT !.status = "running", !.ripe = TRUE,
                                  !.stale = FALSE, !.owner = k]
        ELSE refreshes[w]]
  /\ syncer' = [syncer EXCEPT ![k] =
        [Idle EXCEPT !.pc = "begin", !.batch = ClaimBatch, !.window = UnionOf(ClaimBatch)]]
  /\ UNCHANGED <<upstreamUsage, usageDaily, syncLock, syncFaults>>

\* Mutant: one day is missing at the front.
RecentWindowShort(window) ==
  <<IF window[2] - window[1] + 1 > LogWindow THEN window[2] - LogWindow + 2 ELSE window[1],
    window[2]>>

RecentWindow(window) ==
  <<IF window[2] - window[1] + 1 > LogWindow THEN window[2] - LogWindow + 1 ELSE window[1],
    window[2]>>

\* With no request to serve, the worker's own periods: the last days or, to
\* calibrate, all of them.
ScheduledSync(k) ==
  /\ syncer[k].pc = "idle" /\ ClaimBatch = {}
  /\ \E window \in SyncPeriods :
        syncer' = [syncer EXCEPT ![k] =
           [Idle EXCEPT !.pc = "begin", !.window = window]]
  /\ UNCHANGED <<upstreamUsage, usageDaily, refreshes, syncLock, syncFaults>>

-----------------------------------------------------------------------------
(* One synchronization *)

\* Mutant: the lock is not looked at.
LockIsFreeUnchecked(k) == k \in SyncWorkers

\* pg_try_advisory_lock: a held lock ends the synchronization as skipped.
LockIsFree(k) == syncLock = NoWorker

\* The synchronization of worker k is over; a second pass that is not ok
\* leaves the whole partial.
Ended(k, status) ==
  [Idle EXCEPT !.pc = "finish", !.batch = syncer[k].batch,
     !.status = IF syncer[k].pass = 2 /\ status # "ok" THEN "partial" ELSE status]

BeginSync(k) ==
  /\ syncer[k].pc = "begin"
  /\ IF LockIsFree(k)
     THEN /\ syncLock' = k
          /\ syncer' = [syncer EXCEPT ![k].pc = "collect"]
     ELSE /\ syncer' = [syncer EXCEPT ![k] = Ended(k, "skipped")]
          /\ UNCHANGED syncLock
  /\ UNCHANGED <<upstreamUsage, usageDaily, refreshes, syncFaults>>

\* Every backend is read as the upstream stands, or its read raises, or the
\* fallback answered for too few users and the quality gate rejects it.  The
\* backends are read in turn; one step does, for no backend's rows depend on
\* when another was read.
CollectBackends(k) ==
  /\ syncer[k].pc = "collect"
  /\ \E answer \in [Backends -> {upstreamUsage, Rejected}] :
        syncer' = [syncer EXCEPT ![k].pc = "publish", ![k].read = answer]
  /\ UNCHANGED <<upstreamUsage, usageDaily, refreshes, syncLock, syncFaults>>

Accepted(k) == {b \in Backends : syncer[k].read[b] # Rejected}

\* publish_snapshots: the window of every accepted backend is deleted and
\* written afresh in one transaction; a rejected backend keeps its rows.
Published(k) ==
  [b \in Backends |-> [d \in Days |->
     IF b \in Accepted(k) /\ d \in DaysOf(syncer[k].window)
     THEN syncer[k].read[b] ELSE usageDaily[b][d]]]

StatusOf(k) ==
  CASE Accepted(k) = Backends -> "ok"
    [] Accepted(k) = {} -> "failed"
    [] OTHER -> "partial"

\* A complete first pass over a long window is followed by a second one over
\* its last days, which reads the request logs.
NeedsSecondPass(k) ==
  /\ StatusOf(k) = "ok" /\ syncer[k].pass = 1
  /\ RecentWindow(syncer[k].window) # syncer[k].window

AfterPublish(k) ==
  IF NeedsSecondPass(k)
  THEN [syncer[k] EXCEPT !.pc = "begin", !.pass = 2, !.window = RecentWindow(@),
                         !.read = Idle.read]
  ELSE Ended(k, StatusOf(k))

PublishSync(k) ==
  /\ syncer[k].pc = "publish"
  /\ usageDaily' = Published(k)
  /\ syncLock' = NoWorker
  /\ syncer' = [syncer EXCEPT ![k] = AfterPublish(k)]
  /\ UNCHANGED <<upstreamUsage, refreshes, syncFaults>>

\* The publishing transaction fails: nothing is stored, the lock is released.
PublishFails(k) ==
  /\ syncer[k].pc = "publish"
  /\ syncLock' = NoWorker
  /\ syncer' = [syncer EXCEPT ![k] = Ended(k, "failed")]
  /\ UNCHANGED <<upstreamUsage, usageDaily, refreshes, syncFaults>>

-----------------------------------------------------------------------------
(* Ending a claim.  The update names the requests only: whoever claimed them
   meanwhile is not looked at. *)

\* Mutant: some of the backends are enough.
SucceededPartly(status) == status \in {"ok", "partial"}

Succeeded(status) == status = "ok"

Finished(k, status) ==
  [w \in Windows |->
     IF w \notin syncer[k].batch THEN refreshes[w]
     ELSE [refreshes[w] EXCEPT
             !.status = IF Succeeded(status) THEN "completed" ELSE "pending",
             !.ripe = Succeeded(status), !.stale = FALSE,
             !.owner = IF @ = k THEN k ELSE NoWorker]]

FinishRefreshes(k) ==
  /\ syncer[k].pc = "finish"
  /\ refreshes' = Finished(k, syncer[k].status)
  /\ syncer' = [syncer EXCEPT ![k] = Idle]
  /\ UNCHANGED <<upstreamUsage, usageDaily, syncLock, syncFaults>>

\* Mutant: a cancelled synchronization keeps the lock.
UnlockedNever(k) == IF k \in SyncWorkers THEN syncLock ELSE NoWorker

Unlocked(k) == IF syncLock = k THEN NoWorker ELSE syncLock

\* The time limit of a queued refresh cancels the synchronization, whose
\* finally clause releases the lock.  Scheduled ones have no limit.
RefreshTimesOut(k) ==
  /\ syncer[k].pc \in {"begin", "collect", "publish"} /\ syncer[k].batch # {}
  /\ refreshes' = Finished(k, "timeout")
  /\ syncLock' = Unlocked(k)
  /\ syncer' = [syncer EXCEPT ![k] = Idle]
  /\ UNCHANGED <<upstreamUsage, usageDaily, syncFaults>>

\* A dead worker's session loses the advisory lock; its claims stay behind.
CrashSyncer(k) ==
  /\ syncer[k].pc # "idle" /\ syncFaults < MaxSyncFaults
  /\ syncFaults' = syncFaults + 1
  /\ syncLock' = Unlocked(k)
  /\ syncer' = [syncer EXCEPT ![k] = Idle]
  /\ UNCHANGED <<upstreamUsage, usageDaily, refreshes>>

-----------------------------------------------------------------------------
SyncStep(k) ==
  \/ BeginSync(k) \/ CollectBackends(k)
  \/ PublishSync(k) \/ PublishFails(k) \/ FinishRefreshes(k)

SyncNext ==
  \/ \E w \in Windows : AskRefresh(w) \/ RetryRipens(w) \/ ClaimGoesStale(w)
  \/ UsageArrives
  \/ \E k \in SyncWorkers :
        \/ ConsumeRefreshes(k) \/ ScheduledSync(k)
        \/ SyncStep(k) \/ RefreshTimesOut(k) \/ CrashSyncer(k)

SyncSpec == SyncInit /\ [][SyncNext]_syncVars

\* A live worker carries on and, when idle, polls the queue; time passes, so
\* the claim of a dead worker goes stale and a retry ripens.
SyncFairness ==
  /\ \A k \in SyncWorkers : WF_syncVars(SyncStep(k)) /\ WF_syncVars(ConsumeRefreshes(k))
  /\ \A w \in Windows : WF_syncVars(ClaimGoesStale(w)) /\ WF_syncVars(RetryRipens(w))

-----------------------------------------------------------------------------
(* Properties *)

SyncTypeOK ==
  /\ upstreamUsage \in 1..MaxUsage
  /\ usageDaily \in [Backends -> [Days -> 0..MaxUsage]]
  /\ refreshes \in [Windows ->
        [status : {"absent", "pending", "running", "completed"}, wanted : 0..MaxUsage,
         ripe : BOOLEAN, stale : BOOLEAN, owner : SyncWorkers \cup {NoWorker}]]
  /\ syncLock \in SyncWorkers \cup {NoWorker}
  /\ syncer \in [SyncWorkers ->
        [pc : {"idle", "begin", "collect", "publish", "finish"}, batch : SUBSET Windows,
         window : Days \X Days, pass : 1..2, read : [Backends -> 0..MaxUsage],
         status : {"none", "ok", "partial", "failed", "skipped"}]]
  /\ syncFaults \in 0..MaxSyncFaults

\* The advisory lock is held by exactly the worker that reads or publishes:
\* neither a time limit, nor a failed transaction, nor a crash leaves it behind,
\* where every later synchronization would be skipped.
LockMatchesSyncer ==
  \A k \in SyncWorkers : syncLock = k <=> syncer[k].pc \in {"collect", "publish"}

\* Published figures never go back to an older reading, although readings are
\* published after others may have been taken: reading and publishing happen
\* under one lock.
FiguresNeverRegress ==
  [][\A b \in Backends, d \in Days : usageDaily'[b][d] >= usageDaily[b][d]]_syncVars

\* A request completed by the worker that last claimed it shows, for every
\* backend and every day of its window, all usage that existed when it was
\* asked for.  A worker whose claim was taken over may complete a request
\* asked for again since: finish_refresh_requests does not look at the claim.
AnsweredInFull ==
  \A w \in Windows :
     refreshes[w].status = "completed" /\ refreshes[w].owner # NoWorker =>
       \A b \in Backends, d \in DaysOf(w) : usageDaily[b][d] >= refreshes[w].wanted

\* A sync holds its lock for as long as it runs, and who asked for one is answered
\* by a run that read everything after the request.
SyncIsSound == LockMatchesSyncer /\ AnsweredInFull

\* No claim is stranded: whatever crashes or stalls, a running request is
\* completed or put back.
ClaimsEnd ==
  \A w \in Windows :
     refreshes[w].status = "running" ~> refreshes[w].status # "running"

=============================================================================

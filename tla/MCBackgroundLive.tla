-------------------------- MODULE MCBackgroundLive --------------------------
(***************************************************************************)
(* What must happen in the end: the background work of the backend, one    *)
(* component at a time, under the fairness of its module.  As in           *)
(* MCUsagePipeline a behaviour picks one component and runs it.            *)
(***************************************************************************)
EXTENDS UsageSync, UsageBackfill, RealtimeLive, RealtimeSettlement, Outbox, KeyCreateLock

VARIABLE focus

allVars == <<syncVars, backfillVars, realtimeVars, settlementVars, outboxVars, vars, focus>>

MCWindows == {<<1, 1>>}
MCRequestDay == [q \in Requests |-> 0]

InSync(A) == /\ focus = "sync" /\ A
             /\ UNCHANGED <<backfillVars, realtimeVars, settlementVars, outboxVars, vars, focus>>
InBackfill(A) == /\ focus = "backfill" /\ A
                 /\ UNCHANGED <<syncVars, realtimeVars, settlementVars, outboxVars, vars, focus>>
InLive(A) == /\ focus = "live" /\ A
             /\ UNCHANGED <<syncVars, backfillVars, settlementVars, outboxVars, vars, focus>>
InSettlement(A) == /\ focus = "settlement" /\ A
                   /\ UNCHANGED <<syncVars, backfillVars, realtimeVars, outboxVars, vars, focus>>
InOutbox(A) == /\ focus = "outbox" /\ A
               /\ UNCHANGED <<syncVars, backfillVars, realtimeVars, settlementVars, vars, focus>>
InLock(A) == /\ focus = "lock" /\ A
             /\ UNCHANGED <<syncVars, backfillVars, realtimeVars, settlementVars, outboxVars, focus>>

MCInit ==
  /\ SyncInit /\ BackfillInit /\ RealtimeInit /\ SettlementInit /\ OutboxInit /\ Init
  /\ focus \in {"sync", "backfill", "live", "settlement", "outbox", "lock"}
  /\ focus # "live" => emptyAnswer = "stream"

MCNext ==
  \/ InSync(SyncNext) \/ InBackfill(BackfillNext) \/ InLive(RealtimeNext)
  \/ InSettlement(SettlementNext) \/ InOutbox(OutboxNext) \/ InLock(Next)

\* The fairness of each module, for the behaviours that run it.
MCFairness ==
  /\ \A k \in SyncWorkers :
       WF_allVars(InSync(SyncStep(k))) /\ WF_allVars(InSync(ConsumeRefreshes(k)))
  /\ \A w \in Windows :
       WF_allVars(InSync(ClaimGoesStale(w))) /\ WF_allVars(InSync(RetryRipens(w)))
  /\ \A i \in Importers :
       WF_allVars(InBackfill(ImportStep(i))) /\ WF_allVars(InBackfill(ClaimImport(i)))
  /\ \A j \in Imports : WF_allVars(InBackfill(LeaseRunsOut(j)))
  /\ \A w \in RealtimeWorkers :
       WF_allVars(InLive(LiveStep(w))) /\ WF_allVars(InLive(LockStep(w)))
  /\ WF_allVars(InSettlement(Tick))
  /\ \A w \in SettlementWorkers :
       /\ WF_allVars(InSettlement(StartWorker(w)))
       /\ WF_allVars(InSettlement(BackgroundScan(w)))
       /\ WF_allVars(InSettlement(BackgroundAdvance(w)))
  /\ \A j \in Jobs :
       WF_allVars(InOutbox(BackoffElapses(j))) /\ WF_allVars(InOutbox(LeaseExpires(j)))
  /\ \A w \in Workers : WF_allVars(InOutbox(Claim(w))) /\ WF_allVars(InOutbox(WorkerStep(w)))
  /\ \A c \in Creates : WF_allVars(InLock(Resume(c))) /\ WF_allVars(InLock(Release(c)))

MCFairSpec == MCInit /\ [][MCNext]_allVars /\ MCFairness

\* What was spent is shown in the end: a minute that has closed reaches the warehouse, and a
\* request in the warehouse reaches the figures of its day while it lasts.
RealtimeArrives == ClosedMinutesArrive /\ FactsAreShown
=============================================================================

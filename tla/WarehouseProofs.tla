--------------------------- MODULE WarehouseProofs ---------------------------
(***************************************************************************)
(* Proofs about what fills the usage warehouse: UsageSync, for any number  *)
(* of workers, backends, days and requests; UsageBackfill, for any number  *)
(* of jobs and importers and windows of any length; LogScan, for logs and  *)
(* pages of any size; the live loop (RealtimeLive) and the settlement of   *)
(* closed minutes (RealtimeSettlement).                                    *)
(*                                                                         *)
(* A request is answered in full because its claim is a fixed point: while *)
(* its worker serves it nobody changes what was wanted, the window read    *)
(* covers it, the reading is at least as new as the request, and figures   *)
(* never regress.  The last holds because reading and publishing happen    *)
(* under one lock: no reading is older than what is stored when it is      *)
(* published.                                                              *)
(*                                                                         *)
(* A scan misses nothing of a log that stands still because every old row  *)
(* on a page it has read is counted; when rows are written meanwhile, this *)
(* holds of a key's scan, whose pages are read in turn: a row is only ever *)
(* pushed to a later page.                                                 *)
(*                                                                         *)
(* The live loop loses no request it has seen but by the limit of its      *)
(* stream, and shows no day smaller than before while its lock holds; the  *)
(* settlement's watermark is earned within its own day.                    *)
(***************************************************************************)
EXTENDS UsageSync, UsageBackfill, LogScan, RealtimeLive, RealtimeSettlement, Integers,
        FiniteSetTheorems, SequenceTheorems, WellFoundedInduction, TLAPS

-----------------------------------------------------------------------------
(* A non-empty set of naturals has a least element, and a greatest if it is *)
(* bounded.                                                                *)

LEMMA LessIsWellFounded ==
    \E R : /\ IsWellFoundedOn(R, Nat)
           /\ \A x, y \in Nat : y < x => <<y, x>> \in R
<1>1. \A x, y \in Nat : y < x => <<y, x>> \in OpToRel(<, Nat)
  BY DEF OpToRel
<1>2. /\ IsWellFoundedOn(OpToRel(<, Nat), Nat)
      /\ \A x, y \in Nat : y < x => <<y, x>> \in OpToRel(<, Nat)
  BY <1>1, NatLessThanWellFounded
<1> QED BY <1>2, Zenon

LEMMA LeastBy ==
    ASSUME NEW R, IsWellFoundedOn(R, Nat),
           \A x, y \in Nat : y < x => <<y, x>> \in R,
           NEW T \in SUBSET Nat, T # {}
    PROVE  \E x \in T : \A y \in T : x <= y
<1>1. T \subseteq Nat
  OBVIOUS
<1>2. PICK x \in T : \A y \in T : ~(<<y, x>> \in R)
  BY <1>1, WFMin, Zenon
<1>3. ASSUME NEW y \in T PROVE x <= y
  <2>1. x \in Nat /\ y \in Nat
    OBVIOUS
  <2>2. ~(y < x)
    BY <2>1, <1>2, Zenon
  <2> QED BY <2>1, <2>2
<1> QED BY <1>3

LEMMA Least ==
    ASSUME NEW T \in SUBSET Nat, T # {}
    PROVE  \E x \in T : \A y \in T : x <= y
BY LessIsWellFounded, LeastBy

LEMMA Greatest ==
    ASSUME NEW n \in Nat, NEW T \in SUBSET (0..n), T # {}
    PROVE  \E x \in T : \A y \in T : y <= x
<1> DEFINE distances == {n - t : t \in T}
<1>1. distances \in SUBSET Nat /\ distances # {}
  <2>1. \A t \in T : t \in Nat /\ t <= n /\ n - t \in Nat
    OBVIOUS
  <2> QED BY <2>1
<1>2. PICK e \in distances : \A f \in distances : e <= f
  <2> HIDE DEF distances
  <2> QED BY <1>1, Least
<1>3. PICK x \in T : e = n - x
  OBVIOUS
<1>4. ASSUME NEW y \in T PROVE y <= x
  <2>1. n - x <= n - y
    BY <1>2, <1>3
  <2> QED BY <2>1
<1> QED BY <1>4

-----------------------------------------------------------------------------
(* UsageSync: the invariant.                                               *)

\* Nothing stored or wanted is newer than the upstream, and a reading that is
\* about to be published is at least as new as what is stored.
ReadingsAreNewest ==
  /\ \A w \in Windows : refreshes[w].wanted <= upstreamUsage
  /\ \A b \in Backends, d \in Days : usageDaily[b][d] <= upstreamUsage
  /\ \A k \in SyncWorkers, b \in Backends : syncer[k].pc = "publish" =>
       /\ syncer[k].read[b] <= upstreamUsage
       /\ syncer[k].read[b] # Rejected =>
            \A d \in Days : usageDaily[b][d] <= syncer[k].read[b]

\* Worker k serves the request it was the last to claim.
Serves(k, w) == w \in syncer[k].batch /\ refreshes[w].owner = k

Shown(w) ==
  \A b \in Backends, d \in DaysOf(w) : usageDaily[b][d] >= refreshes[w].wanted

ServedInFull(k, w) ==
  /\ refreshes[w].status = "running"
  /\ syncer[k].pc \in {"begin", "collect", "publish"} /\ syncer[k].pass = 1
       => DaysOf(w) \subseteq DaysOf(syncer[k].window)
  /\ syncer[k].pc = "publish" =>
       \A b \in Backends : syncer[k].read[b] # Rejected =>
         refreshes[w].wanted <= syncer[k].read[b]
  /\ syncer[k].pass = 2 \/ (syncer[k].pc = "finish" /\ syncer[k].status = "ok")
       => Shown(w)

ClaimsAreServed ==
  \A k \in SyncWorkers, w \in Windows : Serves(k, w) => ServedInFull(k, w)

SyncInv ==
  /\ SyncTypeOK
  /\ LockMatchesSyncer
  /\ ReadingsAreNewest
  /\ ClaimsAreServed
  /\ AnsweredInFull

-----------------------------------------------------------------------------
(* UsageSync: facts about the helpers.                                     *)

\* The union of the claimed windows covers each of them.
LEMMA UnionCovers ==
    ASSUME NEW batch \in SUBSET Windows, batch # {}
    PROVE  /\ UnionOf(batch) \in Days \X Days
           /\ \A w \in batch : DaysOf(w) \subseteq DaysOf(UnionOf(batch))
<1> DEFINE firsts == {w[1] : w \in batch}
           lasts == {w[2] : w \in batch}
<1>1. /\ LastDay \in Nat
      /\ \A w \in batch : w[1] \in 1..LastDay /\ w[2] \in 1..LastDay
  BY SyncAssumption
<1>2. /\ firsts \in SUBSET Nat /\ firsts # {} /\ firsts \subseteq Days
      /\ lasts \in SUBSET (0..LastDay) /\ lasts # {} /\ lasts \subseteq Days
  BY <1>1 DEF Days
<1>3. \E f \in firsts : \A g \in firsts : f <= g
  <2> HIDE DEF firsts
  <2> QED BY <1>2, Least
<1>4. \E l \in lasts : \A g \in lasts : g <= l
  <2> HIDE DEF lasts
  <2> QED BY <1>1, <1>2, Greatest
<1>5. \E l \in lasts : \A g \in lasts : l >= g
  <2>1. \A l, g \in lasts : l >= g <=> g <= l
    BY <1>2
  <2> QED BY <1>4, <2>1
<1> DEFINE f == CHOOSE f \in firsts : \A g \in firsts : f <= g
           l == CHOOSE l \in lasts : \A g \in lasts : l >= g
<1>6. /\ f \in firsts /\ \A g \in firsts : f <= g
      /\ l \in lasts /\ \A g \in lasts : l >= g
  <2> HIDE DEF firsts, lasts
  <2> QED BY <1>3, <1>5
<1>7. UnionOf(batch) = <<f, l>>
  BY DEF UnionOf
<1>8. ASSUME NEW w \in batch PROVE f <= w[1] /\ l >= w[2]
  <2>1. w[1] \in firsts /\ w[2] \in lasts
    OBVIOUS
  <2> HIDE DEF firsts, lasts, f, l
  <2> QED BY <1>6, <2>1
<1>9. f \in Days /\ l \in Days
  <2> HIDE DEF firsts, lasts, f, l
  <2> QED BY <1>2, <1>6
<1> HIDE DEF f, l, firsts, lasts
<1> QED BY <1>1, <1>7, <1>8, <1>9 DEF Days, DaysOf

LEMMA RecentType ==
    ASSUME NEW window \in Days \X Days
    PROVE  RecentWindow(window) \in Days \X Days
BY SyncAssumption DEF RecentWindow, Days

-----------------------------------------------------------------------------
(* UsageSync: type correctness.                                            *)

RefreshRows ==
  [status : {"absent", "pending", "running", "completed"}, wanted : 0..MaxUsage,
   ripe : BOOLEAN, stale : BOOLEAN, owner : SyncWorkers \cup {NoWorker}]
Syncers ==
  [pc : {"idle", "begin", "collect", "publish", "finish"}, batch : SUBSET Windows,
   window : Days \X Days, pass : 1..2, read : [Backends -> 0..MaxUsage],
   status : {"none", "ok", "partial", "failed", "skipped"}]

LEMMA IdleType == Idle \in Syncers
<1>1. <<1, LastDay>> \in Days \X Days
  BY SyncAssumption DEF Days
<1>2. [b \in Backends |-> Rejected] \in [Backends -> 0..MaxUsage]
  BY SyncAssumption DEF Rejected
<1> QED BY <1>1, <1>2 DEF Idle, Syncers

LEMMA EndedType ==
    ASSUME SyncTypeOK, NEW k \in SyncWorkers,
           NEW status \in {"ok", "partial", "failed", "skipped"}
    PROVE  Ended(k, status) \in Syncers
<1>1. syncer[k] \in Syncers
  BY DEF SyncTypeOK, Syncers
<1> QED BY <1>1, IdleType DEF Ended, Syncers

LEMMA FinishedType ==
    ASSUME SyncTypeOK, NEW k \in SyncWorkers, NEW status
    PROVE  Finished(k, status) \in [Windows -> RefreshRows]
<1>1. \A w \in Windows : refreshes[w] \in RefreshRows
  BY DEF SyncTypeOK, RefreshRows
<1> QED BY <1>1, ZenonT(60) DEF Finished, Succeeded, RefreshRows

LEMMA PublishTypes ==
    ASSUME SyncTypeOK, NEW k \in SyncWorkers
    PROVE  /\ Published(k) \in [Backends -> [Days -> 0..MaxUsage]]
           /\ AfterPublish(k) \in Syncers
<1>1. syncer[k] \in Syncers
  BY DEF SyncTypeOK, Syncers
<1>2. Published(k) \in [Backends -> [Days -> 0..MaxUsage]]
  BY <1>1 DEF Published, SyncTypeOK, Syncers
<1>3. StatusOf(k) \in {"ok", "partial", "failed"}
  BY DEF StatusOf
<1>4. RecentWindow(syncer[k].window) \in Days \X Days
  BY <1>1, RecentType DEF Syncers
<1>5. Idle.read \in [Backends -> 0..MaxUsage]
  BY IdleType DEF Syncers
<1>6. \A s \in Syncers, window \in Days \X Days, pass \in 1..2,
         read \in [Backends -> 0..MaxUsage] :
        [s EXCEPT !.pc = "begin", !.pass = pass, !.window = window, !.read = read]
          \in Syncers
  BY DEF Syncers
<1>7. [syncer[k] EXCEPT !.pc = "begin", !.pass = 2,
         !.window = RecentWindow(@), !.read = Idle.read] \in Syncers
  <2>1. 2 \in 1..2
    OBVIOUS
  <2> QED BY <1>1, <1>4, <1>5, <1>6, <2>1, Zenon
<1> QED BY <1>2, <1>3, <1>7, EndedType DEF AfterPublish

LEMMA SyncTypeStep ==
    ASSUME SyncTypeOK, [SyncNext]_syncVars
    PROVE  SyncTypeOK'
<1>1. /\ upstreamUsage \in 1..MaxUsage
      /\ usageDaily \in [Backends -> [Days -> 0..MaxUsage]]
      /\ refreshes \in [Windows -> RefreshRows]
      /\ syncLock \in SyncWorkers \cup {NoWorker}
      /\ syncer \in [SyncWorkers -> Syncers]
      /\ syncFaults \in 0..MaxSyncFaults
  BY DEF SyncTypeOK, RefreshRows, Syncers
<1> DEFINE Types == /\ upstreamUsage' \in 1..MaxUsage
                    /\ usageDaily' \in [Backends -> [Days -> 0..MaxUsage]]
                    /\ refreshes' \in [Windows -> RefreshRows]
                    /\ syncLock' \in SyncWorkers \cup {NoWorker}
                    /\ syncer' \in [SyncWorkers -> Syncers]
                    /\ syncFaults' \in 0..MaxSyncFaults
<1>2. Types => SyncTypeOK'
  BY DEF SyncTypeOK, RefreshRows, Syncers
<1>3. ASSUME NEW w \in Windows, AskRefresh(w) \/ RetryRipens(w) \/ ClaimGoesStale(w)
      PROVE  Types
  <2>1. CASE AskRefresh(w)
    BY <1>1, <2>1 DEF AskRefresh, RefreshRows
  <2>2. CASE RetryRipens(w)
    BY <1>1, <2>2 DEF RetryRipens, RefreshRows
  <2>3. CASE ClaimGoesStale(w)
    <3>1. syncFaults' \in 0..MaxSyncFaults
      BY <1>1, <2>3, SyncAssumption DEF ClaimGoesStale
    <3> QED BY <1>1, <2>3, <3>1 DEF ClaimGoesStale, RefreshRows
  <2> QED BY <1>3, <2>1, <2>2, <2>3
<1>4. CASE UsageArrives
  BY <1>1, <1>2, <1>4, SyncAssumption DEF UsageArrives
<1>5. ASSUME NEW k \in SyncWorkers, ConsumeRefreshes(k) \/ ScheduledSync(k)
      PROVE  Types
  <2>1. CASE ConsumeRefreshes(k)
    <3>1. ClaimBatch \in SUBSET Windows /\ ClaimBatch # {}
      BY <2>1 DEF ConsumeRefreshes, ClaimBatch
    <3>2. UnionOf(ClaimBatch) \in Days \X Days
      BY <3>1, UnionCovers
    <3>3. [Idle EXCEPT !.pc = "begin", !.batch = ClaimBatch,
                       !.window = UnionOf(ClaimBatch)] \in Syncers
      BY <3>1, <3>2, IdleType DEF Syncers
    <3>4. refreshes' \in [Windows -> RefreshRows]
      BY <1>1, <2>1 DEF ConsumeRefreshes, RefreshRows
    <3> QED BY <1>1, <2>1, <3>3, <3>4 DEF ConsumeRefreshes
  <2>2. CASE ScheduledSync(k)
    <3>1. PICK window \in SyncPeriods :
            syncer' = [syncer EXCEPT ![k] = [Idle EXCEPT !.pc = "begin", !.window = window]]
      BY <2>2 DEF ScheduledSync
    <3>2. window \in Days \X Days
      BY SyncAssumption DEF Days
    <3>3. [Idle EXCEPT !.pc = "begin", !.window = window] \in Syncers
      BY <3>2, IdleType DEF Syncers
    <3> QED BY <1>1, <2>2, <3>1, <3>3 DEF ScheduledSync
  <2> QED BY <1>5, <2>1, <2>2
<1>6. ASSUME NEW k \in SyncWorkers, SyncStep(k) PROVE Types
  <2> DEFINE s == syncer[k]
  <2>0. s \in Syncers
    BY <1>1
  <2>1. CASE BeginSync(k)
    <3>1. [s EXCEPT !.pc = "collect"] \in Syncers
      <4> HIDE DEF s
      <4> QED BY <2>0 DEF Syncers
    <3> QED BY <1>1, <2>1, <3>1, EndedType DEF BeginSync
  <2>2. CASE CollectBackends(k)
    <3>1. PICK answer \in [Backends -> {upstreamUsage, Rejected}] :
            syncer' = [syncer EXCEPT ![k].pc = "publish", ![k].read = answer]
      BY <2>2 DEF CollectBackends
    <3>2. [s EXCEPT !.pc = "publish", !.read = answer] \in Syncers
      <4>1. answer \in [Backends -> 0..MaxUsage]
        BY <1>1, SyncAssumption DEF Rejected
      <4> HIDE DEF s
      <4> QED BY <2>0, <4>1 DEF Syncers
    <3> QED BY <1>1, <2>2, <3>1, <3>2 DEF CollectBackends
  <2>3. CASE PublishSync(k)
    BY <1>1, <2>3, PublishTypes DEF PublishSync
  <2>4. CASE PublishFails(k)
    BY <1>1, <2>4, EndedType DEF PublishFails
  <2>5. CASE FinishRefreshes(k)
    BY <1>1, <2>5, FinishedType, IdleType DEF FinishRefreshes
  <2> QED BY <1>6, <2>1, <2>2, <2>3, <2>4, <2>5 DEF SyncStep
<1>7. ASSUME NEW k \in SyncWorkers, RefreshTimesOut(k) \/ CrashSyncer(k) PROVE Types
  <2>1. CASE RefreshTimesOut(k)
    BY <1>1, <2>1, FinishedType, IdleType DEF RefreshTimesOut, Unlocked
  <2>2. CASE CrashSyncer(k)
    BY <1>1, <2>2, IdleType, SyncAssumption DEF CrashSyncer, Unlocked
  <2> QED BY <1>7, <2>1, <2>2
<1>8. CASE UNCHANGED syncVars
  BY <1>1, <1>2, <1>8 DEF syncVars
<1> QED BY <1>2, <1>3, <1>4, <1>5, <1>6, <1>7, <1>8 DEF SyncNext

-----------------------------------------------------------------------------
(* UsageSync: every action preserves the invariant.                        *)

Rest == LockMatchesSyncer /\ ReadingsAreNewest /\ ClaimsAreServed /\ AnsweredInFull

\* What readers and the upstream do: nobody's claim is touched.
LEMMA EnvironmentKeeps ==
    ASSUME SyncInv,
           \/ \E w \in Windows : AskRefresh(w) \/ RetryRipens(w) \/ ClaimGoesStale(w)
           \/ UsageArrives
    PROVE  Rest'
<1> USE DEF SyncInv
<1>1. /\ UNCHANGED <<usageDaily, syncLock, syncer>>
      /\ upstreamUsage \in Nat /\ upstreamUsage' \in Nat
      /\ upstreamUsage <= upstreamUsage'
  BY SyncAssumption
     DEF AskRefresh, RetryRipens, ClaimGoesStale, UsageArrives, SyncTypeOK
<1>2. LockMatchesSyncer'
  BY <1>1 DEF LockMatchesSyncer
<1>3. ASSUME NEW w \in Windows
      PROVE  \/ /\ refreshes'[w].status = refreshes[w].status
                /\ refreshes'[w].wanted = refreshes[w].wanted
                /\ refreshes'[w].owner = refreshes[w].owner
             \/ /\ refreshes[w].status # "running"
                /\ refreshes'[w].status = "pending" /\ refreshes'[w].owner = NoWorker
                /\ refreshes'[w].wanted = upstreamUsage
  BY DEF AskRefresh, RetryRipens, ClaimGoesStale, UsageArrives, SyncTypeOK
<1>4. /\ \A w \in Windows : refreshes[w].wanted \in Nat
      /\ \A b \in Backends, d \in Days : usageDaily[b][d] \in Nat
      /\ \A k \in SyncWorkers, b \in Backends : syncer[k].read[b] \in Nat
  BY SyncAssumption DEF SyncTypeOK
<1>5. ReadingsAreNewest'
  BY <1>1, <1>3, <1>4 DEF ReadingsAreNewest
<1>6. ASSUME NEW k \in SyncWorkers, NEW w \in Windows, Serves(k, w)'
      PROVE  ServedInFull(k, w)'
  <2>1. k # NoWorker
    BY SyncAssumption
  <2>2. /\ refreshes'[w].status = refreshes[w].status
        /\ refreshes'[w].wanted = refreshes[w].wanted /\ Serves(k, w)
    BY <1>1, <1>3, <1>6, <2>1 DEF Serves
  <2> QED BY <1>1, <2>2 DEF ClaimsAreServed, ServedInFull, Shown
<1>7. AnsweredInFull'
  BY <1>1, <1>3 DEF AnsweredInFull
<1> QED BY <1>2, <1>5, <1>6, <1>7 DEF Rest, ClaimsAreServed

LEMMA ConsumeKeeps ==
    ASSUME SyncInv, NEW k \in SyncWorkers, ConsumeRefreshes(k)
    PROVE  Rest'
<1> USE DEF SyncInv
<1> DEFINE claimed == [Idle EXCEPT !.pc = "begin", !.batch = ClaimBatch,
                                   !.window = UnionOf(ClaimBatch)]
<1>1. /\ UNCHANGED <<upstreamUsage, usageDaily, syncLock>>
      /\ syncer[k].pc = "idle" /\ syncer' = [syncer EXCEPT ![k] = claimed]
      /\ ClaimBatch \in SUBSET Windows /\ ClaimBatch # {}
  BY DEF ConsumeRefreshes, ClaimBatch
<1>2. /\ claimed.pc = "begin" /\ claimed.batch = ClaimBatch /\ claimed.pass = 1
      /\ claimed.window = UnionOf(ClaimBatch)
  BY DEF Idle
<1>3. /\ syncer'[k] = claimed
      /\ \A l \in SyncWorkers \ {k} : syncer'[l] = syncer[l]
  BY <1>1 DEF SyncTypeOK
<1> HIDE DEF claimed
<1>4. \A w \in Windows :
        /\ refreshes'[w].wanted = refreshes[w].wanted
        /\ \/ w \in ClaimBatch /\ refreshes'[w].owner = k /\ refreshes'[w].status = "running"
           \/ w \notin ClaimBatch /\ refreshes'[w] = refreshes[w]
  <2> TAKE w \in Windows
  <2>1. CASE w \in ClaimBatch
    <3>1. refreshes'[w] = [refreshes[w] EXCEPT !.status = "running", !.ripe = TRUE,
                                               !.stale = FALSE, !.owner = k]
      BY <2>1 DEF ConsumeRefreshes
    <3>2. refreshes[w] \in RefreshRows
      BY DEF SyncTypeOK, RefreshRows
    <3> QED BY <2>1, <3>1, <3>2 DEF RefreshRows
  <2>2. CASE w \notin ClaimBatch
    BY <2>2 DEF ConsumeRefreshes
  <2> QED BY <2>1, <2>2
<1>5. LockMatchesSyncer'
  BY <1>1, <1>2, <1>3 DEF LockMatchesSyncer
<1>6. ReadingsAreNewest'
  BY <1>1, <1>2, <1>3, <1>4 DEF ReadingsAreNewest
<1>7. ASSUME NEW l \in SyncWorkers, NEW w \in Windows, Serves(l, w)'
      PROVE  ServedInFull(l, w)'
  <2>1. CASE l = k
    <3>1. w \in ClaimBatch
      BY <1>2, <1>3, <1>7, <2>1 DEF Serves
    <3> QED BY <1>1, <1>2, <1>3, <1>4, <2>1, <3>1, UnionCovers DEF ServedInFull
  <2>2. CASE l # k
    <3>1. Serves(l, w) /\ refreshes'[w] = refreshes[w] /\ syncer'[l] = syncer[l]
      BY <1>3, <1>4, <1>7, <2>2 DEF Serves
    <3> QED BY <1>1, <3>1 DEF ClaimsAreServed, ServedInFull, Shown
  <2> QED BY <2>1, <2>2
<1>8. AnsweredInFull'
  BY <1>1, <1>4 DEF AnsweredInFull
<1> QED BY <1>5, <1>6, <1>7, <1>8 DEF Rest, ClaimsAreServed

\* Steps of a synchronization that store nothing.
LEMMA QuietSyncKeeps ==
    ASSUME SyncInv, NEW k \in SyncWorkers,
           ScheduledSync(k) \/ BeginSync(k) \/ CollectBackends(k) \/ PublishFails(k)
    PROVE  Rest'
<1> USE DEF SyncInv
<1>1. /\ UNCHANGED <<upstreamUsage, usageDaily, refreshes>>
      /\ \A l \in SyncWorkers \ {k} : syncer'[l] = syncer[l]
  BY DEF ScheduledSync, BeginSync, CollectBackends, PublishFails, SyncTypeOK
<1>2. AnsweredInFull'
  BY <1>1 DEF AnsweredInFull
<1>3. /\ k # NoWorker /\ upstreamUsage \in 1..MaxUsage
      /\ \A w \in Windows : refreshes[w].wanted \in Nat
      /\ \A b \in Backends, d \in Days : usageDaily[b][d] \in Nat
  BY SyncAssumption DEF SyncTypeOK
<1>4. CASE ScheduledSync(k)
  <2>1. PICK window \in SyncPeriods :
          syncer' = [syncer EXCEPT ![k] = [Idle EXCEPT !.pc = "begin", !.window = window]]
    BY <1>4 DEF ScheduledSync
  <2>2. syncer'[k].pc = "begin" /\ syncer'[k].batch = {}
    BY <2>1 DEF SyncTypeOK, Idle
  <2>3. LockMatchesSyncer'
    BY <1>1, <1>4, <2>2 DEF ScheduledSync, LockMatchesSyncer
  <2>4. ReadingsAreNewest'
    BY <1>1, <2>2 DEF ReadingsAreNewest
  <2>5. \A l \in SyncWorkers, w \in Windows :
          Serves(l, w)' => Serves(l, w) /\ syncer'[l] = syncer[l]
    BY <1>1, <2>2 DEF Serves
  <2>6. ClaimsAreServed'
    BY <1>1, <2>5 DEF ClaimsAreServed, ServedInFull, Shown
  <2> QED BY <1>2, <2>3, <2>4, <2>6 DEF Rest
<1>5. ASSUME NEW status \in {"failed", "skipped"},
             syncer' = [syncer EXCEPT ![k] = Ended(k, status)],
             syncLock' # k, \A l \in SyncWorkers \ {k} : syncLock' = l <=> syncLock = l
      PROVE  Rest'
  <2>1. /\ syncer'[k].pc = "finish" /\ syncer'[k].batch = syncer[k].batch
        /\ syncer'[k].status # "ok" /\ syncer'[k].pass = 1
    BY <1>5 DEF Ended, Idle, SyncTypeOK
  <2>2. ClaimsAreServed'
    <3> SUFFICES ASSUME NEW l \in SyncWorkers, NEW w \in Windows, Serves(l, w)'
                 PROVE  ServedInFull(l, w)'
      BY DEF ClaimsAreServed
    <3>1. Serves(l, w)
      BY <1>1, <2>1 DEF Serves
    <3>2. ServedInFull(l, w)
      BY <3>1 DEF ClaimsAreServed
    <3> QED BY <1>1, <2>1, <3>2 DEF ServedInFull, Shown
  <2> QED BY <1>1, <1>2, <1>5, <2>1, <2>2
          DEF Rest, LockMatchesSyncer, ReadingsAreNewest
<1>6. CASE BeginSync(k)
  <2>1. CASE LockIsFree(k)
    <3>1. /\ syncer'[k] = [syncer[k] EXCEPT !.pc = "collect"]
          /\ syncLock' = k /\ syncLock = NoWorker /\ syncer[k].pc = "begin"
      BY <1>6, <2>1 DEF BeginSync, SyncTypeOK, LockIsFree
    <3>2. /\ syncer'[k].pc = "collect" /\ syncer'[k].batch = syncer[k].batch
          /\ syncer'[k].pass = syncer[k].pass /\ syncer'[k].window = syncer[k].window
      BY <3>1 DEF SyncTypeOK
    <3>3. ClaimsAreServed'
      <4> SUFFICES ASSUME NEW l \in SyncWorkers, NEW w \in Windows, Serves(l, w)'
                   PROVE  ServedInFull(l, w)'
        BY DEF ClaimsAreServed
      <4>1. Serves(l, w)
        BY <1>1, <3>2 DEF Serves
      <4>2. ServedInFull(l, w)
        BY <4>1 DEF ClaimsAreServed
      <4> QED BY <1>1, <3>1, <3>2, <4>2 DEF ServedInFull, Shown
    <3>4. LockMatchesSyncer'
      <4> SUFFICES ASSUME NEW l \in SyncWorkers
                   PROVE  syncLock' = l <=> syncer'[l].pc \in {"collect", "publish"}
        BY DEF LockMatchesSyncer
      <4>1. l # NoWorker
        BY SyncAssumption
      <4> QED BY <1>1, <3>1, <3>2, <4>1 DEF LockMatchesSyncer
    <3>5. ReadingsAreNewest'
      BY <1>1, <3>2 DEF ReadingsAreNewest
    <3> QED BY <1>2, <3>3, <3>4, <3>5 DEF Rest
  <2>2. CASE ~LockIsFree(k)
    <3>1. syncLock # k
      BY <1>6 DEF BeginSync, LockMatchesSyncer
    <3> QED BY <1>5, <1>6, <2>2, <3>1 DEF BeginSync
  <2> QED BY <2>1, <2>2
<1>7. CASE CollectBackends(k)
  <2>1. PICK answer \in [Backends -> {upstreamUsage, Rejected}] :
          syncer' = [syncer EXCEPT ![k].pc = "publish", ![k].read = answer]
    BY <1>7 DEF CollectBackends
  <2>2. /\ syncer[k].pc = "collect" /\ syncLock' = syncLock
        /\ syncer'[k] = [syncer[k] EXCEPT !.pc = "publish", !.read = answer]
    BY <1>7, <2>1 DEF CollectBackends, SyncTypeOK
  <2>3. /\ syncer'[k].pc = "publish" /\ syncer'[k].batch = syncer[k].batch
        /\ syncer'[k].pass = syncer[k].pass /\ syncer'[k].window = syncer[k].window
        /\ syncer'[k].read = answer
    BY <2>2 DEF SyncTypeOK
  <2>4. \A b \in Backends : \/ answer[b] = upstreamUsage
                            \/ answer[b] = Rejected /\ answer[b] <= upstreamUsage
    BY <1>3, SyncAssumption DEF Rejected
  <2>5. ReadingsAreNewest'
    BY <1>1, <1>3, <2>3, <2>4, SyncAssumption DEF ReadingsAreNewest
  <2>6. ClaimsAreServed'
    <3> SUFFICES ASSUME NEW l \in SyncWorkers, NEW w \in Windows, Serves(l, w)'
                 PROVE  ServedInFull(l, w)'
      BY DEF ClaimsAreServed
    <3>1. Serves(l, w)
      BY <1>1, <2>3 DEF Serves
    <3>2. ServedInFull(l, w) /\ refreshes[w].wanted <= upstreamUsage
      BY <3>1 DEF ClaimsAreServed, ReadingsAreNewest
    <3> QED BY <1>1, <2>2, <2>3, <2>4, <3>2, ZenonT(60) DEF ServedInFull, Shown
  <2> QED BY <1>1, <1>2, <2>2, <2>3, <2>5, <2>6 DEF Rest, LockMatchesSyncer
<1>8. CASE PublishFails(k)
  <2>1. syncLock = k
    BY <1>8 DEF PublishFails, LockMatchesSyncer
  <2> QED BY <1>3, <1>5, <1>8, <2>1, SyncAssumption DEF PublishFails
<1> QED BY <1>4, <1>6, <1>7, <1>8

\* What a publication stores is at least as new as what it replaces.
LEMMA PublishAdvances ==
    ASSUME SyncInv, NEW k \in SyncWorkers, PublishSync(k)
    PROVE  \A b \in Backends, d \in Days :
             /\ usageDaily[b][d] <= usageDaily'[b][d]
             /\ usageDaily'[b][d] <= upstreamUsage
<1> USE DEF SyncInv
<1>1. syncer[k].pc = "publish" /\ usageDaily' = Published(k)
  BY DEF PublishSync
<1> TAKE b \in Backends, d \in Days
<1>2. /\ usageDaily[b][d] \in Nat /\ usageDaily[b][d] <= upstreamUsage
      /\ syncer[k].read[b] # Rejected => usageDaily[b][d] <= syncer[k].read[b]
      /\ syncer[k].read[b] <= upstreamUsage
  BY <1>1, SyncAssumption DEF ReadingsAreNewest, SyncTypeOK
<1>3. b \in Accepted(k) => syncer[k].read[b] # Rejected
  BY DEF Accepted
<1>4. usageDaily'[b][d] \in {syncer[k].read[b], usageDaily[b][d]}
  BY <1>1 DEF Published
<1>5. b \notin Accepted(k) => usageDaily'[b][d] = usageDaily[b][d]
  BY <1>1 DEF Published
<1> QED BY <1>2, <1>3, <1>4, <1>5

LEMMA PublishKeeps ==
    ASSUME SyncInv, NEW k \in SyncWorkers, PublishSync(k), SyncTypeOK'
    PROVE  Rest'
<1> USE DEF SyncInv
<1>1. /\ UNCHANGED <<upstreamUsage, refreshes>> /\ syncLock' = NoWorker
      /\ syncer[k].pc = "publish" /\ syncLock = k
      /\ syncer'[k] = AfterPublish(k)
      /\ \A l \in SyncWorkers \ {k} : syncer'[l] = syncer[l]
  BY DEF PublishSync, SyncTypeOK, LockMatchesSyncer
<1>2. /\ upstreamUsage \in Nat
      /\ \A w \in Windows : refreshes[w].wanted \in Nat /\ DaysOf(w) \subseteq Days
      /\ \A b \in Backends, d \in Days :
           usageDaily[b][d] \in Nat /\ usageDaily'[b][d] \in Nat
      /\ \A l \in SyncWorkers, b \in Backends : syncer[l].read[b] \in Nat
  <2>1. \A w \in Windows : w[1] \in 1..LastDay /\ w[2] \in 1..LastDay
    BY SyncAssumption
  <2>2. \A w \in Windows : DaysOf(w) \subseteq Days
    BY <2>1, SyncAssumption DEF DaysOf, Days
  <2>3. /\ upstreamUsage \in Nat
        /\ \A w \in Windows : refreshes[w].wanted \in Nat
        /\ \A b \in Backends, d \in Days : usageDaily[b][d] \in Nat
        /\ \A l \in SyncWorkers, b \in Backends : syncer[l].read[b] \in Nat
    BY SyncAssumption DEF SyncTypeOK
  <2>4. \A b \in Backends, d \in Days : usageDaily'[b][d] \in Nat
    BY SyncAssumption DEF SyncTypeOK
  <2> QED BY <2>2, <2>3, <2>4
<1>3. /\ syncer'[k].batch = syncer[k].batch /\ syncer'[k].pc \in {"begin", "finish"}
      /\ syncer'[k].pc = "begin" =>
           syncer'[k].pass = 2 /\ syncer[k].pass = 1 /\ StatusOf(k) = "ok"
      /\ syncer'[k].pc = "finish" =>
           syncer'[k].pass = 1 /\ (syncer'[k].status = "ok" => StatusOf(k) = "ok")
  <2>1. CASE NeedsSecondPass(k)
    <3>1. syncer'[k] = [syncer[k] EXCEPT !.pc = "begin", !.pass = 2,
                          !.window = RecentWindow(@), !.read = Idle.read]
      BY <1>1, <2>1 DEF AfterPublish
    <3> QED BY <2>1, <3>1 DEF NeedsSecondPass, SyncTypeOK
  <2>2. CASE ~NeedsSecondPass(k)
    <3>1. syncer'[k] = Ended(k, StatusOf(k))
      BY <1>1, <2>2 DEF AfterPublish
    <3> QED BY <3>1 DEF Ended, Idle
  <2> QED BY <2>1, <2>2
<1>4. \A l \in SyncWorkers \ {k} : syncer[l].pc # "publish"
  BY <1>1 DEF LockMatchesSyncer
<1>5. \A w \in Windows : Shown(w) => Shown(w)'
  <2> SUFFICES ASSUME NEW w \in Windows, Shown(w), NEW b \in Backends, NEW d \in DaysOf(w)
               PROVE  usageDaily'[b][d] >= refreshes[w].wanted
    BY <1>1 DEF Shown, DaysOf
  <2>1. d \in Days /\ usageDaily[b][d] >= refreshes[w].wanted
    BY <1>2 DEF Shown
  <2>2. usageDaily[b][d] <= usageDaily'[b][d]
    BY <2>1, PublishAdvances
  <2> QED BY <1>2, <2>1, <2>2
<1>6. LockMatchesSyncer'
  <2> SUFFICES ASSUME NEW l \in SyncWorkers
               PROVE  ~(syncer'[l].pc \in {"collect", "publish"})
    BY <1>1, SyncAssumption DEF LockMatchesSyncer
  <2> QED BY <1>1, <1>3 DEF LockMatchesSyncer
<1>7. ReadingsAreNewest'
  BY <1>1, <1>2, <1>3, <1>4, PublishAdvances DEF ReadingsAreNewest
<1>8. ASSUME NEW l \in SyncWorkers, NEW w \in Windows, Serves(l, w)'
      PROVE  ServedInFull(l, w)'
  <2>1. Serves(l, w)
    BY <1>1, <1>3, <1>8 DEF Serves
  <2>2. ServedInFull(l, w)
    BY <2>1 DEF ClaimsAreServed
  <2>3. CASE l # k
    BY <1>1, <1>4, <1>5, <2>2, <2>3 DEF ServedInFull
  <2>4. ASSUME l = k, StatusOf(k) = "ok" PROVE Shown(w)'
    <3>1. CASE syncer[k].pass = 2
      BY <1>5, <2>2, <2>4, <3>1 DEF ServedInFull
    <3>2. CASE syncer[k].pass = 1
      <4> SUFFICES ASSUME NEW b \in Backends, NEW d \in DaysOf(w)
                   PROVE  usageDaily'[b][d] >= refreshes[w].wanted
        BY <1>1 DEF Shown, DaysOf
      <4>1. Accepted(k) = Backends
        BY <2>4 DEF StatusOf
      <4>2. syncer[k].read[b] # Rejected /\ b \in Accepted(k)
        BY <4>1 DEF Accepted
      <4>3. d \in Days /\ d \in DaysOf(syncer[k].window)
            /\ refreshes[w].wanted <= syncer[k].read[b]
        BY <1>1, <1>2, <2>2, <2>4, <3>2, <4>2 DEF ServedInFull
      <4>4. usageDaily'[b][d] = syncer[k].read[b]
        BY <4>2, <4>3 DEF PublishSync, Published
      <4> QED BY <1>2, <4>3, <4>4
    <3> QED BY <3>1, <3>2 DEF SyncTypeOK
  <2>5. CASE l = k
    BY <1>1, <1>3, <2>2, <2>4, <2>5 DEF ServedInFull
  <2> QED BY <2>3, <2>5
<1>9. AnsweredInFull'
  <2>1. AnsweredInFull <=>
          \A w \in Windows : refreshes[w].status = "completed"
             /\ refreshes[w].owner # NoWorker => Shown(w)
    BY DEF AnsweredInFull, Shown
  <2>2. AnsweredInFull' <=>
          \A w \in Windows : refreshes'[w].status = "completed"
             /\ refreshes'[w].owner # NoWorker => Shown(w)'
    BY DEF AnsweredInFull, Shown
  <2> QED BY <1>1, <1>5, <2>1, <2>2
<1> QED BY <1>6, <1>7, <1>8, <1>9 DEF Rest, ClaimsAreServed

\* A worker lets go: its requests are completed or put back, or left behind.
LEMMA EndKeeps ==
    ASSUME SyncInv, NEW k \in SyncWorkers, NEW status,
           UNCHANGED <<upstreamUsage, usageDaily>>,
           syncLock' = Unlocked(k), syncer' = [syncer EXCEPT ![k] = Idle],
           refreshes' = refreshes \/ refreshes' = Finished(k, status),
           status = "ok" => syncer[k].pc = "finish" /\ syncer[k].status = "ok"
    PROVE  Rest'
<1> USE DEF SyncInv
<1>1. /\ syncer'[k].pc = "idle" /\ syncer'[k].batch = {}
      /\ \A l \in SyncWorkers \ {k} : syncer'[l] = syncer[l]
      /\ k # NoWorker
  BY SyncAssumption DEF SyncTypeOK, Idle
<1>2. ASSUME NEW w \in Windows
      PROVE  /\ refreshes'[w].wanted = refreshes[w].wanted
             /\ \/ refreshes'[w] = refreshes[w]
                \/ /\ w \in syncer[k].batch
                   /\ refreshes'[w].status \in {"completed", "pending"}
                   /\ refreshes'[w].status = "completed" => status = "ok"
                   /\ refreshes'[w].owner =
                        IF refreshes[w].owner = k THEN k ELSE NoWorker
  <2>1. CASE refreshes' = refreshes
    BY <2>1
  <2>2. CASE refreshes' = Finished(k, status)
    <3>1. refreshes[w] \in RefreshRows
      BY DEF SyncTypeOK, RefreshRows
    <3>2. CASE w \in syncer[k].batch
      <4>1. refreshes'[w] = [refreshes[w] EXCEPT
             !.status = IF Succeeded(status) THEN "completed" ELSE "pending",
             !.ripe = Succeeded(status), !.stale = FALSE,
             !.owner = IF refreshes[w].owner = k THEN k ELSE NoWorker]
        BY <2>2, <3>2 DEF Finished
      <4> QED BY <3>1, <3>2, <4>1 DEF RefreshRows, Succeeded
    <3>3. CASE w \notin syncer[k].batch
      BY <2>2, <3>3 DEF Finished
    <3> QED BY <3>2, <3>3
  <2> QED BY <2>1, <2>2
<1>3. LockMatchesSyncer'
  <2> SUFFICES ASSUME NEW l \in SyncWorkers
               PROVE  syncLock' = l <=> syncer'[l].pc \in {"collect", "publish"}
    BY DEF LockMatchesSyncer
  <2>1. l # NoWorker
    BY SyncAssumption
  <2> QED BY <1>1, <2>1 DEF LockMatchesSyncer, Unlocked
<1>4. ReadingsAreNewest'
  BY <1>1, <1>2 DEF ReadingsAreNewest
<1>5. ASSUME NEW l \in SyncWorkers, NEW w \in Windows, Serves(l, w)'
      PROVE  ServedInFull(l, w)'
  <2>1. l # k /\ l # NoWorker
    BY <1>1, <1>5, SyncAssumption DEF Serves
  <2>2. refreshes'[w] = refreshes[w] /\ Serves(l, w)
    BY <1>1, <1>2, <1>5, <2>1 DEF Serves
  <2> QED BY <1>1, <2>1, <2>2 DEF ClaimsAreServed, ServedInFull, Shown
<1>6. AnsweredInFull'
  <2> SUFFICES ASSUME NEW w \in Windows, refreshes'[w].status = "completed",
                      refreshes'[w].owner # NoWorker
               PROVE  Shown(w)
    BY <1>2 DEF AnsweredInFull, Shown
  <2>1. CASE refreshes'[w] = refreshes[w]
    BY <2>1 DEF AnsweredInFull, Shown
  <2>2. CASE refreshes'[w] # refreshes[w]
    <3>1. /\ w \in syncer[k].batch /\ status = "ok" /\ refreshes[w].owner = k
      BY <1>2, <2>2
    <3> QED BY <3>1 DEF ClaimsAreServed, Serves, ServedInFull
  <2> QED BY <2>1, <2>2
<1> QED BY <1>3, <1>4, <1>5, <1>6 DEF Rest, ClaimsAreServed

LEMMA SyncStepInv ==
    ASSUME SyncInv, [SyncNext]_syncVars PROVE SyncInv'
<1>1. SyncTypeOK'
  BY SyncTypeStep DEF SyncInv
<1>2. Rest'
  <2>1. ASSUME NEW k \in SyncWorkers, FinishRefreshes(k) PROVE Rest'
    <3>1. syncLock' = Unlocked(k)
      BY <2>1 DEF FinishRefreshes, Unlocked, SyncInv, LockMatchesSyncer
    <3> QED BY <2>1, <3>1, EndKeeps DEF FinishRefreshes
  <2>2. ASSUME NEW k \in SyncWorkers, RefreshTimesOut(k) \/ CrashSyncer(k) PROVE Rest'
    BY <2>2, EndKeeps DEF RefreshTimesOut, CrashSyncer
  <2>3. CASE UNCHANGED syncVars
    BY <2>3 DEF SyncInv, Rest, syncVars, LockMatchesSyncer, ReadingsAreNewest,
       ClaimsAreServed, Serves, ServedInFull, Shown, AnsweredInFull
  <2> QED BY <1>1, <2>1, <2>2, <2>3, EnvironmentKeeps, ConsumeKeeps, QuietSyncKeeps,
             PublishKeeps DEF SyncNext, SyncStep
<1> QED BY <1>1, <1>2 DEF SyncInv, Rest

\* The warehouse's invariant, from which its safety properties follow.
THEOREM SyncInvariant == SyncSpec => []SyncInv
<1>1. SyncInit => SyncInv
  <2> SUFFICES ASSUME SyncInit PROVE SyncInv
    OBVIOUS
  <2>1. \A k \in SyncWorkers : syncer[k] = Idle /\ k # NoWorker
    BY SyncAssumption DEF SyncInit
  <2>2. Idle.pc = "idle" /\ Idle.batch = {}
    BY DEF Idle
  <2>3. SyncTypeOK
    <3>1. \A k \in SyncWorkers : syncer[k] \in Syncers
      BY <2>1, IdleType
    <3>2. syncer \in [SyncWorkers -> Syncers]
      BY <3>1 DEF SyncInit
    <3> QED BY <3>2, SyncAssumption DEF SyncInit, SyncTypeOK, Syncers
  <2>4. LockMatchesSyncer /\ ClaimsAreServed /\ AnsweredInFull
    BY <2>1, <2>2 DEF SyncInit, LockMatchesSyncer, ClaimsAreServed, Serves,
       AnsweredInFull
  <2>5. ReadingsAreNewest
    BY <2>1, <2>2 DEF SyncInit, ReadingsAreNewest
  <2> QED BY <2>3, <2>4, <2>5 DEF SyncInv
<1> QED BY <1>1, SyncStepInv, PTL DEF SyncSpec

\* The lock is held by exactly the worker that reads or publishes, and a request
\* completed by the worker that last claimed it shows, for every backend and
\* day of its window, all usage that existed when it was asked for.
THEOREM SyncSound == SyncSpec => []SyncIsSound
<1>1. SyncInv => SyncIsSound
  BY DEF SyncInv, SyncIsSound
<1> QED BY <1>1, SyncInvariant, PTL

\* The warehouse, the queue and the workers keep their types.
THEOREM SyncTypeCorrect == SyncSpec => []SyncTypeOK
<1>1. SyncInv => SyncTypeOK
  BY DEF SyncInv
<1> QED BY <1>1, SyncInvariant, PTL

\* Published figures never go back to an older reading.
THEOREM FiguresStay == SyncSpec => FiguresNeverRegress
<1>1. SyncInv /\ [SyncNext]_syncVars =>
        [\A b \in Backends, d \in Days : usageDaily'[b][d] >= usageDaily[b][d]]_syncVars
  <2> SUFFICES ASSUME SyncInv, SyncNext, NEW b \in Backends, NEW d \in Days
               PROVE  usageDaily'[b][d] >= usageDaily[b][d]
    OBVIOUS
  <2>1. usageDaily[b][d] \in Nat /\ usageDaily'[b][d] \in Nat
    BY SyncTypeStep, SyncAssumption DEF SyncInv, SyncTypeOK
  <2>2. CASE \E k \in SyncWorkers : PublishSync(k)
    BY <2>1, <2>2, PublishAdvances
  <2>3. CASE usageDaily' = usageDaily
    BY <2>1, <2>3
  <2> QED BY <2>2, <2>3 DEF SyncNext, SyncStep, AskRefresh, RetryRipens,
          ClaimGoesStale, UsageArrives, ConsumeRefreshes, ScheduledSync, BeginSync,
          CollectBackends, PublishFails, FinishRefreshes, RefreshTimesOut, CrashSyncer
<1> QED BY <1>1, SyncInvariant, PTL DEF SyncSpec, FiguresNeverRegress

-----------------------------------------------------------------------------
(* UsageBackfill: the invariant.                                           *)

ImportRows ==
  [status : {"absent", "pending", "running", "partial", "complete", "failed"},
   next : FirstDay..FinalDay + 1, lease : Importers \cup {NoImporter},
   expired : BOOLEAN]
Claims ==
  [pc : {"idle", "scan", "store", "complete", "fail"},
   job : Imports \cup {NoClaim.job}, from : FirstDay..FinalDay,
   through : FirstDay..FinalDay]

\* The types of everything but the counters and the order in which jobs are taken,
\* which decides who is served first and nothing else.
ImportTypes ==
  /\ jobs \in [Imports -> ImportRows]
  /\ stored \in [Imports -> SUBSET (FirstDay..FinalDay)]
  /\ importer \in [Importers -> Claims]
  /\ \A i \in Importers : importer[i].pc # "idle" => importer[i].job \in Imports

\* The holder of a lease works on the window that is still the job's next.
WindowIsNext ==
  \A i \in Importers : importer[i].pc # "idle" /\ Holds(i) =>
     /\ importer[i].from = jobs[importer[i].job].next
     /\ importer[i].through = WindowEnd(importer[i].job)

\* A window is completed after its rows were stored.
WindowIsStored ==
  \A i \in Importers : importer[i].pc = "complete" =>
     importer[i].from..importer[i].through \subseteq stored[importer[i].job]

ImportInv == ImportTypes /\ WindowIsNext /\ WindowIsStored

-----------------------------------------------------------------------------
(* UsageBackfill: every action preserves the invariant.                    *)

LEMMA WindowEndType ==
    ASSUME ImportTypes, NEW j \in Imports, jobs[j].next <= FinalDay
    PROVE  /\ jobs[j].next \in FirstDay..FinalDay
           /\ WindowEnd(j) \in jobs[j].next..FinalDay
           /\ WindowEnd(j) <= jobs[j].next + WindowDays - 1
BY BackfillAssumption DEF ImportTypes, ImportRows, WindowEnd

\* A step that moves no job forward and takes no lease away from its holder.
LEMMA NextStays ==
    ASSUME ImportInv, ImportTypes',
           \A j \in Imports : jobs'[j].next = jobs[j].next,
           \A i \in Importers, j \in Imports :
              jobs'[j].lease = i /\ jobs'[j].status = "running" =>
                 jobs[j].lease = i /\ jobs[j].status = "running",
           \A i \in Importers : \/ importer'[i].pc = "idle"
                                \/ /\ importer'[i].job = importer[i].job
                                   /\ importer'[i].from = importer[i].from
                                   /\ importer'[i].through = importer[i].through
                                   /\ importer[i].pc # "idle"
    PROVE  WindowIsNext'
<1> SUFFICES ASSUME NEW i \in Importers, importer'[i].pc # "idle", Holds(i)'
             PROVE  /\ importer'[i].from = jobs'[importer'[i].job].next
                    /\ importer'[i].through = WindowEnd(importer[i].job)'
  BY DEF WindowIsNext, WindowEnd
<1>1. importer'[i].job \in Imports /\ importer'[i].job = importer[i].job
  BY DEF ImportTypes
<1>2. Holds(i) /\ importer[i].pc # "idle"
  BY <1>1 DEF Holds
<1> QED BY <1>1, <1>2 DEF ImportInv, WindowIsNext, WindowEnd

LEMMA RequestKeeps ==
    ASSUME ImportInv, NEW j \in Imports, EnsureBackfill(j) \/ LeaseRunsOut(j)
    PROVE  ImportInv'
<1> USE DEF ImportInv
<1>1. UNCHANGED <<importer, stored>>
  BY DEF EnsureBackfill, LeaseRunsOut
<1>2. ASSUME NEW i \in Imports
      PROVE  /\ jobs'[i] \in ImportRows /\ jobs'[i].next = jobs[i].next
             /\ jobs'[i].lease = jobs[i].lease
             /\ jobs'[i].status = "running" => jobs[i].status = "running"
  <2>1. jobs[i] \in ImportRows
    BY DEF ImportTypes
  <2>2. \/ jobs'[i] = jobs[i] \/ jobs'[i] = [jobs[i] EXCEPT !.status = "pending"]
        \/ jobs'[i] = [jobs[i] EXCEPT !.expired = TRUE]
    BY DEF EnsureBackfill, LeaseRunsOut, ImportTypes
  <2> QED BY <2>1, <2>2 DEF ImportRows
<1>3. ImportTypes'
  BY <1>1, <1>2 DEF ImportTypes, EnsureBackfill, LeaseRunsOut
<1>4. WindowIsStored'
  BY <1>1 DEF WindowIsStored
<1>5. WindowIsNext'
  BY <1>1, <1>2, <1>3, NextStays
<1> QED BY <1>3, <1>4, <1>5

LEMMA ReclaimedRows ==
    ASSUME ImportTypes, NEW j \in Imports
    PROVE  /\ AfterReclaim[j] \in ImportRows
           /\ AfterReclaim[j].next = jobs[j].next
           /\ \A i \in Importers :
                AfterReclaim[j].lease = i => jobs[j].lease = i
                  /\ AfterReclaim[j].status = jobs[j].status
<1>1. jobs[j] \in ImportRows
  BY DEF ImportTypes
<1>2. CASE Stale(j)
  <2>1. AfterReclaim[j] = [jobs[j] EXCEPT !.status = "failed", !.lease = NoImporter,
                                          !.expired = FALSE]
    BY <1>2 DEF AfterReclaim
  <2>2. [jobs[j] EXCEPT !.status = "failed", !.lease = NoImporter, !.expired = FALSE]
          \in ImportRows
    BY <1>1 DEF ImportRows
  <2>3. AfterReclaim[j].next = jobs[j].next /\ AfterReclaim[j].lease = NoImporter
    BY <1>1, <2>1 DEF ImportRows
  <2> QED BY <2>1, <2>2, <2>3, BackfillAssumption
<1>3. CASE ~Stale(j)
  <2>1. AfterReclaim[j] = jobs[j]
    BY <1>3 DEF AfterReclaim
  <2> QED BY <1>1, <2>1
<1> QED BY <1>2, <1>3

LEMMA ClaimKeeps ==
    ASSUME ImportInv, NEW i \in Importers, ClaimImport(i)
    PROVE  ImportInv'
<1> USE DEF ImportInv
<1>1. CASE ClaimNothing(i)
  <2>1. UNCHANGED <<importer, stored>> /\ jobs' = AfterReclaim
    BY <1>1 DEF ClaimNothing
  <2>2. ImportTypes'
    BY <2>1, ReclaimedRows DEF ImportTypes, AfterReclaim
  <2>3. WindowIsNext'
    BY <2>1, <2>2, ReclaimedRows, NextStays
  <2> QED BY <2>1, <2>2, <2>3 DEF WindowIsStored
<1>2. CASE ClaimWindow(i)
  <2> PICK j \in Imports :
       /\ FirstDue(j)
       /\ jobs' = [AfterReclaim EXCEPT ![j].status = "running", ![j].lease = i]
       /\ importer' = [importer EXCEPT ![i] =
             [pc |-> "scan", job |-> j, from |-> jobs[j].next, through |-> WindowEnd(j)]]
    BY <1>2 DEF ClaimWindow
  <2>1. stored' = stored /\ importer[i].pc = "idle"
    BY <1>2 DEF ClaimWindow
  <2>2. /\ jobs[j].next \in FirstDay..FinalDay
        /\ WindowEnd(j) \in FirstDay..FinalDay
    BY WindowEndType, BackfillAssumption DEF FirstDue, Due
  <2>3. AfterReclaim = [l \in Imports |-> AfterReclaim[l]]
    BY DEF AfterReclaim
  <2>4. /\ jobs'[j] = [AfterReclaim[j] EXCEPT !.status = "running", !.lease = i]
        /\ \A l \in Imports \ {j} : jobs'[l] = AfterReclaim[l]
        /\ jobs' = [l \in Imports |-> jobs'[l]]
    BY <2>3
  <2>5. /\ jobs'[j] \in ImportRows /\ jobs'[j].next = jobs[j].next
        /\ jobs'[j].lease = i
    BY <2>4, ReclaimedRows, ZenonT(60) DEF ImportRows
  <2>6. /\ importer'[i] = [pc |-> "scan", job |-> j, from |-> jobs[j].next,
                           through |-> WindowEnd(j)]
        /\ \A k \in Importers \ {i} : importer'[k] = importer[k]
    BY DEF ImportTypes
  <2>7. jobs' \in [Imports -> ImportRows]
    BY <2>4, <2>5, ReclaimedRows
  <2>8. importer' \in [Importers -> Claims]
    BY <2>2, <2>6 DEF Claims, ImportTypes
  <2>9. ImportTypes'
    BY <2>1, <2>6, <2>7, <2>8 DEF ImportTypes
  <2>10. WindowIsNext'
    <3> SUFFICES ASSUME NEW k \in Importers, importer'[k].pc # "idle", Holds(k)'
                 PROVE  /\ importer'[k].from = jobs'[importer'[k].job].next
                        /\ importer'[k].through = WindowEnd(importer[k].job)'
      BY DEF WindowIsNext, WindowEnd
    <3>1. CASE k = i
      <4>1. /\ importer'[k].job = j /\ importer'[k].from = jobs[j].next
            /\ importer'[k].through = WindowEnd(j)
        BY <2>6, <3>1
      <4>2. jobs'[importer'[k].job].next = jobs[j].next
        BY <2>5, <4>1
      <4>3. WindowEnd(importer[k].job)' = WindowEnd(j)
        BY ONLY <4>2, Zenon DEF WindowEnd
      <4> QED BY <4>1, <4>2, <4>3
    <3>2. CASE k # i
      <4> DEFINE l == importer[k].job
      <4>1. importer'[k] = importer[k] /\ l \in Imports
        BY <2>6, <3>2 DEF ImportTypes
      <4>2. l # j /\ jobs'[l] = AfterReclaim[l]
        BY <2>4, <2>5, <3>2, <4>1 DEF Holds
      <4>3. Holds(k) /\ jobs'[l].next = jobs[l].next
        BY <4>1, <4>2, ReclaimedRows DEF Holds
      <4> QED BY <4>1, <4>3 DEF WindowIsNext, WindowEnd
    <3> QED BY <3>1, <3>2
  <2>11. WindowIsStored'
    BY <2>1, <2>6 DEF WindowIsStored
  <2> QED BY <2>9, <2>10, <2>11
<1> QED BY <1>1, <1>2 DEF ClaimImport

\* The steps of a window touch no other worker's claim and no other job.
LEMMA WindowKeeps ==
    ASSUME ImportInv, NEW i \in Importers,
           ScanWindow(i) \/ ScanFails(i) \/ StoreWindow(i)
             \/ CompleteRejected(i) \/ CrashImporter(i)
    PROVE  ImportInv'
<1> USE DEF ImportInv
<1>1. importer[i] \in Claims /\ importer = [k \in Importers |-> importer[k]]
  BY DEF ImportTypes
<1>2. NoClaim \in Claims /\ NoClaim.pc = "idle"
  BY BackfillAssumption DEF NoClaim, Claims
<1>3. /\ UNCHANGED jobs
      /\ \A k \in Importers \ {i} : importer'[k] = importer[k]
      /\ \/ importer'[i] = NoClaim
         \/ /\ importer[i].pc # "idle"
            /\ \E pc \in {"store", "complete", "fail"} :
                 /\ importer'[i] = [importer[i] EXCEPT !.pc = pc]
                 /\ pc = "complete" => StoreWindow(i)
      /\ importer' = [k \in Importers |-> importer'[k]]
  BY <1>1 DEF ScanWindow, ScanFails, StoreWindow, CompleteRejected, CrashImporter
<1>4. /\ importer'[i] \in Claims
      /\ \/ importer'[i].pc = "idle"
         \/ /\ importer'[i].job = importer[i].job /\ importer'[i].from = importer[i].from
            /\ importer'[i].through = importer[i].through /\ importer[i].pc # "idle"
            /\ importer'[i].pc = "complete" => StoreWindow(i)
  BY <1>1, <1>2, <1>3 DEF Claims
<1>5. /\ stored' \in [Imports -> SUBSET (FirstDay..FinalDay)]
      /\ \A j \in Imports : stored[j] \subseteq stored'[j]
      /\ StoreWindow(i) =>
           importer[i].from..importer[i].through \subseteq stored'[importer[i].job]
  <2>1. CASE StoreWindow(i)
    <3>1. importer[i].job \in Imports
      BY <2>1 DEF StoreWindow, ImportTypes
    <3>2. importer[i].from..importer[i].through \subseteq FirstDay..FinalDay
      BY <1>1, BackfillAssumption DEF Claims
    <3>3. stored' = [stored EXCEPT ![importer[i].job] =
                       @ \cup importer[i].from..importer[i].through]
      BY <2>1 DEF StoreWindow
    <3> QED BY <3>1, <3>2, <3>3 DEF ImportTypes
  <2>2. CASE ~StoreWindow(i)
    <3>1. stored' = stored
      BY <2>2 DEF ScanWindow, ScanFails, CompleteRejected, CrashImporter
    <3> QED BY <2>2, <3>1 DEF ImportTypes
  <2> QED BY <2>1, <2>2
<1>6. ImportTypes'
  BY <1>3, <1>4, <1>5 DEF ImportTypes
<1>7. WindowIsNext'
  BY <1>3, <1>4, <1>6, NextStays
<1>8. WindowIsStored'
  <2> SUFFICES ASSUME NEW k \in Importers, importer'[k].pc = "complete"
               PROVE  importer'[k].from..importer'[k].through \subseteq stored'[importer'[k].job]
    BY DEF WindowIsStored
  <2>1. CASE k = i
    BY <1>4, <1>5, <2>1
  <2>2. CASE k # i
    BY <1>3, <1>5, <2>2 DEF WindowIsStored, ImportTypes
  <2> QED BY <2>1, <2>2
<1> QED BY <1>6, <1>7, <1>8

\* The end of a window gives the lease back; a completed window is the next one.
LEMMA EndOfWindowKeeps ==
    ASSUME ImportInv, NEW i \in Importers, CompleteWindow(i) \/ FailWindow(i)
    PROVE  ImportInv'
<1> USE DEF ImportInv
<1> DEFINE j == importer[i].job
<1>1. /\ importer[i] \in Claims /\ importer = [k \in Importers |-> importer[k]]
      /\ j \in Imports /\ jobs[j] \in ImportRows
  BY DEF ImportTypes, CompleteWindow, FailWindow
<1>2. NoClaim \in Claims /\ NoClaim.pc = "idle"
  BY BackfillAssumption DEF NoClaim, Claims
<1>3. /\ stored' = stored /\ importer'[i] = NoClaim
      /\ \A k \in Importers \ {i} : importer'[k] = importer[k]
      /\ importer' = [k \in Importers |-> importer'[k]]
  BY <1>1 DEF CompleteWindow, FailWindow
<1>4. /\ jobs' \in [Imports -> ImportRows]
      /\ \A l \in Imports \ {j} : jobs'[l] = jobs[l]
      /\ jobs'[j] = jobs[j] \/ jobs'[j].lease = NoImporter
  <2>1. CASE jobs' = jobs
    BY <2>1 DEF ImportTypes
  <2>2. CASE CompleteWindow(i)
    <3> DEFINE row == [status |-> IF importer[i].through >= FinalDay THEN "complete" ELSE "partial",
                       next |-> NextAfter(i), lease |-> NoImporter, expired |-> FALSE]
    <3>1. jobs' = [jobs EXCEPT ![j] = row]
      BY <2>2 DEF CompleteWindow
    <3>2. row \in ImportRows /\ row.lease = NoImporter
      BY <1>1, BackfillAssumption DEF NextAfter, ImportRows, Claims
    <3> HIDE DEF row
    <3> QED BY <1>1, <3>1, <3>2 DEF ImportTypes
  <2>3. CASE jobs' = [jobs EXCEPT ![j] = FailedRow(j)]
    <3>1. FailedRow(j) \in ImportRows /\ FailedRow(j).lease = NoImporter
      BY <1>1 DEF FailedRow, ImportRows
    <3> QED BY <1>1, <2>3, <3>1 DEF ImportTypes
  <2> QED BY <2>1, <2>2, <2>3 DEF FailWindow
<1>5. ImportTypes'
  BY <1>2, <1>3, <1>4 DEF ImportTypes
<1>6. WindowIsNext'
  <2> SUFFICES ASSUME NEW k \in Importers, importer'[k].pc # "idle", Holds(k)'
               PROVE  /\ importer'[k].from = jobs'[importer'[k].job].next
                      /\ importer'[k].through = WindowEnd(importer[k].job)'
    BY DEF WindowIsNext, WindowEnd
  <2>1. importer'[k] = importer[k] /\ importer[k].job \in Imports
    BY <1>2, <1>3 DEF ImportTypes
  <2>2. jobs'[importer[k].job] = jobs[importer[k].job]
    BY <1>4, <2>1, BackfillAssumption DEF Holds
  <2> QED BY <2>1, <2>2 DEF WindowIsNext, WindowEnd, Holds
<1>7. WindowIsStored'
  BY <1>2, <1>3 DEF WindowIsStored
<1> QED BY <1>5, <1>6, <1>7

LEMMA ImportStepKeeps ==
    ASSUME ImportInv, [BackfillNext]_backfillVars PROVE ImportInv'
<1>1. CASE UNCHANGED backfillVars
  BY <1>1 DEF backfillVars, ImportInv, ImportTypes, WindowIsNext, WindowIsStored,
     Holds, WindowEnd
<1>2. CASE BackfillNext
  BY <1>2, RequestKeeps, ClaimKeeps, WindowKeeps, EndOfWindowKeeps
     DEF BackfillNext, ImportStep
<1> QED BY <1>1, <1>2

\* The import's invariant: a claim that still holds its lease is on the window
\* that is the job's next, and completes it after its rows were stored.
THEOREM ImportInvariant == BackfillSpec => []ImportInv
<1>1. BackfillInit => ImportInv
  <2> SUFFICES ASSUME BackfillInit PROVE ImportInv
    OBVIOUS
  <2>1. NoClaim \in Claims /\ NoClaim.pc = "idle"
    BY BackfillAssumption DEF NoClaim, Claims
  <2>2. \A i \in Importers : importer[i] = NoClaim
    BY DEF BackfillInit
  <2>3. jobs \in [Imports -> ImportRows]
    BY BackfillAssumption DEF BackfillInit, ImportRows
  <2>4. importer \in [Importers -> Claims]
    BY <2>1 DEF BackfillInit
  <2>5. stored \in [Imports -> SUBSET (FirstDay..FinalDay)]
    BY DEF BackfillInit
  <2> QED BY <2>1, <2>2, <2>3, <2>4, <2>5
          DEF ImportInv, ImportTypes, WindowIsNext, WindowIsStored
<1> QED BY <1>1, ImportStepKeeps, PTL DEF BackfillSpec

\* The order of the jobs and the counters.
ImportCounts ==
  /\ turns \subseteq Imports \X Imports
  /\ scanFailures \in 0..MaxScanFailures /\ importFaults \in 0..MaxImportFaults

LEMMA TurnsArePairs ==
    ASSUME NEW order, NEW touched
    PROVE  Touched(order, touched) \subseteq Imports \X Imports
BY DEF Touched, Placed

LEMMA ImportCountsStep == ImportCounts /\ [BackfillNext]_backfillVars => ImportCounts'
<1> SUFFICES ASSUME ImportCounts, [BackfillNext]_backfillVars PROVE ImportCounts'
  OBVIOUS
<1>1. CASE UNCHANGED backfillVars
  BY <1>1 DEF backfillVars, ImportCounts
<1>2. ASSUME NEW j \in Imports, EnsureBackfill(j) PROVE ImportCounts'
  <2>1. {<<k, j>> : k \in Placed(turns) \union {j}} \subseteq Imports \X Imports
    <3>1. PICK K : K = Placed(turns) \union {j}
      OBVIOUS
    <3>2. \A k \in K : k \in Imports
      BY <3>1 DEF Placed
    <3>3. {<<k, j>> : k \in K} \subseteq Imports \X Imports
      BY <3>2
    <3> QED BY <3>1, <3>3
  <2> QED BY <1>2, <2>1 DEF EnsureBackfill, ImportCounts
<1>3. ASSUME NEW j \in Imports, LeaseRunsOut(j) PROVE ImportCounts'
  BY <1>3, BackfillAssumption DEF LeaseRunsOut, ImportCounts
<1>4. ASSUME NEW i \in Importers, ClaimImport(i) PROVE ImportCounts'
  BY <1>4, TurnsArePairs DEF ClaimImport, ClaimWindow, ClaimNothing, ImportCounts
<1>5. ASSUME NEW i \in Importers, ImportStep(i) PROVE ImportCounts'
  <2>1. CASE ScanFails(i)
    BY <2>1, BackfillAssumption DEF ScanFails, ImportCounts
  <2>2. CASE CompleteWindow(i) \/ FailWindow(i)
    BY <2>2, TurnsArePairs DEF CompleteWindow, FailWindow, ImportCounts
  <2>3. CASE ScanWindow(i) \/ StoreWindow(i) \/ CompleteRejected(i)
    BY <2>3 DEF ScanWindow, StoreWindow, CompleteRejected, ImportCounts
  <2> QED BY <1>5, <2>1, <2>2, <2>3 DEF ImportStep
<1>6. ASSUME NEW i \in Importers, CrashImporter(i) PROVE ImportCounts'
  BY <1>6, BackfillAssumption DEF CrashImporter, ImportCounts
<1> QED BY <1>1, <1>2, <1>3, <1>4, <1>5, <1>6 DEF BackfillNext

\* The jobs, their order, the claims and what was stored keep their types.
THEOREM BackfillTypeCorrect == BackfillSpec => []BackfillTypeOK
<1>1. BackfillInit => ImportCounts
  BY BackfillAssumption DEF BackfillInit, ImportCounts
<1>2. BackfillSpec => []ImportCounts
  BY <1>1, ImportCountsStep, PTL DEF BackfillSpec
<1>3. ImportInv /\ ImportCounts => BackfillTypeOK
  <2>1. Imports \union {NoClaim.job} = Imports
    BY BackfillAssumption DEF NoClaim
  <2> QED BY <2>1 DEF ImportInv, ImportTypes, ImportCounts, ImportRows, Claims, BackfillTypeOK
<1> QED BY <1>2, <1>3, ImportInvariant, PTL

-----------------------------------------------------------------------------
(* UsageBackfill implements ImportProgress.                                *)

\* Completing a window moves the frontier over days that are stored.
LEMMA CompletionAdvances ==
    ASSUME ImportInv, NEW i \in Importers, CompleteWindow(i),
           NEW j \in Imports, j = importer[i].job
    PROVE  Progress!AdvanceFrontier(j)
<1>1. jobs[j] \in ImportRows /\ importer[i] \in Claims
  BY DEF ImportInv, ImportTypes
<1>2. /\ importer[i].from = jobs[j].next /\ importer[i].through = WindowEnd(j)
      /\ importer[i].from..importer[i].through \subseteq stored[j]
  BY DEF ImportInv, WindowIsNext, WindowIsStored, CompleteWindow
<1>3. /\ importer[i].from \in Nat /\ importer[i].through \in Nat
      /\ importer[i].from <= FinalDay
  BY <1>1, BackfillAssumption DEF Claims
<1>4. NextAfter(i) \in jobs[j].next + 1 .. jobs[j].next + WindowDays
  <2>1. importer[i].through \in jobs[j].next..FinalDay
        /\ importer[i].through <= jobs[j].next + WindowDays - 1
    BY <1>1, <1>2, <1>3, WindowEndType DEF ImportInv
  <2> QED BY <1>2, <1>3, <2>1, BackfillAssumption DEF NextAfter
<1>5. jobs[j].next..(NextAfter(i) - 1) \subseteq stored[j]
  BY <1>2, <1>3 DEF NextAfter
<1>6. /\ [l \in Imports |-> jobs'[l].next] =
           [[l \in Imports |-> jobs[l].next] EXCEPT ![j] = NextAfter(i)]
      /\ stored' = stored
  <2>1. jobs'[j].next = NextAfter(i) /\ \A l \in Imports \ {j} : jobs'[l] = jobs[l]
    BY <1>1 DEF CompleteWindow, ImportInv, ImportTypes
  <2>2. \A l \in Imports : jobs'[l].next = IF l = j THEN NextAfter(i) ELSE jobs[l].next
    BY <2>1
  <2>3. [l \in Imports |-> jobs'[l].next] =
          [l \in Imports |-> IF l = j THEN NextAfter(i) ELSE jobs[l].next]
    BY <2>2, Zenon
  <2>4. [l \in Imports |-> IF l = j THEN NextAfter(i) ELSE jobs[l].next] =
          [[l \in Imports |-> jobs[l].next] EXCEPT ![j] = NextAfter(i)]
    OBVIOUS
  <2>5. stored' = stored
    BY DEF CompleteWindow
  <2> QED BY <2>3, <2>4, <2>5
<1> QED BY <1>1, <1>4, <1>5, <1>6 DEF Progress!AdvanceFrontier

\* Storing a window imports its days.
LEMMA StoreImports ==
    ASSUME ImportInv, NEW i \in Importers, StoreWindow(i),
           NEW j \in Imports, j = importer[i].job
    PROVE  Progress!ImportDays(j)
<1>1. importer[i] \in Claims
  BY DEF ImportInv, ImportTypes
<1>2. importer[i].from..importer[i].through \in SUBSET (FirstDay..FinalDay)
  BY <1>1, BackfillAssumption DEF Claims
<1> QED BY <1>1, <1>2 DEF StoreWindow, Progress!ImportDays

\* Every other step leaves the frontiers and the stored days alone.
LEMMA OthersImportNothing ==
    ASSUME ImportInv, BackfillNext,
           \A i \in Importers : ~CompleteWindow(i) /\ ~StoreWindow(i)
    PROVE  UNCHANGED <<[j \in Imports |-> jobs[j].next], stored>>
<1>1. stored' = stored
  BY DEF BackfillNext, ClaimImport, ImportStep, EnsureBackfill, LeaseRunsOut, ClaimWindow,
     ClaimNothing, ScanWindow, ScanFails, CompleteRejected, FailWindow, CrashImporter
<1>2. ASSUME NEW l \in Imports PROVE jobs'[l].next = jobs[l].next
  <2> USE DEF ImportInv
  <2>1. jobs[l] \in ImportRows
    BY DEF ImportTypes
  <2>2. ASSUME NEW j \in Imports, EnsureBackfill(j) \/ LeaseRunsOut(j)
        PROVE  jobs'[l].next = jobs[l].next
    <3>1. \/ jobs'[l] = jobs[l] \/ jobs'[l] = [jobs[l] EXCEPT !.status = "pending"]
          \/ jobs'[l] = [jobs[l] EXCEPT !.expired = TRUE]
      BY <2>2 DEF EnsureBackfill, LeaseRunsOut, ImportTypes
    <3> QED BY <2>1, <3>1 DEF ImportRows
  <2>3. ASSUME NEW i \in Importers, ClaimWindow(i) PROVE jobs'[l].next = jobs[l].next
    <3>1. PICK j \in Imports :
            jobs' = [AfterReclaim EXCEPT ![j].status = "running", ![j].lease = i]
      BY <2>3 DEF ClaimWindow
    <3>2. \/ jobs'[l] = AfterReclaim[l]
          \/ jobs'[l] = [AfterReclaim[l] EXCEPT !.status = "running", !.lease = i]
      BY <3>1 DEF AfterReclaim
    <3> QED BY <3>2, ReclaimedRows DEF ImportRows
  <2>4. ASSUME NEW i \in Importers, ClaimNothing(i) PROVE jobs'[l].next = jobs[l].next
    BY <2>4, ReclaimedRows DEF ClaimNothing
  <2>5. ASSUME NEW i \in Importers, FailWindow(i) PROVE jobs'[l].next = jobs[l].next
    <3>1. \/ jobs'[l] = jobs[l]
          \/ jobs'[l] = [jobs[l] EXCEPT !.status = "failed", !.lease = NoImporter,
                                       !.expired = FALSE]
      BY <2>5 DEF FailWindow, FailedRow, ImportTypes
    <3> QED BY <2>1, <3>1 DEF ImportRows
  <2>6. CASE jobs' = jobs
    BY <2>6
  <2> QED BY <2>2, <2>3, <2>4, <2>5, <2>6 DEF BackfillNext, ClaimImport, ImportStep,
          ScanWindow, ScanFails, CompleteRejected, CrashImporter
<1> QED BY <1>1, <1>2

\* The next_date of a job moves forward only, by at most one window, and only
\* past days whose rows were stored, although workers crash, outlast their
\* leases and end windows that were claimed again.
THEOREM BackfillImplementsProgress == BackfillSpec => ImplementsImportProgress
<1>1. BackfillInit => Progress!ProgressInit
  BY DEF BackfillInit, Progress!ProgressInit
<1>2. ImportInv /\ [BackfillNext]_backfillVars => [Progress!ProgressNext]_(Progress!progressVars)
  <2> SUFFICES ASSUME ImportInv, [BackfillNext]_backfillVars
               PROVE  [Progress!ProgressNext]_(Progress!progressVars)
    OBVIOUS
  <2>1. ASSUME NEW i \in Importers, CompleteWindow(i) PROVE Progress!ProgressNext
    <3>1. PICK j \in Imports : j = importer[i].job
      BY <2>1 DEF CompleteWindow, ImportInv, ImportTypes
    <3> QED BY <2>1, <3>1, CompletionAdvances DEF Progress!ProgressNext
  <2>2. ASSUME NEW i \in Importers, StoreWindow(i) PROVE Progress!ProgressNext
    <3>1. PICK j \in Imports : j = importer[i].job
      BY <2>2 DEF StoreWindow, ImportInv, ImportTypes
    <3> QED BY <2>2, <3>1, StoreImports DEF Progress!ProgressNext
  <2>3. CASE UNCHANGED backfillVars
    BY <2>3 DEF backfillVars, Progress!progressVars
  <2> QED BY <2>1, <2>2, <2>3, OthersImportNothing DEF Progress!progressVars
<1> QED BY <1>1, <1>2, ImportInvariant, PTL
        DEF BackfillSpec, ImplementsImportProgress, Progress!ProgressSpec

-----------------------------------------------------------------------------
(* The scan of an upstream's log: positions, pages, places.               *)

PageAt(m) == (m - 1) \div PageSize + 1
PagesFor(n) == (n + PageSize - 1) \div PageSize

LEMMA Euclid ==
  ASSUME NEW a \in Nat, NEW k \in Nat \ {0}
  PROVE  /\ a \div k \in Nat
         /\ k * (a \div k) <= a /\ a < k * (a \div k) + k
OBVIOUS

LEMMA MoreTimes ==
  ASSUME NEW k \in Nat, NEW a \in Nat, NEW b \in Nat, a <= b
  PROVE  k * a <= k * b
OBVIOUS

LEMMA PagesGrow ==
  ASSUME NEW m \in Nat, NEW n \in Nat, 1 <= m, m <= n
  PROVE  PageAt(m) \in Nat /\ 1 <= PageAt(m) /\ PageAt(m) <= PageAt(n)
<1>1. PICK k \in Nat \ {0} : k = PageSize
  BY ScanAssumption
<1>2. PICK a \in Nat, b \in Nat : a = m - 1 /\ b = n - 1 /\ a <= b
  OBVIOUS
<1>3. PICK x \in Nat, y \in Nat : /\ x = a \div k /\ k * x <= a /\ a < k * x + k
                                  /\ y = b \div k /\ k * y <= b /\ b < k * y + k
  BY Euclid
<1>4. x <= y
  <2>1. SUFFICES ASSUME ~(x <= y) PROVE FALSE
    OBVIOUS
  <2>2. y + 1 <= x /\ y + 1 \in Nat
    BY <2>1
  <2>3. k * (y + 1) <= k * x
    BY <2>2, MoreTimes
  <2>4. k * (y + 1) = k * y + k
    OBVIOUS
  <2> QED BY <1>2, <1>3, <2>3, <2>4
<1> QED BY <1>1, <1>2, <1>3, <1>4 DEF PageAt

LEMMA PagesHold ==
  ASSUME NEW m \in Nat, NEW n \in Nat, 1 <= m, m <= n
  PROVE  PagesFor(n) \in Nat /\ PageAt(m) <= PagesFor(n)
<1>1. PICK k \in Nat \ {0} : k = PageSize
  BY ScanAssumption
<1>2. PICK a \in Nat, b \in Nat : a = m - 1 /\ b = n + k - 1 /\ a + k <= b
  OBVIOUS
<1>3. PICK x \in Nat, y \in Nat : /\ x = a \div k /\ k * x <= a /\ a < k * x + k
                                  /\ y = b \div k /\ k * y <= b /\ b < k * y + k
  BY Euclid
<1>4. x + 1 <= y
  <2>1. SUFFICES ASSUME ~(x + 1 <= y) PROVE FALSE
    OBVIOUS
  <2>2. y <= x
    BY <2>1
  <2>3. k * y <= k * x
    BY <2>2, MoreTimes
  <2> QED BY <1>2, <1>3, <2>3
<1> QED BY <1>1, <1>2, <1>3, <1>4 DEF PageAt, PagesFor

LEMMA NoPages == PagesFor(0) = 0
<1>1. PICK k \in Nat \ {0} : k = PageSize
  BY ScanAssumption
<1>2. PICK b \in Nat : b = k - 1
  OBVIOUS
<1>3. PICK y \in Nat : y = b \div k /\ k * y <= b /\ b < k * y + k
  BY Euclid
<1>4. y = 0
  <2>1. SUFFICES ASSUME y # 0 PROVE FALSE
    OBVIOUS
  <2>2. k * 1 <= k * y
    BY <2>1, MoreTimes
  <2> QED BY <1>2, <1>3, <2>2
<1> QED BY <1>1, <1>2, <1>3, <1>4 DEF PagesFor

LEMMA InsertPlaces ==
  ASSUME NEW S, NEW s \in Seq(S), NEW i \in 1..(Len(s) + 1), NEW e \in S
  PROVE  /\ InsertAt(s, i, e) \in Seq(S) /\ Len(InsertAt(s, i, e)) = Len(s) + 1
         /\ \A j \in 1..(Len(s) + 1) :
              InsertAt(s, i, e)[j] = IF j < i THEN s[j] ELSE IF j = i THEN e ELSE s[j - 1]
<1>1. PICK n \in Nat : n = Len(s)
  BY LenProperties
<1>2. PICK a, b, c : a = SubSeq(s, 1, i - 1) /\ b = <<e>> /\ c = SubSeq(s, i, n)
  OBVIOUS
<1>3. i \in Nat /\ i - 1 \in Nat /\ i - 1 <= n /\ 1 <= i /\ i <= n + 1
  BY <1>1
<1>4. \A j \in 1..n : s[j] \in S
  BY <1>1, ElementOfSeq
<1>5. a \in Seq(S) /\ Len(a) = i - 1 /\ \A j \in 1..(i - 1) : a[j] = s[j]
  <2>1. \A j \in 1..(i - 1) : s[j] \in S
    BY <1>3, <1>4
  <2>2. /\ a \in Seq(S) /\ Len(a) = (IF 1 <= i - 1 THEN i - 1 - 1 + 1 ELSE 0)
        /\ \A j \in 1..(i - 1 - 1 + 1) : a[j] = s[1 + j - 1]
    BY <1>2, <1>3, <2>1, SubSeqProperties
  <2>3. i - 1 - 1 + 1 = i - 1 /\ \A j \in 1..(i - 1) : 1 + j - 1 = j
    BY <1>3
  <2>4. Len(a) = i - 1
    BY <1>3, <2>2, <2>3
  <2>5. \A j \in 1..(i - 1) : a[j] = s[j]
    <3> SUFFICES ASSUME NEW j \in 1..(i - 1) PROVE a[j] = s[j]
      OBVIOUS
    <3>1. j \in 1..(i - 1 - 1 + 1) /\ 1 + j - 1 = j
      BY <2>3
    <3>2. a[j] = s[1 + j - 1]
      BY <2>2, <3>1
    <3> QED BY <3>1, <3>2
  <2> QED BY <2>2, <2>4, <2>5
<1>6. b \in Seq(S) /\ Len(b) = 1 /\ b[1] = e
  BY <1>2
<1>7. c \in Seq(S) /\ Len(c) = n - i + 1 /\ \A j \in 1..(n - i + 1) : c[j] = s[i + j - 1]
  <2>1. \A j \in i..n : s[j] \in S
    BY <1>3, <1>4
  <2>2. /\ c \in Seq(S) /\ Len(c) = (IF i <= n THEN n - i + 1 ELSE 0)
        /\ \A j \in 1..(n - i + 1) : c[j] = s[i + j - 1]
    BY <1>1, <1>2, <1>3, <2>1, SubSeqProperties
  <2> QED BY <1>1, <1>3, <2>2
<1>8. PICK d : d = a \o b
  OBVIOUS
<1>9. d \in Seq(S) /\ Len(d) = i /\ \A j \in 1..i : d[j] = IF j < i THEN s[j] ELSE e
  <2>1. /\ d \in Seq(S) /\ Len(d) = Len(a) + Len(b)
        /\ \A j \in 1..(Len(a) + Len(b)) : d[j] = IF j <= Len(a) THEN a[j] ELSE b[j - Len(a)]
    BY <1>5, <1>6, <1>8, ConcatProperties
  <2>2. Len(a) + Len(b) = i
    BY <1>3, <1>5, <1>6
  <2>3. ASSUME NEW j \in 1..i PROVE d[j] = IF j < i THEN s[j] ELSE e
    <3>1. CASE j < i
      <4>1. j <= Len(a) /\ j \in 1..(i - 1)
        BY <1>3, <1>5, <3>1
      <4> QED BY <1>5, <2>1, <2>2, <3>1, <4>1
    <3>2. CASE ~(j < i)
      <4>1. ~(j <= Len(a)) /\ j - Len(a) = 1
        BY <1>3, <1>5, <3>2
      <4> QED BY <1>6, <2>1, <2>2, <3>2, <4>1
    <3> QED BY <3>1, <3>2
  <2> QED BY <2>1, <2>2, <2>3
<1>10. PICK r : r = d \o c
  OBVIOUS
<1>11. r = InsertAt(s, i, e)
  BY <1>1, <1>2, <1>8, <1>10 DEF InsertAt
<1>12. /\ r \in Seq(S) /\ Len(r) = n + 1
       /\ \A j \in 1..(n + 1) : r[j] = IF j <= i THEN d[j] ELSE c[j - i]
  <2>1. /\ r \in Seq(S) /\ Len(r) = Len(d) + Len(c)
        /\ \A j \in 1..(Len(d) + Len(c)) : r[j] = IF j <= Len(d) THEN d[j] ELSE c[j - Len(d)]
    BY <1>7, <1>9, <1>10, ConcatProperties
  <2>2. Len(d) + Len(c) = n + 1
    BY <1>3, <1>7, <1>9
  <2> QED BY <1>9, <2>1, <2>2
<1>13. ASSUME NEW j \in 1..(n + 1)
       PROVE  r[j] = IF j < i THEN s[j] ELSE IF j = i THEN e ELSE s[j - 1]
  <2>1. CASE j <= i
    BY <1>3, <1>9, <1>12, <2>1
  <2>2. CASE ~(j <= i)
    <3>1. j - i \in 1..(n - i + 1) /\ i + (j - i) - 1 = j - 1 /\ ~(j < i) /\ j # i
      BY <1>3, <2>2
    <3> QED BY <1>7, <1>12, <2>2, <3>1
  <2> QED BY <2>1, <2>2
<1> QED BY <1>1, <1>11, <1>12, <1>13

-----------------------------------------------------------------------------
(* The scan.                                                               *)

ScanRows == [pc : {"first", "pages", "done", "failed"}, reports : Reports, keyed : BOOLEAN,
             partial : BOOLEAN, total : Nat, more : BOOLEAN, last : 1..MaxPages, next : Nat,
             batch : SUBSET Nat, ended : BOOLEAN, pageFailed : BOOLEAN, old : 0..OldRows,
             tally : [LogRows -> 0..1]]

\* A page the scan has behind it.
PageRead(q) == q \in 1..scan.last /\ q < scan.next /\ q \notin scan.batch

\* The rows that were in the log when the scan began stay in it.
OldRowsStay ==
  LET n == IF scan.pc = "first" THEN Len(spendLog) ELSE scan.old
  IN  n <= OldRows /\ n <= Len(spendLog) /\ \A r \in 1..n : \E m \in 1..Len(spendLog) : spendLog[m] = r

\* What the first page has said, and the pages that are left of the batch.
PagesAreKnown ==
  scan.pc \in {"pages", "done"} =>
    /\ scan.total = IF scan.reports = "total" THEN PagesFor(scan.old) ELSE 0
    /\ scan.total \in 1..MaxPages => scan.last = scan.total
    /\ scan.more <=> scan.reports = "hasMore" /\ PagesFor(scan.old) > 1
    /\ 2 <= scan.next
    /\ \A q \in scan.batch : q \in 2..scan.last /\ q < scan.next
    /\ scan.keyed => \A q \in 2..scan.last : \A b \in scan.batch : b <= q /\ q < scan.next => q \in scan.batch
    /\ scan.total # 0 => ~scan.ended
    /\ scan.pc = "done" => scan.batch = {} /\ (scan.ended \/ scan.next > scan.last)

\* While the log stands still, or the pages are read in turn, an old row on a page that
\* was read has been counted.
ReadIsCounted ==
  /\ scan.pc \in {"pages", "done"} /\ ~scan.pageFailed /\ (scan.keyed \/ Len(spendLog) = scan.old)
  => \A m \in 1..Len(spendLog) :
       spendLog[m] <= scan.old /\ PageRead(PageAt(m)) => scan.tally[spendLog[m]] = 1

ScanInv ==
  /\ scan \in ScanRows /\ spendLog \in Seq(LogRows)
  /\ scan.pc = "first" => scan.old = 0 /\ ~scan.pageFailed /\ ~scan.ended
  /\ OldRowsStay /\ PagesAreKnown /\ ReadIsCounted

LEMMA ScanStart == ScanInit => ScanInv
<1> SUFFICES ASSUME ScanInit PROVE ScanInv
  OBVIOUS
<1>1. PICK n \in 0..OldRows : spendLog = [m \in 1..n |-> m]
  BY DEF ScanInit
<1>2. PICK reports \in Reports, keyed \in BOOLEAN, partial \in BOOLEAN :
       scan = [pc |-> "first", reports |-> reports, keyed |-> keyed, partial |-> partial,
               total |-> 0, more |-> FALSE, last |-> 1, next |-> 2, batch |-> {},
               ended |-> FALSE, pageFailed |-> FALSE, old |-> 0,
               tally |-> [r \in LogRows |-> 0]]
  BY DEF ScanInit
<1>3. spendLog \in Seq(LogRows) /\ Len(spendLog) = n
  <2>1. n \in Nat /\ spendLog \in [1..n -> LogRows]
    BY <1>1, ScanAssumption DEF LogRows
  <2> QED BY <1>1, <2>1
<1>4. scan \in ScanRows
  BY <1>2, ScanAssumption DEF ScanRows
<1>5. scan.pc = "first" /\ scan.old = 0 /\ ~scan.pageFailed /\ ~scan.ended
  BY <1>2
<1>6. OldRowsStay
  BY <1>1, <1>3, <1>5 DEF OldRowsStay
<1> QED BY <1>3, <1>4, <1>5, <1>6 DEF ScanInv, PagesAreKnown, ReadIsCounted

LEMMA PagesOfLog ==
  ASSUME spendLog \in Seq(LogRows)
  PROVE  /\ Len(spendLog) \in Nat /\ PagesOf(spendLog) = PagesFor(Len(spendLog))
         /\ PagesFor(Len(spendLog)) \in Nat
         /\ \A p \in Nat : \A m \in 1..Len(spendLog) :
              PageAt(m) = p => spendLog[m] \in RowsOfPage(spendLog, p)
<1>1. PICK n \in Nat : n = Len(spendLog)
  BY LenProperties
<1>2. PagesOf(spendLog) = PagesFor(n)
  BY <1>1 DEF PagesOf, PagesFor
<1>3. PagesFor(n) \in Nat
  <2>1. CASE n = 0
    BY <2>1, NoPages
  <2>2. CASE n # 0
    BY <2>2, PagesHold
  <2> QED BY <2>1, <2>2
<1>4. ASSUME NEW p \in Nat, NEW m \in 1..n, PageAt(m) = p
      PROVE  spendLog[m] \in RowsOfPage(spendLog, p)
  <2>1. PICK x \in Nat : x = (m - 1) \div PageSize
    <3>1. m - 1 \in Nat
      OBVIOUS
    <3> QED BY <3>1, Euclid, ScanAssumption
  <2>2. x + 1 = p
    BY <1>4, <2>1 DEF PageAt
  <2>3. (m - 1) \div PageSize = p - 1
    BY <2>1, <2>2
  <2> QED BY <1>1, <2>3 DEF RowsOfPage
<1> QED BY <1>1, <1>2, <1>3, <1>4

LEMMA AbsorbCounts ==
  ASSUME NEW tally \in [LogRows -> 0..1], NEW rows
  PROVE  /\ Absorb(tally, rows) \in [LogRows -> 0..1]
         /\ \A r \in LogRows : tally[r] = 1 \/ r \in rows => Absorb(tally, rows)[r] = 1
BY DEF Absorb

LEMMA FirstPageStep ==
  ASSUME ScanInv, ReadFirstPage
  PROVE  ScanInv'
<1>0. PICK n \in Nat, t \in Nat : n = Len(spendLog) /\ t = TotalPages
  <2>1. Len(spendLog) \in Nat /\ TotalPages \in Nat
    BY PagesOfLog DEF TotalPages, ScanInv
  <2> QED BY <2>1
<1>1. PICK last, tally, batch :
        /\ n = Len(spendLog) /\ t = TotalPages /\ last = PagesToFetch
        /\ tally = Absorb(scan.tally, RowsOfPage(spendLog, 1)) /\ batch = BatchFrom(2, last)
  BY <1>0
<1>2. /\ scan.pc = "first" /\ spendLog' = spendLog
      /\ scan' = [scan EXCEPT !.pc = IF last > 1 THEN "pages" ELSE "done",
           !.total = t, !.more = HasMore(1), !.last = last, !.batch = batch,
           !.next = 2 + BatchPages, !.old = n, !.tally = tally]
  BY <1>1 DEF ReadFirstPage
<1>3. last \in 1..MaxPages /\ (t \in 1..MaxPages => last = t)
  BY <1>1, ScanAssumption DEF PagesToFetch
<1>4. scan \in ScanRows /\ spendLog \in Seq(LogRows)
  BY DEF ScanInv
<1>5. tally \in [LogRows -> 0..1] /\ \A r \in LogRows : r \in RowsOfPage(spendLog, 1) => tally[r] = 1
  <2>1. scan.tally \in [LogRows -> 0..1]
    BY <1>4 DEF ScanRows
  <2> QED BY <1>1, <2>1, AbsorbCounts
<1>6. batch \subseteq 2..last /\ \A q \in 2..last : q \in batch <=> q < 2 + BatchPages
  BY <1>1 DEF BatchFrom
<1>7. n \in 0..OldRows /\ HasMore(1) \in BOOLEAN
  BY <1>1, <1>2, ScanAssumption DEF ScanInv, OldRowsStay, HasMore
<1>8. /\ scan'.pc = (IF last > 1 THEN "pages" ELSE "done") /\ scan'.total = t
      /\ scan'.more = HasMore(1) /\ scan'.last = last /\ scan'.batch = batch
      /\ scan'.next = 2 + BatchPages /\ scan'.old = n /\ scan'.tally = tally
      /\ scan'.reports = scan.reports /\ scan'.keyed = scan.keyed /\ scan'.ended = scan.ended
      /\ scan'.pageFailed = scan.pageFailed /\ scan'.partial = scan.partial
  BY <1>2, <1>4 DEF ScanRows
<1>9. scan' \in ScanRows
  <2>1. batch \in SUBSET Nat /\ 2 + BatchPages \in Nat
    BY <1>3, <1>6, ScanAssumption
  <2> QED BY <1>2, <1>3, <1>4, <1>5, <1>7, <2>1 DEF ScanRows
<1>10. OldRowsStay'
  BY <1>1, <1>2, <1>8 DEF ScanInv, OldRowsStay
<1>11. PagesAreKnown'
  <2>1. t = IF scan.reports = "total" THEN PagesFor(n) ELSE 0
    BY <1>1, <1>4, PagesOfLog DEF TotalPages
  <2>2. HasMore(1) <=> scan.reports = "hasMore" /\ PagesFor(n) > 1
    BY <1>1, <1>4, PagesOfLog DEF HasMore
  <2>3. ~scan.ended
    BY <1>2 DEF ScanInv
  <2>4. 2 <= 2 + BatchPages /\ BatchPages \in Nat
    BY ScanAssumption
  <2>5. ~(last > 1) => batch = {} /\ 2 + BatchPages > last
    BY <1>3, <1>6, <2>4
  <2>6. \A q \in batch : q \in 2..last /\ q < 2 + BatchPages
    BY <1>6
  <2>7. \A q \in 2..last : \A b \in batch : b <= q /\ q < 2 + BatchPages => q \in batch
    BY <1>6
  <2> QED BY <1>3, <1>8, <2>1, <2>2, <2>3, <2>4, <2>5, <2>6, <2>7 DEF PagesAreKnown
<1>12. ReadIsCounted'
  <2>1. ASSUME NEW m \in 1..n, PageRead(PageAt(m))' PROVE tally[spendLog[m]] = 1
    <3>1. PageAt(m) \in 1..last /\ PageAt(m) < 2 + BatchPages /\ PageAt(m) \notin batch
      <4>1. PageAt(m)' = PageAt(m)
        BY DEF PageAt
      <4> QED BY <1>8, <2>1, <4>1 DEF PageRead
    <3>2. PageAt(m) = 1
      <4>1. PICK q \in 1..last : q = PageAt(m) /\ q < 2 + BatchPages /\ q \notin batch
        BY <3>1
      <4>2. ~(q \in 2..last)
        BY <1>6, <4>1
      <4> QED BY <1>3, <4>1, <4>2
    <3>3. spendLog[m] \in RowsOfPage(spendLog, 1) /\ spendLog[m] \in LogRows
      BY <1>1, <1>4, <3>2, PagesOfLog, ElementOfSeq
    <3> QED BY <1>5, <3>3
  <2>2. spendLog' = spendLog /\ scan'.tally = tally /\ Len(spendLog) = n
    BY <1>1, <1>2, <1>8
  <2> QED BY <2>1, <2>2 DEF ReadIsCounted
<1> QED BY <1>2, <1>4, <1>8, <1>9, <1>10, <1>11, <1>12 DEF ScanInv

\* What an answer for page p leaves: the scan is over, or in this batch, or in the next one.
Left(p) ==
  \/ scan'.pc = "done" /\ scan.batch = {p} /\ scan'.batch = {} /\ scan'.next = scan.next
     /\ (scan'.ended \/ scan.next > scan.last)
  \/ scan'.pc = "pages" /\ scan'.batch = scan.batch \ {p} /\ scan'.next = scan.next
  \/ scan'.pc = "pages" /\ scan.batch = {p} /\ scan'.batch = BatchFrom(scan.next, scan.last)
     /\ scan'.next = scan.next + BatchPages

LEMMA PageIsBehind ==
  ASSUME ScanInv, scan.pc = "pages", NEW p \in scan.batch, MayRead(p), Left(p),
         scan' \in ScanRows, scan'.total = scan.total, scan'.last = scan.last,
         scan'.more = scan.more, scan'.reports = scan.reports, scan'.keyed = scan.keyed,
         scan'.old = scan.old, spendLog' = spendLog,
         scan.total # 0 => (scan'.ended <=> scan.ended)
  PROVE  /\ OldRowsStay' /\ PagesAreKnown'
         /\ \A q : PageRead(q)' => PageRead(q) \/ q = p
<1>1. /\ scan.batch \subseteq 2..scan.last /\ \A q \in scan.batch : q < scan.next
      /\ scan.next \in Nat /\ 2 <= scan.next /\ scan.last \in 1..MaxPages /\ BatchPages \in Nat
      /\ scan.keyed => \A q \in 2..scan.last : \A b \in scan.batch : b <= q /\ q < scan.next => q \in scan.batch
      /\ scan.total # 0 => ~scan.ended
  BY ScanAssumption DEF ScanInv, PagesAreKnown, ScanRows
<1>2. PICK n \in Nat, last \in Nat : n = scan.next /\ last = scan.last /\ 2 <= n /\ 1 <= last
  BY <1>1, ScanAssumption
<1>3. OldRowsStay'
  BY DEF ScanInv, OldRowsStay, Left
<1>4. \A q : PageRead(q)' => PageRead(q) \/ q = p
  <2>1. ASSUME NEW q, PageRead(q)' PROVE PageRead(q) \/ q = p
    <3>1. q \in 1..last /\ q < scan'.next /\ q \notin scan'.batch
      BY <1>2, <2>1 DEF PageRead
    <3>2. q < n
      <4>1. CASE scan'.next = scan.next
        BY <1>2, <3>1, <4>1
      <4>2. CASE scan'.batch = BatchFrom(scan.next, scan.last) /\ scan'.next = scan.next + BatchPages
        BY <1>1, <1>2, <3>1, <4>2 DEF BatchFrom
      <4> QED BY <4>1, <4>2 DEF Left
    <3>3. q \in scan.batch => q = p
      BY <1>1, <1>2, <3>1 DEF Left
    <3> QED BY <1>2, <3>1, <3>2, <3>3 DEF PageRead
  <2> QED BY <2>1
<1>5. ASSUME scan'.next = scan.next, scan'.batch \subseteq scan.batch \ {p} PROVE PagesAreKnown'
  <2>1. \A q \in scan'.batch : q \in 2..scan'.last /\ q < scan'.next
    BY <1>1, <1>5
  <2>2. CASE scan'.pc = "done"
    BY <1>1, <1>5, <2>1, <2>2 DEF PagesAreKnown, ScanInv, Left
  <2>3. CASE scan'.pc = "pages" /\ scan'.batch = scan.batch \ {p}
    <3>1. ASSUME scan.keyed, NEW q \in 2..last, NEW b \in scan.batch \ {p}, b <= q, q < n
          PROVE  q \in scan.batch \ {p}
      <4>1. q \in scan.batch /\ b \in Nat /\ p \in Nat
        BY <1>1, <1>2, <3>1
      <4>2. p <= b /\ b # p
        BY <3>1 DEF MayRead
      <4> QED BY <3>1, <4>1, <4>2
    <3> QED BY <1>1, <1>2, <1>5, <2>1, <2>3, <3>1 DEF PagesAreKnown, ScanInv
  <2> QED BY <1>5, <2>2, <2>3 DEF Left
<1>6. ASSUME scan'.pc = "pages", scan'.batch = BatchFrom(scan.next, scan.last),
             scan'.next = scan.next + BatchPages
      PROVE  PagesAreKnown'
  <2>1. \A q : q \in scan'.batch <=> q \in n..last /\ q < n + BatchPages
    BY <1>2, <1>6 DEF BatchFrom
  <2>2. \A q \in scan'.batch : q \in 2..scan'.last /\ q < scan'.next
    BY <1>2, <1>6, <2>1
  <2>3. \A q \in 2..last : \A b \in scan'.batch : b <= q /\ q < n + BatchPages => q \in scan'.batch
    BY <1>2, <2>1
  <2>4. 2 <= scan'.next
    BY <1>1, <1>6
  <2> QED BY <1>1, <1>2, <1>6, <2>2, <2>3, <2>4 DEF PagesAreKnown, ScanInv
<1>7. PagesAreKnown'
  BY <1>5, <1>6 DEF Left
<1> QED BY <1>3, <1>4, <1>7

LEMMA LoadedLeaves ==
  ASSUME ScanInv, scan.pc = "pages", NEW p \in scan.batch, NEW rows, NEW more, NEW L,
         L = Loaded(p, rows, more)
  PROVE  /\ L \in ScanRows /\ L.tally = Absorb(scan.tally, rows)
         /\ L.total = scan.total /\ L.last = scan.last /\ L.more = scan.more
         /\ L.reports = scan.reports /\ L.keyed = scan.keyed /\ L.old = scan.old
         /\ L.pageFailed = scan.pageFailed
         /\ scan.total # 0 => (L.ended <=> scan.ended)
         /\ \/ L.pc = "done" /\ scan.batch = {p} /\ L.batch = {} /\ L.next = scan.next
               /\ (L.ended \/ scan.next > scan.last)
            \/ L.pc = "pages" /\ L.batch = scan.batch \ {p} /\ L.next = scan.next
            \/ L.pc = "pages" /\ scan.batch = {p} /\ L.batch = BatchFrom(scan.next, scan.last)
               /\ L.next = scan.next + BatchPages
<1>1. PICK left, ended, over :
        /\ left = scan.batch \ {p} /\ ended = (scan.ended \/ (scan.total = 0 /\ (rows = {} \/ ~more)))
        /\ over = (left = {} /\ (ended \/ scan.next > scan.last))
  OBVIOUS
<1>2. PICK pc, batch, next, tally :
        /\ pc = IF over THEN "done" ELSE "pages"
        /\ batch = IF left = {} /\ ~over THEN BatchFrom(scan.next, scan.last) ELSE left
        /\ next = IF left = {} /\ ~over THEN scan.next + BatchPages ELSE scan.next
        /\ tally = Absorb(scan.tally, rows)
  OBVIOUS
<1>3. L = [scan EXCEPT !.pc = pc, !.batch = batch, !.next = next, !.ended = ended, !.tally = tally]
  BY <1>1, <1>2 DEF Loaded
<1>4. scan \in ScanRows
  BY DEF ScanInv
<1>5. /\ pc \in {"pages", "done"} /\ ended \in BOOLEAN /\ over \in BOOLEAN
  BY <1>1, <1>2
<1>6. tally \in [LogRows -> 0..1]
  <2>1. scan.tally \in [LogRows -> 0..1]
    BY <1>4 DEF ScanRows
  <2> QED BY <1>2, <2>1, AbsorbCounts
<1>7. scan.next \in Nat /\ scan.last \in Nat /\ BatchPages \in Nat /\ scan.batch \in SUBSET Nat
  BY <1>4, ScanAssumption DEF ScanRows
<1>8. next \in Nat
  BY <1>2, <1>7
<1>9. batch \in SUBSET Nat
  <2>1. BatchFrom(scan.next, scan.last) \in SUBSET Nat
    BY <1>7 DEF BatchFrom
  <2> QED BY <1>1, <1>2, <1>7, <2>1
<1>10. /\ L.pc = pc /\ L.batch = batch /\ L.next = next /\ L.ended = ended /\ L.tally = tally
       /\ L.total = scan.total /\ L.last = scan.last /\ L.more = scan.more
       /\ L.reports = scan.reports /\ L.keyed = scan.keyed /\ L.old = scan.old
       /\ L.pageFailed = scan.pageFailed
  BY <1>3, <1>4 DEF ScanRows
<1>11. L \in ScanRows
  BY <1>3, <1>4, <1>5, <1>6, <1>8, <1>9 DEF ScanRows
<1>12. scan.total # 0 => (ended <=> scan.ended)
  BY <1>1
<1>13. left = {} => scan.batch = {p}
  BY <1>1
<1>14. CASE over
  <2>1. left = {} /\ (ended \/ scan.next > scan.last)
    BY <1>1, <1>14
  <2> QED BY <1>2, <1>10, <1>11, <1>12, <1>13, <1>14, <2>1
<1>15. CASE ~over /\ left = {}
  BY <1>2, <1>10, <1>11, <1>12, <1>13, <1>15
<1>16. CASE ~over /\ left # {}
  <2>1. pc = "pages" /\ batch = left /\ next = scan.next
    BY <1>2, <1>16
  <2> QED BY <1>1, <1>2, <1>10, <1>11, <1>12, <2>1
<1> QED BY <1>5, <1>14, <1>15, <1>16

LEMMA PageStep ==
  ASSUME ScanInv, NEW p \in 2..MaxPages, ReadPage(p)
  PROVE  ScanInv'
<1>1. PICK rows, more : /\ rows = RowsOfPage(spendLog, p) /\ more = HasMore(p)
                        /\ scan' = Loaded(p, rows, more)
  BY DEF ReadPage
<1>2. scan.pc = "pages" /\ p \in scan.batch /\ MayRead(p) /\ spendLog' = spendLog
  BY DEF ReadPage, MayRead
<1>3. /\ scan' \in ScanRows /\ scan'.tally = Absorb(scan.tally, rows)
      /\ scan'.total = scan.total /\ scan'.last = scan.last /\ scan'.more = scan.more
      /\ scan'.reports = scan.reports /\ scan'.keyed = scan.keyed /\ scan'.old = scan.old
      /\ scan'.pageFailed = scan.pageFailed
      /\ scan.total # 0 => (scan'.ended <=> scan.ended)
  BY <1>1, <1>2, LoadedLeaves
<1>4. Left(p)
  BY <1>1, <1>2, LoadedLeaves DEF Left
<1>5. OldRowsStay' /\ PagesAreKnown' /\ \A q : PageRead(q)' => PageRead(q) \/ q = p
  BY <1>2, <1>3, <1>4, PageIsBehind
<1>6. ReadIsCounted'
  <2>1. SUFFICES ASSUME ~scan.pageFailed, scan.keyed \/ Len(spendLog) = scan.old,
                        NEW m \in 1..Len(spendLog), spendLog[m] <= scan.old, PageRead(PageAt(m))'
                 PROVE  scan'.tally[spendLog[m]] = 1
    BY <1>2, <1>3 DEF ReadIsCounted, PageAt
  <2>2. spendLog \in Seq(LogRows) /\ scan.tally \in [LogRows -> 0..1]
    BY DEF ScanInv, ScanRows
  <2>3. spendLog[m] \in LogRows
    BY <2>2, ElementOfSeq
  <2>4. scan.tally[spendLog[m]] = 1 \/ spendLog[m] \in rows
    <3>1. PageAt(m)' = PageAt(m)
      BY DEF PageAt
    <3>2. PageRead(PageAt(m)) \/ PageAt(m) = p
      BY <1>5, <2>1, <3>1
    <3>3. CASE PageRead(PageAt(m))
      BY <1>2, <2>1, <3>3 DEF ScanInv, ReadIsCounted
    <3>4. CASE PageAt(m) = p
      BY <1>1, <2>2, <3>4, PagesOfLog
    <3> QED BY <3>2, <3>3, <3>4
  <2> QED BY <1>3, <2>2, <2>3, <2>4, AbsorbCounts
<1> QED BY <1>2, <1>3, <1>4, <1>5, <1>6 DEF ScanInv, Left

LEMMA LostPageStep ==
  ASSUME ScanInv, NEW p \in 2..MaxPages, PageFails(p)
  PROVE  ScanInv'
<1>0. PICK rows, more : rows = {} /\ more = FALSE
  OBVIOUS
<1>1. PICK L : L = Loaded(p, rows, more)
  OBVIOUS
<1>2. /\ scan.pc = "pages" /\ p \in scan.batch /\ MayRead(p) /\ spendLog' = spendLog
      /\ scan' = [L EXCEPT !.pageFailed = TRUE]
  BY <1>0, <1>1 DEF PageFails, MayRead
<1>3. /\ L \in ScanRows
      /\ L.total = scan.total /\ L.last = scan.last /\ L.more = scan.more
      /\ L.reports = scan.reports /\ L.keyed = scan.keyed /\ L.old = scan.old
      /\ scan.total # 0 => (L.ended <=> scan.ended)
      /\ \/ L.pc = "done" /\ scan.batch = {p} /\ L.batch = {} /\ L.next = scan.next
            /\ (L.ended \/ scan.next > scan.last)
         \/ L.pc = "pages" /\ L.batch = scan.batch \ {p} /\ L.next = scan.next
         \/ L.pc = "pages" /\ scan.batch = {p} /\ L.batch = BatchFrom(scan.next, scan.last)
            /\ L.next = scan.next + BatchPages
  BY <1>1, <1>2, LoadedLeaves
<1>4. /\ scan' \in ScanRows /\ scan'.pageFailed = TRUE /\ scan'.pc = L.pc /\ scan'.batch = L.batch
      /\ scan'.next = L.next /\ scan'.ended = L.ended /\ scan'.total = L.total /\ scan'.last = L.last
      /\ scan'.more = L.more /\ scan'.reports = L.reports /\ scan'.keyed = L.keyed
      /\ scan'.old = L.old
  BY <1>2, <1>3 DEF ScanRows
<1>5. Left(p)
  BY <1>3, <1>4 DEF Left
<1>6. OldRowsStay' /\ PagesAreKnown'
  BY <1>2, <1>3, <1>4, <1>5, PageIsBehind
<1> QED BY <1>2, <1>4, <1>5, <1>6 DEF ScanInv, Left, ReadIsCounted

LEMMA RaiseStep ==
  ASSUME ScanInv, ScanRaises
  PROVE  ScanInv'
<1>1. /\ scan' = [scan EXCEPT !.pc = "failed", !.batch = {}] /\ spendLog' = spendLog
      /\ scan \in ScanRows
  BY DEF ScanRaises, ScanInv
<1>2. scan' \in ScanRows /\ scan'.pc = "failed" /\ scan'.old = scan.old
  BY <1>1 DEF ScanRows
<1>3. OldRowsStay'
  <2>1. /\ scan.old <= OldRows /\ scan.old <= Len(spendLog)
        /\ \A r \in 1..scan.old : \E m \in 1..Len(spendLog) : spendLog[m] = r
    <3>1. CASE scan.pc = "first"
      <4>1. scan.old = 0 /\ Len(spendLog) \in Nat
        BY <3>1, PagesOfLog DEF ScanInv
      <4> QED BY <4>1, ScanAssumption
    <3>2. CASE scan.pc # "first"
      BY <3>2 DEF ScanInv, OldRowsStay
    <3> QED BY <3>1, <3>2
  <2> QED BY <1>1, <1>2, <2>1 DEF OldRowsStay
<1> QED BY <1>1, <1>2, <1>3 DEF ScanInv, PagesAreKnown, ReadIsCounted

LEMMA LateRowStep ==
  ASSUME ScanInv, LogLateRow
  PROVE  ScanInv'
<1>1. PICK n \in Nat : n = Len(spendLog)
  BY PagesOfLog DEF ScanInv
<1>2. PICK place \in 1..(n + 1) : spendLog' = InsertAt(spendLog, place, n + 1)
  BY <1>1 DEF LogLateRow
<1>3. scan.pc = "pages" /\ n < scan.old + LateRows /\ scan' = scan
  BY <1>1 DEF LogLateRow
<1>4. PICK old \in Nat : old = scan.old /\ old <= OldRows /\ old <= n
  BY <1>1, <1>3 DEF ScanInv, ScanRows, OldRowsStay
<1>5. n + 1 \in LogRows /\ spendLog \in Seq(LogRows)
  BY <1>3, <1>4, ScanAssumption DEF LogRows, ScanInv
<1>6. /\ spendLog' \in Seq(LogRows) /\ Len(spendLog') = n + 1
      /\ \A j \in 1..(n + 1) :
           spendLog'[j] = IF j < place THEN spendLog[j] ELSE IF j = place THEN n + 1 ELSE spendLog[j - 1]
  BY <1>1, <1>2, <1>5, InsertPlaces, SMTT(30)
<1>7. OldRowsStay'
  <2>1. ASSUME NEW r \in 1..old PROVE \E m \in 1..(n + 1) : spendLog'[m] = r
    <3>1. PICK m \in 1..n : spendLog[m] = r
      BY <1>1, <1>3, <1>4 DEF ScanInv, OldRowsStay
    <3>2. CASE m < place
      <4>1. m \in 1..(n + 1)
        OBVIOUS
      <4> QED BY <1>6, <3>1, <3>2, <4>1
    <3>3. CASE ~(m < place)
      <4>1. m + 1 \in 1..(n + 1) /\ ~(m + 1 < place) /\ m + 1 # place /\ m + 1 - 1 = m
        BY <3>3
      <4>2. PICK j \in 1..(n + 1) : j = m + 1 /\ ~(j < place) /\ j # place /\ j - 1 = m
        BY <4>1
      <4>3. spendLog'[j] = spendLog[m]
        BY <1>6, <4>2
      <4> QED BY <3>1, <4>3
    <3> QED BY <3>2, <3>3
  <2>2. old <= n + 1
    BY <1>4
  <2> QED BY <1>3, <1>4, <1>6, <2>1, <2>2 DEF OldRowsStay
<1>8. PagesAreKnown'
  BY <1>3 DEF ScanInv, PagesAreKnown
<1>9. ReadIsCounted'
  <2>1. SUFFICES ASSUME ~scan.pageFailed, scan.keyed \/ n + 1 = old,
                        NEW m \in 1..(n + 1), spendLog'[m] <= old, PageRead(PageAt(m))'
                 PROVE  scan.tally[spendLog'[m]] = 1
    BY <1>3, <1>4, <1>6 DEF ReadIsCounted, PageAt
  <2>2. scan.keyed
    BY <1>4, <2>1
  <2>3. m # place
    BY <1>4, <1>6, <2>1
  <2>4. PICK k \in 1..n : spendLog'[m] = spendLog[k] /\ k <= m
    <3>1. CASE m < place
      BY <1>6, <3>1
    <3>2. CASE ~(m < place)
      <4>1. m - 1 \in 1..n /\ m - 1 <= m
        BY <2>3, <3>2
      <4> QED BY <1>6, <2>3, <3>2, <4>1
    <3> QED BY <3>1, <3>2
  <2>5. PageAt(k) \in Nat /\ 1 <= PageAt(k) /\ PageAt(k) <= PageAt(m) /\ PageAt(m) \in Nat
    BY <2>4, PagesGrow
  <2>6. PageAt(m) \in 1..scan.last /\ PageAt(m) < scan.next /\ PageAt(m) \notin scan.batch
    <3>1. PageAt(m)' = PageAt(m)
      BY DEF PageAt
    <3> QED BY <1>3, <2>1, <3>1 DEF PageRead
  <2>7. scan.last \in Nat /\ scan.next \in Nat /\ scan.batch \subseteq 2..scan.last
    BY <1>3, ScanAssumption DEF ScanInv, ScanRows, PagesAreKnown
  <2>8. PageAt(k) \notin scan.batch
    <3>1. SUFFICES ASSUME PageAt(k) \in scan.batch PROVE FALSE
      OBVIOUS
    <3>2. PageAt(m) \in 2..scan.last
      BY <2>5, <2>6, <2>7, <3>1
    <3>3. PageAt(m) \in scan.batch
      BY <1>3, <2>2, <2>5, <2>6, <3>1, <3>2 DEF ScanInv, PagesAreKnown
    <3> QED BY <2>6, <3>3
  <2>9. PageRead(PageAt(k))
    BY <2>5, <2>6, <2>7, <2>8 DEF PageRead
  <2> QED BY <1>1, <1>3, <1>4, <2>1, <2>2, <2>4, <2>9 DEF ScanInv, ReadIsCounted
<1>10. scan' \in ScanRows
  BY <1>3 DEF ScanInv
<1> QED BY <1>3, <1>6, <1>7, <1>8, <1>9, <1>10 DEF ScanInv

LEMMA ScanStep == ScanInv /\ [ScanNext]_scanVars => ScanInv'
<1> SUFFICES ASSUME ScanInv, [ScanNext]_scanVars PROVE ScanInv'
  OBVIOUS
<1>1. CASE UNCHANGED scanVars
  <2>1. scan' = scan /\ spendLog' = spendLog
    BY <1>1 DEF scanVars
  <2> QED BY <2>1 DEF ScanInv, OldRowsStay, PagesAreKnown, ReadIsCounted, PageRead, PageAt
<1>2. CASE ScanNext
  BY <1>2, LateRowStep, FirstPageStep, RaiseStep, PageStep, LostPageStep DEF ScanNext
<1> QED BY <1>1, <1>2

THEOREM ScanInvariant == ScanSpec => []ScanInv
BY ScanStart, ScanStep, PTL DEF ScanSpec

\* What a complete scan has not counted lies behind its last page.
LEMMA MissedIsBehind ==
  ASSUME ScanInv, scan.pc = "done", ReportedComplete, scan.total # 0,
         scan.keyed \/ Len(spendLog) = scan.old, NEW r \in Missed
  PROVE  \E m \in (scan.old + 1)..Len(spendLog) : spendLog[m] = r
<1>1. PICK n \in Nat, old \in Nat : n = Len(spendLog) /\ old = scan.old /\ old <= n
  BY PagesOfLog DEF ScanInv, ScanRows, OldRowsStay
<1>2. PICK m \in 1..n : spendLog[m] = r
  BY <1>1 DEF ScanInv, OldRowsStay, Missed
<1>3. r <= old /\ scan.tally[r] = 0
  BY <1>1 DEF Missed
<1>4. ~PageRead(PageAt(m))
  BY <1>1, <1>2, <1>3 DEF ScanInv, ReadIsCounted, ReportedComplete
<1>5. scan.last = scan.total /\ scan.total = PagesFor(old) /\ scan.batch = {} /\ scan.next > scan.last
  <2>1. scan.total \in 1..MaxPages
    BY ScanAssumption DEF ScanInv, ScanRows, ReportedComplete, NotTruncated
  <2> QED BY <1>1, <2>1 DEF ScanInv, PagesAreKnown
<1>6. SUFFICES ASSUME m <= old PROVE FALSE
  BY <1>1, <1>2
<1>7. PageAt(m) \in Nat /\ 1 <= PageAt(m) /\ PagesFor(old) \in Nat /\ PageAt(m) <= PagesFor(old)
  BY <1>6, PagesHold, PagesGrow
<1>8. scan.next \in Nat
  BY DEF ScanInv, ScanRows
<1> QED BY <1>4, <1>5, <1>7, <1>8 DEF PageRead

LEMMA CompleteIsAll == ScanInv => CompleteMeansAll
<1> SUFFICES ASSUME ScanInv, scan.pc = "done", ReportedComplete, scan.reports # "nothing",
                    Len(spendLog) = scan.old, NEW r \in Missed
             PROVE  FALSE
  BY DEF CompleteMeansAll
<1>1. PICK n \in Nat : n = Len(spendLog) /\ n = scan.old
  BY PagesOfLog DEF ScanInv
<1>2. CASE scan.total # 0
  <2>1. PICK m \in (n + 1)..n : spendLog[m] = r
    BY <1>1, <1>2, MissedIsBehind
  <2> QED BY <1>1, <2>1
<1>3. CASE scan.total = 0
  <2>1. PagesFor(n) \in Nat /\ ~(PagesFor(n) > 1)
    <3>1. PagesFor(n) \in Nat
      BY <1>1, PagesOfLog DEF ScanInv
    <3>2. scan.reports = "total" \/ scan.reports = "hasMore"
      BY DEF ScanInv, ScanRows, Reports
    <3>3. ~scan.more
      BY <1>3 DEF ReportedComplete
    <3> QED BY <1>1, <1>3, <3>1, <3>2, <3>3 DEF ScanInv, PagesAreKnown
  <2>2. PICK m \in 1..n : spendLog[m] = r /\ r <= n /\ scan.tally[r] = 0
    BY <1>1 DEF ScanInv, OldRowsStay, Missed
  <2>3. PageAt(m) = 1
    <3>1. PageAt(m) \in Nat /\ 1 <= PageAt(m) /\ PageAt(m) <= PagesFor(n)
      BY PagesHold, PagesGrow
    <3> QED BY <2>1, <3>1
  <2>4. PageRead(1)
    <3>1. 1 \in 1..scan.last
      BY ScanAssumption DEF ScanInv, ScanRows
    <3>2. scan.next \in Nat /\ 2 <= scan.next /\ scan.batch = {}
      BY DEF ScanInv, ScanRows, PagesAreKnown
    <3> QED BY <3>1, <3>2 DEF PageRead
  <2> QED BY <1>1, <2>2, <2>3, <2>4 DEF ScanInv, ReadIsCounted, ReportedComplete
<1> QED BY <1>2, <1>3

LEMMA LossIsBounded == ScanInv => KeyedLossIsBounded
<1> SUFFICES ASSUME ScanInv, scan.pc = "done", scan.keyed, scan.total # 0, ReportedComplete
             PROVE  Cardinality(Missed) <= Len(spendLog) - scan.old
  BY DEF KeyedLossIsBounded
<1>1. PICK n \in Nat, old \in Nat : n = Len(spendLog) /\ old = scan.old /\ old <= n
  BY PagesOfLog DEF ScanInv, ScanRows, OldRowsStay
<1>2. PICK T : T = (old + 1)..n
  OBVIOUS
<1>3. IsFiniteSet(T) /\ Cardinality(T) = n - old
  <2>1. old + 1 \in Int /\ n \in Int
    OBVIOUS
  <2>2. /\ IsFiniteSet((old + 1)..n)
        /\ Cardinality((old + 1)..n) = IF old + 1 > n THEN 0 ELSE n - (old + 1) + 1
    BY <2>1, FS_Interval
  <2> QED BY <1>1, <1>2, <2>2
<1>4. \A r \in Missed : \E m \in T : spendLog[m] = r
  BY <1>1, <1>2, MissedIsBehind
<1>5. PICK f : f = [r \in Missed |-> CHOOSE m \in T : spendLog[m] = r]
  OBVIOUS
<1>6. \A r \in Missed : f[r] \in T /\ spendLog[f[r]] = r
  BY <1>4, <1>5
<1>7. f \in Injection(Missed, T)
  BY <1>5, <1>6 DEF Injection, IsInjective
<1>8. Cardinality(Missed) <= Cardinality(T)
  BY <1>3, <1>7, FS_Injection
<1> QED BY <1>1, <1>3, <1>8

\* No row is counted twice; a scan reported complete has counted every row of a log that
\* stood still, and of a key's log all but as many old rows as came in meanwhile.
THEOREM ScanStaysAccurate == ScanSpec => []ScanIsAccurate
<1>1. ScanInv => CountedOnce
  <2>1. ASSUME ScanInv, NEW r \in LogRows PROVE scan.tally[r] <= 1
    <3>1. scan.tally \in [LogRows -> 0..1]
      BY <2>1 DEF ScanInv, ScanRows
    <3>2. scan.tally[r] \in 0..1
      BY <3>1
    <3> QED BY <3>2
  <2> QED BY <2>1 DEF CountedOnce
<1>2. ScanInv => ScanIsAccurate
  BY <1>1, CompleteIsAll, LossIsBounded DEF ScanIsAccurate
<1> QED BY <1>2, ScanInvariant, PTL

-----------------------------------------------------------------------------
(* The live loop: the invariant.                                           *)

\* A day's dashboard shows requests of that day that are in the warehouse.
ShownIsOfDay == \A d \in RealtimeDays : shown[d] \subseteq OfDay(facts, d)

\* The lock is held by the only worker that runs, until one outlives it.
OneWorker ==
  ~outlived => \A w \in RealtimeWorkers :
     ~worker[w].lost /\ (worker[w].pc # "out" => redis.lock = w)

\* What a worker is about to publish covers what is shown.
MirrorIsNewest ==
  \A w \in RealtimeWorkers : worker[w].pc = "mirror" =>
     /\ worker[w].batch \subseteq OfDay(facts, worker[w].day)
     /\ ~outlived => shown[worker[w].day] \subseteq worker[w].batch

LiveInv == RealtimeTypeOK /\ SeenIsKept /\ ShownIsOfDay /\ OneWorker /\ MirrorIsNewest

-----------------------------------------------------------------------------
(* Settlement: the invariant.                                              *)

\* Every request of m's day that was logged in time before m is stored.
EarnedBefore(m) == \A n \in Timely : DayStart(m) <= n /\ n < m => n \in archived

Tasks ==
  [up : BOOLEAN, startup : {"off", "start", "scan", "advance", "done"},
   at : 1..Target, until : 1..Target,
   background : {"off", "idle", "advance"}, minute : 1..Target]

\* The startup task goes through closed minutes of one day in their order; the
\* background task is about to mark a closed minute that is stored, as is all
\* of its day before it.
InOrder(s) ==
  /\ s.startup \in {"scan", "advance"} => s.at < s.until /\ EarnedBefore(s.at)
  /\ s.startup = "advance" => (s.at \in Timely => s.at \in archived)
  /\ s.background = "advance" =>
       /\ s.minute < Target /\ EarnedBefore(s.minute)
       /\ s.minute \in Timely => s.minute \in archived

SoundTasks == {s \in Tasks : InOrder(s)}

SettleInv ==
  SettlementTypeOK /\ DayWatermarkIsEarned /\ settler \in [SettlementWorkers -> SoundTasks]

-----------------------------------------------------------------------------
(* The live loop: types.                                                   *)

RedisStates ==
  [lock : RealtimeWorkers \cup {NoHolder}, dedup : SUBSET Requests,
   stream : SUBSET Requests, pending : SUBSET Requests]
LoopSteps == {"flush", "ack", "seed", "view", "mirror", "poll", "finalize"}
Stages == {"boot", "seeded", "live"}
LoopStates ==
  [pc : LoopSteps \cup {"out"}, stage : Stages, day : 0..today, batch : SUBSET facts,
   lost : BOOLEAN]

\* The type of Redis' keys, without reference to the record itself.
LEMMA RedisTypes ==
    ASSUME spendLogged \subseteq Requests
    PROVE  redis \in [lock : RealtimeWorkers \cup {NoHolder}, dedup : SUBSET spendLogged,
                      stream : SUBSET redis.dedup, pending : SUBSET redis.dedup]
           <=> /\ redis \in RedisStates /\ redis.dedup \subseteq spendLogged
               /\ redis.stream \subseteq redis.dedup
               /\ redis.pending \subseteq redis.dedup
BY DEF RedisStates

\* The updates a step makes to a loop's state.
LEMMA LoopUpdates ==
    ASSUME NEW s \in LoopStates'
    PROVE  /\ [s EXCEPT !.lost = TRUE] \in LoopStates'
           /\ \A pc \in LoopSteps : [s EXCEPT !.pc = pc] \in LoopStates'
           /\ \A pc \in LoopSteps, batch \in SUBSET facts' :
                [s EXCEPT !.pc = pc, !.batch = batch] \in LoopStates'
           /\ \A pc \in LoopSteps, stage \in Stages :
                [s EXCEPT !.pc = pc, !.stage = stage] \in LoopStates'
           /\ \A pc \in LoopSteps, stage \in Stages, batch \in SUBSET facts' :
                [s EXCEPT !.pc = pc, !.stage = stage, !.batch = batch] \in LoopStates'
           /\ \A pc \in LoopSteps, day \in 0..today' :
                [s EXCEPT !.pc = pc, !.day = day] \in LoopStates'
           /\ \A pc \in LoopSteps, stage \in Stages, day \in 0..today' :
                [s EXCEPT !.day = day, !.stage = stage, !.pc = pc] \in LoopStates'
<1> USE DEF LoopSteps, Stages, LoopStates
<1>1. [s EXCEPT !.lost = TRUE] \in LoopStates'
  OBVIOUS
<1>2. \A pc \in LoopSteps : [s EXCEPT !.pc = pc] \in LoopStates'
  OBVIOUS
<1>3. \A pc \in LoopSteps, batch \in SUBSET facts' :
        [s EXCEPT !.pc = pc, !.batch = batch] \in LoopStates'
  OBVIOUS
<1>4. \A pc \in LoopSteps, stage \in Stages : [s EXCEPT !.pc = pc, !.stage = stage] \in LoopStates'
  OBVIOUS
<1>5. \A pc \in LoopSteps, stage \in Stages, batch \in SUBSET facts' :
        [s EXCEPT !.pc = pc, !.stage = stage, !.batch = batch] \in LoopStates'
  OBVIOUS
<1>6. \A pc \in LoopSteps, day \in 0..today' : [s EXCEPT !.pc = pc, !.day = day] \in LoopStates'
  OBVIOUS
<1>7. \A pc \in LoopSteps, stage \in Stages, day \in 0..today' :
        [s EXCEPT !.day = day, !.stage = stage, !.pc = pc] \in LoopStates'
  OBVIOUS
<1> HIDE DEF LoopSteps, Stages, LoopStates
<1> QED BY <1>1, <1>2, <1>3, <1>4, <1>5, <1>6, <1>7

\* Days and facts only grow, so a loop's old state stays one.
LEMMA LoopTypes ==
    ASSUME RealtimeTypeOK, facts \subseteq facts', today \in Nat, today' \in Nat,
           today <= today'
    PROVE  /\ Stopped \in LoopStates' /\ LoopStates \subseteq LoopStates'
           /\ [Stopped EXCEPT !.pc = "flush", !.day = today] \in LoopStates'
<1>1. Stopped \in LoopStates'
  BY DEF LoopStates, LoopSteps, Stages, Stopped
<1>2. LoopStates \subseteq LoopStates'
  <2> SUFFICES ASSUME NEW s \in LoopStates PROVE s \in LoopStates'
    OBVIOUS
  <2>1. 0..today \subseteq 0..today' /\ SUBSET facts \subseteq SUBSET facts'
    OBVIOUS
  <2> QED BY <2>1 DEF LoopStates
<1>3. [Stopped EXCEPT !.pc = "flush", !.day = today] \in LoopStates'
  <2>1. "flush" \in LoopSteps /\ today \in 0..today'
    BY DEF LoopSteps
  <2> QED BY <1>1, <2>1, LoopUpdates
<1> QED BY <1>1, <1>2, <1>3

\* A batch is made of requests Redis has taken in.
LEMMA BatchTypes ==
    ASSUME RealtimeTypeOK
    PROVE  /\ redis \in RedisStates
           /\ redis.dedup \subseteq spendLogged /\ redis.stream \subseteq redis.dedup
           /\ redis.pending \subseteq redis.dedup
           /\ NextBatch \subseteq redis.dedup
           /\ worker \in [RealtimeWorkers -> LoopStates]
BY RedisTypes DEF RealtimeTypeOK, NextBatch, LoopStates, LoopSteps, Stages

\* A request ingested is on the stream, and pushes off it only entries that have
\* StreamLimit newer ones behind them.
LEMMA IngestEffect ==
    ASSUME RealtimeTypeOK, NEW q \in spendLogged, IngestEvent(q)
    PROVE  /\ streamed' \in [count : Nat, place : [Requests -> 0..streamed'.count]]
           /\ redis' \in RedisStates /\ redis'.lock = redis.lock
           /\ redis'.dedup = redis.dedup \cup {q} /\ q \in redis'.stream
           /\ redis'.stream \subseteq redis.stream \cup {q}
           /\ redis'.pending \subseteq redis.pending
           /\ redis.stream \cup redis.pending
                \subseteq redis'.stream \cup redis'.pending \cup Outgrown'
           /\ Outgrown \subseteq Outgrown' \cup {q}
<1>1. /\ redis \in RedisStates /\ q \in Requests /\ StreamLimit \in Nat \ {0}
      /\ streamed \in [count : Nat, place : [Requests -> 0..streamed.count]]
  BY BatchTypes, RealtimeAssumption DEF RealtimeTypeOK
<1> DEFINE c == streamed.count
           pl == streamed.place
<1>2. c \in Nat /\ pl \in [Requests -> 0..c]
  BY <1>1
<1>3. /\ streamed' = [streamed EXCEPT !.count = @ + 1, !.place[q] = c + 1]
      /\ streamed'.count = c + 1 /\ streamed'.place = [pl EXCEPT ![q] = c + 1]
      /\ streamed' = [count |-> c + 1, place |-> [pl EXCEPT ![q] = c + 1]]
  BY <1>1 DEF IngestEvent
<1>4. [pl EXCEPT ![q] = c + 1] \in [Requests -> 0..(c + 1)]
  BY <1>1, <1>2
<1>5. PICK n \in 0..c :
        /\ MayTrim(n)
        /\ redis' = [redis EXCEPT !.dedup = @ \cup {q},
                       !.stream = (@ \ FirstEntries(n)) \cup {q},
                       !.pending = @ \ FirstEntries(n)]
  BY DEF IngestEvent
<1>6. /\ redis' \in RedisStates /\ redis'.lock = redis.lock
      /\ redis'.dedup = redis.dedup \cup {q}
      /\ redis'.stream = (redis.stream \ FirstEntries(n)) \cup {q}
      /\ redis'.pending = redis.pending \ FirstEntries(n)
  BY <1>1, <1>5 DEF RedisStates
<1>7. ASSUME NEW r \in Requests, r # q,
             r \in FirstEntries(n) \/ r \in Outgrown
      PROVE  r \in Outgrown'
  <2>1. streamed'.place[r] = pl[r] /\ pl[r] \in Nat
    BY <1>1, <1>2, <1>3, <1>7
  <2>2. 0 < pl[r] /\ pl[r] + StreamLimit <= c + 1
    <3>1. CASE r \in Outgrown
      BY <1>1, <1>2, <2>1, <3>1 DEF Outgrown
    <3>2. CASE r \in FirstEntries(n)
      <4>1. 0 < pl[r] /\ pl[r] <= n
        BY <3>2 DEF FirstEntries
      <4>2. n + StreamLimit <= c + 1
        BY <1>5, <2>1, <4>1 DEF MayTrim
      <4> QED BY <1>1, <1>2, <2>1, <4>1, <4>2
    <3> QED BY <1>7, <3>1, <3>2
  <2> QED BY <1>3, <2>1, <2>2 DEF Outgrown
<1>8. redis.stream \subseteq Requests /\ redis.pending \subseteq Requests
  BY <1>1 DEF RedisStates
<1>9. Outgrown \subseteq Requests
  BY DEF Outgrown
<1>10. streamed' \in [count : Nat, place : [Requests -> 0..streamed'.count]]
  BY <1>2, <1>3, <1>4
<1> HIDE DEF c, pl
<1> QED BY <1>6, <1>7, <1>8, <1>9, <1>10

\* A cycle given up leaves Redis as it was, but for the lock of a worker that stops.
LEMMA AbandonEffect ==
    ASSUME NEW w \in RealtimeWorkers, NEW kept \in RedisStates, redis \in RedisStates,
           kept.lock = redis.lock, Abandon(w, kept)
    PROVE  /\ redis' \in RedisStates /\ redis'.dedup = kept.dedup
           /\ redis'.stream = kept.stream /\ redis'.pending = kept.pending
           /\ \/ /\ worker' = [worker EXCEPT ![w].pc = "poll", ![w].batch = {}]
                 /\ redis'.lock = redis.lock
              \/ worker' = [worker EXCEPT ![w] = Stopped] /\ redis'.lock = Released(w)
<1>1. Released(w) \in RealtimeWorkers \cup {NoHolder}
  BY DEF Released, RedisStates
<1>2. CASE worker[w].stage = "live"
  BY <1>2 DEF Abandon
<1>3. CASE worker[w].stage # "live"
  BY <1>1, <1>3 DEF Abandon, RedisStates
<1> QED BY <1>2, <1>3

\* Handing a batch on, or giving it up, moves entries from fresh to pending.
LEMMA HandedOn ==
    ASSUME RealtimeTypeOK
    PROVE  /\ Delivered \in RedisStates /\ Delivered.lock = redis.lock
           /\ Delivered.dedup = redis.dedup
           /\ Delivered.stream = redis.stream \ NextBatch
           /\ Delivered.pending = redis.pending \cup NextBatch
<1>1. NextBatch \subseteq Requests
  BY BatchTypes DEF RealtimeTypeOK
<1> QED BY <1>1, BatchTypes DEF Delivered, RedisStates

LEMMA GivenUp ==
    ASSUME RealtimeTypeOK, NEW w \in RealtimeWorkers, FlushFails(w) \/ CycleFails(w)
    PROVE  /\ worker[w].pc # "out"
           /\ redis' \in RedisStates /\ redis'.dedup = redis.dedup
           /\ redis'.stream \cup redis'.pending = redis.stream \cup redis.pending
           /\ UNCHANGED streamed
           /\ \/ /\ worker' = [worker EXCEPT ![w].pc = "poll", ![w].batch = {}]
                 /\ redis'.lock = redis.lock
              \/ worker' = [worker EXCEPT ![w] = Stopped] /\ redis'.lock = Released(w)
<1>1. redis \in RedisStates
  BY BatchTypes
<1>2. CASE CycleFails(w)
  <2>1. Abandon(w, redis) /\ worker[w].pc # "out" /\ UNCHANGED streamed
    BY <1>2 DEF CycleFails, Abandon
  <2> QED BY <1>1, <2>1, AbandonEffect
<1>3. CASE FlushFails(w)
  <2>1. NextBatch \subseteq redis.stream \cup redis.pending
    BY DEF NextBatch
  <2>2. Acknowledged(w) = {} /\ worker[w].pc # "out"
    BY <1>3 DEF FlushFails, Acknowledged
  <2> DEFINE handed == [Delivered EXCEPT !.pending = @ \ Acknowledged(w)]
  <2>3. /\ handed \in RedisStates /\ handed.lock = redis.lock /\ handed.dedup = redis.dedup
        /\ handed.stream = redis.stream \ NextBatch
        /\ handed.pending = redis.pending \cup NextBatch
    BY <2>2, HandedOn DEF RedisStates
  <2>4. PICK kept \in {redis, handed} : Abandon(w, kept)
    BY <1>3 DEF FlushFails
  <2>5. UNCHANGED streamed
    BY <2>4 DEF Abandon
  <2> HIDE DEF handed
  <2>6. /\ kept \in RedisStates /\ kept.lock = redis.lock /\ kept.dedup = redis.dedup
        /\ kept.stream \cup kept.pending = redis.stream \cup redis.pending
    BY <1>1, <2>1, <2>3
  <2>7. /\ redis' \in RedisStates /\ redis'.dedup = kept.dedup
        /\ redis'.stream = kept.stream /\ redis'.pending = kept.pending
        /\ \/ /\ worker' = [worker EXCEPT ![w].pc = "poll", ![w].batch = {}]
              /\ redis'.lock = redis.lock
           \/ worker' = [worker EXCEPT ![w] = Stopped] /\ redis'.lock = Released(w)
    BY <1>1, <2>4, <2>6, AbandonEffect
  <2> QED BY <2>2, <2>5, <2>6, <2>7
<1> QED BY <1>2, <1>3

\* Whatever is seen is logged.
LEMMA Seen ==
    ASSUME RealtimeTypeOK, NEW w \in RealtimeWorkers, Poll(w) \/ SettlementIngests(w)
    PROVE  \E q \in spendLogged : IngestEvent(q)
BY DEF Poll, SettlementIngests, RealtimeTypeOK

LEMMA LogsGrow ==
    ASSUME RealtimeTypeOK, RealtimeNext
    PROVE  /\ today' \in RealtimeDays /\ today \in Nat /\ today' \in Nat /\ today <= today'
           /\ spendLogged \subseteq spendLogged' /\ spendLogged' \subseteq Requests
           /\ facts \subseteq facts' /\ facts' \subseteq spendLogged'
           /\ outlived' \in BOOLEAN /\ realtimeFaults' \in 0..MaxRealtimeFaults
<1> USE DEF RealtimeTypeOK
<1>1. CASE Midnight
  BY <1>1, RealtimeAssumption DEF Midnight, RealtimeDays
<1>2. ASSUME NEW q \in Requests, LogRequest(q)
      PROVE  /\ spendLogged \subseteq spendLogged' /\ spendLogged' \subseteq Requests
             /\ UNCHANGED <<today, facts, outlived, realtimeFaults>>
  BY <1>2 DEF LogRequest
<1>3. ASSUME NEW w \in RealtimeWorkers,
             LockRunsOut(w) \/ CrashRealtime(w) \/ FlushFails(w) \/ CycleFails(w)
      PROVE  /\ UNCHANGED <<today, spendLogged, facts>>
             /\ outlived' \in BOOLEAN /\ realtimeFaults' \in 0..MaxRealtimeFaults
  <2>1. \/ UNCHANGED realtimeFaults
        \/ realtimeFaults < MaxRealtimeFaults /\ realtimeFaults' = realtimeFaults + 1
    BY <1>3 DEF LockRunsOut, CrashRealtime, FlushFails, CycleFails, Abandon
  <2>2. realtimeFaults' \in 0..MaxRealtimeFaults
    BY <2>1, RealtimeAssumption
  <2> QED BY <1>3, <2>2 DEF LockRunsOut, CrashRealtime, FlushFails, CycleFails, Abandon
<1>4. ASSUME NEW w \in RealtimeWorkers,
             Acquire(w) \/ NoticeLoss(w) \/ LiveStep(w) \/ SettlementStores(w) \/ SettlementIngests(w)
      PROVE  /\ UNCHANGED <<today, spendLogged, outlived, realtimeFaults>>
             /\ facts \subseteq facts' /\ facts' \subseteq spendLogged
  <2>1. CASE facts' = facts
    BY <1>4, <2>1 DEF Acquire, NoticeLoss, LiveStep, SettlementStores, SettlementIngests,
       Poll, PollEnds, FlushNothing, FlushStore, FlushAck, ViewFacts, PublishMirror, Seed,
       Calibrate, Finalize
  <2>2. CASE SettlementStores(w)
    BY <2>2 DEF SettlementStores
  <2>3. CASE FlushStore(w)
    BY <2>3, BatchTypes DEF FlushStore
  <2>4. CASE Calibrate(w)
    BY <2>4 DEF Calibrate, OfDay
  <2> QED BY <1>4, <2>1, <2>2, <2>3, <2>4 DEF Acquire, NoticeLoss, LiveStep,
          SettlementIngests, Poll, PollEnds, FlushNothing, FlushAck, ViewFacts, PublishMirror,
          Seed, Finalize
<1> USE RealtimeAssumption DEF RealtimeDays
<1>5. today \in Nat
  OBVIOUS
<1> QED BY <1>1, <1>2, <1>3, <1>4, <1>5 DEF RealtimeNext, Midnight

LEMMA RedisStep ==
    ASSUME RealtimeTypeOK, RealtimeNext
    PROVE  /\ redis' \in RedisStates /\ redis'.dedup \subseteq spendLogged'
           /\ redis'.stream \subseteq redis'.dedup
           /\ redis'.pending \subseteq redis'.dedup
<1> DEFINE Keeps == /\ redis' \in RedisStates /\ redis'.dedup \subseteq spendLogged'
                    /\ redis'.stream \subseteq redis'.dedup
                    /\ redis'.pending \subseteq redis'.dedup
<1> SUFFICES Keeps
  OBVIOUS
<1>1. /\ spendLogged \subseteq spendLogged' /\ facts \subseteq spendLogged
      /\ spendLogged \subseteq Requests
  BY LogsGrow DEF RealtimeTypeOK
<1>2. CASE redis' = redis
  BY <1>1, <1>2, BatchTypes
<1>3. ASSUME NEW w \in RealtimeWorkers, Acquire(w) \/ LockRunsOut(w) \/ NoticeLoss(w) PROVE Keeps
  <2>1. PICK l \in RealtimeWorkers \cup {NoHolder} : redis' = [redis EXCEPT !.lock = l]
    BY <1>3, BatchTypes DEF Acquire, LockRunsOut, NoticeLoss, Released, RedisStates
  <2> QED BY <1>1, <2>1, BatchTypes DEF RedisStates
<1>4. ASSUME NEW q \in spendLogged, IngestEvent(q) PROVE Keeps
  <2>1. q \in spendLogged' /\ redis.dedup \subseteq spendLogged'
    BY <1>1, BatchTypes
  <2> QED BY <1>4, <2>1, IngestEffect, BatchTypes
<1>5. ASSUME NEW w \in RealtimeWorkers, FlushStore(w) \/ FlushFails(w) \/ CycleFails(w)
      PROVE  Keeps
  <2>1. CASE FlushStore(w)
    BY <1>1, <2>1, HandedOn, BatchTypes DEF FlushStore
  <2>2. CASE FlushFails(w) \/ CycleFails(w)
    BY <1>1, <2>2, GivenUp, BatchTypes
  <2> QED BY <1>5, <2>1, <2>2
<1>6. ASSUME NEW w \in RealtimeWorkers, FlushAck(w) PROVE Keeps
  BY <1>1, <1>6, BatchTypes DEF FlushAck, RedisStates
<1>7. ASSUME NEW w \in RealtimeWorkers, Seed(w) PROVE Keeps
  BY <1>1, <1>7, BatchTypes DEF Seed, RedisStates
<1>8. ASSUME NEW w \in RealtimeWorkers, Poll(w) \/ SettlementIngests(w) PROVE Keeps
  BY <1>4, <1>8, Seen
<1> HIDE DEF Keeps
<1>9. ASSUME NEW w \in RealtimeWorkers, LiveStep(w) PROVE Keeps
  BY <1>2, <1>5, <1>6, <1>7, <1>8, <1>9 DEF LiveStep, PollEnds, FlushNothing, ViewFacts,
     PublishMirror, Calibrate, Finalize
<1> QED BY <1>2, <1>3, <1>5, <1>8, <1>9 DEF RealtimeNext, Midnight, LogRequest,
        CrashRealtime, SettlementStores

\* Entries get their places one after the other; the client stays what it is.
LEMMA StreamStep ==
    ASSUME RealtimeTypeOK, RealtimeNext
    PROVE  /\ streamed' \in [count : Nat, place : [Requests -> 0..streamed'.count]]
           /\ emptyAnswer' \in {"nothing", "stream"}
<1>1. ASSUME NEW w \in RealtimeWorkers, Poll(w) \/ SettlementIngests(w)
      PROVE  streamed' \in [count : Nat, place : [Requests -> 0..streamed'.count]]
  BY <1>1, Seen, IngestEffect
<1>2. ASSUME streamed' = streamed
      PROVE  streamed' \in [count : Nat, place : [Requests -> 0..streamed'.count]]
  BY <1>2 DEF RealtimeTypeOK
<1>3. emptyAnswer' = emptyAnswer
  BY DEF RealtimeNext, LiveStep, Midnight, LogRequest, Acquire, LockRunsOut, NoticeLoss,
     CrashRealtime, SettlementStores, SettlementIngests, FlushFails, CycleFails, Abandon, Poll,
     PollEnds, FlushNothing, FlushStore, FlushAck, ViewFacts, PublishMirror, Seed, Calibrate,
     Finalize
<1>4. emptyAnswer' \in {"nothing", "stream"}
  BY <1>3 DEF RealtimeTypeOK
<1> QED BY <1>1, <1>2, <1>4 DEF RealtimeNext, LiveStep, Midnight, LogRequest, Acquire,
        LockRunsOut, NoticeLoss, CrashRealtime, SettlementStores, FlushFails, CycleFails,
        Abandon, PollEnds, FlushNothing, FlushStore, FlushAck, ViewFacts, PublishMirror, Seed,
        Calibrate, Finalize

\* What each worker's step does to its own loop; the others' are left alone.
LEMMA LoopStep ==
    ASSUME RealtimeTypeOK, RealtimeNext
    PROVE  worker' \in [RealtimeWorkers -> LoopStates']
<1>1. /\ worker \in [RealtimeWorkers -> LoopStates] /\ facts \subseteq facts'
      /\ today \in Nat /\ today' \in Nat /\ today <= today'
  BY LogsGrow, BatchTypes
<1>2. /\ Stopped \in LoopStates' /\ LoopStates \subseteq LoopStates'
      /\ [Stopped EXCEPT !.pc = "flush", !.day = today] \in LoopStates'
  BY <1>1, LoopTypes
<1>3. \A w \in RealtimeWorkers : worker[w] \in LoopStates' /\ worker[w].batch \subseteq facts'
  BY <1>1, <1>2 DEF LoopStates
<1>4. ASSUME NEW w \in RealtimeWorkers, NEW s \in LoopStates', worker' = [worker EXCEPT ![w] = s]
      PROVE  worker' \in [RealtimeWorkers -> LoopStates']
  BY <1>1, <1>3, <1>4
<1>5. CASE worker' = worker
  BY <1>1, <1>2, <1>5
<1>6. ASSUME NEW w \in RealtimeWorkers, Acquire(w) \/ NoticeLoss(w) \/ CrashRealtime(w)
      PROVE  worker' \in [RealtimeWorkers -> LoopStates']
  <2>1. PICK s \in LoopStates' : worker' = [worker EXCEPT ![w] = s]
    BY <1>2, <1>6 DEF Acquire, NoticeLoss, CrashRealtime
  <2> QED BY <1>4, <2>1
<1>7. ASSUME NEW w \in RealtimeWorkers, LockRunsOut(w)
      PROVE  worker' \in [RealtimeWorkers -> LoopStates']
  <2>1. CASE worker' = [worker EXCEPT ![w].lost = TRUE]
    <3>1. [worker[w] EXCEPT !.lost = TRUE] \in LoopStates'
      BY <1>3, <1>1, LoopUpdates
    <3>2. worker' = [worker EXCEPT ![w] = [worker[w] EXCEPT !.lost = TRUE]]
      BY <2>1
    <3> QED BY <1>4, <3>1, <3>2
  <2> QED BY <1>5, <1>7, <2>1 DEF LockRunsOut
<1>8. ASSUME NEW w \in RealtimeWorkers, NEW pc \in LoopSteps, worker' = [worker EXCEPT ![w].pc = pc]
      PROVE  worker' \in [RealtimeWorkers -> LoopStates']
  <2>1. [worker[w] EXCEPT !.pc = pc] \in LoopStates'
    BY <1>3, LoopUpdates
  <2>2. worker' = [worker EXCEPT ![w] = [worker[w] EXCEPT !.pc = pc]]
    BY <1>8
  <2> QED BY <1>4, <2>1, <2>2
<1>9. ASSUME NEW w \in RealtimeWorkers, NEW batch \in SUBSET facts',
             NEW pc \in LoopSteps,
             worker' = [worker EXCEPT ![w].pc = pc, ![w].batch = batch]
      PROVE  worker' \in [RealtimeWorkers -> LoopStates']
  <2>1. [worker[w] EXCEPT !.pc = pc, !.batch = batch] \in LoopStates'
    BY <1>3, LoopUpdates
  <2>2. worker' = [worker EXCEPT ![w] = [worker[w] EXCEPT !.pc = pc, !.batch = batch]]
    BY <1>1, <1>9
  <2> QED BY <1>4, <2>1, <2>2
<1>10. ASSUME NEW w \in RealtimeWorkers, FlushFails(w) \/ CycleFails(w)
       PROVE  worker' \in [RealtimeWorkers -> LoopStates']
  <2>1. \/ worker' = [worker EXCEPT ![w].pc = "poll", ![w].batch = {}]
        \/ worker' = [worker EXCEPT ![w] = Stopped]
    BY <1>10, GivenUp
  <2>2. "poll" \in LoopSteps /\ {} \in SUBSET facts'
    BY DEF LoopSteps
  <2> QED BY <1>2, <1>4, <1>9, <2>1, <2>2
<1>11. ASSUME NEW w \in RealtimeWorkers, PollEnds(w) \/ FlushNothing(w)
       PROVE  worker' \in [RealtimeWorkers -> LoopStates']
  <2>1. PICK pc \in {"flush", "seed", "view"} : worker' = [worker EXCEPT ![w].pc = pc]
    BY <1>11 DEF PollEnds, FlushNothing, AfterFlush
  <2> QED BY <1>8, <2>1 DEF LoopSteps
<1>12. ASSUME NEW w \in RealtimeWorkers, FlushStore(w) \/ FlushAck(w) \/ ViewFacts(w)
       PROVE  worker' \in [RealtimeWorkers -> LoopStates']
  <2>1. PICK pc \in {"ack", "seed", "view", "mirror"}, batch \in SUBSET facts' :
          worker' = [worker EXCEPT ![w].pc = pc, ![w].batch = batch]
    <3>1. CASE FlushStore(w)
      <4>1. NextBatch \in SUBSET facts'
        BY <3>1 DEF FlushStore
      <4> QED BY <3>1, <4>1 DEF FlushStore
    <3>2. CASE FlushAck(w)
      <4>1. {} \in SUBSET facts' /\ AfterFlush(w) \in {"seed", "view"}
        BY DEF AfterFlush
      <4> QED BY <3>2, <4>1 DEF FlushAck
    <3>3. CASE ViewFacts(w)
      <4>1. OfDay(facts, worker[w].day) \in SUBSET facts'
        BY <3>3 DEF ViewFacts, OfDay
      <4> QED BY <3>3, <4>1 DEF ViewFacts
    <3> QED BY <1>12, <3>1, <3>2, <3>3
  <2> QED BY <1>9, <2>1 DEF LoopSteps
<1>13. ASSUME NEW w \in RealtimeWorkers, PublishMirror(w)
       PROVE  worker' \in [RealtimeWorkers -> LoopStates']
  <2>1. [worker[w] EXCEPT !.pc = "poll", !.stage = "live", !.batch = {}] \in LoopStates'
    <3>1. "poll" \in LoopSteps /\ "live" \in Stages /\ {} \in SUBSET facts'
      BY DEF LoopSteps, Stages
    <3> QED BY <1>3, <3>1, LoopUpdates
  <2>2. worker' = [worker EXCEPT ![w] =
                     [worker[w] EXCEPT !.pc = "poll", !.stage = "live", !.batch = {}]]
    BY <1>1, <1>13 DEF PublishMirror
  <2> QED BY <1>4, <2>1, <2>2
<1>14. ASSUME NEW w \in RealtimeWorkers, Seed(w)
       PROVE  worker' \in [RealtimeWorkers -> LoopStates']
  <2>1. [worker[w] EXCEPT !.pc = "flush", !.stage = "seeded"] \in LoopStates'
    <3>1. "flush" \in LoopSteps /\ "seeded" \in Stages
      BY DEF LoopSteps, Stages
    <3> QED BY <1>3, <3>1, LoopUpdates
  <2>2. worker' = [worker EXCEPT ![w] = [worker[w] EXCEPT !.pc = "flush", !.stage = "seeded"]]
    BY <1>1, <1>14 DEF Seed
  <2> QED BY <1>4, <2>1, <2>2
<1>15. ASSUME NEW w \in RealtimeWorkers, Calibrate(w)
       PROVE  worker' \in [RealtimeWorkers -> LoopStates']
  <2>1. PICK pc \in {"finalize", "flush"} :
          worker' = [worker EXCEPT ![w].day = today, ![w].stage = "boot", ![w].pc = pc]
    BY <1>15 DEF Calibrate
  <2>2. today \in 0..today' /\ pc \in LoopSteps /\ "boot" \in Stages
    BY <1>1 DEF LoopSteps, Stages
  <2>3. [worker[w] EXCEPT !.day = today, !.stage = "boot", !.pc = pc] \in LoopStates'
    BY <1>3, <2>2, LoopUpdates
  <2>4. worker' = [worker EXCEPT ![w] =
                     [worker[w] EXCEPT !.day = today, !.stage = "boot", !.pc = pc]]
    BY <1>1, <2>1
  <2> QED BY <1>4, <2>3, <2>4
<1>16. ASSUME NEW w \in RealtimeWorkers, Finalize(w)
       PROVE  worker' \in [RealtimeWorkers -> LoopStates']
  BY <1>8, <1>16 DEF Finalize, LoopSteps
<1> QED BY <1>5, <1>6, <1>7, <1>10, <1>11, <1>12, <1>13, <1>14, <1>15, <1>16
        DEF RealtimeNext, LiveStep, Poll, Midnight, LogRequest, SettlementStores,
            SettlementIngests

\* The dashboards show of a day what is stored of it.
LEMMA ShownStep ==
    ASSUME RealtimeTypeOK, ShownIsOfDay, MirrorIsNewest, RealtimeNext
    PROVE  shown' \in [RealtimeDays -> SUBSET facts'] /\ ShownIsOfDay'
<1>1. shown \in [RealtimeDays -> SUBSET facts] /\ facts \subseteq facts'
  BY LogsGrow DEF RealtimeTypeOK
<1>2. CASE shown' = shown
  BY <1>1, <1>2 DEF ShownIsOfDay, OfDay
<1>3. ASSUME NEW e, NEW s \in SUBSET OfDay(facts, e), shown' = [shown EXCEPT ![e] = s],
             facts' = facts
      PROVE  shown' \in [RealtimeDays -> SUBSET facts'] /\ ShownIsOfDay'
  BY <1>1, <1>3 DEF ShownIsOfDay, OfDay
<1>4. ASSUME NEW w \in RealtimeWorkers, PublishMirror(w)
      PROVE  shown' \in [RealtimeDays -> SUBSET facts'] /\ ShownIsOfDay'
  <2>1. worker[w].batch \in SUBSET OfDay(facts, worker[w].day)
    BY <1>4 DEF PublishMirror, MirrorIsNewest
  <2> QED BY <1>3, <1>4, <2>1 DEF PublishMirror
<1>5. ASSUME NEW w \in RealtimeWorkers, Finalize(w)
      PROVE  shown' \in [RealtimeDays -> SUBSET facts'] /\ ShownIsOfDay'
  BY <1>3, <1>5 DEF Finalize, Promoted
<1> QED BY <1>2, <1>4, <1>5 DEF RealtimeNext, LiveStep, Midnight, LogRequest, Acquire,
        LockRunsOut, NoticeLoss, CrashRealtime, SettlementStores, SettlementIngests, FlushFails,
        CycleFails, Abandon, Poll, PollEnds, FlushNothing, FlushStore, FlushAck, ViewFacts,
        Seed, Calibrate

LEMMA RealtimeTypeStep ==
    ASSUME RealtimeTypeOK, ShownIsOfDay, MirrorIsNewest, RealtimeNext
    PROVE  RealtimeTypeOK'
<1>1. /\ redis' \in [lock : RealtimeWorkers \cup {NoHolder}, dedup : SUBSET spendLogged',
                     stream : SUBSET redis'.dedup, pending : SUBSET redis'.dedup]
  BY RedisStep, LogsGrow DEF RedisStates
<1> QED BY <1>1, LogsGrow, StreamStep, LoopStep, ShownStep
        DEF RealtimeTypeOK, LoopStates, LoopSteps, Stages

-----------------------------------------------------------------------------
(* The live loop: safety.                                                  *)

\* The only copy of a request is not acknowledged before it is stored.
LEMMA SeenStep ==
    ASSUME RealtimeTypeOK, SeenIsKept, RealtimeNext
    PROVE  SeenIsKept'
<1> USE DEF SeenIsKept
<1>1. redis \in RedisStates /\ facts \subseteq facts'
  BY BatchTypes, LogsGrow
<1>2. CASE /\ redis'.dedup = redis.dedup /\ UNCHANGED streamed
           /\ redis.stream \cup redis.pending \subseteq facts' \cup redis'.stream \cup redis'.pending
  BY <1>1, <1>2 DEF Outgrown
<1>3. ASSUME NEW w \in RealtimeWorkers, Acquire(w) \/ LockRunsOut(w) \/ NoticeLoss(w)
      PROVE  SeenIsKept'
  BY <1>1, <1>2, <1>3 DEF Acquire, LockRunsOut, NoticeLoss, RedisStates
<1>4. ASSUME NEW w \in RealtimeWorkers, Poll(w) \/ SettlementIngests(w)
      PROVE  SeenIsKept'
  <2>1. PICK q \in spendLogged : IngestEvent(q)
    BY <1>4, Seen
  <2> QED BY <1>1, <2>1, IngestEffect
<1>5. ASSUME NEW w \in RealtimeWorkers, FlushStore(w) \/ FlushFails(w) \/ CycleFails(w)
      PROVE  SeenIsKept'
  <2>1. CASE FlushStore(w)
    BY <1>2, <2>1, HandedOn DEF FlushStore
  <2>2. CASE FlushFails(w) \/ CycleFails(w)
    BY <1>2, <2>2, GivenUp
  <2> QED BY <1>5, <2>1, <2>2
<1>6. ASSUME NEW w \in RealtimeWorkers, FlushAck(w)
      PROVE  SeenIsKept'
  <2>1. worker[w].batch \subseteq facts
    BY BatchTypes DEF LoopStates
  <2>2. /\ redis'.dedup = redis.dedup /\ redis'.stream = redis.stream
        /\ redis'.pending = redis.pending \ worker[w].batch /\ UNCHANGED streamed
    BY <1>1, <1>6 DEF FlushAck, Acknowledged, RedisStates
  <2> QED BY <1>1, <1>2, <2>1, <2>2
<1>7. ASSUME NEW w \in RealtimeWorkers, Seed(w)
      PROVE  SeenIsKept'
  <2>1. PICK restored \in {facts, {}} :
          /\ redis'.dedup = redis.dedup \cup restored /\ redis'.stream = redis.stream
          /\ redis'.pending = redis.pending /\ UNCHANGED <<facts, streamed>>
    BY <1>1, <1>7 DEF Seed, RedisStates
  <2> QED BY <2>1 DEF Outgrown
<1>8. CASE redis' = redis /\ UNCHANGED streamed
  BY <1>2, <1>8
<1> QED BY <1>3, <1>4, <1>5, <1>6, <1>7, <1>8 DEF RealtimeNext, LiveStep, Midnight,
        LogRequest, CrashRealtime, SettlementStores, PollEnds, FlushNothing, ViewFacts,
        PublishMirror, Calibrate, Finalize

\* What a step changes of a worker's loop, and of the lock.
LEMMA LockFrame ==
    ASSUME RealtimeTypeOK, RealtimeNext, NEW v \in RealtimeWorkers
    PROVE  \/ outlived'
           \/ /\ outlived' = outlived
              /\ \/ /\ worker'[v].pc = "out" /\ ~worker'[v].lost
                 \/ worker'[v].lost = worker[v].lost /\ worker'[v].pc = worker[v].pc
                 \/ /\ worker'[v].lost = worker[v].lost /\ worker[v].pc # "out"
                    /\ redis'.lock = redis.lock
                 \/ ~worker'[v].lost /\ redis'.lock = v
<1>1. worker \in [RealtimeWorkers -> LoopStates] /\ redis \in RedisStates
  BY BatchTypes
<1>2. Stopped.pc = "out" /\ ~Stopped.lost
  BY DEF Stopped
<1>3. CASE UNCHANGED <<worker, outlived>>
  BY <1>3
<1>4. ASSUME NEW w \in RealtimeWorkers, Acquire(w)
      PROVE  /\ outlived' = outlived
             /\ \/ worker'[v] = worker[v]
                \/ ~worker'[v].lost /\ redis'.lock = v
  BY <1>1, <1>4 DEF Acquire, Stopped, RedisStates
<1>5. ASSUME NEW w \in RealtimeWorkers, LockRunsOut(w)
      PROVE  \/ outlived' \/ UNCHANGED <<worker, outlived>>
  BY <1>5 DEF LockRunsOut
<1>6. ASSUME NEW w \in RealtimeWorkers, NoticeLoss(w) \/ CrashRealtime(w)
      PROVE  outlived' = outlived /\ (worker'[v] = worker[v] \/ worker'[v] = Stopped)
  BY <1>1, <1>6 DEF NoticeLoss, CrashRealtime
<1>7. ASSUME NEW w \in RealtimeWorkers, FlushFails(w) \/ CycleFails(w)
      PROVE  \/ outlived' = outlived /\ (worker'[v] = worker[v] \/ worker'[v] = Stopped)
             \/ /\ outlived' = outlived /\ worker'[v].lost = worker[v].lost
                /\ worker[v].pc # "out" /\ redis'.lock = redis.lock
  <2>1. outlived' = outlived /\ worker[w].pc # "out"
    BY <1>7, GivenUp DEF FlushFails, CycleFails, Abandon
  <2>2. CASE worker' = [worker EXCEPT ![w] = Stopped]
    BY <1>1, <2>1, <2>2
  <2>3. CASE /\ worker' = [worker EXCEPT ![w].pc = "poll", ![w].batch = {}]
             /\ redis'.lock = redis.lock
    BY <1>1, <2>1, <2>3 DEF LoopStates
  <2> QED BY <1>7, <2>2, <2>3, GivenUp
<1>8. ASSUME NEW w \in RealtimeWorkers, LiveStep(w)
      PROVE  /\ outlived' = outlived /\ worker'[v].lost = worker[v].lost
             /\ worker'[v] = worker[v] \/ worker[v].pc # "out"
             /\ redis'.lock = redis.lock
  <2>1. CASE Poll(w) \/ PollEnds(w) \/ FlushNothing(w) \/ FlushStore(w)
    <3>1. redis'.lock = redis.lock
      BY <2>1, Seen, IngestEffect, HandedOn DEF PollEnds, FlushNothing, FlushStore
    <3> QED BY <1>1, <2>1, <3>1 DEF Poll, PollEnds, FlushNothing, FlushStore, LoopStates
  <2>2. CASE FlushAck(w) \/ ViewFacts(w) \/ PublishMirror(w)
    BY <1>1, <2>2 DEF FlushAck, ViewFacts, PublishMirror, RedisStates, LoopStates
  <2>3. CASE Seed(w) \/ Finalize(w)
    BY <1>1, <2>3 DEF Seed, Finalize, RedisStates, LoopStates
  <2>4. CASE Calibrate(w)
    <3>1. PICK pc : worker' = [worker EXCEPT ![w].day = today, ![w].stage = "boot", ![w].pc = pc]
      BY <2>4 DEF Calibrate
    <3> QED BY <1>1, <2>4, <3>1 DEF Calibrate, RedisStates, LoopStates
  <2> QED BY <1>8, <2>1, <2>2, <2>3, <2>4 DEF LiveStep
<1> QED BY <1>2, <1>3, <1>4, <1>5, <1>6, <1>7, <1>8 DEF RealtimeNext, Midnight, LogRequest,
        SettlementStores, SettlementIngests

\* Who takes the lock finds it free, who gives it back stops.
LEMMA LockLeft ==
    ASSUME RealtimeTypeOK, RealtimeNext, NEW v \in RealtimeWorkers, redis.lock = v,
           OneWorker, ~outlived'
    PROVE  redis'.lock = v \/ worker'[v].pc = "out"
<1>1. worker \in [RealtimeWorkers -> LoopStates] /\ redis \in RedisStates /\ v # NoHolder
  BY BatchTypes, RealtimeAssumption
<1>2. CASE redis'.lock = redis.lock
  BY <1>2
<1>3. ASSUME NEW w \in RealtimeWorkers, Acquire(w) PROVE FALSE
  BY <1>1, <1>3 DEF Acquire, MayAcquire
<1>4. ASSUME NEW w \in RealtimeWorkers, LockRunsOut(w) PROVE worker'[v].pc = "out"
  BY <1>4 DEF LockRunsOut
<1>5. ASSUME NEW w \in RealtimeWorkers, NoticeLoss(w) PROVE FALSE
  BY <1>5 DEF NoticeLoss, OneWorker
<1>6. ASSUME NEW w \in RealtimeWorkers, FlushFails(w) \/ CycleFails(w)
      PROVE  redis'.lock = redis.lock \/ worker'[v].pc = "out"
  <2>1. \/ redis'.lock = redis.lock
        \/ worker' = [worker EXCEPT ![w] = Stopped] /\ redis'.lock = Released(w)
    BY <1>6, GivenUp
  <2> QED BY <1>1, <2>1 DEF Released, Stopped
<1>7. ASSUME NEW w \in RealtimeWorkers, LiveStep(w) PROVE redis'.lock = redis.lock
  <2>1. CASE Poll(w) \/ FlushStore(w)
    BY <2>1, Seen, IngestEffect, HandedOn DEF FlushStore
  <2>2. CASE Seed(w) \/ FlushAck(w)
    BY <1>1, <2>2 DEF Seed, FlushAck, RedisStates
  <2> QED BY <1>7, <2>1, <2>2 DEF LiveStep, PollEnds, FlushNothing, ViewFacts, PublishMirror,
          Calibrate, Finalize
<1>8. ASSUME NEW w \in RealtimeWorkers, SettlementIngests(w) PROVE redis'.lock = redis.lock
  BY <1>8, Seen, IngestEffect
<1> QED BY <1>2, <1>3, <1>4, <1>5, <1>6, <1>7, <1>8 DEF RealtimeNext, Midnight, LogRequest,
        SettlementStores, CrashRealtime

LEMMA OneWorkerStep ==
    ASSUME RealtimeTypeOK, OneWorker, RealtimeNext
    PROVE  OneWorker'
<1> SUFFICES ASSUME ~outlived', NEW v \in RealtimeWorkers
             PROVE  ~worker'[v].lost /\ (worker'[v].pc # "out" => redis'.lock = v)
  BY DEF OneWorker
<1>1. ~outlived /\ ~worker[v].lost /\ (worker[v].pc # "out" => redis.lock = v)
  BY LockFrame DEF OneWorker
<1> QED BY <1>1, LockFrame, LockLeft

\* No other worker publishes between a worker's reading and its publication.
LEMMA MirrorStep ==
    ASSUME RealtimeTypeOK, ShownIsOfDay, OneWorker, MirrorIsNewest, RealtimeNext
    PROVE  MirrorIsNewest'
<1>1. /\ worker \in [RealtimeWorkers -> LoopStates] /\ facts \subseteq facts'
      /\ outlived => outlived'
  <2>1. outlived => outlived'
    BY DEF RealtimeNext, LiveStep, Midnight, LogRequest, Acquire, LockRunsOut, NoticeLoss,
       CrashRealtime, SettlementStores, SettlementIngests, FlushFails, CycleFails, Abandon,
       Poll, PollEnds, FlushNothing, FlushStore, FlushAck, ViewFacts, PublishMirror, Seed,
       Calibrate, Finalize
  <2> QED BY <2>1, BatchTypes, LogsGrow
<1> SUFFICES ASSUME NEW v \in RealtimeWorkers, worker'[v].pc = "mirror"
             PROVE  /\ worker'[v].batch \subseteq OfDay(facts', worker'[v].day)
                    /\ ~outlived' => shown'[worker'[v].day] \subseteq worker'[v].batch
  BY DEF MirrorIsNewest, OfDay
<1>2. CASE ViewFacts(v)
  <2> DEFINE d == worker[v].day
  <2>1. /\ worker'[v].batch = OfDay(facts, d) /\ worker'[v].day = d
        /\ UNCHANGED <<facts, shown>>
    BY <1>1, <1>2 DEF ViewFacts, LoopStates
  <2>2. d \in RealtimeDays
    BY <1>1, RealtimeAssumption DEF RealtimeTypeOK, LoopStates, RealtimeDays
  <2> QED BY <2>1, <2>2 DEF ShownIsOfDay
<1>3. CASE ~ViewFacts(v)
  <2>1. /\ worker[v].pc = "mirror" /\ worker'[v].batch = worker[v].batch
        /\ worker'[v].day = worker[v].day
    <3>1. CASE worker'[v] = worker[v]
      BY <3>1
    <3>2. CASE LockRunsOut(v)
      BY <1>1, <3>2 DEF LockRunsOut, LoopStates
    <3>3. CASE worker'[v] # worker[v] /\ ~LockRunsOut(v)
      <4>2. ASSUME NEW w \in RealtimeWorkers, w # v PROVE worker'[v] = worker[v] \/ ~LiveStep(w)
        <5>1. ASSUME Calibrate(w) PROVE worker'[v] = worker[v]
          <6>1. PICK pc : worker' = [worker EXCEPT ![w].day = today, ![w].stage = "boot", ![w].pc = pc]
            BY <5>1 DEF Calibrate
          <6> QED BY <1>1, <4>2, <6>1
        <5> QED BY <1>1, <4>2, <5>1 DEF LiveStep, Poll, PollEnds, FlushNothing, FlushStore,
                FlushAck, ViewFacts, PublishMirror, Seed, Finalize
      <4>3. ASSUME NEW w \in RealtimeWorkers, w # v,
                   \/ Acquire(w) \/ LockRunsOut(w) \/ NoticeLoss(w) \/ CrashRealtime(w)
                   \/ FlushFails(w) \/ CycleFails(w)
            PROVE  worker'[v] = worker[v]
        BY <1>1, <4>3, GivenUp DEF Acquire, LockRunsOut, NoticeLoss, CrashRealtime
      <4>4. \/ Acquire(v) \/ NoticeLoss(v) \/ CrashRealtime(v) \/ LiveStep(v)
            \/ FlushFails(v) \/ CycleFails(v)
        BY <3>3, <4>2, <4>3 DEF RealtimeNext, Midnight, LogRequest, SettlementStores,
           SettlementIngests
      <4>5. worker'[v].pc # "mirror"
        <5>1. CASE \/ Acquire(v) \/ NoticeLoss(v) \/ CrashRealtime(v)
                   \/ FlushFails(v) \/ CycleFails(v)
          <6>1. \/ worker'[v] = [Stopped EXCEPT !.pc = "flush", !.day = today]
                \/ worker'[v] = Stopped
                \/ worker'[v] = [worker[v] EXCEPT !.pc = "poll", !.batch = {}]
            BY <1>1, <5>1, GivenUp DEF Acquire, NoticeLoss, CrashRealtime
          <6>2. Stopped \in LoopStates' /\ Stopped.pc = "out"
            BY LoopTypes, LogsGrow DEF Stopped
          <6> QED BY <1>1, <6>1, <6>2 DEF LoopStates
        <5>2. CASE Poll(v) \/ PollEnds(v) \/ FlushNothing(v) \/ FlushStore(v) \/ FlushAck(v)
          BY <1>1, <3>3, <5>2
             DEF Poll, PollEnds, FlushNothing, FlushStore, FlushAck, AfterFlush, LoopStates
        <5>3. CASE PublishMirror(v) \/ Seed(v) \/ Finalize(v)
          BY <1>1, <5>3 DEF PublishMirror, Seed, Finalize, LoopStates
        <5>4. CASE Calibrate(v)
          <6>1. PICK pc \in {"finalize", "flush"} :
                  worker' = [worker EXCEPT ![v].day = today, ![v].stage = "boot", ![v].pc = pc]
            BY <5>4 DEF Calibrate
          <6> QED BY <1>1, <6>1 DEF LoopStates
        <5> QED BY <1>3, <4>4, <5>1, <5>2, <5>3, <5>4 DEF LiveStep
      <4> QED BY <4>5
    <3> QED BY <3>1, <3>2, <3>3
  <2>2. worker'[v].batch \subseteq OfDay(facts', worker'[v].day)
    BY <1>1, <2>1 DEF MirrorIsNewest, OfDay
  <2>3. ASSUME ~outlived' PROVE shown' = shown
    <3>1. ASSUME NEW w \in RealtimeWorkers, PublishMirror(w) \/ Finalize(w) PROVE FALSE
      <4>1. w = v
        BY <1>1, <2>1, <2>3, <3>1 DEF OneWorker, PublishMirror, Finalize
      <4>2. worker'[v].pc # "mirror"
        BY <1>1, <3>1, <4>1 DEF PublishMirror, Finalize, LoopStates
      <4> QED BY <4>2
    <3> QED BY <3>1 DEF RealtimeNext, LiveStep, Midnight, LogRequest, Acquire, LockRunsOut,
            NoticeLoss, CrashRealtime, SettlementStores, SettlementIngests, FlushFails,
            CycleFails, Abandon, Poll, PollEnds, FlushNothing, FlushStore, FlushAck, ViewFacts,
            Seed, Calibrate
  <2> QED BY <1>1, <2>1, <2>2, <2>3 DEF MirrorIsNewest
<1> QED BY <1>2, <1>3

LEMMA LiveStepInv ==
    ASSUME LiveInv, [RealtimeNext]_realtimeVars PROVE LiveInv'
<1>1. CASE RealtimeNext
  BY <1>1, RealtimeTypeStep, SeenStep, ShownStep, OneWorkerStep, MirrorStep DEF LiveInv
<1>2. CASE UNCHANGED realtimeVars
  BY <1>2 DEF realtimeVars, LiveInv, RealtimeTypeOK, SeenIsKept, Outgrown, ShownIsOfDay,
     OneWorker, MirrorIsNewest, OfDay
<1> QED BY <1>1, <1>2

\* The live loop's invariant.
THEOREM LiveInvariant == RealtimeSpec => []LiveInv
<1>1. RealtimeInit => LiveInv
  <2> SUFFICES ASSUME RealtimeInit PROVE LiveInv
    OBVIOUS
  <2>1. Stopped.pc = "out" /\ ~Stopped.lost /\ \A w \in RealtimeWorkers : worker[w] = Stopped
    BY DEF Stopped, RealtimeInit
  <2>2. RealtimeTypeOK
    <3>1. redis \in RedisStates /\ redis.dedup = {} /\ redis.stream = {} /\ redis.pending = {}
      BY DEF RealtimeInit, RedisStates
    <3>2. worker \in [RealtimeWorkers -> LoopStates]
      BY DEF RealtimeInit, LoopStates, LoopSteps, Stages, Stopped
    <3>3. redis \in [lock : RealtimeWorkers \cup {NoHolder}, dedup : SUBSET spendLogged,
                     stream : SUBSET redis.dedup, pending : SUBSET redis.dedup]
      BY <3>1, RedisTypes DEF RealtimeInit
    <3>4. shown \in [RealtimeDays -> SUBSET facts]
      BY DEF RealtimeInit
    <3>5. /\ today \in RealtimeDays /\ spendLogged \subseteq Requests
          /\ facts \subseteq spendLogged
          /\ outlived \in BOOLEAN /\ realtimeFaults \in 0..MaxRealtimeFaults
      <4>1. today = 0 /\ spendLogged = {} /\ facts = {} /\ outlived = FALSE /\ realtimeFaults = 0
        BY DEF RealtimeInit
      <4>2. 0 \in RealtimeDays /\ 0 \in 0..MaxRealtimeFaults
        BY RealtimeAssumption DEF RealtimeDays
      <4> QED BY <4>1, <4>2
    <3>6. /\ streamed \in [count : Nat, place : [Requests -> 0..streamed.count]]
          /\ emptyAnswer \in {"nothing", "stream"}
      BY DEF RealtimeInit
    <3> QED BY <3>2, <3>3, <3>4, <3>5, <3>6
            DEF RealtimeTypeOK, LoopStates, LoopSteps, Stages
  <2>3. SeenIsKept /\ ShownIsOfDay
    BY DEF RealtimeInit, SeenIsKept, ShownIsOfDay
  <2>4. OneWorker /\ MirrorIsNewest
    BY <2>1 DEF OneWorker, MirrorIsNewest
  <2> QED BY <2>2, <2>3, <2>4 DEF LiveInv
<1> QED BY <1>1, LiveStepInv, PTL DEF RealtimeSpec

\* The clock, the log, Redis, the facts, the dashboards and the workers keep their types.
THEOREM RealtimeTypeCorrect == RealtimeSpec => []RealtimeTypeOK
<1>1. LiveInv => RealtimeTypeOK
  BY DEF LiveInv
<1> QED BY <1>1, LiveInvariant, PTL

\* A request Redis would refuse as seen is in its stream, pending, or stored, unless
\* the stream's own limit pushed it off.
THEOREM SeenStays == RealtimeSpec => []SeenIsKept
<1>1. LiveInv => SeenIsKept
  BY DEF LiveInv
<1> QED BY <1>1, LiveInvariant, PTL

\* Until a worker outlives its lock, what the dashboards show of a day only grows.
THEOREM LiveFiguresStay == RealtimeSpec => ShownNeverShrinks
<1>1. LiveInv /\ [RealtimeNext]_realtimeVars =>
        [~outlived => \A d \in RealtimeDays : shown[d] \subseteq shown'[d]]_realtimeVars
  <2> SUFFICES ASSUME LiveInv, RealtimeNext, ~outlived, NEW d \in RealtimeDays
               PROVE  shown[d] \subseteq shown'[d]
    OBVIOUS
  <2>1. shown \in [RealtimeDays -> SUBSET facts] /\ shown[d] \subseteq OfDay(facts, d)
    BY DEF LiveInv, RealtimeTypeOK, ShownIsOfDay
  <2>2. ASSUME NEW w \in RealtimeWorkers, PublishMirror(w) PROVE shown[d] \subseteq shown'[d]
    <3>1. shown[worker[w].day] \subseteq worker[w].batch
      BY <2>2 DEF PublishMirror, LiveInv, MirrorIsNewest
    <3> QED BY <2>1, <2>2, <3>1 DEF PublishMirror
  <2>3. ASSUME NEW w \in RealtimeWorkers, Finalize(w) PROVE shown[d] \subseteq shown'[d]
    BY <2>1, <2>3 DEF Finalize, Promoted
  <2>4. CASE shown' = shown
    BY <2>4
  <2> QED BY <2>2, <2>3, <2>4 DEF RealtimeNext, LiveStep, Midnight, LogRequest, Acquire,
          LockRunsOut, NoticeLoss, CrashRealtime, SettlementStores, SettlementIngests,
          FlushFails, CycleFails, Abandon, Poll, PollEnds, FlushNothing, FlushStore, FlushAck,
          ViewFacts, Seed, Calibrate
<1> QED BY <1>1, LiveInvariant, PTL DEF RealtimeSpec, ShownNeverShrinks

-----------------------------------------------------------------------------
(* Settlement: days and minutes.                                           *)

\* Integer division, the only arithmetic of the days.
LEMMA Division ==
    ASSUME NEW a \in Int, NEW n \in Nat \ {0}
    PROVE  /\ a \div n \in Int /\ (a \div n) * n \in Int
           /\ (a \div n) * n <= a /\ a < (a \div n) * n + n
OBVIOUS

LEMMA DivisionIsMonotonic ==
    ASSUME NEW a \in Int, NEW b \in Int, NEW n \in Nat \ {0}, a <= b
    PROVE  a \div n <= b \div n
OBVIOUS

LEMMA ProductIsMonotonic ==
    ASSUME NEW p \in Int, NEW q \in Int, NEW n \in Nat \ {0}, p <= q
    PROVE  p * n \in Int /\ q * n \in Int /\ p * n <= q * n
OBVIOUS

LEMMA ProductOfNext ==
    ASSUME NEW p \in Int, NEW n \in Nat \ {0}
    PROVE  p * n \in Int /\ (p + 1) * n = p * n + n
OBVIOUS

\* A day begins at or before each of its minutes, and not before minute 1.
LEMMA DayBegins ==
    ASSUME NEW m \in Nat \ {0}
    PROVE  DayOf(m) \in Int /\ DayStart(m) \in 1..m /\ m < DayStart(m) + MinutesPerDay
<1>1. /\ DayOf(m) \in Int /\ DayOf(m) * MinutesPerDay \in Int
      /\ DayOf(m) * MinutesPerDay <= m - 1 /\ m - 1 < DayOf(m) * MinutesPerDay + MinutesPerDay
  BY Division, SettlementAssumption DEF DayOf
<1>2. 0 \div MinutesPerDay <= DayOf(m)
  BY DivisionIsMonotonic, SettlementAssumption DEF DayOf
<1>3. 0 \div MinutesPerDay = 0
  BY SettlementAssumption
<1>4. 0 * MinutesPerDay <= DayOf(m) * MinutesPerDay
  BY <1>1, <1>2, <1>3, ProductIsMonotonic, SettlementAssumption
<1> QED BY <1>1, <1>4, SettlementAssumption DEF DayStart

\* The minutes between a day's first and one of its minutes are of that day.
LEMMA SameDay ==
    ASSUME NEW m \in Nat \ {0}, NEW n \in Nat \ {0}, DayStart(m) <= n, n <= m
    PROVE  DayStart(n) = DayStart(m)
<1> USE SettlementAssumption
<1>1. DayOf(n) \in Int /\ DayOf(m) \in Int /\ DayOf(n) <= DayOf(m)
  <2>1. n - 1 \in Int /\ m - 1 \in Int /\ n - 1 <= m - 1
    OBVIOUS
  <2>2. (n - 1) \div MinutesPerDay <= (m - 1) \div MinutesPerDay
    BY <2>1, DivisionIsMonotonic
  <2> QED BY <2>2, DayBegins DEF DayOf
<1>2. CASE DayOf(n) = DayOf(m)
  BY <1>2 DEF DayStart
<1>3. CASE DayOf(n) + 1 <= DayOf(m)
  <2>1. (DayOf(n) + 1) * MinutesPerDay <= DayOf(m) * MinutesPerDay
        /\ DayOf(m) * MinutesPerDay \in Int
    BY <1>1, <1>3, ProductIsMonotonic
  <2>2. (DayOf(n) + 1) * MinutesPerDay = DayOf(n) * MinutesPerDay + MinutesPerDay
        /\ DayOf(n) * MinutesPerDay \in Int
    BY <1>1, ProductOfNext
  <2>3. n < DayStart(n) + MinutesPerDay
    BY DayBegins
  <2> QED BY <2>1, <2>2, <2>3 DEF DayStart
<1> QED BY <1>1, <1>2, <1>3

\* The next minute is of the same day or the first of its own.
LEMMA NextMinute ==
    ASSUME NEW m \in Nat \ {0}
    PROVE  DayStart(m + 1) = DayStart(m) \/ DayStart(m + 1) = m + 1
<1> USE SettlementAssumption
<1>1. DayOf(m) \in Int /\ DayOf(m + 1) \in Int /\ DayOf(m) <= DayOf(m + 1)
  BY DayBegins, DivisionIsMonotonic DEF DayOf
<1>2. CASE DayOf(m) = DayOf(m + 1)
  BY <1>2 DEF DayStart
<1>3. CASE DayOf(m) + 1 <= DayOf(m + 1)
  <2>1. (DayOf(m) + 1) * MinutesPerDay <= DayOf(m + 1) * MinutesPerDay
        /\ DayOf(m + 1) * MinutesPerDay \in Int
    BY <1>1, <1>3, ProductIsMonotonic
  <2>2. (DayOf(m) + 1) * MinutesPerDay = DayOf(m) * MinutesPerDay + MinutesPerDay
        /\ DayOf(m) * MinutesPerDay \in Int
    BY <1>1, ProductOfNext
  <2>3. m < DayStart(m) + MinutesPerDay /\ DayStart(m + 1) <= m + 1
    BY DayBegins
  <2> QED BY <2>1, <2>2, <2>3 DEF DayStart
<1> QED BY <1>1, <1>2, <1>3

LEMMA MinutesAreNumbers ==
    Timely \subseteq Int /\ Timely' \subseteq Int
<1>1. RequestMinutes \subseteq Int
  BY SettlementAssumption
<1>2. Timely \subseteq RequestMinutes
  BY DEF Timely
<1>3. Timely' \subseteq RequestMinutes
  BY DEF Timely
<1> QED BY <1>1, <1>2, <1>3

\* A day's first minute has no minute of its day before it.
LEMMA FirstMinuteIsEarned ==
    ASSUME NEW m \in Nat \ {0}
    PROVE  EarnedBefore(DayStart(m))
<1>1. DayStart(m) \in Nat \ {0} /\ DayStart(m) <= m /\ DayStart(DayStart(m)) = DayStart(m)
  BY DayBegins, SameDay
<1>2. Timely \subseteq Int
  BY MinutesAreNumbers
<1> QED BY <1>1, <1>2 DEF EarnedBefore

\* Storing a minute after the minutes before it earns the next one.
LEMMA NextIsEarned ==
    ASSUME NEW m \in Nat \ {0}, EarnedBefore(m), m \in Timely => m \in archived
    PROVE  EarnedBefore(m + 1)
<1>1. Timely \subseteq Int
  BY MinutesAreNumbers
<1> SUFFICES ASSUME NEW n \in Timely, DayStart(m + 1) <= n, n < m + 1
             PROVE  n \in archived
  BY DEF EarnedBefore
<1>2. DayStart(m + 1) = DayStart(m)
  BY <1>1, NextMinute
<1> QED BY <1>1, <1>2 DEF EarnedBefore

-----------------------------------------------------------------------------
(* Settlement: every action preserves the invariant.                       *)

\* Nothing is logged in time for a minute that is closed.
LEMMA ClosedStays ==
    ASSUME SettlementTypeOK, [SettlementNext]_settlementVars
    PROVE  /\ now' \in Minutes /\ Target \in Nat \ {0} /\ Target' \in Nat \ {0}
           /\ Target <= Target'
           /\ logged' \in [RequestMinutes -> {"no", "timely", "late"}]
           /\ InLog \subseteq InLog'
           /\ \A n \in Timely' : n < Target => n \in Timely
<1> USE SettlementAssumption DEF SettlementTypeOK, Minutes
<1>1. Target \in Nat \ {0} /\ now \in Nat
  BY DEF Target
<1>2. CASE Tick
  BY <1>1, <1>2 DEF Tick, Target, InLog, Timely
<1>3. ASSUME NEW m \in RequestMinutes, LogMinute(m)
      PROVE  /\ now' = now /\ logged' \in [RequestMinutes -> {"no", "timely", "late"}]
             /\ InLog \subseteq InLog'
             /\ \A n \in Timely' : n < Target => n \in Timely
  <2>1. now' = now /\ logged' \in [RequestMinutes -> {"no", "timely", "late"}]
        /\ InLog \subseteq InLog'
    BY <1>3 DEF LogMinute, InLog
  <2>2. ASSUME NEW n \in RequestMinutes, logged'[n] = "timely", n < Target
        PROVE  logged[n] = "timely"
    <3>1. CASE n = m
      <4>1. now <= m + SettleDelay
        BY <1>3, <2>2, <3>1 DEF LogMinute
      <4> QED BY <1>1, <2>2, <3>1, <4>1 DEF Target
    <3>2. CASE n # m
      BY <1>3, <2>2, <3>2 DEF LogMinute
    <3> QED BY <3>1, <3>2
  <2> QED BY <2>1, <2>2 DEF Timely
<1>4. ASSUME logged' = logged
      PROVE  /\ logged' \in [RequestMinutes -> {"no", "timely", "late"}]
             /\ InLog \subseteq InLog'
             /\ \A n \in Timely' : n < Target => n \in Timely
  BY <1>4 DEF InLog, Timely
<1>5. ASSUME now' = now PROVE Target' = Target /\ now' \in Minutes
  BY <1>5 DEF Target
<1>6. \/ Tick \/ (\E m \in RequestMinutes : LogMinute(m))
      \/ now' = now /\ logged' = logged
  BY DEF SettlementNext, LiveArchives, StartWorker, StopWorker, StartupBegins, StartupScan,
     StartupAdvance, StartupTimesOut, BackgroundScan, BackgroundScanFails, BackgroundAdvance,
     BackgroundTimesOut, settlementVars
<1>7. CASE now' = now /\ logged' = logged
  BY <1>1, <1>4, <1>5, <1>7
<1>8. CASE \E m \in RequestMinutes : LogMinute(m)
  BY <1>1, <1>3, <1>5, <1>8
<1> QED BY <1>1, <1>2, <1>6, <1>7, <1>8

\* What was earned up to a closed minute stays so.
LEMMA EarnedStays ==
    ASSUME SettlementTypeOK, [SettlementNext]_settlementVars, archived \subseteq archived',
           NEW m \in Int, m <= Target
    PROVE  /\ EarnedBefore(m) => EarnedBefore(m)'
           /\ m < Target => ((m \in Timely => m \in archived) => (m \in Timely' => m \in archived'))
<1>1. /\ \A n \in Timely' : n < Target => n \in Timely
      /\ Target \in Nat /\ Timely' \subseteq Int
  BY ClosedStays, MinutesAreNumbers
<1>2. EarnedBefore(m) => EarnedBefore(m)'
  BY <1>1 DEF EarnedBefore, DayStart, DayOf
<1> QED BY <1>1, <1>2

LEMMA StoredStays ==
    ASSUME SettlementTypeOK, [SettlementNext]_settlementVars
    PROVE  archived \subseteq archived' /\ archived' \subseteq InLog'
<1>1. InLog \subseteq InLog' /\ archived \subseteq InLog
  BY ClosedStays DEF SettlementTypeOK
<1>2. CASE archived' = archived
  BY <1>1, <1>2
<1>3. ASSUME NEW w \in SettlementWorkers, LiveArchives(w)
      PROVE  archived \subseteq archived' /\ archived' \subseteq InLog
  BY <1>1, <1>3 DEF LiveArchives
<1>4. ASSUME NEW m, NEW complete, Scanned(m, complete)
      PROVE  archived \subseteq archived' /\ archived' \subseteq InLog
  BY <1>1, <1>4 DEF Scanned
<1>5. ASSUME NEW w \in SettlementWorkers,
             StartupScan(w) \/ BackgroundScan(w) \/ BackgroundScanFails(w)
      PROVE  \E m, complete : Scanned(m, complete)
  BY <1>5 DEF StartupScan, BackgroundScan, BackgroundScanFails
<1> QED BY <1>1, <1>2, <1>3, <1>4, <1>5 DEF SettlementNext, Tick, LogMinute, StartWorker,
        StopWorker, StartupBegins, StartupAdvance, StartupTimesOut, BackgroundAdvance,
        BackgroundTimesOut, settlementVars

\* What a task has done stays in order under every step.
LEMMA OrderStays ==
    ASSUME SettlementTypeOK, [SettlementNext]_settlementVars
    PROVE  SoundTasks \subseteq SoundTasks'
<1> SUFFICES ASSUME NEW s \in SoundTasks PROVE s \in SoundTasks'
  OBVIOUS
<1>1. s \in Tasks /\ InOrder(s)
  BY DEF SoundTasks
<1>2. /\ Target \in Nat \ {0} /\ Target' \in Nat \ {0} /\ Target <= Target'
      /\ archived \subseteq archived'
  BY ClosedStays, StoredStays
<1>3. s \in Tasks'
  <2>1. 1..Target \subseteq 1..Target'
    BY <1>2
  <2> QED BY <1>1, <2>1 DEF Tasks
<1>4. /\ s.at \in 1..Target /\ s.until \in 1..Target /\ s.minute \in 1..Target
  BY <1>1 DEF Tasks
<1>5. PICK at, minute : at = s.at /\ minute = s.minute
  OBVIOUS
<1>6. /\ EarnedBefore(at) => EarnedBefore(at)'
      /\ at < Target => ((at \in Timely => at \in archived) => (at \in Timely' => at \in archived'))
      /\ EarnedBefore(minute) => EarnedBefore(minute)'
      /\ minute < Target =>
           ((minute \in Timely => minute \in archived) => (minute \in Timely' => minute \in archived'))
  BY <1>2, <1>4, <1>5, EarnedStays
<1>7. InOrder(s)'
  <2>1. s.startup = "advance" => s.at < Target
    BY <1>1, <1>2, <1>4 DEF InOrder
  <2>2. s.background = "advance" => s.minute < Target'
    BY <1>1, <1>2, <1>4 DEF InOrder
  <2> QED BY <1>1, <1>5, <1>6, <2>1, <2>2 DEF InOrder
<1> QED BY <1>3, <1>7 DEF SoundTasks

LEMMA OneTaskSteps ==
    ASSUME SettlementTypeOK, [SettlementNext]_settlementVars,
           settler \in [SettlementWorkers -> SoundTasks],
           NEW w \in SettlementWorkers, settler'[w] \in SoundTasks',
           settler' = [settler EXCEPT ![w] = settler'[w]]
    PROVE  settler' \in [SettlementWorkers -> SoundTasks']
BY OrderStays

\* Either half of a task that is sound is sound, and so is an idle half.
LEMMA LikeSoundTask ==
    ASSUME NEW s \in SoundTasks', NEW t \in Tasks',
           \/ t.startup \notin {"scan", "advance"}
           \/ t.startup = s.startup /\ t.at = s.at /\ t.until = s.until,
           \/ t.background # "advance"
           \/ t.background = s.background /\ t.minute = s.minute
    PROVE  t \in SoundTasks'
<1>1. InOrder(s)'
  BY DEF SoundTasks
<1>2. InOrder(t)'
  <2>1. PICK at, minute : at = s.at /\ minute = s.minute
    OBVIOUS
  <2> QED BY <1>1, <2>1 DEF InOrder
<1> QED BY <1>2 DEF SoundTasks

\* The updates that leave a task idle.
LEMMA IdleTasks ==
    ASSUME SettlementTypeOK, [SettlementNext]_settlementVars, NEW s \in SoundTasks'
    PROVE  /\ Down \in SoundTasks'
           /\ [Down EXCEPT !.up = TRUE, !.startup = "start", !.background = "idle"] \in SoundTasks'
           /\ [s EXCEPT !.startup = "done", !.at = 1, !.until = 1] \in SoundTasks'
           /\ [s EXCEPT !.background = "idle", !.minute = 1] \in SoundTasks'
<1>1. 1 \in 1..Target'
  BY ClosedStays
<1>2. Down \in Tasks' /\ Down.startup = "off" /\ Down.background = "off"
  BY <1>1 DEF Down, Tasks
<1>3. Down \in SoundTasks'
  BY <1>2 DEF SoundTasks, InOrder
<1>4. [Down EXCEPT !.up = TRUE, !.startup = "start", !.background = "idle"] \in SoundTasks'
  <2> DEFINE t == [Down EXCEPT !.up = TRUE, !.startup = "start", !.background = "idle"]
  <2>1. t \in Tasks' /\ t.startup = "start" /\ t.background = "idle"
    BY <1>2 DEF Tasks
  <2>2. \A r \in Tasks' : r.startup = "start" /\ r.background = "idle" => r \in SoundTasks'
    BY DEF SoundTasks, InOrder
  <2> HIDE DEF t
  <2>3. t \in SoundTasks'
    BY <2>1, <2>2
  <2> QED BY <2>3 DEF t
<1>5. s \in Tasks' /\ InOrder(s)'
  BY DEF SoundTasks
<1>6. [s EXCEPT !.startup = "done", !.at = 1, !.until = 1] \in SoundTasks'
  <2> DEFINE t == [s EXCEPT !.startup = "done", !.at = 1, !.until = 1]
  <2>1. t \in Tasks' /\ t.startup = "done" /\ t.background = s.background /\ t.minute = s.minute
    BY <1>1, <1>5 DEF Tasks
  <2> HIDE DEF t
  <2>2. t \in SoundTasks'
    BY <2>1, LikeSoundTask
  <2> QED BY <2>2 DEF t
<1>7. [s EXCEPT !.background = "idle", !.minute = 1] \in SoundTasks'
  <2> DEFINE t == [s EXCEPT !.background = "idle", !.minute = 1]
  <2>1. t \in Tasks' /\ t.startup = s.startup /\ t.background = "idle" /\ t.at = s.at
        /\ t.until = s.until
    BY <1>1, <1>5 DEF Tasks
  <2> HIDE DEF t
  <2>2. t \in SoundTasks'
    BY <2>1, LikeSoundTask
  <2> QED BY <2>2 DEF t
<1> QED BY <1>3, <1>4, <1>6, <1>7

\* The minute a scan covered is stored if it was logged in time.
LEMMA ScanStores ==
    ASSUME NEW m, Scanned(m, TRUE), logged' = logged, m \in Timely'
    PROVE  m \in archived'
BY DEF Scanned, Timely, InLog

LEMMA TaskStep ==
    ASSUME SettleInv, SettlementNext
    PROVE  settler' \in [SettlementWorkers -> SoundTasks']
<1>1. /\ settler \in [SettlementWorkers -> SoundTasks] /\ SettlementTypeOK
      /\ [SettlementNext]_settlementVars
      /\ SoundTasks \subseteq SoundTasks' /\ Target \in Nat \ {0} /\ Target' \in Nat \ {0}
      /\ Target <= Target'
  BY OrderStays, ClosedStays DEF SettleInv
<1>2. CASE settler' = settler
  BY <1>1, <1>2
<1>3. ASSUME NEW w \in SettlementWorkers, NEW t \in SoundTasks', settler' = [settler EXCEPT ![w] = t]
      PROVE  settler' \in [SettlementWorkers -> SoundTasks']
  BY <1>1, <1>3, OneTaskSteps
<1>4. ASSUME NEW w \in SettlementWorkers
      PROVE  /\ settler[w] \in SoundTasks /\ settler[w] \in SoundTasks'
             /\ settler[w].at \in 1..Target /\ settler[w].until \in 1..Target
             /\ settler[w].minute \in 1..Target
  BY <1>1, <1>4 DEF SoundTasks, Tasks
<1>5. ASSUME NEW w \in SettlementWorkers, NEW s \in SoundTasks', s = settler[w]
      PROVE  /\ Down \in SoundTasks'
             /\ [Down EXCEPT !.up = TRUE, !.startup = "start", !.background = "idle"] \in SoundTasks'
             /\ StartupDone(w) \in SoundTasks'
             /\ [settler[w] EXCEPT !.background = "idle", !.minute = 1] \in SoundTasks'
  BY <1>1, <1>5, IdleTasks DEF StartupDone
<1>6. ASSUME NEW w \in SettlementWorkers,
             \/ StartWorker(w) \/ StopWorker(w) \/ StartupTimesOut(w)
             \/ BackgroundAdvance(w) \/ BackgroundTimesOut(w)
      PROVE  settler' \in [SettlementWorkers -> SoundTasks']
  <2>1. PICK s \in SoundTasks' : s = settler[w]
    BY <1>4
  <2>2. \/ settler' = [settler EXCEPT ![w] = Down]
        \/ settler' = [settler EXCEPT ![w] =
             [Down EXCEPT !.up = TRUE, !.startup = "start", !.background = "idle"]]
        \/ settler' = [settler EXCEPT ![w] = StartupDone(w)]
        \/ settler' = [settler EXCEPT ![w] = [settler[w] EXCEPT !.background = "idle", !.minute = 1]]
    BY <1>1, <1>6 DEF StartWorker, StopWorker, StartupTimesOut, BackgroundAdvance, BackgroundTimesOut
  <2>3. PICK t \in SoundTasks' : settler' = [settler EXCEPT ![w] = t]
    BY <1>5, <2>1, <2>2
  <2> QED BY <1>3, <2>3
<1>7. ASSUME NEW w \in SettlementWorkers, StartupBegins(w)
      PROVE  settler' \in [SettlementWorkers -> SoundTasks']
  <2>1. PICK s \in SoundTasks' : s = settler[w] /\ s \in SoundTasks
    BY <1>4
  <2>2. CASE ~HasTarget
    BY <1>3, <1>5, <1>7, <2>1, <2>2 DEF StartupBegins
  <2>3. CASE HasTarget
    <3>1. PICK at, until : at = DayStart(Target) /\ until = Target
      OBVIOUS
    <3>2. /\ at \in 1..Target' /\ until \in 1..Target' /\ at < until /\ at \in Int
          /\ EarnedBefore(at)
      BY <1>1, <2>3, <3>1, DayBegins, FirstMinuteIsEarned DEF HasTarget
    <3>3. EarnedBefore(at)'
      BY <1>1, <3>1, <3>2, EarnedStays, StoredStays
    <3> DEFINE t == [s EXCEPT !.startup = "scan", !.at = at, !.until = until]
    <3>4. /\ t \in Tasks' /\ t.startup = "scan" /\ t.at = at /\ t.until = until
          /\ t.background = s.background /\ t.minute = s.minute
      BY <3>2 DEF SoundTasks, Tasks
    <3>5. settler' = [settler EXCEPT ![w] = t]
      BY <1>7, <2>1, <2>3, <3>1 DEF StartupBegins
    <3> HIDE DEF t
    <3>6. t \in SoundTasks'
      <4>1. InOrder(s)'
        BY DEF SoundTasks
      <4>2. PICK minute : minute = s.minute
        OBVIOUS
      <4>3. InOrder(t)'
        BY <3>2, <3>3, <3>4, <4>1, <4>2 DEF InOrder
      <4> QED BY <3>4, <4>3 DEF SoundTasks
    <3> QED BY <1>3, <3>5, <3>6
  <2> QED BY <2>2, <2>3
<1>8. ASSUME NEW w \in SettlementWorkers, StartupScan(w)
      PROVE  settler' \in [SettlementWorkers -> SoundTasks']
  <2>1. PICK s \in SoundTasks' : s = settler[w] /\ s \in SoundTasks
    BY <1>4
  <2>2. PICK complete \in BOOLEAN :
          /\ Scanned(settler[w].at, complete)
          /\ settler' = [settler EXCEPT ![w] =
               IF MayAdvance(complete) THEN [@ EXCEPT !.startup = "advance"] ELSE StartupDone(w)]
    BY <1>8 DEF StartupScan
  <2>3. CASE ~complete
    BY <1>3, <1>5, <2>1, <2>2, <2>3 DEF MayAdvance
  <2>4. CASE complete
    <3> DEFINE t == [s EXCEPT !.startup = "advance"]
    <3>1. PICK at, minute : at = s.at /\ minute = s.minute
      OBVIOUS
    <3>2. at \in Timely' => at \in archived'
      BY <1>8, <2>1, <2>2, <2>4, <3>1, ScanStores DEF StartupScan
    <3>3. /\ t \in Tasks' /\ t.startup = "advance" /\ t.at = at /\ t.until = s.until
          /\ t.background = s.background /\ t.minute = minute
      BY <3>1 DEF SoundTasks, Tasks
    <3>4. settler' = [settler EXCEPT ![w] = t]
      BY <1>1, <2>1, <2>2, <2>4 DEF MayAdvance
    <3> HIDE DEF t
    <3>5. InOrder(s)' /\ s.startup = "scan"
      BY <1>8, <2>1 DEF SoundTasks, StartupScan
    <3>6. InOrder(t)'
      BY <3>1, <3>2, <3>3, <3>5 DEF InOrder
    <3> QED BY <1>3, <3>3, <3>4, <3>6 DEF SoundTasks
  <2> QED BY <2>3, <2>4
<1>9. ASSUME NEW w \in SettlementWorkers, StartupAdvance(w)
      PROVE  settler' \in [SettlementWorkers -> SoundTasks']
  <2>1. PICK s \in SoundTasks' : s = settler[w] /\ s \in SoundTasks
    BY <1>4
  <2>2. CASE ~(s.at + 1 < s.until)
    BY <1>1, <1>3, <1>5, <1>9, <2>1, <2>2 DEF StartupAdvance
  <2>3. CASE s.at + 1 < s.until
    <3>1. PICK at, until, minute : at = s.at /\ until = s.until /\ minute = s.minute
      OBVIOUS
    <3>2. /\ at \in 1..Target /\ until \in 1..Target /\ at + 1 < until
          /\ EarnedBefore(at) /\ (at \in Timely => at \in archived)
      BY <1>4, <1>9, <2>1, <2>3, <3>1 DEF StartupAdvance, SoundTasks, InOrder
    <3>3. EarnedBefore(at + 1)
      BY <1>1, <3>2, NextIsEarned
    <3>4. PICK next : next = at + 1
      OBVIOUS
    <3>5. next \in Int /\ next <= Target /\ EarnedBefore(next)
      BY <1>1, <3>2, <3>3, <3>4
    <3>6. EarnedBefore(next)'
      BY <1>1, <3>5, EarnedStays, StoredStays
    <3> DEFINE t == [s EXCEPT !.at = next, !.startup = "scan"]
    <3>7. /\ t \in Tasks' /\ t.startup = "scan" /\ t.at = next /\ t.until = until
          /\ t.background = s.background /\ t.minute = minute
      <4>1. next \in 1..Target' /\ s \in Tasks'
        BY <1>1, <3>2, <3>4 DEF SoundTasks
      <4> QED BY <3>1, <4>1 DEF Tasks
    <3>8. settler' = [settler EXCEPT ![w] = t]
      <4>1. settler' = [settler EXCEPT ![w] = [settler[w] EXCEPT !.at = settler[w].at + 1,
                                                                !.startup = "scan"]]
        <5>1. settler' = [settler EXCEPT ![w] =
                IF settler[w].at + 1 < settler[w].until
                THEN [settler[w] EXCEPT !.at = settler[w].at + 1, !.startup = "scan"]
                ELSE StartupDone(w)]
          BY <1>9 DEF StartupAdvance
        <5>2. settler[w].at + 1 < settler[w].until
          BY <2>1, <2>3
        <5> QED BY ONLY <5>1, <5>2
      <4> QED BY <2>1, <3>1, <3>4, <4>1
    <3> HIDE DEF t
    <3>9. InOrder(s)' /\ next < until
      BY <3>2, <3>4 DEF SoundTasks
    <3>10. InOrder(t)'
      BY <3>1, <3>6, <3>7, <3>9 DEF InOrder
    <3> QED BY <1>3, <3>7, <3>8, <3>10 DEF SoundTasks
  <2> QED BY <2>2, <2>3
<1>10. ASSUME NEW w \in SettlementWorkers, BackgroundScan(w)
       PROVE  settler' \in [SettlementWorkers -> SoundTasks']
  <2>1. PICK s \in SoundTasks' : s = settler[w] /\ s \in SoundTasks
    BY <1>4
  <2>2. PICK at, minute : at = s.at /\ minute = Unverified
    OBVIOUS
  <2>3. minute \in 1..Target /\ minute < Target /\ EarnedBefore(minute)
    <3>1. CASE verified = 0
      BY <1>1, <1>10, <2>2, <3>1, DayBegins, FirstMinuteIsEarned
         DEF Unverified, BackgroundScan, Pending
    <3>2. CASE verified # 0
      <4>1. minute = verified /\ verified \in 0..Target
        BY <1>1, <2>2, <3>2 DEF Unverified, SettlementTypeOK
      <4>2. EarnedBefore(minute)
        BY <4>1 DEF SettleInv, DayWatermarkIsEarned, EarnedBefore
      <4> QED BY <1>1, <1>10, <2>2, <3>2, <4>1, <4>2 DEF BackgroundScan, Pending
    <3> QED BY <3>1, <3>2
  <2>4. /\ EarnedBefore(minute)'
        /\ minute \in Timely' => minute \in archived'
    <3>1. EarnedBefore(minute)'
      BY <1>1, <2>3, EarnedStays, StoredStays
    <3>2. minute \in Timely' => minute \in archived'
      BY <1>10, <2>2, ScanStores DEF BackgroundScan
    <3> QED BY <3>1, <3>2
  <2> DEFINE t == [s EXCEPT !.background = "advance", !.minute = minute]
  <2>5. /\ t \in Tasks' /\ t.startup = s.startup /\ t.at = at /\ t.until = s.until
        /\ t.background = "advance" /\ t.minute = minute
    <3>1. minute \in 1..Target' /\ s \in Tasks'
      BY <1>1, <2>3 DEF SoundTasks
    <3> QED BY <2>2, <3>1 DEF Tasks
  <2>6. settler' = [settler EXCEPT ![w] = t]
    BY <1>1, <1>10, <2>1, <2>2 DEF BackgroundScan
  <2> HIDE DEF t
  <2>7. InOrder(s)' /\ minute < Target'
    BY <1>1, <2>3 DEF SoundTasks
  <2>8. InOrder(t)'
    BY <2>2, <2>4, <2>5, <2>7 DEF InOrder
  <2> QED BY <1>3, <2>5, <2>6, <2>8 DEF SoundTasks
<1>11. ASSUME NEW w \in SettlementWorkers, BackgroundScanFails(w)
       PROVE  settler' = settler
  BY <1>11 DEF BackgroundScanFails, MayAdvance
<1> QED BY <1>2, <1>6, <1>7, <1>8, <1>9, <1>10, <1>11
        DEF SettlementNext, Tick, LogMinute, LiveArchives

\* Marking an earned minute keeps the watermark earned within its day.
LEMMA AdvanceKeeps ==
    ASSUME SettleInv, SettlementNext, NEW m \in 1..Target, m < Target, Advanced(m),
           EarnedBefore(m), m \in Timely => m \in archived
    PROVE  /\ verified' \in 0..Target' /\ origin' \in 0..verified'
           /\ DayWatermarkIsEarned'
<1>1. /\ SettlementTypeOK /\ [SettlementNext]_settlementVars
      /\ Target \in Nat \ {0} /\ Target' \in Nat \ {0} /\ Target <= Target'
      /\ verified \in 0..Target /\ origin \in 0..verified
  BY ClosedStays DEF SettleInv, SettlementTypeOK
<1>2. verified' \in 0..Target' /\ origin' \in 0..verified'
  BY <1>1 DEF Advanced, LaterOf
<1>3. PICK v : v = verified'
  OBVIOUS
<1>4. v \in Int /\ v <= Target /\ EarnedBefore(v)
  <2>1. CASE verified' = verified
    BY <1>1, <1>3, <2>1 DEF SettleInv, DayWatermarkIsEarned, EarnedBefore
  <2>2. CASE verified' = m + 1
    BY <1>1, <1>3, <2>2, NextIsEarned
  <2> QED BY <2>1, <2>2 DEF Advanced, LaterOf
<1>5. EarnedBefore(v)'
  BY <1>1, <1>4, EarnedStays, StoredStays
<1> QED BY <1>2, <1>3, <1>5 DEF DayWatermarkIsEarned, EarnedBefore, DayStart, DayOf

LEMMA WatermarkStep ==
    ASSUME SettleInv, SettlementNext
    PROVE  /\ verified' \in 0..Target' /\ origin' \in 0..verified'
           /\ DayWatermarkIsEarned'
<1>1. /\ SettlementTypeOK /\ [SettlementNext]_settlementVars
      /\ Target \in Nat \ {0} /\ Target' \in Nat \ {0} /\ Target <= Target'
      /\ verified \in 0..Target /\ origin \in 0..verified
      /\ settler \in [SettlementWorkers -> SoundTasks]
  BY ClosedStays DEF SettleInv, SettlementTypeOK
<1>2. CASE UNCHANGED <<verified, origin>>
  <2>1. PICK v : v = verified
    OBVIOUS
  <2>2. v \in Int /\ v <= Target /\ EarnedBefore(v)
    BY <1>1, <2>1 DEF SettleInv, DayWatermarkIsEarned, EarnedBefore
  <2>3. EarnedBefore(v)'
    BY <1>1, <2>2, EarnedStays, StoredStays
  <2> QED BY <1>1, <1>2, <2>1, <2>3 DEF DayWatermarkIsEarned, EarnedBefore, DayStart, DayOf
<1>3. ASSUME NEW w \in SettlementWorkers, StartupAdvance(w)
      PROVE  \E m \in 1..Target : /\ m < Target /\ Advanced(m) /\ EarnedBefore(m)
                                  /\ m \in Timely => m \in archived
  <2>1. PICK m : m = settler[w].at
    OBVIOUS
  <2>2. settler[w] \in Tasks /\ InOrder(settler[w]) /\ settler[w].startup = "advance"
    BY <1>1, <1>3 DEF SoundTasks, StartupAdvance
  <2>3. m \in 1..Target /\ m < Target
    BY <1>1, <2>1, <2>2 DEF Tasks, InOrder
  <2>4. Advanced(m) /\ EarnedBefore(m) /\ (m \in Timely => m \in archived)
    BY <1>3, <2>1, <2>2 DEF StartupAdvance, Advanced, InOrder
  <2> QED BY <2>3, <2>4
<1>4. ASSUME NEW w \in SettlementWorkers, BackgroundAdvance(w)
      PROVE  \E m \in 1..Target : /\ m < Target /\ Advanced(m) /\ EarnedBefore(m)
                                  /\ m \in Timely => m \in archived
  <2>1. PICK m : m = settler[w].minute
    OBVIOUS
  <2>2. settler[w] \in Tasks /\ InOrder(settler[w]) /\ settler[w].background = "advance"
    BY <1>1, <1>4 DEF SoundTasks, BackgroundAdvance
  <2>3. m \in 1..Target /\ m < Target
    BY <1>1, <2>1, <2>2 DEF Tasks, InOrder
  <2>4. Advanced(m) /\ EarnedBefore(m) /\ (m \in Timely => m \in archived)
    BY <1>4, <2>1, <2>2 DEF BackgroundAdvance, Advanced, InOrder
  <2> QED BY <2>3, <2>4
<1>5. CASE \E w \in SettlementWorkers : StartupAdvance(w) \/ BackgroundAdvance(w)
  BY <1>3, <1>4, <1>5, AdvanceKeeps
<1> QED BY <1>2, <1>5 DEF SettlementNext, Tick, LogMinute, LiveArchives, StartWorker,
        StopWorker, StartupBegins, StartupScan, StartupTimesOut, BackgroundScan,
        BackgroundScanFails, BackgroundTimesOut

LEMMA SettleStepInv ==
    ASSUME SettleInv, [SettlementNext]_settlementVars PROVE SettleInv'
<1>1. CASE SettlementNext
  <2>1. settler' \in [SettlementWorkers -> Tasks']
    BY <1>1, TaskStep DEF SoundTasks
  <2>2. settlementFaults' \in 0..MaxSettlementFaults
    <3>1. \/ settlementFaults' = settlementFaults
          \/ settlementFaults < MaxSettlementFaults /\ settlementFaults' = settlementFaults + 1
      BY <1>1 DEF SettlementNext, Tick, LogMinute, LiveArchives, StartWorker, StopWorker,
         StartupBegins, StartupScan, StartupAdvance, StartupTimesOut, BackgroundScan,
         BackgroundScanFails, BackgroundAdvance, BackgroundTimesOut
    <3> QED BY <3>1, SettlementAssumption DEF SettleInv, SettlementTypeOK
  <2>3. SettlementTypeOK'
    BY <1>1, <2>1, <2>2, ClosedStays, StoredStays, WatermarkStep
       DEF SettleInv, SettlementTypeOK, Tasks
  <2> QED BY <1>1, <2>3, TaskStep, WatermarkStep DEF SettleInv
<1>2. CASE UNCHANGED settlementVars
  BY <1>2 DEF settlementVars, SettleInv, SettlementTypeOK, InLog, Target, DayWatermarkIsEarned,
     Timely, SoundTasks, Tasks, InOrder, EarnedBefore
<1> QED BY <1>1, <1>2

\* The settlement's invariant.
THEOREM SettleInvariant == SettlementSpec => []SettleInv
<1>1. SettlementInit => SettleInv
  <2> SUFFICES ASSUME SettlementInit PROVE SettleInv
    OBVIOUS
  <2>1. Target = 1 /\ now = 1 /\ verified = 0 /\ origin = 0 /\ archived = {}
    BY SettlementAssumption DEF SettlementInit, Target
  <2>2. Down \in Tasks /\ Down.startup = "off" /\ Down.background = "off"
    BY <2>1 DEF Down, Tasks
  <2>3. settler \in [SettlementWorkers -> Tasks] /\ settler \in [SettlementWorkers -> SoundTasks]
    BY <2>2 DEF SettlementInit, SoundTasks, InOrder
  <2>4. logged \in [RequestMinutes -> {"no", "timely", "late"}]
    BY DEF SettlementInit
  <2>5. settlementFaults \in 0..MaxSettlementFaults /\ now \in Minutes
    BY SettlementAssumption DEF SettlementInit, Minutes
  <2>6. SettlementTypeOK
    BY <2>1, <2>3, <2>4, <2>5 DEF SettlementTypeOK, Tasks
  <2>7. DayWatermarkIsEarned
    BY <2>1, SettlementAssumption DEF DayWatermarkIsEarned, Timely
  <2> QED BY <2>3, <2>6, <2>7 DEF SettleInv
<1> QED BY <1>1, SettleStepInv, PTL DEF SettlementSpec

\* The clock, the log, the watermark and the tasks keep their types.
THEOREM SettlementTypeCorrect == SettlementSpec => []SettlementTypeOK
<1>1. SettleInv => SettlementTypeOK
  BY DEF SettleInv
<1> QED BY <1>1, SettleInvariant, PTL

\* Every request of the watermark's day that was logged in time before the
\* watermark is stored, whichever worker and task moved it.
THEOREM DayIsEarned == SettlementSpec => []DayWatermarkIsEarned
<1>1. SettleInv => DayWatermarkIsEarned
  BY DEF SettleInv
<1> QED BY <1>1, SettleInvariant, PTL
=============================================================================

-------------------------- MODULE DashboardProofs --------------------------
(***************************************************************************)
(* Proofs about what is read from the usage warehouse: the administrators' *)
(* dashboard and its drill-down lists, the attempts on their way to the    *)
(* stability dashboard, the plans and savings of the cost ledger; and      *)
(* about the pipeline as it is checked, where each of the components runs  *)
(* by its own specification.                                               *)
(***************************************************************************)
EXTENDS MCUsagePipeline, WarehouseProofs

-----------------------------------------------------------------------------
(* The administrators' dashboard.                                          *)

RebuildRows == [pc : {"idle", "building", "saved", "failing", "ending"},
                data : {"none", "current", "old"}]
ViewerRows == [pc : {"idle", "read", "starting", "marking"},
               rec : PayloadRecords, force : BOOLEAN]

\* The task that is not idle is the one registered.
TaskIsRegistered == \A t \in Refreshes : rebuild[t].pc # "idle" => refreshing = t

\* The lock is held by one request, and no task is registered meanwhile.
MarkerIsAlone ==
  \A v \in Viewers : viewer[v].pc = "marking" =>
    /\ refreshLock = "held" /\ refreshing = NoRefresh
    /\ \A u \in Viewers : viewer[u].pc = "marking" => u = v

\* What a task stores was built.
BuildsAreKept == \A t \in Refreshes : rebuild[t].pc \in {"building", "saved"} =>
                                        rebuild[t].data # "none"

\* The memory holds no payload older than a write whose invalidation has begun.
MemoryForgets == (\A w \in Ledgers : costWriter[w] # "written") /\ ~outrun => memo.data # "old"
TableForgets == (\A w \in Ledgers : costWriter[w] = "idle") /\ ~outrun => saved.data # "old"

DashboardInv == /\ DashboardTypeOK /\ TaskIsRegistered /\ MarkerIsAlone /\ BuildsAreKept
                /\ MemoryForgets /\ TableForgets

LEMMA RecordsAre ==
  /\ NoPayload \in PayloadRecords /\ ~Kept(NoPayload) /\ NoPayload.data = "none"
  /\ \A data \in {"none", "current", "old"} :
       Built(data) \in PayloadRecords /\ Built(data).data = data
  /\ \A rec \in PayloadRecords :
       /\ Outdated(rec) \in PayloadRecords /\ Older(rec) \in PayloadRecords
       /\ Older(rec).data = rec.data /\ (Kept(rec) <=> Kept(Outdated(rec)))
       /\ Kept(rec) <=> rec.data # "none"
       /\ \A error \in BOOLEAN : /\ [rec EXCEPT !.error = error] \in PayloadRecords
                                 /\ [rec EXCEPT !.error = error].data = rec.data
BY DEF NoPayload, PayloadRecords, Kept, Built, Outdated, Older

LEMMA DashboardStart == DashboardInit => DashboardInv
<1> SUFFICES ASSUME DashboardInit PROVE DashboardInv
  OBVIOUS
<1>1. /\ Unasked \in ViewerRows /\ Unasked.pc = "idle"
      /\ Unstarted \in RebuildRows /\ Unstarted.pc = "idle"
  BY RecordsAre DEF Unasked, ViewerRows, Unstarted, RebuildRows
<1>2. viewer \in [Viewers -> ViewerRows] /\ rebuild \in [Refreshes -> RebuildRows]
  BY <1>1 DEF DashboardInit
<1>3. DashboardTypeOK
  <2>1. memo \in PayloadRecords /\ saved \in PayloadRecords
    BY RecordsAre DEF DashboardInit
  <2>2. /\ refreshing = NoRefresh /\ refreshLock = "free" /\ cooling = FALSE /\ outrun = FALSE
        /\ costWriter \in [Ledgers -> {"idle", "written", "forgotten"}]
    BY DEF DashboardInit
  <2>3. costWrites \in 0..MaxCostWrites /\ refreshFaults \in 0..MaxRefreshFaults
    BY DashboardAssumption DEF DashboardInit
  <2> QED BY <1>2, <2>1, <2>2, <2>3 DEF DashboardTypeOK, ViewerRows, RebuildRows
<1>4. TaskIsRegistered /\ MarkerIsAlone /\ BuildsAreKept
  BY <1>1 DEF DashboardInit, TaskIsRegistered, MarkerIsAlone, BuildsAreKept
<1>5. MemoryForgets /\ TableForgets
  BY RecordsAre DEF DashboardInit, MemoryForgets, TableForgets
<1> QED BY <1>3, <1>4, <1>5 DEF DashboardInv

\* A request moves on by itself.
LEMMA ViewerMoves ==
  ASSUME DashboardInv, NEW v \in Viewers, NEW row \in ViewerRows, row.pc # "marking",
         viewer' = [viewer EXCEPT ![v] = row], UNCHANGED <<refreshLock, refreshing>>
  PROVE  viewer' \in [Viewers -> ViewerRows] /\ MarkerIsAlone'
<1>1. viewer \in [Viewers -> ViewerRows]
  BY DEF DashboardInv, DashboardTypeOK, ViewerRows
<1>2. viewer' \in [Viewers -> ViewerRows]
  BY <1>1
<1>3. viewer'[v] = row /\ \A u \in Viewers : u # v => viewer'[u] = viewer[u]
  BY <1>1
<1> QED BY <1>2, <1>3 DEF DashboardInv, MarkerIsAlone

LEMMA ViewerDecides ==
  ASSUME NEW v \in Viewers, NEW rec, NEW force
  PROVE  \E row \in ViewerRows : row.pc # "marking" /\ Decided(v, rec, force) = [viewer EXCEPT ![v] = row]
<1>1. Unasked \in ViewerRows /\ Unasked.pc # "marking"
  BY RecordsAre DEF Unasked, ViewerRows
<1>2. /\ [Unasked EXCEPT !.pc = "starting"] \in ViewerRows
      /\ [Unasked EXCEPT !.pc = "starting"].pc # "marking"
  BY RecordsAre DEF Unasked, ViewerRows
<1> QED BY <1>1, <1>2 DEF Decided

LEMMA RequestStep ==
  ASSUME DashboardInv, NEW v \in Viewers,
         \/ \E force \in BOOLEAN : LookInMemory(v, force) \/ LookInStore(v, force)
         \/ KeepAnswer(v) \/ JoinRefresh(v)
  PROVE  DashboardInv'
<1>0. /\ viewer \in [Viewers -> ViewerRows] /\ memo \in PayloadRecords /\ saved \in PayloadRecords
      /\ outrun \in BOOLEAN
  BY DEF DashboardInv, DashboardTypeOK, ViewerRows
<1>1. UNCHANGED <<saved, refreshing, refreshLock, cooling, rebuild, costWriter, costWrites, refreshFaults>>
  BY DEF LookInMemory, LookInStore, KeepAnswer, JoinRefresh, bounds
<1>2. PICK row \in ViewerRows : row.pc # "marking" /\ viewer' = [viewer EXCEPT ![v] = row]
  <2>1. ASSUME NEW force \in BOOLEAN, LookInMemory(v, force)
        PROVE  \E row \in ViewerRows : row.pc # "marking" /\ viewer' = [viewer EXCEPT ![v] = row]
    BY <2>1, ViewerDecides DEF LookInMemory
  <2>2. ASSUME NEW force \in BOOLEAN, LookInStore(v, force)
        PROVE  \E row \in ViewerRows : row.pc # "marking" /\ viewer' = [viewer EXCEPT ![v] = row]
    BY <2>2, <1>0 DEF LookInStore, ViewerRows
  <2>3. CASE KeepAnswer(v)
    BY <2>3, ViewerDecides DEF KeepAnswer
  <2>4. CASE JoinRefresh(v)
    BY <2>4, RecordsAre DEF JoinRefresh, Unasked, ViewerRows
  <2> QED BY <2>1, <2>2, <2>3, <2>4
<1>3. viewer' \in [Viewers -> ViewerRows] /\ MarkerIsAlone'
  BY <1>1, <1>2, ViewerMoves
<1>4. /\ memo' \in PayloadRecords /\ outrun' \in BOOLEAN /\ (~outrun' => ~outrun)
      /\ memo' = memo \/ (~outrun' => memo'.data # "old")
  <2>1. CASE KeepAnswer(v)
    <3>1. viewer[v].rec \in PayloadRecords
      BY <1>0 DEF ViewerRows
    <3> QED BY <1>0, <2>1, <3>1 DEF KeepAnswer
  <2>2. CASE UNCHANGED <<memo, outrun>>
    BY <1>0, <2>2
  <2> QED BY <2>1, <2>2 DEF LookInMemory, LookInStore, JoinRefresh
<1>5. DashboardTypeOK'
  BY <1>1, <1>3, <1>4 DEF DashboardInv, DashboardTypeOK, ViewerRows
<1>6. TaskIsRegistered' /\ BuildsAreKept'
  BY <1>1 DEF DashboardInv, TaskIsRegistered, BuildsAreKept
<1>7. MemoryForgets' /\ TableForgets'
  BY <1>1, <1>4 DEF DashboardInv, MemoryForgets, TableForgets
<1> QED BY <1>3, <1>5, <1>6, <1>7 DEF DashboardInv

LEMMA MarkStep ==
  ASSUME DashboardInv, NEW v \in Viewers, MarkRefreshing(v)
  PROVE  DashboardInv'
<1>0. viewer \in [Viewers -> ViewerRows] /\ saved \in PayloadRecords
  BY DEF DashboardInv, DashboardTypeOK, ViewerRows
<1>1. /\ refreshLock = "free" /\ refreshing = NoRefresh /\ refreshLock' = "held"
      /\ UNCHANGED <<memo, refreshing, cooling, rebuild, costWriter, outrun, costWrites, refreshFaults>>
  BY DEF MarkRefreshing, LockFree, Joinable, bounds
<1>2. viewer' = [viewer EXCEPT ![v].pc = "marking"]
  BY DEF MarkRefreshing
<1>3. /\ viewer' \in [Viewers -> ViewerRows]
      /\ \A u \in Viewers : u # v => viewer'[u].pc = viewer[u].pc
  BY <1>0, <1>2 DEF ViewerRows
<1>4. saved' \in PayloadRecords /\ saved'.data = saved.data
  BY <1>0, RecordsAre DEF MarkRefreshing
<1>5. DashboardTypeOK'
  BY <1>1, <1>3, <1>4 DEF DashboardInv, DashboardTypeOK, ViewerRows
<1>6. MarkerIsAlone'
  BY <1>1, <1>3 DEF DashboardInv, MarkerIsAlone
<1>7. TaskIsRegistered' /\ BuildsAreKept' /\ MemoryForgets' /\ TableForgets'
  BY <1>1, <1>4 DEF DashboardInv, TaskIsRegistered, BuildsAreKept, MemoryForgets, TableForgets
<1> QED BY <1>5, <1>6, <1>7 DEF DashboardInv

LEMMA LaunchStep ==
  ASSUME DashboardInv, NEW v \in Viewers, NEW t \in Refreshes, LaunchRefresh(v, t)
  PROVE  DashboardInv'
<1>0. viewer \in [Viewers -> ViewerRows] /\ rebuild \in [Refreshes -> RebuildRows]
  BY DEF DashboardInv, DashboardTypeOK, ViewerRows, RebuildRows
<1>1. /\ viewer[v].pc = "marking" /\ refreshing' = t /\ refreshLock' = "free"
      /\ viewer' = [viewer EXCEPT ![v] = Unasked]
      /\ UNCHANGED <<memo, saved, cooling, costWriter, outrun, costWrites, refreshFaults>>
  BY DEF LaunchRefresh, bounds
<1>2. Unasked \in ViewerRows /\ Unasked.pc # "marking"
  BY RecordsAre DEF Unasked, ViewerRows
<1>3. viewer' \in [Viewers -> ViewerRows] /\ \A u \in Viewers : viewer'[u].pc # "marking"
  BY <1>0, <1>1, <1>2 DEF DashboardInv, MarkerIsAlone
<1>4. \A x \in Refreshes : rebuild[x].pc = "idle"
  BY <1>1, DashboardAssumption DEF DashboardInv, MarkerIsAlone, TaskIsRegistered
<1>5. PICK row \in RebuildRows : rebuild' = [rebuild EXCEPT ![t] = row] /\ row.data # "none"
  <2>1. [pc |-> "building", data |-> "current"] \in RebuildRows
    BY DEF RebuildRows
  <2> QED BY <2>1 DEF LaunchRefresh
<1>6. /\ rebuild' \in [Refreshes -> RebuildRows] /\ rebuild'[t].data # "none"
      /\ \A x \in Refreshes : x # t => rebuild'[x].pc = "idle"
  BY <1>0, <1>4, <1>5
<1>7. DashboardTypeOK'
  BY <1>1, <1>3, <1>6 DEF DashboardInv, DashboardTypeOK, ViewerRows, RebuildRows
<1>8. MarkerIsAlone' /\ TaskIsRegistered' /\ BuildsAreKept'
  BY <1>1, <1>3, <1>6 DEF MarkerIsAlone, TaskIsRegistered, BuildsAreKept
<1>9. MemoryForgets' /\ TableForgets'
  BY <1>1 DEF DashboardInv, MemoryForgets, TableForgets
<1> QED BY <1>7, <1>8, <1>9 DEF DashboardInv

LEMMA RebuildStep ==
  ASSUME DashboardInv, NEW t \in Refreshes,
         SaveRefresh(t) \/ PublishRefresh(t) \/ FailRefresh(t) \/ MarkFailed(t)
  PROVE  DashboardInv' /\ (Kept(memo) => Kept(memo'))
<1>0. /\ rebuild \in [Refreshes -> RebuildRows] /\ memo \in PayloadRecords /\ saved \in PayloadRecords
      /\ outrun \in BOOLEAN /\ cooling \in BOOLEAN
      /\ refreshFaults \in 0..MaxRefreshFaults /\ MaxRefreshFaults \in Nat
  BY DashboardAssumption DEF DashboardInv, DashboardTypeOK, RebuildRows
<1>1. UNCHANGED <<refreshing, refreshLock, viewer, costWriter, costWrites>> /\ rebuild[t].pc # "idle"
  BY DEF SaveRefresh, PublishRefresh, FailRefresh, MarkFailed, bounds
<1>2. PICK pc \in {"saved", "failing", "ending"} :
        rebuild' = [rebuild EXCEPT ![t].pc = pc] /\ (pc = "saved" => rebuild[t].pc = "building")
  BY DEF SaveRefresh, PublishRefresh, FailRefresh, MarkFailed
<1>3. /\ rebuild' \in [Refreshes -> RebuildRows]
      /\ rebuild'[t].pc = pc /\ rebuild'[t].data = rebuild[t].data
      /\ \A x \in Refreshes : x # t => rebuild'[x] = rebuild[x]
  BY <1>0, <1>2 DEF RebuildRows
<1>4. /\ memo' \in PayloadRecords /\ saved' \in PayloadRecords
      /\ outrun' \in BOOLEAN /\ cooling' \in BOOLEAN /\ refreshFaults' \in 0..MaxRefreshFaults
      /\ ~outrun' => ~outrun
      /\ memo'.data = memo.data \/ (~outrun' => memo'.data # "old")
      /\ saved'.data = saved.data \/ (~outrun' => saved'.data # "old")
      /\ Kept(memo) => Kept(memo')
  <2>1. rebuild[t].data \in {"none", "current", "old"}
    BY <1>0 DEF RebuildRows
  <2>2. CASE SaveRefresh(t)
    BY <1>0, <2>1, <2>2, RecordsAre DEF SaveRefresh, bounds
  <2>3. CASE PublishRefresh(t)
    <3>1. rebuild[t].data # "none"
      BY <2>3 DEF DashboardInv, BuildsAreKept, PublishRefresh
    <3> QED BY <1>0, <2>1, <2>3, <3>1, RecordsAre DEF PublishRefresh, bounds
  <2>4. CASE FailRefresh(t)
    <3>1. memo' \in PayloadRecords /\ memo'.data = memo.data /\ (Kept(memo) => Kept(memo'))
      BY <1>0, <2>4, RecordsAre DEF FailRefresh, Kept
    <3>2. UNCHANGED <<saved, outrun>> /\ cooling' = TRUE
      BY <2>4 DEF FailRefresh
    <3>3. refreshFaults' \in 0..MaxRefreshFaults
      BY <1>0, <2>4 DEF FailRefresh
    <3> QED BY <1>0, <3>1, <3>2, <3>3
  <2>5. CASE MarkFailed(t)
    BY <1>0, <2>5, RecordsAre DEF MarkFailed, bounds
  <2> QED BY <2>2, <2>3, <2>4, <2>5
<1>5. DashboardTypeOK'
  BY <1>1, <1>3, <1>4 DEF DashboardInv, DashboardTypeOK, RebuildRows
<1>6. TaskIsRegistered' /\ BuildsAreKept' /\ MarkerIsAlone'
  BY <1>1, <1>2, <1>3 DEF DashboardInv, MarkerIsAlone, TaskIsRegistered, BuildsAreKept
<1>7. MemoryForgets' /\ TableForgets'
  BY <1>1, <1>4 DEF DashboardInv, MemoryForgets, TableForgets
<1> QED BY <1>4, <1>5, <1>6, <1>7 DEF DashboardInv

LEMMA EndRefreshStep ==
  ASSUME DashboardInv, NEW t \in Refreshes, EndRefresh(t)
  PROVE  DashboardInv'
<1>0. rebuild \in [Refreshes -> RebuildRows]
  BY DEF DashboardInv, DashboardTypeOK, RebuildRows
<1>1. /\ rebuild[t].pc # "idle" /\ refreshing' = NoRefresh /\ refreshLock = "free"
      /\ rebuild' = [rebuild EXCEPT ![t] = Unstarted]
      /\ UNCHANGED <<memo, saved, refreshLock, cooling, viewer, costWriter, outrun, costWrites, refreshFaults>>
  BY DEF EndRefresh, LockFree, bounds
<1>2. Unstarted \in RebuildRows /\ Unstarted.pc = "idle"
  BY DEF Unstarted, RebuildRows
<1>3. rebuild' \in [Refreshes -> RebuildRows] /\ \A x \in Refreshes : rebuild'[x].pc = "idle"
  BY <1>0, <1>1, <1>2 DEF DashboardInv, TaskIsRegistered
<1>4. DashboardTypeOK'
  BY <1>1, <1>3 DEF DashboardInv, DashboardTypeOK, RebuildRows
<1>5. TaskIsRegistered' /\ BuildsAreKept' /\ MarkerIsAlone'
  BY <1>1, <1>3 DEF DashboardInv, MarkerIsAlone, TaskIsRegistered, BuildsAreKept
<1>6. MemoryForgets' /\ TableForgets'
  BY <1>1 DEF DashboardInv, MemoryForgets, TableForgets
<1> QED BY <1>4, <1>5, <1>6 DEF DashboardInv

LEMMA WriteStep ==
  ASSUME DashboardInv, NEW w \in Ledgers, WriteCost(w)
  PROVE  DashboardInv' /\ (Kept(memo) => Kept(memo'))
<1>0. /\ viewer \in [Viewers -> ViewerRows] /\ rebuild \in [Refreshes -> RebuildRows]
      /\ memo \in PayloadRecords /\ saved \in PayloadRecords
      /\ costWriter \in [Ledgers -> {"idle", "written", "forgotten"}]
      /\ costWrites \in 0..MaxCostWrites /\ MaxCostWrites \in Nat
  BY DashboardAssumption DEF DashboardInv, DashboardTypeOK, ViewerRows, RebuildRows
<1>1. UNCHANGED <<refreshing, refreshLock, cooling, outrun, refreshFaults>>
  BY DEF WriteCost
<1>2. costWriter' \in [Ledgers -> {"idle", "written", "forgotten"}] /\ costWriter'[w] = "written"
  BY <1>0 DEF WriteCost
<1>3. costWrites' \in 0..MaxCostWrites
  BY <1>0 DEF WriteCost
<1>4. memo' \in PayloadRecords /\ saved' \in PayloadRecords /\ (Kept(memo) => Kept(memo'))
  BY <1>0, RecordsAre DEF WriteCost
<1>5. /\ rebuild' \in [Refreshes -> RebuildRows]
      /\ \A t \in Refreshes : /\ rebuild'[t].pc = rebuild[t].pc
                              /\ rebuild'[t].data \in {rebuild[t].data, "old"}
  BY <1>0 DEF WriteCost, RebuildRows
<1>6. /\ viewer' \in [Viewers -> ViewerRows]
      /\ \A v \in Viewers : viewer'[v].pc = viewer[v].pc
  <2>1. viewer' = [v \in Viewers |-> [viewer[v] EXCEPT !.rec = Outdated(viewer[v].rec)]]
    BY DEF WriteCost
  <2>2. \A v \in Viewers : viewer[v].rec \in PayloadRecords /\ Outdated(viewer[v].rec) \in PayloadRecords
    BY <1>0, RecordsAre DEF ViewerRows
  <2> QED BY <1>0, <2>1, <2>2 DEF ViewerRows
<1>7. DashboardTypeOK'
  BY <1>1, <1>2, <1>3, <1>4, <1>5, <1>6 DEF DashboardInv, DashboardTypeOK, RebuildRows, ViewerRows
<1>8. TaskIsRegistered' /\ BuildsAreKept' /\ MarkerIsAlone'
  BY <1>1, <1>5, <1>6 DEF DashboardInv, MarkerIsAlone, TaskIsRegistered, BuildsAreKept
<1>9. MemoryForgets' /\ TableForgets'
  BY <1>2 DEF MemoryForgets, TableForgets
<1> QED BY <1>4, <1>7, <1>8, <1>9 DEF DashboardInv

LEMMA ForgetStep ==
  ASSUME DashboardInv, NEW w \in Ledgers, ForgetMemory(w) \/ ForgetSaved(w)
  PROVE  DashboardInv'
<1>0. costWriter \in [Ledgers -> {"idle", "written", "forgotten"}] /\ memo \in PayloadRecords
      /\ saved \in PayloadRecords
  BY DEF DashboardInv, DashboardTypeOK
<1>1. UNCHANGED <<refreshing, refreshLock, rebuild, viewer, costWrites, refreshFaults>>
  BY DEF ForgetMemory, ForgetSaved, bounds
<1>2. TaskIsRegistered' /\ BuildsAreKept' /\ MarkerIsAlone'
  BY <1>1 DEF DashboardInv, MarkerIsAlone, TaskIsRegistered, BuildsAreKept
<1>3. CASE ForgetMemory(w)
  <2>1. /\ costWriter'[w] = "forgotten" /\ memo' = NoPayload /\ saved' = saved
        /\ costWriter' \in [Ledgers -> {"idle", "written", "forgotten"}]
        /\ cooling' = FALSE /\ outrun' = FALSE
    BY <1>0, <1>3 DEF ForgetMemory
  <2>2. MemoryForgets' /\ TableForgets'
    BY <2>1, RecordsAre DEF MemoryForgets, TableForgets
  <2>3. DashboardTypeOK'
    BY <1>1, <2>1, RecordsAre DEF DashboardInv, DashboardTypeOK
  <2> QED BY <1>2, <2>2, <2>3 DEF DashboardInv
<1>4. CASE ForgetSaved(w)
  <2>1. /\ saved' = NoPayload /\ UNCHANGED <<memo, cooling, outrun>>
        /\ costWriter' \in [Ledgers -> {"idle", "written", "forgotten"}]
        /\ costWriter[w] = "forgotten" /\ \A x \in Ledgers : x # w => costWriter'[x] = costWriter[x]
    BY <1>0, <1>4 DEF ForgetSaved, bounds
  <2>2. MemoryForgets' /\ TableForgets'
    BY <2>1, RecordsAre DEF DashboardInv, MemoryForgets, TableForgets
  <2>3. DashboardTypeOK'
    BY <1>1, <2>1, RecordsAre DEF DashboardInv, DashboardTypeOK
  <2> QED BY <1>2, <2>2, <2>3 DEF DashboardInv
<1> QED BY <1>3, <1>4

LEMMA TimeStep ==
  ASSUME DashboardInv, BoardAges \/ FailureCools
  PROVE  DashboardInv' /\ (Kept(memo) => Kept(memo'))
<1>0. memo \in PayloadRecords /\ saved \in PayloadRecords /\ cooling \in BOOLEAN
  BY DEF DashboardInv, DashboardTypeOK
<1>1. UNCHANGED <<refreshing, refreshLock, rebuild, viewer, costWriter, outrun, costWrites, refreshFaults>>
  BY DEF BoardAges, FailureCools, bounds
<1>2. /\ memo' \in PayloadRecords /\ saved' \in PayloadRecords /\ cooling' \in BOOLEAN
      /\ memo'.data = memo.data /\ saved'.data = saved.data
  <2>1. CASE BoardAges
    <3>1. cooling' = cooling /\ saved' = Older(saved) /\ memo' \in {memo, Older(memo)}
      BY <2>1 DEF BoardAges
    <3> QED BY <1>0, <3>1, RecordsAre
  <2>2. CASE FailureCools
    BY <1>0, <2>2 DEF FailureCools
  <2> QED BY <2>1, <2>2
<1>3. Kept(memo) => Kept(memo')
  BY <1>2 DEF Kept
<1>4. DashboardTypeOK'
  BY <1>1, <1>2 DEF DashboardInv, DashboardTypeOK
<1>5. /\ TaskIsRegistered' /\ BuildsAreKept' /\ MarkerIsAlone' /\ MemoryForgets' /\ TableForgets'
  BY <1>1, <1>2 DEF DashboardInv, MarkerIsAlone, TaskIsRegistered, BuildsAreKept, MemoryForgets,
                    TableForgets
<1> QED BY <1>3, <1>4, <1>5 DEF DashboardInv

LEMMA DashboardRestartStep ==
  ASSUME DashboardInv, DashboardRestart
  PROVE  DashboardInv'
<1>0. /\ refreshFaults \in 0..MaxRefreshFaults /\ MaxRefreshFaults \in Nat /\ saved \in PayloadRecords
      /\ outrun \in BOOLEAN
  BY DashboardAssumption DEF DashboardInv, DashboardTypeOK
<1>1. /\ Unasked \in ViewerRows /\ Unasked.pc = "idle"
      /\ Unstarted \in RebuildRows /\ Unstarted.pc = "idle"
  BY RecordsAre DEF Unasked, ViewerRows, Unstarted, RebuildRows
<1>2. /\ rebuild' \in [Refreshes -> RebuildRows] /\ \A t \in Refreshes : rebuild'[t].pc = "idle"
      /\ viewer' \in [Viewers -> ViewerRows] /\ \A v \in Viewers : viewer'[v].pc = "idle"
  BY <1>1 DEF DashboardRestart
<1>3. /\ refreshFaults' \in 0..MaxRefreshFaults
      /\ costWriter' \in [Ledgers -> {"idle", "written", "forgotten"}]
  BY <1>0 DEF DashboardRestart
<1>4. /\ memo' = NoPayload /\ UNCHANGED <<saved, costWrites>> /\ outrun' \in BOOLEAN
      /\ cooling' = FALSE /\ refreshing' = NoRefresh /\ refreshLock' = "free"
      /\ ~outrun' => ~outrun /\ \A w \in Ledgers : costWriter[w] = "idle"
  BY <1>0 DEF DashboardRestart
<1>5. DashboardTypeOK'
  BY <1>2, <1>3, <1>4, RecordsAre DEF DashboardInv, DashboardTypeOK, ViewerRows, RebuildRows
<1>6. TaskIsRegistered' /\ BuildsAreKept' /\ MarkerIsAlone'
  BY <1>2 DEF MarkerIsAlone, TaskIsRegistered, BuildsAreKept
<1>7. MemoryForgets' /\ TableForgets'
  BY <1>4, RecordsAre DEF DashboardInv, MemoryForgets, TableForgets
<1> QED BY <1>5, <1>6, <1>7 DEF DashboardInv

LEMMA DashboardSteps == DashboardInv /\ [DashboardNext]_dashboardVars => DashboardInv'
<1> SUFFICES ASSUME DashboardInv, [DashboardNext]_dashboardVars PROVE DashboardInv'
  OBVIOUS
<1>1. CASE UNCHANGED dashboardVars
  BY <1>1 DEF dashboardVars, DashboardInv, DashboardTypeOK, MarkerIsAlone, TaskIsRegistered, BuildsAreKept,
              MemoryForgets, TableForgets
<1>2. CASE DashboardNext
  BY <1>2, RequestStep, MarkStep, LaunchStep, RebuildStep, EndRefreshStep, WriteStep, ForgetStep, TimeStep,
     DashboardRestartStep DEF DashboardNext
<1> QED BY <1>1, <1>2

THEOREM DashboardInvariant == DashboardSpec => []DashboardInv
BY DashboardStart, DashboardSteps, PTL DEF DashboardSpec

\* However many requests ask and whatever fails, one task rebuilds the payload, and once
\* the invalidation of a cost write is over nothing built before it is served, unless it
\* was in the air meanwhile.
THEOREM DashboardsSound == DashboardSpec => []DashboardsAreSound
<1>1. DashboardInv => DashboardsAreSound
  <2> SUFFICES ASSUME DashboardInv PROVE OneRefresh /\ InvalidationHolds
    BY DEF DashboardsAreSound
  <2>1. InvalidationHolds
    BY DEF DashboardInv, MemoryForgets, TableForgets, InvalidationHolds
  <2>2. PICK T : T = {t \in Refreshes : rebuild[t].pc # "idle"}
    OBVIOUS
  <2>3. \A x, y \in T : x = y
    BY <2>2 DEF DashboardInv, TaskIsRegistered
  <2>4. Cardinality(T) <= 1
    <3>1. CASE T = {}
      BY <3>1, FS_EmptySet
    <3>2. CASE T # {}
      <4>1. PICK x : x \in T
        BY <3>2
      <4>2. T = {x}
        BY <2>3, <4>1
      <4> QED BY <4>2, FS_Singleton
    <3> QED BY <3>1, <3>2
  <2> QED BY <2>1, <2>2, <2>4 DEF OneRefresh
<1> QED BY <1>1, DashboardInvariant, PTL

THEOREM DashboardTypeCorrect == DashboardSpec => []DashboardTypeOK
<1>1. DashboardInv => DashboardTypeOK
  BY DEF DashboardInv
<1> QED BY <1>1, DashboardInvariant, PTL

\* A refresh that fails takes the last good payload from nobody.
THEOREM GoodPayloadStays == DashboardSpec => LastGoodStays
<1> DEFINE Stays == Kept(memo) /\ ~Kept(memo') =>
              (\E w \in Ledgers : costWriter[w] = "written") \/ refreshFaults' > refreshFaults
<1>1. DashboardInv /\ [DashboardNext]_dashboardVars => [Stays]_dashboardVars
  <2> SUFFICES ASSUME DashboardInv, DashboardNext PROVE Stays
    BY DEF dashboardVars
  <2>0. refreshFaults \in Nat /\ memo \in PayloadRecords
    BY DashboardAssumption DEF DashboardInv, DashboardTypeOK
  <2>1. ASSUME NEW v \in Viewers, KeepAnswer(v) PROVE Stays
    BY <2>1 DEF KeepAnswer
  <2>2. ASSUME NEW v \in Viewers,
               \/ \E force \in BOOLEAN : LookInMemory(v, force) \/ LookInStore(v, force)
               \/ JoinRefresh(v) \/ MarkRefreshing(v) \/ \E t \in Refreshes : LaunchRefresh(v, t)
        PROVE  memo' = memo
    BY <2>2 DEF LookInMemory, LookInStore, JoinRefresh, MarkRefreshing, LaunchRefresh
  <2>3. ASSUME NEW t \in Refreshes, EndRefresh(t) PROVE memo' = memo
    BY <2>3 DEF EndRefresh
  <2>4. ASSUME NEW w \in Ledgers, ForgetMemory(w) \/ ForgetSaved(w) PROVE Stays
    BY <2>4 DEF ForgetMemory, ForgetSaved
  <2>5. CASE DashboardRestart
    BY <2>0, <2>5 DEF DashboardRestart
  <2>6. memo' = memo => Stays
    OBVIOUS
  <2> QED BY <2>1, <2>2, <2>3, <2>4, <2>5, <2>6, RebuildStep, WriteStep, TimeStep DEF DashboardNext
<1> QED BY <1>1, DashboardInvariant, PTL DEF DashboardSpec, LastGoodStays

-----------------------------------------------------------------------------
(* The drill-down lists.                                                   *)

BuildRows == [pc : {"idle", "running", "done", "over"}, data : Answers]
AskerRows == [pc : {"idle", "fetched", "waiting", "sharing"}, data : Answers,
              task : Builds \union {NoBuild}, generation : 0..MaxIngests, late : BOOLEAN]
StoredNow == {i \in Ingests : ingest[i] = "stored"}

\* A request waits for a task that is not let go of, and was not registered later than it.
WaitersHold ==
  \A r \in Askers : asker[r].pc = "waiting" =>
    /\ asker[r].task \in Builds /\ build[asker[r].task].pc # "idle"
    /\ asker[r].generation <= generation

\* An answer that misses attempts is about to be forgotten, or its waiters will not keep it.
OldBuildsAreMarked ==
  /\ building \in Builds /\ build[building].data = "old" => StoredNow # {}
  /\ \A r \in Askers :
       asker[r].pc = "waiting" /\ build[asker[r].task].data = "old"
         /\ asker[r].generation = generation /\ ~asker[r].late => StoredNow # {}

\* What the process keeps is forgotten first, what Redis keeps thereafter.
LocalForgets == StoredNow = {} /\ ~slipped => local # "old"
SharedForgets == (\A i \in Ingests : ingest[i] = "idle") /\ ~slipped => shared # "old"

\* Every ingest moves the generation once at most.
GenerationsCount == IsFiniteSet(StoredNow) /\ generation + Cardinality(StoredNow) <= ingests

DrilldownInv == /\ DrilldownTypeOK /\ WaitersHold /\ OldBuildsAreMarked /\ LocalForgets
                /\ SharedForgets /\ GenerationsCount

LEMMA RestingRows ==
  /\ Waitless \in AskerRows /\ Waitless.pc = "idle" /\ Waitless.data = "none"
  /\ NotBuilding \in BuildRows /\ NotBuilding.pc = "idle" /\ NotBuilding.data = "none"
  /\ \A data \in Answers : AsOld(data) \in Answers
BY DrilldownAssumption DEF Waitless, AskerRows, NotBuilding, BuildRows, Answers, AsOld

LEMMA DrilldownStart == DrilldownInit => DrilldownInv
<1> SUFFICES ASSUME DrilldownInit PROVE DrilldownInv
  OBVIOUS
<1>1. build \in [Builds -> BuildRows] /\ asker \in [Askers -> AskerRows]
  BY RestingRows DEF DrilldownInit
<1>2. ingest \in [Ingests -> {"idle", "stored", "forgotten"}] /\ StoredNow = {}
  BY DEF DrilldownInit, StoredNow
<1>3. DrilldownTypeOK
  <2>1. /\ local = "none" /\ shared = "none" /\ building = NoBuild /\ slipped = FALSE
        /\ generation \in 0..MaxIngests /\ ingests \in 0..MaxIngests
    BY DrilldownAssumption DEF DrilldownInit
  <2>2. local \in Answers /\ shared \in Answers
    BY <2>1 DEF Answers
  <2> QED BY <1>1, <1>2, <2>1, <2>2 DEF DrilldownTypeOK, BuildRows, AskerRows
<1>4. WaitersHold /\ OldBuildsAreMarked
  BY RestingRows, DrilldownAssumption DEF DrilldownInit, WaitersHold, OldBuildsAreMarked
<1>5. LocalForgets /\ SharedForgets
  BY DEF DrilldownInit, LocalForgets, SharedForgets
<1>6. GenerationsCount
  BY <1>2, FS_EmptySet DEF DrilldownInit, GenerationsCount
<1> QED BY <1>3, <1>4, <1>5, <1>6 DEF DrilldownInv

\* One request moves on: to rest, to what Redis said, to share its answer.
LEMMA AskerMoves ==
  ASSUME DrilldownInv, NEW r \in Askers, NEW row \in AskerRows, row.pc # "waiting",
         asker' = [asker EXCEPT ![r] = row], UNCHANGED <<generation, building, ingest, ingests>>,
         build' \in [Builds -> BuildRows],
         \A t \in Builds : \/ build'[t] = build[t]
                           \/ /\ build'[t].data = "none"
                              /\ \A x \in Askers \ {r} : asker[x].pc = "waiting" => asker[x].task # t
  PROVE  /\ asker' \in [Askers -> AskerRows] /\ WaitersHold' /\ OldBuildsAreMarked'
         /\ GenerationsCount' /\ StoredNow' = StoredNow
<1>1. asker \in [Askers -> AskerRows]
  BY DEF DrilldownInv, DrilldownTypeOK, AskerRows
<1>2. /\ asker' \in [Askers -> AskerRows] /\ asker'[r] = row
      /\ \A x \in Askers : x # r => asker'[x] = asker[x]
  BY <1>1
<1>3. StoredNow' = StoredNow
  BY DEF StoredNow
<1>4. GenerationsCount'
  BY <1>3 DEF DrilldownInv, GenerationsCount
<1>5. ASSUME NEW x \in Askers, asker'[x].pc = "waiting"
      PROVE  /\ x # r /\ asker'[x] = asker[x] /\ asker[x].task \in Builds
             /\ build'[asker[x].task] = build[asker[x].task]
             /\ build[asker[x].task].pc # "idle" /\ asker[x].generation <= generation
  <2>1. x # r /\ asker'[x] = asker[x]
    BY <1>2, <1>5
  <2> QED BY <2>1, <1>5 DEF DrilldownInv, WaitersHold
<1>6. WaitersHold'
  BY <1>5 DEF WaitersHold
<1>7. OldBuildsAreMarked'
  BY <1>3, <1>5 DEF DrilldownInv, OldBuildsAreMarked
<1> QED BY <1>2, <1>3, <1>4, <1>6, <1>7

LEMMA FetchStep ==
  ASSUME DrilldownInv, NEW r \in Askers, AskShared(r) \/ KeepShared(r) \/ ShareAnswer(r)
  PROVE  DrilldownInv'
<1>0. /\ asker \in [Askers -> AskerRows] /\ build \in [Builds -> BuildRows]
      /\ local \in Answers /\ shared \in Answers /\ slipped \in BOOLEAN
  BY DEF DrilldownInv, DrilldownTypeOK, AskerRows, BuildRows
<1>1. UNCHANGED <<generation, building, build, ingest, ingests>>
  BY DEF AskShared, KeepShared, ShareAnswer
<1>2. PICK row \in AskerRows : row.pc # "waiting" /\ asker' = [asker EXCEPT ![r] = row]
  <2>1. CASE AskShared(r)
    <3>1. [Waitless EXCEPT !.pc = "fetched", !.data = shared] \in AskerRows
      BY <1>0, RestingRows DEF AskerRows
    <3>2. [Waitless EXCEPT !.pc = "fetched", !.data = shared].pc # "waiting"
      BY DEF Waitless
    <3> QED BY <2>1, <3>1, <3>2 DEF AskShared
  <2>2. CASE KeepShared(r) \/ ShareAnswer(r)
    BY <2>2, RestingRows DEF KeepShared, ShareAnswer
  <2> QED BY <2>1, <2>2
<1>3. /\ asker' \in [Askers -> AskerRows] /\ WaitersHold' /\ OldBuildsAreMarked'
      /\ GenerationsCount' /\ StoredNow' = StoredNow
  BY <1>0, <1>1, <1>2, AskerMoves
<1>4. /\ local' \in Answers /\ shared' \in Answers /\ slipped' \in BOOLEAN
      /\ ~slipped' => ~slipped
      /\ local' = local \/ (~slipped' => local' # "old")
      /\ shared' = shared \/ (~slipped' => shared' # "old")
  <2>1. asker[r].data \in Answers
    BY <1>0 DEF AskerRows
  <2> QED BY <1>0, <2>1 DEF AskShared, KeepShared, ShareAnswer
<1>5. DrilldownTypeOK'
  BY <1>1, <1>3, <1>4 DEF DrilldownInv, DrilldownTypeOK, AskerRows
<1>6. LocalForgets' /\ SharedForgets'
  BY <1>1, <1>3, <1>4 DEF DrilldownInv, LocalForgets, SharedForgets
<1> QED BY <1>3, <1>5, <1>6 DEF DrilldownInv

\* A request starts to wait for a task that runs.
LEMMA WaitStep ==
  ASSUME DrilldownInv, NEW r \in Askers, JoinBuild(r) \/ \E t \in Builds : StartBuild(r, t)
  PROVE  DrilldownInv'
<1>0. /\ asker \in [Askers -> AskerRows] /\ build \in [Builds -> BuildRows]
      /\ generation \in 0..MaxIngests /\ generation \in Nat
  BY DrilldownAssumption DEF DrilldownInv, DrilldownTypeOK, AskerRows, BuildRows
<1>1. UNCHANGED <<local, shared, generation, ingest, slipped, ingests>>
  BY DEF JoinBuild, StartBuild
<1>2. PICK t \in Builds :
        /\ building' = t /\ build'[t].pc = "running"
        /\ asker' = [asker EXCEPT ![r] =
             [Waitless EXCEPT !.pc = "waiting", !.task = t, !.generation = generation]]
        /\ build' \in [Builds -> BuildRows]
        /\ \A x \in Builds : \/ build'[x] = build[x]
                             \/ x = t /\ build'[x].data = "current" /\ build[x].pc = "idle"
        /\ build'[t].data = "old" => StoredNow # {}
  <2>1. CASE JoinBuild(r)
    <3>1. building \in Builds /\ build[building].pc = "running"
      BY <2>1 DEF JoinBuild, Running, DrilldownInv, DrilldownTypeOK
    <3>2. building' = building /\ build' = build
      BY <2>1 DEF JoinBuild
    <3>3. build[building].data = "old" => StoredNow # {}
      BY <3>1 DEF DrilldownInv, OldBuildsAreMarked
    <3>4. asker' = [asker EXCEPT ![r] =
             [Waitless EXCEPT !.pc = "waiting", !.task = building, !.generation = generation]]
      BY <2>1 DEF JoinBuild
    <3> QED BY <1>0, <3>1, <3>2, <3>3, <3>4
  <2>2. ASSUME NEW u \in Builds, StartBuild(r, u)
        PROVE  /\ building' = u /\ build'[u].pc = "running"
               /\ asker' = [asker EXCEPT ![r] =
                    [Waitless EXCEPT !.pc = "waiting", !.task = u, !.generation = generation]]
               /\ build' \in [Builds -> BuildRows]
               /\ \A x \in Builds : \/ build'[x] = build[x]
                                    \/ x = u /\ build'[x].data = "current" /\ build[x].pc = "idle"
               /\ build'[u].data = "old" => StoredNow # {}
    <3>1. PICK row : row = [pc |-> "running", data |-> "current"]
      OBVIOUS
    <3>2. row \in BuildRows /\ row.pc = "running" /\ row.data = "current"
      BY <3>1 DEF BuildRows, Answers
    <3>3. build' = [build EXCEPT ![u] = row] /\ build[u].pc = "idle" /\ building' = u
      BY <2>2, <3>1 DEF StartBuild
    <3>4. build'[u] = row /\ build' \in [Builds -> BuildRows] /\ \A x \in Builds : x # u => build'[x] = build[x]
      BY <1>0, <3>2, <3>3
    <3>5. asker' = [asker EXCEPT ![r] =
                    [Waitless EXCEPT !.pc = "waiting", !.task = u, !.generation = generation]]
      BY <2>2 DEF StartBuild
    <3> QED BY <3>2, <3>3, <3>4, <3>5
  <2> QED BY <2>1, <2>2
<1>3. PICK row : row = [Waitless EXCEPT !.pc = "waiting", !.task = t, !.generation = generation]
  OBVIOUS
<1>4. row \in AskerRows /\ row.pc = "waiting" /\ row.task = t /\ row.generation = generation
  BY <1>0, <1>3, RestingRows DEF AskerRows
<1>5. /\ asker' \in [Askers -> AskerRows] /\ asker'[r] = row
      /\ \A x \in Askers : x # r => asker'[x] = asker[x]
  BY <1>0, <1>2, <1>3, <1>4
<1>6. StoredNow' = StoredNow
  BY <1>1 DEF StoredNow
<1>7. ASSUME NEW x \in Askers, x # r, asker'[x].pc = "waiting"
      PROVE  /\ asker'[x] = asker[x] /\ asker[x].task \in Builds
             /\ build'[asker[x].task] = build[asker[x].task]
             /\ build[asker[x].task].pc # "idle" /\ asker[x].generation <= generation
  <2>1. asker'[x] = asker[x] /\ asker[x].pc = "waiting"
    BY <1>5, <1>7
  <2> QED BY <2>1, <1>2 DEF DrilldownInv, WaitersHold
<1>8. WaitersHold'
  <2>1. ASSUME NEW x \in Askers, asker'[x].pc = "waiting"
        PROVE  /\ asker'[x].task \in Builds /\ build'[asker'[x].task].pc # "idle"
               /\ asker'[x].generation <= generation'
    <3>1. CASE x = r
      BY <1>0, <1>1, <1>2, <1>4, <1>5, <3>1
    <3>2. CASE x # r
      BY <1>1, <1>7, <2>1, <3>2
    <3> QED BY <3>1, <3>2
  <2> QED BY <2>1 DEF WaitersHold
<1>9. OldBuildsAreMarked'
  <2>1. ASSUME NEW x \in Askers, asker'[x].pc = "waiting", build'[asker'[x].task].data = "old",
               asker'[x].generation = generation', ~asker'[x].late
        PROVE  StoredNow # {}
    <3>1. CASE x = r
      BY <1>2, <1>4, <1>5, <2>1, <3>1
    <3>2. CASE x # r
      BY <1>1, <1>7, <2>1, <3>2 DEF DrilldownInv, OldBuildsAreMarked
    <3> QED BY <3>1, <3>2
  <2> QED BY <2>1, <1>2, <1>6 DEF OldBuildsAreMarked
<1>10. DrilldownTypeOK'
  BY <1>1, <1>2, <1>5 DEF DrilldownInv, DrilldownTypeOK, AskerRows, BuildRows
<1>11. LocalForgets' /\ SharedForgets' /\ GenerationsCount'
  BY <1>1, <1>6 DEF DrilldownInv, LocalForgets, SharedForgets, GenerationsCount
<1> QED BY <1>8, <1>9, <1>10, <1>11 DEF DrilldownInv

\* A task comes to its end: it has its answer or none.
LEMMA BuildEnds ==
  ASSUME DrilldownInv, NEW t \in Builds, FinishBuild(t) \/ UnregisterBuild(t)
  PROVE  DrilldownInv'
<1>0. build \in [Builds -> BuildRows]
  BY DEF DrilldownInv, DrilldownTypeOK, BuildRows
<1>1. UNCHANGED <<local, shared, generation, asker, ingest, slipped, ingests>>
  BY DEF FinishBuild, UnregisterBuild
<1>2. PICK row \in BuildRows : /\ build' = [build EXCEPT ![t] = row]
                               /\ row.pc # "idle" /\ row.data \in {build[t].data, "none"}
  <2>1. CASE FinishBuild(t)
    <3>1. PICK data \in {build[t].data, "none"} : build' = [build EXCEPT ![t] = [pc |-> "done", data |-> data]]
      BY <2>1 DEF FinishBuild
    <3>2. [pc |-> "done", data |-> data] \in BuildRows
      BY <1>0 DEF BuildRows, Answers
    <3> QED BY <3>1, <3>2
  <2>2. CASE UnregisterBuild(t)
    <3>1. PICK row : row = [build[t] EXCEPT !.pc = "over"]
      OBVIOUS
    <3>2. row \in BuildRows /\ row.pc = "over" /\ row.data = build[t].data
      BY <1>0, <3>1 DEF BuildRows
    <3>3. build' = [build EXCEPT ![t] = row]
      BY <2>2, <3>1 DEF UnregisterBuild
    <3> QED BY <3>2, <3>3
  <2> QED BY <2>1, <2>2
<1>3. building' \in {building, NoBuild}
  BY DEF FinishBuild, UnregisterBuild
<1>4. /\ build' \in [Builds -> BuildRows] /\ build'[t] = row
      /\ \A x \in Builds : x # t => build'[x] = build[x]
  BY <1>0, <1>2
<1>5. StoredNow' = StoredNow
  BY <1>1 DEF StoredNow
<1>6. \A x \in Builds : /\ build'[x].data = "old" => build[x].data = "old"
                        /\ build[x].pc # "idle" => build'[x].pc # "idle"
  BY <1>2, <1>4
<1>7. DrilldownTypeOK'
  BY <1>1, <1>3, <1>4 DEF DrilldownInv, DrilldownTypeOK, BuildRows
<1>8. WaitersHold'
  BY <1>1, <1>6 DEF DrilldownInv, WaitersHold
<1>9. OldBuildsAreMarked'
  <2>1. building' \in Builds /\ build'[building'].data = "old" => StoredNow # {}
    BY <1>3, <1>6, DrilldownAssumption DEF DrilldownInv, OldBuildsAreMarked
  <2>2. ASSUME NEW x \in Askers, asker[x].pc = "waiting", build'[asker[x].task].data = "old",
               asker[x].generation = generation, ~asker[x].late
        PROVE  StoredNow # {}
    <3>1. asker[x].task \in Builds
      BY <2>2 DEF DrilldownInv, WaitersHold
    <3> QED BY <1>6, <2>2, <3>1 DEF DrilldownInv, OldBuildsAreMarked
  <2> QED BY <1>1, <1>5, <2>1, <2>2 DEF OldBuildsAreMarked
<1>10. LocalForgets' /\ SharedForgets' /\ GenerationsCount'
  BY <1>1, <1>5 DEF DrilldownInv, LocalForgets, SharedForgets, GenerationsCount
<1> QED BY <1>7, <1>8, <1>9, <1>10 DEF DrilldownInv

LEMMA TakeStep ==
  ASSUME DrilldownInv, NEW r \in Askers, TakeAnswer(r)
  PROVE  DrilldownInv'
<1>0. /\ asker \in [Askers -> AskerRows] /\ build \in [Builds -> BuildRows]
      /\ local \in Answers /\ slipped \in BOOLEAN
  BY DEF DrilldownInv, DrilldownTypeOK, AskerRows, BuildRows
<1>1. /\ UNCHANGED <<shared, generation, building, ingest, ingests>>
      /\ asker[r].pc = "waiting" /\ build' = LetGo(r, asker[r].task)
  BY DEF TakeAnswer
<1>2. PICK t : t = asker[r].task /\ t \in Builds
  BY <1>1 DEF DrilldownInv, WaitersHold
<1>3. build[t].data \in Answers
  BY <1>0, <1>2 DEF BuildRows
<1>4. PICK row \in AskerRows : row.pc # "waiting" /\ asker' = [asker EXCEPT ![r] = row]
  <2>1. PICK row2 : row2 = [Waitless EXCEPT !.pc = "sharing", !.data = build[t].data]
    OBVIOUS
  <2>2. row2 \in AskerRows /\ row2.pc = "sharing"
    BY <1>3, <2>1, RestingRows DEF AskerRows
  <2>3. asker' = [asker EXCEPT ![r] = row2] \/ asker' = [asker EXCEPT ![r] = Waitless]
    BY <1>2, <2>1 DEF TakeAnswer
  <2> QED BY <2>2, <2>3, RestingRows
<1>5. /\ build' \in [Builds -> BuildRows]
      /\ \A x \in Builds : \/ build'[x] = build[x]
                           \/ /\ build'[x].data = "none"
                              /\ \A y \in Askers \ {r} : asker[y].pc = "waiting" => asker[y].task # x
  <2>1. CASE AwaitedBy(t) = {r}
    <3>1. build' = [build EXCEPT ![t] = NotBuilding]
      BY <1>1, <1>2, <2>1 DEF LetGo
    <3>2. /\ build' \in [Builds -> BuildRows] /\ build'[t].data = "none"
          /\ \A x \in Builds : x # t => build'[x] = build[x]
      <4>1. PICK rest \in BuildRows : rest = NotBuilding /\ rest.data = "none"
        BY RestingRows
      <4> QED BY <1>0, <1>2, <3>1, <4>1
    <3>3. \A y \in Askers \ {r} : asker[y].pc = "waiting" => asker[y].task # t
      BY <2>1 DEF AwaitedBy
    <3> QED BY <3>2, <3>3
  <2>2. CASE AwaitedBy(t) # {r}
    BY <1>0, <1>1, <1>2, <2>2 DEF LetGo
  <2> QED BY <2>1, <2>2
<1>6. /\ asker' \in [Askers -> AskerRows] /\ WaitersHold' /\ OldBuildsAreMarked'
      /\ GenerationsCount' /\ StoredNow' = StoredNow
  BY <1>0, <1>1, <1>4, <1>5, AskerMoves
<1>7. /\ local' \in Answers /\ slipped' \in BOOLEAN /\ (~slipped' => ~slipped)
      /\ local' = local \/ (~slipped' /\ StoredNow = {} => local' # "old")
  <2>1. asker[r].late \in BOOLEAN
    BY <1>0 DEF AskerRows
  <2>2. CASE UNCHANGED <<local, slipped>>
    BY <1>0, <2>2
  <2>3. CASE /\ asker[r].generation = generation /\ local' = build[t].data
             /\ slipped' = (slipped \/ (asker[r].late /\ build[t].data = "old"))
    <3>1. build[t].data = "old" /\ ~asker[r].late => StoredNow # {}
      BY <1>1, <1>2, <2>3 DEF DrilldownInv, OldBuildsAreMarked
    <3> QED BY <1>0, <1>3, <2>1, <2>3, <3>1
  <2> QED BY <1>2, <2>2, <2>3 DEF TakeAnswer
<1>8. DrilldownTypeOK'
  BY <1>1, <1>5, <1>6, <1>7 DEF DrilldownInv, DrilldownTypeOK, AskerRows, BuildRows
<1>9. LocalForgets'
  BY <1>6, <1>7 DEF DrilldownInv, LocalForgets
<1>10. SharedForgets'
  BY <1>1, <1>7 DEF DrilldownInv, SharedForgets
<1> QED BY <1>6, <1>8, <1>9, <1>10 DEF DrilldownInv

LEMMA ExpireStep ==
  ASSUME DrilldownInv, AnswersExpire
  PROVE  DrilldownInv'
<1>1. /\ UNCHANGED <<generation, building, build, asker, ingest, slipped, ingests>>
      /\ local' = "none" /\ shared' \in {"none", shared}
  BY DEF AnswersExpire
<1>2. StoredNow' = StoredNow
  BY <1>1 DEF StoredNow
<1>3. DrilldownTypeOK'
  BY <1>1 DEF DrilldownInv, DrilldownTypeOK, Answers
<1>4. WaitersHold' /\ OldBuildsAreMarked' /\ GenerationsCount'
  BY <1>1, <1>2 DEF DrilldownInv, WaitersHold, OldBuildsAreMarked, GenerationsCount
<1>5. LocalForgets' /\ SharedForgets'
  BY <1>1 DEF DrilldownInv, LocalForgets, SharedForgets
<1> QED BY <1>3, <1>4, <1>5 DEF DrilldownInv

LEMMA StoreStep ==
  ASSUME DrilldownInv, NEW i \in Ingests, StoreAttempts(i)
  PROVE  DrilldownInv'
<1>0. /\ asker \in [Askers -> AskerRows] /\ build \in [Builds -> BuildRows]
      /\ local \in Answers /\ shared \in Answers /\ ingests \in 0..MaxIngests /\ MaxIngests \in Nat
      /\ ingest \in [Ingests -> {"idle", "stored", "forgotten"}] /\ generation \in Nat
  BY DrilldownAssumption DEF DrilldownInv, DrilldownTypeOK, AskerRows, BuildRows
<1>1. UNCHANGED <<generation, building, slipped>> /\ ingest[i] = "idle"
  BY DEF StoreAttempts
<1>2. ingests' \in 0..MaxIngests /\ ingests' = ingests + 1
  BY <1>0 DEF StoreAttempts
<1>3. ingest' \in [Ingests -> {"idle", "stored", "forgotten"}] /\ ingest'[i] = "stored"
      /\ \A x \in Ingests : x # i => ingest'[x] = ingest[x]
  BY <1>0 DEF StoreAttempts
<1>4. local' \in Answers /\ shared' \in Answers
  BY <1>0, RestingRows DEF StoreAttempts
<1>5. /\ build' \in [Builds -> BuildRows]
      /\ \A t \in Builds : build'[t].pc = build[t].pc
  <2>1. build' = [t \in Builds |-> [build[t] EXCEPT !.data = AsOld(build[t].data)]]
    BY DEF StoreAttempts
  <2>2. \A t \in Builds : AsOld(build[t].data) \in Answers
    BY <1>0, RestingRows DEF BuildRows
  <2> QED BY <1>0, <2>1, <2>2 DEF BuildRows
<1>6. /\ asker' \in [Askers -> AskerRows]
      /\ \A r \in Askers : /\ asker'[r].pc = asker[r].pc /\ asker'[r].task = asker[r].task
                           /\ asker'[r].generation = asker[r].generation
  <2>1. asker' = [r \in Askers |-> [asker[r] EXCEPT !.data = AsOld(asker[r].data)]]
    BY DEF StoreAttempts
  <2>2. \A r \in Askers : AsOld(asker[r].data) \in Answers
    BY <1>0, RestingRows DEF AskerRows
  <2> QED BY <1>0, <2>1, <2>2 DEF AskerRows
<1>7. StoredNow' # {}
  BY <1>3 DEF StoredNow
<1>8. GenerationsCount'
  <2>1. PICK S, T : S = StoredNow /\ T = StoredNow'
    OBVIOUS
  <2>2. T = S \union {i} /\ i \notin S
    BY <1>1, <1>3, <2>1 DEF StoredNow
  <2>3. IsFiniteSet(S)
    BY <2>1 DEF DrilldownInv, GenerationsCount
  <2>4. IsFiniteSet(T) /\ Cardinality(T) = Cardinality(S) + 1
    BY <2>2, <2>3, FS_AddElement
  <2>5. PICK n \in Nat : n = Cardinality(S)
    BY <2>3, FS_CardinalityType
  <2>6. generation + n <= ingests
    BY <2>1, <2>5 DEF DrilldownInv, GenerationsCount
  <2>7. generation + Cardinality(T) <= ingests'
    BY <1>0, <1>2, <2>4, <2>5, <2>6
  <2> QED BY <1>1, <2>1, <2>4, <2>7 DEF GenerationsCount
<1>9. DrilldownTypeOK'
  BY <1>1, <1>2, <1>3, <1>4, <1>5, <1>6 DEF DrilldownInv, DrilldownTypeOK, AskerRows, BuildRows
<1>10. WaitersHold'
  <2>1. ASSUME NEW x \in Askers, asker'[x].pc = "waiting"
        PROVE  /\ asker'[x].task \in Builds /\ build'[asker'[x].task].pc # "idle"
               /\ asker'[x].generation <= generation'
    BY <1>1, <1>5, <1>6, <2>1 DEF DrilldownInv, WaitersHold
  <2> QED BY <2>1 DEF WaitersHold
<1>11. OldBuildsAreMarked' /\ LocalForgets'
  BY <1>7 DEF OldBuildsAreMarked, LocalForgets
<1>12. SharedForgets'
  BY <1>3 DEF SharedForgets
<1> QED BY <1>8, <1>9, <1>10, <1>11, <1>12 DEF DrilldownInv

LEMMA ForgetLocalStep ==
  ASSUME DrilldownInv, NEW i \in Ingests, ForgetLocal(i)
  PROVE  DrilldownInv'
<1>0. /\ asker \in [Askers -> AskerRows] /\ ingests \in 0..MaxIngests /\ MaxIngests \in Nat
      /\ ingest \in [Ingests -> {"idle", "stored", "forgotten"}] /\ generation \in 0..MaxIngests
      /\ generation \in Nat /\ ingests \in Nat
  BY DrilldownAssumption DEF DrilldownInv, DrilldownTypeOK, AskerRows
<1>1. /\ UNCHANGED <<shared, build, ingests>> /\ ingest[i] = "stored"
      /\ local' = "none" /\ slipped' = FALSE /\ building' = NoBuild
  BY DEF ForgetLocal
<1>2. /\ ingest' \in [Ingests -> {"idle", "stored", "forgotten"}] /\ ingest'[i] = "forgotten"
      /\ \A x \in Ingests : x # i => ingest'[x] = ingest[x]
  BY <1>0 DEF ForgetLocal
<1>3. /\ building = NoBuild => generation' = generation
      /\ building # NoBuild => generation' = generation + 1
  BY DEF ForgetLocal
<1>4. /\ asker' \in [Askers -> AskerRows]
      /\ \A r \in Askers : /\ asker'[r].pc = asker[r].pc /\ asker'[r].task = asker[r].task
                           /\ asker'[r].generation = asker[r].generation
                           /\ asker[r].pc = "waiting" /\ asker[r].task # building => asker'[r].late
  <2>1. asker' = [r \in Askers |-> IF asker[r].pc = "waiting" /\ asker[r].task # building
                                   THEN [asker[r] EXCEPT !.late = TRUE] ELSE asker[r]]
    BY DEF ForgetLocal, Overlooked
  <2> QED BY <1>0, <2>1 DEF AskerRows
<1>5. GenerationsCount' /\ generation' \in 0..MaxIngests
  <2>1. PICK S, T : S = StoredNow /\ T = StoredNow'
    OBVIOUS
  <2>2. T = S \ {i} /\ i \in S
    BY <1>1, <1>2, <2>1 DEF StoredNow
  <2>3. IsFiniteSet(S)
    BY <2>1 DEF DrilldownInv, GenerationsCount
  <2>4. IsFiniteSet(T) /\ Cardinality(T) = Cardinality(S) - 1
    BY <2>2, <2>3, FS_RemoveElement
  <2>5. PICK n \in Nat, m \in Nat : n = Cardinality(S) /\ m = Cardinality(T)
    BY <2>3, <2>4, FS_CardinalityType
  <2>6. generation + n <= ingests /\ m = n - 1
    BY <2>1, <2>4, <2>5 DEF DrilldownInv, GenerationsCount
  <2>7. generation' + m <= ingests /\ generation' \in Nat
    BY <1>0, <1>3, <2>5, <2>6
  <2>8. generation' \in 0..MaxIngests
    BY <1>0, <2>5, <2>7
  <2> QED BY <1>1, <2>1, <2>4, <2>5, <2>7, <2>8 DEF GenerationsCount
<1>6. DrilldownTypeOK'
  BY <1>1, <1>2, <1>4, <1>5 DEF DrilldownInv, DrilldownTypeOK, AskerRows, Answers
<1>7. ASSUME NEW r \in Askers, asker'[r].pc = "waiting"
      PROVE  /\ asker'[r].task \in Builds /\ build'[asker'[r].task].pc # "idle"
             /\ asker'[r].generation <= generation'
             /\ asker'[r].generation = generation' => asker'[r].late
  <2>1. /\ asker[r].pc = "waiting" /\ asker[r].task \in Builds /\ build[asker[r].task].pc # "idle"
        /\ asker[r].generation <= generation
    BY <1>4, <1>7 DEF DrilldownInv, WaitersHold
  <2>2. asker[r].generation \in Nat
    BY <1>0 DEF AskerRows
  <2>3. asker'[r].generation <= generation' /\ (building # NoBuild => asker'[r].generation # generation')
    BY <1>0, <1>3, <1>4, <2>1, <2>2
  <2>4. building = NoBuild => asker'[r].late
    BY <1>4, <2>1, DrilldownAssumption
  <2> QED BY <1>1, <1>4, <2>1, <2>3, <2>4
<1>8. WaitersHold'
  BY <1>7 DEF WaitersHold
<1>9. OldBuildsAreMarked'
  BY <1>1, <1>7, DrilldownAssumption DEF OldBuildsAreMarked
<1>10. LocalForgets' /\ SharedForgets'
  BY <1>1, <1>2 DEF LocalForgets, SharedForgets
<1> QED BY <1>5, <1>6, <1>8, <1>9, <1>10 DEF DrilldownInv

LEMMA ForgetSharedStep ==
  ASSUME DrilldownInv, NEW i \in Ingests, ForgetShared(i)
  PROVE  DrilldownInv'
<1>0. /\ ingest \in [Ingests -> {"idle", "stored", "forgotten"}] /\ shared \in Answers
      /\ slipped \in BOOLEAN
  BY DEF DrilldownInv, DrilldownTypeOK
<1>1. UNCHANGED <<local, generation, building, build, asker, ingests>> /\ ingest[i] = "forgotten"
  BY DEF ForgetShared
<1>2. /\ ingest' \in [Ingests -> {"idle", "stored", "forgotten"}] /\ ingest'[i] = "idle"
      /\ \A x \in Ingests : x # i => ingest'[x] = ingest[x]
  BY <1>0 DEF ForgetShared
<1>3. /\ shared' \in Answers /\ slipped' \in BOOLEAN /\ (~slipped' => ~slipped)
      /\ ~slipped' => shared' # "old"
  BY <1>0 DEF ForgetShared, Answers
<1>4. StoredNow' = StoredNow
  BY <1>1, <1>2 DEF StoredNow
<1>5. DrilldownTypeOK'
  BY <1>1, <1>2, <1>3 DEF DrilldownInv, DrilldownTypeOK
<1>6. WaitersHold' /\ OldBuildsAreMarked' /\ GenerationsCount'
  BY <1>1, <1>4 DEF DrilldownInv, WaitersHold, OldBuildsAreMarked, GenerationsCount
<1>7. LocalForgets' /\ SharedForgets'
  BY <1>1, <1>3, <1>4 DEF DrilldownInv, LocalForgets, SharedForgets
<1> QED BY <1>5, <1>6, <1>7 DEF DrilldownInv

LEMMA DrilldownRestartStep ==
  ASSUME DrilldownInv, DrilldownRestart
  PROVE  DrilldownInv'
<1>0. /\ slipped \in BOOLEAN /\ ingests \in Nat
  BY DrilldownAssumption DEF DrilldownInv, DrilldownTypeOK
<1>1. /\ UNCHANGED <<shared, ingests>> /\ local' = "none" /\ generation' = 0 /\ building' = NoBuild
      /\ slipped' \in BOOLEAN
      /\ ~slipped' => ~slipped /\ \A i \in Ingests : ingest[i] = "idle"
  BY <1>0 DEF DrilldownRestart
<1>2. /\ build' \in [Builds -> BuildRows] /\ asker' \in [Askers -> AskerRows]
      /\ \A r \in Askers : asker'[r].pc = "idle"
  BY RestingRows DEF DrilldownRestart
<1>3. ingest' \in [Ingests -> {"idle", "stored", "forgotten"}] /\ \A i \in Ingests : ingest'[i] = "idle"
  BY DEF DrilldownRestart
<1>4. StoredNow' = {}
  BY <1>3 DEF StoredNow
<1>5. DrilldownTypeOK'
  BY <1>1, <1>2, <1>3, DrilldownAssumption DEF DrilldownInv, DrilldownTypeOK, AskerRows, BuildRows, Answers
<1>6. WaitersHold' /\ OldBuildsAreMarked'
  BY <1>1, <1>2, DrilldownAssumption DEF WaitersHold, OldBuildsAreMarked
<1>7. LocalForgets' /\ SharedForgets'
  BY <1>1 DEF DrilldownInv, LocalForgets, SharedForgets
<1>8. GenerationsCount'
  BY <1>0, <1>1, <1>4, FS_EmptySet DEF GenerationsCount
<1> QED BY <1>5, <1>6, <1>7, <1>8 DEF DrilldownInv

LEMMA DrilldownSteps == DrilldownInv /\ [DrilldownNext]_drilldownVars => DrilldownInv'
<1> SUFFICES ASSUME DrilldownInv, [DrilldownNext]_drilldownVars PROVE DrilldownInv'
  OBVIOUS
<1>1. CASE UNCHANGED drilldownVars
  BY <1>1 DEF drilldownVars, DrilldownInv, DrilldownTypeOK, WaitersHold, OldBuildsAreMarked, LocalForgets,
              SharedForgets, GenerationsCount, StoredNow
<1>2. CASE DrilldownNext
  BY <1>2, FetchStep, WaitStep, TakeStep, BuildEnds, ExpireStep, StoreStep, ForgetLocalStep, ForgetSharedStep,
     DrilldownRestartStep DEF DrilldownNext
<1> QED BY <1>1, <1>2

THEOREM DrilldownInvariant == DrilldownSpec => []DrilldownInv
BY DrilldownStart, DrilldownSteps, PTL DEF DrilldownSpec

\* What is kept after an ingest shows what it stored: the generation keeps out what was
\* being built meanwhile, in the process and in Redis.
THEOREM AnswersStayCurrent == DrilldownSpec => []AnswersAreCurrent
<1>1. DrilldownInv => AnswersAreCurrent
  <2> SUFFICES ASSUME DrilldownInv, \A i \in Ingests : ingest[i] = "idle", ~slipped
               PROVE  local # "old" /\ shared # "old"
    BY DEF AnswersAreCurrent
  <2>1. StoredNow = {}
    BY DEF StoredNow
  <2> QED BY <2>1 DEF DrilldownInv, LocalForgets, SharedForgets
<1> QED BY <1>1, DrilldownInvariant, PTL

THEOREM DrilldownTypeCorrect == DrilldownSpec => []DrilldownTypeOK
<1>1. DrilldownInv => DrilldownTypeOK
  BY DEF DrilldownInv
<1> QED BY <1>1, DrilldownInvariant, PTL

-----------------------------------------------------------------------------
(* The attempts on their way to the stability dashboard.                   *)

Elements(s) == {s[n] : n \in DOMAIN s}
Distinct(s) == \A m, n \in DOMAIN s : s[m] = s[n] => m = n

LEMMA AppendElements ==
  ASSUME NEW R, NEW s \in Seq(R), NEW x \in R
  PROVE  /\ Append(s, x) \in Seq(R) /\ Len(Append(s, x)) = Len(s) + 1
         /\ Elements(Append(s, x)) = Elements(s) \union {x}
         /\ Distinct(s) /\ x \notin Elements(s) => Distinct(Append(s, x))
<1>1. PICK t : t = Append(s, x)
  OBVIOUS
<1>2. PICK n \in Nat : n = Len(s) /\ DOMAIN s = 1..n
  BY LenProperties
<1>3. /\ t \in Seq(R) /\ Len(t) = n + 1 /\ t[n + 1] = x
      /\ \A i \in 1..n : t[i] = s[i]
  BY <1>1, <1>2, AppendProperties
<1>4. DOMAIN t = 1..(n + 1)
  BY <1>3, LenProperties
<1>5. \A i \in 1..(n + 1) : i \in 1..n \/ i = n + 1
  OBVIOUS
<1>6. Elements(t) = Elements(s) \union {x}
  <2>1. ASSUME NEW y \in Elements(t) PROVE y \in Elements(s) \union {x}
    <3>1. PICK i \in 1..(n + 1) : y = t[i]
      BY <1>4, <2>1 DEF Elements
    <3> QED BY <1>2, <1>3, <1>5, <3>1 DEF Elements
  <2>2. ASSUME NEW y \in Elements(s) PROVE y \in Elements(t)
    <3>1. PICK i \in 1..n : y = s[i]
      BY <1>2, <2>2 DEF Elements
    <3>2. i \in 1..(n + 1)
      OBVIOUS
    <3> QED BY <1>3, <1>4, <3>1, <3>2 DEF Elements
  <2>3. x \in Elements(t)
    <3>1. n + 1 \in 1..(n + 1)
      OBVIOUS
    <3> QED BY <1>3, <1>4, <3>1 DEF Elements
  <2> QED BY <2>1, <2>2, <2>3
<1>7. ASSUME Distinct(s), x \notin Elements(s) PROVE Distinct(t)
  <2>1. \A i \in 1..n : t[i] # x
    BY <1>2, <1>3, <1>7 DEF Elements
  <2>2. \A i, j \in 1..n : t[i] = t[j] => i = j
    BY <1>2, <1>3, <1>7 DEF Distinct
  <2> QED BY <1>3, <1>4, <1>5, <2>1, <2>2 DEF Distinct
<1> QED BY <1>1, <1>2, <1>3, <1>6, <1>7

LEMMA SplitElements ==
  ASSUME NEW R, NEW s \in Seq(R), NEW n \in 0..Len(s), Distinct(s)
  PROVE  /\ SubSeq(s, 1, n) \in Seq(R) /\ Len(SubSeq(s, 1, n)) = n
         /\ SubSeq(s, n + 1, Len(s)) \in Seq(R) /\ Len(SubSeq(s, n + 1, Len(s))) = Len(s) - n
         /\ Distinct(SubSeq(s, 1, n)) /\ Distinct(SubSeq(s, n + 1, Len(s)))
         /\ Elements(s) = Elements(SubSeq(s, 1, n)) \union Elements(SubSeq(s, n + 1, Len(s)))
         /\ \A r \in Elements(SubSeq(s, 1, n)) : r \notin Elements(SubSeq(s, n + 1, Len(s)))
<1>1. PICK k \in Nat : k = Len(s) /\ DOMAIN s = 1..k
  BY LenProperties
<1>2. PICK a, b : a = SubSeq(s, 1, n) /\ b = SubSeq(s, n + 1, k)
  OBVIOUS
<1>3. n \in Nat /\ n <= k /\ n \in Int /\ 1 \in Int /\ n + 1 \in Int /\ k \in Int
  BY <1>1
<1>4. \A i \in 1..k : s[i] \in R
  BY <1>1, ElementOfSeq
<1>5. a \in Seq(R) /\ Len(a) = n /\ \A i \in 1..n : a[i] = s[i]
  <2>1. \A i \in 1..n : s[i] \in R
    BY <1>3, <1>4
  <2>2. /\ a \in Seq(R) /\ Len(a) = (IF 1 <= n THEN n - 1 + 1 ELSE 0)
        /\ \A i \in 1..(n - 1 + 1) : a[i] = s[1 + i - 1]
    BY <1>2, <1>3, <2>1, SubSeqProperties
  <2> QED BY <1>3, <2>2
<1>6. b \in Seq(R) /\ Len(b) = k - n /\ \A i \in 1..(k - n) : b[i] = s[n + i]
  <2>1. \A i \in (n + 1)..k : s[i] \in R
    BY <1>3, <1>4
  <2>2. /\ b \in Seq(R) /\ Len(b) = (IF n + 1 <= k THEN k - (n + 1) + 1 ELSE 0)
        /\ \A i \in 1..(k - (n + 1) + 1) : b[i] = s[n + 1 + i - 1]
    BY <1>2, <1>3, <2>1, SubSeqProperties
  <2>3. PICK d \in Int : d = k - n /\ 0 <= d /\ k - (n + 1) + 1 = d
    BY <1>3
  <2>4. Len(b) = d
    BY <1>3, <2>2, <2>3
  <2>5. ASSUME NEW i \in 1..d PROVE b[i] = s[n + i]
    <3>1. n + 1 + i - 1 = n + i
      BY <1>3
    <3> QED BY <2>2, <2>3, <3>1
  <2> QED BY <2>2, <2>3, <2>4, <2>5
<1>7. DOMAIN a = 1..n /\ DOMAIN b = 1..(k - n)
  BY <1>5, <1>6, LenProperties
<1>8. \A i, j \in 1..k : s[i] = s[j] => i = j
  BY <1>1 DEF Distinct
<1>9. Distinct(a)
  <2>1. \A i, j \in 1..n : a[i] = a[j] => i = j
    BY <1>1, <1>3, <1>5, <1>8
  <2> QED BY <1>7, <2>1 DEF Distinct
<1>10. Distinct(b)
  <2>1. ASSUME NEW i \in 1..(k - n), NEW j \in 1..(k - n), b[i] = b[j] PROVE i = j
    <3>0. b[i] = s[n + i] /\ b[j] = s[n + j]
      BY <1>6
    <3>1. n + i \in 1..k /\ n + j \in 1..k
      BY <1>3
    <3>4. s[n + i] = s[n + j]
      BY <2>1, <3>0
    <3>2. n + i = n + j
      BY <3>1, <3>4, <1>8
    <3> QED BY <1>3, <3>2
  <2> QED BY <1>7, <2>1 DEF Distinct
<1>11. Elements(s) = Elements(a) \union Elements(b)
  <2>1. ASSUME NEW i \in 1..k PROVE s[i] \in Elements(a) \union Elements(b)
    <3>1. CASE i <= n
      <4>1. i \in 1..n
        BY <1>3, <3>1
      <4> QED BY <4>1, <1>5, <1>7 DEF Elements
    <3>2. CASE ~(i <= n)
      <4>1. i - n \in 1..(k - n) /\ n + (i - n) = i
        BY <1>3, <3>2
      <4> QED BY <4>1, <1>6, <1>7 DEF Elements
    <3> QED BY <3>1, <3>2
  <2>2. ASSUME NEW i \in 1..n PROVE a[i] \in Elements(s)
    <3>1. i \in 1..k /\ a[i] = s[i]
      BY <1>1, <1>3, <1>5
    <3> QED BY <1>1, <3>1 DEF Elements
  <2>3. ASSUME NEW i \in 1..(k - n) PROVE b[i] \in Elements(s)
    <3>1. n + i \in 1..k /\ b[i] = s[n + i]
      BY <1>1, <1>3, <1>6
    <3> QED BY <1>1, <3>1 DEF Elements
  <2>4. \A r \in Elements(s) : r \in Elements(a) \union Elements(b)
    BY <1>1, <2>1 DEF Elements
  <2>5. \A r \in Elements(a) : r \in Elements(s)
    BY <1>7, <2>2 DEF Elements
  <2>6. \A r \in Elements(b) : r \in Elements(s)
    BY <1>7, <2>3 DEF Elements
  <2> QED BY <2>4, <2>5, <2>6
<1>12. \A r \in Elements(a) : r \notin Elements(b)
  <2>1. ASSUME NEW i \in 1..n, NEW j \in 1..(k - n) PROVE a[i] # b[j]
    <3>1. i \in 1..k /\ n + j \in 1..k /\ i # n + j
      BY <1>1, <1>3
    <3> QED BY <1>5, <1>6, <1>8, <3>1
  <2> QED BY <1>7, <2>1 DEF Elements
<1> QED BY <1>1, <1>2, <1>5, <1>6, <1>9, <1>10, <1>11, <1>12

\* A set that is mapped one to one onto a finite set has as many members.
LEMMA SameSize ==
  ASSUME NEW S, NEW T, IsFiniteSet(T), NEW f \in [S -> T],
         \A x, y \in S : f[x] = f[y] => x = y, \A z \in T : \E x \in S : f[x] = z
  PROVE  IsFiniteSet(S) /\ Cardinality(S) = Cardinality(T)
<1>1. f \in Injection(S, T)
  BY DEF Injection, IsInjective
<1>2. f \in Surjection(S, T)
  BY DEF Surjection
<1> QED BY <1>1, <1>2, FS_Injection

LEMMA CountElements ==
  ASSUME NEW R, NEW s \in Seq(R), Distinct(s), IsFiniteSet(Elements(s))
  PROVE  Cardinality(Elements(s)) = Len(s)
<1>1. PICK n \in Nat : n = Len(s) /\ DOMAIN s = 1..n
  BY LenProperties
<1>2. PICK f : f = [i \in 1..n |-> s[i]]
  OBVIOUS
<1>3. f \in [1..n -> Elements(s)]
  BY <1>1, <1>2 DEF Elements
<1>4. \A x, y \in 1..n : f[x] = f[y] => x = y
  BY <1>1, <1>2 DEF Distinct
<1>5. \A z \in Elements(s) : \E x \in 1..n : f[x] = z
  BY <1>1, <1>2 DEF Elements
<1>6. Cardinality(1..n) = Cardinality(Elements(s))
  BY <1>3, <1>4, <1>5, SameSize
<1>7. Cardinality(1..n) = n
  BY FS_Interval
<1> QED BY <1>1, <1>6, <1>7

-----------------------------------------------------------------------------
\* A record is in one place.
Apart ==
  /\ Distinct(pushQueue)
  /\ \A f \in Flushers : Distinct(batch[f])
  /\ \A f, g \in Flushers : f # g => \A r \in Elements(batch[f]) : r \notin Elements(batch[g])
  /\ \A r \in Elements(pushQueue) : r \notin InFlight /\ r \notin StoredRecords /\ r \notin Lost
  /\ \A r \in InFlight : r \notin StoredRecords /\ r \notin Lost
  /\ \A r \in StoredRecords : r \notin Lost
  /\ \A why, reason \in Reasons : why # reason => \A r \in dropped[why] : r \notin dropped[reason]

PushInv ==
  /\ PushTypeOK /\ batch \in [Flushers -> Seq(Records)] /\ IsFiniteSet(reported)
  /\ reported = Elements(pushQueue) \union InFlight \union StoredRecords \union Lost
  /\ Apart
  /\ \A r \in dropped["known"] : eventRows[r.attempt] \notin {"none", r.status}

LEMMA FlightIs == \A r : r \in InFlight <=> \E f \in Flushers : r \in Elements(batch[f])
BY DEF InFlight, Elements

LEMMA LostIs == \A r : r \in Lost <=> \E why \in Reasons : r \in dropped[why]
BY DEF Lost

LEMMA PushStart == PushInit => PushInv
<1> SUFFICES ASSUME PushInit PROVE PushInv
  OBVIOUS
<1>1. /\ pushQueue = <<>> /\ batch = [f \in Flushers |-> <<>>] /\ reported = {}
      /\ dropped = [why \in Reasons |-> {}] /\ eventRows = [a \in Attempts |-> "none"]
      /\ pushFaults = 0
  BY DEF PushInit
<1>2. <<>> \in Seq(Records) /\ Len(<<>>) = 0 /\ DOMAIN <<>> = {}
  BY EmptySeq, LenProperties
<1>3. Elements(<<>>) = {} /\ Distinct(<<>>)
  BY <1>2 DEF Elements, Distinct
<1>4. InFlight = {} /\ Lost = {} /\ Elements(pushQueue) = {}
  BY <1>1, <1>3, FlightIs, LostIs
<1>5. StoredRecords = {}
  <2>1. \A r \in Records : r.attempt \in Attempts /\ r.status \in Statuses
    BY DEF Records
  <2> QED BY <1>1, <2>1, PushAssumption DEF StoredRecords
<1>6. PushTypeOK
  <2>1. pushQueue \in Seq(Records) /\ Len(pushQueue) <= MaxQueue
    BY <1>1, <1>2, PushAssumption
  <2>2. \A f \in Flushers : batch[f] \in Seq(Records) /\ Len(batch[f]) <= BatchMax
    BY <1>1, <1>2, PushAssumption
  <2>3. pushFaults \in 0..MaxPushFaults
    BY <1>1, PushAssumption
  <2> QED BY <1>1, <2>1, <2>2, <2>3 DEF PushTypeOK
<1>7. Apart
  BY <1>1, <1>3, <1>4, <1>5 DEF Apart
<1>8. batch \in [Flushers -> Seq(Records)] /\ IsFiniteSet(reported)
  BY <1>1, <1>2, FS_EmptySet
<1> QED BY <1>1, <1>4, <1>5, <1>6, <1>7, <1>8 DEF PushInv, Reasons

\* A flusher's batch is another.
LEMMA BatchTaken ==
  ASSUME PushInv, NEW f \in Flushers, NEW b \in Seq(Records), Distinct(b),
         batch' = [batch EXCEPT ![f] = b],
         \A r \in Elements(b) : r \in Elements(batch[f]) \/ r \notin InFlight
  PROVE  /\ batch' \in [Flushers -> Seq(Records)] /\ batch'[f] = b
         /\ \A g \in Flushers : g # f => batch'[g] = batch[g]
         /\ \A r : r \in InFlight' <=> r \in Elements(b) \/ (r \in InFlight /\ r \notin Elements(batch[f]))
         /\ \A g \in Flushers : Distinct(batch'[g])
         /\ \A g, h \in Flushers : g # h => \A r \in Elements(batch'[g]) : r \notin Elements(batch'[h])
<1>1. batch \in [Flushers -> Seq(Records)] /\ Apart
  BY DEF PushInv
<1>2. /\ batch' \in [Flushers -> Seq(Records)] /\ batch'[f] = b
      /\ \A g \in Flushers : g # f => batch'[g] = batch[g]
  BY <1>1
<1>3. \A r : r \in InFlight' <=> \E g \in Flushers : r \in Elements(batch'[g])
  BY DEF InFlight, Elements
<1>4. \A g, h \in Flushers : g # h => \A r \in Elements(batch[g]) : r \notin Elements(batch[h])
  BY <1>1 DEF Apart
<1>5. \A r : r \in InFlight' <=> r \in Elements(b) \/ (r \in InFlight /\ r \notin Elements(batch[f]))
  BY <1>2, <1>3, <1>4, FlightIs
<1>6. \A g \in Flushers : Distinct(batch'[g])
  BY <1>1, <1>2 DEF Apart
<1>7. ASSUME NEW g \in Flushers, NEW h \in Flushers, g # h, NEW r \in Elements(batch'[g])
      PROVE  r \notin Elements(batch'[h])
  <2>1. \A x \in Flushers : x # f /\ r \in Elements(b) => r \notin Elements(batch[x])
    BY <1>4, FlightIs
  <2> QED BY <1>2, <1>4, <1>7, <2>1
<1> QED BY <1>2, <1>5, <1>6, <1>7

\* Records lost for a reason.
LEMMA LoseMore ==
  ASSUME PushInv, NEW S \in SUBSET Records, NEW reason \in Reasons, Lose(S, reason),
         \A r \in S : r \notin Lost
  PROVE  /\ dropped' \in [Reasons -> SUBSET Records]
         /\ dropped'[reason] = dropped[reason] \union S
         /\ \A why \in Reasons : why # reason => dropped'[why] = dropped[why]
         /\ \A r : r \in Lost' <=> r \in Lost \/ r \in S
         /\ \A why, other \in Reasons : why # other => \A r \in dropped'[why] : r \notin dropped'[other]
<1>1. dropped \in [Reasons -> SUBSET Records]
  BY DEF PushInv, PushTypeOK
<1>2. /\ dropped' \in [Reasons -> SUBSET Records] /\ dropped'[reason] = dropped[reason] \union S
      /\ \A why \in Reasons : why # reason => dropped'[why] = dropped[why]
  BY <1>1 DEF Lose
<1>3. \A r : r \in Lost' <=> \E why \in Reasons : r \in dropped'[why]
  BY DEF Lost
<1>4. \A r : r \in Lost' <=> r \in Lost \/ r \in S
  BY <1>2, <1>3, LostIs
<1>5. \A why, other \in Reasons : why # other => \A r \in dropped[why] : r \notin dropped[other]
  BY DEF PushInv, Apart
<1>6. \A why \in Reasons : \A r \in S : r \notin dropped[why]
  BY LostIs
<1> QED BY <1>2, <1>4, <1>5, <1>6

LEMMA ReportStep ==
  ASSUME PushInv, NEW record \in Records, Report(record)
  PROVE  PushInv'
<1>0. /\ pushQueue \in Seq(Records) /\ Len(pushQueue) <= MaxQueue /\ MaxQueue \in Nat /\ MaxQueue # 0
      /\ Apart /\ PushTypeOK /\ batch \in [Flushers -> Seq(Records)]
  BY PushAssumption DEF PushInv, PushTypeOK
<1>1. /\ UNCHANGED <<batch, eventRows, pushFaults>> /\ record \notin reported
      /\ reported' = reported \union {record}
  BY DEF Report
<1>2. InFlight' = InFlight /\ StoredRecords' = StoredRecords
  BY <1>1 DEF InFlight, StoredRecords
<1>3. reported = Elements(pushQueue) \union InFlight \union StoredRecords \union Lost
  BY DEF PushInv
<1>4. IsFiniteSet(reported') /\ reported' \subseteq Records
  BY <1>0, <1>1, FS_AddElement DEF PushInv, PushTypeOK
<1>5. PICK n \in Nat : n = Len(pushQueue)
  BY <1>0, LenProperties
<1>6. /\ pushQueue' \in Seq(Records) /\ Len(pushQueue') <= MaxQueue /\ Distinct(pushQueue')
      /\ dropped' \in [Reasons -> SUBSET Records] /\ dropped'["known"] = dropped["known"]
      /\ \A why, other \in Reasons : why # other => \A r \in dropped'[why] : r \notin dropped'[other]
      /\ \A r : r \in Elements(pushQueue') \/ r \in Lost'
                  <=> r \in Elements(pushQueue) \/ r \in Lost \/ r = record
      /\ \A r \in Elements(pushQueue') : r = record \/ r \in Elements(pushQueue)
      /\ \A r \in Elements(pushQueue') : r \notin Lost'
  <2>1. CASE n < MaxQueue
    <3>1. pushQueue' = Append(pushQueue, record) /\ dropped' = dropped
      BY <1>5, <2>1 DEF Report
    <3>2. /\ pushQueue' \in Seq(Records) /\ Len(pushQueue') = n + 1
          /\ Elements(pushQueue') = Elements(pushQueue) \union {record}
          /\ Distinct(pushQueue) /\ record \notin Elements(pushQueue) => Distinct(pushQueue')
      BY <1>0, <1>5, <3>1, AppendElements
    <3>3. Lost' = Lost
      BY <3>1 DEF Lost
    <3>4. Len(pushQueue') <= MaxQueue
      BY <1>0, <2>1, <3>2
    <3>5. Distinct(pushQueue')
      BY <1>0, <1>1, <1>3, <3>2 DEF Apart
    <3>6. record \notin Lost
      BY <1>1, <1>3
    <3> QED BY <1>0, <3>1, <3>2, <3>3, <3>4, <3>5, <3>6 DEF Apart, PushTypeOK
  <2>2. CASE ~(n < MaxQueue)
    <3>1. n = MaxQueue /\ n \in 1..n /\ 1 \in 0..n /\ n # 0
      BY <1>0, <1>5, <2>2
    <3>2. PICK head, rest : head = Head(pushQueue) /\ rest = Tail(pushQueue)
      OBVIOUS
    <3>3. /\ Lose({head}, "overflow") /\ pushQueue' = Append(rest, record)
      BY <1>5, <2>2, <3>2 DEF Report
    <3>4. pushQueue # <<>>
      BY <1>0, <1>5, <3>1, EmptySeq
    <3>5. head = pushQueue[1] /\ head \in Records
      BY <1>0, <3>2, <3>4, HeadTailProperties
    <3>6. DOMAIN pushQueue = 1..n
      BY <1>0, <1>5, LenProperties
    <3>7. /\ rest \in Seq(Records) /\ Len(rest) = n - 1 /\ Distinct(rest)
          /\ Elements(pushQueue) = Elements(rest) \union {head} /\ head \notin Elements(rest)
      <4>1. /\ rest \in Seq(Records) /\ Len(rest) = n - 1
            /\ \A i \in 1..Len(rest) : rest[i] = pushQueue[i + 1]
        BY <1>0, <1>5, <3>2, <3>4, HeadTailProperties
      <4>2. DOMAIN rest = 1..(n - 1) /\ \A i \in 1..(n - 1) : rest[i] = pushQueue[i + 1] /\ i + 1 \in 1..n
        BY <4>1, LenProperties
      <4>3. \A i, j \in 1..n : pushQueue[i] = pushQueue[j] => i = j
        BY <1>0, <3>6 DEF Apart, Distinct
      <4>4. Distinct(rest)
        BY <4>2, <4>3 DEF Distinct
      <4>5. 1 \in 1..n
        BY <3>1
      <4>6. head \notin Elements(rest)
        <5>1. ASSUME NEW i \in 1..(n - 1) PROVE rest[i] # head
          <6>1. rest[i] = pushQueue[i + 1] /\ i + 1 \in 1..n /\ i + 1 # 1
            BY <4>2
          <6> QED BY <3>5, <4>3, <4>5, <6>1
        <5> QED BY <4>2, <5>1 DEF Elements
      <4>7. \A r \in Elements(pushQueue) : r = head \/ r \in Elements(rest)
        <5>1. ASSUME NEW i \in 1..n PROVE pushQueue[i] = head \/ pushQueue[i] \in Elements(rest)
          <6>1. CASE i = 1
            BY <3>5, <6>1
          <6>2. CASE i # 1
            <7>1. i - 1 \in 1..(n - 1) /\ (i - 1) + 1 = i
              BY <6>2
            <7> QED BY <4>2, <7>1 DEF Elements
          <6> QED BY <6>1, <6>2
        <5> QED BY <3>6, <5>1 DEF Elements
      <4>8. \A r \in Elements(rest) : r \in Elements(pushQueue)
        BY <3>6, <4>2 DEF Elements
      <4>9. head \in Elements(pushQueue)
        BY <3>5, <3>6, <4>5 DEF Elements
      <4> QED BY <4>1, <4>4, <4>6, <4>7, <4>8, <4>9
    <3>8. head \notin Lost
      BY <1>0, <3>7 DEF Apart
    <3>9. /\ dropped' \in [Reasons -> SUBSET Records] /\ dropped'["known"] = dropped["known"]
          /\ \A r : r \in Lost' <=> r \in Lost \/ r = head
          /\ \A why, other \in Reasons : why # other => \A r \in dropped'[why] : r \notin dropped'[other]
      <4>1. {head} \in SUBSET Records /\ "overflow" \in Reasons /\ "known" \in Reasons
        BY <3>5 DEF Reasons
      <4>2. \A r \in {head} : r \notin Lost
        BY <3>8
      <4>3. /\ dropped' \in [Reasons -> SUBSET Records]
            /\ \A why \in Reasons : why # "overflow" => dropped'[why] = dropped[why]
            /\ \A r : r \in Lost' <=> r \in Lost \/ r \in {head}
            /\ \A why, other \in Reasons : why # other => \A r \in dropped'[why] : r \notin dropped'[other]
        BY <3>3, <4>1, <4>2, LoseMore
      <4> QED BY <4>1, <4>3
    <3>10. /\ pushQueue' \in Seq(Records) /\ Len(pushQueue') = (n - 1) + 1
           /\ Elements(pushQueue') = Elements(rest) \union {record}
           /\ Distinct(rest) /\ record \notin Elements(rest) => Distinct(pushQueue')
      BY <3>3, <3>7, AppendElements
    <3>11. record \notin Elements(pushQueue) /\ record \notin Lost
      BY <1>1, <1>3
    <3>12. Distinct(pushQueue')
      BY <3>7, <3>10, <3>11
    <3>13. Len(pushQueue') <= MaxQueue
      BY <3>1, <3>10
    <3>14. \A r \in Elements(rest) : r \notin Lost
      BY <1>0, <3>7 DEF Apart
    <3>15. \A r \in Elements(pushQueue') : r \notin Lost'
      BY <3>7, <3>9, <3>10, <3>11, <3>14
    <3> QED BY <3>7, <3>9, <3>10, <3>12, <3>13, <3>15
  <2> QED BY <2>1, <2>2
<1>7. reported' = Elements(pushQueue') \union InFlight' \union StoredRecords' \union Lost'
  BY <1>1, <1>2, <1>3, <1>6
<1>8. record \notin InFlight /\ record \notin StoredRecords
  BY <1>1, <1>3
<1>9. /\ \A r \in Elements(pushQueue') : r \notin InFlight' /\ r \notin StoredRecords' /\ r \notin Lost'
      /\ \A r \in InFlight' : r \notin StoredRecords' /\ r \notin Lost'
      /\ \A r \in StoredRecords' : r \notin Lost'
  BY <1>0, <1>2, <1>6, <1>8 DEF Apart
<1>10. Apart'
  BY <1>0, <1>1, <1>6, <1>9 DEF Apart
<1>11. PushTypeOK'
  BY <1>0, <1>1, <1>4, <1>6 DEF PushTypeOK
<1>12. \A r \in dropped'["known"] : eventRows'[r.attempt] \notin {"none", r.status}
  BY <1>1, <1>6 DEF PushInv
<1> QED BY <1>0, <1>1, <1>4, <1>7, <1>10, <1>11, <1>12 DEF PushInv

LEMMA FlushStep ==
  ASSUME PushInv, NEW f \in Flushers, Flush(f)
  PROVE  PushInv'
<1>0. /\ pushQueue \in Seq(Records) /\ Len(pushQueue) <= MaxQueue /\ MaxQueue \in Nat /\ BatchMax \in Nat
      /\ Apart /\ PushTypeOK /\ batch \in [Flushers -> Seq(Records)]
  BY PushAssumption DEF PushInv, PushTypeOK
<1>1. UNCHANGED <<eventRows, reported, dropped, pushFaults>> /\ batch[f] = <<>>
  BY DEF Flush
<1>2. StoredRecords' = StoredRecords /\ Lost' = Lost
  BY <1>1 DEF StoredRecords, Lost
<1>3. PICK k \in Nat : k = Len(pushQueue)
  BY <1>0, LenProperties
<1>4. PICK n \in Nat : n = Fetched /\ n <= k /\ n <= BatchMax
  BY <1>0, <1>3 DEF Fetched
<1>5. PICK a, b : a = SubSeq(pushQueue, 1, n) /\ b = SubSeq(pushQueue, n + 1, k)
  OBVIOUS
<1>6. batch' = [batch EXCEPT ![f] = a] /\ pushQueue' = b
  BY <1>3, <1>4, <1>5 DEF Flush
<1>7. /\ a \in Seq(Records) /\ Len(a) = n /\ b \in Seq(Records) /\ Len(b) = k - n
      /\ Distinct(a) /\ Distinct(b) /\ Elements(pushQueue) = Elements(a) \union Elements(b)
      /\ \A r \in Elements(a) : r \notin Elements(b)
  <2>1. n \in 0..Len(pushQueue) /\ Distinct(pushQueue)
    BY <1>0, <1>3, <1>4 DEF Apart
  <2> QED BY <1>0, <1>3, <1>5, <2>1, SplitElements
<1>8. \A r \in Elements(a) : r \notin InFlight
  BY <1>0, <1>7 DEF Apart
<1>9. Elements(batch[f]) = {}
  <2>1. DOMAIN <<>> = {}
    OBVIOUS
  <2> QED BY <1>1, <2>1 DEF Elements
<1>10. /\ batch' \in [Flushers -> Seq(Records)] /\ batch'[f] = a
       /\ \A g \in Flushers : g # f => batch'[g] = batch[g]
       /\ \A r : r \in InFlight' <=> r \in Elements(a) \/ (r \in InFlight /\ r \notin Elements(batch[f]))
       /\ \A g \in Flushers : Distinct(batch'[g])
       /\ \A g, h \in Flushers : g # h => \A r \in Elements(batch'[g]) : r \notin Elements(batch'[h])
  <2>1. a \in Seq(Records) /\ Distinct(a)
    BY <1>7
  <2>2. batch' = [batch EXCEPT ![f] = a]
    BY <1>6
  <2> QED BY <1>8, <2>1, <2>2, BatchTaken
<1>11. \A r : r \in InFlight' <=> r \in Elements(a) \/ r \in InFlight
  BY <1>9, <1>10
<1>12. /\ \A r \in Elements(pushQueue') : r \notin InFlight' /\ r \notin StoredRecords' /\ r \notin Lost'
       /\ \A r \in InFlight' : r \notin StoredRecords' /\ r \notin Lost'
       /\ \A r \in StoredRecords' : r \notin Lost'
  BY <1>0, <1>2, <1>6, <1>7, <1>11 DEF Apart
<1>13. Apart'
  BY <1>0, <1>1, <1>6, <1>7, <1>10, <1>12 DEF Apart
<1>14. reported' = Elements(pushQueue') \union InFlight' \union StoredRecords' \union Lost'
  BY <1>1, <1>2, <1>6, <1>7, <1>11 DEF PushInv
<1>15. PushTypeOK'
  <2>1. Len(b) <= MaxQueue
    BY <1>0, <1>3, <1>4, <1>7
  <2>2. \A g \in Flushers : batch'[g] \in Seq(Records) /\ Len(batch'[g]) <= BatchMax
    BY <1>0, <1>4, <1>7, <1>10 DEF PushTypeOK
  <2> QED BY <1>0, <1>1, <1>6, <1>7, <2>1, <2>2 DEF PushTypeOK
<1> QED BY <1>1, <1>10, <1>13, <1>14, <1>15 DEF PushInv

\* A flusher's post is over: its batch is nowhere in flight.
LEMMA PostOver ==
  ASSUME PushInv, NEW f \in Flushers, batch' = [batch EXCEPT ![f] = <<>>]
  PROVE  /\ batch' \in [Flushers -> Seq(Records)]
         /\ \A g \in Flushers : batch'[g] \in Seq(Records) /\ Len(batch'[g]) <= BatchMax
         /\ \A r : r \in InFlight' <=> r \in InFlight /\ r \notin Elements(batch[f])
         /\ \A g \in Flushers : Distinct(batch'[g])
         /\ \A g, h \in Flushers : g # h => \A r \in Elements(batch'[g]) : r \notin Elements(batch'[h])
         /\ Elements(batch[f]) \subseteq InFlight /\ Elements(batch[f]) \subseteq Records
<1>1. <<>> \in Seq(Records) /\ Len(<<>>) = 0
  BY EmptySeq
<1>2. Elements(<<>>) = {} /\ Distinct(<<>>)
  <2>1. DOMAIN <<>> = {}
    OBVIOUS
  <2> QED BY <2>1 DEF Elements, Distinct
<1>3. PICK b \in Seq(Records) : b = <<>> /\ Elements(b) = {} /\ Distinct(b) /\ Len(b) = 0
  BY <1>1, <1>2
<1>4. \A r \in Elements(b) : r \in Elements(batch[f]) \/ r \notin InFlight
  BY <1>3
<1>5. /\ batch' \in [Flushers -> Seq(Records)] /\ batch'[f] = b
      /\ \A g \in Flushers : g # f => batch'[g] = batch[g]
      /\ \A r : r \in InFlight' <=> r \in Elements(b) \/ (r \in InFlight /\ r \notin Elements(batch[f]))
      /\ \A g \in Flushers : Distinct(batch'[g])
      /\ \A g, h \in Flushers : g # h => \A r \in Elements(batch'[g]) : r \notin Elements(batch'[h])
  BY <1>3, <1>4, BatchTaken
<1>6. \A g \in Flushers : batch'[g] \in Seq(Records) /\ Len(batch'[g]) <= BatchMax
  BY <1>3, <1>5, PushAssumption DEF PushInv, PushTypeOK
<1>7. Elements(batch[f]) \subseteq InFlight
  BY FlightIs
<1>8. Elements(batch[f]) \subseteq Records
  <2>1. batch[f] \in Seq(Records)
    BY DEF PushInv
  <2>2. \A n \in DOMAIN batch[f] : batch[f][n] \in Records
    BY <2>1, LenProperties, ElementOfSeq
  <2> QED BY <2>2 DEF Elements
<1> QED BY <1>3, <1>5, <1>6, <1>7, <1>8

LEMMA LosePostStep ==
  ASSUME PushInv, NEW f \in Flushers, LosePost(f)
  PROVE  PushInv'
<1>0. Apart /\ PushTypeOK
  BY DEF PushInv
<1>1. UNCHANGED <<pushQueue, eventRows, reported>> /\ batch' = [batch EXCEPT ![f] = <<>>]
  BY DEF LosePost
<1>2. StoredRecords' = StoredRecords
  BY <1>1 DEF StoredRecords
<1>3. PICK S : S = Elements(batch[f])
  OBVIOUS
<1>4. Lose(S, "post")
  BY <1>3 DEF LosePost, Elements
<1>5. /\ batch' \in [Flushers -> Seq(Records)]
      /\ \A g \in Flushers : batch'[g] \in Seq(Records) /\ Len(batch'[g]) <= BatchMax
      /\ \A r : r \in InFlight' <=> r \in InFlight /\ r \notin S
      /\ \A g \in Flushers : Distinct(batch'[g])
      /\ \A g, h \in Flushers : g # h => \A r \in Elements(batch'[g]) : r \notin Elements(batch'[h])
      /\ S \subseteq InFlight /\ S \subseteq Records
  BY <1>1, <1>3, PostOver
<1>6. \A r \in S : r \notin Lost
  BY <1>0, <1>5 DEF Apart
<1>7. /\ dropped' \in [Reasons -> SUBSET Records] /\ dropped'["known"] = dropped["known"]
      /\ \A r : r \in Lost' <=> r \in Lost \/ r \in S
      /\ \A why, other \in Reasons : why # other => \A r \in dropped'[why] : r \notin dropped'[other]
  <2>1. "post" \in Reasons /\ "known" \in Reasons /\ S \in SUBSET Records
    BY <1>5 DEF Reasons
  <2>2. /\ dropped' \in [Reasons -> SUBSET Records]
        /\ \A why \in Reasons : why # "post" => dropped'[why] = dropped[why]
        /\ \A r : r \in Lost' <=> r \in Lost \/ r \in S
        /\ \A why, other \in Reasons : why # other => \A r \in dropped'[why] : r \notin dropped'[other]
    BY <1>4, <1>6, <2>1, LoseMore
  <2> QED BY <2>1, <2>2
<1>8. /\ \A r \in Elements(pushQueue') : r \notin InFlight' /\ r \notin StoredRecords' /\ r \notin Lost'
      /\ \A r \in InFlight' : r \notin StoredRecords' /\ r \notin Lost'
      /\ \A r \in StoredRecords' : r \notin Lost'
  BY <1>0, <1>1, <1>2, <1>5, <1>7 DEF Apart
<1>9. Apart'
  BY <1>0, <1>1, <1>5, <1>7, <1>8 DEF Apart
<1>10. reported' = Elements(pushQueue') \union InFlight' \union StoredRecords' \union Lost'
  BY <1>1, <1>2, <1>5, <1>7 DEF PushInv
<1>11. PushTypeOK'
  <2>1. pushFaults' \in 0..MaxPushFaults
    BY <1>0, PushAssumption DEF PushTypeOK, LosePost
  <2> QED BY <1>0, <1>1, <1>5, <1>7, <2>1 DEF PushTypeOK
<1>12. \A r \in dropped'["known"] : eventRows'[r.attempt] \notin {"none", r.status}
  BY <1>1, <1>7 DEF PushInv
<1> QED BY <1>1, <1>5, <1>9, <1>10, <1>11, <1>12 DEF PushInv

LEMMA DieStep ==
  ASSUME PushInv, ProxyDies
  PROVE  PushInv'
<1>0. Apart /\ PushTypeOK /\ batch \in [Flushers -> Seq(Records)] /\ pushQueue \in Seq(Records)
  BY DEF PushInv, PushTypeOK
<1>1. /\ UNCHANGED <<eventRows, reported>> /\ pushQueue' = <<>>
      /\ batch' = [g \in Flushers |-> <<>>]
  BY DEF ProxyDies
<1>2. StoredRecords' = StoredRecords
  BY <1>1 DEF StoredRecords
<1>3. <<>> \in Seq(Records) /\ Len(<<>>) = 0 /\ Elements(<<>>) = {} /\ Distinct(<<>>)
  <2>1. DOMAIN <<>> = {}
    OBVIOUS
  <2>2. Elements(<<>>) = {} /\ Distinct(<<>>)
    BY <2>1 DEF Elements, Distinct
  <2> QED BY <2>2, EmptySeq
<1>4. PICK none \in Seq(Records) : /\ none = <<>> /\ Len(none) = 0 /\ Elements(none) = {} /\ Distinct(none)
  BY <1>3
<1>5. /\ batch' \in [Flushers -> Seq(Records)] /\ \A g \in Flushers : batch'[g] = none
      /\ pushQueue' = none
  BY <1>1, <1>4
<1>6. \A r : r \in InFlight' <=> \E g \in Flushers : r \in Elements(batch'[g])
  BY DEF InFlight, Elements
<1>7. InFlight' = {} /\ Elements(pushQueue') = {}
  BY <1>4, <1>5, <1>6
<1>8. PICK S : S = Elements(pushQueue) \union InFlight
  OBVIOUS
<1>9. Lose(S, "process")
  BY <1>8 DEF ProxyDies, Elements, InQueue
<1>10. S \subseteq Records
  BY <1>8 DEF PushInv, PushTypeOK
<1>11. \A r \in S : r \notin Lost /\ r \notin StoredRecords
  BY <1>0, <1>8 DEF Apart
<1>12. /\ dropped' \in [Reasons -> SUBSET Records] /\ dropped'["known"] = dropped["known"]
       /\ \A r : r \in Lost' <=> r \in Lost \/ r \in S
       /\ \A why, other \in Reasons : why # other => \A r \in dropped'[why] : r \notin dropped'[other]
  <2>1. "process" \in Reasons /\ "known" \in Reasons /\ S \in SUBSET Records
    BY <1>10 DEF Reasons
  <2>2. \A r \in S : r \notin Lost
    BY <1>11
  <2>3. /\ dropped' \in [Reasons -> SUBSET Records]
        /\ \A why \in Reasons : why # "process" => dropped'[why] = dropped[why]
        /\ \A r : r \in Lost' <=> r \in Lost \/ r \in S
        /\ \A why, other \in Reasons : why # other => \A r \in dropped'[why] : r \notin dropped'[other]
    BY <1>9, <2>1, <2>2, LoseMore
  <2> QED BY <2>1, <2>3
<1>13. Apart'
  <2>1. \A r \in StoredRecords' : r \notin Lost'
    BY <1>0, <1>2, <1>11, <1>12 DEF Apart
  <2>2. \A r \in InFlight' : r \notin StoredRecords' /\ r \notin Lost'
    BY <1>7
  <2>3. \A r \in Elements(pushQueue') : r \notin InFlight' /\ r \notin StoredRecords' /\ r \notin Lost'
    BY <1>7
  <2>4. Distinct(pushQueue') /\ \A g \in Flushers : Distinct(batch'[g])
    BY <1>4, <1>5
  <2>5. \A g, h \in Flushers : g # h => \A r \in Elements(batch'[g]) : r \notin Elements(batch'[h])
    BY <1>4, <1>5
  <2> QED BY <1>12, <2>1, <2>2, <2>3, <2>4, <2>5 DEF Apart
<1>14. reported' = Elements(pushQueue') \union InFlight' \union StoredRecords' \union Lost'
  BY <1>1, <1>2, <1>7, <1>8, <1>12 DEF PushInv
<1>15. PushTypeOK'
  <2>1. pushFaults' \in 0..MaxPushFaults
    BY <1>0, PushAssumption DEF PushTypeOK, ProxyDies
  <2>2. Len(pushQueue') <= MaxQueue /\ \A g \in Flushers : batch'[g] \in Seq(Records) /\ Len(batch'[g]) <= BatchMax
    BY <1>4, <1>5, PushAssumption
  <2> QED BY <1>0, <1>1, <1>4, <1>5, <1>12, <2>1, <2>2 DEF PushTypeOK
<1>16. \A r \in dropped'["known"] : eventRows'[r.attempt] \notin {"none", r.status}
  BY <1>1, <1>12 DEF PushInv
<1> QED BY <1>1, <1>5, <1>13, <1>14, <1>15, <1>16 DEF PushInv

\* The first record of an attempt in a batch.
LEMMA FirstIs ==
  ASSUME PushInv, NEW f \in Flushers, NEW a \in Attempts
  PROVE  /\ FirstOf(f, a) = "none" \/ (/\ FirstOf(f, a) \in Statuses
                                      /\ \E r \in Elements(batch[f]) :
                                           r.attempt = a /\ r.status = FirstOf(f, a))
         /\ \A r \in Elements(batch[f]) : r.attempt = a => FirstOf(f, a) # "none"
<1>1. batch[f] \in Seq(Records)
  BY DEF PushInv
<1>2. PICK k \in Nat : k = Len(batch[f]) /\ DOMAIN batch[f] = 1..k
  BY <1>1, LenProperties
<1>3. \A n \in 1..k : batch[f][n] \in Records /\ batch[f][n].status \in Statuses
  <2>1. \A n \in 1..k : batch[f][n] \in Records
    BY <1>1, <1>2, ElementOfSeq
  <2> QED BY <2>1 DEF Records
<1>4. PICK mine : mine = {n \in DOMAIN batch[f] : batch[f][n].attempt = a}
  OBVIOUS
<1>5. FirstOf(f, a) = IF mine = {} THEN "none"
                      ELSE batch[f][CHOOSE n \in mine : \A m \in mine : n <= m].status
  BY <1>4 DEF FirstOf
<1>6. CASE mine = {}
  BY <1>4, <1>5, <1>6 DEF Elements
<1>7. CASE mine # {}
  <2>1. mine \in SUBSET Nat /\ mine \subseteq 1..k
    BY <1>2, <1>4
  <2>2. \E n \in mine : \A m \in mine : n <= m
    BY <1>7, <2>1, Least
  <2>3. PICK n \in mine : n = CHOOSE x \in mine : \A m \in mine : x <= m
    BY <2>2
  <2>4. FirstOf(f, a) = batch[f][n].status
    BY <1>5, <1>7, <2>3
  <2>5. batch[f][n].attempt = a /\ n \in 1..k
    BY <1>4, <2>1
  <2>6. batch[f][n] \in Elements(batch[f])
    BY <1>2, <2>5 DEF Elements
  <2> QED BY <1>3, <2>4, <2>5, <2>6, PushAssumption
<1> QED BY <1>6, <1>7

LEMMA IngestStep ==
  ASSUME PushInv, NEW f \in Flushers, Ingest(f)
  PROVE  PushInv'
<1>0. Apart /\ PushTypeOK /\ eventRows \in [Attempts -> Statuses \union {"none"}]
  BY DEF PushInv, PushTypeOK
<1>1. /\ UNCHANGED <<pushQueue, reported, pushFaults>> /\ batch' = [batch EXCEPT ![f] = <<>>]
      /\ eventRows' = Inserted(f)
  BY DEF Ingest
<1>2. PICK S : S = Elements(batch[f])
  OBVIOUS
<1>3. /\ batch' \in [Flushers -> Seq(Records)]
      /\ \A g \in Flushers : batch'[g] \in Seq(Records) /\ Len(batch'[g]) <= BatchMax
      /\ \A r : r \in InFlight' <=> r \in InFlight /\ r \notin S
      /\ \A g \in Flushers : Distinct(batch'[g])
      /\ \A g, h \in Flushers : g # h => \A r \in Elements(batch'[g]) : r \notin Elements(batch'[h])
      /\ S \subseteq InFlight /\ S \subseteq Records
  BY <1>1, <1>2, PostOver
<1>4. /\ eventRows' \in [Attempts -> Statuses \union {"none"}]
      /\ \A a \in Attempts : /\ eventRows[a] = "none" => eventRows'[a] = FirstOf(f, a)
                             /\ eventRows[a] # "none" => eventRows'[a] = eventRows[a]
  <2>1. eventRows' = [a \in Attempts |-> IF eventRows[a] = "none" THEN FirstOf(f, a) ELSE eventRows[a]]
    BY <1>1 DEF Inserted
  <2>2. \A a \in Attempts : FirstOf(f, a) \in Statuses \union {"none"}
    BY FirstIs
  <2> QED BY <1>0, <2>1, <2>2
<1>5. PICK known : known = {r \in S : eventRows'[r.attempt] # r.status}
  OBVIOUS
<1>6. Lose(known, "known")
  BY <1>2, <1>5 DEF Ingest, Elements
<1>7. \A r \in Records : r.attempt \in Attempts /\ r.status \in Statuses /\ r.status # "none"
  BY PushAssumption DEF Records
<1>8. \A r : r \in StoredRecords' <=> r \in StoredRecords \/ (r \in S /\ r \notin known)
  <2>1. ASSUME NEW r \in Records, eventRows'[r.attempt] = r.status, r \notin StoredRecords
        PROVE  r \in S
    <3>1. eventRows[r.attempt] = "none" /\ FirstOf(f, r.attempt) = r.status
      BY <1>4, <1>7, <2>1 DEF StoredRecords
    <3>2. PICK x \in Elements(batch[f]) : x.attempt = r.attempt /\ x.status = r.status
      BY <1>7, <3>1, FirstIs
    <3>3. x \in Records
      BY <1>2, <1>3
    <3>4. x = r
      BY <3>2, <3>3 DEF Records
    <3> QED BY <1>2, <3>4
  <2>2. ASSUME NEW r \in StoredRecords PROVE r \in Records /\ eventRows'[r.attempt] = r.status
    BY <1>4, <1>7 DEF StoredRecords
  <2>3. \A r : r \in StoredRecords' <=> r \in Records /\ eventRows'[r.attempt] = r.status
    BY DEF StoredRecords
  <2>4. \A r : r \in S /\ r \notin known => r \in Records /\ eventRows'[r.attempt] = r.status
    BY <1>3, <1>5
  <2>5. \A r : r \in known => eventRows'[r.attempt] # r.status
    BY <1>5
  <2> QED BY <2>1, <2>2, <2>3, <2>4, <2>5
<1>9. known \subseteq S
  BY <1>5
<1>10. \A r \in known : r \notin Lost
  BY <1>0, <1>3, <1>9 DEF Apart
<1>11. /\ dropped' \in [Reasons -> SUBSET Records] /\ dropped'["known"] = dropped["known"] \union known
       /\ \A r : r \in Lost' <=> r \in Lost \/ r \in known
       /\ \A why, other \in Reasons : why # other => \A r \in dropped'[why] : r \notin dropped'[other]
  <2>1. "known" \in Reasons /\ known \in SUBSET Records
    BY <1>3, <1>9 DEF Reasons
  <2> QED BY <1>6, <1>10, <2>1, LoseMore
<1>12. /\ \A r \in Elements(pushQueue') : r \notin InFlight' /\ r \notin StoredRecords' /\ r \notin Lost'
       /\ \A r \in InFlight' : r \notin StoredRecords' /\ r \notin Lost'
       /\ \A r \in StoredRecords' : r \notin Lost'
  <2>1. \A r \in S : r \in InFlight
    BY <1>3
  <2>2. \A r \in StoredRecords' : r \notin Lost'
    BY <1>0, <1>8, <1>9, <1>11, <2>1 DEF Apart
  <2>3. \A r \in InFlight' : r \notin StoredRecords' /\ r \notin Lost'
    BY <1>0, <1>3, <1>8, <1>9, <1>11 DEF Apart
  <2>4. \A r \in Elements(pushQueue) : r \notin InFlight' /\ r \notin StoredRecords' /\ r \notin Lost'
    BY <1>0, <1>3, <1>8, <1>9, <1>11, <2>1 DEF Apart
  <2> QED BY <1>1, <2>2, <2>3, <2>4
<1>13. Apart'
  BY <1>0, <1>1, <1>3, <1>11, <1>12 DEF Apart
<1>14. reported' = Elements(pushQueue') \union InFlight' \union StoredRecords' \union Lost'
  <2>1. reported = Elements(pushQueue) \union InFlight \union StoredRecords \union Lost
    BY DEF PushInv
  <2> QED BY <1>1, <1>3, <1>8, <1>9, <1>11, <2>1
<1>15. PushTypeOK'
  BY <1>0, <1>1, <1>3, <1>4, <1>11 DEF PushTypeOK
<1>16. \A r \in dropped'["known"] : eventRows'[r.attempt] \notin {"none", r.status}
  <2>1. ASSUME NEW r \in dropped["known"] PROVE eventRows'[r.attempt] \notin {"none", r.status}
    <3>1. eventRows[r.attempt] \notin {"none", r.status}
      BY DEF PushInv
    <3>2. r \in Records
      BY <1>0 DEF PushTypeOK, Reasons
    <3> QED BY <1>4, <1>7, <3>1, <3>2
  <2>2. ASSUME NEW r \in known PROVE eventRows'[r.attempt] \notin {"none", r.status}
    <3>1. eventRows'[r.attempt] # r.status /\ r \in S /\ r \in Records
      BY <1>3, <1>5
    <3>2. FirstOf(f, r.attempt) # "none"
      BY <1>2, <1>7, <3>1, FirstIs
    <3> QED BY <1>4, <1>7, <3>1, <3>2
  <2> QED BY <1>11, <2>1, <2>2
<1> QED BY <1>1, <1>3, <1>13, <1>14, <1>15, <1>16 DEF PushInv

LEMMA PushStep == PushInv /\ [PushNext]_pushVars => PushInv'
<1> SUFFICES ASSUME PushInv, [PushNext]_pushVars PROVE PushInv'
  OBVIOUS
<1>1. CASE UNCHANGED pushVars
  <2>1. /\ pushQueue' = pushQueue /\ batch' = batch /\ eventRows' = eventRows
        /\ reported' = reported /\ dropped' = dropped /\ pushFaults' = pushFaults
    BY <1>1 DEF pushVars
  <2>2. InFlight' = InFlight /\ StoredRecords' = StoredRecords /\ Lost' = Lost
    BY <2>1 DEF InFlight, StoredRecords, Lost
  <2>3. Apart' /\ PushTypeOK'
    BY <2>1, <2>2 DEF PushInv, Apart, PushTypeOK
  <2> QED BY <2>1, <2>2, <2>3 DEF PushInv
<1>2. CASE PushNext
  BY <1>2, ReportStep, FlushStep, IngestStep, LosePostStep, DieStep DEF PushNext
<1> QED BY <1>1, <1>2

THEOREM PushInvariant == PushSpec => []PushInv
BY PushStart, PushStep, PTL DEF PushSpec

\* Finite sets that have nothing in common.
LEMMA SumOfParts ==
  ASSUME NEW A, NEW B, NEW C, IsFiniteSet(C), C = A \union B, \A r \in A : r \notin B
  PROVE  /\ IsFiniteSet(A) /\ IsFiniteSet(B)
         /\ Cardinality(A) \in Nat /\ Cardinality(B) \in Nat
         /\ Cardinality(C) = Cardinality(A) + Cardinality(B)
<1>1. A \subseteq C /\ B \subseteq C /\ A \cap B = {}
  OBVIOUS
<1>2. IsFiniteSet(A) /\ IsFiniteSet(B)
  <2>1. A \subseteq C
    BY <1>1
  <2>2. B \subseteq C
    BY <1>1
  <2> QED BY <2>1, <2>2, FS_Subset
<1>3. Cardinality(A) \in Nat /\ Cardinality(B) \in Nat
  BY <1>2, FS_CardinalityType
<1>4. Cardinality(A \union B) = Cardinality(A) + Cardinality(B) - Cardinality(A \cap B)
  BY <1>2, FS_Union
<1>5. Cardinality(A \cap B) = 0
  BY <1>1, FS_EmptySet
<1> QED BY <1>2, <1>3, <1>4, <1>5

LEMMA FlightCount ==
  ASSUME PushInv, IsFiniteSet(InFlight)
  PROVE  Cardinality(Posting) = Cardinality(InFlight)
<1>1. PICK P : P = Posting
  OBVIOUS
<1>2. \A f \in Flushers : batch[f] \in Seq(Records) /\ Len(batch[f]) <= BatchMax /\ BatchMax \in Nat
  BY PushAssumption DEF PushInv, PushTypeOK
<1>3. \A f \in Flushers : Len(batch[f]) \in Nat /\ DOMAIN batch[f] = 1..Len(batch[f])
  BY <1>2, LenProperties
<1>4. \A p \in P : p = <<p[1], p[2]>> /\ p[1] \in Flushers /\ p[2] \in DOMAIN batch[p[1]]
  BY <1>1, <1>2, <1>3 DEF Posting
<1>5. \A f \in Flushers : \A n \in DOMAIN batch[f] : <<f, n>> \in P
  BY <1>1, <1>2, <1>3 DEF Posting
<1>6. PICK g : g = [p \in P |-> batch[p[1]][p[2]]]
  OBVIOUS
<1>7. g \in [P -> InFlight]
  <2>1. \A p \in P : batch[p[1]][p[2]] \in InFlight
    BY <1>4, FlightIs DEF Elements
  <2> QED BY <1>6, <2>1
<1>8. \A x, y \in P : g[x] = g[y] => x = y
  <2>1. ASSUME NEW x \in P, NEW y \in P, g[x] = g[y] PROVE x = y
    <3>1. /\ x = <<x[1], x[2]>> /\ x[1] \in Flushers /\ x[2] \in DOMAIN batch[x[1]]
          /\ y = <<y[1], y[2]>> /\ y[1] \in Flushers /\ y[2] \in DOMAIN batch[y[1]]
          /\ batch[x[1]][x[2]] = batch[y[1]][y[2]]
      BY <1>4, <1>6, <2>1
    <3>2. x[1] = y[1]
      <4>1. batch[x[1]][x[2]] \in Elements(batch[x[1]]) /\ batch[x[1]][x[2]] \in Elements(batch[y[1]])
        BY <3>1 DEF Elements
      <4>2. \A f, h \in Flushers : f # h => \A r \in Elements(batch[f]) : r \notin Elements(batch[h])
        BY DEF PushInv, Apart
      <4> QED BY <3>1, <4>1, <4>2
    <3>3. x[2] = y[2]
      BY <3>1, <3>2 DEF PushInv, Apart, Distinct
    <3> QED BY <3>1, <3>2, <3>3
  <2> QED BY <2>1
<1>9. \A z \in InFlight : \E x \in P : g[x] = z
  <2>1. ASSUME NEW z \in InFlight PROVE \E x \in P : g[x] = z
    <3>1. PICK f \in Flushers : z \in Elements(batch[f])
      BY FlightIs
    <3>2. PICK n \in DOMAIN batch[f] : z = batch[f][n]
      BY <3>1 DEF Elements
    <3>3. <<f, n>> \in P /\ g[<<f, n>>] = z
      BY <1>5, <1>6, <3>2
    <3> QED BY <3>3
  <2> QED BY <2>1
<1>10. Cardinality(P) = Cardinality(InFlight)
  BY <1>7, <1>8, <1>9, SameSize
<1> QED BY <1>1, <1>10

LEMMA LostCount ==
  ASSUME PushInv, IsFiniteSet(Lost)
  PROVE  Cardinality(Losses) = Cardinality(Lost)
<1>1. PICK P : P = Losses
  OBVIOUS
<1>2. \A p \in P : p = <<p[1], p[2]>> /\ p[1] \in Reasons /\ p[2] \in dropped[p[1]]
  BY <1>1 DEF Losses
<1>3. \A why \in Reasons : \A r \in dropped[why] : <<why, r>> \in P
  BY <1>1 DEF PushInv, PushTypeOK, Losses
<1>4. PICK g : g = [p \in P |-> p[2]]
  OBVIOUS
<1>5. g \in [P -> Lost]
  BY <1>2, <1>4, LostIs
<1>6. \A x, y \in P : g[x] = g[y] => x = y
  <2>1. ASSUME NEW x \in P, NEW y \in P, g[x] = g[y] PROVE x = y
    <3>1. /\ x = <<x[1], x[2]>> /\ x[1] \in Reasons /\ x[2] \in dropped[x[1]]
          /\ y = <<y[1], y[2]>> /\ y[1] \in Reasons /\ y[2] \in dropped[y[1]] /\ x[2] = y[2]
      BY <1>2, <1>4, <2>1
    <3>2. x[1] = y[1]
      BY <3>1 DEF PushInv, Apart
    <3> QED BY <3>1, <3>2
  <2> QED BY <2>1
<1>7. \A z \in Lost : \E x \in P : g[x] = z
  <2>1. ASSUME NEW z \in Lost PROVE \E x \in P : g[x] = z
    <3>1. PICK why \in Reasons : z \in dropped[why]
      BY LostIs
    <3>2. <<why, z>> \in P /\ g[<<why, z>>] = z
      BY <1>3, <1>4, <3>1
    <3> QED BY <3>2
  <2> QED BY <2>1
<1>8. Cardinality(P) = Cardinality(Lost)
  BY <1>5, <1>6, <1>7, SameSize
<1> QED BY <1>1, <1>8

\* A record the callback reported is in one place, whatever fails, dies or overflows, and
\* is never counted under a second status.
THEOREM AttemptsStayAccounted == PushSpec => []AttemptsAreAccounted
<1>1. PushInv => AttemptsAreAccounted
  <2> SUFFICES ASSUME PushInv PROVE AttemptsAreAccounted
    OBVIOUS
  <2>1. PICK Q, F, T, D : Q = Elements(pushQueue) /\ F = InFlight /\ T = StoredRecords /\ D = Lost
    OBVIOUS
  <2>2. /\ \A r \in Q : r \notin F /\ r \notin T /\ r \notin D
        /\ \A r \in F : r \notin T /\ r \notin D
        /\ \A r \in T : r \notin D
    BY <2>1 DEF PushInv, Apart
  <2>3. PICK A, B : A = F \union B /\ B = T \union D
    OBVIOUS
  <2>4. reported = Q \union A /\ IsFiniteSet(reported)
    BY <2>1, <2>3 DEF PushInv
  <2>5. /\ IsFiniteSet(Q) /\ IsFiniteSet(A) /\ Cardinality(Q) \in Nat /\ Cardinality(A) \in Nat
        /\ Cardinality(reported) = Cardinality(Q) + Cardinality(A)
    <3>1. \A r \in Q : r \notin A
      BY <2>2, <2>3
    <3> QED BY <2>4, <3>1, SumOfParts
  <2>6. /\ IsFiniteSet(F) /\ IsFiniteSet(B) /\ Cardinality(F) \in Nat /\ Cardinality(B) \in Nat
        /\ Cardinality(A) = Cardinality(F) + Cardinality(B)
    <3>1. \A r \in F : r \notin B
      BY <2>2, <2>3
    <3>2. IsFiniteSet(A)
      BY <2>5
    <3>3. A = F \union B
      BY <2>3
    <3> QED BY <3>1, <3>2, <3>3, SumOfParts
  <2>7. /\ IsFiniteSet(T) /\ IsFiniteSet(D) /\ Cardinality(T) \in Nat /\ Cardinality(D) \in Nat
        /\ Cardinality(B) = Cardinality(T) + Cardinality(D)
    <3>1. \A r \in T : r \notin D
      BY <2>2
    <3>2. IsFiniteSet(B)
      BY <2>6
    <3>3. B = T \union D
      BY <2>3
    <3> QED BY <3>1, <3>2, <3>3, SumOfParts
  <2>8. Cardinality(Q) = Len(pushQueue)
    <3>1. pushQueue \in Seq(Records) /\ Distinct(pushQueue) /\ IsFiniteSet(Elements(pushQueue))
      BY <2>1, <2>5 DEF PushInv, PushTypeOK, Apart
    <3> QED BY <2>1, <3>1, CountElements
  <2>9. Cardinality(Posting) = Cardinality(F)
    BY <2>1, <2>6, FlightCount
  <2>10. Cardinality(Losses) = Cardinality(D)
    BY <2>1, <2>7, LostCount
  <2>11. PICK q \in Nat, n \in Nat, t \in Nat, d \in Nat :
           q = Len(pushQueue) /\ n = Cardinality(F) /\ t = Cardinality(T) /\ d = Cardinality(D)
    <3>1. Len(pushQueue) \in Nat
      BY <2>5, <2>8
    <3> QED BY <2>6, <2>7, <3>1
  <2>12. Cardinality(reported) = q + t + n + d
    <3>1. Cardinality(reported) = q + (n + (t + d))
      BY <2>5, <2>6, <2>7, <2>8, <2>11
    <3> QED BY <3>1, <2>11, SMTT(30)
  <2>13. Cardinality(reported) = Len(pushQueue) + Cardinality(StoredRecords)
           + Cardinality(Posting) + Cardinality(Losses)
    BY <2>1, <2>9, <2>10, <2>11, <2>12
  <2>14. reported = InQueue \union InFlight \union StoredRecords \union Lost
    BY DEF PushInv, InQueue, Elements
  <2>15. \A r \in dropped["known"] : eventRows[r.attempt] \notin {"none", r.status}
    BY DEF PushInv
  <2> QED BY <2>13, <2>14, <2>15 DEF AttemptsAreAccounted
<1> QED BY <1>1, PushInvariant, PTL

THEOREM PushTypeCorrect == PushSpec => []PushTypeOK
<1>1. PushInv => PushTypeOK
  BY DEF PushInv
<1> QED BY <1>1, PushInvariant, PTL

-----------------------------------------------------------------------------
(* Plan versions and savings.                                              *)

PlanRows == [year : Years \union {0}, baseline : BOOLEAN,
             status : {"none", "draft", "approved", "archived"},
             active : BOOLEAN, covered : BOOLEAN]
MeasurementRows == [first : SavingsDays \union {0}, last : SavingsDays \union {0},
                    reviewed : BOOLEAN, status : {"none", "kept"}]

\* What a request holds is a plan it has read or locked, or a measurement it writes.
EditorsHold ==
  \A e \in Editors :
    /\ editor[e].pc \in {"idle", "editing", "clearing", "setting", "changing"}
    /\ editor[e].pc \in {"editing", "clearing", "setting"} => editor[e].on \in Plans
    /\ editor[e].pc = "changing" => editor[e].on \in Measurements /\ editor[e].value \in MeasurementRows

\* A plan that is being activated is locked since it was judged.
JudgedStaysTrue ==
  \A e \in Editors : editor[e].pc \in {"clearing", "setting"} =>
    LET p == editor[e].on IN plan[p].status = "approved" /\ plan[p].baseline /\ plan[p].covered

CostInv ==
  /\ CostTypeOK /\ DOMAIN editor = Editors
  /\ EditorsHold /\ JudgedStaysTrue /\ OneOfficialPlan

LEMMA CostStart == CostInit => CostInv
<1> SUFFICES ASSUME CostInit PROVE CostInv
  OBVIOUS
<1> QED BY CostAssumption DEF CostInit, CostInv, CostTypeOK, EditorsHold, JudgedStaysTrue,
     OneOfficialPlan, NoPlan, NoMeasurement, Uncommitted

\* A request that begins or ends touches no plan.
LEMMA EditorMoves ==
  ASSUME CostInv, NEW e \in Editors, NEW row,
         editor' = [editor EXCEPT ![e] = row], UNCHANGED <<plan, edited>>,
         CostTypeOK',
         row.pc \in {"idle", "editing", "clearing", "setting", "changing"},
         row.pc \in {"editing", "clearing", "setting"} => row.on \in Plans,
         row.pc = "changing" => row.on \in Measurements /\ row.value \in MeasurementRows,
         row.pc \in {"clearing", "setting"} =>
           plan[row.on].status = "approved" /\ plan[row.on].baseline /\ plan[row.on].covered
  PROVE  CostInv'
<1>1. \A f \in Editors : editor'[f] = IF f = e THEN row ELSE editor[f]
  BY DEF CostInv
<1>2. plan' = plan /\ edited' = edited /\ DOMAIN editor' = Editors
  BY DEF CostInv
<1>3. EditorsHold'
  BY <1>1, <1>2 DEF CostInv, EditorsHold
<1>4. JudgedStaysTrue'
  BY <1>1, <1>2 DEF CostInv, JudgedStaysTrue
<1>5. OneOfficialPlan'
  BY <1>2 DEF CostInv, OneOfficialPlan
<1> QED BY <1>2, <1>3, <1>4, <1>5 DEF CostInv

LEMMA PlanRowChanged ==
  ASSUME CostInv, NEW p \in Plans, NEW row \in PlanRows, plan' = [plan EXCEPT ![p] = row]
  PROVE  /\ plan' \in [Plans -> PlanRows] /\ plan'[p] = row
         /\ \A q \in Plans \ {p} : plan'[q] = plan[q]
<1>1. plan \in [Plans -> PlanRows]
  BY DEF CostInv, CostTypeOK, PlanRows
<1> QED BY <1>1

LEMMA CreatePlanStep ==
  ASSUME CostInv, NEW p \in Plans, CreatePlan(p)
  PROVE  CostInv'
<1>1. PICK y \in Years, baseline \in BOOLEAN, covered \in BOOLEAN :
        plan' = [plan EXCEPT ![p] = [year |-> y, baseline |-> baseline, status |-> "draft",
                                     active |-> FALSE, covered |-> covered]]
  BY DEF CreatePlan
<1>2. /\ plan[p].status = "none" /\ UNCHANGED <<measurement, editor, edited>>
      /\ planEdits' \in 0..MaxPlanEdits
  BY CostAssumption DEF CreatePlan, Request, CostInv, CostTypeOK
<1>3. /\ plan' \in [Plans -> PlanRows] /\ plan'[p].active = FALSE
      /\ \A q \in Plans \ {p} : plan'[q] = plan[q]
  BY <1>1 DEF CostInv, CostTypeOK, PlanRows
<1>4. CostTypeOK'
  BY <1>2, <1>3 DEF CostInv, CostTypeOK, PlanRows
<1>5. \A q \in Plans : plan'[q].active => q # p /\ plan'[q] = plan[q]
  BY <1>3
<1>6. OneOfficialPlan'
  BY <1>2, <1>5 DEF CostInv, OneOfficialPlan
<1>7. JudgedStaysTrue'
  BY <1>2, <1>3 DEF CostInv, JudgedStaysTrue, EditorsHold
<1> QED BY <1>2, <1>4, <1>6, <1>7 DEF CostInv, EditorsHold

LEMMA ApprovePlanStep ==
  ASSUME CostInv, NEW p \in Plans, ApprovePlan(p)
  PROVE  CostInv'
<1>1. plan' = [plan EXCEPT ![p].status = "approved", ![p].active = FALSE]
  BY DEF ApprovePlan
<1>0. PICK row : row = [plan[p] EXCEPT !.status = "approved", !.active = FALSE]
  OBVIOUS
<1>9. row \in PlanRows /\ row.active = FALSE
  <2>1. plan[p] \in PlanRows
    BY DEF CostInv, CostTypeOK, PlanRows
  <2> QED BY <1>0, <2>1 DEF PlanRows
<1>10. plan' = [plan EXCEPT ![p] = row]
  BY <1>0, <1>1
<1>2. /\ ~Locked(p) /\ UNCHANGED <<measurement, editor, edited>>
      /\ planEdits' \in 0..MaxPlanEdits
  BY CostAssumption DEF ApprovePlan, Request, CostInv, CostTypeOK
<1>3. /\ plan' \in [Plans -> PlanRows] /\ plan'[p].active = FALSE
      /\ \A q \in Plans \ {p} : plan'[q] = plan[q]
  BY <1>9, <1>10, PlanRowChanged
<1>4. CostTypeOK'
  BY <1>2, <1>3 DEF CostInv, CostTypeOK, PlanRows
<1>5. \A q \in Plans : plan'[q].active => q # p /\ plan'[q] = plan[q]
  BY <1>3
<1>6. OneOfficialPlan'
  BY <1>2, <1>5 DEF CostInv, OneOfficialPlan
<1>7. \A e \in Editors : editor[e].pc \in {"clearing", "setting"} => editor[e].on # p
  BY <1>2 DEF Locked
<1>8. JudgedStaysTrue'
  BY <1>2, <1>3, <1>7 DEF CostInv, JudgedStaysTrue, EditorsHold
<1> QED BY <1>2, <1>4, <1>6, <1>8 DEF CostInv, EditorsHold

LEMMA ArchivePlanStep ==
  ASSUME CostInv, NEW p \in Plans, ArchivePlan(p)
  PROVE  CostInv'
<1>1. plan' = [plan EXCEPT ![p].status = "archived", ![p].active = FALSE]
  BY DEF ArchivePlan
<1>0. PICK row : row = [plan[p] EXCEPT !.status = "archived", !.active = FALSE]
  OBVIOUS
<1>9. row \in PlanRows /\ row.active = FALSE
  <2>1. plan[p] \in PlanRows
    BY DEF CostInv, CostTypeOK, PlanRows
  <2> QED BY <1>0, <2>1 DEF PlanRows
<1>10. plan' = [plan EXCEPT ![p] = row]
  BY <1>0, <1>1
<1>2. /\ ~Locked(p) /\ UNCHANGED <<measurement, editor, edited>>
      /\ planEdits' \in 0..MaxPlanEdits
  BY CostAssumption DEF ArchivePlan, Request, CostInv, CostTypeOK
<1>3. /\ plan' \in [Plans -> PlanRows] /\ plan'[p].active = FALSE
      /\ \A q \in Plans \ {p} : plan'[q] = plan[q]
  BY <1>9, <1>10, PlanRowChanged
<1>4. CostTypeOK'
  BY <1>2, <1>3 DEF CostInv, CostTypeOK, PlanRows
<1>5. \A q \in Plans : plan'[q].active => q # p /\ plan'[q] = plan[q]
  BY <1>3
<1>6. OneOfficialPlan'
  BY <1>2, <1>5 DEF CostInv, OneOfficialPlan
<1>7. \A e \in Editors : editor[e].pc \in {"clearing", "setting"} => editor[e].on # p
  BY <1>2 DEF Locked
<1>8. JudgedStaysTrue'
  BY <1>2, <1>3, <1>7 DEF CostInv, JudgedStaysTrue, EditorsHold
<1> QED BY <1>2, <1>4, <1>6, <1>8 DEF CostInv, EditorsHold

LEMMA EditPlanStep ==
  ASSUME CostInv, NEW e \in Editors, EditPlan(e)
  PROVE  CostInv'
<1>1. PICK p \in Plans : p = editor[e].on
  BY DEF EditPlan, CostInv, EditorsHold
<1>2. /\ editor[e].pc = "editing" /\ ~Locked(p)
      /\ editor' = [editor EXCEPT ![e] = Uncommitted] /\ UNCHANGED <<measurement, planEdits>>
  BY <1>1 DEF EditPlan
<1>3. /\ editor'[e] = Uncommitted /\ DOMAIN editor' = Editors
      /\ \A f \in Editors : f # e => editor'[f] = editor[f]
  BY <1>2 DEF CostInv
<1>4. EditorsHold'
  BY <1>3 DEF CostInv, EditorsHold, Uncommitted
<1>5. \A f \in Editors : editor'[f].pc \in {"clearing", "setting"} =>
        f # e /\ editor'[f] = editor[f] /\ editor[f].on # p
  BY <1>2, <1>3 DEF Locked, Uncommitted
<1>6. CASE UNCHANGED <<plan, edited>>
  <2>1. CostTypeOK' /\ OneOfficialPlan'
    BY <1>2, <1>4, <1>6 DEF CostInv, CostTypeOK, OneOfficialPlan, EditorsHold
  <2>2. JudgedStaysTrue'
    BY <1>5, <1>6 DEF CostInv, JudgedStaysTrue
  <2> QED BY <1>3, <1>4, <2>1, <2>2 DEF CostInv
<1>7. ASSUME NEW y \in Years, NEW baseline \in BOOLEAN, NEW covered \in BOOLEAN,
             plan' = [plan EXCEPT ![p] = [@ EXCEPT !.year = y, !.baseline = baseline,
                                                   !.covered = covered]],
             Allowed(plan'),
             edited' = IF plan[p].status = "draft" THEN edited ELSE edited \union {p}
      PROVE  CostInv'
  <2>1. /\ plan' \in [Plans -> PlanRows] /\ plan'[p].status = plan[p].status
        /\ \A q \in Plans \ {p} : plan'[q] = plan[q]
    <3>1. PICK row : row = [plan[p] EXCEPT !.year = y, !.baseline = baseline, !.covered = covered]
      OBVIOUS
    <3>2. row \in PlanRows /\ row.status = plan[p].status
      <4>1. plan[p] \in PlanRows
        BY DEF CostInv, CostTypeOK, PlanRows
      <4> QED BY <3>1, <4>1 DEF PlanRows
    <3>3. plan' = [plan EXCEPT ![p] = row]
      BY <1>7, <3>1
    <3> QED BY <3>2, <3>3, PlanRowChanged
  <2>2. edited' \subseteq Plans /\ edited \subseteq edited'
    BY <1>7 DEF CostInv, CostTypeOK
  <2>3. CostTypeOK'
    BY <1>2, <1>4, <2>1, <2>2 DEF CostInv, CostTypeOK, PlanRows, EditorsHold
  <2>4. \A q \in Plans : plan'[q].active => plan'[q].status = "approved" /\ plan'[q].baseline
    BY <1>7 DEF Allowed
  <2>5. \A q \in Plans : plan'[q].active => plan'[q].covered \/ q \in edited'
    <3>1. plan'[p].active => p \in edited'
      BY <1>7, <2>1, <2>4
    <3> QED BY <2>1, <2>2, <3>1 DEF CostInv, OneOfficialPlan
  <2>6. OneOfficialPlan'
    BY <1>7, <2>4, <2>5 DEF Allowed, OneOfficialPlan
  <2>7. JudgedStaysTrue'
    BY <1>5, <2>1 DEF CostInv, JudgedStaysTrue, EditorsHold
  <2> QED BY <1>3, <1>4, <2>3, <2>6, <2>7 DEF CostInv
<1> QED BY <1>1, <1>6, <1>7 DEF EditPlan

LEMMA ActivationStep ==
  ASSUME CostInv, NEW e \in Editors, CommitActivation(e)
  PROVE  CostInv'
<1>1. PICK rows : rows = [p \in Plans |-> IF p = editor[e].on THEN [plan[p] EXCEPT !.active = TRUE]
                               ELSE IF p \in editor[e].rest THEN [plan[p] EXCEPT !.active = FALSE]
                               ELSE plan[p]]
  OBVIOUS
<1>2. /\ editor[e].pc = "setting" /\ plan' = IF Allowed(rows) THEN rows ELSE plan
      /\ editor' = [editor EXCEPT ![e] = Uncommitted] /\ UNCHANGED <<measurement, edited, planEdits>>
  BY <1>1 DEF CommitActivation
<1>3. /\ editor'[e] = Uncommitted /\ DOMAIN editor' = Editors
      /\ \A f \in Editors : f # e => editor'[f] = editor[f]
  BY <1>2 DEF CostInv
<1>4. EditorsHold'
  BY <1>3 DEF CostInv, EditorsHold, Uncommitted
<1>5. /\ rows \in [Plans -> PlanRows]
      /\ \A p \in Plans : /\ rows[p].status = plan[p].status /\ rows[p].baseline = plan[p].baseline
                          /\ rows[p].covered = plan[p].covered
      /\ \A p \in Plans : rows[p].active => plan[p].active \/ p = editor[e].on
  <2>1. ASSUME NEW p \in Plans
        PROVE  /\ rows[p] \in PlanRows
               /\ rows[p].status = plan[p].status /\ rows[p].baseline = plan[p].baseline
               /\ rows[p].covered = plan[p].covered
               /\ rows[p].active => plan[p].active \/ p = editor[e].on
    <3>1. plan[p] \in PlanRows
      BY DEF CostInv, CostTypeOK, PlanRows
    <3>2. \/ rows[p] = [plan[p] EXCEPT !.active = TRUE] /\ p = editor[e].on
          \/ rows[p] = [plan[p] EXCEPT !.active = FALSE]
          \/ rows[p] = plan[p]
      BY <1>1
    <3>3. CASE rows[p] = [plan[p] EXCEPT !.active = TRUE] /\ p = editor[e].on
      BY <3>1, <3>3 DEF PlanRows
    <3>4. CASE rows[p] = [plan[p] EXCEPT !.active = FALSE]
      BY <3>1, <3>4 DEF PlanRows
    <3> QED BY <3>1, <3>2, <3>3, <3>4
  <2> QED BY <1>1, <2>1
<1>6. CostTypeOK'
  BY <1>2, <1>4, <1>5 DEF CostInv, CostTypeOK, PlanRows, EditorsHold
<1>7. \A p \in Plans : /\ plan'[p].status = plan[p].status /\ plan'[p].baseline = plan[p].baseline
                       /\ plan'[p].covered = plan[p].covered
  BY <1>2, <1>5
<1>8. JudgedStaysTrue'
  BY <1>3, <1>7 DEF CostInv, JudgedStaysTrue, EditorsHold, Uncommitted
<1>9. OneOfficialPlan'
  <2>1. CASE Allowed(rows)
    <3>1. plan[editor[e].on].covered
      BY <1>2 DEF CostInv, JudgedStaysTrue
    <3>2. \A p \in Plans : rows[p].active => rows[p].covered \/ p \in edited
      BY <1>5, <3>1 DEF CostInv, OneOfficialPlan
    <3> QED BY <1>2, <2>1, <3>2 DEF Allowed, OneOfficialPlan
  <2>2. CASE ~Allowed(rows)
    BY <1>2, <2>2 DEF CostInv, OneOfficialPlan
  <2> QED BY <2>1, <2>2
<1> QED BY <1>3, <1>4, <1>6, <1>8, <1>9 DEF CostInv

LEMMA RequestsCount ==
  ASSUME CostInv, Request
  PROVE  planEdits' \in 0..MaxPlanEdits
BY CostAssumption DEF Request, CostInv, CostTypeOK

LEMMA PlanStep ==
  ASSUME CostInv, PlanNext
  PROVE  CostInv'
<1>1. ASSUME NEW e \in Editors, NEW p \in Plans, ReadDraft(e, p) PROVE CostInv'
  <2>1. PICK row : row = [Uncommitted EXCEPT !.pc = "editing", !.on = p]
    OBVIOUS
  <2>2. row.pc = "editing" /\ row.on = p
    BY <2>1 DEF Uncommitted
  <2>3. editor' = [editor EXCEPT ![e] = row] /\ UNCHANGED <<plan, measurement, edited>> /\ Request
    BY <1>1, <2>1 DEF ReadDraft
  <2>4. CostTypeOK'
    BY <2>2, <2>3, RequestsCount DEF CostInv, CostTypeOK
  <2> QED BY <2>2, <2>3, <2>4, EditorMoves
<1>2. ASSUME NEW e \in Editors, NEW p \in Plans, BeginActivation(e, p) PROVE CostInv'
  <2>1. PICK row : row = [Uncommitted EXCEPT !.pc = "clearing", !.on = p]
    OBVIOUS
  <2>2. row.pc = "clearing" /\ row.on = p
    BY <2>1 DEF Uncommitted
  <2>3. /\ editor' = [editor EXCEPT ![e] = row] /\ UNCHANGED <<plan, measurement, edited>> /\ Request
        /\ plan[p].status = "approved" /\ plan[p].baseline /\ plan[p].covered
    BY <1>2, <2>1 DEF BeginActivation
  <2>4. CostTypeOK'
    BY <2>2, <2>3, RequestsCount DEF CostInv, CostTypeOK
  <2> QED BY <2>2, <2>3, <2>4, EditorMoves
<1>3. ASSUME NEW e \in Editors, ClearYear(e) PROVE CostInv'
  <2>1. PICK others : others =
          {q \in Plans \ {editor[e].on} : plan[q].active /\ plan[q].year = plan[editor[e].on].year}
    OBVIOUS
  <2>2. /\ editor[e].pc = "clearing" /\ UNCHANGED <<plan, measurement, edited, planEdits>>
        /\ editor' = [editor EXCEPT ![e] = [@ EXCEPT !.pc = "setting", !.rest = others]]
    BY <1>3, <2>1 DEF ClearYear
  <2>3. /\ DOMAIN editor' = Editors
        /\ \A f \in Editors : f # e => editor'[f] = editor[f]
        /\ editor'[e] = [editor[e] EXCEPT !.pc = "setting", !.rest = others]
    BY <2>2 DEF CostInv
  <2>4. editor'[e].pc \in {"setting", "clearing"} /\ editor'[e].on = editor[e].on
    BY <2>2, <2>3
  <2>5. EditorsHold'
    BY <2>2, <2>3, <2>4 DEF CostInv, EditorsHold
  <2>6. JudgedStaysTrue'
    BY <2>2, <2>3, <2>4 DEF CostInv, JudgedStaysTrue
  <2>7. CostTypeOK' /\ OneOfficialPlan'
    BY <2>2, <2>5 DEF CostInv, CostTypeOK, OneOfficialPlan, EditorsHold
  <2> QED BY <2>3, <2>5, <2>6, <2>7 DEF CostInv
<1> QED BY <1>1, <1>2, <1>3, CreatePlanStep, ApprovePlanStep, ArchivePlanStep, EditPlanStep,
           ActivationStep DEF PlanNext

LEMMA SavingsStep ==
  ASSUME CostInv, SavingsNext
  PROVE  CostInv'
<1>1. ASSUME NEW e \in Editors, NEW s \in Measurements, CheckMeasurement(e, s) PROVE CostInv'
  <2>1. PICK value \in Values :
          editor' = [editor EXCEPT ![e] =
            [Uncommitted EXCEPT !.pc = "changing", !.on = s, !.value = value]]
    BY <1>1 DEF CheckMeasurement
  <2>2. PICK row : row = [Uncommitted EXCEPT !.pc = "changing", !.on = s, !.value = value]
    OBVIOUS
  <2>3. row.pc = "changing" /\ row.on = s /\ row.value = value
    BY <2>2 DEF Uncommitted
  <2>4. editor' = [editor EXCEPT ![e] = row] /\ UNCHANGED <<plan, measurement, edited>> /\ Request
    BY <1>1, <2>1, <2>2 DEF CheckMeasurement
  <2>5. value \in MeasurementRows
    BY DEF Values, MeasurementRows
  <2>6. CostTypeOK'
    BY <2>3, <2>4, RequestsCount DEF CostInv, CostTypeOK
  <2> QED BY <2>3, <2>4, <2>5, <2>6, EditorMoves
<1>2. ASSUME NEW e \in Editors, WriteMeasurement(e) PROVE CostInv'
  <2>1. /\ editor[e].pc = "changing" /\ UNCHANGED <<plan, edited, planEdits>>
        /\ measurement' = [measurement EXCEPT ![editor[e].on] = editor[e].value]
        /\ editor' = [editor EXCEPT ![e] = Uncommitted]
    BY <1>2 DEF WriteMeasurement
  <2>2. measurement' \in [Measurements -> MeasurementRows]
    BY <2>1 DEF CostInv, CostTypeOK, EditorsHold, MeasurementRows
  <2>3. Uncommitted.pc = "idle"
    BY DEF Uncommitted
  <2>4. CostTypeOK'
    BY <2>1, <2>2, <2>3 DEF CostInv, CostTypeOK, MeasurementRows
  <2> QED BY <2>1, <2>3, <2>4, EditorMoves
<1>3. ASSUME NEW s \in Measurements, DeleteMeasurement(s) PROVE CostInv'
  <2>1. /\ UNCHANGED <<plan, editor, edited>> /\ Request
        /\ measurement' = [measurement EXCEPT ![s] = NoMeasurement]
    BY <1>3 DEF DeleteMeasurement
  <2>2. CostTypeOK'
    BY <2>1, RequestsCount DEF CostInv, CostTypeOK, NoMeasurement
  <2> QED BY <2>1, <2>2 DEF CostInv, EditorsHold, JudgedStaysTrue, OneOfficialPlan
<1> QED BY <1>1, <1>2, <1>3 DEF SavingsNext

LEMMA CostStep == CostInv /\ [CostNext]_costVars => CostInv'
<1> SUFFICES ASSUME CostInv, [CostNext]_costVars PROVE CostInv'
  OBVIOUS
<1>1. CASE UNCHANGED costVars
  BY <1>1 DEF costVars, CostInv, CostTypeOK, EditorsHold, JudgedStaysTrue, OneOfficialPlan
<1> QED BY <1>1, PlanStep, SavingsStep DEF CostNext

THEOREM CostInvariant == CostSpec => []CostInv
BY CostStart, CostStep, PTL DEF CostSpec

THEOREM CostTypeCorrect == CostSpec => []CostTypeOK
<1>1. CostInv => CostTypeOK
  BY DEF CostInv
<1> QED BY <1>1, CostInvariant, PTL

\* The reader's passes over the first m measurements.
Passes(f, m, order, asOf) ==
  f = [k \in 0..m |-> IF k = 0 THEN {} ELSE Accept(f[k - 1], order[k], asOf)]

LEMMA PassesExist ==
  ASSUME NEW order, NEW asOf, NEW n \in Nat
  PROVE  \E f : Passes(f, n, order, asOf)
<1>1. PICK T : T = {m \in Nat : ~\E f : Passes(f, m, order, asOf)}
  OBVIOUS
<1>2. SUFFICES ASSUME T # {} PROVE FALSE
  BY <1>1
<1>3. PICK m \in T : \A k \in T : m <= k
  BY <1>1, <1>2, Least
<1>4. m \in Nat /\ \A f : ~Passes(f, m, order, asOf)
  BY <1>1
<1>5. CASE m = 0
  <2>1. PICK f : f = [k \in 0..0 |-> {}]
    OBVIOUS
  <2>2. \A k \in 0..0 : k = 0
    OBVIOUS
  <2>3. f = [k \in 0..0 |-> IF k = 0 THEN {} ELSE Accept(f[k - 1], order[k], asOf)]
    BY <2>1, <2>2
  <2> QED BY <1>4, <1>5, <2>3 DEF Passes
<1>6. CASE m # 0
  <2>1. m - 1 \in Nat /\ ~(m <= m - 1)
    BY <1>4, <1>6
  <2>2. m - 1 \notin T
    BY <1>3, <2>1
  <2>3. PICK g : Passes(g, m - 1, order, asOf)
    BY <1>1, <2>1, <2>2
  <2>4. PICK f : f = [k \in 0..m |-> IF k = m THEN Accept(g[m - 1], order[m], asOf) ELSE g[k]]
    OBVIOUS
  <2>5. ASSUME NEW k \in 0..m
        PROVE  f[k] = IF k = 0 THEN {} ELSE Accept(f[k - 1], order[k], asOf)
    <3>1. CASE k = m
      <4>1. m - 1 \in 0..m /\ m - 1 # m
        BY <1>4, <2>1
      <4>2. f[m] = Accept(g[m - 1], order[m], asOf) /\ f[m - 1] = g[m - 1]
        BY <2>4, <3>1, <4>1
      <4> QED BY <1>6, <3>1, <4>2
    <3>2. CASE k # m
      <4>1. k \in 0..(m - 1)
        BY <1>4, <3>2
      <4>2. g[k] = IF k = 0 THEN {} ELSE Accept(g[k - 1], order[k], asOf)
        BY <2>3, <4>1 DEF Passes
      <4>3. f[k] = g[k]
        BY <2>4, <3>2
      <4>4. k # 0 => k - 1 \in 0..m /\ k - 1 # m
        BY <1>4, <4>1
      <4>5. k # 0 => f[k - 1] = g[k - 1]
        BY <2>4, <4>4
      <4> QED BY <4>2, <4>3, <4>5
    <3> QED BY <3>1, <3>2
  <2>6. f = [k \in 0..m |-> IF k = 0 THEN {} ELSE Accept(f[k - 1], order[k], asOf)]
    BY <2>4, <2>5
  <2> QED BY <1>4, <2>6 DEF Passes
<1> QED BY <1>5, <1>6

LEMMA AuditIs ==
  ASSUME NEW order, NEW asOf, \E f : Passes(f, Cardinality(Measurements), order, asOf)
  PROVE  \E f : /\ Passes(f, Cardinality(Measurements), order, asOf)
                /\ Audited(order, asOf) = f[Cardinality(Measurements)]
BY DEF Audited, Passes

\* No two of the accepted measurements overlap.
Disjoint(accepted) ==
  /\ accepted \subseteq Measurements
  /\ \A s, o \in accepted : s # o => ~Overlap(measurement[s], measurement[o])

LEMMA AcceptStaysDisjoint ==
  ASSUME CostTypeOK, NEW A, Disjoint(A), NEW s \in Measurements, NEW asOf
  PROVE  Disjoint(Accept(A, s, asOf))
<1>1. \A x, y \in Measurements :
        Overlap(measurement[x], measurement[y]) => Overlap(measurement[y], measurement[x])
  <2>1. \A x \in Measurements : measurement[x].first \in Nat /\ measurement[x].last \in Nat
    <3>1. SavingsDays \union {0} \subseteq Nat
      BY CostAssumption
    <3>2. \A x \in Measurements : measurement[x] \in MeasurementRows
      BY DEF CostTypeOK, MeasurementRows
    <3>3. \A r \in MeasurementRows : r.first \in Nat /\ r.last \in Nat
      BY <3>1 DEF MeasurementRows
    <3> QED BY <3>2, <3>3
  <2>2. ASSUME NEW x \in Measurements, NEW y \in Measurements,
               Overlap(measurement[x], measurement[y])
        PROVE  Overlap(measurement[y], measurement[x])
    <3>1. PICK a \in Nat, b \in Nat, c \in Nat, d \in Nat :
            /\ a = measurement[x].first /\ b = measurement[x].last
            /\ c = measurement[y].first /\ d = measurement[y].last
      BY <2>1
    <3>2. a <= d /\ b >= c
      BY <2>2, <3>1 DEF Overlap
    <3>3. c <= b /\ d >= a
      BY <3>2
    <3> QED BY <3>1, <3>3 DEF Overlap
  <2> QED BY <2>2
<1>2. CASE Accept(A, s, asOf) = A
  BY <1>2
<1>3. CASE Accept(A, s, asOf) = A \union {s} /\ \A o \in A : ~Overlap(measurement[o], measurement[s])
  BY <1>1, <1>3 DEF Disjoint
<1> QED BY <1>2, <1>3 DEF Accept

LEMMA PassesStayDisjoint ==
  ASSUME CostTypeOK, NEW asOf, NEW n \in Nat, NEW order \in [1..n -> Measurements],
         NEW f, Passes(f, n, order, asOf)
  PROVE  Disjoint(f[n])
<1>1. PICK T : T = {k \in 0..n : ~Disjoint(f[k])}
  OBVIOUS
<1>2. SUFFICES ASSUME T # {} PROVE FALSE
  BY <1>1
<1>3. T \in SUBSET Nat
  BY <1>1
<1>4. PICK k \in T : \A j \in T : k <= j
  BY <1>2, <1>3, Least
<1>5. k \in 0..n /\ ~Disjoint(f[k])
  BY <1>1
<1>6. f[k] = IF k = 0 THEN {} ELSE Accept(f[k - 1], order[k], asOf)
  BY <1>5 DEF Passes
<1>7. k # 0
  BY <1>5, <1>6 DEF Disjoint
<1>8. k - 1 \in 0..n /\ ~(k <= k - 1) /\ k \in 1..n
  BY <1>5, <1>7
<1>9. Disjoint(f[k - 1])
  BY <1>1, <1>4, <1>8
<1>10. order[k] \in Measurements
  BY <1>8
<1>11. Disjoint(Accept(f[k - 1], order[k], asOf))
  BY <1>9, <1>10, AcceptStaysDisjoint
<1> QED BY <1>5, <1>6, <1>7, <1>11

LEMMA SavingsOnce == CostTypeOK => SavingsCountOnce
<1> SUFFICES ASSUME CostTypeOK, NEW asOf \in SavingsDays,
                    NEW order \in AuditOrders(Cardinality(Measurements))
             PROVE  Disjoint(Audited(order, asOf))
  BY DEF SavingsCountOnce, Disjoint
<1>1. PICK n \in Nat : n = Cardinality(Measurements)
  BY CostAssumption, FS_CardinalityType
<1>2. order \in [1..n -> Measurements]
  BY <1>1 DEF AuditOrders
<1>3. \E f : Passes(f, Cardinality(Measurements), order, asOf)
  BY <1>1, PassesExist
<1>4. PICK f : Passes(f, Cardinality(Measurements), order, asOf) /\ Audited(order, asOf) = f[Cardinality(Measurements)]
  BY <1>3, AuditIs
<1>5. Disjoint(f[n])
  BY <1>1, <1>2, <1>4, PassesStayDisjoint
<1> QED BY <1>1, <1>4, <1>5

\* A year has one official forecast at most, an approved baseline plan without gaps unless
\* a late edit opened one, and no day's saving is counted twice.
THEOREM CostsStaySound == CostSpec => []CostsAreSound
<1>1. CostInv => CostsAreSound
  BY SavingsOnce DEF CostInv, CostsAreSound
<1> QED BY <1>1, CostInvariant, PTL

-----------------------------------------------------------------------------
(* The pipeline.                                                           *)

\* Whatever component a behaviour of the pipeline runs, it is a behaviour of each of them:
\* the others stand still.
LEMMA PipelineRuns ==
  MCSpec => /\ SyncSpec /\ BackfillSpec /\ ScanSpec /\ RealtimeSpec /\ SettlementSpec
            /\ DashboardSpec /\ DrilldownSpec /\ PushSpec /\ CostSpec
<1>1. MCInit => /\ SyncInit /\ BackfillInit /\ ScanInit /\ RealtimeInit /\ SettlementInit
                /\ DashboardInit /\ DrilldownInit /\ PushInit /\ CostInit
  BY DEF MCInit
<1>2. [MCNext]_allVars => [SyncNext]_syncVars
  BY DEF MCNext, allVars
<1>3. [MCNext]_allVars => [BackfillNext]_backfillVars
  BY DEF MCNext, allVars
<1>4. [MCNext]_allVars => [ScanNext]_scanVars
  BY DEF MCNext, allVars
<1>5. [MCNext]_allVars => [RealtimeNext]_realtimeVars
  BY DEF MCNext, allVars
<1>6. [MCNext]_allVars => [SettlementNext]_settlementVars
  BY DEF MCNext, allVars
<1>7. [MCNext]_allVars => [DashboardNext]_dashboardVars
  BY DEF MCNext, allVars
<1>8. [MCNext]_allVars => [DrilldownNext]_drilldownVars
  BY DEF MCNext, allVars
<1>9. [MCNext]_allVars => [PushNext]_pushVars
  BY DEF MCNext, allVars
<1>10. [MCNext]_allVars => [CostNext]_costVars
  BY DEF MCNext, allVars, CostNext
<1> QED BY <1>1, <1>2, <1>3, <1>4, <1>5, <1>6, <1>7, <1>8, <1>9, <1>10, PTL
   DEF MCSpec, SyncSpec, BackfillSpec, ScanSpec, RealtimeSpec, SettlementSpec, DashboardSpec,
       DrilldownSpec, PushSpec, CostSpec

\* What the pipeline promises whichever of its components runs: requests for usage are
\* served in full, no request that was seen is lost, and a watermark is earned.
THEOREM PipelineUsageSound == MCSpec => [](SyncIsSound /\ SeenIsKept /\ DayWatermarkIsEarned)
BY PipelineRuns, SyncSound, SeenStays, DayIsEarned, PTL

\* A scan's rows may be billed, in the pipeline.
THEOREM PipelineScansAccurate == MCSpec => []ScanIsAccurate
BY PipelineRuns, ScanStaysAccurate, PTL

\* The kept payloads, the kept lists and the attempts shown are those of the rows.
THEOREM PipelineDashboardsSound == MCSpec => []DashboardsShowTheRows
<1>1. DashboardsAreSound /\ AnswersAreCurrent /\ AttemptsAreAccounted => DashboardsShowTheRows
  BY DEF DashboardsShowTheRows
<1> QED BY <1>1, PipelineRuns, DashboardsSound, AnswersStayCurrent, AttemptsStayAccounted, PTL

\* One official plan a year and no day's saving counted twice, in the pipeline.
THEOREM PipelineCostsSound == MCSpec => []CostRulesHold
<1>1. CostsAreSound => CostRulesHold
  BY DEF CostRulesHold
<1> QED BY <1>1, PipelineRuns, CostsStaySound, PTL

\* Figures do not regress, imports only move forward, and what was shown stays.
THEOREM PipelineStays == MCSpec => FiguresNeverRegress /\ ImplementsImportProgress /\ ShownStays
BY PipelineRuns, FiguresStay, BackfillImplementsProgress, LiveFiguresStay, GoodPayloadStays, PTL
   DEF ShownStays

\* Type correctness of the pipeline.
THEOREM PipelineTypeCorrect == MCSpec => []PipelineTypeOK
<1>1. /\ SyncTypeOK /\ BackfillTypeOK /\ RealtimeTypeOK /\ SettlementTypeOK
      /\ DashboardTypeOK /\ DrilldownTypeOK /\ PushTypeOK /\ CostTypeOK
      => PipelineTypeOK
  BY DEF PipelineTypeOK
<1> QED BY <1>1, PipelineRuns, SyncTypeCorrect, BackfillTypeCorrect, RealtimeTypeCorrect,
   SettlementTypeCorrect, DashboardTypeCorrect, DrilldownTypeCorrect, PushTypeCorrect,
   CostTypeCorrect, PTL

=============================================================================

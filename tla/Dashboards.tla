------------------------------ MODULE Dashboards ------------------------------
(***************************************************************************)
(* The cost dashboard of the administrators.  A payload is too expensive   *)
(* to build for a request, so a request serves the last one, from memory   *)
(* or from observability_dashboard_snapshots, and a background task, one   *)
(* per dashboard, rebuilds it.  A write to the cost ledger forgets what is *)
(* kept: the memory at once, the table one await later.  Requests, tasks   *)
(* and writes of one process interleave at every await.                    *)
(* One dashboard key; a payload is "current" when it was built from all    *)
(* the writes there are, and "old" otherwise.                              *)
(***************************************************************************)
EXTENDS Naturals, FiniteSets

CONSTANTS
  Viewers,           \* requests for the dashboard
  Refreshes,         \* background tasks
  Ledgers,           \* requests that write to the cost ledger
  MaxCostWrites,     \* bound: writes in a behaviour
  MaxRefreshFaults,  \* bound: builds that fail, processes that die
  NoRefresh

ASSUME DashboardAssumption ==
  MaxCostWrites \in Nat /\ MaxRefreshFaults \in Nat /\ NoRefresh \notin Refreshes

VARIABLES
  memo,          \* _observability_memory_snapshots
  saved,         \* observability_dashboard_snapshots
  refreshing,    \* _observability_refresh_tasks: the task registered
  refreshLock,   \* _observability_refresh_lock: who holds it
  cooling,       \* _observability_refresh_failures: a failure in the last ten seconds
  rebuild, viewer, costWriter,
  outrun,        \* since the last invalidation began, a payload older than it was kept
  costWrites, refreshFaults

dashboardVars == <<memo, saved, refreshing, refreshLock, cooling, rebuild, viewer, costWriter,
                   outrun, costWrites, refreshFaults>>
bounds == <<costWrites, refreshFaults>>

NoPayload == [data |-> "none", age |-> "fresh", error |-> FALSE]
Built(data) == [data |-> data, age |-> "fresh", error |-> FALSE]
Kept(rec) == rec.data # "none"
LockFree == refreshLock = "free"
Unasked == [pc |-> "idle", rec |-> NoPayload, force |-> FALSE]
Unstarted == [pc |-> "idle", data |-> "none"]

DashboardInit ==
  /\ memo = NoPayload /\ saved = NoPayload
  /\ refreshing = NoRefresh /\ refreshLock = "free" /\ cooling = FALSE
  /\ rebuild = [t \in Refreshes |-> Unstarted]
  /\ viewer = [v \in Viewers |-> Unasked] /\ costWriter = [w \in Ledgers |-> "idle"]
  /\ outrun = FALSE /\ costWrites = 0 /\ refreshFaults = 0

Outdated(rec) == IF Kept(rec) THEN [rec EXCEPT !.data = "old"] ELSE rec

\* Does the request ask for a rebuild once it has its record?
WantsRefresh(rec, force) ==
  LET usable == Kept(rec) /\ rec.age # "expired"
      served == Kept(rec) /\ ~force /\ (cooling \/ (rec.age = "fresh" /\ ~rec.error))
  IN ~served /\ (usable \/ ~cooling)

Decided(v, rec, force) ==
  IF WantsRefresh(rec, force)
  THEN [viewer EXCEPT ![v] = [Unasked EXCEPT !.pc = "starting"]]
  ELSE [viewer EXCEPT ![v] = Unasked]

-----------------------------------------------------------------------------
(* Requests: _cached_observability_dashboard, _start_observability_refresh *)

LookInMemory(v, force) ==
  /\ viewer[v].pc = "idle" /\ Kept(memo)
  /\ viewer' = Decided(v, memo, force)
  /\ UNCHANGED <<memo, saved, refreshing, refreshLock, cooling, rebuild, costWriter, outrun, bounds>>

LookInStore(v, force) ==
  /\ viewer[v].pc = "idle" /\ ~Kept(memo)
  /\ viewer' = [viewer EXCEPT ![v] = [pc |-> "read", rec |-> saved, force |-> force]]
  /\ UNCHANGED <<memo, saved, refreshing, refreshLock, cooling, rebuild, costWriter, outrun, bounds>>

\* What the table answered goes to memory, whatever happened to the table since.
KeepAnswer(v) ==
  /\ viewer[v].pc = "read"
  /\ memo' = IF Kept(viewer[v].rec) THEN viewer[v].rec ELSE memo
  /\ outrun' = (outrun \/ viewer[v].rec.data = "old")
  /\ viewer' = Decided(v, viewer[v].rec, viewer[v].force)
  /\ UNCHANGED <<saved, refreshing, refreshLock, cooling, rebuild, costWriter, bounds>>

Joinable == refreshing # NoRefresh

JoinRefresh(v) ==
  /\ viewer[v].pc = "starting" /\ LockFree /\ Joinable
  /\ viewer' = [viewer EXCEPT ![v] = Unasked]
  /\ UNCHANGED <<memo, saved, refreshing, refreshLock, cooling, rebuild, costWriter, outrun, bounds>>

\* Mutant: the lock is let go over the await.
MarkRefreshingUnlocked(v) ==
  /\ viewer[v].pc = "starting" /\ LockFree /\ ~Joinable
  /\ saved' = [saved EXCEPT !.error = FALSE]
  /\ viewer' = [viewer EXCEPT ![v].pc = "marking"]
  /\ UNCHANGED <<memo, refreshing, refreshLock, cooling, rebuild, costWriter, outrun, bounds>>

\* mark_observability_snapshot_refresh, with the lock held over the await.
MarkRefreshing(v) ==
  /\ viewer[v].pc = "starting" /\ LockFree /\ ~Joinable
  /\ refreshLock' = "held"
  /\ saved' = [saved EXCEPT !.error = FALSE]
  /\ viewer' = [viewer EXCEPT ![v].pc = "marking"]
  /\ UNCHANGED <<memo, refreshing, cooling, rebuild, costWriter, outrun, bounds>>

LaunchRefresh(v, t) ==
  /\ viewer[v].pc = "marking" /\ rebuild[t].pc = "idle"
  /\ rebuild' = [rebuild EXCEPT ![t] = [pc |-> "building", data |-> "current"]]
  /\ refreshing' = t /\ refreshLock' = "free"
  /\ viewer' = [viewer EXCEPT ![v] = Unasked]
  /\ UNCHANGED <<memo, saved, cooling, costWriter, outrun, bounds>>

-----------------------------------------------------------------------------
(* The background task: _observability_refresh *)

SaveRefresh(t) ==
  /\ rebuild[t].pc = "building"
  /\ saved' = Built(rebuild[t].data)
  /\ outrun' = (outrun \/ rebuild[t].data = "old")
  /\ rebuild' = [rebuild EXCEPT ![t].pc = "saved"]
  /\ UNCHANGED <<memo, refreshing, refreshLock, cooling, viewer, costWriter, bounds>>

PublishRefresh(t) ==
  /\ rebuild[t].pc = "saved"
  /\ memo' = Built(rebuild[t].data) /\ cooling' = FALSE
  /\ outrun' = (outrun \/ rebuild[t].data = "old")
  /\ rebuild' = [rebuild EXCEPT ![t].pc = "ending"]
  /\ UNCHANGED <<saved, refreshing, refreshLock, viewer, costWriter, bounds>>

\* The last good payload stays, and says that its refresh has failed.
FailRefresh(t) ==
  /\ rebuild[t].pc = "building" /\ refreshFaults < MaxRefreshFaults
  /\ cooling' = TRUE /\ refreshFaults' = refreshFaults + 1
  /\ memo' = IF Kept(memo) THEN [memo EXCEPT !.error = TRUE] ELSE memo
  /\ rebuild' = [rebuild EXCEPT ![t].pc = "failing"]
  /\ UNCHANGED <<saved, refreshing, refreshLock, viewer, costWriter, outrun, costWrites>>

MarkFailed(t) ==
  /\ rebuild[t].pc = "failing"
  /\ saved' = IF Kept(saved) THEN [saved EXCEPT !.error = TRUE] ELSE saved
  /\ rebuild' = [rebuild EXCEPT ![t].pc = "ending"]
  /\ UNCHANGED <<memo, refreshing, refreshLock, cooling, viewer, costWriter, outrun, bounds>>

EndRefresh(t) ==
  /\ rebuild[t].pc = "ending" /\ LockFree
  /\ rebuild' = [rebuild EXCEPT ![t] = Unstarted] /\ refreshing' = NoRefresh
  /\ UNCHANGED <<memo, saved, refreshLock, cooling, viewer, costWriter, outrun, bounds>>

-----------------------------------------------------------------------------
(* Writes: a cost handler, _invalidate_observability_dashboard *)

\* The commit: what was built, or is being built, does not show it.
WriteCost(w) ==
  /\ costWriter[w] = "idle" /\ costWrites < MaxCostWrites
  /\ costWrites' = costWrites + 1
  /\ costWriter' = [costWriter EXCEPT ![w] = "written"]
  /\ memo' = Outdated(memo) /\ saved' = Outdated(saved)
  /\ rebuild' = [t \in Refreshes |->
       IF rebuild[t].pc \in {"building", "saved"} THEN [rebuild[t] EXCEPT !.data = "old"]
       ELSE rebuild[t]]
  /\ viewer' = [v \in Viewers |-> [viewer[v] EXCEPT !.rec = Outdated(@)]]
  /\ UNCHANGED <<refreshing, refreshLock, cooling, outrun, refreshFaults>>

\* Mutant: the memory is left to expire.
ForgetMemoryLater(w) ==
  /\ costWriter[w] = "written"
  /\ costWriter' = [costWriter EXCEPT ![w] = "forgotten"]
  /\ cooling' = FALSE /\ outrun' = FALSE
  /\ UNCHANGED <<memo, saved, refreshing, refreshLock, rebuild, viewer, bounds>>

ForgetMemory(w) ==
  /\ costWriter[w] = "written"
  /\ costWriter' = [costWriter EXCEPT ![w] = "forgotten"]
  /\ memo' = NoPayload /\ cooling' = FALSE /\ outrun' = FALSE
  /\ UNCHANGED <<saved, refreshing, refreshLock, rebuild, viewer, bounds>>

ForgetSaved(w) ==
  /\ costWriter[w] = "forgotten"
  /\ costWriter' = [costWriter EXCEPT ![w] = "idle"]
  /\ saved' = NoPayload
  /\ UNCHANGED <<memo, refreshing, refreshLock, cooling, rebuild, viewer, outrun, bounds>>

-----------------------------------------------------------------------------
(* Time and the process *)

Older(rec) == [rec EXCEPT !.age = IF @ = "fresh" THEN "stale" ELSE "expired"]

BoardAges ==
  /\ Kept(saved) /\ saved.age # "expired"
  /\ saved' = Older(saved) /\ memo' = IF Kept(memo) THEN Older(memo) ELSE memo
  /\ UNCHANGED <<refreshing, refreshLock, cooling, rebuild, viewer, costWriter, outrun, bounds>>

FailureCools ==
  /\ cooling /\ cooling' = FALSE
  /\ UNCHANGED <<memo, saved, refreshing, refreshLock, rebuild, viewer, costWriter, outrun, bounds>>

\* A write that was committed and not yet invalidated leaves the old payload in the table.
DashboardRestart ==
  /\ refreshFaults < MaxRefreshFaults /\ refreshFaults' = refreshFaults + 1
  /\ memo' = NoPayload /\ cooling' = FALSE /\ refreshing' = NoRefresh /\ refreshLock' = "free"
  /\ rebuild' = [t \in Refreshes |-> Unstarted]
  /\ viewer' = [v \in Viewers |-> Unasked] /\ costWriter' = [w \in Ledgers |-> "idle"]
  /\ outrun' = (outrun \/ \E w \in Ledgers : costWriter[w] # "idle")
  /\ UNCHANGED <<saved, costWrites>>

DashboardNext ==
  \/ \E v \in Viewers :
       \/ \E force \in BOOLEAN : LookInMemory(v, force) \/ LookInStore(v, force)
       \/ KeepAnswer(v)
       \/ JoinRefresh(v) \/ MarkRefreshing(v)
       \/ \E t \in Refreshes : LaunchRefresh(v, t)
  \/ \E t \in Refreshes :
       SaveRefresh(t) \/ PublishRefresh(t) \/ FailRefresh(t) \/ MarkFailed(t) \/ EndRefresh(t)
  \/ \E w \in Ledgers : WriteCost(w) \/ ForgetMemory(w) \/ ForgetSaved(w)
  \/ BoardAges \/ FailureCools \/ DashboardRestart

DashboardSpec == DashboardInit /\ [][DashboardNext]_dashboardVars

-----------------------------------------------------------------------------
PayloadRecords == [data : {"none", "current", "old"}, age : {"fresh", "stale", "expired"},
                   error : BOOLEAN]

\* Payloads, tasks and requests keep their types.
DashboardTypeOK ==
  /\ memo \in PayloadRecords /\ saved \in PayloadRecords
  /\ refreshing \in Refreshes \union {NoRefresh} /\ refreshLock \in {"free", "held"}
  /\ cooling \in BOOLEAN /\ outrun \in BOOLEAN
  /\ rebuild \in [Refreshes -> [pc : {"idle", "building", "saved", "failing", "ending"},
                                data : {"none", "current", "old"}]]
  /\ viewer \in [Viewers -> [pc : {"idle", "read", "starting", "marking"},
                             rec : PayloadRecords, force : BOOLEAN]]
  /\ costWriter \in [Ledgers -> {"idle", "written", "forgotten"}]
  /\ costWrites \in 0..MaxCostWrites /\ refreshFaults \in 0..MaxRefreshFaults

\* However many requests find the payload missing or stale, one task builds it.
OneRefresh == Cardinality({t \in Refreshes : rebuild[t].pc # "idle"}) <= 1

\* Once the writes have been invalidated, a payload that does not show them is kept only
\* where it was built or read before them and stored after them.
InvalidationHolds ==
  (\A w \in Ledgers : costWriter[w] = "idle") /\ ~outrun =>
    memo.data # "old" /\ saved.data # "old"

DashboardsAreSound == OneRefresh /\ InvalidationHolds

\* A refresh that fails takes nothing away: the last good payload is gone only after a
\* write or with the process.
LastGoodStays ==
  [][Kept(memo) /\ ~Kept(memo') =>
       (\E w \in Ledgers : costWriter[w] = "written") \/ refreshFaults' > refreshFaults]_dashboardVars
==============================================================================

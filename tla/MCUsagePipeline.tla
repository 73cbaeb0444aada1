--------------------------- MODULE MCUsagePipeline ---------------------------
(***************************************************************************)
(* The usage pipeline and the dashboards over it: components that meet     *)
(* only in the rows of the warehouse, where none of the modules looks.  A  *)
(* behaviour of this instance picks one of them and runs it, while the     *)
(* others rest in their initial states: interleaving what shares nothing   *)
(* would multiply the states and show nothing.                             *)
(***************************************************************************)
EXTENDS UsageSync, UsageBackfill, LogScan, RealtimeLive, RealtimeSettlement,
        Dashboards, Drilldowns, AttemptPush, CostPlans

VARIABLE focus

allVars == <<syncVars, backfillVars, scanVars, realtimeVars, settlementVars, dashboardVars,
             drilldownVars, pushVars, costVars, focus>>

MCWindows == {<<1, 2>>}
MCPeriods == {<<2, 2>>}
MCRequestDay == [q \in Requests |-> IF q = CHOOSE r \in Requests : TRUE THEN 0 ELSE 1]

MCInit ==
  /\ SyncInit /\ BackfillInit /\ ScanInit /\ RealtimeInit /\ SettlementInit
  /\ DashboardInit /\ DrilldownInit /\ PushInit /\ CostInit
  /\ focus \in {"sync", "backfill", "scan", "live", "settlement", "dashboard", "drilldowns",
                "attempts", "plans", "savings"}
  /\ focus # "scan" =>
       spendLog = <<>> /\ scan.reports = "nothing" /\ ~scan.keyed /\ ~scan.partial
  /\ focus # "live" => emptyAnswer = "stream"

MCNext ==
  /\ IF focus = "sync" THEN SyncNext ELSE UNCHANGED syncVars
  /\ IF focus = "backfill" THEN BackfillNext ELSE UNCHANGED backfillVars
  /\ IF focus = "scan" THEN ScanNext ELSE UNCHANGED scanVars
  /\ IF focus = "live" THEN RealtimeNext ELSE UNCHANGED realtimeVars
  /\ IF focus = "settlement" THEN SettlementNext ELSE UNCHANGED settlementVars
  /\ IF focus = "dashboard" THEN DashboardNext ELSE UNCHANGED dashboardVars
  /\ IF focus = "drilldowns" THEN DrilldownNext ELSE UNCHANGED drilldownVars
  /\ IF focus = "attempts" THEN PushNext ELSE UNCHANGED pushVars
  /\ CASE focus = "plans"   -> PlanNext
       [] focus = "savings" -> SavingsNext
       [] OTHER             -> UNCHANGED costVars
  /\ UNCHANGED focus

MCSpec == MCInit /\ [][MCNext]_allVars

\* The tables, leases, caches and marks of the components keep their types.
PipelineTypeOK ==
  /\ focus = "sync" => SyncTypeOK
  /\ focus = "backfill" => BackfillTypeOK
  /\ focus = "live" => RealtimeTypeOK
  /\ focus = "settlement" => SettlementTypeOK
  /\ focus = "dashboard" => DashboardTypeOK
  /\ focus = "drilldowns" => DrilldownTypeOK
  /\ focus = "attempts" => PushTypeOK
  /\ focus \in {"plans", "savings"} => CostTypeOK

\* What the administrators' dashboards show: the kept payloads, the kept lists, and the
\* attempts they count.
DashboardsShowTheRows ==
  /\ focus = "dashboard" => DashboardsAreSound
  /\ focus = "drilldowns" => AnswersAreCurrent
  /\ focus = "attempts" => AttemptsAreAccounted

\* The cost ledger's own rules: one official plan a year, no day's saving counted twice.
CostRulesHold == focus \in {"plans", "savings"} => CostsAreSound

\* What has been shown does not shrink or vanish: a live figure, a dashboard's payload.
ShownStays == ShownNeverShrinks /\ LastGoodStays
==============================================================================

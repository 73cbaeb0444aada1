---------------------------- MODULE UsageBackfill ----------------------------
(***************************************************************************)
(* The import of historical usage of report-only keys                      *)
(* (customer_usage_backfill).  A job asks for the days FirstDay..FinalDay  *)
(* of one key; workers claim its next window of at most WindowDays under a *)
(* lease, scan the upstream's logs of that key, merge the rows into the    *)
(* warehouse and move the job's next_date past the window.  A claim whose  *)
(* lease ran out is taken back by the next claim; the lease token decides  *)
(* whether a late end still counts.                                        *)
(*                                                                         *)
(* A lease token is random and used once.  A worker has one claim at a     *)
(* time, so its name serves as the token.                                  *)
(***************************************************************************)
EXTENDS Naturals

CONSTANTS
  Imports,          \* rows of customer_usage_backfill
  Importers,        \* processes that run run_usage_backfill_once
  FirstDay, FinalDay, WindowDays,
  PoisonedImports,  \* jobs whose logs never pass the attribution checks
  MaxScanFailures,  \* bound: failed scans of the other jobs
  MaxImportFaults,  \* bound: crashes of workers and leases outlasted
  NoImporter

ASSUME BackfillAssumption ==
  /\ FirstDay \in Nat /\ FinalDay \in Nat /\ FirstDay <= FinalDay
  /\ WindowDays \in Nat \ {0} /\ PoisonedImports \subseteq Imports
  /\ MaxScanFailures \in Nat /\ MaxImportFaults \in Nat
  /\ NoImporter \notin Importers /\ Imports # {}

VARIABLES
  jobs,          \* status, next_date and lease of every job
  turns,         \* the order of updated_at: pairs of jobs, the first no later than the second
  importer,      \* what each worker has claimed and done
  stored,        \* ghost: days of a job whose rows were merged
  scanFailures, importFaults

backfillVars == <<jobs, turns, importer, stored, scanFailures, importFaults>>

NoClaim == [pc |-> "idle", job |-> CHOOSE j \in Imports : TRUE, from |-> FirstDay, through |-> FirstDay]

BackfillInit ==
  /\ jobs = [j \in Imports |-> [status |-> "absent", next |-> FirstDay,
                             lease |-> NoImporter, expired |-> FALSE]]
  /\ turns = {}
  /\ importer = [i \in Importers |-> NoClaim]
  /\ stored = [j \in Imports |-> {}]
  /\ scanFailures = 0 /\ importFaults = 0

Placed(order) == {j \in Imports : <<j, j>> \in order}

\* Every write sets updated_at, which puts the job last.
Touched(order, touched) ==
  {p \in Placed(order) \X Placed(order) :
     IF p[1] \in touched <=> p[2] \in touched THEN p \in order ELSE p[2] \in touched}

-----------------------------------------------------------------------------
\* A second request for the same key and range finds the row.
EnsureBackfill(j) ==
  /\ jobs[j].status = "absent"
  /\ jobs' = [jobs EXCEPT ![j].status = "pending"]
  /\ turns' = turns \union {<<k, j>> : k \in Placed(turns) \union {j}}
  /\ UNCHANGED <<importer, stored, scanFailures, importFaults>>

\* locked_at falls behind ORGANIZATION_BACKFILL_LEASE_SECONDS; the holder may
\* be dead or, which is bounded, merely slow.
LeaseRunsOut(j) ==
  /\ jobs[j].status = "running" /\ ~jobs[j].expired
  /\ jobs' = [jobs EXCEPT ![j].expired = TRUE]
  /\ IF \E i \in Importers : importer[i].pc # "idle" /\ importer[i].job = j
     THEN importFaults < MaxImportFaults /\ importFaults' = importFaults + 1
     ELSE UNCHANGED importFaults
  /\ UNCHANGED <<turns, importer, stored, scanFailures>>

Stale(j) == jobs[j].status = "running" /\ jobs[j].expired
StaleJobs == {j \in Imports : Stale(j)}

\* The claim first turns stale leases into failures, then takes the job that
\* was touched least recently.
AfterReclaim ==
  [j \in Imports |-> IF Stale(j)
                  THEN [jobs[j] EXCEPT !.status = "failed", !.lease = NoImporter, !.expired = FALSE]
                  ELSE jobs[j]]

Due(j) == AfterReclaim[j].status \in {"pending", "partial", "failed"} /\ jobs[j].next <= FinalDay

\* Mutant: the jobs are taken in the order of their creation.
OrderOfClaimsFixed ==
  CHOOSE order \in SUBSET (Imports \X Imports) : \A j, k \in Imports :
    <<j, j>> \in order /\ (j # k => (<<j, k>> \in order <=> <<k, j>> \notin order))

OrderOfClaims == Touched(turns, StaleJobs)

FirstDue(j) == Due(j) /\ \A other \in Imports : Due(other) => <<j, other>> \in OrderOfClaims

WindowEnd(j) ==
  IF jobs[j].next + WindowDays - 1 <= FinalDay THEN jobs[j].next + WindowDays - 1 ELSE FinalDay

ClaimWindow(i) ==
  /\ importer[i].pc = "idle"
  /\ \E j \in Imports :
       /\ FirstDue(j)
       /\ jobs' = [AfterReclaim EXCEPT ![j].status = "running", ![j].lease = i]
       /\ turns' = Touched(OrderOfClaims, {j})
       /\ importer' = [importer EXCEPT ![i] =
             [pc |-> "scan", job |-> j, from |-> jobs[j].next, through |-> WindowEnd(j)]]
  /\ UNCHANGED <<stored, scanFailures, importFaults>>

\* The claim found nothing to do; the stale leases are failures all the same.
ClaimNothing(i) ==
  /\ importer[i].pc = "idle" /\ StaleJobs # {} /\ \A j \in Imports : ~Due(j)
  /\ jobs' = AfterReclaim
  /\ turns' = Touched(turns, StaleJobs)
  /\ UNCHANGED <<importer, stored, scanFailures, importFaults>>

-----------------------------------------------------------------------------
(* One window *)

Holds(i) == jobs[importer[i].job].status = "running" /\ jobs[importer[i].job].lease = i

\* The scan is complete and every row is the key's own.
ScanWindow(i) ==
  /\ importer[i].pc = "scan" /\ importer[i].job \notin PoisonedImports
  /\ importer' = [importer EXCEPT ![i].pc = "store"]
  /\ UNCHANGED <<jobs, turns, stored, scanFailures, importFaults>>

\* The scan raises or is incomplete, or its rows belong to another user or key.
ScanFails(i) ==
  /\ importer[i].pc = "scan"
  /\ IF importer[i].job \in PoisonedImports THEN UNCHANGED scanFailures
     ELSE scanFailures < MaxScanFailures /\ scanFailures' = scanFailures + 1
  /\ importer' = [importer EXCEPT ![i].pc = "fail"]
  /\ UNCHANGED <<jobs, turns, stored, importFaults>>

\* upsert_attributed_usage merges by key, so a repetition changes nothing.
StoreWindow(i) ==
  /\ importer[i].pc = "store"
  /\ stored' = [stored EXCEPT ![importer[i].job] = @ \cup importer[i].from..importer[i].through]
  /\ importer' = [importer EXCEPT ![i].pc = "complete"]
  /\ UNCHANGED <<jobs, turns, scanFailures, importFaults>>

NextAfter(i) == importer[i].through + 1

\* Mutant: a job that failed is resumed behind the window.
FailedRowSkipping(j) ==
  [jobs[j] EXCEPT !.status = "failed", !.lease = NoImporter, !.expired = FALSE,
                  !.next = WindowEnd(j) + 1]

FailedRow(j) == [jobs[j] EXCEPT !.status = "failed", !.lease = NoImporter, !.expired = FALSE]

CompleteWindow(i) ==
  /\ importer[i].pc = "complete" /\ Holds(i)
  /\ LET j == importer[i].job IN
       /\ jobs' = [jobs EXCEPT ![j] =
             [status |-> IF importer[i].through >= FinalDay THEN "complete" ELSE "partial",
              next |-> NextAfter(i), lease |-> NoImporter, expired |-> FALSE]]
       /\ turns' = Touched(turns, {j})
  /\ importer' = [importer EXCEPT ![i] = NoClaim]
  /\ UNCHANGED <<stored, scanFailures, importFaults>>

\* The lease is no longer current: completing raises, failing raises again,
\* and the run is abandoned with the row untouched.
CompleteRejected(i) ==
  /\ importer[i].pc = "complete" /\ ~Holds(i)
  /\ importer' = [importer EXCEPT ![i] = NoClaim]
  /\ UNCHANGED <<jobs, turns, stored, scanFailures, importFaults>>

FailWindow(i) ==
  /\ importer[i].pc = "fail"
  /\ IF Holds(i)
     THEN /\ jobs' = [jobs EXCEPT ![importer[i].job] = FailedRow(importer[i].job)]
          /\ turns' = Touched(turns, {importer[i].job})
     ELSE UNCHANGED <<jobs, turns>>
  /\ importer' = [importer EXCEPT ![i] = NoClaim]
  /\ UNCHANGED <<stored, scanFailures, importFaults>>

CrashImporter(i) ==
  /\ importer[i].pc # "idle" /\ importFaults < MaxImportFaults
  /\ importFaults' = importFaults + 1
  /\ importer' = [importer EXCEPT ![i] = NoClaim]
  /\ UNCHANGED <<jobs, turns, stored, scanFailures>>

-----------------------------------------------------------------------------
ImportStep(i) ==
  \/ ScanWindow(i) \/ ScanFails(i) \/ StoreWindow(i)
  \/ CompleteWindow(i) \/ CompleteRejected(i) \/ FailWindow(i)

ClaimImport(i) == ClaimWindow(i) \/ ClaimNothing(i)

BackfillNext ==
  \/ \E j \in Imports : EnsureBackfill(j) \/ LeaseRunsOut(j)
  \/ \E i \in Importers : ClaimImport(i) \/ ImportStep(i) \/ CrashImporter(i)

BackfillSpec == BackfillInit /\ [][BackfillNext]_backfillVars

\* A live worker finishes its window and every synchronization, which comes
\* round each period, claims again; time passes.
BackfillFairness ==
  /\ \A i \in Importers : WF_backfillVars(ImportStep(i)) /\ WF_backfillVars(ClaimImport(i))
  /\ \A j \in Imports : WF_backfillVars(LeaseRunsOut(j))

-----------------------------------------------------------------------------
(* Properties *)

BackfillTypeOK ==
  /\ jobs \in [Imports -> [status : {"absent", "pending", "running", "partial", "complete", "failed"},
                        next : FirstDay..FinalDay + 1,
                        lease : Importers \cup {NoImporter}, expired : BOOLEAN]]
  /\ turns \subseteq Imports \X Imports
  /\ importer \in [Importers ->
        [pc : {"idle", "scan", "store", "complete", "fail"}, job : Imports,
         from : FirstDay..FinalDay, through : FirstDay..FinalDay]]
  /\ stored \in [Imports -> SUBSET (FirstDay..FinalDay)]
  /\ scanFailures \in 0..MaxScanFailures /\ importFaults \in 0..MaxImportFaults

\* The promise: next_date only moves forward, one window at a time, over days
\* whose rows are in the warehouse, although workers crash, outlast their
\* lease and end windows that have been claimed again.
Progress == INSTANCE ImportProgress
              WITH frontier <- [j \in Imports |-> jobs[j].next], imported <- stored

ImplementsImportProgress == Progress!ProgressSpec

\* A job whose logs can be imported is completed, even beside one that fails
\* for ever: every failure sends a job to the end of the line.
BackfillCompletes ==
  \A j \in Imports \ PoisonedImports : jobs[j].status = "pending" ~> jobs[j].status = "complete"
=============================================================================

---------------------------- MODULE PilotReconcile ----------------------------
(***************************************************************************)
(* The repair of the pilot organization.  It was provisioned to an         *)
(* upstream organization of its own, beside the one its keys live in; a    *)
(* script moves it there.  One transaction moves the mapping, supersedes   *)
(* the jobs of the old one, queues a new one and takes over the credit an  *)
(* operator had granted by hand.  Then the script imports the keys (module *)
(* Adoption), provisions the administrator, makes sure that he is in the   *)
(* new organization and takes him out of the old one.  It may die anywhere *)
(* and be run again.  The outbox worker and the task that grants the       *)
(* pilot's credit go on meanwhile.                                         *)
(***************************************************************************)
EXTENDS Naturals, FiniteSets

CONSTANTS MaxPilotFaults   \* bound: failures of the script and of the worker

ASSUME PilotAssumption == MaxPilotFaults \in Nat

VARIABLES
  mapping,      \* the upstream organization of the row: "old" or "new"
  david,        \* status of the administrator's row
  memberOf,     \* upstream organizations he is a member of
  oldJob, newJob,   \* his provisioning jobs
  reconciled,   \* the operation is applied
  script,       \* what the script does, what it read, where it provisions him
  pilotWorker,  \* the same for the outbox worker
  keysImported,
  ledger,       \* credits in the ledger: "legacy", "initial"
  late,         \* the operator's credit came after the repair
  granting,     \* the credit task has found everything in place
  left,         \* the script has taken him out of the old organization
  pilotFaults

pilotVars == <<mapping, david, memberOf, oldJob, newJob, reconciled, script, pilotWorker,
               keysImported, ledger, late, granting, left, pilotFaults>>

jobRows == <<oldJob, newJob>>
creditVars == <<ledger, late, granting>>

Still == [pc |-> "idle", saw |-> "invited", into |-> "old"]

\* He has accepted his invitation; his first provisioning is queued or given up.
PilotInit ==
  /\ mapping = "old" /\ david = "invited" /\ memberOf = {}
  /\ oldJob \in {"pending", "failed"} /\ newJob = "none" /\ reconciled = FALSE
  /\ script = Still /\ pilotWorker = Still /\ keysImported = FALSE
  /\ ledger = {} /\ late = FALSE /\ granting = FALSE /\ left = FALSE /\ pilotFaults = 0

ScriptAt(pc) == script.pc = pc
ScriptGoes(pc) == script' = [script EXCEPT !.pc = pc]

-----------------------------------------------------------------------------
(* The script *)

\* Either nothing is done yet, or the repair is on record and is resumed.
BuildPreview ==
  /\ ScriptAt("idle")
  /\ mapping = "old" => david = "invited"
  /\ script' = [script EXCEPT !.pc = IF mapping = "old" THEN "repair" ELSE "keys", !.saw = david]
  /\ UNCHANGED <<mapping, david, memberOf, jobRows, reconciled, pilotWorker, keysImported,
                 creditVars, left, pilotFaults>>

Superseded(job) == IF job \in {"pending", "processing", "failed"} THEN "superseded" ELSE job

AdoptedCredit(credits) == IF "legacy" \in credits THEN {"initial"} ELSE credits

ReconcilePilotState ==
  /\ ScriptAt("repair") /\ ~reconciled
  /\ mapping = "old" /\ david = "invited" /\ ledger \in {{}, {"legacy"}}
  /\ mapping' = "new" /\ reconciled' = TRUE /\ ledger' = AdoptedCredit(ledger)
  /\ oldJob' = Superseded(oldJob) /\ newJob' = "pending"
  /\ ScriptGoes("keys")
  /\ UNCHANGED <<david, memberOf, pilotWorker, keysImported, late, granting, left, pilotFaults>>

\* The fingerprints of the keys are read once more before the import.
ImportPilotKeys ==
  /\ ScriptAt("keys") /\ keysImported' = TRUE
  /\ ScriptGoes(IF script.saw = "active" THEN "confirm" ELSE "provision")
  /\ UNCHANGED <<mapping, david, memberOf, jobRows, reconciled, pilotWorker, creditVars, left,
                 pilotFaults>>

\* Mutant: the membership is not confirmed.
ConfirmedAlways == TRUE

Confirmed == "new" \in memberOf

ConfirmMembership ==
  /\ ScriptAt("confirm") /\ ScriptGoes(IF Confirmed THEN "leave" ELSE "idle")
  /\ UNCHANGED <<mapping, david, memberOf, jobRows, reconciled, pilotWorker, keysImported,
                 creditVars, left, pilotFaults>>

RemoveLegacyMembership ==
  /\ ScriptAt("leave") /\ memberOf' = memberOf \ {"old"} /\ left' = TRUE
  /\ script' = Still
  /\ UNCHANGED <<mapping, david, jobRows, reconciled, pilotWorker, keysImported, creditVars,
                 pilotFaults>>

PilotFault == pilotFaults < MaxPilotFaults /\ pilotFaults' = pilotFaults + 1

\* Also when what it found has changed: the next run reads everything again.
ScriptFails ==
  /\ script.pc # "idle" /\ script' = Still
  /\ \/ ScriptAt("repair") /\ (mapping # "old" \/ david # "invited") /\ UNCHANGED pilotFaults
     \/ PilotFault
  /\ UNCHANGED <<mapping, david, memberOf, jobRows, reconciled, pilotWorker, keysImported,
                 creditVars, left>>

-----------------------------------------------------------------------------
(* provision_member, by the worker and by the script *)

\* The mapping is read once, at the beginning.
WorkerClaims ==
  /\ pilotWorker.pc = "idle"
  /\ \/ /\ oldJob = "pending" /\ oldJob' = "processing" /\ UNCHANGED newJob
        /\ pilotWorker' = [pc |-> "join", saw |-> "old", into |-> mapping]
     \/ /\ newJob = "pending" /\ newJob' = "processing" /\ UNCHANGED oldJob
        /\ pilotWorker' = [pc |-> "join", saw |-> "new", into |-> mapping]
  /\ UNCHANGED <<mapping, david, memberOf, reconciled, script, keysImported, creditVars, left,
                 pilotFaults>>

ScriptProvisions ==
  /\ ScriptAt("provision") /\ script' = [script EXCEPT !.pc = "join", !.into = mapping]
  /\ UNCHANGED <<mapping, david, memberOf, jobRows, reconciled, pilotWorker, keysImported,
                 creditVars, left, pilotFaults>>

JoinAndActivate(into) == memberOf' = memberOf \cup {into}

WorkerJoins ==
  /\ pilotWorker.pc = "join" /\ JoinAndActivate(pilotWorker.into)
  /\ pilotWorker' = [pilotWorker EXCEPT !.pc = "activate"]
  /\ UNCHANGED <<mapping, david, jobRows, reconciled, script, keysImported, creditVars, left,
                 pilotFaults>>

ScriptJoins ==
  /\ ScriptAt("join") /\ JoinAndActivate(script.into) /\ ScriptGoes("activate")
  /\ UNCHANGED <<mapping, david, jobRows, reconciled, pilotWorker, keysImported, creditVars,
                 left, pilotFaults>>

ScriptActivates ==
  /\ ScriptAt("activate") /\ david' = "active" /\ ScriptGoes("confirm")
  /\ UNCHANGED <<mapping, memberOf, jobRows, reconciled, pilotWorker, keysImported, creditVars,
                 left, pilotFaults>>

\* complete_outbox does not look at what has become of the row meanwhile.
WorkerEnds(state) ==
  /\ pilotWorker' = Still
  /\ IF pilotWorker.saw = "old" THEN oldJob' = state /\ UNCHANGED newJob
                                ELSE newJob' = state /\ UNCHANGED oldJob
  /\ UNCHANGED <<mapping, memberOf, reconciled, script, keysImported, creditVars, left>>

WorkerActivates ==
  /\ pilotWorker.pc = "activate" /\ david' = "active" /\ WorkerEnds("sent")
  /\ UNCHANGED pilotFaults

WorkerFails ==
  /\ pilotWorker.pc # "idle" /\ PilotFault /\ WorkerEnds("pending") /\ UNCHANGED david

-----------------------------------------------------------------------------
(* The pilot's credit *)

OperatorGrants ==
  /\ "legacy" \notin ledger /\ ~late
  /\ ledger' = ledger \cup {"legacy"} /\ late' = reconciled
  /\ UNCHANGED <<mapping, david, memberOf, jobRows, reconciled, script, pilotWorker,
                 keysImported, granting, left, pilotFaults>>

\* reconcile_baic_pilot_credit: the repaired organization, its active
\* administrator and the imported keys, each read on its own.
CheckCredit ==
  /\ mapping = "new" /\ david = "active" /\ keysImported /\ ~granting /\ granting' = TRUE
  /\ UNCHANGED <<mapping, david, memberOf, jobRows, reconciled, script, pilotWorker,
                 keysImported, ledger, late, left, pilotFaults>>

\* adjust_billing, with an idempotency key of its own.
GrantCredit ==
  /\ granting /\ granting' = FALSE /\ ledger' = ledger \cup {"initial"}
  /\ UNCHANGED <<mapping, david, memberOf, jobRows, reconciled, script, pilotWorker,
                 keysImported, late, left, pilotFaults>>

PilotNext ==
  \/ BuildPreview \/ ReconcilePilotState \/ ImportPilotKeys \/ ScriptProvisions \/ ScriptJoins
  \/ ScriptActivates \/ ConfirmMembership \/ RemoveLegacyMembership \/ ScriptFails
  \/ WorkerClaims \/ WorkerJoins \/ WorkerActivates \/ WorkerFails
  \/ OperatorGrants \/ CheckCredit \/ GrantCredit

PilotSpec == PilotInit /\ [][PilotNext]_pilotVars

-----------------------------------------------------------------------------
PilotTypeOK ==
  /\ mapping \in {"old", "new"} /\ david \in {"invited", "active"}
  /\ memberOf \subseteq {"old", "new"} /\ ledger \subseteq {"legacy", "initial"}
  /\ {oldJob, newJob} \subseteq {"none", "pending", "processing", "sent", "failed", "superseded"}

(***************************************************************************)
(* The administrator is never taken out of the old organization without    *)
(* being in the new one, whoever provisioned him and into which; and the   *)
(* pilot's credit is granted once: a credit that was given by hand before  *)
(* the repair has become the pilot's.                                      *)
(***************************************************************************)
NeverOrphaned == left => "new" \in memberOf
CreditGrantedOnce == ledger = {"legacy", "initial"} => late

PilotIsSound == NeverOrphaned /\ CreditGrantedOnce
=============================================================================

------------------------------- MODULE Outbox -------------------------------
(***************************************************************************)
(* The durable job queue customer_outbox and the workers that drain it     *)
(* (OrganizationProvisioningService.process_outbox, run by the outbox loop *)
(* and by request handlers that want their job done at once).              *)
(*                                                                         *)
(* A worker claims a batch in one transaction, then runs the handler of    *)
(* each job, oldest first, and completes it.  Completing a failed job      *)
(* takes two statements, and nothing checks that the worker still owns it. *)
(* What a handler does is left open here: its job counts as done or not.   *)
(***************************************************************************)
EXTENDS Integers, FiniteSets

CONSTANTS
    Jobs,         \* identities of jobs: hash of kind, aggregate and version
    Workers,      \* concurrent calls of process_outbox
    MaxAttempts,  \* ORGANIZATION_OUTBOX_MAX_ATTEMPTS
    BatchLimit,   \* limit of claim_outbox
    Stalls        \* may a live worker outlast its ten-minute lease?

ASSUME OutboxAssumption ==
    /\ MaxAttempts \in Nat \ {0}
    /\ BatchLimit \in Nat \ {0}
    /\ Stalls \in BOOLEAN
    /\ IsFiniteSet(Workers)

VARIABLES
    status,     \* status of each job, "absent" before it is inserted
    attempts,   \* attempts of each job
    available,  \* available_at <= now()
    expired,    \* locked_at < now() - 10 minutes
    created,    \* created_at, counted in enqueueing transactions
    clock,      \* enqueueing transactions so far
    held,       \* jobs a worker has claimed and not yet completed
    phase,      \* where the worker is with its oldest held job
    seen,       \* attempts it has read when completing a failed job
    tries,      \* history: how often the handler of a job was run
    stalled     \* history: has a lease expired under a live worker?

outboxVars == <<status, attempts, available, expired, created, clock,
                held, phase, seen, tries, stalled>>
queueVars == <<status, attempts, available, expired, created, clock>>
workerVars == <<held, phase, seen, tries, stalled>>

Statuses == {"absent", "pending", "processing", "sent", "failed"}
Settled == {"sent", "failed"}

OutboxTypeOK ==
    /\ status \in [Jobs -> Statuses]
    /\ attempts \in [Jobs -> 0 .. MaxAttempts]
    /\ available \in [Jobs -> BOOLEAN]
    /\ expired \in [Jobs -> BOOLEAN]
    /\ created \in [Jobs -> Nat]
    /\ clock \in Nat
    /\ held \in [Workers -> SUBSET Jobs]
    /\ phase \in [Workers -> {"run", "ok", "error", "read"}]
    /\ seen \in [Workers -> 0 .. MaxAttempts]
    /\ tries \in [Jobs -> Nat]
    /\ stalled \in BOOLEAN

OutboxInit ==
    /\ status = [j \in Jobs |-> "absent"]
    /\ attempts = [j \in Jobs |-> 0]
    /\ available = [j \in Jobs |-> TRUE]
    /\ expired = [j \in Jobs |-> FALSE]
    /\ created = [j \in Jobs |-> 0]
    /\ clock = 0
    /\ held = [w \in Workers |-> {}]
    /\ phase = [w \in Workers |-> "run"]
    /\ seen = [w \in Workers |-> 0]
    /\ tries = [j \in Jobs |-> 0]
    /\ stalled = FALSE

-----------------------------------------------------------------------------
(* Producers.                                                              *)

\* Mutant: a duplicate insert revives a failed job.
StatusAfterEnqueueRevived(j) ==
    IF status[j] \in {"absent", "failed"} THEN "pending" ELSE status[j]

\* INSERT ... ON CONFLICT (id) DO NOTHING, or DO UPDATE SET payload only.
StatusAfterEnqueue(j) == IF status[j] = "absent" THEN "pending" ELSE status[j]

\* The jobs one transaction inserts share its created_at.
EnqueueAll(batch) ==
    /\ status' = [j \in Jobs |-> IF j \in batch THEN StatusAfterEnqueue(j)
                                                ELSE status[j]]
    /\ created' = [j \in Jobs |-> IF j \in batch /\ status[j] = "absent"
                                  THEN clock + 1 ELSE created[j]]
    /\ clock' = IF \E j \in batch : status[j] = "absent" THEN clock + 1
                                                        ELSE clock
    /\ UNCHANGED <<attempts, available, expired, workerVars>>

Enqueue(j) == EnqueueAll({j})

-----------------------------------------------------------------------------
(* claim_outbox: recover, retire, claim; one transaction.                  *)

\* Mutant: a lease is not waited for.
AbandonedAtOnce(j) == status[j] = "processing"

Abandoned(j) == status[j] = "processing" /\ expired[j]

\* Mutant: processing rows of dead workers are never recovered.
RecoveredNever(j) ==
    IF status[j] = "pending" /\ attempts[j] >= MaxAttempts THEN "failed"
    ELSE status[j]

\* Mutant: the attempt limit is not enforced on recovery.
RecoveredUnlimited(j) == IF Abandoned(j) THEN "pending" ELSE status[j]

\* The first two UPDATEs: jobs whose worker is gone, jobs with no attempt left.
Recovered(j) ==
    IF Abandoned(j) \/ status[j] = "pending"
    THEN IF attempts[j] >= MaxAttempts THEN "failed" ELSE "pending"
    ELSE status[j]

Claimable == {j \in Jobs : Recovered(j) = "pending" /\ available[j]}

\* ORDER BY created_at LIMIT: the oldest claimable jobs.
IsBatch(batch) ==
    /\ batch \subseteq Claimable
    /\ Cardinality(batch) <= BatchLimit
    /\ batch = Claimable \/ Cardinality(batch) = BatchLimit
    /\ \A j \in batch, k \in Claimable \ batch : created[j] <= created[k]

\* Mutant: the attempt is not counted.
AttemptsAfterClaimUncounted(batch) == attempts

AttemptsAfterClaim(batch) ==
    [j \in Jobs |-> IF j \in batch THEN attempts[j] + 1 ELSE attempts[j]]

Claim(w) ==
    /\ held[w] = {} /\ phase[w] = "run"
    /\ \E batch \in SUBSET Claimable :
          /\ IsBatch(batch)
          /\ status' = [j \in Jobs |-> IF j \in batch THEN "processing"
                                                      ELSE Recovered(j)]
          /\ attempts' = AttemptsAfterClaim(batch)
          /\ expired' = [j \in Jobs |-> expired[j] /\ ~Abandoned(j)]
          /\ held' = [held EXCEPT ![w] = batch]
    /\ UNCHANGED <<available, created, clock, phase, seen, tries, stalled>>

-----------------------------------------------------------------------------
(* process_outbox after the claim.                                         *)

\* Rows come back ordered by created_at, equal ones in some fixed order.
Oldest(age) == CHOOSE j \in DOMAIN age : \A k \in DOMAIN age : age[j] <= age[k]

\* The job worker w is busy with.
Current(w) == Oldest([j \in held[w] |-> created[j]])
IsCurrent(w, j) == j \in held[w] /\ j = Current(w)

\* The handler runs to its end; succeeded tells whether complete_outbox will be
\* given a text of an error, which one that raised may lack.
Run(w, j, succeeded) ==
    /\ IsCurrent(w, j) /\ phase[w] = "run"
    /\ phase' = [phase EXCEPT ![w] = IF succeeded THEN "ok" ELSE "error"]
    /\ tries' = [tries EXCEPT ![j] = @ + 1]
    /\ UNCHANGED <<queueVars, held, seen, stalled>>

\* The worker turns to its next job.
Leave(w, j) ==
    /\ held' = [held EXCEPT ![w] = @ \ {j}]
    /\ phase' = [phase EXCEPT ![w] = "run"]
    /\ seen' = [seen EXCEPT ![w] = 0]

\* complete_outbox(id): whatever has become of the row meanwhile.
CompleteOk(w, j) ==
    /\ IsCurrent(w, j) /\ phase[w] = "ok"
    /\ status' = [status EXCEPT ![j] = "sent"]
    /\ expired' = [expired EXCEPT ![j] = FALSE]
    /\ Leave(w, j)
    /\ UNCHANGED <<attempts, available, created, clock, tries, stalled>>

\* complete_outbox(id, error), first statement: read the attempts.
ReadAttempts(w, j) ==
    /\ IsCurrent(w, j) /\ phase[w] = "error"
    /\ phase' = [phase EXCEPT ![w] = "read"]
    /\ seen' = [seen EXCEPT ![w] = attempts[j]]
    /\ UNCHANGED <<queueVars, held, tries, stalled>>

StatusAfterError(w) == IF seen[w] >= MaxAttempts THEN "failed" ELSE "pending"

\* Second statement: give up, or retry after a backoff.
CompleteError(w, j) ==
    /\ IsCurrent(w, j) /\ phase[w] = "read"
    /\ status' = [status EXCEPT ![j] = StatusAfterError(w)]
    /\ available' = [available EXCEPT ![j] = StatusAfterError(w) = "failed"]
    /\ expired' = [expired EXCEPT ![j] = FALSE]
    /\ Leave(w, j)
    /\ UNCHANGED <<attempts, created, clock, tries, stalled>>

\* The process dies, or the database fails under complete_outbox.
CrashWorker(w) ==
    /\ held[w] # {}
    /\ held' = [held EXCEPT ![w] = {}]
    /\ phase' = [phase EXCEPT ![w] = "run"]
    /\ seen' = [seen EXCEPT ![w] = 0]
    /\ UNCHANGED <<queueVars, tries, stalled>>

BackoffElapses(j) ==
    /\ ~available[j]
    /\ available' = [available EXCEPT ![j] = TRUE]
    /\ UNCHANGED <<status, attempts, expired, created, clock, workerVars>>

\* Ten minutes pass.  A worker that does not stall is done by then.
LeaseExpires(j) ==
    /\ status[j] = "processing" /\ ~expired[j]
    /\ LET live == \E w \in Workers : j \in held[w]
       IN /\ live => Stalls
          /\ stalled' = (stalled \/ live)
    /\ expired' = [expired EXCEPT ![j] = TRUE]
    /\ UNCHANGED <<status, attempts, available, created, clock,
                   held, phase, seen, tries>>

WorkerStep(w) ==
    \E j \in held[w] :
        \/ \E succeeded \in BOOLEAN : Run(w, j, succeeded)
        \/ CompleteOk(w, j)
        \/ ReadAttempts(w, j)
        \/ CompleteError(w, j)

OutboxNext ==
    \/ \E batch \in SUBSET Jobs : EnqueueAll(batch)
    \/ \E j \in Jobs : BackoffElapses(j) \/ LeaseExpires(j)
    \/ \E w \in Workers : Claim(w) \/ WorkerStep(w) \/ CrashWorker(w)

OutboxSpec == OutboxInit /\ [][OutboxNext]_outboxVars

\* Time passes, the loop polls, and every handler ends: its calls time out.
OutboxFairness ==
    /\ \A j \in Jobs : WF_outboxVars(BackoffElapses(j))
                       /\ WF_outboxVars(LeaseExpires(j))
    /\ \A w \in Workers : WF_outboxVars(Claim(w)) /\ WF_outboxVars(WorkerStep(w))

OutboxFairSpec == OutboxSpec /\ OutboxFairness

-----------------------------------------------------------------------------
(* Properties.                                                             *)

\* While no live worker has outlasted its lease, a job is in the hands of at most one worker, which
\* found it unclaimed: it is marked processing for as long as it is held.
OneHolder ==
    ~stalled =>
        \A w \in Workers : \A j \in held[w] :
            /\ status[j] = "processing"
            /\ \A v \in Workers \ {w} : j \notin held[v]

\* README.md:274: the attempt limit bounds how often a handler is run, even
\* when leases expire under live workers, workers crash between running a job
\* and completing it, and completions arrive late.
TriesAreBounded == \A j \in Jobs : tries[j] <= MaxAttempts

\* A job is given up only when its attempts are used up.
FailedIsExhausted ==
    \A j \in Jobs : status[j] = "failed" => attempts[j] = MaxAttempts

\* Until a live worker outlasts its lease a settled job stays settled: no
\* completion, no duplicate insert and no claim brings it back.
SettledIsFinal ==
    [][\A j \in Jobs : ~stalled /\ status[j] \in Settled
           => status'[j] = status[j]]_outboxVars

\* No job is stranded: a crash of the worker that holds it, a failing handler
\* or a full batch only delay it (comment of claim_outbox).
JobsAreSettled ==
    \A j \in Jobs : status[j] = "pending" ~> status[j] \in Settled

=============================================================================

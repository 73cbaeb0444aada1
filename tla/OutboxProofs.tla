---------------------------- MODULE OutboxProofs ----------------------------
(***************************************************************************)
(* Proofs about Outbox, for any number of jobs, workers and attempts.      *)
(*                                                                         *)
(* The inductive invariant has three parts next to the type invariant: the *)
(* jobs a worker holds exist, which keeps their order fixed (HeldExist);   *)
(* what a worker has read of a failed job's attempts is not ahead of them  *)
(* (SeenIsPast); and until a worker stalls, a held job is in processing,   *)
(* its lease is running and it is held once (HeldIsLeased).                *)
(***************************************************************************)
EXTENDS Outbox, FiniteSetTheorems, TLAPS

HeldExist == \A w \in Workers : \A j \in held[w] : status[j] # "absent"

SeenIsPast ==
    \A w \in Workers, j \in Jobs :
        phase[w] = "read" /\ IsCurrent(w, j) => seen[w] <= attempts[j]

HeldIsLeased ==
    /\ \A j \in Jobs : expired[j] => status[j] = "processing"
    /\ ~stalled =>
          \A w \in Workers : \A j \in held[w] :
              /\ status[j] = "processing" /\ ~expired[j]
              /\ \A v \in Workers \ {w} : j \notin held[v]

QueueInv ==
    /\ OutboxTypeOK
    /\ FailedIsExhausted
    /\ HeldExist
    /\ SeenIsPast
    /\ HeldIsLeased

-----------------------------------------------------------------------------
(* Facts about the helpers.                                                *)

\* A recovered job that is pending has attempts left.
LEMMA RecoveredPending ==
    ASSUME OutboxTypeOK, NEW j \in Jobs, Recovered(j) = "pending"
    PROVE  /\ attempts[j] < MaxAttempts
           /\ status[j] = "pending" \/ Abandoned(j)
BY OutboxAssumption DEF OutboxTypeOK, Recovered

\* Recovery keeps the status of a job or makes it pending or exhausted.
LEMMA RecoveredStatus ==
    ASSUME OutboxTypeOK, NEW j \in Jobs
    PROVE  \/ Recovered(j) = status[j]
           \/ Recovered(j) = "pending" /\ status[j] = "processing" /\ expired[j]
           \/ /\ Recovered(j) = "failed" /\ attempts[j] = MaxAttempts
              /\ \/ status[j] = "pending"
                 \/ status[j] = "processing" /\ expired[j]
BY OutboxAssumption DEF OutboxTypeOK, Recovered, Abandoned, Statuses

\* A worker that keeps its jobs stays busy with the same one, as long as the
\* jobs keep their age.
LEMMA CurrentStays ==
    ASSUME NEW w \in Workers, held'[w] = held[w],
           \A j \in held[w] : created'[j] = created[j]
    PROVE  Current(w)' = Current(w)
<1>1. [j \in held'[w] |-> created'[j]] = [j \in held[w] |-> created[j]]
  OBVIOUS
<1> QED BY <1>1 DEF Current

-----------------------------------------------------------------------------
(* Type correctness.                                                       *)

LEMMA InitType == OutboxInit => QueueInv
<1> SUFFICES ASSUME OutboxInit PROVE QueueInv
  OBVIOUS
<1>1. status \in [Jobs -> Statuses]
  BY DEF OutboxInit, Statuses
<1>2. available \in [Jobs -> BOOLEAN] /\ expired \in [Jobs -> BOOLEAN]
  BY DEF OutboxInit
<1>3. attempts \in [Jobs -> 0 .. MaxAttempts] /\ seen \in [Workers -> 0 .. MaxAttempts]
  BY OutboxAssumption DEF OutboxInit
<1>4. OutboxTypeOK
  BY <1>1, <1>2, <1>3 DEF OutboxInit, OutboxTypeOK
<1> QED
  BY <1>4 DEF OutboxInit, QueueInv, FailedIsExhausted, HeldExist, SeenIsPast,
              HeldIsLeased, IsCurrent

LEMMA EnqueueType ==
    ASSUME OutboxTypeOK, NEW batch \in SUBSET Jobs, EnqueueAll(batch)
    PROVE  OutboxTypeOK'
<1>1. status' \in [Jobs -> Statuses]
  BY DEF OutboxTypeOK, EnqueueAll, StatusAfterEnqueue, Statuses
<1>2. created' \in [Jobs -> Nat] /\ clock' \in Nat
  BY DEF OutboxTypeOK, EnqueueAll
<1> QED BY <1>1, <1>2 DEF OutboxTypeOK, EnqueueAll, workerVars

LEMMA ClaimType ==
    ASSUME OutboxTypeOK, NEW w \in Workers, Claim(w)
    PROVE  OutboxTypeOK'
<1> PICK batch \in SUBSET Claimable :
        /\ IsBatch(batch)
        /\ status' = [j \in Jobs |-> IF j \in batch THEN "processing"
                                                    ELSE Recovered(j)]
        /\ attempts' = AttemptsAfterClaim(batch)
        /\ expired' = [j \in Jobs |-> expired[j] /\ ~Abandoned(j)]
        /\ held' = [held EXCEPT ![w] = batch]
  BY DEF Claim
<1>1. \A j \in batch : j \in Jobs /\ attempts[j] < MaxAttempts
  BY RecoveredPending DEF Claimable
<1>2. status' \in [Jobs -> Statuses]
  BY RecoveredStatus DEF OutboxTypeOK, Statuses
<1>3. attempts' \in [Jobs -> 0 .. MaxAttempts]
  BY <1>1, OutboxAssumption DEF OutboxTypeOK, AttemptsAfterClaim
<1>4. expired' \in [Jobs -> BOOLEAN]
  BY DEF OutboxTypeOK
<1>5. held' \in [Workers -> SUBSET Jobs]
  BY <1>1 DEF OutboxTypeOK
<1> QED BY <1>2, <1>3, <1>4, <1>5 DEF OutboxTypeOK, Claim

LEMMA WorkerType ==
    ASSUME OutboxTypeOK, NEW w \in Workers, NEW j \in held[w],
           \/ \E succeeded \in BOOLEAN : Run(w, j, succeeded)
           \/ CompleteOk(w, j) \/ ReadAttempts(w, j) \/ CompleteError(w, j)
    PROVE  OutboxTypeOK'
<1> j \in Jobs
  BY DEF OutboxTypeOK
<1>1. CASE \E succeeded \in BOOLEAN : Run(w, j, succeeded)
  BY <1>1 DEF Run, OutboxTypeOK, queueVars
<1>2. CASE CompleteOk(w, j)
  BY <1>2, OutboxAssumption DEF CompleteOk, Leave, OutboxTypeOK, Statuses
<1>3. CASE ReadAttempts(w, j)
  BY <1>3 DEF ReadAttempts, OutboxTypeOK, queueVars
<1>4. CASE CompleteError(w, j)
  BY <1>4, OutboxAssumption
     DEF CompleteError, StatusAfterError, Leave, OutboxTypeOK, Statuses
<1> QED BY <1>1, <1>2, <1>3, <1>4

LEMMA TimeType ==
    ASSUME OutboxTypeOK,
           \/ \E j \in Jobs : BackoffElapses(j) \/ LeaseExpires(j)
           \/ \E w \in Workers : CrashWorker(w)
    PROVE  OutboxTypeOK'
<1>1. CASE \E j \in Jobs : BackoffElapses(j)
  BY <1>1 DEF BackoffElapses, OutboxTypeOK, workerVars
<1>2. CASE \E j \in Jobs : LeaseExpires(j)
  BY <1>2 DEF LeaseExpires, OutboxTypeOK
<1>3. CASE \E w \in Workers : CrashWorker(w)
  BY <1>3, OutboxAssumption DEF CrashWorker, OutboxTypeOK, queueVars
<1> QED BY <1>1, <1>2, <1>3

-----------------------------------------------------------------------------
(* Every action preserves the rest of the invariant.                       *)

LEMMA EnqueueInv ==
    ASSUME QueueInv, NEW batch \in SUBSET Jobs, EnqueueAll(batch)
    PROVE  QueueInv'
<1> USE DEF QueueInv
<1>1. OutboxTypeOK'
  BY EnqueueType
<1>2. UNCHANGED <<attempts, expired, held, phase, seen, stalled>>
  BY DEF EnqueueAll, workerVars
<1>3. \A j \in Jobs : status[j] # "absent" =>
        status'[j] = status[j] /\ created'[j] = created[j]
  BY DEF EnqueueAll, StatusAfterEnqueue
<1>4. \A j \in Jobs : \/ status'[j] = status[j]
                      \/ status[j] = "absent" /\ status'[j] = "pending"
  <2> TAKE j \in Jobs
  <2>1. CASE j \in batch
    BY <2>1 DEF EnqueueAll, StatusAfterEnqueue
  <2>2. CASE j \notin batch
    BY <2>2 DEF EnqueueAll
  <2> QED BY <2>1, <2>2
<1>5. FailedIsExhausted'
  BY <1>2, <1>4 DEF FailedIsExhausted
<1>6. HeldExist'
  BY <1>2, <1>3 DEF HeldExist, OutboxTypeOK
<1>7. SeenIsPast'
  <2> SUFFICES ASSUME NEW w \in Workers, NEW j \in Jobs,
                      phase[w] = "read", IsCurrent(w, j)'
               PROVE  seen[w] <= attempts[j]
    BY <1>2 DEF SeenIsPast
  <2>1. Current(w)' = Current(w)
    BY <1>2, <1>3, CurrentStays DEF HeldExist, OutboxTypeOK
  <2> QED BY <1>2, <2>1 DEF SeenIsPast, IsCurrent
<1>8. HeldIsLeased'
  BY <1>2, <1>3, <1>4 DEF HeldIsLeased, HeldExist, OutboxTypeOK
<1> QED BY <1>1, <1>5, <1>6, <1>7, <1>8

LEMMA ClaimInv ==
    ASSUME QueueInv, NEW w \in Workers, Claim(w)
    PROVE  QueueInv'
<1> USE DEF QueueInv
<1>1. OutboxTypeOK'
  BY ClaimType
<1> PICK batch \in SUBSET Claimable :
        /\ IsBatch(batch)
        /\ status' = [j \in Jobs |-> IF j \in batch THEN "processing"
                                                    ELSE Recovered(j)]
        /\ attempts' = AttemptsAfterClaim(batch)
        /\ expired' = [j \in Jobs |-> expired[j] /\ ~Abandoned(j)]
        /\ held' = [held EXCEPT ![w] = batch]
  BY DEF Claim
<1>2. UNCHANGED <<created, phase, seen, stalled>> /\ phase[w] = "run"
  BY DEF Claim
<1>3. \A j \in batch : /\ j \in Jobs
                       /\ \/ status[j] = "pending"
                          \/ status[j] = "processing" /\ expired[j]
  <2> TAKE j \in batch
  <2>1. j \in Jobs /\ Recovered(j) = "pending"
    BY DEF Claimable
  <2> QED BY <2>1, RecoveredPending DEF Abandoned
<1>4. \A j \in Jobs : attempts[j] <= attempts'[j]
  BY DEF AttemptsAfterClaim, OutboxTypeOK
<1>5. FailedIsExhausted'
  <2> SUFFICES ASSUME NEW j \in Jobs, status'[j] = "failed"
               PROVE  attempts'[j] = MaxAttempts
    BY DEF FailedIsExhausted
  <2>1. j \notin batch /\ Recovered(j) = "failed"
    OBVIOUS
  <2>2. attempts[j] = MaxAttempts
    BY <2>1, RecoveredStatus DEF FailedIsExhausted
  <2> QED BY <2>1, <2>2 DEF AttemptsAfterClaim
<1>6. HeldExist'
  BY <1>3, RecoveredStatus DEF HeldExist, OutboxTypeOK
<1>7. SeenIsPast'
  <2> SUFFICES ASSUME NEW v \in Workers, NEW j \in Jobs,
                      phase[v] = "read", IsCurrent(v, j)'
               PROVE  seen[v] <= attempts'[j]
    BY <1>2 DEF SeenIsPast
  <2>1. v # w /\ held'[v] = held[v]
    BY <1>2 DEF OutboxTypeOK
  <2>2. IsCurrent(v, j)
    BY <1>2, <2>1, CurrentStays DEF IsCurrent
  <2> QED BY <1>1, <1>4, <2>2 DEF SeenIsPast, OutboxTypeOK
<1>8. HeldIsLeased'
  <2>1. \A j \in Jobs : expired'[j] => status'[j] = "processing"
    <3> SUFFICES ASSUME NEW j \in Jobs, expired'[j]
                 PROVE  status'[j] = "processing"
      OBVIOUS
    <3>1. expired[j] /\ ~Abandoned(j)
      OBVIOUS
    <3> QED BY <3>1 DEF HeldIsLeased, Abandoned
  <2>2. ASSUME ~stalled', NEW v \in Workers, NEW j \in held'[v]
        PROVE  /\ status'[j] = "processing" /\ ~expired'[j]
               /\ \A u \in Workers \ {v} : j \notin held'[u]
    <3> j \in Jobs
      BY <1>1 DEF OutboxTypeOK
    <3>1. \A u \in Workers : j \in held[u] =>
              status[j] = "processing" /\ ~expired[j] /\ j \notin batch
      BY <1>2, <1>3, <2>2 DEF HeldIsLeased
    <3>2. CASE v = w
      <4>1. j \in batch
        BY <3>2 DEF OutboxTypeOK
      <4>2. ~expired'[j]
        BY <1>3, <4>1 DEF HeldIsLeased, Abandoned
      <4> QED BY <3>1, <3>2, <4>1, <4>2 DEF OutboxTypeOK
    <3>3. CASE v # w
      <4>1. j \in held[v] /\ j \notin batch
        BY <3>1, <3>3 DEF OutboxTypeOK
      <4>2. Recovered(j) = "processing"
        BY <3>1, <4>1 DEF Recovered, Abandoned
      <4> QED BY <1>2, <2>2, <3>1, <4>1, <4>2 DEF HeldIsLeased, OutboxTypeOK
    <3> QED BY <3>2, <3>3
  <2> QED BY <2>1, <2>2 DEF HeldIsLeased
<1> QED BY <1>1, <1>5, <1>6, <1>7, <1>8

LEMMA CompleteOkInv ==
    ASSUME QueueInv, NEW w \in Workers, NEW i \in held[w], CompleteOk(w, i)
    PROVE  QueueInv'
<1> USE DEF QueueInv
<1>1. OutboxTypeOK' /\ i \in Jobs
  BY WorkerType DEF OutboxTypeOK
<1>2. /\ status' = [status EXCEPT ![i] = "sent"]
      /\ expired' = [expired EXCEPT ![i] = FALSE]
      /\ held' = [held EXCEPT ![w] = @ \ {i}]
      /\ phase' = [phase EXCEPT ![w] = "run"]
      /\ seen' = [seen EXCEPT ![w] = 0]
      /\ UNCHANGED <<attempts, created, stalled>>
  BY DEF CompleteOk, Leave
<1>3. \A v \in Workers : held'[v] \subseteq held[v]
  BY <1>2 DEF OutboxTypeOK
<1>4. FailedIsExhausted' /\ HeldExist'
  BY <1>1, <1>2, <1>3 DEF FailedIsExhausted, HeldExist, OutboxTypeOK
<1>5. SeenIsPast'
  <2> SUFFICES ASSUME NEW v \in Workers, NEW j \in Jobs,
                      phase'[v] = "read", IsCurrent(v, j)'
               PROVE  seen'[v] <= attempts[j]
    BY <1>2 DEF SeenIsPast
  <2>1. v # w /\ held'[v] = held[v] /\ phase[v] = "read" /\ seen'[v] = seen[v]
    BY <1>2 DEF OutboxTypeOK
  <2>2. IsCurrent(v, j)
    BY <1>2, <2>1, CurrentStays DEF IsCurrent
  <2> QED BY <2>1, <2>2 DEF SeenIsPast
<1>6. HeldIsLeased'
  <2>1. \A j \in Jobs : expired'[j] => status'[j] = "processing"
    BY <1>1, <1>2 DEF HeldIsLeased, OutboxTypeOK
  <2>2. ASSUME ~stalled', NEW v \in Workers, NEW j \in held'[v]
        PROVE  /\ status'[j] = "processing" /\ ~expired'[j]
               /\ \A u \in Workers \ {v} : j \notin held'[u]
    <3>1. j \in held[v] /\ j \in Jobs
      BY <1>3 DEF OutboxTypeOK
    <3>2. j # i
      BY <1>2, <2>2, <3>1 DEF HeldIsLeased, OutboxTypeOK
    <3> QED BY <1>2, <1>3, <2>2, <3>1, <3>2 DEF HeldIsLeased, OutboxTypeOK
  <2> QED BY <2>1, <2>2 DEF HeldIsLeased
<1> QED BY <1>1, <1>4, <1>5, <1>6

LEMMA CompleteErrorInv ==
    ASSUME QueueInv, NEW w \in Workers, NEW i \in held[w], CompleteError(w, i)
    PROVE  QueueInv'
<1> USE DEF QueueInv
<1>1. OutboxTypeOK' /\ i \in Jobs
  BY WorkerType DEF OutboxTypeOK
<1>2. /\ status' = [status EXCEPT ![i] = StatusAfterError(w)]
      /\ expired' = [expired EXCEPT ![i] = FALSE]
      /\ held' = [held EXCEPT ![w] = @ \ {i}]
      /\ phase' = [phase EXCEPT ![w] = "run"]
      /\ seen' = [seen EXCEPT ![w] = 0]
      /\ UNCHANGED <<attempts, created, stalled>>
  BY DEF CompleteError, Leave
<1>3. \A v \in Workers : held'[v] \subseteq held[v]
  BY <1>2 DEF OutboxTypeOK
<1>4. FailedIsExhausted'
  <2>1. StatusAfterError(w) = "failed" => attempts[i] = MaxAttempts
    <3>1. seen[w] <= attempts[i]
      BY <1>1 DEF CompleteError, SeenIsPast
    <3> QED BY <1>1, <3>1, OutboxAssumption DEF StatusAfterError, OutboxTypeOK
  <2> QED BY <1>1, <1>2, <2>1 DEF FailedIsExhausted, OutboxTypeOK
<1>5. HeldExist'
  BY <1>1, <1>2, <1>3 DEF HeldExist, StatusAfterError, OutboxTypeOK
<1>6. SeenIsPast'
  <2> SUFFICES ASSUME NEW v \in Workers, NEW j \in Jobs,
                      phase'[v] = "read", IsCurrent(v, j)'
               PROVE  seen'[v] <= attempts[j]
    BY <1>2 DEF SeenIsPast
  <2>1. v # w /\ held'[v] = held[v] /\ phase[v] = "read" /\ seen'[v] = seen[v]
    BY <1>2 DEF OutboxTypeOK
  <2>2. IsCurrent(v, j)
    BY <1>2, <2>1, CurrentStays DEF IsCurrent
  <2> QED BY <2>1, <2>2 DEF SeenIsPast
<1>7. HeldIsLeased'
  <2>1. \A j \in Jobs : expired'[j] => status'[j] = "processing"
    BY <1>1, <1>2 DEF HeldIsLeased, OutboxTypeOK
  <2>2. ASSUME ~stalled', NEW v \in Workers, NEW j \in held'[v]
        PROVE  /\ status'[j] = "processing" /\ ~expired'[j]
               /\ \A u \in Workers \ {v} : j \notin held'[u]
    <3>1. j \in held[v] /\ j \in Jobs
      BY <1>3 DEF OutboxTypeOK
    <3>2. j # i
      BY <1>2, <2>2, <3>1 DEF HeldIsLeased, OutboxTypeOK
    <3> QED BY <1>2, <1>3, <2>2, <3>1, <3>2 DEF HeldIsLeased, OutboxTypeOK
  <2> QED BY <2>1, <2>2 DEF HeldIsLeased
<1> QED BY <1>1, <1>4, <1>5, <1>6, <1>7

\* Running a handler and reading the attempts leave the queue alone.
LEMMA HandleInv ==
    ASSUME QueueInv, NEW w \in Workers, NEW i \in held[w],
           (\E succeeded \in BOOLEAN : Run(w, i, succeeded))
              \/ ReadAttempts(w, i)
    PROVE  QueueInv'
<1> USE DEF QueueInv
<1>1. OutboxTypeOK' /\ i \in Jobs
  BY WorkerType DEF OutboxTypeOK
<1>2. UNCHANGED <<status, attempts, expired, created, held, stalled>>
  BY DEF Run, ReadAttempts, queueVars
<1>3. FailedIsExhausted' /\ HeldExist' /\ HeldIsLeased'
  BY <1>2 DEF FailedIsExhausted, HeldExist, HeldIsLeased
<1>4. SeenIsPast'
  <2> SUFFICES ASSUME NEW v \in Workers, NEW j \in Jobs,
                      phase'[v] = "read", IsCurrent(v, j)'
               PROVE  seen'[v] <= attempts[j]
    BY <1>2 DEF SeenIsPast
  <2>1. IsCurrent(v, j)
    BY <1>2, CurrentStays DEF IsCurrent
  <2>2. CASE phase[v] = "read" /\ seen'[v] = seen[v]
    BY <2>1, <2>2 DEF SeenIsPast
  <2>3. CASE v = w /\ ReadAttempts(w, i)
    BY <1>1, <2>1, <2>3 DEF ReadAttempts, IsCurrent, OutboxTypeOK
  <2> QED BY <2>2, <2>3 DEF Run, ReadAttempts, OutboxTypeOK
<1> QED BY <1>1, <1>3, <1>4

LEMMA CrashInv ==
    ASSUME QueueInv, NEW w \in Workers, CrashWorker(w)
    PROVE  QueueInv'
<1> USE DEF QueueInv
<1>1. OutboxTypeOK'
  BY TimeType
<1>2. /\ UNCHANGED <<status, attempts, expired, created, stalled>>
      /\ held' = [held EXCEPT ![w] = {}]
      /\ phase' = [phase EXCEPT ![w] = "run"]
      /\ seen' = [seen EXCEPT ![w] = 0]
  BY DEF CrashWorker, queueVars
<1>3. \A v \in Workers : held'[v] \subseteq held[v]
  BY <1>2 DEF OutboxTypeOK
<1>4. FailedIsExhausted' /\ HeldExist' /\ HeldIsLeased'
  BY <1>2, <1>3 DEF FailedIsExhausted, HeldExist, HeldIsLeased
<1>5. SeenIsPast'
  <2> SUFFICES ASSUME NEW v \in Workers, NEW j \in Jobs,
                      phase'[v] = "read", IsCurrent(v, j)'
               PROVE  seen'[v] <= attempts[j]
    BY <1>2 DEF SeenIsPast
  <2>1. v # w /\ held'[v] = held[v] /\ phase[v] = "read" /\ seen'[v] = seen[v]
    BY <1>2 DEF OutboxTypeOK
  <2>2. IsCurrent(v, j)
    BY <1>2, <2>1, CurrentStays DEF IsCurrent
  <2> QED BY <2>1, <2>2 DEF SeenIsPast
<1> QED BY <1>1, <1>4, <1>5

LEMMA TimeInv ==
    ASSUME QueueInv, NEW i \in Jobs, BackoffElapses(i) \/ LeaseExpires(i)
    PROVE  QueueInv'
<1> USE DEF QueueInv
<1>1. OutboxTypeOK'
  BY TimeType
<1>2. UNCHANGED <<status, attempts, created, held, phase, seen>>
  BY DEF BackoffElapses, LeaseExpires, workerVars
<1>3. FailedIsExhausted' /\ HeldExist'
  BY <1>2 DEF FailedIsExhausted, HeldExist
<1>4. SeenIsPast'
  <2> SUFFICES ASSUME NEW v \in Workers, NEW j \in Jobs,
                      phase[v] = "read", IsCurrent(v, j)'
               PROVE  seen[v] <= attempts[j]
    BY <1>2 DEF SeenIsPast
  <2> QED BY <1>2, CurrentStays DEF SeenIsPast, IsCurrent
<1>5. HeldIsLeased'
  <2>1. CASE BackoffElapses(i)
    BY <2>1 DEF BackoffElapses, HeldIsLeased, workerVars
  <2>2. CASE LeaseExpires(i)
    <3>1. \A j \in Jobs : expired'[j] => status'[j] = "processing"
      BY <2>2 DEF LeaseExpires, HeldIsLeased, OutboxTypeOK
    <3>2. ASSUME ~stalled' PROVE ~stalled /\ \A w \in Workers : i \notin held[w]
      BY <2>2, <3>2 DEF LeaseExpires
    <3>3. expired' = [expired EXCEPT ![i] = TRUE]
      BY <2>2 DEF LeaseExpires
    <3> QED BY <1>2, <3>1, <3>2, <3>3 DEF HeldIsLeased, OutboxTypeOK
  <2> QED BY <2>1, <2>2
<1> QED BY <1>1, <1>3, <1>4, <1>5

LEMMA QueueStepInv == QueueInv /\ [OutboxNext]_outboxVars => QueueInv'
<1> SUFFICES ASSUME QueueInv, [OutboxNext]_outboxVars PROVE QueueInv'
  OBVIOUS
<1>1. ASSUME NEW batch \in SUBSET Jobs, EnqueueAll(batch) PROVE QueueInv'
  BY <1>1, EnqueueInv
<1>2. ASSUME NEW j \in Jobs, BackoffElapses(j) \/ LeaseExpires(j)
      PROVE  QueueInv'
  BY <1>2, TimeInv
<1>3. ASSUME NEW w \in Workers, Claim(w) PROVE QueueInv'
  BY <1>3, ClaimInv
<1>4. ASSUME NEW w \in Workers, WorkerStep(w) PROVE QueueInv'
  BY <1>4, HandleInv, CompleteOkInv, CompleteErrorInv DEF WorkerStep
<1>5. ASSUME NEW w \in Workers, CrashWorker(w) PROVE QueueInv'
  BY <1>5, CrashInv
<1>6. ASSUME UNCHANGED outboxVars PROVE QueueInv'
  BY <1>6 DEF QueueInv, OutboxTypeOK, FailedIsExhausted, HeldExist, SeenIsPast,
              HeldIsLeased, IsCurrent, Current, Oldest, outboxVars
<1> QED BY <1>1, <1>2, <1>3, <1>4, <1>5, <1>6 DEF OutboxNext

-----------------------------------------------------------------------------
(* The theorems.                                                           *)

\* The queue's invariant, from which the safety properties follow.
THEOREM QueueInvariant == OutboxSpec => []QueueInv
<1>1. OutboxInit => QueueInv
  BY InitType
<1>2. QueueInv /\ [OutboxNext]_outboxVars => QueueInv'
  BY QueueStepInv
<1> QED BY <1>1, <1>2, PTL DEF OutboxSpec

\* The tables keep their types; no job has more attempts than the limit.
THEOREM OutboxTypeCorrect == OutboxSpec => []OutboxTypeOK
<1>1. QueueInv => OutboxTypeOK
  BY DEF QueueInv
<1> QED BY <1>1, QueueInvariant, PTL

\* A job is given up only when its attempts are used up, whatever completions
\* arrive late and whichever workers crash.
THEOREM GivenUpWhenExhausted == OutboxSpec => []FailedIsExhausted
<1>1. QueueInv => FailedIsExhausted
  BY DEF QueueInv
<1> QED BY <1>1, QueueInvariant, PTL

\* Until a live worker outlasts its lease no job is in two workers' hands, and
\* a job in hand is in processing.
THEOREM HeldOnce == OutboxSpec => []OneHolder
<1>1. QueueInv => OneHolder
  BY DEF QueueInv, HeldIsLeased, OneHolder
<1> QED BY <1>1, QueueInvariant, PTL

LEMMA SettledStep ==
    ASSUME QueueInv, [OutboxNext]_outboxVars, ~stalled,
           NEW i \in Jobs, status[i] \in Settled
    PROVE  status'[i] = status[i]
<1> USE DEF QueueInv
<1>1. ASSUME NEW batch \in SUBSET Jobs, EnqueueAll(batch) PROVE status'[i] = status[i]
  BY <1>1 DEF EnqueueAll, StatusAfterEnqueue, Settled
<1>2. ASSUME NEW j \in Jobs, BackoffElapses(j) \/ LeaseExpires(j)
      PROVE  status'[i] = status[i]
  BY <1>2 DEF BackoffElapses, LeaseExpires
<1>3. ASSUME NEW w \in Workers, Claim(w) PROVE status'[i] = status[i]
  <2> PICK batch \in SUBSET Claimable :
          status' = [j \in Jobs |-> IF j \in batch THEN "processing"
                                                    ELSE Recovered(j)]
    BY <1>3 DEF Claim
  <2>1. Recovered(i) = status[i] /\ i \notin batch
    BY RecoveredStatus DEF Claimable, Settled
  <2> QED BY <2>1
<1>4. ASSUME NEW w \in Workers, WorkerStep(w) PROVE status'[i] = status[i]
  <2> PICK j \in held[w] : \/ \E succeeded \in BOOLEAN : Run(w, j, succeeded)
                           \/ CompleteOk(w, j) \/ ReadAttempts(w, j)
                           \/ CompleteError(w, j)
    BY <1>4 DEF WorkerStep
  <2>1. j # i
    BY DEF HeldIsLeased, Settled
  <2> QED BY <2>1 DEF Run, CompleteOk, ReadAttempts, CompleteError, queueVars,
                      OutboxTypeOK
<1>5. ASSUME NEW w \in Workers, CrashWorker(w) PROVE status'[i] = status[i]
  BY <1>5 DEF CrashWorker, queueVars
<1> QED BY <1>1, <1>2, <1>3, <1>4, <1>5 DEF OutboxNext, outboxVars

\* Until a live worker outlasts its lease, a settled job stays settled.
THEOREM SettledStays == OutboxSpec => SettledIsFinal
<1>1. QueueInv /\ [OutboxNext]_outboxVars =>
        [\A j \in Jobs : ~stalled /\ status[j] \in Settled
            => status'[j] = status[j]]_outboxVars
  BY SettledStep
<1> QED BY <1>1, QueueInvariant, PTL DEF OutboxSpec, SettledIsFinal

-----------------------------------------------------------------------------
(* The attempt limit bounds the runs of a handler.  An attempt is counted  *)
(* when a job is claimed and entitles the claiming worker to one run: the  *)
(* runs so far and the runs still to come never exceed the attempts.       *)

ToRun(w, j) == j \in held[w] /\ (IsCurrent(w, j) => phase[w] = "run")
Claimants(j) == {w \in Workers : ToRun(w, j)}
RunsInv == \A j \in Jobs : tries[j] + Cardinality(Claimants(j)) <= attempts[j]

LEMMA ClaimantsFinite ==
    ASSUME NEW j
    PROVE  IsFiniteSet(Claimants(j)) /\ Cardinality(Claimants(j)) \in Nat
BY FS_Subset, FS_CardinalityType, OutboxAssumption DEF Claimants

\* A worker that does not move owes the runs it owed before.
LEMMA ToRunStays ==
    ASSUME NEW w \in Workers, NEW j, held'[w] = held[w], phase'[w] = phase[w],
           \A i \in held[w] : created'[i] = created[i]
    PROVE  ToRun(w, j)' <=> ToRun(w, j)
<1>1. Current(w)' = Current(w)
  BY CurrentStays
<1> QED BY <1>1 DEF ToRun, IsCurrent

LEMMA ClaimRuns ==
    ASSUME QueueInv, RunsInv, NEW w \in Workers, Claim(w)
    PROVE  RunsInv'
<1> USE DEF QueueInv
<1> PICK batch \in SUBSET Claimable :
        /\ attempts' = AttemptsAfterClaim(batch)
        /\ held' = [held EXCEPT ![w] = batch]
  BY DEF Claim
<1>1. /\ UNCHANGED <<created, phase, tries>>
      /\ phase[w] = "run" /\ held[w] = {} /\ held'[w] = batch
  BY DEF Claim, OutboxTypeOK
<1>2. \A v \in Workers \ {w}, j \in Jobs : ToRun(v, j)' <=> ToRun(v, j)
  BY <1>1, ToRunStays DEF OutboxTypeOK
<1>3. \A j \in Jobs : ~ToRun(w, j) /\ (ToRun(w, j)' <=> j \in batch)
  BY <1>1 DEF ToRun
<1> SUFFICES ASSUME NEW j \in Jobs
             PROVE  tries[j] + Cardinality(Claimants(j)') <= attempts'[j]
  BY <1>1 DEF RunsInv
<1>4. /\ tries[j] \in Nat /\ attempts[j] \in Nat
      /\ tries[j] + Cardinality(Claimants(j)) <= attempts[j]
  BY OutboxAssumption DEF RunsInv, OutboxTypeOK
<1>5. CASE j \in batch
  <2>1. Claimants(j)' = Claimants(j) \cup {w} /\ w \notin Claimants(j)
    BY <1>2, <1>3, <1>5 DEF Claimants
  <2>2. Cardinality(Claimants(j)') = Cardinality(Claimants(j)) + 1
    BY <2>1, ClaimantsFinite, FS_AddElement
  <2>3. attempts'[j] = attempts[j] + 1
    BY <1>5 DEF AttemptsAfterClaim
  <2> QED BY <1>4, <2>2, <2>3, ClaimantsFinite
<1>6. CASE j \notin batch
  <2>1. Claimants(j)' = Claimants(j)
    BY <1>2, <1>3, <1>6 DEF Claimants
  <2> QED BY <1>4, <1>6, <2>1 DEF AttemptsAfterClaim
<1> QED BY <1>5, <1>6

LEMMA RunRuns ==
    ASSUME QueueInv, RunsInv, NEW w \in Workers, NEW i \in held[w],
           NEW succeeded \in BOOLEAN, Run(w, i, succeeded)
    PROVE  RunsInv'
<1> USE DEF QueueInv
<1>1. /\ UNCHANGED <<attempts, created, held>>
      /\ phase[w] = "run" /\ phase'[w] # "run" /\ IsCurrent(w, i)
      /\ tries' = [tries EXCEPT ![i] = @ + 1] /\ i \in Jobs
      /\ \A v \in Workers \ {w} : phase'[v] = phase[v]
  BY DEF Run, queueVars, OutboxTypeOK
<1>2. \A v \in Workers \ {w}, j \in Jobs : ToRun(v, j)' <=> ToRun(v, j)
  BY <1>1, ToRunStays
<1>3. Current(w)' = Current(w)
  BY <1>1, CurrentStays
<1> SUFFICES ASSUME NEW j \in Jobs
             PROVE  tries'[j] + Cardinality(Claimants(j)') <= attempts[j]
  BY <1>1 DEF RunsInv
<1>4. /\ tries[j] \in Nat /\ attempts[j] \in Nat
      /\ tries[j] + Cardinality(Claimants(j)) <= attempts[j]
  BY OutboxAssumption DEF RunsInv, OutboxTypeOK
<1>5. CASE j = i
  <2>1. ToRun(w, j) /\ ~ToRun(w, j)'
    BY <1>1, <1>3, <1>5 DEF ToRun, IsCurrent
  <2>2. Claimants(j)' = Claimants(j) \ {w} /\ w \in Claimants(j)
    BY <1>2, <2>1 DEF Claimants
  <2>3. Cardinality(Claimants(j)') = Cardinality(Claimants(j)) - 1
    BY <2>2, ClaimantsFinite, FS_RemoveElement
  <2>4. tries'[j] = tries[j] + 1
    BY <1>1, <1>5 DEF OutboxTypeOK
  <2> QED BY <1>4, <2>3, <2>4, ClaimantsFinite
<1>6. CASE j # i
  <2>1. ToRun(w, j)' <=> ToRun(w, j)
    BY <1>1, <1>3, <1>6 DEF ToRun, IsCurrent
  <2>2. Claimants(j)' = Claimants(j)
    BY <1>2, <2>1 DEF Claimants
  <2> QED BY <1>1, <1>4, <1>6, <2>2 DEF OutboxTypeOK
<1> QED BY <1>5, <1>6

\* A step that counts no attempt and runs nothing adds no run to come.
LEMMA OwedRuns ==
    ASSUME QueueInv, RunsInv, UNCHANGED <<attempts, tries>>,
           \A w \in Workers, j \in Jobs : ToRun(w, j)' => ToRun(w, j)
    PROVE  RunsInv'
<1> SUFFICES ASSUME NEW j \in Jobs
             PROVE  tries[j] + Cardinality(Claimants(j)') <= attempts[j]
  BY DEF RunsInv
<1>1. Claimants(j)' \subseteq Claimants(j)
  BY DEF Claimants
<1>2. Cardinality(Claimants(j)') <= Cardinality(Claimants(j))
  BY <1>1, ClaimantsFinite, FS_Subset
<1>3. Cardinality(Claimants(j)') \in Nat
  BY <1>1, ClaimantsFinite, FS_Subset, FS_CardinalityType
<1>4. /\ tries[j] \in Nat /\ attempts[j] \in Nat
      /\ tries[j] + Cardinality(Claimants(j)) <= attempts[j]
  BY OutboxAssumption DEF RunsInv, QueueInv, OutboxTypeOK
<1> QED BY <1>2, <1>3, <1>4, ClaimantsFinite

LEMMA OtherRuns ==
    ASSUME QueueInv, RunsInv,
           \/ \E batch \in SUBSET Jobs : EnqueueAll(batch)
           \/ \E j \in Jobs : BackoffElapses(j) \/ LeaseExpires(j)
           \/ \E w \in Workers : CrashWorker(w)
           \/ \E w \in Workers : \E j \in held[w] :
                 CompleteOk(w, j) \/ ReadAttempts(w, j) \/ CompleteError(w, j)
    PROVE  RunsInv'
<1> USE DEF QueueInv
<1>1. ASSUME \/ \E batch \in SUBSET Jobs : EnqueueAll(batch)
             \/ \E i \in Jobs : BackoffElapses(i) \/ LeaseExpires(i)
      PROVE  RunsInv'
  <2>1. UNCHANGED <<attempts, tries, held, phase>>
    BY <1>1 DEF EnqueueAll, BackoffElapses, LeaseExpires, workerVars
  <2>2. \A j \in Jobs : status[j] # "absent" => created'[j] = created[j]
    BY <1>1 DEF EnqueueAll, BackoffElapses, LeaseExpires, OutboxTypeOK
  <2>3. \A w \in Workers, j \in Jobs : ToRun(w, j)' => ToRun(w, j)
    BY <2>1, <2>2, ToRunStays DEF HeldExist, OutboxTypeOK
  <2> QED BY <2>1, <2>3, OwedRuns
<1>2. ASSUME NEW w \in Workers, CrashWorker(w) PROVE RunsInv'
  <2>1. UNCHANGED <<attempts, tries, created>> /\ held'[w] = {}
    BY <1>2 DEF CrashWorker, queueVars, OutboxTypeOK
  <2>2. \A v \in Workers \ {w} : held'[v] = held[v] /\ phase'[v] = phase[v]
    BY <1>2 DEF CrashWorker, OutboxTypeOK
  <2>3. \A v \in Workers \ {w}, j \in Jobs : ToRun(v, j)' => ToRun(v, j)
    BY <2>1, <2>2, ToRunStays
  <2>4. \A j \in Jobs : ~ToRun(w, j)'
    BY <2>1 DEF ToRun
  <2> QED BY <2>1, <2>3, <2>4, OwedRuns
<1>3. ASSUME NEW w \in Workers, NEW i \in held[w],
             CompleteOk(w, i) \/ CompleteError(w, i)
      PROVE  RunsInv'
  <2>1. /\ UNCHANGED <<attempts, tries, created>>
        /\ held'[w] = held[w] \ {i} /\ i = Current(w)
    BY <1>3 DEF CompleteOk, CompleteError, Leave, IsCurrent, OutboxTypeOK
  <2>2. \A v \in Workers \ {w} : held'[v] = held[v] /\ phase'[v] = phase[v]
    BY <1>3 DEF CompleteOk, CompleteError, Leave, OutboxTypeOK
  <2>3. \A v \in Workers \ {w}, j \in Jobs : ToRun(v, j)' => ToRun(v, j)
    BY <2>1, <2>2, ToRunStays
  <2>4. \A j \in Jobs : ToRun(w, j)' => ToRun(w, j)
    BY <2>1 DEF ToRun, IsCurrent
  <2> QED BY <2>1, <2>3, <2>4, OwedRuns
<1>4. ASSUME NEW w \in Workers, NEW i \in held[w], ReadAttempts(w, i)
      PROVE  RunsInv'
  <2>1. UNCHANGED <<attempts, tries, created, held>>
    BY <1>4 DEF ReadAttempts, queueVars
  <2>2. /\ phase[w] # "run" /\ phase'[w] # "run"
        /\ \A v \in Workers \ {w} : phase'[v] = phase[v]
    BY <1>4 DEF ReadAttempts, OutboxTypeOK
  <2>3. \A v \in Workers \ {w}, j \in Jobs : ToRun(v, j)' => ToRun(v, j)
    BY <2>1, <2>2, ToRunStays
  <2>4. \A j \in Jobs : ToRun(w, j)' => ToRun(w, j)
    BY <2>1, <2>2, CurrentStays DEF ToRun, IsCurrent
  <2> QED BY <2>1, <2>3, <2>4, OwedRuns
<1> QED BY <1>1, <1>2, <1>3, <1>4

\* README.md:274: the attempt limit bounds the runs of a handler, even when
\* leases expire under live workers, for any number of workers.
THEOREM RunsAreBounded == OutboxSpec => []TriesAreBounded
<1>1. OutboxInit => RunsInv
  <2> SUFFICES ASSUME OutboxInit, NEW j \in Jobs
               PROVE  tries[j] + Cardinality(Claimants(j)) <= attempts[j]
    BY DEF RunsInv
  <2>1. Claimants(j) = {}
    BY DEF OutboxInit, Claimants, ToRun
  <2> QED BY <2>1, FS_EmptySet DEF OutboxInit
<1>2. QueueInv /\ RunsInv /\ [OutboxNext]_outboxVars => RunsInv'
  <2> SUFFICES ASSUME QueueInv, RunsInv, [OutboxNext]_outboxVars
               PROVE  RunsInv'
    OBVIOUS
  <2>1. CASE UNCHANGED outboxVars
    BY <2>1 DEF RunsInv, Claimants, ToRun, IsCurrent, Current, Oldest, outboxVars
  <2>2. CASE OutboxNext
    BY <2>2, ClaimRuns, RunRuns, OtherRuns DEF OutboxNext, WorkerStep
  <2> QED BY <2>1, <2>2
<1>3. QueueInv /\ RunsInv => TriesAreBounded
  <2> SUFFICES ASSUME QueueInv, RunsInv, NEW j \in Jobs
               PROVE  tries[j] <= MaxAttempts
    BY DEF TriesAreBounded
  <2>1. /\ tries[j] \in Nat /\ attempts[j] \in 0 .. MaxAttempts
        /\ tries[j] + Cardinality(Claimants(j)) <= attempts[j]
    BY DEF RunsInv, QueueInv, OutboxTypeOK
  <2> QED BY <2>1, ClaimantsFinite, OutboxAssumption
<1> QED BY <1>1, <1>2, <1>3, QueueInvariant, PTL DEF OutboxSpec

=============================================================================

------------------------ MODULE TokenLifecycleProofs ------------------------
(***************************************************************************)
(* Proofs about TokenLifecycle, for any number of tokens, requests,        *)
(* workers, keys and sweeps.                                               *)
(*                                                                         *)
(* The composition implements both of its parts: its steps are steps of    *)
(* Outbox and of OrgEligibility, or leave their variables alone, so that   *)
(* what is proved of them holds here.  On top of the queue's invariant,    *)
(* four facts carry the proof that a live token is never forgotten: a      *)
(* sweep's jobs are new (SweepsAreFresh), no revocation is taken for a     *)
(* reconciliation (HandlersFit), a revocation that was not muted ends well *)
(* only under a revoked row (EndedRevoked), and it is marked sent only     *)
(* then (SentRevoked).                                                     *)
(***************************************************************************)
EXTENDS TokenLifecycle, OutboxProofs

\* What a request or a handler is about to activate or delete is a key.
SoundRequests ==
    {q \in Working \cup {Idle} :
        q.at \in {"finalize", "rejected", "cleanup", "delete"}
            => q.key \in Keys}
SoundHandlers ==
    {h \in Handlers :
        h.at \in {"finalize", "recheck", "delete"} => h.key \in Keys}

KeysAreKnown ==
    /\ request \in [Requests -> SoundRequests]
    /\ handler \in [Workers -> SoundHandlers]

TokensInv == TypeOK /\ KeysAreKnown

SweepsAreFresh ==
    \A t \in Tokens, n \in 1 .. MaxSweeps :
        n > sweeps => status[Revocation(t, n)] = "absent"

\* Only a reconciliation finalizes a row, while it runs.
HandlersFit ==
    \A w \in Workers :
        handler[w].at \in {"finalize", "recheck"} =>
            /\ phase[w] = "run" /\ held[w] # {}
            /\ \A j \in held[w] : IsCurrent(w, j) => j.kind = "reconcile"

EndedRevoked ==
    \A w \in Workers, j \in Jobs :
        j.kind = "revoke" /\ IsCurrent(w, j) /\ phase[w] = "ok"
            => row[j.token].status = "revoked" \/ j \in muted

SentRevoked ==
    \A j \in Jobs : j.kind = "revoke" /\ status[j] = "sent"
                        => row[j.token].status = "revoked" \/ j \in muted

DeliveryInv ==
    /\ TokensInv
    /\ QueueInv
    /\ SweepsAreFresh
    /\ HandlersFit
    /\ EndedRevoked
    /\ SentRevoked
    /\ LiveTokensAreQueued

-----------------------------------------------------------------------------
(* The composition implements its parts.                                   *)

LEMMA HandlerOnQueue ==
    ASSUME NEW w \in Workers, NEW j \in held[w], HandlerStep(w, j)
    PROVE  UNCHANGED outboxVars \/ \E succeeded \in BOOLEAN : Run(w, j, succeeded)
<1>1. CASE ReadForRevocation(w, j)
  BY <1>1 DEF ReadForRevocation, Finish, Continue
<1>2. CASE ReadForReconcile(w, j)
  BY <1>2 DEF ReadForReconcile
<1>3. CASE FindForRevocation(w, j)
  BY <1>3 DEF FindForRevocation, Finish, Continue
<1>4. CASE FindForReconcile(w, j)
  BY <1>4 DEF FindForReconcile, Resolve, Finish, Continue
<1>5. CASE FinalizeForReconcile(w, j)
  BY <1>5 DEF FinalizeForReconcile, Finish, Continue
<1>6. CASE Recheck(w, j)
  BY <1>6 DEF Recheck, Resolve, Finish, Continue
<1>7. CASE DeleteForJob(w, j)
  BY <1>7 DEF DeleteForJob, Finish, Continue
<1>8. CASE MarkForJob(w, j) \/ HandlerFails(w, j)
  BY <1>8 DEF MarkForJob, HandlerFails, FailSilently, Finish
<1> QED BY <1>1, <1>2, <1>3, <1>4, <1>5, <1>6, <1>7, <1>8 DEF HandlerStep

\* What a request does to the queue: nothing, or it inserts a reconciliation.
LEMMA RequestOnQueue ==
    ASSUME NEW r \in Requests, RequestStep(r), TypeOK
    PROVE  \/ UNCHANGED outboxVars
           \/ \E t \in Tokens : Enqueue(Reconcile(t))
<1>1. CASE EnqueueReconcile(r)
  <2>1. Token(r) \in Tokens
    BY <1>1 DEF EnqueueReconcile, TypeOK, Working, Idle, Token
  <2> QED BY <1>1, <2>1 DEF EnqueueReconcile, QueueReconcile
<1>2. CASE PromiseRevocation(r)
  <2>1. Token(r) \in Tokens
    BY <1>2 DEF PromiseRevocation, TypeOK, Working, Idle, Token, At
  <2> QED BY <1>2, <2>1 DEF PromiseRevocation, QueueReconcile
<1>3. CASE \/ \E t \in Tokens : StartCreate(r, t) \/ StartRevoke(r, t)
           \/ InsertRow(r) \/ FindKey(r) \/ PostKey(r) \/ FinalizeRequest(r)
           \/ EnqueueFails(r) \/ CleanUp(r)
           \/ LocateKey(r) \/ DeleteKey(r) \/ MarkRevoked(r) \/ CrashRequest(r)
  BY <1>3 DEF StartCreate, StartRevoke, InsertRow, FindKey, PostKey,
     FinalizeRequest, EnqueueFails, CleanUp, LocateKey, DeleteKey, MarkRevoked,
     CrashRequest
<1> QED BY <1>1, <1>2, <1>3 DEF RequestStep

LEMMA TokenJobsAreJobs ==
    /\ \A t \in Tokens : Reconcile(t) \in Jobs
    /\ \A t \in Tokens, n \in 1 .. MaxSweeps : Revocation(t, n) \in Jobs
BY TokenAssumption DEF TokenJobs, Revocations

LEMMA StepOnQueue ==
    ASSUME TypeOK, [Next]_vars PROVE [OutboxNext]_outboxVars
<1>1. CASE OrganizationSweeps
  <2>1. {t \in Tokens : row[t].status \in {"provisioning", "active"}} \subseteq Tokens
    OBVIOUS
  <2>2. sweeps + 1 \in 1 .. MaxSweeps
    BY <1>1, TokenAssumption DEF OrganizationSweeps, QueueRevocations, TypeOK
  <2>3. PICK batch \in SUBSET Jobs : EnqueueAll(batch)
    BY <1>1, <2>2, TokenJobsAreJobs DEF OrganizationSweeps, QueueRevocations
  <2> QED BY <2>3 DEF OutboxNext
<1>2. ASSUME NEW r \in Requests, RequestStep(r) PROVE [OutboxNext]_outboxVars
  <2>1. CASE UNCHANGED outboxVars
    BY <2>1
  <2>2. ASSUME NEW t \in Tokens, Enqueue(Reconcile(t)) PROVE OutboxNext
    <3>1. {Reconcile(t)} \in SUBSET Jobs
      BY TokenJobsAreJobs
    <3> QED BY <2>2, <3>1 DEF OutboxNext, Enqueue
  <2> QED BY <1>2, <2>1, <2>2, RequestOnQueue
<1>3. ASSUME NEW w \in Workers, NEW j \in held[w], HandlerStep(w, j)
      PROVE  [OutboxNext]_outboxVars
  BY <1>3, HandlerOnQueue DEF OutboxNext, WorkerStep
<1>4. ASSUME NEW w \in Workers, KillWorker(w) PROVE OutboxNext
  BY <1>4 DEF KillWorker, OutboxNext
<1>5. CASE QueueStep
  BY <1>5 DEF QueueStep, OutboxNext, WorkerStep
<1>6. CASE \/ OrganizationRecovers \/ \E k \in Keys : ListKey(k)
           \/ \E t \in Tokens : HideToken(t)
  BY <1>6 DEF OrganizationRecovers, ListKey, HideToken
<1>7. CASE UNCHANGED vars
  BY <1>7 DEF vars
<1> QED BY <1>1, <1>2, <1>3, <1>4, <1>5, <1>6, <1>7 DEF Next

\* Nobody but the organization changes its eligibility.
LEMMA OnlyTheOrganization ==
    ASSUME [Next]_vars
    PROVE  \/ OrganizationSweeps \/ OrganizationRecovers
           \/ UNCHANGED eligibilityVars
<1>1. ASSUME NEW r \in Requests, RequestStep(r) PROVE UNCHANGED eligibilityVars
  BY <1>1 DEF RequestStep, StartCreate, StartRevoke, InsertRow, FindKey, PostKey,
     FinalizeRequest, EnqueueReconcile, EnqueueFails, CleanUp, LocateKey,
     PromiseRevocation, DeleteKey, MarkRevoked, CrashRequest
<1>2. ASSUME NEW w \in Workers, NEW j \in held[w], HandlerStep(w, j)
      PROVE  UNCHANGED eligibilityVars
  BY <1>2 DEF HandlerStep, ReadForRevocation, ReadForReconcile, FindForRevocation,
     FindForReconcile, FinalizeForReconcile, Recheck, DeleteForJob, MarkForJob,
     HandlerFails, UnchangedByHandler
<1>3. CASE \/ \E w \in Workers : KillWorker(w)
           \/ \E k \in Keys : ListKey(k)
           \/ \E t \in Tokens : HideToken(t)
           \/ QueueStep \/ UNCHANGED vars
  BY <1>3 DEF KillWorker, QueueStep, ListKey, HideToken, UnchangedByHandler, vars
<1> QED BY <1>1, <1>2, <1>3 DEF Next

LEMMA StepOnEligibility ==
    ASSUME [Next]_vars PROVE [EligibilityNext]_eligibilityVars
<1>1. CASE OrganizationSweeps \/ OrganizationRecovers
  BY <1>1 DEF OrganizationSweeps, OrganizationRecovers, CreditStep,
     EligibilityNext, OrgStatuses, Disabled
<1> QED BY <1>1, OnlyTheOrganization

-----------------------------------------------------------------------------
(* Type correctness.                                                       *)

LEMMA InitTokens == Init => TokensInv
<1> SUFFICES ASSUME Init PROVE TokensInv
  OBVIOUS
<1>1. EligibilityTypeOK
  BY DEF Init, EligibilityInit, EligibilityTypeOK, OrgStatuses, BillingStatuses
<1>2. OutboxTypeOK
  BY InitType DEF Init, QueueInv
<1>3. row \in [Tokens -> Rows] /\ Reading \in Handlers
  BY DEF Init, NoRow, Rows, Reading, Handlers, HandlerSteps
<1>4. TypeOK
  BY <1>1, <1>2, <1>3, TokenAssumption DEF Init, TypeOK
<1>5. Idle \in SoundRequests /\ Reading \in SoundHandlers
  BY <1>3 DEF SoundRequests, SoundHandlers, Idle, Reading
<1> QED BY <1>4, <1>5 DEF Init, TokensInv, KeysAreKnown

LEMMA EligibilityTypes ==
    ASSUME EligibilityTypeOK, [EligibilityNext]_eligibilityVars
    PROVE  EligibilityTypeOK'
BY DEF EligibilityTypeOK, EligibilityNext, eligibilityVars, SetStatus,
   RestoreOrganization, ActivateOrganization, CreditAdjusted, UsageSettled,
   BillingAfter, Sweep, OrgStatuses, BillingStatuses, Disabled, Eligible

\* A row keeps its type when it is revoked, and when a key activates it.
LEMMA RowTypes ==
    ASSUME row \in [Tokens -> Rows], NEW t \in Tokens
    PROVE  /\ RevokeRow(t) => row' \in [Tokens -> Rows]
           /\ \A k \in Keys : FinalizeRow(t, k) => row' \in [Tokens -> Rows]
<1>1. row[t] \in Rows
  OBVIOUS
<1>2. [row[t] EXCEPT !.status = "revoked"] \in Rows
  BY <1>1 DEF Rows
<1>3. ASSUME NEW k \in Keys, AwaitsActivation(t)
      PROVE  [row[t] EXCEPT !.status = "active", !.key = k] \in Rows
  BY <1>1, <1>3, TokenAssumption DEF Rows, AwaitsActivation
<1>4. ASSUME NEW k \in Keys, FinalizeRow(t, k) PROVE row' \in [Tokens -> Rows]
  <2>1. CASE Activates(t)
    <3>1. row' = [row EXCEPT ![t] = [row[t] EXCEPT !.status = "active", !.key = k]]
      BY <1>4, <2>1 DEF FinalizeRow
    <3> QED BY <1>3, <2>1, <3>1 DEF Activates
  <2>2. CASE ~Activates(t)
    BY <1>2, <1>4, <2>2 DEF FinalizeRow
  <2> QED BY <2>1, <2>2
<1>5. ASSUME RevokeRow(t) PROVE row' \in [Tokens -> Rows]
  BY <1>2, <1>5 DEF RevokeRow
<1> QED BY <1>4, <1>5

\* A request moves to a step it knows the key of, or ends.
LEMMA RequestMoves ==
    ASSUME TokensInv, NEW r \in Requests, RequestStep(r)
    PROVE  request' \in [Requests -> SoundRequests]
<1> DEFINE q == request[r]
<1>1. request \in [Requests -> SoundRequests] /\ q \in SoundRequests
  BY DEF TokensInv, KeysAreKnown
<1>2. Idle \in SoundRequests
  BY DEF SoundRequests, Idle
<1>3. ASSUME End(r) PROVE request' \in [Requests -> SoundRequests]
  BY <1>1, <1>2, <1>3 DEF End
<1>4. ASSUME NEW step \in RequestSteps, q.at # "idle",
             step \in {"finalize", "rejected", "cleanup", "delete"} => q.key \in Keys,
             Goto(r, step)
      PROVE  request' \in [Requests -> SoundRequests]
  <2>1. q \in Working
    BY <1>1, <1>4 DEF SoundRequests, Idle
  <2>2. [q EXCEPT !.at = step] \in SoundRequests
    BY <1>4, <2>1 DEF SoundRequests, Working
  <2> QED BY <1>1, <1>4, <2>2 DEF Goto
<1>5. ASSUME NEW step \in RequestSteps, q.at # "idle", NEW k \in Keys,
             request' = [request EXCEPT ![r].at = step, ![r].key = k]
      PROVE  request' \in [Requests -> SoundRequests]
  <2>1. q \in Working
    BY <1>1, <1>5 DEF SoundRequests, Idle
  <2>2. [q EXCEPT !.at = step, !.key = k] \in SoundRequests
    BY <1>5, <2>1 DEF SoundRequests, Working
  <2> QED BY <1>1, <1>5, <2>2
<1>6. ASSUME NEW t \in Tokens, StartCreate(r, t) \/ StartRevoke(r, t)
      PROVE  request' \in [Requests -> SoundRequests]
  <2>1. row[t] \in Rows
    BY DEF TokensInv, TypeOK
  <2>2. CASE StartCreate(r, t)
    BY <1>1, <2>2 DEF StartCreate, SoundRequests, Working, RequestSteps
  <2>3. CASE StartRevoke(r, t)
    BY <1>1, <2>1, <2>3
       DEF StartRevoke, SoundRequests, Working, RequestSteps, Rows
  <2> QED BY <1>6, <2>2, <2>3
<1>7. CASE InsertRow(r) \/ FindKey(r) \/ EnqueueReconcile(r) \/ EnqueueFails(r)
  <2>1. q.at \in {"insert", "find", "uncertain", "rejected"}
    BY <1>7 DEF InsertRow, FindKey, EnqueueReconcile, EnqueueFails, At
  <2>2. \/ End(r)
        \/ \E step \in {"find", "post", "uncertain"} : Goto(r, step)
        \/ q.at = "rejected" /\ Goto(r, "cleanup")
    BY <1>7 DEF InsertRow, FindKey, EnqueueReconcile, EnqueueFails,
       AfterEnqueue, At
  <2> QED BY <1>1, <1>3, <1>4, <2>1, <2>2 DEF RequestSteps, SoundRequests
<1>8. CASE PostKey(r)
  <2>1. q.at = "post" /\ NextKeys(Token(r)) \subseteq Keys
    BY <1>8 DEF PostKey, At, NextKeys
  <2> QED BY <1>3, <1>4, <1>5, <1>8, <2>1 DEF PostKey, RequestSteps
<1>9. CASE FinalizeRequest(r) \/ DeleteKey(r)
  BY <1>1, <1>3, <1>4, <1>9
     DEF FinalizeRequest, DeleteKey, At, RequestSteps, SoundRequests
<1>10. CASE LocateKey(r)
  <2>1. q.at = "locate" /\ Found(Token(r), FALSE) \subseteq Keys
    BY <1>10 DEF LocateKey, At, Found
  <2> QED BY <1>3, <1>4, <1>5, <1>10, <2>1 DEF LocateKey, RequestSteps
<1>11. CASE CleanUp(r) \/ PromiseRevocation(r) \/ MarkRevoked(r) \/ CrashRequest(r)
  BY <1>3, <1>11 DEF CleanUp, PromiseRevocation, MarkRevoked, CrashRequest
<1> QED BY <1>6, <1>7, <1>8, <1>9, <1>10, <1>11 DEF RequestStep

ProxyStates == {"unused", "hidden", "listed", "deleted"}
Payloads == [key : Keys \cup {NoKey}, user : BOOLEAN]

LEMMA RequestTables ==
    ASSUME TokensInv, NEW r \in Requests, RequestStep(r)
    PROVE  /\ row' \in [Tokens -> Rows]
           /\ proxy' \in [Keys -> ProxyStates]
           /\ payload' \in [Jobs -> Payloads]
           /\ promised' \subseteq Tokens
           /\ UNCHANGED <<eligibilityVars, handler, sweeps, muted>>
<1>1. /\ row \in [Tokens -> Rows] /\ proxy \in [Keys -> ProxyStates]
      /\ payload \in [Jobs -> Payloads] /\ promised \subseteq Tokens
      /\ request[r] \in SoundRequests
  BY DEF TokensInv, TypeOK, KeysAreKnown, ProxyStates, Payloads
<1>2. CASE \/ \E t \in Tokens : StartCreate(r, t) \/ StartRevoke(r, t)
           \/ FindKey(r) \/ EnqueueFails(r) \/ LocateKey(r) \/ CrashRequest(r)
  BY <1>1, <1>2 DEF StartCreate, StartRevoke, FindKey, EnqueueFails, LocateKey,
     CrashRequest
<1>3. ASSUME request[r].at # "idle" PROVE Token(r) \in Tokens
  BY <1>1, <1>3 DEF SoundRequests, Working, Idle, Token
<1>4. CASE InsertRow(r)
  <2>1. Token(r) \in Tokens
    BY <1>3, <1>4 DEF InsertRow, At
  <2>2. row[Token(r)].status = "absent" =>
            [row[Token(r)] EXCEPT !.status = "provisioning"] \in Rows
    BY <1>1, <2>1 DEF Rows
  <2> QED BY <1>1, <1>4, <2>1, <2>2 DEF InsertRow
<1>5. CASE PostKey(r) \/ CleanUp(r) \/ DeleteKey(r)
  <2>1. CASE PostKey(r)
    BY <1>1, <2>1 DEF PostKey, ProxyStates
  <2>2. CASE CleanUp(r) \/ DeleteKey(r)
    BY <1>1, <2>2 DEF CleanUp, DeleteKey, ProxyStates
  <2> QED BY <1>5, <2>1, <2>2
<1>6. CASE FinalizeRequest(r)
  <2>1. Token(r) \in Tokens /\ request[r].key \in Keys
    BY <1>1, <1>3, <1>6 DEF FinalizeRequest, At, SoundRequests
  <2> QED BY <1>1, <1>6, <2>1, RowTypes DEF FinalizeRequest
<1>7. CASE MarkRevoked(r)
  <2>1. Token(r) \in Tokens
    BY <1>3, <1>7 DEF MarkRevoked, At
  <2> QED BY <1>1, <1>7, <2>1, RowTypes DEF MarkRevoked
<1>8. CASE EnqueueReconcile(r) \/ PromiseRevocation(r)
  <2>1. Token(r) \in Tokens
    BY <1>3, <1>8 DEF EnqueueReconcile, PromiseRevocation, At
  <2>2. ASSUME NEW user \in BOOLEAN, QueueReconcile(Token(r), user)
        PROVE  payload' \in [Jobs -> Payloads]
    BY <1>1, <2>2 DEF QueueReconcile, Payloads
  <2>3. CASE EnqueueReconcile(r)
    <3>1. (Token(r) \in MemberBound) \in BOOLEAN
      OBVIOUS
    <3> QED BY <1>1, <2>2, <2>3, <3>1 DEF EnqueueReconcile
  <2>4. CASE PromiseRevocation(r)
    BY <1>1, <2>1, <2>2, <2>4 DEF PromiseRevocation
  <2> QED BY <1>8, <2>3, <2>4
<1> QED BY <1>2, <1>4, <1>5, <1>6, <1>7, <1>8 DEF RequestStep

LEMMA JobFields ==
    ASSUME NEW j \in Jobs
    PROVE  j.token \in Tokens /\ j.kind \in {"revoke", "reconcile"}
BY TokenAssumption DEF TokenJobs, Revocations, Revocation, Reconcile

\* A handler moves to a step it knows the key of, or starts over.
LEMMA HandlerMoves ==
    ASSUME TokensInv, NEW w \in Workers, NEW j \in Jobs, HandlerStep(w, j)
    PROVE  handler' \in [Workers -> SoundHandlers]
<1> DEFINE h == handler[w]
<1>1. handler \in [Workers -> SoundHandlers] /\ h \in SoundHandlers
  BY DEF TokensInv, KeysAreKnown
<1>2. Reading \in SoundHandlers
  BY DEF SoundHandlers, Reading, Handlers, HandlerSteps, NoRow, Rows
<1>3. ASSUME NEW b, Finish(w, j, b) PROVE handler' \in [Workers -> SoundHandlers]
  BY <1>1, <1>2, <1>3 DEF Finish
<1>4. ASSUME NEW step \in HandlerSteps, NEW k \in Keys \cup {NoKey},
             step \in {"finalize", "recheck", "delete"} => k \in Keys,
             Continue(w, step, k)
      PROVE  handler' \in [Workers -> SoundHandlers]
  <2>1. [h EXCEPT !.at = step, !.key = k] \in SoundHandlers
    BY <1>1, <1>4 DEF SoundHandlers, Handlers
  <2> QED BY <1>1, <1>4, <2>1 DEF Continue
<1>5. ASSUME NEW k \in Keys, NEW local, Resolve(w, j, k, local)
      PROVE  handler' \in [Workers -> SoundHandlers]
  BY <1>3, <1>4, <1>5 DEF Resolve, HandlerSteps
<1>6. /\ j.token \in Tokens
      /\ row[j.token] \in Rows /\ payload[j].key \in Keys \cup {NoKey}
      /\ Found(j.token, payload[j].user) \subseteq Keys
  BY JobFields DEF TokensInv, TypeOK, Found
<1>7. CASE ReadForRevocation(w, j)
  <2>1. KnownKey(j) \in Keys \cup {NoKey}
    BY <1>6 DEF KnownKey, Rows
  <2>2. \/ \E b \in BOOLEAN : Finish(w, j, b)
        \/ Continue(w, "find", NoKey)
        \/ KnownKey(j) # NoKey /\ Continue(w, "delete", KnownKey(j))
    BY <1>7 DEF ReadForRevocation
  <2> QED BY <1>3, <1>4, <2>1, <2>2 DEF HandlerSteps
<1>8. CASE ReadForReconcile(w, j)
  <2>1. [at |-> "find", key |-> NoKey, row |-> row[j.token]] \in SoundHandlers
    BY <1>6 DEF SoundHandlers, Handlers, HandlerSteps
  <2> QED BY <1>1, <1>8, <2>1 DEF ReadForReconcile
<1>9. CASE FindForRevocation(w, j)
  BY <1>3, <1>4, <1>6, <1>9 DEF FindForRevocation, HandlerSteps
<1>10. CASE FindForReconcile(w, j)
  BY <1>3, <1>5, <1>6, <1>10 DEF FindForReconcile
<1>11. CASE FinalizeForReconcile(w, j) \/ Recheck(w, j) \/ DeleteForJob(w, j)
  <2>1. h.key \in Keys
    BY <1>1, <1>11
       DEF FinalizeForReconcile, Recheck, DeleteForJob, In, SoundHandlers
  <2> QED BY <1>3, <1>4, <1>5, <1>11, <2>1
          DEF FinalizeForReconcile, Recheck, DeleteForJob, HandlerSteps
<1>12. CASE MarkForJob(w, j) \/ HandlerFails(w, j)
  BY <1>1, <1>2, <1>3, <1>12 DEF MarkForJob, HandlerFails, FailSilently
<1> QED BY <1>7, <1>8, <1>9, <1>10, <1>11, <1>12 DEF HandlerStep

LEMMA HandlerTables ==
    ASSUME TokensInv, NEW w \in Workers, NEW j \in Jobs, HandlerStep(w, j)
    PROVE  /\ row' \in [Tokens -> Rows]
           /\ proxy' \in [Keys -> ProxyStates]
           /\ muted \subseteq muted' /\ muted' \subseteq muted \cup {j}
           /\ UnchangedByHandler
<1>1. /\ row \in [Tokens -> Rows] /\ proxy \in [Keys -> ProxyStates]
      /\ handler[w] \in SoundHandlers /\ j.token \in Tokens
  BY JobFields DEF TokensInv, TypeOK, KeysAreKnown, ProxyStates
<1>2. \/ UNCHANGED muted
      \/ muted' = muted \cup {j}
  BY DEF HandlerStep, ReadForRevocation, ReadForReconcile, FindForRevocation,
     FindForReconcile, Resolve, FinalizeForReconcile, Recheck, DeleteForJob,
     MarkForJob, HandlerFails, FailSilently, Finish, Continue
<1>3. CASE \/ ReadForRevocation(w, j) \/ ReadForReconcile(w, j)
           \/ FindForRevocation(w, j) \/ FindForReconcile(w, j)
           \/ Recheck(w, j) \/ HandlerFails(w, j)
  BY <1>1, <1>3, <1>2 DEF ReadForRevocation, ReadForReconcile, FindForRevocation,
     FindForReconcile, Recheck, HandlerFails
<1>4. CASE FinalizeForReconcile(w, j)
  <2>1. handler[w].key \in Keys
    BY <1>1, <1>4 DEF FinalizeForReconcile, In, SoundHandlers
  <2> QED BY <1>1, <1>4, <1>2, <2>1, RowTypes DEF FinalizeForReconcile
<1>5. CASE DeleteForJob(w, j)
  BY <1>1, <1>5, <1>2 DEF DeleteForJob, ProxyStates
<1>6. CASE MarkForJob(w, j)
  BY <1>1, <1>6, <1>2, RowTypes DEF MarkForJob
<1> QED BY <1>3, <1>4, <1>5, <1>6 DEF HandlerStep

LEMMA TokensStepInv ==
    ASSUME TokensInv, [Next]_vars, OutboxTypeOK'
    PROVE  TokensInv'
<1>1. EligibilityTypeOK'
  BY EligibilityTypes, StepOnEligibility DEF TokensInv, TypeOK
<1> DEFINE Tables == /\ row' \in [Tokens -> Rows]
                     /\ proxy' \in [Keys -> ProxyStates]
                     /\ payload' \in [Jobs -> Payloads]
                     /\ promised' \subseteq Tokens
                     /\ request' \in [Requests -> SoundRequests]
                     /\ handler' \in [Workers -> SoundHandlers]
                     /\ sweeps' \in 0 .. MaxSweeps
                     /\ muted' \subseteq Jobs
<1>2. /\ row \in [Tokens -> Rows] /\ proxy \in [Keys -> ProxyStates]
      /\ payload \in [Jobs -> Payloads] /\ promised \subseteq Tokens
      /\ request \in [Requests -> SoundRequests]
      /\ handler \in [Workers -> SoundHandlers] /\ sweeps \in 0 .. MaxSweeps
      /\ muted \subseteq Jobs
  BY DEF TokensInv, TypeOK, KeysAreKnown, ProxyStates, Payloads
<1>3. Tables => TokensInv'
  BY <1>1 DEF TokensInv, TypeOK, KeysAreKnown, ProxyStates, Payloads,
     SoundRequests, SoundHandlers
<1>4. Reading \in SoundHandlers
  BY DEF SoundHandlers, Reading, Handlers, HandlerSteps, NoRow, Rows
<1>5. CASE OrganizationSweeps
  <2>1. sweeps' \in 0 .. MaxSweeps
    BY <1>2, <1>5, TokenAssumption DEF OrganizationSweeps, QueueRevocations
  <2>2. \A j \in Jobs : j.token \in Tokens /\ row[j.token].key \in Keys \cup {NoKey}
    BY <1>2, JobFields DEF Rows
  <2>3. payload' \in [Jobs -> Payloads]
    BY <1>2, <1>5, <2>2 DEF OrganizationSweeps, QueueRevocations, Payloads
  <2> QED BY <1>2, <1>3, <1>5, <2>1, <2>3 DEF OrganizationSweeps
<1>6. CASE OrganizationRecovers \/ QueueStep \/ UNCHANGED vars
  BY <1>2, <1>3, <1>6 DEF OrganizationRecovers, QueueStep, vars
<1>7. CASE \E k \in Keys : ListKey(k)
  BY <1>2, <1>3, <1>7 DEF ListKey, ProxyStates
<1>8. ASSUME NEW t \in Tokens, HideToken(t) PROVE Tables
  <2>1. [row[t] EXCEPT !.deleted = TRUE] \in Rows
    BY <1>2, <1>8 DEF HideToken, Rows
  <2> QED BY <1>2, <1>8, <2>1 DEF HideToken
<1>9. ASSUME NEW r \in Requests, RequestStep(r) PROVE Tables
  BY <1>2, <1>9, RequestMoves, RequestTables
<1>10. ASSUME NEW w \in Workers, NEW j \in held[w], HandlerStep(w, j) PROVE Tables
  <2>1. j \in Jobs
    BY DEF TokensInv, TypeOK, OutboxTypeOK
  <2> QED BY <1>2, <1>10, <2>1, HandlerMoves, HandlerTables DEF UnchangedByHandler
<1>11. ASSUME NEW w \in Workers, KillWorker(w) PROVE Tables
  BY <1>2, <1>4, <1>11 DEF KillWorker, UnchangedByHandler
<1> QED BY <1>3, <1>5, <1>6, <1>7, <1>8, <1>9, <1>10, <1>11 DEF Next

\* The invariant of the tables, together with the queue's.
LEMMA TablesStepInv ==
    TokensInv /\ QueueInv /\ [Next]_vars => (TokensInv /\ QueueInv)'
<1> SUFFICES ASSUME TokensInv, QueueInv, [Next]_vars
             PROVE  TokensInv' /\ QueueInv'
  OBVIOUS
<1>1. QueueInv'
  BY StepOnQueue, QueueStepInv DEF TokensInv
<1>2. OutboxTypeOK'
  BY <1>1 DEF QueueInv
<1> QED BY <1>1, <1>2, TokensStepInv

LEMMA TablesInvariant == Spec => [](TokensInv /\ QueueInv)
<1>1. Init => TokensInv /\ QueueInv
  BY InitTokens, InitType DEF Init
<1> QED BY <1>1, TablesStepInv, PTL DEF Spec

\* The rows, the proxy, the jobs and everything under way keep their types.
THEOREM TokensTypeCorrect == Spec => []TypeOK
<1>1. TokensInv => TypeOK
  BY DEF TokensInv
<1> QED BY <1>1, TablesInvariant, PTL

\* Requests, sweeps and handlers drive the job queue as Outbox says, so that
\* what is proved of the queue holds of the composition.
THEOREM ImplementsOutbox == Spec => OutboxSpec
<1>1. Init => OutboxInit
  BY DEF Init
<1>2. TokensInv /\ [Next]_vars => [OutboxNext]_outboxVars
  BY StepOnQueue DEF TokensInv
<1> QED BY <1>1, <1>2, TablesInvariant, PTL DEF Spec, OutboxSpec

\* The token operations leave the organization as OrgEligibility says.
THEOREM ImplementsOrgEligibility == Spec => EligibilitySpec
<1>1. Init => EligibilityInit
  BY DEF Init
<1>2. [Next]_vars => [EligibilityNext]_eligibilityVars
  BY StepOnEligibility
<1> QED BY <1>1, <1>2, PTL DEF Spec, EligibilitySpec

-----------------------------------------------------------------------------
(* What may become of a row.                                               *)

\* A row is left alone; or it moves on, to anything but active and never from
\* revoked; or it is activated with its first key while the organization is,
\* and stays, eligible.
Retained(t) == row'[t].status = row[t].status /\ row'[t].key = row[t].key
Retired(t) == /\ row'[t].status # "active" /\ row'[t].key = row[t].key
              /\ row[t].status = "revoked" => row'[t].status = "revoked"
Activated(t) == /\ AwaitsActivation(t) /\ Eligible /\ UNCHANGED eligibilityVars

LEMMA RowFate ==
    ASSUME TokensInv, [Next]_vars, NEW t \in Tokens
    PROVE  Retained(t) \/ Retired(t) \/ Activated(t)
<1>1. row \in [Tokens -> Rows]
  BY DEF TokensInv, TypeOK
<1>2. ASSUME UNCHANGED row PROVE Retained(t)
  BY <1>2 DEF Retained
<1>3. ASSUME NEW u \in Tokens, RevokeRow(u) PROVE Retained(t) \/ Retired(t)
  BY <1>1, <1>3 DEF RevokeRow, Retained, Retired, Rows
<1>4. ASSUME NEW u \in Tokens, NEW k, FinalizeRow(u, k), UNCHANGED eligibilityVars
      PROVE  Retained(t) \/ Retired(t) \/ Activated(t)
  <2>1. CASE u # t
    BY <1>1, <1>4, <2>1 DEF FinalizeRow, Retained, Rows
  <2>2. CASE Activates(t)
    BY <1>4, <2>2 DEF Activates, Activated
  <2>3. CASE u = t /\ ~Activates(t)
    BY <1>1, <1>4, <2>3
       DEF FinalizeRow, Retained, Retired, Rows, AwaitsActivation
  <2> QED BY <2>1, <2>2, <2>3
<1>5. ASSUME NEW r \in Requests, RequestStep(r)
      PROVE  Retained(t) \/ Retired(t) \/ Activated(t)
  <2>1. request[r] \in Working \cup {Idle}
    BY DEF TokensInv, TypeOK
  <2>2. request[r].at # "idle" => Token(r) \in Tokens
    BY <2>1 DEF Working, Idle, Token
  <2>3. CASE InsertRow(r)
    BY <1>1, <2>2, <2>3 DEF InsertRow, At, Retained, Retired, Rows
  <2>4. CASE FinalizeRequest(r)
    BY <1>2, <1>4, <2>2, <2>4 DEF FinalizeRequest, At
  <2>5. CASE MarkRevoked(r)
    BY <1>3, <2>2, <2>5 DEF MarkRevoked, At
  <2>6. CASE \/ \E u \in Tokens : StartCreate(r, u) \/ StartRevoke(r, u)
             \/ FindKey(r) \/ PostKey(r) \/ EnqueueReconcile(r)
             \/ EnqueueFails(r) \/ CleanUp(r) \/ LocateKey(r)
             \/ PromiseRevocation(r) \/ DeleteKey(r) \/ CrashRequest(r)
    BY <1>2, <2>6 DEF StartCreate, StartRevoke, FindKey, PostKey,
       EnqueueReconcile, EnqueueFails, CleanUp, LocateKey, PromiseRevocation,
       DeleteKey, CrashRequest
  <2> QED BY <1>5, <2>3, <2>4, <2>5, <2>6 DEF RequestStep
<1>6. ASSUME NEW w \in Workers, NEW j \in held[w], HandlerStep(w, j)
      PROVE  Retained(t) \/ Retired(t) \/ Activated(t)
  <2>1. j.token \in Tokens
    BY JobFields DEF TokensInv, TypeOK, OutboxTypeOK
  <2>2. CASE FinalizeForReconcile(w, j)
    BY <1>2, <1>4, <2>1, <2>2 DEF FinalizeForReconcile, UnchangedByHandler
  <2>3. CASE MarkForJob(w, j)
    BY <1>3, <2>1, <2>3 DEF MarkForJob
  <2> QED BY <1>2, <1>6, <2>2, <2>3 DEF HandlerStep, ReadForRevocation,
          ReadForReconcile, FindForRevocation, FindForReconcile, Recheck,
          DeleteForJob, HandlerFails
<1>7. ASSUME NEW u \in Tokens, HideToken(u) PROVE Retained(t)
  BY <1>1, <1>7 DEF HideToken, Retained, Rows
<1>8. CASE \/ OrganizationSweeps \/ OrganizationRecovers \/ QueueStep
           \/ \E k \in Keys : ListKey(k)
           \/ \E w \in Workers : KillWorker(w)
           \/ UNCHANGED vars
  BY <1>2, <1>8 DEF OrganizationSweeps, OrganizationRecovers, QueueStep, ListKey,
     KillWorker, vars
<1> QED BY <1>5, <1>6, <1>7, <1>8 DEF Next

\* A revoked token never works again and a token keeps the key it was
\* activated with, whatever requests and jobs are still under way.
THEOREM RevokedStays == Spec => RevokedIsFinal
<1>1. TokensInv /\ [Next]_vars =>
        [\A t \in Tokens :
            /\ row[t].status = "revoked" => row'[t].status = "revoked"
            /\ row[t].key # NoKey => row'[t].key = row[t].key]_vars
  BY RowFate DEF Retained, Retired, Activated, AwaitsActivation
<1> QED BY <1>1, TablesInvariant, PTL DEF Spec, RevokedIsFinal

-----------------------------------------------------------------------------
(* A live token is never forgotten.                                        *)

Undisturbed(v) == /\ held'[v] = held[v] /\ phase'[v] = phase[v]
                  /\ Current(v)' = Current(v)

\* A step of the queue disturbs at most the worker that makes it.
LEMMA EnqueueUndisturbed ==
    ASSUME QueueInv, NEW batch \in SUBSET Jobs, EnqueueAll(batch), NEW v \in Workers
    PROVE  Undisturbed(v)
<1>1. held'[v] = held[v] /\ phase'[v] = phase[v]
  BY DEF EnqueueAll, workerVars
<1>2. \A j \in held[v] : created'[j] = created[j]
  BY DEF EnqueueAll, QueueInv, HeldExist, OutboxTypeOK
<1> QED BY <1>1, <1>2, CurrentStays DEF Undisturbed

LEMMA TimeUndisturbed ==
    ASSUME NEW j \in Jobs, BackoffElapses(j) \/ LeaseExpires(j), NEW v \in Workers
    PROVE  Undisturbed(v)
<1>1. UNCHANGED <<held, phase, created>>
  BY DEF BackoffElapses, LeaseExpires, workerVars
<1> QED BY <1>1, CurrentStays DEF Undisturbed

LEMMA OthersUndisturbed ==
    ASSUME OutboxTypeOK, NEW w \in Workers, NEW v \in Workers \ {w},
           \/ Claim(w) \/ CrashWorker(w)
           \/ \E j \in held[w] : \/ CompleteOk(w, j) \/ ReadAttempts(w, j)
                                 \/ CompleteError(w, j)
                                 \/ \E succeeded \in BOOLEAN : Run(w, j, succeeded)
    PROVE  Undisturbed(v)
<1>1. UNCHANGED created
  BY DEF Claim, CrashWorker, CompleteOk, ReadAttempts, CompleteError, Run, queueVars
<1>2. held'[v] = held[v] /\ phase'[v] = phase[v]
  BY DEF Claim, CrashWorker, CompleteOk, ReadAttempts, CompleteError, Run,
     Leave, queueVars, OutboxTypeOK
<1> QED BY <1>1, <1>2, CurrentStays DEF Undisturbed

\* The steps of the queue but the inserts.
QueueOnly ==
    \/ \E j \in Jobs : BackoffElapses(j) \/ LeaseExpires(j)
    \/ \E w \in Workers : Claim(w) \/ WorkerStep(w) \/ CrashWorker(w)

\* Only an insert makes a job exist, and a job that exists never vanishes.
LEMMA AbsentStays ==
    ASSUME QueueInv, QueueOnly, NEW i \in Jobs
    PROVE  status'[i] = "absent" <=> status[i] = "absent"
<1> USE DEF QueueInv
<1>1. CASE \E w \in Workers : Claim(w)
  <2> PICK w \in Workers, batch \in SUBSET Claimable :
        status' = [j \in Jobs |-> IF j \in batch THEN "processing"
                                                 ELSE Recovered(j)]
    BY <1>1 DEF Claim
  <2>1. i \in batch => Recovered(i) = "pending"
    BY DEF Claimable
  <2> QED BY <2>1, RecoveredStatus
<1>2. ASSUME NEW w \in Workers, WorkerStep(w)
      PROVE  status'[i] = "absent" <=> status[i] = "absent"
  <2> PICK j \in held[w] : \/ \E succeeded \in BOOLEAN : Run(w, j, succeeded)
                           \/ CompleteOk(w, j) \/ ReadAttempts(w, j)
                           \/ CompleteError(w, j)
    BY <1>2 DEF WorkerStep
  <2>1. status[j] # "absent" /\ j \in Jobs
    BY DEF HeldExist, OutboxTypeOK
  <2> QED BY <2>1 DEF Run, CompleteOk, ReadAttempts, CompleteError,
          StatusAfterError, queueVars, OutboxTypeOK
<1>3. CASE \/ \E w \in Workers : CrashWorker(w)
           \/ \E j \in Jobs : BackoffElapses(j) \/ LeaseExpires(j)
  BY <1>3 DEF CrashWorker, BackoffElapses, LeaseExpires, queueVars
<1> QED BY <1>1, <1>2, <1>3 DEF QueueOnly

LEMMA ExistenceStays ==
    ASSUME QueueInv, [OutboxNext]_outboxVars, NEW i \in Jobs, status[i] # "absent"
    PROVE  status'[i] # "absent"
<1>1. ASSUME NEW batch \in SUBSET Jobs, EnqueueAll(batch) PROVE status'[i] = status[i]
  BY <1>1 DEF EnqueueAll, StatusAfterEnqueue
<1> QED BY <1>1, AbsentStays DEF OutboxNext, QueueOnly, outboxVars

\* A job becomes sent only when its worker completes it.
LEMMA SentByCompletion ==
    ASSUME QueueInv, [OutboxNext]_outboxVars, NEW i \in Jobs,
           status[i] # "sent", status'[i] = "sent"
    PROVE  \E w \in Workers : i \in held[w] /\ CompleteOk(w, i)
<1> USE DEF QueueInv
<1>1. ASSUME NEW batch \in SUBSET Jobs, EnqueueAll(batch) PROVE FALSE
  BY <1>1 DEF EnqueueAll, StatusAfterEnqueue
<1>2. ASSUME NEW w \in Workers, Claim(w) PROVE FALSE
  <2> PICK batch \in SUBSET Claimable :
        status' = [j \in Jobs |-> IF j \in batch THEN "processing"
                                                 ELSE Recovered(j)]
    BY <1>2 DEF Claim
  <2> QED BY RecoveredStatus
<1>3. ASSUME NEW w \in Workers, WorkerStep(w)
      PROVE  i \in held[w] /\ CompleteOk(w, i)
  <2> PICK j \in held[w] : \/ \E succeeded \in BOOLEAN : Run(w, j, succeeded)
                           \/ CompleteOk(w, j) \/ ReadAttempts(w, j)
                           \/ CompleteError(w, j)
    BY <1>3 DEF WorkerStep
  <2>1. ~CompleteError(w, j)
    BY DEF CompleteError, StatusAfterError, OutboxTypeOK
  <2>2. CompleteOk(w, j)
    BY <2>1 DEF Run, ReadAttempts, queueVars
  <2>3. i = j
    BY <2>2 DEF CompleteOk, OutboxTypeOK
  <2> QED BY <2>2, <2>3
<1>4. ASSUME \/ \E w \in Workers : CrashWorker(w)
             \/ \E j \in Jobs : BackoffElapses(j) \/ LeaseExpires(j)
             \/ UNCHANGED outboxVars
      PROVE  FALSE
  BY <1>4 DEF CrashWorker, BackoffElapses, LeaseExpires, outboxVars, queueVars
<1> QED BY <1>1, <1>2, <1>3, <1>4 DEF OutboxNext

\* How a step of the composition moves the queue.
LEMMA NextOnQueue ==
    ASSUME TypeOK, [Next]_vars
    PROVE  \/ OrganizationSweeps
           \/ sweeps' = sweeps /\ \E t \in Tokens : Enqueue(Reconcile(t))
           \/ sweeps' = sweeps /\ (QueueOnly \/ UNCHANGED outboxVars)
<1>1. ASSUME NEW r \in Requests, RequestStep(r)
      PROVE  /\ sweeps' = sweeps
             /\ \/ \E t \in Tokens : Enqueue(Reconcile(t))
                \/ UNCHANGED outboxVars
  <2>1. sweeps' = sweeps
    BY <1>1 DEF RequestStep, StartCreate, StartRevoke, InsertRow, FindKey, PostKey,
       FinalizeRequest, EnqueueReconcile, EnqueueFails, CleanUp, LocateKey,
       PromiseRevocation, DeleteKey, MarkRevoked, CrashRequest
  <2> QED BY <1>1, <2>1, RequestOnQueue
<1>2. ASSUME NEW w \in Workers, NEW j \in held[w], HandlerStep(w, j)
      PROVE  sweeps' = sweeps /\ (QueueOnly \/ UNCHANGED outboxVars)
  <2>1. sweeps' = sweeps
    BY <1>2 DEF HandlerStep, ReadForRevocation, ReadForReconcile,
       FindForRevocation, FindForReconcile, FinalizeForReconcile, Recheck,
       DeleteForJob, MarkForJob, HandlerFails, UnchangedByHandler
  <2> QED BY <1>2, <2>1, HandlerOnQueue DEF QueueOnly, WorkerStep
<1>3. CASE QueueStep \/ \E w \in Workers : KillWorker(w)
  BY <1>3 DEF QueueStep, KillWorker, UnchangedByHandler, QueueOnly, WorkerStep
<1>4. CASE \/ OrganizationRecovers \/ \E k \in Keys : ListKey(k)
           \/ \E t \in Tokens : HideToken(t)
           \/ UNCHANGED vars
  BY <1>4 DEF OrganizationRecovers, ListKey, HideToken, vars
<1> QED BY <1>1, <1>2, <1>3, <1>4 DEF Next

LEMMA FreshStep ==
    ASSUME DeliveryInv, [Next]_vars PROVE SweepsAreFresh'
<1> SUFFICES ASSUME NEW t \in Tokens, NEW n \in 1 .. MaxSweeps, n > sweeps'
             PROVE  status'[Revocation(t, n)] = "absent"
  BY DEF SweepsAreFresh
<1> DEFINE i == Revocation(t, n)
<1>1. i \in Jobs /\ sweeps \in 0 .. MaxSweeps
  BY TokenJobsAreJobs DEF DeliveryInv, TokensInv, TypeOK
<1>2. ASSUME n > sweeps PROVE status[i] = "absent"
  BY <1>2 DEF DeliveryInv, SweepsAreFresh
<1>3. CASE OrganizationSweeps
  <2>1. sweeps' = sweeps + 1
    BY <1>3 DEF OrganizationSweeps, QueueRevocations
  <2>2. PICK batch : /\ EnqueueAll(batch)
                     /\ \A j \in batch : j.version = sweeps + 1
    BY <1>3 DEF OrganizationSweeps, QueueRevocations, Revocation
  <2>3. i \notin batch
    BY <1>1, <2>1, <2>2 DEF Revocation
  <2> QED BY <1>1, <1>2, <2>1, <2>2, <2>3, TokenAssumption DEF EnqueueAll
<1>4. CASE sweeps' = sweeps /\ \E u \in Tokens : Enqueue(Reconcile(u))
  <2> PICK u \in Tokens : Enqueue(Reconcile(u))
    BY <1>4
  <2>1. i # Reconcile(u)
    BY DEF Revocation, Reconcile
  <2> QED BY <1>1, <1>2, <1>4, <2>1 DEF Enqueue, EnqueueAll
<1>5. CASE sweeps' = sweeps /\ (QueueOnly \/ UNCHANGED outboxVars)
  BY <1>1, <1>2, <1>5, AbsentStays DEF DeliveryInv, outboxVars
<1>6. TypeOK
  BY DEF DeliveryInv, TokensInv
<1> QED BY <1>3, <1>4, <1>5, <1>6, NextOnQueue

\* Nothing unmutes a job.
LEMMA MutedGrows ==
    ASSUME TokensInv, [Next]_vars PROVE muted \subseteq muted'
<1>1. ASSUME NEW r \in Requests, RequestStep(r) PROVE UNCHANGED muted
  BY <1>1, RequestTables
<1>2. ASSUME NEW w \in Workers, NEW j \in held[w], HandlerStep(w, j)
      PROVE  muted \subseteq muted'
  BY <1>2, HandlerTables DEF TokensInv, TypeOK, OutboxTypeOK
<1>3. CASE \/ OrganizationSweeps \/ OrganizationRecovers \/ QueueStep
           \/ \E k \in Keys : ListKey(k)
           \/ \E t \in Tokens : HideToken(t)
           \/ \E w \in Workers : KillWorker(w)
           \/ UNCHANGED vars
  BY <1>3 DEF OrganizationSweeps, OrganizationRecovers, QueueStep, ListKey,
     HideToken, KillWorker, vars
<1> QED BY <1>1, <1>2, <1>3 DEF Next

\* A revocation that is marked sent has been run to its end, or is muted.
LEMMA SentStep ==
    ASSUME DeliveryInv, [Next]_vars PROVE SentRevoked'
<1> SUFFICES ASSUME NEW j \in Jobs, j.kind = "revoke", status'[j] = "sent"
             PROVE  row'[j.token].status = "revoked" \/ j \in muted'
  BY DEF SentRevoked
<1> USE DEF DeliveryInv
<1>1. TokensInv /\ QueueInv /\ [OutboxNext]_outboxVars
  BY StepOnQueue DEF TokensInv
<1>2. row[j.token].status = "revoked" \/ j \in muted
  <2>1. CASE status[j] = "sent"
    BY <2>1 DEF SentRevoked
  <2>2. CASE status[j] # "sent"
    <3>1. PICK w \in Workers : j \in held[w] /\ CompleteOk(w, j)
      BY <1>1, <2>2, SentByCompletion
    <3> QED BY <3>1 DEF CompleteOk, EndedRevoked
  <2> QED BY <2>1, <2>2
<1> QED BY <1>1, <1>2, RowFate, MutedGrows, JobFields
        DEF Retained, Retired, Activated, AwaitsActivation

LEMMA LiveStep ==
    ASSUME DeliveryInv, [Next]_vars, SentRevoked', QueueInv'
    PROVE  LiveTokensAreQueued'
<1> USE DEF DeliveryInv
<1> SUFFICES ASSUME NEW t \in Tokens, row'[t].status = "active", ~Eligible'
             PROVE  \/ \E j \in Revocations(t) :
                           status'[j] \in {"pending", "processing", "failed"}
                    \/ RevocationMuted(t)'
  BY DEF LiveTokensAreQueued
<1>1. TokensInv /\ QueueInv /\ [OutboxNext]_outboxVars
  BY StepOnQueue DEF TokensInv
<1>2. row[t].status = "active"
  <2>1. ~Activated(t)
    BY DEF Activated, Eligible, eligibilityVars
  <2> QED BY <1>1, <2>1, RowFate DEF Retained, Retired
<1>3. CASE OrganizationSweeps
  <2> DEFINE i == Revocation(t, sweeps + 1)
  <2>1. sweeps + 1 \in 1 .. MaxSweeps
    BY <1>3, TokenAssumption DEF OrganizationSweeps, QueueRevocations, TokensInv, TypeOK
  <2>2. i \in Revocations(t) /\ i \in Jobs
    BY <2>1, TokenJobsAreJobs DEF Revocations
  <2>3. status[i] = "absent"
    BY <2>1, TokenAssumption DEF SweepsAreFresh, TokensInv, TypeOK
  <2>4. PICK batch : i \in batch /\ EnqueueAll(batch)
    BY <1>2, <1>3 DEF OrganizationSweeps, QueueRevocations
  <2>5. status'[i] = "pending"
    BY <2>2, <2>3, <2>4 DEF EnqueueAll, StatusAfterEnqueue
  <2> QED BY <2>2, <2>5
<1>4. CASE ~Eligible
  <2>1. PICK j \in Revocations(t) :
            status[j] \in {"pending", "processing", "failed"} \/ j \in muted
    BY <1>2, <1>4 DEF LiveTokensAreQueued, RevocationMuted
  <2>2. j \in Jobs /\ j.kind = "revoke" /\ j.token = t
    BY TokenAssumption DEF TokenJobs, Revocations, Revocation
  <2>3. CASE j \in muted'
    BY <2>3 DEF RevocationMuted
  <2>4. CASE j \notin muted'
    <3>1. j \notin muted
      BY <1>1, <2>4, MutedGrows
    <3>2. /\ status'[j] # "absent" /\ status'[j] # "sent"
          /\ status'[j] \in Statuses
      BY <1>1, <2>1, <2>2, <2>4, <3>1, ExistenceStays
         DEF SentRevoked, QueueInv, OutboxTypeOK
    <3> QED BY <3>2 DEF Statuses
  <2> QED BY <2>3, <2>4
<1>5. CASE OrganizationRecovers
  <2>1. ~Eligible
    BY <1>5 DEF OrganizationRecovers, CreditStep, CreditAdjusted, UsageSettled,
       SetStatus, RestoreOrganization, ActivateOrganization, Eligible
  <2> QED BY <1>4, <2>1
<1>6. CASE UNCHANGED eligibilityVars
  BY <1>4, <1>6 DEF eligibilityVars, Eligible
<1>7. OrganizationSweeps \/ OrganizationRecovers \/ UNCHANGED eligibilityVars
  BY OnlyTheOrganization
<1> QED BY <1>3, <1>5, <1>6, <1>7

\* What a step of the composition means to one worker: nothing; it turns to
\* another job, between two handlers; or its handler moves.
LEMMA NextOnWorker ==
    ASSUME TokensInv, QueueInv, [Next]_vars, NEW v \in Workers
    PROVE  \/ Undisturbed(v) /\ handler'[v] = handler[v]
           \/ handler'[v] = Reading /\ phase'[v] # "ok"
           \/ /\ phase[v] # "run" \/ held[v] = {}
              /\ handler'[v] = handler[v] /\ phase'[v] # "ok"
           \/ \E j \in held[v] : HandlerStep(v, j)
<1> USE DEF QueueInv
<1>1. /\ handler \in [Workers -> SoundHandlers] /\ OutboxTypeOK
      /\ TypeOK
  BY DEF TokensInv, KeysAreKnown
<1>2. ASSUME UNCHANGED <<outboxVars, handler>>
      PROVE  Undisturbed(v) /\ handler'[v] = handler[v]
  BY <1>2, CurrentStays DEF Undisturbed, outboxVars
<1>3. CASE OrganizationSweeps
  <2>1. sweeps + 1 \in 1 .. MaxSweeps
    BY <1>1, <1>3, TokenAssumption DEF OrganizationSweeps, QueueRevocations, TypeOK
  <2>2. PICK batch \in SUBSET Jobs : EnqueueAll(batch)
    BY <1>3, <2>1, TokenJobsAreJobs DEF OrganizationSweeps, QueueRevocations
  <2> QED BY <1>3, <2>2, EnqueueUndisturbed DEF OrganizationSweeps
<1>4. ASSUME NEW r \in Requests, RequestStep(r)
      PROVE  Undisturbed(v) /\ handler'[v] = handler[v]
  <2>1. handler' = handler
    BY <1>4, RequestTables
  <2>2. ASSUME NEW t \in Tokens, Enqueue(Reconcile(t)) PROVE Undisturbed(v)
    <3>1. {Reconcile(t)} \in SUBSET Jobs
      BY TokenJobsAreJobs
    <3> QED BY <2>2, <3>1, EnqueueUndisturbed DEF Enqueue
  <2> QED BY <1>1, <1>2, <1>4, <2>1, <2>2, RequestOnQueue
<1>5. ASSUME NEW w \in Workers, NEW j \in held[w], HandlerStep(w, j), w # v
      PROVE  Undisturbed(v) /\ handler'[v] = handler[v]
  <2>1. handler'[v] = handler[v]
    BY <1>1, <1>5 DEF HandlerStep, ReadForRevocation, ReadForReconcile,
       FindForRevocation, FindForReconcile, FinalizeForReconcile, Recheck,
       DeleteForJob, MarkForJob, HandlerFails, FailSilently, Finish, Continue, Resolve
  <2> QED BY <1>1, <1>2, <1>5, <2>1, HandlerOnQueue, OthersUndisturbed,
             CurrentStays DEF Undisturbed, outboxVars
<1>6. ASSUME NEW w \in Workers, KillWorker(w)
      PROVE  \/ Undisturbed(v) /\ handler'[v] = handler[v]
             \/ handler'[v] = Reading /\ phase'[v] # "ok"
  <2>1. CASE w = v
    BY <1>1, <1>6, <2>1 DEF KillWorker, CrashWorker, OutboxTypeOK
  <2>2. CASE w # v
    BY <1>1, <1>6, <2>2, OthersUndisturbed DEF KillWorker
  <2> QED BY <2>1, <2>2
<1>7. CASE QueueStep
  <2>1. handler' = handler
    BY <1>7 DEF QueueStep
  <2>2. ASSUME NEW j \in Jobs, BackoffElapses(j) \/ LeaseExpires(j)
        PROVE  Undisturbed(v)
    BY <2>2, TimeUndisturbed
  <2>3. ASSUME NEW w \in Workers,
               \/ Claim(w)
               \/ \E j \in held[w] : \/ CompleteOk(w, j) \/ ReadAttempts(w, j)
                                     \/ CompleteError(w, j)
        PROVE  \/ Undisturbed(v)
               \/ (phase[v] # "run" \/ held[v] = {}) /\ phase'[v] # "ok"
    <3>1. CASE w = v
      BY <1>1, <2>3, <3>1 DEF Claim, CompleteOk, ReadAttempts, CompleteError,
         Leave, OutboxTypeOK
    <3>2. CASE w # v
      BY <1>1, <2>3, <3>2, OthersUndisturbed
    <3> QED BY <3>1, <3>2
  <2> QED BY <1>7, <2>1, <2>2, <2>3 DEF QueueStep
<1>8. CASE \/ OrganizationRecovers \/ \E k \in Keys : ListKey(k)
           \/ \E t \in Tokens : HideToken(t)
           \/ UNCHANGED vars
  BY <1>2, <1>8 DEF OrganizationRecovers, ListKey, HideToken, vars
<1> QED BY <1>3, <1>4, <1>5, <1>6, <1>7, <1>8 DEF Next

\* How a handler step leaves the worker: waiting for its next answer with its
\* job in hand, or done.
LEMMA HandlerOutcome ==
    ASSUME TokensInv, QueueInv, HandlersFit, NEW v \in Workers, NEW j \in held[v],
           HandlerStep(v, j)
    PROVE  /\ IsCurrent(v, j)
           /\ held'[v] = held[v] /\ Current(v)' = Current(v)
           /\ \/ /\ phase'[v] = "run"
                 /\ handler'[v].at \in {"finalize", "recheck"}
                        => j.kind = "reconcile"
              \/ /\ handler'[v] = Reading /\ phase'[v] # "run"
                 /\ phase'[v] = "ok" /\ j.kind = "revoke"
                        => row'[j.token].status = "revoked" \/ j \in muted'
<1> USE DEF QueueInv
<1>1. /\ handler \in [Workers -> SoundHandlers] /\ OutboxTypeOK
      /\ row \in [Tokens -> Rows] /\ j \in Jobs /\ j.token \in Tokens
  BY JobFields DEF TokensInv, TypeOK, KeysAreKnown, OutboxTypeOK
<1>2. IsCurrent(v, j) /\ phase[v] = "run"
  BY DEF HandlerStep, ReadForRevocation, ReadForReconcile, FindForRevocation,
     FindForReconcile, FinalizeForReconcile, Recheck, DeleteForJob, MarkForJob,
     HandlerFails, In
<1>3. held'[v] = held[v] /\ Current(v)' = Current(v)
  BY HandlerOnQueue, CurrentStays DEF Run, queueVars, outboxVars
<1>4. handler[v].at \in {"finalize", "recheck"} => j.kind = "reconcile"
  BY <1>2 DEF HandlersFit
<1> DEFINE Waits == /\ phase'[v] = "run"
                    /\ handler'[v].at \in {"finalize", "recheck"}
                           => j.kind = "reconcile"
           Ends == /\ handler'[v] = Reading /\ phase'[v] # "run"
                   /\ phase'[v] = "ok" /\ j.kind = "revoke"
                           => row'[j.token].status = "revoked" \/ j \in muted'
<1>5. ASSUME NEW step, NEW k, Continue(v, step, k),
             step \in {"finalize", "recheck"} => j.kind = "reconcile"
      PROVE  Waits
  <2>1. handler'[v].at = step
    BY <1>1, <1>5 DEF Continue, SoundHandlers, Handlers
  <2> QED BY <1>2, <1>5, <2>1 DEF Continue, outboxVars
<1>6. ASSUME Finish(v, j, FALSE) PROVE Ends
  BY <1>1, <1>6 DEF Finish, Run, OutboxTypeOK
<1>7. ASSUME Finish(v, j, TRUE),
             j.kind = "revoke" => row'[j.token].status = "revoked"
      PROVE  Ends
  BY <1>1, <1>7 DEF Finish, Run, OutboxTypeOK
<1>8. ASSUME NEW k, NEW local, Resolve(v, j, k, local), j.kind = "reconcile"
      PROVE  Waits \/ Ends
  BY <1>5, <1>7, <1>8 DEF Resolve
<1>9. Waits \/ Ends
  <2> HIDE DEF Waits, Ends
  <2>1. CASE ReadForRevocation(v, j)
    BY <1>5, <1>6, <1>7, <2>1 DEF ReadForRevocation
  <2>2. CASE ReadForReconcile(v, j)
    <3>1. handler'[v].at = "find" /\ phase'[v] = "run"
      BY <1>1, <1>2, <2>2 DEF ReadForReconcile, outboxVars
    <3> QED BY <3>1 DEF Waits
  <2>3. CASE FindForRevocation(v, j)
    BY <1>5, <1>6, <2>3 DEF FindForRevocation
  <2>4. CASE FindForReconcile(v, j)
    BY <1>6, <1>7, <1>8, <2>4 DEF FindForReconcile
  <2>5. CASE FinalizeForReconcile(v, j)
    BY <1>4, <1>5, <1>7, <2>5 DEF FinalizeForReconcile, In
  <2>6. CASE Recheck(v, j)
    BY <1>4, <1>6, <1>8, <2>6 DEF Recheck, In
  <2>7. CASE DeleteForJob(v, j)
    BY <1>5, <1>7, <2>7 DEF DeleteForJob
  <2>8. CASE MarkForJob(v, j)
    BY <1>1, <1>7, <2>8 DEF MarkForJob, RevokeRow, Rows
  <2>9. CASE HandlerFails(v, j)
    <3>1. CASE FailSilently(v, j)
      BY <1>1, <3>1 DEF FailSilently, Run, OutboxTypeOK, Ends
    <3> QED BY <1>6, <2>9, <3>1 DEF HandlerFails
  <2> QED BY <2>1, <2>2, <2>3, <2>4, <2>5, <2>6, <2>7, <2>8, <2>9 DEF HandlerStep
<1> QED BY <1>2, <1>3, <1>9

LEMMA FitStep ==
    ASSUME DeliveryInv, [Next]_vars, TokensInv'
    PROVE  HandlersFit' /\ EndedRevoked'
<1> USE DEF DeliveryInv
<1>1. \A j \in Jobs : row[j.token].status = "revoked" => row'[j.token].status = "revoked"
  BY RowFate, JobFields DEF Retained, Retired, Activated, AwaitsActivation
<1> SUFFICES ASSUME NEW v \in Workers
             PROVE  /\ handler'[v].at \in {"finalize", "recheck"} =>
                         /\ phase'[v] = "run" /\ held'[v] # {}
                         /\ \A j \in held'[v] : IsCurrent(v, j)' => j.kind = "reconcile"
                    /\ \A j \in Jobs :
                         j.kind = "revoke" /\ IsCurrent(v, j)' /\ phase'[v] = "ok"
                            => row'[j.token].status = "revoked" \/ j \in muted'
  BY DEF HandlersFit, EndedRevoked
<1>2. CASE Undisturbed(v) /\ handler'[v] = handler[v]
  BY <1>1, <1>2, MutedGrows DEF Undisturbed, HandlersFit, EndedRevoked,
     IsCurrent
<1>3. CASE \/ handler'[v] = Reading /\ phase'[v] # "ok"
           \/ /\ phase[v] # "run" \/ held[v] = {}
              /\ handler'[v] = handler[v] /\ phase'[v] # "ok"
  BY <1>3 DEF Reading, HandlersFit
<1>4. CASE \E j \in held[v] : HandlerStep(v, j)
  <2> PICK j \in held[v] : HandlerStep(v, j)
    BY <1>4
  <2>1. \A i \in held'[v] : IsCurrent(v, i)' <=> i = j
    BY HandlerOutcome DEF IsCurrent
  <2>2. \A i : IsCurrent(v, i)' => i \in held'[v]
    BY DEF IsCurrent
  <2> QED BY <2>1, <2>2, HandlerOutcome DEF Reading
<1> QED BY <1>2, <1>3, <1>4, NextOnWorker

\* README.md:135: a token that is live although its organization may not hold
\* tokens is forgotten only through an error without a text: else a revocation
\* of it is queued, in hand, or failed where the health check shows it.
THEOREM LiveTokensQueued == Spec => []LiveTokensAreQueued
<1>1. Init => DeliveryInv
  <2> SUFFICES ASSUME Init PROVE DeliveryInv
    OBVIOUS
  <2>1. TokensInv /\ QueueInv
    BY InitTokens, InitType DEF Init
  <2>2. SweepsAreFresh /\ SentRevoked
    BY TokenJobsAreJobs DEF Init, OutboxInit, SweepsAreFresh, SentRevoked
  <2>3. HandlersFit /\ EndedRevoked
    BY DEF Init, OutboxInit, HandlersFit, EndedRevoked, IsCurrent, Reading
  <2>4. LiveTokensAreQueued
    BY DEF Init, LiveTokensAreQueued, NoRow
  <2> QED BY <2>1, <2>2, <2>3, <2>4 DEF DeliveryInv
<1>2. DeliveryInv /\ [Next]_vars => DeliveryInv'
  <2> SUFFICES ASSUME DeliveryInv, [Next]_vars PROVE DeliveryInv'
    OBVIOUS
  <2>1. TokensInv' /\ QueueInv'
    BY TablesStepInv DEF DeliveryInv
  <2> QED BY <2>1, FreshStep, FitStep, SentStep, LiveStep DEF DeliveryInv
<1>3. DeliveryInv => LiveTokensAreQueued
  BY DEF DeliveryInv
<1> QED BY <1>1, <1>2, <1>3, PTL DEF Spec

=============================================================================

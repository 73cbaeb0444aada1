--------------------------- MODULE TokenLifecycle ---------------------------
(***************************************************************************)
(* Enterprise tokens of one customer organization: the local row           *)
(* (customer_access_token), the key the LiteLLM proxy holds for it, the    *)
(* request handlers that issue and revoke tokens, and the outbox worker    *)
(* that revokes and reconciles them later.  Composes OrgEligibility (what  *)
(* the organization may do) and Outbox (the durable jobs).                 *)
(*                                                                         *)
(* A token is named by its alias, which the request's parameters determine *)
(* and which is unique over all rows, revoked ones included.  Every await  *)
(* of a handler is a step of its own.  The proxy is external: a create may *)
(* commit and its answer be lost, and the key list may lag behind it.      *)
(***************************************************************************)
EXTENDS Outbox, OrgEligibility

CONSTANTS
    Tokens,       \* token aliases
    MemberBound,  \* those bound to a member with an upstream account
    Requests,     \* concurrent create and revoke requests
    MaxKeys,      \* bound on the keys the proxy creates for one alias
    AliasesUnique,\* the proxy refuses a second live key with one alias
    NoKey,        \* the empty upstream_key_id
    MaxSweeps     \* bound on the sweeps of revocations

Keys == [token : Tokens, n : 1 .. MaxKeys]

Reconcile(t) == [kind |-> "reconcile", token |-> t, version |-> 0]
Revocation(t, n) == [kind |-> "revoke", token |-> t, version |-> n]
Revocations(t) == {Revocation(t, n) : n \in 1 .. MaxSweeps}
TokenJobs == {Reconcile(t) : t \in Tokens}
             \cup UNION {Revocations(t) : t \in Tokens}

ASSUME TokenAssumption ==
    /\ MemberBound \subseteq Tokens
    /\ MaxKeys \in Nat /\ MaxSweeps \in Nat
    /\ AliasesUnique \in BOOLEAN
    /\ NoKey \notin Keys
    /\ Jobs = TokenJobs

VARIABLES
    row,        \* the local row of each token
    proxy,      \* what the proxy does with each key
    payload,    \* upstreamKeyId and use of upstreamUserId in each job
    promised,   \* history: tokens a caller was told will be revoked
    request,    \* create and revoke requests in progress
    handler,    \* where each worker is in the handler of its current job
    sweeps,     \* sweeps so far
    muted       \* history: jobs with a failed run that was recorded as sent

vars == <<eligibilityVars, row, proxy, payload, promised, request, handler,
          sweeps, muted, outboxVars>>

Rows == {r \in [status : {"absent", "provisioning", "active", "revoked"},
                key : Keys \cup {NoKey}, deleted : BOOLEAN] :
            /\ r.status = "active" => r.key # NoKey
            /\ r.deleted => r.status = "revoked"}
NoRow == [status |-> "absent", key |-> NoKey, deleted |-> FALSE]

RequestSteps == {"insert", "find", "post", "finalize", "uncertain",
                 "rejected", "cleanup", "locate", "promise", "delete", "mark"}
Working == [at : RequestSteps, token : Tokens, key : Keys \cup {NoKey}]
Idle == [at |-> "idle"]

HandlerSteps == {"read", "find", "finalize", "recheck", "delete", "mark"}
Handlers == [at : HandlerSteps, key : Keys \cup {NoKey}, row : Rows]
Reading == [at |-> "read", key |-> NoKey, row |-> NoRow]

TypeOK ==
    /\ EligibilityTypeOK
    /\ OutboxTypeOK
    /\ row \in [Tokens -> Rows]
    /\ proxy \in [Keys -> {"unused", "hidden", "listed", "deleted"}]
    /\ payload \in [Jobs -> [key : Keys \cup {NoKey}, user : BOOLEAN]]
    /\ promised \subseteq Tokens
    /\ request \in [Requests -> Working \cup {Idle}]
    /\ handler \in [Workers -> Handlers]
    /\ sweeps \in 0 .. MaxSweeps
    /\ muted \subseteq Jobs

Init ==
    /\ EligibilityInit
    /\ OutboxInit
    /\ row = [t \in Tokens |-> NoRow]
    /\ proxy = [k \in Keys |-> "unused"]
    /\ payload = [j \in Jobs |-> [key |-> NoKey, user |-> FALSE]]
    /\ promised = {}
    /\ request = [r \in Requests |-> Idle]
    /\ handler = [w \in Workers |-> Reading]
    /\ sweeps = 0
    /\ muted = {}

-----------------------------------------------------------------------------
(* The organization: every loss of eligibility sweeps its tokens.          *)

\* _enqueue_token_revocations: one job per token that is or may become live.
QueueRevocations ==
    LET exposed == {t \in Tokens : row[t].status \in {"provisioning", "active"}}
        jobs == {Revocation(t, sweeps + 1) : t \in exposed}
    IN /\ sweeps < MaxSweeps
       /\ sweeps' = sweeps + 1
       /\ EnqueueAll(jobs)
       /\ payload' = [j \in Jobs |->
              IF j \in jobs THEN [key |-> row[j.token].key,
                                  user |-> j.token \in MemberBound]
                            ELSE payload[j]]

CreditStep == \E funded \in BOOLEAN :
                  CreditAdjusted(funded) \/ UsageSettled(funded)

OrganizationSweeps ==
    /\ \/ \E newStatus \in Disabled : SetStatus(newStatus)
       \/ CreditStep /\ billing' # "active"
    /\ QueueRevocations
    /\ UNCHANGED <<row, proxy, promised, request, handler, muted>>

OrganizationRecovers ==
    /\ \/ SetStatus("active") \/ RestoreOrganization \/ ActivateOrganization
       \/ CreditStep /\ billing' = "active"
    /\ UNCHANGED <<row, proxy, payload, promised, request, handler, sweeps,
                   outboxVars, muted>>

-----------------------------------------------------------------------------
(* The proxy, and the local row transitions both sides share.              *)

\* find_organization_key_by_alias: the list may lag; the user must match.
Found(t, user) ==
    {k \in Keys : k.token = t /\ proxy[k] = "listed"
                  /\ user = (t \in MemberBound)}

Live(t) == {k \in Keys : k.token = t /\ proxy[k] \in {"hidden", "listed"}}

\* The key the proxy would create next for an alias.
NextKeys(t) ==
    {k \in Keys : /\ k.token = t /\ proxy[k] = "unused"
                  /\ \A l \in Keys : l.token = t /\ l.n < k.n
                         => proxy[l] # "unused"
                  /\ AliasesUnique => Live(t) = {}}

ListKey(k) ==
    /\ proxy[k] = "hidden"
    /\ proxy' = [proxy EXCEPT ![k] = "listed"]
    /\ UNCHANGED <<eligibilityVars, row, payload, promised, request, handler,
                   sweeps, outboxVars, muted>>

\* Mutant: the state of the row itself is not checked.
AwaitsActivationUnchecked(t) == TRUE

AwaitsActivation(t) == row[t].status = "provisioning" /\ row[t].key = NoKey

Activates(t) == AwaitsActivation(t) /\ Eligible

\* finalize_token_record: activate, or revoke what may no longer be activated.
FinalizeRow(t, k) ==
    row' = IF Activates(t)
           THEN [row EXCEPT ![t].status = "active", ![t].key = k]
           ELSE IF AwaitsActivation(t)
           THEN [row EXCEPT ![t].status = "revoked"]
           ELSE row

\* mark_token_revoked
RevokeRow(t) == row' = [row EXCEPT ![t].status = "revoked"]

-----------------------------------------------------------------------------
(* create_real_organization_token                                          *)

At(r, step) == request[r].at = step
Token(r) == request[r].token
Goto(r, step) == request' = [request EXCEPT ![r].at = step]
End(r) == request' = [request EXCEPT ![r] = Idle]

\* The session's organization is active; its credit is looked at once; a token
\* that is already active is returned as it is.
StartCreate(r, t) ==
    /\ At(r, "idle")
    /\ Eligible
    /\ row[t].status # "active"
    /\ request' = [request EXCEPT ![r] =
          [at |-> IF row[t].status = "absent" THEN "insert" ELSE "find",
           token |-> t, key |-> NoKey]]
    /\ UNCHANGED <<eligibilityVars, row, proxy, payload, promised, handler,
                   sweeps, outboxVars, muted>>

\* create_token_record: eligibility and the alias are checked in one go.
InsertRow(r) ==
    /\ At(r, "insert")
    /\ IF Eligible /\ row[Token(r)].status = "absent"
       THEN /\ row' = [row EXCEPT ![Token(r)].status = "provisioning"]
            /\ Goto(r, "find")
       ELSE UNCHANGED row /\ End(r)
    /\ UNCHANGED <<eligibilityVars, proxy, payload, promised, handler, sweeps,
                   outboxVars, muted>>

\* create_organization_key looks for the alias first; a failing lookup fails
\* the create.  Its lock does not serialize the creates of one alias (module
\* KeyCreateLock), so they interleave freely here.
FindKey(r) ==
    /\ At(r, "find")
    /\ \/ Found(Token(r), Token(r) \in MemberBound) # {} /\ Goto(r, "uncertain")
       \/ Found(Token(r), Token(r) \in MemberBound) = {} /\ Goto(r, "post")
       \/ Goto(r, "uncertain")
       \/ End(r)
    /\ UNCHANGED <<eligibilityVars, row, proxy, payload, promised, handler,
                   sweeps, outboxVars, muted>>

\* /key/generate: the key may exist whatever answer arrives.
PostKey(r) ==
    /\ At(r, "post")
    /\ \/ \E k \in NextKeys(Token(r)) :
             /\ proxy' = [proxy EXCEPT ![k] = "hidden"]
             /\ \/ request' = [request EXCEPT ![r].at = "finalize",
                                              ![r].key = k]
                \/ Goto(r, "uncertain")
       \/ UNCHANGED proxy /\ (Goto(r, "uncertain") \/ End(r))
    /\ UNCHANGED <<eligibilityVars, row, payload, promised, handler, sweeps,
                   outboxVars, muted>>

\* A conflict is told apart from a failure of the database.
FinalizeRequest(r) ==
    /\ At(r, "finalize")
    /\ \/ /\ FinalizeRow(Token(r), request[r].key)
          /\ IF Activates(Token(r)) THEN End(r) ELSE Goto(r, "rejected")
       \/ UNCHANGED row /\ Goto(r, "uncertain")
    /\ UNCHANGED <<eligibilityVars, proxy, payload, promised, handler, sweeps,
                   outboxVars, muted>>

AfterEnqueue(r) == IF At(r, "rejected") THEN Goto(r, "cleanup") ELSE End(r)

\* enqueue_token_reconciliation: a job per token, whose payload is replaced.
QueueReconcile(t, user) ==
    /\ Enqueue(Reconcile(t))
    /\ payload' = [payload EXCEPT ![Reconcile(t)] =
          [key |-> NoKey, user |-> user]]

EnqueueReconcile(r) ==
    /\ request[r].at \in {"uncertain", "rejected"}
    /\ QueueReconcile(Token(r), Token(r) \in MemberBound)
    /\ AfterEnqueue(r)
    /\ UNCHANGED <<eligibilityVars, row, proxy, promised, handler, sweeps,
                   muted>>

\* The insert fails too: it is logged and the handler goes on.
EnqueueFails(r) ==
    /\ request[r].at \in {"uncertain", "rejected"}
    /\ AfterEnqueue(r)
    /\ UNCHANGED <<eligibilityVars, row, proxy, payload, promised, handler,
                   sweeps, outboxVars, muted>>

\* The key of a rejected activation is removed at once, if the proxy agrees.
CleanUp(r) ==
    /\ At(r, "cleanup")
    /\ proxy' \in {proxy, [proxy EXCEPT ![request[r].key] = "deleted"]}
    /\ End(r)
    /\ UNCHANGED <<eligibilityVars, row, payload, promised, handler, sweeps,
                   outboxVars, muted>>

-----------------------------------------------------------------------------
(* revoke_real_organization_token, delete_token                            *)

StartRevoke(r, t) ==
    /\ At(r, "idle")
    /\ orgStatus = "active"
    /\ row[t].status # "absent"
    /\ request' = [request EXCEPT ![r] =
          [at |-> IF row[t].key = NoKey THEN "locate" ELSE "delete",
           token |-> t, key |-> row[t].key]]
    /\ UNCHANGED <<eligibilityVars, row, proxy, payload, promised, handler,
                   sweeps, outboxVars, muted>>

\* The handler's lookup passes no user id.
LocateKey(r) ==
    /\ At(r, "locate")
    /\ \/ \E k \in Found(Token(r), FALSE) :
             request' = [request EXCEPT ![r].at = "delete", ![r].key = k]
       \/ Found(Token(r), FALSE) = {} /\ Goto(r, "promise")
       \/ End(r)
    /\ UNCHANGED <<eligibilityVars, row, proxy, payload, promised, handler,
                   sweeps, outboxVars, muted>>

\* Reconciliation is queued and the caller told the rest is automatic.
PromiseRevocation(r) ==
    /\ At(r, "promise")
    /\ QueueReconcile(Token(r), FALSE)
    /\ promised' = promised \cup {Token(r)}
    /\ End(r)
    /\ UNCHANGED <<eligibilityVars, row, proxy, handler, sweeps, muted>>

\* A key that is already gone counts as deleted.
DeleteKey(r) ==
    /\ At(r, "delete")
    /\ \/ /\ proxy' = [proxy EXCEPT ![request[r].key] = "deleted"]
          /\ Goto(r, "mark")
       \/ UNCHANGED proxy /\ End(r)
    /\ UNCHANGED <<eligibilityVars, row, payload, promised, handler, sweeps,
                   outboxVars, muted>>

MarkRevoked(r) ==
    /\ At(r, "mark")
    /\ RevokeRow(Token(r))
    /\ End(r)
    /\ UNCHANGED <<eligibilityVars, proxy, payload, promised, handler, sweeps,
                   outboxVars, muted>>

\* delete_token hides a revoked token from the list.
HideToken(t) ==
    /\ orgStatus = "active"
    /\ row[t].status = "revoked" /\ ~row[t].deleted
    /\ row' = [row EXCEPT ![t].deleted = TRUE]
    /\ UNCHANGED <<eligibilityVars, proxy, payload, promised, request, handler,
                   sweeps, outboxVars, muted>>

\* The process dies or the client is gone: nothing of the request remains.
CrashRequest(r) ==
    /\ ~At(r, "idle")
    /\ End(r)
    /\ UNCHANGED <<eligibilityVars, row, proxy, payload, promised, handler,
                   sweeps, outboxVars, muted>>

-----------------------------------------------------------------------------
(* OrganizationProvisioningService.revoke_token and reconcile_token, run   *)
(* by a worker for the outbox job it is busy with.                         *)

In(w, j, step) == /\ IsCurrent(w, j) /\ phase[w] = "run"
                  /\ handler[w].at = step

Continue(w, step, key) ==
    /\ handler' = [handler EXCEPT ![w].at = step, ![w].key = key]
    /\ UNCHANGED <<muted, outboxVars>>

Finish(w, j, succeeded) ==
    /\ Run(w, j, succeeded)
    /\ handler' = [handler EXCEPT ![w] = Reading]
    /\ UNCHANGED muted

UnchangedByHandler ==
    UNCHANGED <<eligibilityVars, payload, promised, request, sweeps>>

KnownKey(j) == IF row[j.token].key # NoKey THEN row[j.token].key
                                           ELSE payload[j].key

ReadForRevocation(w, j) ==
    /\ In(w, j, "read") /\ j.kind = "revoke"
    /\ CASE row[j.token].status = "revoked" -> Finish(w, j, TRUE)
         [] payload[j].key \notin {NoKey, KnownKey(j)} -> Finish(w, j, FALSE)
         [] KnownKey(j) = NoKey -> Continue(w, "find", NoKey)
         [] OTHER -> Continue(w, "delete", KnownKey(j))
    /\ UNCHANGED <<row, proxy>> /\ UnchangedByHandler

ReadForReconcile(w, j) ==
    /\ In(w, j, "read") /\ j.kind = "reconcile"
    /\ handler' = [handler EXCEPT ![w] =
          [at |-> "find", key |-> NoKey, row |-> row[j.token]]]
    /\ UNCHANGED <<outboxVars, muted, row, proxy>> /\ UnchangedByHandler

FindForRevocation(w, j) ==
    /\ In(w, j, "find") /\ j.kind = "revoke"
    /\ \/ \E k \in Found(j.token, payload[j].user) : Continue(w, "delete", k)
       \/ Found(j.token, payload[j].user) = {} /\ Finish(w, j, FALSE)
    /\ UNCHANGED <<row, proxy>> /\ UnchangedByHandler

\* What is done with a key found for a token last seen as local.
Resolve(w, j, k, local) ==
    CASE local.status = "active" /\ local.key = k -> Finish(w, j, TRUE)
      [] local.status = "provisioning" /\ local.key = NoKey
            -> Continue(w, "finalize", k)
      [] OTHER -> Continue(w, "delete", k)

\* A key that is not listed yet is waited for while the row is provisioning.
FindForReconcile(w, j) ==
    /\ In(w, j, "find") /\ j.kind = "reconcile"
    /\ \/ \E k \in Found(j.token, payload[j].user) :
             Resolve(w, j, k, handler[w].row)
       \/ /\ Found(j.token, payload[j].user) = {}
          /\ Finish(w, j, handler[w].row.status # "provisioning")
    /\ UNCHANGED <<row, proxy>> /\ UnchangedByHandler

FinalizeForReconcile(w, j) ==
    /\ In(w, j, "finalize")
    /\ \/ /\ FinalizeRow(j.token, handler[w].key)
          /\ IF Activates(j.token) THEN Finish(w, j, TRUE)
                                   ELSE Continue(w, "recheck", handler[w].key)
       \/ UNCHANGED row /\ Continue(w, "recheck", handler[w].key)
    /\ UNCHANGED proxy /\ UnchangedByHandler

\* After a failed finalize the row decides, unless it still awaits activation.
Recheck(w, j) ==
    /\ In(w, j, "recheck")
    /\ IF AwaitsActivation(j.token) THEN Finish(w, j, FALSE)
       ELSE Resolve(w, j, handler[w].key, row[j.token])
    /\ UNCHANGED <<row, proxy>> /\ UnchangedByHandler

\* Mutant: a revocation is done once the proxy has been asked.
DeleteForJobUnmarked(w, j) ==
    /\ In(w, j, "delete")
    /\ proxy' = [proxy EXCEPT ![handler[w].key] = "deleted"]
    /\ Finish(w, j, TRUE)
    /\ UNCHANGED row /\ UnchangedByHandler

DeleteForJob(w, j) ==
    /\ In(w, j, "delete")
    /\ proxy' = [proxy EXCEPT ![handler[w].key] = "deleted"]
    /\ IF j.kind = "revoke" THEN Continue(w, "mark", handler[w].key)
                            ELSE Finish(w, j, TRUE)
    /\ UNCHANGED row /\ UnchangedByHandler

MarkForJob(w, j) ==
    /\ In(w, j, "mark")
    /\ RevokeRow(j.token)
    /\ Finish(w, j, TRUE)
    /\ UNCHANGED proxy /\ UnchangedByHandler

\* complete_outbox tests the text of the error: an exception without one (a
\* database call that timed out) completes the job as if it had been done.
FailSilently(w, j) ==
    /\ Run(w, j, TRUE)
    /\ handler' = [handler EXCEPT ![w] = Reading]
    /\ muted' = muted \cup {j}

\* Any call of the handler, to the proxy or to the database, may fail.
HandlerFails(w, j) ==
    /\ IsCurrent(w, j) /\ phase[w] = "run"
    /\ Finish(w, j, FALSE) \/ FailSilently(w, j)
    /\ UNCHANGED <<row, proxy>> /\ UnchangedByHandler

HandlerStep(w, j) ==
    \/ ReadForRevocation(w, j) \/ ReadForReconcile(w, j)
    \/ FindForRevocation(w, j) \/ FindForReconcile(w, j)
    \/ FinalizeForReconcile(w, j) \/ Recheck(w, j)
    \/ DeleteForJob(w, j) \/ MarkForJob(w, j) \/ HandlerFails(w, j)

\* The steps of Outbox that are not a handler's.
QueueStep ==
    /\ UNCHANGED <<eligibilityVars, row, proxy, payload, promised, request,
                   handler, sweeps, muted>>
    /\ \/ \E j \in Jobs : BackoffElapses(j) \/ LeaseExpires(j)
       \/ \E w \in Workers :
             \/ Claim(w)
             \/ \E j \in held[w] : \/ CompleteOk(w, j)
                                   \/ ReadAttempts(w, j)
                                   \/ CompleteError(w, j)

KillWorker(w) ==
    /\ CrashWorker(w)
    /\ handler' = [handler EXCEPT ![w] = Reading]
    /\ UNCHANGED <<muted, row, proxy>> /\ UnchangedByHandler

-----------------------------------------------------------------------------

RequestStep(r) ==
    \/ \E t \in Tokens : StartCreate(r, t) \/ StartRevoke(r, t)
    \/ InsertRow(r) \/ FindKey(r) \/ PostKey(r) \/ FinalizeRequest(r)
    \/ EnqueueReconcile(r) \/ EnqueueFails(r) \/ CleanUp(r)
    \/ LocateKey(r) \/ PromiseRevocation(r) \/ DeleteKey(r) \/ MarkRevoked(r)
    \/ CrashRequest(r)

Next ==
    \/ OrganizationSweeps \/ OrganizationRecovers
    \/ \E k \in Keys : ListKey(k)
    \/ \E t \in Tokens : HideToken(t)
    \/ \E r \in Requests : RequestStep(r)
    \/ \E w \in Workers : KillWorker(w) \/ \E j \in held[w] : HandlerStep(w, j)
    \/ QueueStep

Spec == Init /\ [][Next]_vars

\* Workers poll and finish, and time passes; the key list need not catch up.
FairSpec ==
    /\ Spec
    /\ WF_vars(QueueStep)
    /\ \A w \in Workers : WF_vars(\E j \in held[w] : HandlerStep(w, j))

-----------------------------------------------------------------------------
(* Properties.                                                             *)

\* README.md:131: a revoked token never works again, and a token keeps the key
\* it was activated with, whatever requests and jobs are still under way.
RevokedIsFinal ==
    [][\A t \in Tokens :
          /\ row[t].status = "revoked" => row'[t].status = "revoked"
          /\ row[t].key # NoKey => row'[t].key = row[t].key]_vars

\* A revocation of t that will not be retried, because an error without a text
\* was taken for its success.
RevocationMuted(t) == \E j \in Revocations(t) : j \in muted

\* README.md:135: a token that is live although its organization may not hold
\* tokens is forgotten only through an error without a text: else a revocation
\* of it is queued, in hand, or failed where the health check shows it.
LiveTokensAreQueued ==
    \A t \in Tokens :
        row[t].status = "active" /\ ~Eligible =>
            \/ \E j \in Revocations(t) : status[j] \in {"pending", "processing", "failed"}
            \/ RevocationMuted(t)

\* Such a token is eventually revoked, over the retries of its revocation,
\* unless eligibility returns, the attempts are used up, or an attempt failed
\* with an error without a text.
RevocationIsDelivered ==
    \A t \in Tokens :
        row[t].status = "active" /\ ~Eligible ~>
            \/ Eligible \/ row[t].status = "revoked"
            \/ \E j \in Revocations(t) : status[j] = "failed"
            \/ RevocationMuted(t)

-----------------------------------------------------------------------------
(* What a comment and a message say, and the code does not do.             *)

\* main.py:3456: only a changed eligibility rejects a finalize, so its key may
\* be removed.  A reconciliation may have activated the token with that key.
CleanUpSparesActiveTokens ==
    [][\A r \in Requests :
          CleanUp(r) /\ proxy' # proxy
              => row[Token(r)].status # "active"
                 \/ row[Token(r)].key # request[r].key]_vars

\* main.py:3521: the caller of a revoke is told that the token is revoked
\* automatically once its state is known, i.e. once it is reconciled (and not
\* when the reconciliation failed without a text).
RevokePromiseIsKept ==
    \A t \in promised :
        status[Reconcile(t)] = "sent" /\ Reconcile(t) \notin muted
            => row[t].status # "active"

=============================================================================

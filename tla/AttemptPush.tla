------------------------------ MODULE AttemptPush ------------------------------
(***************************************************************************)
(* How the attempts of a request reach the stability dashboard: a callback *)
(* in the proxy queues a record for every finished attempt, a loop and a   *)
(* hook of the proxy post batches of them, and the ingest endpoint stores  *)
(* each event once.  Nothing is persisted on the way and a failed post is  *)
(* not repeated, so a record may be lost; it must not be counted twice,    *)
(* and what is lost must be lost for one of the reasons there are.         *)
(* The callback may report one attempt more than once, with another        *)
(* status: such records share the event id, backend, call and index.       *)
(***************************************************************************)
EXTENDS Naturals, Sequences, FiniteSets

CONSTANTS
  Attempts,        \* event ids
  Statuses,        \* what a callback can report of one
  Flushers,        \* the loop and the hook
  BatchMax,        \* OBSERVABILITY_INGEST_BATCH_MAX
  MaxQueue,        \* OBSERVABILITY_INGEST_MAX_QUEUE
  MaxPushFaults    \* bound: posts that fail, proxies that die

ASSUME PushAssumption ==
  /\ BatchMax \in Nat \ {0} /\ MaxQueue \in Nat \ {0} /\ MaxPushFaults \in Nat
  /\ "none" \notin Statuses

VARIABLES
  pushQueue,     \* records in the proxy's memory, the oldest first
  batch,         \* per flusher: the records of the post in progress
  eventRows,     \* stability_attempt_events: status by event id
  reported,      \* history: records the callback has queued
  dropped,       \* history: records lost, by reason
  pushFaults

pushVars == <<pushQueue, batch, eventRows, reported, dropped, pushFaults>>

Records == [attempt : Attempts, status : Statuses]
Reasons == {"overflow", "post", "process", "known"}
InQueue == {pushQueue[n] : n \in DOMAIN pushQueue}
InFlight == UNION {{batch[f][n] : n \in DOMAIN batch[f]} : f \in Flushers}
Lose(records, reason) == dropped' = [dropped EXCEPT ![reason] = @ \union records]

PushInit ==
  /\ pushQueue = <<>> /\ batch = [f \in Flushers |-> <<>>]
  /\ eventRows = [a \in Attempts |-> "none"] /\ reported = {}
  /\ dropped = [why \in Reasons |-> {}] /\ pushFaults = 0

\* _enqueue: a full queue gives up its oldest record.
Report(record) ==
  /\ record \notin reported /\ reported' = reported \union {record}
  /\ IF Len(pushQueue) < MaxQueue
     THEN pushQueue' = Append(pushQueue, record) /\ UNCHANGED dropped
     ELSE /\ pushQueue' = Append(Tail(pushQueue), record)
          /\ Lose({Head(pushQueue)}, "overflow")
  /\ UNCHANGED <<batch, eventRows, pushFaults>>

Fetched == IF Len(pushQueue) < BatchMax THEN Len(pushQueue) ELSE BatchMax

\* Mutant: the records leave the queue once they have been sent.
FlushKeeping(f) ==
  /\ batch[f] = <<>> /\ pushQueue # <<>>
  /\ batch' = [batch EXCEPT ![f] = SubSeq(pushQueue, 1, Fetched)]
  /\ UNCHANGED <<pushQueue, eventRows, reported, dropped, pushFaults>>

\* _flush_once up to the post: the records leave the queue before they are sent.
Flush(f) ==
  /\ batch[f] = <<>> /\ pushQueue # <<>>
  /\ batch' = [batch EXCEPT ![f] = SubSeq(pushQueue, 1, Fetched)]
  /\ pushQueue' = SubSeq(pushQueue, Fetched + 1, Len(pushQueue))
  /\ UNCHANGED <<eventRows, reported, dropped, pushFaults>>

\* insert_stability_attempt_events: one transaction, ON CONFLICT DO NOTHING; of the
\* records of a batch with one event id the first is inserted.
FirstOf(f, a) ==
  LET mine == {n \in DOMAIN batch[f] : batch[f][n].attempt = a}
  IN IF mine = {} THEN "none" ELSE batch[f][CHOOSE n \in mine : \A k \in mine : n <= k].status

\* Mutant: ON CONFLICT DO UPDATE.
InsertedAgain(f) ==
  [a \in Attempts |-> IF FirstOf(f, a) = "none" THEN eventRows[a] ELSE FirstOf(f, a)]

Inserted(f) ==
  [a \in Attempts |-> IF eventRows[a] = "none" THEN FirstOf(f, a) ELSE eventRows[a]]

\* The answer changes nothing at the pusher: the batch is dropped if it is lost, too.
Ingest(f) ==
  /\ batch[f] # <<>>
  /\ eventRows' = Inserted(f)
  /\ batch' = [batch EXCEPT ![f] = <<>>]
  /\ Lose({r \in {batch[f][n] : n \in DOMAIN batch[f]} : eventRows'[r.attempt] # r.status}, "known")
  /\ UNCHANGED <<pushQueue, reported, pushFaults>>

\* The endpoint refuses the batch, or is not reached.
LosePost(f) ==
  /\ batch[f] # <<>> /\ pushFaults < MaxPushFaults /\ pushFaults' = pushFaults + 1
  /\ Lose({batch[f][n] : n \in DOMAIN batch[f]}, "post")
  /\ batch' = [batch EXCEPT ![f] = <<>>]
  /\ UNCHANGED <<pushQueue, eventRows, reported>>

ProxyDies ==
  /\ pushFaults < MaxPushFaults /\ pushFaults' = pushFaults + 1
  /\ Lose(InQueue \union InFlight, "process")
  /\ pushQueue' = <<>> /\ batch' = [f \in Flushers |-> <<>>]
  /\ UNCHANGED <<eventRows, reported>>

PushNext ==
  \/ \E record \in Records : Report(record)
  \/ \E f \in Flushers : Flush(f) \/ Ingest(f) \/ LosePost(f)
  \/ ProxyDies

PushSpec == PushInit /\ [][PushNext]_pushVars

-----------------------------------------------------------------------------
\* Queue, batches and rows keep their types and limits.
PushTypeOK ==
  /\ pushQueue \in Seq(Records) /\ Len(pushQueue) <= MaxQueue
  /\ \A f \in Flushers : batch[f] \in Seq(Records) /\ Len(batch[f]) <= BatchMax
  /\ eventRows \in [Attempts -> Statuses \union {"none"}]
  /\ reported \subseteq Records /\ dropped \in [Reasons -> SUBSET Records]
  /\ pushFaults \in 0..MaxPushFaults

StoredRecords == {r \in Records : eventRows[r.attempt] = r.status}
Lost == UNION {dropped[why] : why \in Reasons}
Posting == {p \in Flushers \X (1..BatchMax) : p[2] <= Len(batch[p[1]])}
Losses == {p \in Reasons \X Records : p[2] \in dropped[p[1]]}

\* Of the records the callback reported, each is in one place: waiting, in one post, in the
\* table, or lost for one reason; a second record of an attempt gives way to the first.
AttemptsAreAccounted ==
  /\ reported = InQueue \union InFlight \union StoredRecords \union Lost
  /\ Cardinality(reported) =
       Len(pushQueue) + Cardinality(StoredRecords) + Cardinality(Posting) + Cardinality(Losses)
  /\ \A r \in dropped["known"] : eventRows[r.attempt] \notin {"none", r.status}
==============================================================================

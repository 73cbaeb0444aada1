----------------------------- MODULE RealtimeLive -----------------------------
(***************************************************************************)
(* The live loop of the realtime usage worker (usage_realtime_worker.py),  *)
(* its Redis store (usage_realtime.py) and the tables it fills.            *)
(*                                                                         *)
(* One worker at a time holds a Redis lock.  It polls the upstream's log,  *)
(* hands every request not seen before to a Redis stream, moves the stream *)
(* into the request facts of the warehouse (usage_event_attribution) and   *)
(* mirrors the facts of its day to the dashboards.  When the day changes   *)
(* it scans the old one again, promotes it to history and recovers into    *)
(* the new one, as it does after a start.                                  *)
(*                                                                         *)
(* The reader of the stream asks for its own unacknowledged entries and    *)
(* goes on to fresh ones if the client answers with nothing.  A client may *)
(* answer with the stream and an empty list instead, as redis-py does with *)
(* what a server sends; the fresh entries are then never asked for, and    *)
(* requests reach the facts through the settlement and the calibration.    *)
(* Both answers are modelled (emptyAnswer).                                *)
(*                                                                         *)
(* A request is a member of Requests and belongs to a day.  Redis' own     *)
(* aggregates are written and never read, and left out, as are the names   *)
(* that enrich an event.  The settlement of closed minutes, which also     *)
(* stores facts, is in RealtimeSettlement; here it is the environment's.   *)
(***************************************************************************)
EXTENDS Naturals

CONSTANTS
  RealtimeWorkers,
  Requests,
  RequestDay,          \* the day each request belongs to
  StreamLimit,         \* MAXLEN of the stream, 20000
  LastRealtimeDay,     \* bound: days are 0..LastRealtimeDay
  MaxRealtimeFaults,   \* bound: crashes, stalls and failed writes
  NoHolder

ASSUME RealtimeAssumption ==
  /\ LastRealtimeDay \in Nat /\ RequestDay \in [Requests -> 0..LastRealtimeDay]
  /\ StreamLimit \in Nat \ {0} /\ MaxRealtimeFaults \in Nat /\ NoHolder \notin RealtimeWorkers

VARIABLES
  today,          \* usage_today()
  spendLogged,    \* requests in the upstream's log
  redis,          \* lock, deduplication keys, fresh and pending entries of the stream
  streamed,       \* entries added so far, and the place of each request's among them
  emptyAnswer,    \* what the client makes of a history without entries
  facts,          \* usage_event_attribution
  shown,          \* what the dashboards show of each day
  worker,         \* live loop of each worker
  outlived,        \* history: has a live worker outlived its lock
  realtimeFaults

realtimeVars ==
  <<today, spendLogged, redis, streamed, emptyAnswer, facts, shown, worker, outlived,
    realtimeFaults>>

RealtimeDays == 0..LastRealtimeDay
OfDay(requests, d) == {q \in requests : RequestDay[q] = d}

Stopped == [pc |-> "out", stage |-> "boot", day |-> 0, batch |-> {}, lost |-> FALSE]

RealtimeInit ==
  /\ today = 0 /\ spendLogged = {}
  /\ redis = [lock |-> NoHolder, dedup |-> {}, stream |-> {}, pending |-> {}]
  /\ streamed = [count |-> 0, place |-> [q \in Requests |-> 0]]
  /\ emptyAnswer \in {"nothing", "stream"}
  /\ facts = {}
  /\ shown = [d \in RealtimeDays |-> {}]
  /\ worker = [w \in RealtimeWorkers |-> Stopped]
  /\ outlived = FALSE /\ realtimeFaults = 0

-----------------------------------------------------------------------------
(* The world *)

Midnight ==
  /\ today < LastRealtimeDay /\ today' = today + 1
  /\ UNCHANGED <<spendLogged, redis, streamed, emptyAnswer, facts, shown, worker, outlived,
                 realtimeFaults>>

\* A request is logged when it ends, under the day it began.
LogRequest(q) ==
  /\ q \notin spendLogged /\ RequestDay[q] <= today
  /\ spendLogged' = spendLogged \cup {q}
  /\ UNCHANGED <<today, redis, streamed, emptyAnswer, facts, shown, worker, outlived,
                 realtimeFaults>>

-----------------------------------------------------------------------------
(* The worker lock *)

\* Mutant: whoever holds the lock, it is taken.
MayAcquireAlways(w) == w \in RealtimeWorkers

\* SET NX with a time to live.
MayAcquire(w) == redis.lock = NoHolder

Acquire(w) ==
  /\ worker[w].pc = "out" /\ MayAcquire(w)
  /\ redis' = [redis EXCEPT !.lock = w]
  /\ worker' = [worker EXCEPT ![w] = [Stopped EXCEPT !.pc = "flush", !.day = today]]
  /\ UNCHANGED <<today, spendLogged, streamed, emptyAnswer, facts, shown, outlived,
                 realtimeFaults>>

\* The lock of a dead worker runs out; that of a live one only when the worker
\* stalls and misses its renewals.
LockRunsOut(w) ==
  /\ redis.lock = w
  /\ redis' = [redis EXCEPT !.lock = NoHolder]
  /\ IF worker[w].pc = "out" THEN UNCHANGED <<worker, outlived, realtimeFaults>>
     ELSE /\ realtimeFaults < MaxRealtimeFaults /\ realtimeFaults' = realtimeFaults + 1
          /\ worker' = [worker EXCEPT ![w].lost = TRUE] /\ outlived' = TRUE
  /\ UNCHANGED <<today, spendLogged, streamed, emptyAnswer, facts, shown>>

\* Renewal and release compare the owner.
Released(w) == IF redis.lock = w THEN NoHolder ELSE redis.lock

\* A renewal fails: the worker ends its loop and its tasks.
NoticeLoss(w) ==
  /\ worker[w].lost
  /\ redis' = [redis EXCEPT !.lock = Released(w)]
  /\ worker' = [worker EXCEPT ![w] = Stopped]
  /\ UNCHANGED <<today, spendLogged, streamed, emptyAnswer, facts, shown, outlived,
                 realtimeFaults>>

CrashRealtime(w) ==
  /\ worker[w].pc # "out" /\ realtimeFaults < MaxRealtimeFaults
  /\ realtimeFaults' = realtimeFaults + 1
  /\ worker' = [worker EXCEPT ![w] = Stopped]
  /\ UNCHANGED <<today, spendLogged, redis, streamed, emptyAnswer, facts, shown, outlived>>

-----------------------------------------------------------------------------
(* Ingestion *)

\* The first entries added to the stream; XADD may trim them once enough newer
\* ones are there, whether they were read and acknowledged or not.
FirstEntries(n) == {q \in Requests : 0 < streamed.place[q] /\ streamed.place[q] <= n}
MayTrim(n) == n = 0 \/ n + StreamLimit <= streamed.count + 1

\* The ingest script for a request not seen before (one seen before changes
\* nothing): its key is set and it enters the archive stream.
IngestEvent(q) ==
  /\ q \notin redis.dedup
  /\ streamed' = [streamed EXCEPT !.count = @ + 1, !.place[q] = streamed.count + 1]
  /\ \E n \in 0..streamed.count :
       /\ MayTrim(n)
       /\ redis' = [redis EXCEPT !.dedup = @ \cup {q},
                       !.stream = (@ \ FirstEntries(n)) \cup {q},
                       !.pending = @ \ FirstEntries(n)]

\* The live poll, the backfill and, every few minutes, the reconciliation over
\* a longer window, request by request.  Which of the logged requests they see
\* depends on the cursor, and on where a poll fails; nothing below relies on it.
Poll(w) ==
  /\ worker[w].pc = "poll" /\ worker[w].day = today
  /\ \E q \in spendLogged : IngestEvent(q)
  /\ UNCHANGED <<today, spendLogged, emptyAnswer, facts, shown, worker, outlived,
                 realtimeFaults>>

PollEnds(w) ==
  /\ worker[w].pc = "poll" /\ worker[w].day = today
  /\ worker' = [worker EXCEPT ![w].pc = "flush"]
  /\ UNCHANGED <<today, spendLogged, redis, streamed, emptyAnswer, facts, shown, outlived,
                 realtimeFaults>>

\* A settled minute is stored in the facts and only then ingested.
SettlementStores(w) ==
  /\ worker[w].pc # "out" /\ worker[w].stage = "live"
  /\ \E q \in spendLogged \ facts : facts' = facts \cup {q}
  /\ UNCHANGED <<today, spendLogged, redis, streamed, emptyAnswer, shown, worker, outlived,
                 realtimeFaults>>

SettlementIngests(w) ==
  /\ worker[w].pc # "out" /\ worker[w].stage = "live"
  /\ \E q \in facts : IngestEvent(q)
  /\ UNCHANGED <<today, spendLogged, emptyAnswer, facts, shown, worker, outlived,
                 realtimeFaults>>

-----------------------------------------------------------------------------
(* Moving the stream into the facts *)

\* Entries somebody was given and never acknowledged come first; with fewer
\* than two hundred there is one batch.
NextBatch ==
  IF redis.pending # {} THEN redis.pending
  ELSE IF emptyAnswer = "nothing" THEN redis.stream ELSE {}

Delivered == [redis EXCEPT !.pending = @ \cup NextBatch, !.stream = @ \ NextBatch]

\* Mutant: the mirror is published by a recovery only.
AfterFlushOnce(w) ==
  CASE worker[w].stage = "boot"   -> "seed"
    [] worker[w].stage = "seeded" -> "view"
    [] OTHER                      -> "poll"

AfterFlush(w) == IF worker[w].stage = "boot" THEN "seed" ELSE "view"

FlushNothing(w) ==
  /\ worker[w].pc = "flush" /\ NextBatch = {}
  /\ worker' = [worker EXCEPT ![w].pc = AfterFlush(w)]
  /\ UNCHANGED <<today, spendLogged, redis, streamed, emptyAnswer, facts, shown, outlived,
                 realtimeFaults>>

\* A batch is delivered and stored; archive_realtime_events skips the requests
\* that are there.
FlushStore(w) ==
  /\ worker[w].pc = "flush" /\ NextBatch # {}
  /\ redis' = Delivered
  /\ facts' = facts \cup NextBatch
  /\ worker' = [worker EXCEPT ![w].pc = "ack", ![w].batch = NextBatch]
  /\ UNCHANGED <<today, spendLogged, streamed, emptyAnswer, shown, outlived, realtimeFaults>>

\* Mutant: a batch is acknowledged whether it was stored or not.
AcknowledgedAlways(w) == IF worker[w].pc = "ack" THEN worker[w].batch ELSE NextBatch

Acknowledged(w) == IF worker[w].pc = "ack" THEN worker[w].batch ELSE {}

\* The cycle is abandoned, or the recovery and with it the worker.
Abandon(w, kept) ==
  /\ realtimeFaults < MaxRealtimeFaults /\ realtimeFaults' = realtimeFaults + 1
  /\ IF worker[w].stage = "live"
     THEN /\ worker' = [worker EXCEPT ![w].pc = "poll", ![w].batch = {}]
          /\ redis' = kept
     ELSE /\ worker' = [worker EXCEPT ![w] = Stopped]
          /\ redis' = [kept EXCEPT !.lock = Released(w)]
  /\ UNCHANGED <<today, spendLogged, streamed, emptyAnswer, facts, shown, outlived>>

\* Redis is away, or the database is: a delivered batch stays pending.
FlushFails(w) ==
  /\ worker[w].pc = "flush"
  /\ \E kept \in {redis, [Delivered EXCEPT !.pending = @ \ Acknowledged(w)]} : Abandon(w, kept)

\* So do the entries that are stored and not acknowledged.
CycleFails(w) ==
  /\ worker[w].pc \in {"ack", "seed", "view", "mirror", "finalize"}
  /\ Abandon(w, redis)

FlushAck(w) ==
  /\ worker[w].pc = "ack"
  /\ redis' = [redis EXCEPT !.pending = @ \ Acknowledged(w)]
  /\ worker' = [worker EXCEPT ![w].pc = AfterFlush(w), ![w].batch = {}]
  /\ UNCHANGED <<today, spendLogged, streamed, emptyAnswer, facts, shown, outlived,
                 realtimeFaults>>

-----------------------------------------------------------------------------
(* The mirror: the day's facts are read, then published *)

ViewFacts(w) ==
  /\ worker[w].pc = "view"
  /\ worker' = [worker EXCEPT ![w].pc = "mirror", ![w].batch = OfDay(facts, worker[w].day)]
  /\ UNCHANGED <<today, spendLogged, redis, streamed, emptyAnswer, facts, shown, outlived,
                 realtimeFaults>>

PublishMirror(w) ==
  /\ worker[w].pc = "mirror"
  /\ shown' = [shown EXCEPT ![worker[w].day] = worker[w].batch]
  /\ worker' = [worker EXCEPT ![w].pc = "poll", ![w].stage = "live", ![w].batch = {}]
  /\ UNCHANGED <<today, spendLogged, redis, streamed, emptyAnswer, facts, outlived,
                 realtimeFaults>>

-----------------------------------------------------------------------------
(* Recovery and the change of day *)

\* The deduplication keys are restored from the facts, unless reading them takes
\* too long; a second flush follows.
Seed(w) ==
  /\ worker[w].pc = "seed"
  /\ \E restored \in {facts, {}} : redis' = [redis EXCEPT !.dedup = @ \cup restored]
  /\ worker' = [worker EXCEPT ![w].pc = "flush", ![w].stage = "seeded"]
  /\ UNCHANGED <<today, spendLogged, streamed, emptyAnswer, facts, shown, outlived,
                 realtimeFaults>>

\* The day before is scanned again in slices.  If all of them were complete it
\* is promoted; the worker recovers into the new day in any case.
Calibrate(w) ==
  /\ worker[w].pc = "poll" /\ worker[w].day # today
  /\ \E scanned \in SUBSET OfDay(spendLogged, today - 1) :
       /\ facts' = facts \cup scanned
       /\ \E complete \in {scanned = OfDay(spendLogged, today - 1), FALSE} :
            worker' = [worker EXCEPT ![w].day = today, ![w].stage = "boot",
                         ![w].pc = IF complete THEN "finalize" ELSE "flush"]
  /\ UNCHANGED <<today, spendLogged, redis, streamed, emptyAnswer, shown, outlived,
                 realtimeFaults>>

\* Mutant: only what the mirror does not show yet becomes history.
PromotedAfresh(d) == OfDay(facts, d) \ shown[d]

\* The facts of the day, which replace the historical snapshot.
Promoted(d) == OfDay(facts, d)

Finalize(w) ==
  /\ worker[w].pc = "finalize"
  /\ shown' = [shown EXCEPT ![worker[w].day - 1] = Promoted(worker[w].day - 1)]
  /\ worker' = [worker EXCEPT ![w].pc = "flush"]
  /\ UNCHANGED <<today, spendLogged, redis, streamed, emptyAnswer, facts, outlived,
                 realtimeFaults>>

-----------------------------------------------------------------------------
LiveStep(w) ==
  \/ Poll(w) \/ PollEnds(w) \/ FlushNothing(w) \/ FlushStore(w) \/ FlushAck(w)
  \/ ViewFacts(w) \/ PublishMirror(w) \/ Seed(w) \/ Calibrate(w) \/ Finalize(w)

LockStep(w) == Acquire(w) \/ (worker[w].pc = "out" /\ LockRunsOut(w)) \/ NoticeLoss(w)

RealtimeNext ==
  \/ Midnight
  \/ \E q \in Requests : LogRequest(q)
  \/ \E w \in RealtimeWorkers :
       \/ Acquire(w) \/ LockRunsOut(w) \/ NoticeLoss(w) \/ CrashRealtime(w)
       \/ LiveStep(w) \/ FlushFails(w) \/ CycleFails(w)
       \/ SettlementStores(w) \/ SettlementIngests(w)

RealtimeSpec == RealtimeInit /\ [][RealtimeNext]_realtimeVars

\* A worker waits for the lock, which a dead one loses; a live one carries on.
RealtimeFairness ==
  \A w \in RealtimeWorkers : WF_realtimeVars(LiveStep(w)) /\ WF_realtimeVars(LockStep(w))

-----------------------------------------------------------------------------
(* Properties *)

RealtimeTypeOK ==
  /\ today \in RealtimeDays /\ spendLogged \subseteq Requests
  /\ redis \in [lock : RealtimeWorkers \cup {NoHolder}, dedup : SUBSET spendLogged,
                stream : SUBSET redis.dedup, pending : SUBSET redis.dedup]
  /\ streamed \in [count : Nat, place : [Requests -> 0..streamed.count]]
  /\ emptyAnswer \in {"nothing", "stream"}
  /\ facts \subseteq spendLogged /\ shown \in [RealtimeDays -> SUBSET facts]
  /\ worker \in [RealtimeWorkers ->
        [pc : {"out", "flush", "ack", "seed", "view", "mirror", "poll", "finalize"},
         stage : {"boot", "seeded", "live"}, day : 0..today,
         batch : SUBSET facts, lost : BOOLEAN]]
  /\ outlived \in BOOLEAN /\ realtimeFaults \in 0..MaxRealtimeFaults

\* Requests whose entry has StreamLimit newer ones behind it.
Outgrown ==
  {q \in Requests : 0 < streamed.place[q] /\ streamed.place[q] + StreamLimit <= streamed.count}

\* A request that Redis will refuse as seen is in the warehouse or on the stream,
\* fresh or pending: only the bound of the stream loses it there, never a crash
\* between two steps, an outage of the database or an acknowledgement.
SeenIsKept == redis.dedup \subseteq facts \cup redis.stream \cup redis.pending \cup Outgrown

\* As long as no worker has outlived its lock, what a day shows never shrinks:
\* facts read earlier are not published over facts read later, through
\* restarts, changes of worker and the promotion of a day to history.
ShownNeverShrinks ==
  [][~outlived => \A d \in RealtimeDays : shown[d] \subseteq shown'[d]]_realtimeVars

\* A request of the running day that is in the warehouse appears in the day's
\* figures, whatever crashes or stalls and whether or not the stream is read,
\* unless the day is over first.
FactsAreShown ==
  \A q \in Requests :
    q \in facts /\ today = RequestDay[q] ~> q \in shown[RequestDay[q]] \/ today # RequestDay[q]
=============================================================================

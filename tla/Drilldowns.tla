------------------------------ MODULE Drilldowns ------------------------------
(***************************************************************************)
(* The drill-down lists of the stability dashboard: AsyncJSONCache keeps   *)
(* an answer in the process and in Redis for a minute, and requests for    *)
(* the same answer share one build.  An ingest that inserted attempts      *)
(* forgets both, one after the other, and moves the generation of every    *)
(* build in progress, so that its answer is returned and not kept.         *)
(* One key; an answer is "current" when it shows every attempt stored.     *)
(***************************************************************************)
EXTENDS Naturals

CONSTANTS
  Askers,        \* requests for the list
  Builds,        \* tasks that build it
  Ingests,       \* requests that store attempts
  MaxIngests,    \* bound: ingests in a behaviour
  NoBuild

ASSUME DrilldownAssumption == MaxIngests \in Nat /\ NoBuild \notin Builds

VARIABLES
  local, shared,   \* the process's copy and Redis's
  generation,      \* _generations of the key
  building,        \* _tasks of the key
  build,           \* per task: running, done, over (its callback has run), and what it built
  asker,           \* per request: where it is, the task it waits for, what it holds
  ingest,          \* per ingest: idle, stored, forgotten (locally)
  slipped,         \* an answer older than the last ingest was kept by a way round the generation
  ingests

drilldownVars == <<local, shared, generation, building, build, asker, ingest, slipped, ingests>>

Answers == {"none", "current", "old"}
Waitless == [pc |-> "idle", data |-> "none", task |-> NoBuild, generation |-> 0, late |-> FALSE]
NotBuilding == [pc |-> "idle", data |-> "none"]
AsOld(data) == IF data = "current" THEN "old" ELSE data

DrilldownInit ==
  /\ local = "none" /\ shared = "none" /\ generation = 0 /\ building = NoBuild
  /\ build = [t \in Builds |-> NotBuilding] /\ asker = [r \in Askers |-> Waitless]
  /\ ingest = [i \in Ingests |-> "idle"] /\ slipped = FALSE /\ ingests = 0

AwaitedBy(t) == {r \in Askers : asker[r].pc = "waiting" /\ asker[r].task = t}

-----------------------------------------------------------------------------
(* get_or_set *)

\* A hit in the process is returned at once and changes nothing; otherwise Redis is asked.
AskShared(r) ==
  /\ asker[r].pc = "idle" /\ local = "none"
  /\ asker' = [asker EXCEPT ![r] = [Waitless EXCEPT !.pc = "fetched", !.data = shared]]
  /\ UNCHANGED <<local, shared, generation, building, build, ingest, slipped, ingests>>

KeepShared(r) ==
  /\ asker[r].pc = "fetched" /\ asker[r].data # "none"
  /\ local' = asker[r].data /\ slipped' = (slipped \/ asker[r].data = "old")
  /\ asker' = [asker EXCEPT ![r] = Waitless]
  /\ UNCHANGED <<shared, generation, building, build, ingest, ingests>>

Running(t) == t # NoBuild /\ build[t].pc = "running"

JoinBuild(r) ==
  /\ asker[r].pc = "fetched" /\ asker[r].data = "none" /\ Running(building)
  /\ asker' = [asker EXCEPT ![r] =
       [Waitless EXCEPT !.pc = "waiting", !.task = building, !.generation = generation]]
  /\ UNCHANGED <<local, shared, generation, building, build, ingest, slipped, ingests>>

\* A task that is done and still registered is replaced.
StartBuild(r, t) ==
  /\ asker[r].pc = "fetched" /\ asker[r].data = "none"
  /\ IF building = NoBuild THEN TRUE ELSE ~Running(building)
  /\ build[t].pc = "idle"
  /\ build' = [build EXCEPT ![t] = [pc |-> "running", data |-> "current"]]
  /\ building' = t
  /\ asker' = [asker EXCEPT ![r] =
       [Waitless EXCEPT !.pc = "waiting", !.task = t, !.generation = generation]]
  /\ UNCHANGED <<local, shared, generation, ingest, slipped, ingests>>

FinishBuild(t) ==
  /\ build[t].pc = "running"
  /\ \E data \in {build[t].data, "none"} :     \* the query fails
       build' = [build EXCEPT ![t] = [pc |-> "done", data |-> data]]
  /\ UNCHANGED <<local, shared, generation, building, asker, ingest, slipped, ingests>>

\* The callback registered first runs before the requests are woken.
UnregisterBuild(t) ==
  /\ build[t].pc = "done"
  /\ build' = [build EXCEPT ![t].pc = "over"]
  /\ building' = IF building = t THEN NoBuild ELSE building
  /\ UNCHANGED <<local, shared, generation, asker, ingest, slipped, ingests>>

\* The last request to take the answer lets go of the task.
LetGo(r, t) == IF AwaitedBy(t) = {r} THEN [build EXCEPT ![t] = NotBuilding] ELSE build

TakeAnswer(r) ==
  LET t == asker[r].task  data == build[t].data  kept == asker[r].generation = generation IN
  /\ asker[r].pc = "waiting" /\ build[t].pc = "over"
  /\ IF data # "none" /\ kept
     THEN /\ local' = data
          /\ asker' = [asker EXCEPT ![r] = [Waitless EXCEPT !.pc = "sharing", !.data = data]]
          /\ slipped' = (slipped \/ (asker[r].late /\ data = "old"))
     ELSE asker' = [asker EXCEPT ![r] = Waitless] /\ UNCHANGED <<local, slipped>>
  /\ build' = LetGo(r, t)
  /\ UNCHANGED <<shared, generation, building, ingest, ingests>>

\* Redis may not be reached, which is logged.
ShareAnswer(r) ==
  /\ asker[r].pc = "sharing"
  /\ \/ shared' = asker[r].data /\ slipped' = (slipped \/ asker[r].data = "old")
     \/ UNCHANGED <<shared, slipped>>
  /\ asker' = [asker EXCEPT ![r] = Waitless]
  /\ UNCHANGED <<local, generation, building, build, ingest, ingests>>

AnswersExpire ==
  /\ local # "none" \/ shared # "none"
  /\ local' = "none" /\ shared' \in {"none", shared}
  /\ UNCHANGED <<generation, building, build, asker, ingest, slipped, ingests>>

-----------------------------------------------------------------------------
(* internal_observability_events, once it has inserted a row *)

StoreAttempts(i) ==
  /\ ingest[i] = "idle" /\ ingests < MaxIngests /\ ingests' = ingests + 1
  /\ ingest' = [ingest EXCEPT ![i] = "stored"]
  /\ local' = AsOld(local) /\ shared' = AsOld(shared)
  /\ build' = [t \in Builds |-> [build[t] EXCEPT !.data = AsOld(@)]]
  /\ asker' = [r \in Askers |-> [asker[r] EXCEPT !.data = AsOld(@)]]
  /\ UNCHANGED <<generation, building, slipped>>

\* Who waits for a task that is registered no more keeps what it built.
Overlooked ==
  [r \in Askers |-> IF asker[r].pc = "waiting" /\ asker[r].task # building
                    THEN [asker[r] EXCEPT !.late = TRUE] ELSE asker[r]]

\* Mutant: the tasks are dropped, and the generation stays.
ForgetLocalOnly(i) ==
  /\ ingest[i] = "stored" /\ ingest' = [ingest EXCEPT ![i] = "forgotten"]
  /\ local' = "none" /\ slipped' = FALSE
  /\ building' = NoBuild /\ asker' = Overlooked
  /\ UNCHANGED <<shared, generation, build, ingests>>

\* clear_local, and the local half of invalidate_prefix.
ForgetLocal(i) ==
  /\ ingest[i] = "stored" /\ ingest' = [ingest EXCEPT ![i] = "forgotten"]
  /\ local' = "none" /\ slipped' = FALSE
  /\ generation' = IF building = NoBuild THEN generation ELSE generation + 1
  /\ building' = NoBuild /\ asker' = Overlooked
  /\ UNCHANGED <<shared, build, ingests>>

\* Redis may not be reached: what it holds stays for its minute.
ForgetShared(i) ==
  /\ ingest[i] = "forgotten" /\ ingest' = [ingest EXCEPT ![i] = "idle"]
  /\ \/ shared' = "none" /\ UNCHANGED slipped
     \/ slipped' = (slipped \/ shared = "old") /\ UNCHANGED shared
  /\ UNCHANGED <<local, generation, building, build, asker, ingests>>

\* Redis outlives the process, and with it what an ingest cut short has not forgotten.
DrilldownRestart ==
  /\ local' = "none" /\ generation' = 0 /\ building' = NoBuild
  /\ build' = [t \in Builds |-> NotBuilding] /\ asker' = [r \in Askers |-> Waitless]
  /\ ingest' = [i \in Ingests |-> "idle"]
  /\ slipped' = (slipped \/ \E i \in Ingests : ingest[i] # "idle")
  /\ UNCHANGED <<shared, ingests>>

DrilldownNext ==
  \/ \E r \in Askers :
       \/ AskShared(r) \/ KeepShared(r) \/ JoinBuild(r) \/ TakeAnswer(r) \/ ShareAnswer(r)
       \/ \E t \in Builds : StartBuild(r, t)
  \/ \E t \in Builds : FinishBuild(t) \/ UnregisterBuild(t)
  \/ \E i \in Ingests : StoreAttempts(i) \/ ForgetLocal(i) \/ ForgetShared(i)
  \/ AnswersExpire \/ DrilldownRestart

DrilldownSpec == DrilldownInit /\ [][DrilldownNext]_drilldownVars

-----------------------------------------------------------------------------
\* Copies, tasks and requests keep their types.
DrilldownTypeOK ==
  /\ local \in Answers /\ shared \in Answers /\ generation \in 0..MaxIngests
  /\ building \in Builds \union {NoBuild}
  /\ build \in [Builds -> [pc : {"idle", "running", "done", "over"}, data : Answers]]
  /\ asker \in [Askers -> [pc : {"idle", "fetched", "waiting", "sharing"}, data : Answers,
       task : Builds \union {NoBuild}, generation : 0..MaxIngests, late : BOOLEAN]]
  /\ ingest \in [Ingests -> {"idle", "stored", "forgotten"}]
  /\ slipped \in BOOLEAN /\ ingests \in 0..MaxIngests

\* A build that was running when attempts were stored is never kept as the answer that
\* shows them: what is found in the cache after an ingest is current, unless it came from
\* a read of Redis, a write to Redis or a finished build that was in the air meanwhile,
\* or the ingest could not reach Redis.
AnswersAreCurrent ==
  (\A i \in Ingests : ingest[i] = "idle") /\ ~slipped => local # "old" /\ shared # "old"
==============================================================================

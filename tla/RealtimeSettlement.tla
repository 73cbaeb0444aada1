-------------------------- MODULE RealtimeSettlement --------------------------
(***************************************************************************)
(* The settlement of closed minutes by the realtime usage worker           *)
(* (usage_realtime_worker.py) and the watermark it keeps in the warehouse  *)
(* (usage_realtime_settlement).                                            *)
(*                                                                         *)
(* Requests appear in the upstream's log when they end, under the minute   *)
(* they began in.  A minute is scanned once it is safely over; if all its  *)
(* pages were read its requests are stored and the watermark moves past    *)
(* it.  A worker has two tasks that do this: the background task takes one *)
(* minute after the watermark at a time, the startup task, which runs once *)
(* beside it, goes through the current day again from its first minute.    *)
(*                                                                         *)
(* Time is counted in minutes from 1, in days of MinutesPerDay.  A request *)
(* is named by its minute.  One backend is modelled: the tasks keep the    *)
(* backends apart.  The live loop is in RealtimeLive.                      *)
(***************************************************************************)
EXTENDS Naturals

CONSTANTS
  SettlementWorkers,
  MinutesPerDay,
  LastMinute,            \* bound: the clock stops here
  RequestMinutes,        \* minutes in which a request begins
  SettleDelay,           \* USAGE_REALTIME_SETTLEMENT_DELAY_SECONDS
  MaxSettlementFaults    \* bound: crashes, and failed or late passes in the background

ASSUME SettlementAssumption ==
  /\ MinutesPerDay \in Nat \ {0} /\ LastMinute \in Nat \ {0}
  /\ RequestMinutes \subseteq 1..LastMinute
  /\ SettleDelay \in Nat \ {0} /\ MaxSettlementFaults \in Nat

VARIABLES
  now,             \* the running minute
  logged,            \* when each request was written to the log
  archived,          \* requests stored in usage_event_attribution
  verified,          \* verified_through: all minutes before it; 0 is no row
  origin,            \* history: first minute ever settled
  settler,           \* the tasks of each worker
  settlementFaults

settlementVars == <<now, logged, archived, verified, origin, settler, settlementFaults>>

Minutes == 1..LastMinute
DayOf(m) == (m - 1) \div MinutesPerDay
DayStart(m) == DayOf(m) * MinutesPerDay + 1

InLog == {m \in RequestMinutes : logged[m] # "no"}
Timely == {m \in RequestMinutes : logged[m] = "timely"}

\* A worker that is down; "off" and "done" tasks point at minute 1.
Down == [up |-> FALSE, startup |-> "off", at |-> 1, until |-> 1,
         background |-> "off", minute |-> 1]

SettlementInit ==
  /\ now = 1 /\ logged = [m \in RequestMinutes |-> "no"]
  /\ archived = {} /\ verified = 0 /\ origin = 0
  /\ settler = [w \in SettlementWorkers |-> Down]
  /\ settlementFaults = 0

-----------------------------------------------------------------------------
(* The world, and the live loop *)

Tick ==
  /\ now < LastMinute /\ now' = now + 1
  /\ UNCHANGED <<logged, archived, verified, origin, settler, settlementFaults>>

\* In time for its minute's settlement, or late.
LogMinute(m) ==
  /\ logged[m] = "no" /\ now >= m
  /\ logged' = [logged EXCEPT ![m] = IF now <= m + SettleDelay THEN "timely" ELSE "late"]
  /\ UNCHANGED <<now, archived, verified, origin, settler, settlementFaults>>

\* A request the live loop has polled, while it was in the live window.
LiveArchives(w) ==
  /\ settler[w].up
  /\ \E m \in InLog : m + SettleDelay >= now /\ archived' = archived \cup {m}
  /\ UNCHANGED <<now, logged, verified, origin, settler, settlementFaults>>

\* The first mirror of a worker is published; its tasks begin.
StartWorker(w) ==
  /\ ~settler[w].up
  /\ settler' = [settler EXCEPT ![w] =
        [Down EXCEPT !.up = TRUE, !.startup = "start", !.background = "idle"]]
  /\ UNCHANGED <<now, logged, archived, verified, origin, settlementFaults>>

StopWorker(w) ==
  /\ settler[w].up /\ settlementFaults < MaxSettlementFaults
  /\ settlementFaults' = settlementFaults + 1
  /\ settler' = [settler EXCEPT ![w] = Down]
  /\ UNCHANGED <<now, logged, archived, verified, origin>>

-----------------------------------------------------------------------------
(* One minute *)

\* The exclusive end of what is safely closed; at midnight nothing is.
Target == IF now > SettleDelay THEN now - SettleDelay ELSE 1
HasTarget == Target > DayStart(Target)

\* Mutant: a page set with holes counts.
MayAdvanceAnyway(complete) == complete \in BOOLEAN

\* Only a complete set of pages lets the watermark pass.
MayAdvance(complete) == complete

\* The requests of minute m are stored if all its pages were read.  A dense
\* minute is split, and of an incomplete one some part may be stored.
Scanned(m, complete) ==
  \E part \in SUBSET (InLog \cap {m}) :
    /\ complete => part = InLog \cap {m}
    /\ archived' = archived \cup part

\* GREATEST
LaterOf(old, new) == IF new > old THEN new ELSE old

Advanced(m) ==
  /\ verified' = LaterOf(verified, m + 1)
  /\ origin' = IF origin = 0 THEN m ELSE origin

-----------------------------------------------------------------------------
(* The startup task: the target's day, from its first minute *)

StartupDone(w) == [settler[w] EXCEPT !.startup = "done", !.at = 1, !.until = 1]

StartupBegins(w) ==
  /\ settler[w].startup = "start"
  /\ settler' = [settler EXCEPT ![w] =
        IF HasTarget
        THEN [@ EXCEPT !.startup = "scan", !.at = DayStart(Target), !.until = Target]
        ELSE StartupDone(w)]
  /\ UNCHANGED <<now, logged, archived, verified, origin, settlementFaults>>

\* An incomplete minute ends the task.
StartupScan(w) ==
  /\ settler[w].startup = "scan"
  /\ \E complete \in BOOLEAN :
       /\ Scanned(settler[w].at, complete)
       /\ settler' = [settler EXCEPT ![w] =
             IF MayAdvance(complete) THEN [@ EXCEPT !.startup = "advance"] ELSE StartupDone(w)]
  /\ UNCHANGED <<now, logged, verified, origin, settlementFaults>>

StartupAdvance(w) ==
  /\ settler[w].startup = "advance"
  /\ Advanced(settler[w].at)
  /\ settler' = [settler EXCEPT ![w] =
        IF settler[w].at + 1 < settler[w].until
        THEN [@ EXCEPT !.at = settler[w].at + 1, !.startup = "scan"] ELSE StartupDone(w)]
  /\ UNCHANGED <<now, logged, archived, settlementFaults>>

\* Its time is up.  The pass over pending minutes that follows is like one of
\* the background task.
StartupTimesOut(w) ==
  /\ settler[w].startup \in {"scan", "advance"}
  /\ settler' = [settler EXCEPT ![w] = StartupDone(w)]
  /\ UNCHANGED <<now, logged, archived, verified, origin, settlementFaults>>

-----------------------------------------------------------------------------
(* The background task: the first minute that is not verified *)

\* A backend without a watermark starts with the day.
Unverified == IF verified = 0 THEN DayStart(Target) ELSE verified

\* Mutant: the last closed minute waits for the one after it.
PendingShort == HasTarget /\ Unverified + 1 < Target

Pending == HasTarget /\ Unverified < Target

BackgroundScan(w) ==
  /\ settler[w].background = "idle" /\ Pending
  /\ Scanned(Unverified, TRUE)
  /\ settler' = [settler EXCEPT ![w].background = "advance", ![w].minute = Unverified]
  /\ UNCHANGED <<now, logged, verified, origin, settlementFaults>>

\* An incomplete scan, a failed one or one out of time leaves the minute to the
\* next pass; part of a dense minute may have been stored.
BackgroundScanFails(w) ==
  /\ settler[w].background = "idle" /\ Pending
  /\ settlementFaults < MaxSettlementFaults /\ settlementFaults' = settlementFaults + 1
  /\ Scanned(Unverified, FALSE)
  /\ IF MayAdvance(FALSE)
     THEN settler' = [settler EXCEPT ![w].background = "advance", ![w].minute = Unverified]
     ELSE UNCHANGED settler
  /\ UNCHANGED <<now, logged, verified, origin>>

BackgroundAdvance(w) ==
  /\ settler[w].background = "advance"
  /\ Advanced(settler[w].minute)
  /\ settler' = [settler EXCEPT ![w].background = "idle", ![w].minute = 1]
  /\ UNCHANGED <<now, logged, archived, settlementFaults>>

BackgroundTimesOut(w) ==
  /\ settler[w].background = "advance"
  /\ settlementFaults < MaxSettlementFaults /\ settlementFaults' = settlementFaults + 1
  /\ settler' = [settler EXCEPT ![w].background = "idle", ![w].minute = 1]
  /\ UNCHANGED <<now, logged, archived, verified, origin>>

-----------------------------------------------------------------------------
SettlementNext ==
  \/ Tick
  \/ \E m \in RequestMinutes : LogMinute(m)
  \/ \E w \in SettlementWorkers :
       \/ LiveArchives(w) \/ StartWorker(w) \/ StopWorker(w)
       \/ StartupBegins(w) \/ StartupScan(w) \/ StartupAdvance(w) \/ StartupTimesOut(w)
       \/ BackgroundScan(w) \/ BackgroundScanFails(w)
       \/ BackgroundAdvance(w) \/ BackgroundTimesOut(w)

SettlementSpec == SettlementInit /\ [][SettlementNext]_settlementVars

\* Time passes, a worker is started again, and the passes of its background task
\* come round.  Passes fail, but no more often than MaxSettlementFaults says.
SettlementFairness ==
  /\ WF_settlementVars(Tick)
  /\ \A w \in SettlementWorkers :
       /\ WF_settlementVars(StartWorker(w)) /\ WF_settlementVars(BackgroundScan(w))
       /\ WF_settlementVars(BackgroundAdvance(w))

-----------------------------------------------------------------------------
(* Properties *)

SettlementTypeOK ==
  /\ now \in Minutes /\ logged \in [RequestMinutes -> {"no", "timely", "late"}]
  /\ archived \subseteq InLog
  /\ verified \in 0..Target /\ origin \in 0..verified
  /\ settler \in [SettlementWorkers ->
        [up : BOOLEAN, startup : {"off", "start", "scan", "advance", "done"},
         at : 1..Target, until : 1..Target,
         background : {"off", "idle", "advance"}, minute : 1..Target]]
  /\ settlementFaults \in 0..MaxSettlementFaults

\* What the watermark says of its own day is true: every request of that day
\* logged in time before it is stored, whichever worker and task moved it.
DayWatermarkIsEarned ==
  \A m \in Timely : DayStart(verified) <= m /\ m < verified => m \in archived

\* usage_store.py says of the watermark: "advanced only after every request in
\* its closed interval has been durably recorded".  The startup task of a
\* worker that was away over midnight moves it past the rest of yesterday.
WatermarkIsEarned ==
  \A m \in Timely : origin <= m /\ m < verified => m \in archived

\* The requests of the last day reach the warehouse once their minute is
\* closed: the crashes, incomplete scans and timeouts before that cost nothing.
ClosedMinutesArrive ==
  \A m \in RequestMinutes :
     m < LastMinute - SettleDelay /\ DayOf(m) = DayOf(LastMinute - SettleDelay) =>
       (logged[m] = "timely" ~> m \in archived)
=============================================================================

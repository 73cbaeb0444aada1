------------------------------ MODULE TeamKeyReads ------------------------------
(***************************************************************************)
(* Reads of the keys of a team through two caches of one process.  The     *)
(* outer one (team_member_keys_cached) holds the list of a team; the inner *)
(* one (LiteLLMClient.keys_for_user) the list of an account.  Each counts  *)
(* the invalidations in a version, shares the load that is under way       *)
(* between the readers of one version, and stores what was loaded only if  *)
(* the version has not moved.  A change made here by a leader invalidates  *)
(* both, one made by the member only the inner one, in both cases after    *)
(* the proxy has answered; a change whose answer is lost, neither.         *)
(***************************************************************************)
EXTENDS Integers, FiniteSets

CONSTANTS
  Readers,
  MaxKeyChanges   \* bound: changes of the keys at the proxy

ASSUME ReadsAssumption == MaxKeyChanges \in Nat

VARIABLES
  truth,        \* the proxy: number of changes so far, standing for the list itself
  changing,     \* changes made whose answer is on the way, with who made them
  outer, inner, \* [version, value] of the two caches
  outerLoads,   \* _team_member_key_inflight: tasks by version and refresh
  innerLoads,   \* _key_list_inflight: tasks by version
  reader,
  told          \* newest change that a leader has been answered

readsVars == <<truth, changing, outer, inner, outerLoads, innerLoads, reader, told>>

Versions == 0..MaxKeyChanges
Missing == -1              \* no value in a cache, a list not read yet
NoTask == [pc |-> "none", value |-> Missing, on |-> 0]
NotReading == [pc |-> "idle", version |-> 0, refresh |-> FALSE, since |-> 0, value |-> Missing]

ReadsInit ==
  /\ truth = 0 /\ changing = {} /\ told = 0
  /\ outer = [version |-> 0, value |-> Missing] /\ inner = [version |-> 0, value |-> Missing]
  /\ outerLoads = [t \in Versions \X BOOLEAN |-> NoTask]
  /\ innerLoads = [v \in Versions |-> NoTask]
  /\ reader = [r \in Readers |-> NotReading]

Later(a, b) == IF a > b THEN a ELSE b
Invalidated(cache) == [version |-> cache.version + 1, value |-> Missing]

-----------------------------------------------------------------------------
(* Changes, and the end of a cached value's time *)

KeysChange(by) ==
  /\ truth < MaxKeyChanges /\ truth' = truth + 1
  /\ changing' = changing \union {[by |-> by, change |-> truth + 1]}
  /\ UNCHANGED <<outer, inner, outerLoads, innerLoads, reader, told>>

\* block_key, delete_key, the other key calls: the cache of the account, then
\* without a pause the cache of the team if the caller is its leader.
ChangeAnswered(c) ==
  /\ c \in changing /\ changing' = changing \ {c}
  /\ inner' = Invalidated(inner)
  /\ outer' = IF c.by = "leader" THEN Invalidated(outer) ELSE outer
  /\ told' = IF c.by = "leader" THEN Later(told, c.change) ELSE told
  /\ UNCHANGED <<truth, outerLoads, innerLoads, reader>>

AnswerLost(c) ==
  /\ c \in changing /\ changing' = changing \ {c}
  /\ UNCHANGED <<truth, outer, inner, outerLoads, innerLoads, reader, told>>

TimeRunsOut ==
  /\ \/ outer.value # Missing /\ outer' = [outer EXCEPT !.value = Missing] /\ UNCHANGED inner
     \/ inner.value # Missing /\ inner' = [inner EXCEPT !.value = Missing] /\ UNCHANGED outer
  /\ UNCHANGED <<truth, changing, outerLoads, innerLoads, reader, told>>

-----------------------------------------------------------------------------
(* A read: the cached list, or the load of this version and kind *)

Read(r, refresh) ==
  LET task == <<outer.version, refresh>> IN
  /\ reader[r].pc = "idle"
  /\ IF ~refresh /\ outer.value # Missing
     THEN /\ reader' = [reader EXCEPT ![r] = [pc |-> "served", version |-> outer.version,
                          refresh |-> FALSE, since |-> told, value |-> outer.value]]
          /\ UNCHANGED outerLoads
     ELSE /\ reader' = [reader EXCEPT ![r] = [pc |-> "waiting", version |-> outer.version,
                          refresh |-> refresh, since |-> told, value |-> Missing]]
          /\ outerLoads' = IF outerLoads[task].pc = "none"
               THEN [outerLoads EXCEPT ![task].pc = "started"] ELSE outerLoads
  /\ UNCHANGED <<truth, changing, outer, inner, innerLoads, told>>

\* keys_for_user: a forced read passes over the cached value, and still joins the
\* load of this version if there is one.
LookInside(task) ==
  /\ outerLoads[task].pc = "started"
  /\ IF ~task[2] /\ inner.value # Missing
     THEN /\ outerLoads' = [outerLoads EXCEPT ![task] =
                              [pc |-> "done", value |-> inner.value, on |-> 0]]
          /\ UNCHANGED innerLoads
     ELSE /\ outerLoads' = [outerLoads EXCEPT ![task].pc = "joined", ![task].on = inner.version]
          /\ innerLoads' = IF innerLoads[inner.version].pc = "none"
               THEN [innerLoads EXCEPT ![inner.version].pc = "asked"] ELSE innerLoads
  /\ UNCHANGED <<truth, changing, outer, inner, reader, told>>

KeysListed(v) ==
  /\ innerLoads[v].pc = "asked"
  /\ innerLoads' = [innerLoads EXCEPT ![v] = [pc |-> "answered", value |-> truth, on |-> 0]]
  /\ UNCHANGED <<truth, changing, outer, inner, outerLoads, reader, told>>

\* _load_keys_for_user stores what it read unless the account was invalidated since.
InnerStored(v) ==
  IF inner.version = v THEN [inner EXCEPT !.value = innerLoads[v].value] ELSE inner

LoadEnds(v) ==
  /\ innerLoads[v].pc = "answered"
  /\ inner' = InnerStored(v)
  /\ outerLoads' = [t \in DOMAIN outerLoads |->
       IF outerLoads[t].pc = "joined" /\ outerLoads[t].on = v
       THEN [pc |-> "done", value |-> innerLoads[v].value, on |-> 0] ELSE outerLoads[t]]
  /\ innerLoads' = [innerLoads EXCEPT ![v] = NoTask]
  /\ UNCHANGED <<truth, changing, outer, reader, told>>

TeamLoadEnds(task) ==
  /\ outerLoads[task].pc = "done"
  /\ reader' = [r \in Readers |->
       IF /\ reader[r].pc = "waiting"
          /\ <<reader[r].version, reader[r].refresh>> = task
       THEN [reader[r] EXCEPT !.pc = "resumed", !.value = outerLoads[task].value]
       ELSE reader[r]]
  /\ outerLoads' = [outerLoads EXCEPT ![task] = NoTask]
  /\ UNCHANGED <<truth, changing, outer, inner, innerLoads, told>>

\* Mutant: stores the list whatever has been invalidated meanwhile.
StoredAlways(r) == [outer EXCEPT !.value = reader[r].value]

\* team_member_keys_cached after its await.
Stored(r) ==
  IF outer.version = reader[r].version THEN [outer EXCEPT !.value = reader[r].value] ELSE outer

ReaderResumes(r) ==
  /\ reader[r].pc = "resumed"
  /\ outer' = Stored(r)
  /\ reader' = [reader EXCEPT ![r].pc = "served"]
  /\ UNCHANGED <<truth, changing, inner, outerLoads, innerLoads, told>>

ReaderLeaves(r) ==
  /\ reader[r].pc = "served" /\ reader' = [reader EXCEPT ![r] = NotReading]
  /\ UNCHANGED <<truth, changing, outer, inner, outerLoads, innerLoads, told>>

\* The load fails: every reader of it gets the error and nothing is stored.
LoadFails(v) ==
  /\ innerLoads[v].pc = "asked" /\ innerLoads' = [innerLoads EXCEPT ![v] = NoTask]
  /\ LET failed == {t \in DOMAIN outerLoads : outerLoads[t].pc = "joined" /\ outerLoads[t].on = v}
     IN  /\ outerLoads' = [t \in DOMAIN outerLoads |->
                             IF t \in failed THEN NoTask ELSE outerLoads[t]]
         /\ reader' = [r \in Readers |->
              IF reader[r].pc = "waiting" /\ <<reader[r].version, reader[r].refresh>> \in failed
              THEN NotReading ELSE reader[r]]
  /\ UNCHANGED <<truth, changing, outer, inner, told>>

ReadsNext ==
  \/ \E by \in {"leader", "member"} : KeysChange(by)
  \/ \E c \in changing : ChangeAnswered(c) \/ AnswerLost(c)
  \/ TimeRunsOut
  \/ \E r \in Readers, refresh \in BOOLEAN : Read(r, refresh)
  \/ \E task \in DOMAIN outerLoads : LookInside(task) \/ TeamLoadEnds(task)
  \/ \E v \in Versions : KeysListed(v) \/ LoadEnds(v) \/ LoadFails(v)
  \/ \E r \in Readers : ReaderResumes(r) \/ ReaderLeaves(r)

ReadsSpec == ReadsInit /\ [][ReadsNext]_readsVars

-----------------------------------------------------------------------------
ReadsTypeOK ==
  /\ {truth, told} \subseteq Versions
  /\ {outer.version, inner.version} \subseteq Versions
  /\ {outer.value, inner.value} \subseteq Versions \union {Missing}
  /\ \A r \in Readers : reader[r].value \in Versions \union {Missing}

\* A leader who has been told that a key is blocked or deleted never gets the list of
\* before from a read that starts afterwards, whatever loads were under way.
ServedIsFresh ==
  \A r \in Readers : reader[r].pc = "served" => reader[r].value >= reader[r].since

\* Nor does anything older wait in the cache of the team for the next reader.
CachedIsFresh == outer.value # Missing => outer.value >= told

\* main.team_member_keys_cached over LiteLLMClient.keys_for_user.
ReadsAreFresh == ServedIsFresh /\ CachedIsFresh
==============================================================================

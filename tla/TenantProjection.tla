--------------------------- MODULE TenantProjection ---------------------------
(***************************************************************************)
(* An organization and its departments, and the upstream organization and  *)
(* teams that stand for them.  Provisioning finds or creates the upstream  *)
(* objects one call at a time and stores each id as it comes; every edit   *)
(* of a mapped row queues a job that carries the row's new status; and an  *)
(* adoption maps the organization to objects that exist already.  Workers  *)
(* run the jobs: oldest first, a job that failed again after a delay, but  *)
(* one that failed with an error without text counts as sent.              *)
(*                                                                         *)
(* Upstream objects are numbered in the order they are made; the first two *)
(* are the organization and the team that can be adopted.                  *)
(***************************************************************************)
EXTENDS Naturals, Sequences, FiniteSets

CONSTANTS
  OrgDepartments, FirstDepartment,
  ProjectionWorkers,
  MaxOrgEdits,     \* bound: edits by administrators
  MaxJobFaults     \* bound: calls that fail, processes that die and jobs that
                   \* outlast their lease and are claimed again

ASSUME ProjectionAssumption ==
  /\ FirstDepartment \in OrgDepartments /\ {"org", "given"} \intersect OrgDepartments = {}
  /\ MaxOrgEdits \in Nat /\ MaxJobFaults \in Nat

VARIABLES
  org,        \* the row of customer_organization: its status and upstream id
  status,     \* departments: "none", "active" or "archived"
  team,       \* departments: the upstream id of the team, or NoId
  proxy,      \* the upstream objects
  jobs,       \* the outbox, in the order of created_at
  hand,       \* what each worker is doing
  orgEdits, jobFaults, overruns,
  adopted,    \* the organization was adopted
  skipped,    \* it became active other than by provisioning, with departments unmapped
  reopened,   \* an adoption has opened the archived organization, and no edit since
              \* has queued a sync of it
  muted,      \* jobs with a failed run that was recorded as sent
  inOrder     \* no sync was applied after a newer one of the same row

projectionVars == <<org, status, team, proxy, jobs, hand, orgEdits, jobFaults, overruns,
                    adopted, skipped, reopened, muted, inOrder>>

directoryVars == <<org, status, team>>
adoptionHistory == <<adopted, skipped, reopened>>
historyVars == <<orgEdits, overruns, adoptionHistory>>

NoId == 0
Given == 1
GivenTeam == 2

AtRest == [job |-> 0, pc |-> "idle", scope |-> NoId, target |-> "org", id |-> NoId, todo |-> {}]

Job(kind, d, scope, t, blocks) ==
  [kind |-> kind, dept |-> d, scope |-> scope, team |-> t, blocks |-> blocks,
   state |-> "pending", delayed |-> FALSE, applied |-> FALSE]

\* create_organization_with_admin: the rows and the job that provisions them.
ProjectionInit ==
  /\ org = [status |-> "provisioning", scope |-> NoId]
  /\ status = [d \in OrgDepartments |-> IF d = FirstDepartment THEN "active" ELSE "none"]
  /\ team = [d \in OrgDepartments |-> NoId]
  /\ proxy = << [of |-> "given", in |-> NoId, blocked |-> FALSE],
                [of |-> "given", in |-> Given, blocked |-> FALSE] >>
  /\ jobs = << Job("provision", FirstDepartment, NoId, NoId, FALSE) >>
  /\ hand = [w \in ProjectionWorkers |-> AtRest]
  /\ orgEdits = 0 /\ jobFaults = 0 /\ overruns = 0
  /\ adopted = FALSE /\ skipped = FALSE /\ reopened = FALSE /\ muted = {} /\ inOrder = TRUE

Unmapped == {d \in OrgDepartments : status[d] = "active" /\ team[d] = NoId}

-----------------------------------------------------------------------------
(* Edits: the row and its job in one transaction *)

Edits == orgEdits < MaxOrgEdits /\ orgEdits' = orgEdits + 1

QueueOrgSync(new) ==
  jobs' = IF org.scope = NoId THEN jobs
          ELSE Append(jobs, Job("org", FirstDepartment, org.scope, NoId, new = "archived"))

SetOrgStatus(new) ==
  /\ Edits /\ org' = [org EXCEPT !.status = new] /\ QueueOrgSync(new)
  /\ reopened' = (reopened /\ org.scope # Given)
  /\ UNCHANGED <<status, team, proxy, hand, jobFaults, overruns, adopted, muted, inOrder>>

UpdateOrganization == SetOrgStatus(org.status) /\ UNCHANGED skipped

ArchiveOrganization == SetOrgStatus("archived") /\ UNCHANGED skipped

RestoreOrganization ==
  /\ org.status = "archived" /\ SetOrgStatus("active")
  /\ skipped' = (skipped \/ Unmapped # {})

\* The insert and the update of the organization's mapping exclude each other.
CreateDepartment(d) ==
  /\ org.status # "archived" /\ status[d] = "none" /\ Edits
  /\ status' = [status EXCEPT ![d] = "active"]
  /\ jobs' = IF org.scope = NoId THEN jobs
             ELSE Append(jobs, Job("dept", d, org.scope, NoId, FALSE))
  /\ UNCHANGED <<org, team, proxy, hand, jobFaults, overruns, adoptionHistory, muted, inOrder>>

SetDepartment(d, new) ==
  /\ status[d] # "none" /\ Edits
  /\ status' = [status EXCEPT ![d] = new]
  /\ jobs' = IF team[d] = NoId THEN jobs
             ELSE Append(jobs, Job("dept", d, org.scope, team[d], new = "archived"))
  /\ UNCHANGED <<org, team, proxy, hand, jobFaults, overruns, adoptionHistory, muted, inOrder>>

UpdateDepartment(d) == SetDepartment(d, status[d])

ArchiveDepartment(d) == SetDepartment(d, "archived")

\* A mapping that is there is kept.  The pending provisioning is marked sent, also
\* one that a worker is running.  An operation applied twice, or one for a scope
\* that is mapped already, comes here again and finds the same department; the
\* organization becomes active, whatever it was, and no sync is queued.
AdoptExistingUpstreamScope(d) ==
  /\ org.scope \in {NoId, Given} /\ team[d] \in {NoId, GivenTeam} /\ status[d] # "none"
  /\ adopted => team[d] = GivenTeam
  /\ adopted' = TRUE
  /\ org' = [status |-> "active", scope |-> Given]
  /\ team' = [team EXCEPT ![d] = GivenTeam]
  /\ jobs' = [j \in DOMAIN jobs |->
                IF jobs[j].kind = "provision" /\ jobs[j].state \in {"pending", "processing"}
                THEN [jobs[j] EXCEPT !.state = "sent"] ELSE jobs[j]]
  /\ skipped' = (skipped \/ Unmapped \ {d} # {})
  /\ reopened' = (reopened \/ org = [status |-> "archived", scope |-> Given])
  /\ UNCHANGED <<status, proxy, hand, orgEdits, jobFaults, overruns, muted, inOrder>>

-----------------------------------------------------------------------------
(* Workers *)

MayFault == jobFaults + overruns < MaxJobFaults

ClaimsOldest(w, j) ==
  /\ hand[w].pc = "idle" /\ hand' = [hand EXCEPT ![w] = [AtRest EXCEPT !.job = j, !.pc = "start"]]
  /\ jobs' = [jobs EXCEPT ![j].state = "processing", ![j].delayed = FALSE]
  /\ UNCHANGED <<directoryVars, proxy, orgEdits, jobFaults, adoptionHistory, muted, inOrder>>

\* A job that waits for its next attempt lets the younger ones pass.
ClaimJob(w) == \E j \in DOMAIN jobs :
  /\ jobs[j].state = "pending"
  /\ \A k \in 1..(j - 1) : jobs[k].state = "pending" => jobs[k].delayed
  /\ ClaimsOldest(w, j) /\ UNCHANGED overruns

\* The lease has run out under a worker that is still at the job.
ClaimOverrun(w) == \E j \in DOMAIN jobs :
  /\ MayFault /\ overruns' = overruns + 1
  /\ jobs[j].state = "processing" /\ ClaimsOldest(w, j)

Busy(w, pc) == hand[w].pc = pc

Ends(w, j, state, delayed) ==
  /\ hand' = [hand EXCEPT ![w] = AtRest]
  /\ jobs' = [jobs EXCEPT ![j].state = state, ![j].delayed = delayed]

\* A call fails: the job is tried again after a delay, unless the error has no text;
\* then it is recorded as sent.
JobFails(w) ==
  /\ hand[w].pc # "idle" /\ MayFault /\ jobFaults' = jobFaults + 1
  /\ \/ Ends(w, hand[w].job, "pending", TRUE) /\ UNCHANGED muted
     \/ Ends(w, hand[w].job, "sent", FALSE) /\ muted' = muted \cup {hand[w].job}
  /\ UNCHANGED <<directoryVars, proxy, historyVars, inOrder>>

\* The handler refuses, time and again: this may have been the last attempt.
Refuses(w) ==
  /\ \E state \in {"pending", "failed"} : Ends(w, hand[w].job, state, state = "pending")
  /\ UNCHANGED <<directoryVars, proxy, historyVars, jobFaults, muted, inOrder>>

WorkerDies(w) ==
  /\ hand[w].pc # "idle" /\ MayFault /\ jobFaults' = jobFaults + 1
  /\ Ends(w, hand[w].job, "pending", FALSE)
  /\ UNCHANGED <<directoryVars, proxy, historyVars, muted, inOrder>>

Completes(w) ==
  /\ Busy(w, "done") /\ Ends(w, hand[w].job, "sent", FALSE)
  /\ UNCHANGED <<directoryVars, proxy, historyVars, jobFaults, muted, inOrder>>

Goes(w, step) ==
  /\ hand' = [hand EXCEPT ![w] = step]
  /\ UNCHANGED <<jobs, historyVars, jobFaults, muted>>

-----------------------------------------------------------------------------
(* provision_organization, by its own job or within the job of a department *)

Doing(w) == jobs[hand[w].job]

StartsProvisioning(w) ==
  /\ Busy(w, "start")
  /\ \/ Doing(w).kind = "provision"
     \/ Doing(w).kind = "dept" /\ Doing(w).team = NoId /\ team[Doing(w).dept] = NoId

ReadOrganization(w) ==
  /\ StartsProvisioning(w) /\ org.status # "archived"
  /\ Goes(w, [hand[w] EXCEPT !.scope = org.scope,
                             !.pc = IF org.scope = NoId THEN "find" ELSE "departments"])
  /\ UNCHANGED <<directoryVars, proxy, inOrder>>

\* Mutant: the objects of an earlier attempt are not looked for.
FoundNever(target, scope) == {}

\* What an earlier attempt has made carries the local id in its metadata.
Found(target, scope) ==
  {i \in DOMAIN proxy : proxy[i].of = target /\ (target = "org" \/ proxy[i].in = scope)}

FindObject(w) ==
  /\ Busy(w, "find")
  /\ LET found == Found(hand[w].target, hand[w].scope)
     IN IF found = {} THEN Goes(w, [hand[w] EXCEPT !.pc = "create"])
        ELSE \E i \in found : Goes(w, [hand[w] EXCEPT !.pc = "store", !.id = i])
  /\ UNCHANGED <<directoryVars, proxy, inOrder>>

CreateObject(w) ==
  /\ Busy(w, "create")
  /\ proxy' = Append(proxy, [of |-> hand[w].target, in |-> hand[w].scope, blocked |-> FALSE])
  /\ Goes(w, [hand[w] EXCEPT !.pc = "store", !.id = Len(proxy) + 1])
  /\ UNCHANGED <<directoryVars, inOrder>>

\* set_upstream_organization: an archived organization stays as it is.
Mappable == org.status # "archived"

SetUpstreamOrganization(w) ==
  /\ Busy(w, "store") /\ hand[w].target = "org" /\ Mappable
  /\ org' = [org EXCEPT !.scope = hand[w].id]
  /\ Goes(w, [hand[w] EXCEPT !.pc = "departments", !.scope = hand[w].id])
  /\ UNCHANGED <<status, team, proxy, inOrder>>

NextDepartment(todo) ==
  IF todo = {} THEN {[pc |-> "activate", target |-> "org"]}
  ELSE {[pc |-> "find", target |-> d] : d \in todo}

Listed == Unmapped

ListDepartments(w) ==
  /\ Busy(w, "departments")
  /\ \E next \in NextDepartment(Listed) :
       Goes(w, [hand[w] EXCEPT !.todo = Listed, !.pc = next.pc, !.target = next.target])
  /\ UNCHANGED <<directoryVars, proxy, inOrder>>

SetUpstreamTeam(w) ==
  /\ Busy(w, "store") /\ hand[w].target # "org"
  /\ team' = [team EXCEPT ![hand[w].target] = hand[w].id]
  /\ LET rest == hand[w].todo \ {hand[w].target}
     IN \E next \in NextDepartment(rest) :
          Goes(w, [hand[w] EXCEPT !.todo = rest, !.pc = next.pc, !.target = next.target])
  /\ UNCHANGED <<org, status, proxy, inOrder>>

\* Active only now, when every department listed has its team.
Activate(w) ==
  /\ Busy(w, "activate") /\ Mappable
  /\ org' = [status |-> "active", scope |-> hand[w].scope]
  /\ Goes(w, [hand[w] EXCEPT !.pc = IF Doing(w).kind = "dept" THEN "provisioned" ELSE "done"])
  /\ UNCHANGED <<status, team, proxy, inOrder>>

RefusedAsArchived(w) ==
  /\ \/ StartsProvisioning(w)
     \/ Busy(w, "activate")
     \/ Busy(w, "store") /\ hand[w].target = "org"
  /\ org.status = "archived" /\ Refuses(w)

-----------------------------------------------------------------------------
(* sync_organization and sync_department *)

SameRow(j, k) == jobs[j].kind = jobs[k].kind /\ jobs[j].dept = jobs[k].dept
Overtaken(j) == \E k \in (j + 1)..Len(jobs) : SameRow(j, k) /\ jobs[k].applied

Applies(w, i) ==
  LET j == hand[w].job
  IN /\ proxy' = [proxy EXCEPT ![i].blocked = jobs[j].blocks,
                               ![i].in = IF jobs[j].kind = "org" THEN @ ELSE jobs[j].scope]
     /\ jobs' = [jobs EXCEPT ![j].applied = TRUE]
     /\ inOrder' = (inOrder /\ ~Overtaken(j))
     /\ hand' = [hand EXCEPT ![w].pc = "done"]
     /\ UNCHANGED <<directoryVars, historyVars, jobFaults, muted>>

SyncOrganization(w) ==
  Busy(w, "start") /\ Doing(w).kind = "org" /\ Applies(w, Doing(w).scope)

\* The team of the payload, or the one the row has by now.
TeamOf(w) == IF Doing(w).team # NoId THEN Doing(w).team ELSE team[Doing(w).dept]

SyncDepartment(w) ==
  /\ hand[w].pc \in {"start", "provisioned"} /\ Doing(w).kind = "dept"
  /\ TeamOf(w) # NoId /\ Applies(w, TeamOf(w))

\* An archived department is not provisioned: its first job never succeeds.
NotProvisioned(w) ==
  /\ Busy(w, "provisioned") /\ TeamOf(w) = NoId /\ Refuses(w)

ProjectionNext ==
  \/ UpdateOrganization \/ ArchiveOrganization \/ RestoreOrganization
  \/ \E d \in OrgDepartments :
       CreateDepartment(d) \/ UpdateDepartment(d) \/ ArchiveDepartment(d)
         \/ AdoptExistingUpstreamScope(d)
  \/ \E w \in ProjectionWorkers :
       \/ ClaimJob(w) \/ ClaimOverrun(w) \/ JobFails(w) \/ WorkerDies(w) \/ Completes(w)
       \/ ReadOrganization(w) \/ FindObject(w) \/ CreateObject(w) \/ SetUpstreamOrganization(w)
       \/ ListDepartments(w) \/ SetUpstreamTeam(w) \/ Activate(w) \/ RefusedAsArchived(w)
       \/ SyncOrganization(w) \/ SyncDepartment(w) \/ NotProvisioned(w)

ProjectionSpec == ProjectionInit /\ [][ProjectionNext]_projectionVars

-----------------------------------------------------------------------------
ProjectionTypeOK ==
  /\ org \in [status : {"provisioning", "active", "archived"}, scope : 0..Len(proxy)]
  /\ status \in [OrgDepartments -> {"none", "active", "archived"}]
  /\ team \in [OrgDepartments -> 0..Len(proxy)]
  /\ \A i \in DOMAIN proxy :
       proxy[i] \in [of : OrgDepartments \cup {"org", "given"}, in : 0..Len(proxy), blocked : BOOLEAN]
  /\ \A j \in DOMAIN jobs :
       jobs[j] \in [kind : {"provision", "org", "dept"}, dept : OrgDepartments,
                    scope : 0..Len(proxy), team : 0..Len(proxy), blocks : BOOLEAN,
                    state : {"pending", "processing", "sent", "failed"},
                    delayed : BOOLEAN, applied : BOOLEAN]
  /\ \A w \in ProjectionWorkers : hand[w].job \in 0..Len(jobs)
  /\ muted \subseteq 1..Len(jobs)

AllSent == \A j \in DOMAIN jobs : jobs[j].state = "sent"
Quiet == AllSent /\ \A w \in ProjectionWorkers : hand[w].pc = "idle"

ScopeAgrees == org.scope # NoId => proxy[org.scope].blocked = (org.status = "archived")

\* A department archived before its team was stored has queued no job.
Announced(d) == \E j \in DOMAIN jobs :
  jobs[j].kind = "dept" /\ jobs[j].dept = d /\ jobs[j].team = team[d] /\ jobs[j].blocks

TeamAgrees(d) ==
  team[d] # NoId /\ (status[d] = "archived" => Announced(d))
    => proxy[team[d]].blocked = (status[d] = "archived")

\* A job of the row, or one for a department in ds, was recorded as sent in failure.
OrgMuted == \E j \in muted : jobs[j].kind = "org"
DeptMuted(ds) == \E j \in muted : jobs[j].kind = "dept" /\ jobs[j].dept \in ds

(***************************************************************************)
(* What an administrator does to the rows is in the end what the proxy     *)
(* enforces, if no sync was applied after a newer one, none of the row was *)
(* recorded as sent in failure, and no adoption opened it again without a  *)
(* sync; a department of an active organization that has no team still has *)
(* a job that is not done, or one recorded as sent in failure, or was left *)
(* out when the organization became active in another way; and however     *)
(* often provisioning fails, dies or loses an answer, it makes one         *)
(* upstream organization, unless two workers ran it at once.               *)
(***************************************************************************)
AgreesInOrder ==
  Quiet /\ inOrder =>
    /\ ScopeAgrees \/ OrgMuted \/ (reopened /\ org.scope = Given)
    /\ \A d \in OrgDepartments : TeamAgrees(d) \/ DeptMuted({d})
NoneForgotten ==
  org.status = "active" /\ Unmapped # {} =>
    ~AllSent \/ skipped \/ 1 \in muted \/ DeptMuted(Unmapped)
MadeOnce == overruns = 0 => Cardinality({i \in DOMAIN proxy : proxy[i].of = "org"}) <= 1

ProjectionIsSound == AgreesInOrder /\ NoneForgotten /\ MadeOnce

(***************************************************************************)
(* What update_organization's comment promises: the projection converges,  *)
(* and an outage of the proxy leaves no silent drift.                      *)
(***************************************************************************)
ProjectionConverges == Quiet /\ muted = {} /\ ~reopened => ScopeAgrees
=============================================================================

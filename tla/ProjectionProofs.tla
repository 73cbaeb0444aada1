---------------------------- MODULE ProjectionProofs ----------------------------
(***************************************************************************)
(* What is proved of the projection of the directory to the proxy          *)
(* (TenantProjection), for any departments, workers, edits and faults.     *)
(*                                                                         *)
(* The invariant follows the jobs in their order: what a job was queued    *)
(* with is an object of the proxy that stands for its row; the last job of *)
(* an organization carries its present status, and all jobs of an archived *)
(* department block; and as long as no sync was applied after a newer one, *)
(* the proxy shows what the last applied one carried.                      *)
(***************************************************************************)
EXTENDS TenantProjection, Integers, FiniteSetTheorems, SequenceTheorems, TLAPS

ProxyRows == [of : OrgDepartments \union {"org", "given"}, in : Nat, blocked : BOOLEAN]
JobRows == [kind : {"provision", "org", "dept"}, dept : OrgDepartments, scope : Nat, team : Nat,
            blocks : BOOLEAN, state : {"pending", "processing", "sent", "failed"},
            delayed : BOOLEAN, applied : BOOLEAN]
HandSteps ==
  {"idle", "start", "find", "create", "store", "departments", "activate", "provisioned", "done"}
HandStates == [job : Nat, pc : HandSteps, scope : Nat, target : OrgDepartments \union {"org"},
               id : Nat, todo : SUBSET OrgDepartments]

ProjectionTyped ==
  /\ org \in [status : {"provisioning", "active", "archived"}, scope : Nat]
  /\ status \in [OrgDepartments -> {"none", "active", "archived"}]
  /\ team \in [OrgDepartments -> Nat]
  /\ proxy \in Seq(ProxyRows) /\ jobs \in Seq(JobRows)
  /\ hand \in [ProjectionWorkers -> HandStates]
  /\ orgEdits \in Nat /\ jobFaults \in Nat /\ overruns \in Nat
  /\ adopted \in BOOLEAN /\ skipped \in BOOLEAN /\ reopened \in BOOLEAN /\ inOrder \in BOOLEAN
  /\ muted \subseteq 1..Len(jobs)

\* What an upstream object stands for.
IsScope(x) == x \in 1..Len(proxy) /\ (x = Given \/ proxy[x].of = "org")
IsTeam(x, d) == x \in 1..Len(proxy) /\ (x = GivenTeam \/ proxy[x].of = d)

HasGiven(d) ==
  \/ team[d] = GivenTeam
  \/ \E j \in 1..Len(jobs) : jobs[j].kind = "dept" /\ jobs[j].dept = d /\ jobs[j].team = GivenTeam

\* The first job provisions; all later ones are of rows that are mapped.
RowsHold ==
  /\ Len(proxy) >= 2 /\ proxy[Given].of = "given" /\ proxy[GivenTeam].of = "given"
  /\ \A i \in 1..Len(proxy) : proxy[i].in <= Len(proxy)
  /\ org.scope # NoId => IsScope(org.scope)
  /\ org.scope = Given => adopted
  /\ \A d \in OrgDepartments : team[d] # NoId => IsTeam(team[d], d) /\ org.scope # NoId
  /\ \A d, e \in OrgDepartments : HasGiven(d) /\ HasGiven(e) => d = e
  /\ \A d \in OrgDepartments : HasGiven(d) => adopted
  /\ Len(jobs) >= 1 /\ jobs[1].kind = "provision" /\ jobs[1].scope = NoId /\ jobs[1].team = NoId
  /\ Len(jobs) > 1 => org.scope # NoId

SyncHolds(j) ==
  /\ IsScope(jobs[j].scope) /\ jobs[j].kind \in {"org", "dept"}
  /\ jobs[j].kind = "org" => jobs[j].dept = FirstDepartment /\ jobs[j].team = NoId
  /\ jobs[j].kind = "dept" /\ jobs[j].team # NoId =>
       team[jobs[j].dept] # NoId /\ IsTeam(jobs[j].team, jobs[j].dept)
  /\ jobs[j].kind = "dept" /\ jobs[j].blocks =>
       jobs[j].team # NoId /\ status[jobs[j].dept] = "archived"
  /\ jobs[j].state = "sent" => jobs[j].applied \/ j \in muted

\* What a worker has read or made is what its next step takes it for.
HandHolds(w) ==
  /\ hand[w].pc = "idle" => hand[w].job = 0
  /\ hand[w].pc # "idle" => hand[w].job \in 1..Len(jobs)
  /\ hand[w].pc = "start" => hand[w].target = "org" /\ hand[w].scope = NoId
  /\ hand[w].pc \in {"find", "create", "store"} /\ hand[w].target = "org" =>
       hand[w].job = 1 /\ hand[w].scope = NoId
  /\ hand[w].pc \in {"find", "create", "store"} /\ hand[w].target # "org" =>
       hand[w].target \in hand[w].todo
  /\ \/ hand[w].pc \in {"find", "create", "store"} /\ hand[w].target # "org"
     \/ hand[w].pc \in {"departments", "activate"}
     => IsScope(hand[w].scope) /\ org.scope # NoId
  /\ hand[w].pc = "store" =>
       hand[w].id \in 1..Len(proxy) /\ proxy[hand[w].id].of = hand[w].target
  /\ hand[w].pc \in {"find", "create", "store", "departments", "activate"} =>
       jobs[hand[w].job].kind \in {"provision", "dept"}
  /\ hand[w].pc = "provisioned" => jobs[hand[w].job].kind = "dept"
  /\ hand[w].pc = "done" => org.scope # NoId
  /\ hand[w].pc = "done" /\ jobs[hand[w].job].kind # "provision" => jobs[hand[w].job].applied
  /\ hand[w].pc = "done" /\ jobs[hand[w].job].kind = "dept" => team[jobs[hand[w].job].dept] # NoId
  /\ hand[w].scope \in 0..Len(proxy)
  /\ hand[w].scope = Given => adopted

\* The departments without a team that no job of their own will find, or would
\* have found if its failed run had not been recorded as sent.
HasJob(d) ==
  \E j \in 1..Len(jobs) :
    jobs[j].kind = "dept" /\ jobs[j].dept = d /\ (jobs[j].state # "sent" \/ j \in muted)
Left == {d \in OrgDepartments : status[d] = "active" /\ team[d] = NoId /\ ~HasJob(d)}

\* They are left to provisioning, which is not done, or will have found them;
\* or it failed once and is recorded as sent.
NoneLeft ==
  /\ skipped \/ 1 \in muted \/ Left = {} \/ jobs[1].state # "sent"
  /\ org.scope = NoId => jobs[1].state # "sent" \/ 1 \in muted
  /\ \A w \in ProjectionWorkers :
       hand[w].job = 1 =>
         /\ hand[w].pc \in {"activate", "done"} => skipped \/ Left = {}
         /\ hand[w].pc \in {"find", "create", "store"} /\ hand[w].target # "org" =>
              skipped \/ Left \subseteq hand[w].todo

\* Unless a job outlasted its lease, it is run by one worker at a time.
OneAtATime ==
  overruns = 0 =>
    /\ \A v, w \in ProjectionWorkers :
         hand[v].job = hand[w].job /\ hand[v].pc # "idle" /\ hand[w].pc # "idle" => v = w
    /\ \A w \in ProjectionWorkers :
         hand[w].pc # "idle" => jobs[hand[w].job].state \in {"processing", "sent"}
    /\ \A w \in ProjectionWorkers :
         hand[w].pc = "create" /\ hand[w].target = "org" =>
           \A i \in 1..Len(proxy) : proxy[i].of # "org"
    /\ \A i, k \in 1..Len(proxy) : proxy[i].of = "org" /\ proxy[k].of = "org" => i = k

\* The syncs of an organization: those of one upstream organization, the one
\* queued last, the one applied last.  Only an adoption opens one without a sync.
OrgSync(j, x) == jobs[j].kind = "org" /\ jobs[j].scope = x
LastOf(j, x) == OrgSync(j, x) /\ \A k \in 1..Len(jobs) : OrgSync(k, x) => k <= j
Closed(x) == org.status = "archived" /\ org.scope = x

OrgQueue ==
  \A x \in 1..Len(proxy) :
    \/ ~Closed(x) /\ \A j \in 1..Len(jobs) : ~OrgSync(j, x)
    \/ x = Given /\ reopened
    \/ \E j \in 1..Len(jobs) : LastOf(j, x) /\ jobs[j].blocks = Closed(x)

OrgApplied ==
  /\ \A x \in 1..Len(proxy) :
       IsScope(x) /\ proxy[x].blocked => \E j \in 1..Len(jobs) : OrgSync(j, x)
  /\ inOrder =>
       \A j \in 1..Len(jobs) :
         /\ jobs[j].kind = "org" /\ jobs[j].applied
         /\ \A k \in 1..Len(jobs) : OrgSync(k, jobs[j].scope) /\ jobs[k].applied => k <= j
         => proxy[jobs[j].scope].blocked = jobs[j].blocks

\* The syncs of a department: once it is archived, all of them block.
Blocking(j) == jobs[j].kind = "dept" /\ jobs[j].blocks

TeamQueue ==
  \A j, k \in 1..Len(jobs) :
    Blocking(j) /\ j <= k /\ jobs[k].kind = "dept" /\ jobs[k].dept = jobs[j].dept => jobs[k].blocks

TeamApplied ==
  /\ \A x \in 1..Len(proxy) :
       ~IsScope(x) /\ proxy[x].blocked =>
         \E j \in 1..Len(jobs) : Blocking(j) /\ jobs[j].team = x
  /\ inOrder => \A j \in 1..Len(jobs) : Blocking(j) /\ jobs[j].applied => proxy[jobs[j].team].blocked

ProjectionInv ==
  /\ ProjectionTyped /\ RowsHold /\ (\A j \in 2..Len(jobs) : SyncHolds(j))
  /\ (\A w \in ProjectionWorkers : HandHolds(w))
  /\ NoneLeft /\ OneAtATime /\ OrgQueue /\ OrgApplied /\ TeamQueue /\ TeamApplied

LEMMA RowAppended ==
    ASSUME NEW S, NEW s \in Seq(S), NEW e \in S
    PROVE  /\ Append(s, e) \in Seq(S) /\ Len(Append(s, e)) = Len(s) + 1
           /\ \A i \in 1..Len(s) : Append(s, e)[i] = s[i]
           /\ Append(s, e)[Len(s) + 1] = e
  OBVIOUS

LEMMA RowChanged ==
    ASSUME NEW S, NEW s \in Seq(S), NEW i \in 1..Len(s), NEW e \in S
    PROVE  /\ [s EXCEPT ![i] = e] \in Seq(S) /\ Len([s EXCEPT ![i] = e]) = Len(s)
           /\ \A k \in 1..Len(s) : [s EXCEPT ![i] = e][k] = IF k = i THEN e ELSE s[k]
  OBVIOUS

LEMMA ProjectionStart == ProjectionInit => ProjectionInv
<1> SUFFICES ASSUME ProjectionInit PROVE ProjectionInv
  OBVIOUS
<1>1. /\ Len(jobs) = 1 /\ jobs[1] = Job("provision", FirstDepartment, NoId, NoId, FALSE)
      /\ Len(proxy) = 2 /\ proxy[1] = [of |-> "given", in |-> NoId, blocked |-> FALSE]
      /\ proxy[2] = [of |-> "given", in |-> Given, blocked |-> FALSE]
  BY DEF ProjectionInit
<1>2. jobs[1] \in JobRows /\ proxy[1] \in ProxyRows /\ proxy[2] \in ProxyRows
  BY <1>1, ProjectionAssumption DEF JobRows, Job, ProxyRows, NoId, Given
<1>3. jobs \in Seq(JobRows) /\ proxy \in Seq(ProxyRows)
  <2>1. ASSUME NEW S, NEW a \in S, NEW b \in S PROVE <<a>> \in Seq(S) /\ <<a, b>> \in Seq(S)
    OBVIOUS
  <2>2. jobs = <<jobs[1]>> /\ proxy = <<proxy[1], proxy[2]>>
    BY <1>1 DEF ProjectionInit
  <2> HIDE DEF JobRows, ProxyRows
  <2> QED BY <2>1, <2>2, <1>2
<1>4. AtRest \in HandStates
  BY DEF AtRest, HandStates, HandSteps, NoId
<1>5. ProjectionTyped
  BY <1>3, <1>4 DEF ProjectionTyped, ProjectionInit, NoId
<1>6. RowsHold
  BY <1>1, ProjectionAssumption DEF RowsHold, ProjectionInit, HasGiven, Job, NoId, Given, GivenTeam
<1>7. \A w \in ProjectionWorkers : HandHolds(w)
  BY <1>1 DEF HandHolds, ProjectionInit, AtRest, NoId, Given
<1>8. NoneLeft
  BY <1>1 DEF NoneLeft, ProjectionInit, AtRest, Job
<1>9. OneAtATime
  BY <1>1 DEF OneAtATime, ProjectionInit, AtRest
<1>10. OrgQueue /\ OrgApplied /\ TeamQueue /\ TeamApplied
  BY <1>1 DEF OrgQueue, OrgApplied, TeamQueue, TeamApplied, ProjectionInit, OrgSync, Closed, Blocking,
     Job, NoId, IsScope
<1> QED BY <1>1, <1>5, <1>6, <1>7, <1>8, <1>9, <1>10 DEF ProjectionInv

-----------------------------------------------------------------------------
\* What no step takes back.
JobSame(j) ==
  /\ jobs'[j].kind = jobs[j].kind /\ jobs'[j].dept = jobs[j].dept
  /\ jobs'[j].scope = jobs[j].scope /\ jobs'[j].team = jobs[j].team
  /\ jobs'[j].blocks = jobs[j].blocks

ObjectsStay ==
  Len(proxy) <= Len(proxy') /\ \A i \in 1..Len(proxy) : proxy'[i].of = proxy[i].of

Onward ==
  /\ ObjectsStay
  /\ Len(jobs) <= Len(jobs')
  /\ \A j \in 1..Len(jobs) : JobSame(j) /\ (jobs[j].applied => jobs'[j].applied)
  /\ org.scope # NoId => org'.scope # NoId
  /\ \A d \in OrgDepartments :
       /\ team[d] # NoId => team'[d] # NoId
       /\ status[d] = "archived" => status'[d] = "archived"
  /\ adopted => adopted'

LEMMA LensAreNats ==
    ASSUME ProjectionTyped PROVE Len(jobs) \in Nat /\ Len(proxy) \in Nat
  BY DEF ProjectionTyped

LEMMA ScopesStay ==
    ASSUME ProjectionTyped, ProjectionTyped', ObjectsStay
    PROVE  /\ \A x : IsScope(x) => IsScope(x)'
           /\ \A x, d : IsTeam(x, d) => IsTeam(x, d)'
<1>1. Len(proxy) \in Nat /\ Len(proxy') \in Nat
  BY DEF ProjectionTyped
<1> QED BY <1>1 DEF ObjectsStay, IsScope, IsTeam

LEMMA HandStays ==
    ASSUME ProjectionTyped, ProjectionTyped', Onward,
           NEW w \in ProjectionWorkers, HandHolds(w), hand'[w] = hand[w]
    PROVE  HandHolds(w)'
<1>1. Len(proxy) \in Nat /\ Len(proxy') \in Nat /\ Len(jobs) \in Nat /\ Len(jobs') \in Nat
  BY DEF ProjectionTyped
<1>2. PICK h \in HandStates : h = hand[w]
  BY DEF ProjectionTyped
<1>3. h.job \in Nat /\ h.scope \in Nat /\ h.id \in Nat
  BY <1>2 DEF HandStates
<1>4. h.pc # "idle" => h.job \in 1..Len(jobs) /\ JobSame(h.job) /\ h.job \in 1..Len(jobs')
        /\ (jobs[h.job].applied => jobs'[h.job].applied) /\ jobs[h.job].dept \in OrgDepartments
  <2>1. h.pc # "idle" => h.job \in 1..Len(jobs)
    BY <1>2 DEF HandHolds
  <2>2. \A j \in 1..Len(jobs) : jobs[j] \in JobRows
    BY DEF ProjectionTyped
  <2> QED BY <2>1, <2>2, <1>1, <1>3 DEF Onward, JobRows
<1>5. IsScope(h.scope) => IsScope(h.scope)'
  BY ScopesStay DEF Onward
<1>6. h.pc = "store" => h.id \in 1..Len(proxy') /\ proxy'[h.id].of = h.target
  BY <1>1, <1>2 DEF HandHolds, Onward, ObjectsStay
<1>7. h.scope \in 0..Len(proxy')
  BY <1>1, <1>2 DEF HandHolds, Onward, ObjectsStay
<1>8. /\ h.pc = "done" /\ jobs'[h.job].kind # "provision" => jobs'[h.job].applied
      /\ h.pc = "done" /\ jobs'[h.job].kind = "dept" => team'[jobs'[h.job].dept] # NoId
      /\ h.pc \in {"find", "create", "store", "departments", "activate"} =>
           jobs'[h.job].kind \in {"provision", "dept"}
      /\ h.pc = "provisioned" => jobs'[h.job].kind = "dept"
  BY <1>2, <1>4 DEF HandHolds, JobSame, Onward
<1>9. /\ \/ h.pc \in {"find", "create", "store"} /\ h.target # "org"
         \/ h.pc \in {"departments", "activate"}
         => IsScope(h.scope)' /\ org'.scope # NoId
      /\ h.pc = "done" => org'.scope # NoId
      /\ h.scope = Given => adopted'
  BY <1>2, <1>5 DEF HandHolds, Onward
<1> QED BY <1>2, <1>4, <1>6, <1>7, <1>8, <1>9 DEF HandHolds

LEMMA JobStays ==
    ASSUME ProjectionTyped, ProjectionTyped', Onward,
           NEW j \in 2..Len(jobs), SyncHolds(j),
           jobs'[j].state = "sent" => jobs'[j].applied \/ j \in muted'
    PROVE  SyncHolds(j)'
<1>1. j \in 1..Len(jobs) /\ jobs[j] \in JobRows
  BY DEF ProjectionTyped
<1>2. JobSame(j) /\ jobs[j].dept \in OrgDepartments
  BY <1>1 DEF Onward, JobRows
<1>3. PICK x : x = jobs[j].scope
  OBVIOUS
<1>4. PICK t, d : t = jobs[j].team /\ d = jobs[j].dept
  OBVIOUS
<1>5. (IsScope(x) => IsScope(x)') /\ (IsTeam(t, d) => IsTeam(t, d)')
  BY ScopesStay DEF Onward
<1> QED BY <1>2, <1>3, <1>4, <1>5 DEF SyncHolds, JobSame, Onward

\* Where only the states of jobs change, what is queued and applied stays.
LEMMA QueueStays ==
    ASSUME ProjectionTyped, ProjectionTyped', OrgQueue, OrgApplied, TeamQueue, TeamApplied,
           Len(jobs') = Len(jobs),
           \A j \in 1..Len(jobs) : JobSame(j) /\ jobs'[j].applied = jobs[j].applied,
           UNCHANGED <<org, proxy, reopened, inOrder>>
    PROVE  OrgQueue' /\ OrgApplied' /\ TeamQueue' /\ TeamApplied'
<1>0. Len(proxy') = Len(proxy)
  OBVIOUS
<1>1. OrgQueue'
  <2>1. \A j \in 1..Len(jobs) : \A x : OrgSync(j, x)' <=> OrgSync(j, x)
    BY DEF OrgSync, JobSame
  <2>2. \A j \in 1..Len(jobs) : \A x : LastOf(j, x)' <=> LastOf(j, x)
    BY <1>0, <2>1 DEF LastOf
  <2>3. \A x : Closed(x)' = Closed(x)
    BY DEF Closed
  <2>4. \A j \in 1..Len(jobs) : jobs'[j].blocks = jobs[j].blocks
    BY DEF JobSame
  <2> QED BY <1>0, <2>1, <2>2, <2>3, <2>4 DEF OrgQueue
<1>2. OrgApplied'
  BY <1>0 DEF OrgApplied, OrgSync, IsScope, JobSame
<1>3. TeamQueue'
  BY DEF TeamQueue, Blocking, JobSame
<1>4. TeamApplied'
  <2>1. \A j \in 1..Len(jobs) : (Blocking(j)' <=> Blocking(j)) /\ jobs'[j].team = jobs[j].team
    BY DEF Blocking, JobSame
  <2>2. \A x : IsScope(x)' <=> IsScope(x)
    BY DEF IsScope
  <2> QED BY <1>0, <2>1, <2>2 DEF TeamApplied
<1> QED BY <1>1, <1>2, <1>3, <1>4

LEMMA RowsStay ==
    ASSUME ProjectionTyped, ProjectionTyped', RowsHold,
           Len(jobs') = Len(jobs), \A j \in 1..Len(jobs) : JobSame(j),
           UNCHANGED <<org, team, adopted, proxy>>
    PROVE  RowsHold'
<1>1. Len(jobs) \in Nat /\ Len(jobs) >= 1
  BY DEF RowsHold, ProjectionTyped
<1>2. \A d : HasGiven(d)' <=> HasGiven(d)
  BY DEF HasGiven, JobSame
<1>3. \A x : IsScope(x)' <=> IsScope(x)
  BY DEF IsScope
<1>4. \A x, d : IsTeam(x, d)' <=> IsTeam(x, d)
  BY DEF IsTeam
<1>5. JobSame(1)
  BY <1>1
<1> QED BY <1>1, <1>2, <1>3, <1>4, <1>5 DEF RowsHold, JobSame

-----------------------------------------------------------------------------
SyncStates == {"pending", "processing", "sent", "failed"}

LEMMA JobMarked ==
    ASSUME ProjectionTyped, NEW j \in 1..Len(jobs), NEW s \in SyncStates, NEW b \in BOOLEAN,
           jobs' = [jobs EXCEPT ![j].state = s, ![j].delayed = b]
    PROVE  /\ jobs' \in Seq(JobRows) /\ Len(jobs') = Len(jobs)
           /\ \A k \in 1..Len(jobs) :
                JobSame(k) /\ jobs'[k].applied = jobs[k].applied
                  /\ jobs'[k].state = IF k = j THEN s ELSE jobs[k].state
<1>1. jobs \in Seq(JobRows) /\ jobs[j] \in JobRows
  BY DEF ProjectionTyped
<1>2. PICK q : q = [jobs[j] EXCEPT !.state = s, !.delayed = b]
  OBVIOUS
<1>3. q \in JobRows /\ q.state = s /\ q.kind = jobs[j].kind /\ q.dept = jobs[j].dept
      /\ q.scope = jobs[j].scope /\ q.team = jobs[j].team /\ q.blocks = jobs[j].blocks
      /\ q.applied = jobs[j].applied
  BY <1>1, <1>2 DEF JobRows, SyncStates
<1>4. jobs' = [jobs EXCEPT ![j] = q]
  BY <1>1, <1>2
<1>5. /\ jobs' \in Seq(JobRows) /\ Len(jobs') = Len(jobs)
      /\ \A k \in 1..Len(jobs) : jobs'[k] = IF k = j THEN q ELSE jobs[k]
  BY <1>1, <1>3, <1>4, RowChanged, SMTT(30)
<1> QED BY <1>3, <1>5 DEF JobSame

LEMMA HandMoves ==
    ASSUME ProjectionTyped, NEW w \in ProjectionWorkers, NEW h \in HandStates,
           hand' = [hand EXCEPT ![w] = h]
    PROVE  /\ hand' \in [ProjectionWorkers -> HandStates]
           /\ hand'[w] = h /\ \A v \in ProjectionWorkers : v # w => hand'[v] = hand[v]
  BY DEF ProjectionTyped

LEMMA RestIsState == AtRest \in HandStates /\ AtRest.pc = "idle" /\ AtRest.job = 0
                     /\ AtRest.scope = 0 /\ AtRest.target = "org" /\ AtRest.id = 0 /\ AtRest.todo = {}
  BY DEF AtRest, HandStates, HandSteps, NoId

\* A step of a worker that only marks its job.
OneMarkStep(w, j, s, h) ==
  /\ jobs' \in Seq(JobRows) /\ Len(jobs') = Len(jobs)
  /\ \A k \in 1..Len(jobs) :
       JobSame(k) /\ jobs'[k].applied = jobs[k].applied
         /\ jobs'[k].state = IF k = j THEN s ELSE jobs[k].state
  /\ hand' \in [ProjectionWorkers -> HandStates]
  /\ hand'[w] = h /\ \A v \in ProjectionWorkers : v # w => hand'[v] = hand[v]
  /\ UNCHANGED <<org, status, team, proxy, adoptionHistory, inOrder, orgEdits>>
  /\ muted' \in {muted, muted \union {j}} /\ jobFaults' \in Nat /\ overruns' \in Nat

LEMMA MarkKeeps ==
    ASSUME ProjectionInv, NEW w \in ProjectionWorkers, NEW j \in 1..Len(jobs), NEW s, NEW h,
           OneMarkStep(w, j, s, h), s = "sent" => jobs[j].applied \/ j = 1 \/ j \in muted',
           HandHolds(w)'
    PROVE  /\ ProjectionTyped' /\ RowsHold' /\ (\A k \in 2..Len(jobs') : SyncHolds(k)')
           /\ (\A v \in ProjectionWorkers : HandHolds(v)')
           /\ OrgQueue' /\ OrgApplied' /\ TeamQueue' /\ TeamApplied'
<1>1. ProjectionTyped /\ ProjectionTyped'
  BY DEF ProjectionInv, ProjectionTyped, OneMarkStep, adoptionHistory
<1>2. Onward
  BY <1>1, LensAreNats DEF Onward, ObjectsStay, OneMarkStep, adoptionHistory
<1>3. RowsHold'
  BY <1>1, RowsStay DEF ProjectionInv, OneMarkStep, adoptionHistory
<1>4. OrgQueue' /\ OrgApplied' /\ TeamQueue' /\ TeamApplied'
  BY <1>1, QueueStays DEF ProjectionInv, OneMarkStep, adoptionHistory
<1>5. ASSUME NEW v \in ProjectionWorkers PROVE HandHolds(v)'
  BY <1>1, <1>2, HandStays DEF ProjectionInv, OneMarkStep
<1>6. ASSUME NEW k \in 2..Len(jobs') PROVE SyncHolds(k)'
  <2>1. k \in 2..Len(jobs) /\ k \in 1..Len(jobs)
    BY <1>1, LensAreNats DEF OneMarkStep
  <2>2. SyncHolds(k)
    BY <2>1 DEF ProjectionInv
  <2>3. jobs'[k].state = "sent" => jobs'[k].applied \/ k \in muted'
    BY <2>1, <2>2, <1>1, LensAreNats DEF OneMarkStep, SyncHolds
  <2> QED BY <1>1, <1>2, <2>1, <2>2, <2>3, JobStays
<1> QED BY <1>1, <1>3, <1>4, <1>5, <1>6

LEMMA ClaimStep ==
    ASSUME ProjectionInv, NEW w \in ProjectionWorkers, NEW j \in DOMAIN jobs, ClaimsOldest(w, j),
           \/ jobs[j].state = "pending" /\ overruns' = overruns
           \/ jobs[j].state = "processing" /\ overruns' = overruns + 1
    PROVE  ProjectionInv'
<1>0. ProjectionTyped /\ j \in 1..Len(jobs)
  BY DEF ProjectionInv, ProjectionTyped
<1>1. PICK h : h = [AtRest EXCEPT !.job = j, !.pc = "start"]
  OBVIOUS
<1>2. h \in HandStates /\ h.job = j /\ h.pc = "start" /\ h.target = "org" /\ h.scope = 0
  <2>1. j \in Nat
    BY <1>0, LensAreNats
  <2> QED BY <1>1, <2>1 DEF HandStates, HandSteps, AtRest, NoId
<1>3. OneMarkStep(w, j, "processing", h)
  <2>1. jobs' = [jobs EXCEPT ![j].state = "processing", ![j].delayed = FALSE]
        /\ hand' = [hand EXCEPT ![w] = h]
    BY <1>1 DEF ClaimsOldest
  <2>2. "processing" \in SyncStates /\ FALSE \in BOOLEAN
    BY DEF SyncStates
  <2>3. jobFaults' \in Nat /\ overruns' \in Nat
    BY <1>0 DEF ClaimsOldest, ProjectionTyped
  <2>4. /\ jobs' \in Seq(JobRows) /\ Len(jobs') = Len(jobs)
        /\ \A k \in 1..Len(jobs) :
             JobSame(k) /\ jobs'[k].applied = jobs[k].applied
               /\ jobs'[k].state = IF k = j THEN "processing" ELSE jobs[k].state
    BY <1>0, <2>1, <2>2, JobMarked
  <2>5. hand' \in [ProjectionWorkers -> HandStates] /\ hand'[w] = h
        /\ \A v \in ProjectionWorkers : v # w => hand'[v] = hand[v]
    BY <1>0, <1>2, <2>1, HandMoves
  <2> QED BY <2>3, <2>4, <2>5 DEF OneMarkStep, ClaimsOldest, directoryVars
<1>4. HandHolds(w)'
  BY <1>0, <1>2, <1>3, LensAreNats DEF HandHolds, OneMarkStep, NoId, Given
<1>5. /\ ProjectionTyped' /\ RowsHold' /\ (\A k \in 2..Len(jobs') : SyncHolds(k)')
      /\ (\A v \in ProjectionWorkers : HandHolds(v)')
      /\ OrgQueue' /\ OrgApplied' /\ TeamQueue' /\ TeamApplied'
  BY <1>0, <1>3, <1>4, MarkKeeps
<1>6. NoneLeft'
  <2>1. \A d : HasJob(d)' <=> HasJob(d)
    <3>1. muted' = muted
      BY DEF ClaimsOldest
    <3> QED BY <3>1, <1>0, <1>3, SMTT(30) DEF HasJob, OneMarkStep, JobSame
  <2>2. Left' = Left
    BY <2>1, <1>3 DEF Left, OneMarkStep
  <2>3. 1 \in 1..Len(jobs)
    BY <1>0, LensAreNats DEF ProjectionInv, RowsHold
  <2>4. jobs'[1].state = "sent" => jobs[1].state = "sent"
    BY <2>3, <1>3 DEF OneMarkStep
  <2>5. muted' = muted /\ skipped' = skipped
    BY DEF ClaimsOldest, adoptionHistory
  <2> QED BY <2>2, <2>4, <2>5, <1>2, <1>3 DEF NoneLeft, OneMarkStep, ProjectionInv
<1>7. OneAtATime'
  <2> SUFFICES ASSUME overruns' = 0 PROVE OneAtATime'
    BY DEF OneAtATime
  <2>1. overruns = 0 /\ jobs[j].state = "pending"
    BY <1>0 DEF ProjectionTyped
  <2>2. \A v \in ProjectionWorkers : hand[v].pc # "idle" => hand[v].job # j
    BY <2>1 DEF ProjectionInv, OneAtATime
  <2>3. \A v \in ProjectionWorkers : hand[v].pc # "idle" => hand[v].job \in 1..Len(jobs)
    BY DEF ProjectionInv, HandHolds
  <2> QED BY <2>1, <2>2, <2>3, <1>2, <1>3, SMTT(30) DEF OneAtATime, OneMarkStep, ProjectionInv
<1> QED BY <1>5, <1>6, <1>7 DEF ProjectionInv

LEMMA EndStep ==
    ASSUME ProjectionInv, NEW w \in ProjectionWorkers, hand[w].pc # "idle",
           NEW s \in SyncStates, NEW b \in BOOLEAN, Ends(w, hand[w].job, s, b),
           s = "sent" => hand[w].pc = "done" \/ hand[w].job \in muted',
           muted' \in {muted, muted \union {hand[w].job}},
           UNCHANGED <<directoryVars, proxy, historyVars, inOrder>>, jobFaults' \in Nat
    PROVE  ProjectionInv'
<1>0. ProjectionTyped
  BY DEF ProjectionInv
<1>1. PICK j : j = hand[w].job
  OBVIOUS
<1>2. j \in 1..Len(jobs) /\ jobs[j] \in JobRows
  BY <1>0, <1>1 DEF ProjectionInv, HandHolds, ProjectionTyped
<1>3. OneMarkStep(w, j, s, AtRest)
  <2>1. jobs' = [jobs EXCEPT ![j].state = s, ![j].delayed = b] /\ hand' = [hand EXCEPT ![w] = AtRest]
    BY <1>1 DEF Ends
  <2>2. overruns' \in Nat
    BY <1>0 DEF historyVars, ProjectionTyped
  <2>3. /\ jobs' \in Seq(JobRows) /\ Len(jobs') = Len(jobs)
        /\ \A k \in 1..Len(jobs) :
             JobSame(k) /\ jobs'[k].applied = jobs[k].applied
               /\ jobs'[k].state = IF k = j THEN s ELSE jobs[k].state
    BY <1>0, <1>2, <2>1, JobMarked
  <2>4. hand' \in [ProjectionWorkers -> HandStates] /\ hand'[w] = AtRest
        /\ \A v \in ProjectionWorkers : v # w => hand'[v] = hand[v]
    BY <1>0, RestIsState, <2>1, HandMoves
  <2> QED BY <1>1, <2>2, <2>3, <2>4 DEF OneMarkStep, directoryVars, historyVars
<1>4. HandHolds(w)'
  BY <1>0, <1>3, RestIsState, LensAreNats DEF HandHolds, OneMarkStep, NoId, Given
<1>5. s = "sent" => \/ j \in muted'
                    \/ /\ jobs[j].kind # "provision" => jobs[j].applied
                       /\ jobs[j].kind = "dept" => team[jobs[j].dept] # NoId
  BY <1>1 DEF ProjectionInv, HandHolds
<1>6. jobs[j].kind = "provision" <=> j = 1
  <2>1. j # 1 => j \in 2..Len(jobs)
    BY <1>0, <1>2, LensAreNats
  <2> QED BY <2>1 DEF ProjectionInv, RowsHold, SyncHolds
<1>7. /\ ProjectionTyped' /\ RowsHold' /\ (\A k \in 2..Len(jobs') : SyncHolds(k)')
      /\ (\A v \in ProjectionWorkers : HandHolds(v)')
      /\ OrgQueue' /\ OrgApplied' /\ TeamQueue' /\ TeamApplied'
  BY <1>0, <1>2, <1>3, <1>4, <1>5, <1>6, MarkKeeps
<1>8. NoneLeft'
  <2>1. ASSUME NEW d \in OrgDepartments, team[d] = NoId, HasJob(d) PROVE HasJob(d)'
    <3>1. PICK k \in 1..Len(jobs) :
            jobs[k].kind = "dept" /\ jobs[k].dept = d /\ (jobs[k].state # "sent" \/ k \in muted)
      BY <2>1 DEF HasJob
    <3>2. jobs'[k].state # "sent" \/ k \in muted'
      BY <1>3, <1>5, <2>1, <3>1 DEF OneMarkStep
    <3> QED BY <1>3, <3>1, <3>2 DEF OneMarkStep, JobSame, HasJob
  <2>2. Left' \subseteq Left
    BY <2>1, <1>3 DEF Left, OneMarkStep
  <2>3. 1 \in 1..Len(jobs)
    BY <1>0, LensAreNats DEF ProjectionInv, RowsHold
  <2>4. skipped \/ 1 \in muted' \/ Left = {} \/ jobs'[1].state # "sent"
    <3>1. CASE j = 1 /\ s = "sent"
      BY <1>1, <3>1 DEF ProjectionInv, NoneLeft
    <3>2. CASE j = 1 /\ s # "sent"
      BY <1>3, <2>3, <3>2 DEF OneMarkStep
    <3>3. CASE j # 1
      BY <1>3, <2>3, <3>3 DEF OneMarkStep, ProjectionInv, NoneLeft
    <3> QED BY <3>1, <3>2, <3>3
  <2>5. org.scope = NoId => jobs'[1].state # "sent" \/ 1 \in muted'
    <3>1. s = "sent" => org.scope # NoId \/ j \in muted'
      BY <1>1 DEF ProjectionInv, HandHolds
    <3> QED BY <3>1, <1>3, <2>3 DEF OneMarkStep, ProjectionInv, NoneLeft
  <2> QED BY <2>2, <2>4, <2>5, <1>3, RestIsState DEF NoneLeft, OneMarkStep, ProjectionInv, adoptionHistory
<1>9. OneAtATime'
  <2> SUFFICES ASSUME overruns' = 0 PROVE OneAtATime'
    BY DEF OneAtATime
  <2>1. overruns = 0
    BY DEF historyVars
  <2>2. \A v \in ProjectionWorkers : v # w /\ hand[v].pc # "idle" => hand[v].job # j
    BY <1>1, <2>1 DEF ProjectionInv, OneAtATime
  <2>3. \A v \in ProjectionWorkers : hand[v].pc # "idle" => hand[v].job \in 1..Len(jobs)
    BY DEF ProjectionInv, HandHolds
  <2> QED BY <2>1, <2>2, <2>3, <1>3, RestIsState, SMTT(30) DEF OneAtATime, OneMarkStep, ProjectionInv
<1> QED BY <1>7, <1>8, <1>9 DEF ProjectionInv

LEMMA MarksStep ==
    ASSUME ProjectionInv, NEW w \in ProjectionWorkers,
           \/ ClaimJob(w) \/ ClaimOverrun(w) \/ JobFails(w) \/ WorkerDies(w) \/ Completes(w)
           \/ RefusedAsArchived(w) \/ NotProvisioned(w)
    PROVE  ProjectionInv'
<1>0. jobFaults \in Nat /\ {"pending", "sent", "failed"} \subseteq SyncStates
  BY DEF ProjectionInv, ProjectionTyped, SyncStates
<1>1. CASE ClaimJob(w)
  BY <1>1, ClaimStep DEF ClaimJob
<1>2. CASE ClaimOverrun(w)
  BY <1>2, ClaimStep DEF ClaimOverrun
<1>3. CASE JobFails(w)
  <2>1. /\ hand[w].pc # "idle" /\ jobFaults' = jobFaults + 1
        /\ UNCHANGED <<directoryVars, proxy, historyVars, inOrder>>
    BY <1>3 DEF JobFails
  <2>2. jobFaults' \in Nat
    BY <1>0, <2>1
  <2>3. CASE Ends(w, hand[w].job, "pending", TRUE) /\ UNCHANGED muted
    BY <1>0, <2>1, <2>2, <2>3, EndStep
  <2>4. CASE Ends(w, hand[w].job, "sent", FALSE) /\ muted' = muted \cup {hand[w].job}
    BY <1>0, <2>1, <2>2, <2>4, EndStep
  <2> QED BY <1>3, <2>3, <2>4 DEF JobFails
<1>4. CASE WorkerDies(w)
  <2>1. /\ Ends(w, hand[w].job, "pending", FALSE) /\ hand[w].pc # "idle" /\ jobFaults' = jobFaults + 1
        /\ UNCHANGED <<directoryVars, proxy, historyVars, muted, inOrder>>
    BY <1>4 DEF WorkerDies
  <2>2. jobFaults' \in Nat
    BY <1>0, <2>1
  <2> QED BY <1>0, <2>1, <2>2, EndStep
<1>5. CASE Completes(w)
  <2>1. /\ Ends(w, hand[w].job, "sent", FALSE) /\ hand[w].pc = "done" /\ jobFaults' = jobFaults
        /\ UNCHANGED <<directoryVars, proxy, historyVars, muted, inOrder>>
    BY <1>5 DEF Completes, Busy
  <2> QED BY <1>0, <2>1, EndStep
<1>6. CASE RefusedAsArchived(w) \/ NotProvisioned(w)
  <2>1. hand[w].pc # "idle" /\ Refuses(w)
    BY <1>6 DEF RefusedAsArchived, NotProvisioned, Busy, StartsProvisioning
  <2>2. PICK s \in {"pending", "failed"} : Ends(w, hand[w].job, s, s = "pending")
    BY <2>1 DEF Refuses
  <2>3. UNCHANGED <<directoryVars, proxy, historyVars, muted, inOrder>> /\ jobFaults' = jobFaults
    BY <2>1 DEF Refuses
  <2> QED BY <1>0, <2>1, <2>2, <2>3, EndStep
<1> QED BY <1>1, <1>2, <1>3, <1>4, <1>5, <1>6

-----------------------------------------------------------------------------
LEMMA KindsOfJobs ==
    ASSUME ProjectionInv
    PROVE  /\ 1 \in 1..Len(jobs) /\ jobs[1].kind = "provision"
           /\ \A j \in 1..Len(jobs) : jobs[j] \in JobRows
           /\ \A j \in 1..Len(jobs) : jobs[j].kind = "provision" <=> j = 1
           /\ \A j \in 1..Len(jobs) : j # 1 => j \in 2..Len(jobs) /\ SyncHolds(j)
<1>1. ProjectionTyped /\ RowsHold /\ Len(jobs) \in Nat
  BY LensAreNats DEF ProjectionInv
<1>2. 1 \in 1..Len(jobs) /\ jobs[1].kind = "provision"
  BY <1>1 DEF RowsHold
<1>3. \A j \in 1..Len(jobs) : j # 1 => j \in 2..Len(jobs)
  BY <1>1
<1>4. \A j \in 1..Len(jobs) : j # 1 => j \in 2..Len(jobs) /\ SyncHolds(j)
  BY <1>3 DEF ProjectionInv
<1>5. \A j \in 1..Len(jobs) : jobs[j] \in JobRows
  BY <1>1 DEF ProjectionTyped
<1> QED BY <1>2, <1>4, <1>5 DEF SyncHolds

LEMMA HandOf ==
    ASSUME ProjectionInv, NEW w \in ProjectionWorkers, hand[w].pc # "idle"
    PROVE  /\ hand[w] \in HandStates /\ HandHolds(w)
           /\ hand[w].job \in 1..Len(jobs) /\ jobs[hand[w].job] \in JobRows
           /\ hand[w].job \in Nat /\ hand[w].id \in Nat /\ hand[w].scope \in Nat
           /\ hand[w].target \in OrgDepartments \union {"org"}
           /\ hand[w].todo \in SUBSET OrgDepartments
<1>1. hand[w] \in HandStates /\ HandHolds(w)
  BY DEF ProjectionInv, ProjectionTyped
<1>2. hand[w].job \in 1..Len(jobs) /\ jobs[hand[w].job] \in JobRows
  BY <1>1 DEF ProjectionInv, ProjectionTyped, HandHolds
<1> QED BY <1>1, <1>2 DEF HandStates

\* A step that only moves a worker on.
LEMMA GoStep ==
    ASSUME ProjectionInv, NEW w \in ProjectionWorkers, hand[w].pc # "idle", NEW h \in HandStates,
           Goes(w, h), UNCHANGED <<directoryVars, proxy, inOrder>>, HandHolds(w)',
           h.job = hand[w].job, h.pc # "idle",
           h.job = 1 =>
             /\ h.pc \in {"activate", "done"} => skipped \/ Left = {}
             /\ h.pc \in {"find", "create", "store"} /\ h.target # "org" =>
                  skipped \/ Left \subseteq h.todo,
           overruns = 0 /\ h.pc = "create" /\ h.target = "org" =>
             \A i \in 1..Len(proxy) : proxy[i].of # "org"
    PROVE  ProjectionInv'
<1>0. ProjectionTyped
  BY DEF ProjectionInv
<1>1. PICK j : j = hand[w].job
  OBVIOUS
<1>2. j \in 1..Len(jobs)
  BY <1>1, HandOf
<1>3. OneMarkStep(w, j, jobs[j].state, h)
  <2>1. hand' = [hand EXCEPT ![w] = h] /\ jobs' = jobs
    BY DEF Goes
  <2>2. overruns' \in Nat /\ jobFaults' \in Nat /\ jobs' \in Seq(JobRows)
    BY <1>0 DEF Goes, historyVars, ProjectionTyped
  <2>3. hand' \in [ProjectionWorkers -> HandStates] /\ hand'[w] = h
        /\ \A v \in ProjectionWorkers : v # w => hand'[v] = hand[v]
    BY <1>0, <2>1, HandMoves
  <2>4. \A k \in 1..Len(jobs) : JobSame(k)
    BY <2>1 DEF JobSame
  <2> QED BY <2>1, <2>2, <2>3, <2>4 DEF OneMarkStep, directoryVars, historyVars, Goes
<1>4. muted' = muted /\ (jobs[j].state = "sent" => jobs[j].applied \/ j = 1 \/ j \in muted')
  BY <1>2, KindsOfJobs DEF SyncHolds, Goes
<1>5. /\ ProjectionTyped' /\ RowsHold' /\ (\A k \in 2..Len(jobs') : SyncHolds(k)')
      /\ (\A v \in ProjectionWorkers : HandHolds(v)')
      /\ OrgQueue' /\ OrgApplied' /\ TeamQueue' /\ TeamApplied'
  BY <1>2, <1>3, <1>4, MarkKeeps
<1>6. jobs' = jobs /\ overruns' = overruns /\ skipped' = skipped
  BY DEF Goes, historyVars, adoptionHistory
<1>7. NoneLeft'
  <2>1. \A d : HasJob(d)' <=> HasJob(d)
    BY <1>4, <1>6 DEF HasJob
  <2>2. Left' = Left
    BY <2>1, <1>3 DEF Left, OneMarkStep
  <2> QED BY <2>2, <1>3, <1>4, <1>6 DEF NoneLeft, OneMarkStep, ProjectionInv
<1>8. OneAtATime'
  BY <1>1, <1>3, <1>6 DEF OneAtATime, OneMarkStep, ProjectionInv
<1> QED BY <1>5, <1>7, <1>8 DEF ProjectionInv

LEMMA ReadOrganizationStep ==
    ASSUME ProjectionInv, NEW w \in ProjectionWorkers, ReadOrganization(w)
    PROVE  ProjectionInv'
<1>0. ProjectionTyped /\ RowsHold /\ hand[w].pc = "start" /\ Len(proxy) \in Nat /\ Len(jobs) \in Nat
  BY LensAreNats DEF ProjectionInv, ReadOrganization, StartsProvisioning, Busy
<1>1. /\ hand[w] \in HandStates /\ HandHolds(w) /\ hand[w].job \in 1..Len(jobs)
      /\ hand[w].target = "org"
  <2>1. hand[w].pc # "idle"
    BY <1>0
  <2> QED BY <2>1, <1>0, HandOf DEF HandHolds
<1>2. PICK h : h = [hand[w] EXCEPT !.scope = org.scope,
                                   !.pc = IF org.scope = NoId THEN "find" ELSE "departments"]
  OBVIOUS
<1>3. h \in HandStates /\ h.job = hand[w].job /\ h.target = "org" /\ h.scope = org.scope
      /\ h.pc = (IF org.scope = NoId THEN "find" ELSE "departments")
  <2>1. org.scope \in Nat
    BY <1>0 DEF ProjectionTyped
  <2> QED BY <1>1, <1>2, <2>1 DEF HandStates, HandSteps
<1>4. Goes(w, h) /\ UNCHANGED <<directoryVars, proxy, inOrder>>
  BY <1>2 DEF ReadOrganization
<1>5. jobs[h.job].kind \in {"provision", "dept"}
  BY <1>3 DEF ReadOrganization, StartsProvisioning, Doing
<1>6. org.scope = NoId => h.job = 1
  BY <1>0, <1>1, <1>3 DEF RowsHold
<1>7. org.scope # NoId => IsScope(org.scope)
  BY <1>0 DEF RowsHold
<1>8. HandHolds(w)'
  <2>1. hand'[w] = h
    BY <1>0, <1>3, <1>4, HandMoves DEF Goes
  <2>2. jobs' = jobs /\ org' = org /\ team' = team /\ proxy' = proxy /\ adopted' = adopted
    BY <1>4 DEF Goes, directoryVars, historyVars, adoptionHistory
  <2>3. (h.scope \in 0..Len(proxy)) /\ (h.scope = Given => adopted)
    BY <1>0, <1>3, <1>7 DEF RowsHold, IsScope, NoId
  <2> QED BY <2>1, <2>2, <2>3, <1>1, <1>3, <1>5, <1>6, <1>7 DEF HandHolds, IsScope
<1> QED BY <1>0, <1>3, <1>4, <1>8, GoStep

LEMMA FindObjectStep ==
    ASSUME ProjectionInv, NEW w \in ProjectionWorkers, FindObject(w)
    PROVE  ProjectionInv'
<1>0. ProjectionTyped /\ hand[w].pc = "find" /\ Len(proxy) \in Nat
  BY LensAreNats DEF ProjectionInv, FindObject, Busy
<1>1. hand[w] \in HandStates /\ HandHolds(w) /\ hand[w].target \in OrgDepartments \union {"org"}
  <2>1. hand[w].pc # "idle"
    BY <1>0
  <2> QED BY <2>1, HandOf
<1>2. PICK h \in HandStates :
        /\ Goes(w, h) /\ h.job = hand[w].job /\ h.scope = hand[w].scope
        /\ h.target = hand[w].target /\ h.todo = hand[w].todo
        /\ \/ h.pc = "create" /\ Found(hand[w].target, hand[w].scope) = {}
           \/ h.pc = "store" /\ h.id \in Found(hand[w].target, hand[w].scope)
  <2>1. CASE Found(hand[w].target, hand[w].scope) = {}
    <3>1. PICK h : h = [hand[w] EXCEPT !.pc = "create"]
      OBVIOUS
    <3>2. h \in HandStates /\ h.job = hand[w].job /\ h.scope = hand[w].scope
          /\ h.target = hand[w].target /\ h.todo = hand[w].todo /\ h.pc = "create"
      BY <1>1, <3>1 DEF HandStates, HandSteps
    <3>3. Goes(w, h)
      BY <2>1, <3>1 DEF FindObject
    <3> QED BY <2>1, <3>2, <3>3
  <2>2. CASE Found(hand[w].target, hand[w].scope) # {}
    <3>1. PICK i \in Found(hand[w].target, hand[w].scope) :
            Goes(w, [hand[w] EXCEPT !.pc = "store", !.id = i])
      BY <2>2 DEF FindObject
    <3>2. PICK h : h = [hand[w] EXCEPT !.pc = "store", !.id = i]
      OBVIOUS
    <3>3. i \in Nat
      BY <1>0 DEF Found, ProjectionTyped
    <3>4. h \in HandStates /\ h.job = hand[w].job /\ h.scope = hand[w].scope
          /\ h.target = hand[w].target /\ h.todo = hand[w].todo /\ h.pc = "store" /\ h.id = i
      BY <1>1, <3>2, <3>3 DEF HandStates, HandSteps
    <3> QED BY <3>1, <3>2, <3>4
  <2> QED BY <2>1, <2>2
<1>3. UNCHANGED <<directoryVars, proxy, inOrder>>
  BY DEF FindObject
<1>4. h.pc = "store" => h.id \in 1..Len(proxy) /\ proxy[h.id].of = h.target
  BY <1>0, <1>2 DEF Found, ProjectionTyped
<1>5. HandHolds(w)'
  <2>1. hand'[w] = h
    BY <1>0, <1>2, HandMoves DEF Goes
  <2>2. jobs' = jobs /\ org' = org /\ team' = team /\ proxy' = proxy /\ adopted' = adopted
    BY <1>2, <1>3 DEF Goes, directoryVars, historyVars, adoptionHistory
  <2>3. HandHolds(w)
    BY <1>1
  <2> QED BY <2>1, <2>2, <2>3, <1>0, <1>2, <1>4 DEF HandHolds, IsScope
<1>6. h.pc = "create" /\ h.target = "org" => \A i \in 1..Len(proxy) : proxy[i].of # "org"
  BY <1>0, <1>2 DEF Found, ProjectionTyped
<1>7. h.job = 1 /\ h.target # "org" => skipped \/ Left \subseteq h.todo
  BY <1>0, <1>2 DEF ProjectionInv, NoneLeft
<1> QED BY <1>0, <1>2, <1>3, <1>5, <1>6, <1>7, GoStep

LEMMA NextDepartmentIs ==
    ASSUME NEW todo \in SUBSET OrgDepartments, NEW n \in NextDepartment(todo)
    PROVE  \/ n.pc = "activate" /\ n.target = "org" /\ todo = {}
           \/ n.pc = "find" /\ n.target \in todo /\ n.target \in OrgDepartments
  BY DEF NextDepartment

LEMMA ListDepartmentsStep ==
    ASSUME ProjectionInv, NEW w \in ProjectionWorkers, ListDepartments(w)
    PROVE  ProjectionInv'
<1>0. ProjectionTyped /\ hand[w].pc = "departments" /\ Len(proxy) \in Nat
  BY LensAreNats DEF ProjectionInv, ListDepartments, Busy
<1>1. hand[w] \in HandStates /\ HandHolds(w)
  <2>1. hand[w].pc # "idle"
    BY <1>0
  <2> QED BY <2>1, HandOf
<1>2. PICK n \in NextDepartment(Listed) :
        Goes(w, [hand[w] EXCEPT !.todo = Listed, !.pc = n.pc, !.target = n.target])
  BY DEF ListDepartments
<1>3. Listed \in SUBSET OrgDepartments
  BY DEF Listed, Unmapped
<1>4. \/ n.pc = "activate" /\ n.target = "org" /\ Listed = {}
      \/ n.pc = "find" /\ n.target \in Listed /\ n.target \in OrgDepartments
  BY <1>2, <1>3, NextDepartmentIs
<1>5. PICK h : h = [hand[w] EXCEPT !.todo = Listed, !.pc = n.pc, !.target = n.target]
  OBVIOUS
<1>6. h \in HandStates /\ h.job = hand[w].job /\ h.scope = hand[w].scope
      /\ h.target = n.target /\ h.todo = Listed /\ h.pc = n.pc
  BY <1>1, <1>3, <1>4, <1>5 DEF HandStates, HandSteps
<1>7. Goes(w, h) /\ UNCHANGED <<directoryVars, proxy, inOrder>>
  BY <1>2, <1>5 DEF ListDepartments
<1>8. HandHolds(w)'
  <2>1. hand'[w] = h
    BY <1>0, <1>6, <1>7, HandMoves DEF Goes
  <2>2. jobs' = jobs /\ org' = org /\ team' = team /\ proxy' = proxy /\ adopted' = adopted
    BY <1>7 DEF Goes, directoryVars, historyVars, adoptionHistory
  <2>3. "org" \notin OrgDepartments
    BY ProjectionAssumption
  <2> QED BY <2>1, <2>2, <2>3, <1>0, <1>1, <1>4, <1>6 DEF HandHolds, IsScope
<1>9. Left \subseteq Listed
  BY DEF Left, Listed, Unmapped
<1> QED BY <1>0, <1>4, <1>6, <1>7, <1>8, <1>9, GoStep

-----------------------------------------------------------------------------
\* A step of a worker that leaves the jobs alone.
JobsKeptStep(w, h) ==
  /\ jobs' = jobs /\ hand' \in [ProjectionWorkers -> HandStates]
  /\ hand'[w] = h /\ \A v \in ProjectionWorkers : v # w => hand'[v] = hand[v]
  /\ UNCHANGED <<status, adopted, skipped, reopened, muted, inOrder, orgEdits, jobFaults, overruns>>

LEMMA GoesKeeps ==
    ASSUME ProjectionInv, NEW w \in ProjectionWorkers, NEW h \in HandStates, Goes(w, h),
           UNCHANGED <<status, inOrder>>
    PROVE  JobsKeptStep(w, h)
<1>1. hand' = [hand EXCEPT ![w] = h] /\ ProjectionTyped
  BY DEF Goes, ProjectionInv
<1>2. hand' \in [ProjectionWorkers -> HandStates] /\ hand'[w] = h
      /\ \A v \in ProjectionWorkers : v # w => hand'[v] = hand[v]
  BY <1>1, HandMoves
<1> QED BY <1>2 DEF JobsKeptStep, Goes, historyVars, adoptionHistory

LEMMA OthersHold ==
    ASSUME ProjectionInv, NEW w \in ProjectionWorkers, NEW h \in HandStates, JobsKeptStep(w, h),
           ProjectionTyped', Onward, HandHolds(w)'
    PROVE  (\A v \in ProjectionWorkers : HandHolds(v)') /\ (\A k \in 2..Len(jobs') : SyncHolds(k)')
<1>1. ASSUME NEW v \in ProjectionWorkers PROVE HandHolds(v)'
  BY HandStays DEF ProjectionInv, JobsKeptStep
<1>2. ASSUME NEW k \in 2..Len(jobs') PROVE SyncHolds(k)'
  <2>1. k \in 2..Len(jobs) /\ SyncHolds(k)
    BY DEF ProjectionInv, JobsKeptStep
  <2>2. jobs'[k].state = "sent" => jobs'[k].applied \/ k \in muted'
    BY <2>1 DEF SyncHolds, JobsKeptStep
  <2> QED BY <2>1, <2>2, JobStays DEF ProjectionInv
<1> QED BY <1>1, <1>2

LEMMA CreateObjectStep ==
    ASSUME ProjectionInv, NEW w \in ProjectionWorkers, CreateObject(w)
    PROVE  ProjectionInv'
<1>0. /\ ProjectionTyped /\ RowsHold /\ hand[w].pc = "create" /\ Len(proxy) \in Nat
      /\ Len(jobs) \in Nat
  BY LensAreNats DEF ProjectionInv, CreateObject, Busy
<1>1. /\ hand[w] \in HandStates /\ HandHolds(w) /\ hand[w].scope \in Nat
      /\ hand[w].target \in OrgDepartments \union {"org"} /\ hand[w].scope \in 0..Len(proxy)
  <2>1. hand[w].pc # "idle"
    BY <1>0
  <2> QED BY <2>1, HandOf DEF HandHolds
<1>2. PICK e : e = [of |-> hand[w].target, in |-> hand[w].scope, blocked |-> FALSE]
  OBVIOUS
<1>3. e \in ProxyRows /\ e.of = hand[w].target /\ e.in = hand[w].scope /\ e.blocked = FALSE
  BY <1>1, <1>2 DEF ProxyRows
<1>4. PICK n : n = Len(proxy)
  OBVIOUS
<1>5. /\ proxy' \in Seq(ProxyRows) /\ Len(proxy') = n + 1 /\ proxy'[n + 1] = e
      /\ \A i \in 1..n : proxy'[i] = proxy[i]
  <2>1. proxy' = Append(proxy, e) /\ proxy \in Seq(ProxyRows)
    BY <1>0, <1>2 DEF CreateObject, ProjectionTyped
  <2> QED BY <1>3, <1>4, <2>1, RowAppended
<1>6. PICK h : h = [hand[w] EXCEPT !.pc = "store", !.id = n + 1]
  OBVIOUS
<1>7. h \in HandStates /\ h.job = hand[w].job /\ h.scope = hand[w].scope
      /\ h.target = hand[w].target /\ h.todo = hand[w].todo /\ h.pc = "store" /\ h.id = n + 1
  <2>1. n + 1 \in Nat
    BY <1>0, <1>4
  <2> QED BY <1>1, <1>6, <2>1 DEF HandStates, HandSteps
<1>8. UNCHANGED <<org, status, team, inOrder>> /\ Goes(w, h)
  BY <1>4, <1>6 DEF CreateObject, directoryVars
<1>9. JobsKeptStep(w, h)
  BY <1>7, <1>8, GoesKeeps
<1>10. ProjectionTyped'
  BY <1>0, <1>5, <1>8, <1>9 DEF ProjectionTyped, JobsKeptStep
<1>11. Onward
  BY <1>0, <1>4, <1>5, <1>8, <1>9 DEF Onward, ObjectsStay, JobSame, JobsKeptStep
<1>12. \A x, d : /\ IsScope(x) => IsScope(x)' /\ x \in 1..n
                 /\ IsTeam(x, d) => IsTeam(x, d)' /\ x \in 1..n
                 /\ IsScope(x)' /\ x \in 1..n => IsScope(x)
  BY <1>0, <1>4, <1>5 DEF IsScope, IsTeam
<1>13. HandHolds(w)'
  <2>1. /\ \/ hand[w].target # "org"
           \/ hand[w].pc \in {"departments", "activate"}
           => IsScope(h.scope)' /\ org'.scope # NoId
    BY <1>0, <1>1, <1>7, <1>8, <1>12 DEF HandHolds
  <2>2. h.scope \in 0..Len(proxy') /\ h.id \in 1..Len(proxy') /\ proxy'[h.id].of = h.target
    BY <1>0, <1>1, <1>3, <1>4, <1>5, <1>7
  <2>3. hand'[w] = h /\ jobs' = jobs /\ team' = team /\ adopted' = adopted /\ HandHolds(w)
    BY <1>1, <1>8, <1>9 DEF JobsKeptStep
  <2> QED BY <2>1, <2>2, <2>3, <1>0, <1>7 DEF HandHolds
<1>14. (\A v \in ProjectionWorkers : HandHolds(v)') /\ (\A k \in 2..Len(jobs') : SyncHolds(k)')
  BY <1>7, <1>9, <1>10, <1>11, <1>13, OthersHold
<1>15. RowsHold'
  <2>1. \A d : HasGiven(d)' <=> HasGiven(d)
    BY <1>8, <1>9 DEF HasGiven, JobsKeptStep
  <2>2. \A i \in 1..Len(proxy') : proxy'[i].in <= Len(proxy')
    <3>1. \A i \in 1..n : proxy[i].in <= n /\ proxy[i].in \in Nat
      <4>1. \A i \in 1..n : proxy[i].in <= n
        BY <1>0, <1>4 DEF RowsHold
      <4>2. \A i \in 1..n : proxy[i] \in ProxyRows
        BY <1>0, <1>4 DEF ProjectionTyped
      <4> QED BY <4>1, <4>2 DEF ProxyRows
    <3> QED BY <3>1, <1>0, <1>1, <1>3, <1>4, <1>5
  <2>3. Len(proxy') >= 2 /\ proxy'[Given] = proxy[Given] /\ proxy'[GivenTeam] = proxy[GivenTeam]
    BY <1>0, <1>4, <1>5 DEF RowsHold, Given, GivenTeam
  <2> QED BY <2>1, <2>2, <2>3, <1>0, <1>8, <1>9, <1>12 DEF RowsHold, JobsKeptStep
<1>16. NoneLeft'
  <2>1. \A d : HasJob(d)' <=> HasJob(d)
    BY <1>9 DEF HasJob, JobsKeptStep
  <2>2. Left' = Left
    BY <2>1, <1>8 DEF Left
  <2> QED BY <2>2, <1>0, <1>7, <1>8, <1>9 DEF NoneLeft, JobsKeptStep, ProjectionInv
<1>17. OneAtATime'
  <2> SUFFICES ASSUME overruns' = 0 PROVE OneAtATime'
    BY DEF OneAtATime
  <2>1. overruns = 0 /\ jobs' = jobs
    BY <1>9 DEF JobsKeptStep
  <2>2. hand[w].target = "org" =>
          /\ \A i \in 1..n : proxy[i].of # "org"
          /\ \A v \in ProjectionWorkers : v # w => ~(hand[v].pc = "create" /\ hand[v].target = "org")
    BY <2>1, <1>0, <1>1, <1>4 DEF ProjectionInv, OneAtATime, HandHolds
  <2>3. \A i \in 1..(n + 1) : i \in 1..n \/ i = n + 1
    BY <1>0, <1>4
  <2>4. \A i, k \in 1..Len(proxy') : proxy'[i].of = "org" /\ proxy'[k].of = "org" => i = k
    BY <2>1, <2>2, <2>3, <1>3, <1>4, <1>5 DEF ProjectionInv, OneAtATime
  <2>5. ASSUME NEW v \in ProjectionWorkers, hand'[v].pc = "create", hand'[v].target = "org",
               NEW i \in 1..Len(proxy')
        PROVE  proxy'[i].of # "org"
    <3>1. v # w /\ hand[v].pc = "create" /\ hand[v].target = "org"
      BY <2>5, <1>7, <1>9 DEF JobsKeptStep
    <3>2. hand[w].target # "org"
      BY <2>2, <3>1
    <3> QED BY <3>1, <3>2, <2>1, <2>3, <1>3, <1>4, <1>5 DEF ProjectionInv, OneAtATime
  <2>6. /\ \A u, v \in ProjectionWorkers :
             hand'[u].job = hand'[v].job /\ hand'[u].pc # "idle" /\ hand'[v].pc # "idle" => u = v
        /\ \A v \in ProjectionWorkers :
             hand'[v].pc # "idle" => jobs'[hand'[v].job].state \in {"processing", "sent"}
    BY <2>1, <1>0, <1>7, <1>9 DEF ProjectionInv, OneAtATime, JobsKeptStep
  <2> QED BY <2>4, <2>5, <2>6 DEF OneAtATime
<1>18. \A j \in 1..Len(jobs) : jobs[j].kind # "provision" => IsScope(jobs[j].scope)
  BY KindsOfJobs DEF SyncHolds
<1>19. OrgQueue' /\ OrgApplied'
  <2>1. \A x : /\ Closed(x)' = Closed(x)
               /\ \A j : (OrgSync(j, x)' <=> OrgSync(j, x)) /\ (LastOf(j, x)' <=> LastOf(j, x))
    BY <1>8, <1>9 DEF Closed, OrgSync, LastOf, JobsKeptStep
  <2>2. ~Closed(n + 1) /\ \A j \in 1..Len(jobs) : ~OrgSync(j, n + 1)
    <3>1. n + 1 \notin 1..n /\ n + 1 # NoId
      BY <1>0, <1>4 DEF NoId
    <3>2. org.scope # NoId => IsScope(org.scope)
      BY <1>0 DEF RowsHold
    <3>3. ~Closed(n + 1)
      BY <3>1, <3>2, <1>12 DEF Closed
    <3> QED BY <3>1, <3>3, <1>12, <1>18 DEF OrgSync
  <2>3. \A i \in 1..(n + 1) : i \in 1..n \/ i = n + 1
    BY <1>0, <1>4
  <2>4. OrgQueue'
    BY <2>1, <2>2, <2>3, <1>4, <1>5, <1>9 DEF OrgQueue, ProjectionInv, JobsKeptStep
  <2>5. \A j \in 1..Len(jobs) : jobs[j].kind = "org" => proxy'[jobs[j].scope] = proxy[jobs[j].scope]
    BY <1>4, <1>5, <1>12, <1>18
  <2>6. OrgApplied'
    BY <2>1, <2>3, <2>5, <1>3, <1>4, <1>5, <1>9, <1>12 DEF OrgApplied, ProjectionInv, JobsKeptStep
  <2> QED BY <2>4, <2>6
<1>20. TeamQueue' /\ TeamApplied'
  <2>1. \A j \in 1..Len(jobs) : Blocking(j) => jobs[j].team \in 1..n
    BY <1>4, KindsOfJobs DEF SyncHolds, Blocking, IsTeam
  <2>2. \A i \in 1..(n + 1) : i \in 1..n \/ i = n + 1
    BY <1>0, <1>4
  <2>3. \A j : Blocking(j)' <=> Blocking(j)
    BY <1>9 DEF Blocking, JobsKeptStep
  <2>4. TeamQueue'
    BY <1>9, <2>3 DEF TeamQueue, ProjectionInv, JobsKeptStep
  <2>5. TeamApplied'
    BY <2>1, <2>2, <2>3, <1>3, <1>4, <1>5, <1>9, <1>12 DEF TeamApplied, ProjectionInv, JobsKeptStep
  <2> QED BY <2>4, <2>5
<1> QED BY <1>10, <1>14, <1>15, <1>16, <1>17, <1>19, <1>20 DEF ProjectionInv

-----------------------------------------------------------------------------
\* The organization is mapped, or made active: it is not archived then.
LEMMA MappedStep ==
    ASSUME ProjectionInv, NEW w \in ProjectionWorkers, NEW h \in HandStates, JobsKeptStep(w, h),
           UNCHANGED <<team, proxy>>, org.status # "archived",
           org' \in [status : {"provisioning", "active"}, scope : Nat], IsScope(org'.scope),
           org'.scope = Given => adopted,
           hand[w].pc # "idle", h.job = hand[w].job, h.pc \notin {"idle", "find", "create", "store"},
           ProjectionTyped' /\ Onward => HandHolds(w)',
           h.job = 1 => (h.pc \in {"activate", "done"} => skipped \/ Left = {})
    PROVE  ProjectionInv'
<1>0. ProjectionTyped /\ RowsHold /\ Len(proxy) \in Nat /\ Len(jobs) \in Nat
  BY LensAreNats DEF ProjectionInv
<1>1. ProjectionTyped'
  <2>1. org' \in [status : {"provisioning", "active", "archived"}, scope : Nat]
    OBVIOUS
  <2> QED BY <1>0, <2>1 DEF ProjectionTyped, JobsKeptStep
<1>2. org'.scope # NoId /\ org'.status # "archived"
  BY <1>0 DEF IsScope, NoId
<1>3. Onward
  BY <1>0, <1>2 DEF Onward, ObjectsStay, JobSame, JobsKeptStep
<1>4. (\A v \in ProjectionWorkers : HandHolds(v)') /\ (\A k \in 2..Len(jobs') : SyncHolds(k)')
  BY <1>1, <1>3, OthersHold
<1>5. \A x, d : (IsScope(x)' <=> IsScope(x)) /\ (IsTeam(x, d)' <=> IsTeam(x, d))
  BY DEF IsScope, IsTeam
<1>6. RowsHold'
  <2>1. \A d : HasGiven(d)' <=> HasGiven(d)
    BY DEF HasGiven, JobsKeptStep
  <2>2. PICK x : x = org'.scope
    OBVIOUS
  <2>3. IsScope(x)' /\ (x = Given => adopted)
    BY <2>2, <1>5
  <2> QED BY <2>1, <2>2, <2>3, <1>0, <1>2, <1>5 DEF RowsHold, JobsKeptStep
<1>7. NoneLeft'
  <2>1. \A d : HasJob(d)' <=> HasJob(d)
    BY DEF HasJob, JobsKeptStep
  <2>2. Left' = Left
    BY <2>1 DEF Left, JobsKeptStep
  <2> QED BY <2>2, <1>2 DEF NoneLeft, JobsKeptStep, ProjectionInv
<1>8. OneAtATime'
  BY DEF OneAtATime, JobsKeptStep, ProjectionInv
<1>9. OrgQueue' /\ OrgApplied'
  <2>1. \A x : ~Closed(x) /\ ~Closed(x)'
    BY <1>2 DEF Closed
  <2>2. \A x, j : (OrgSync(j, x)' <=> OrgSync(j, x)) /\ (LastOf(j, x)' <=> LastOf(j, x))
    BY DEF OrgSync, LastOf, JobsKeptStep
  <2>3. \A x : Closed(x) = FALSE /\ Closed(x)' = FALSE
    BY <2>1 DEF Closed
  <2>4. OrgQueue'
    BY <2>2, <2>3 DEF OrgQueue, JobsKeptStep, ProjectionInv
  <2>5. OrgApplied'
    BY <2>2, <1>5 DEF OrgApplied, JobsKeptStep, ProjectionInv
  <2> QED BY <2>4, <2>5
<1>10. TeamQueue' /\ TeamApplied'
  BY <1>5, ZenonT(60) DEF TeamQueue, TeamApplied, Blocking, JobsKeptStep, ProjectionInv
<1> QED BY <1>1, <1>4, <1>6, <1>7, <1>8, <1>9, <1>10 DEF ProjectionInv

LEMMA SetUpstreamOrganizationStep ==
    ASSUME ProjectionInv, NEW w \in ProjectionWorkers, SetUpstreamOrganization(w)
    PROVE  ProjectionInv'
<1>0. /\ ProjectionTyped /\ RowsHold /\ hand[w].pc = "store" /\ hand[w].target = "org"
      /\ org.status # "archived"
  BY DEF ProjectionInv, SetUpstreamOrganization, Busy, Mappable
<1>1. hand[w] \in HandStates /\ HandHolds(w) /\ hand[w].id \in Nat
  <2>1. hand[w].pc # "idle"
    BY <1>0
  <2> QED BY <2>1, HandOf
<1>2. PICK i : i = hand[w].id
  OBVIOUS
<1>3. i \in Nat /\ i \in 1..Len(proxy) /\ proxy[i].of = "org" /\ i # Given /\ IsScope(i)
  BY <1>0, <1>1, <1>2 DEF HandHolds, RowsHold, IsScope
<1>4. PICK h : h = [hand[w] EXCEPT !.pc = "departments", !.scope = i]
  OBVIOUS
<1>5. h \in HandStates /\ h.job = hand[w].job /\ h.pc = "departments" /\ h.scope = i
  BY <1>1, <1>3, <1>4 DEF HandStates, HandSteps
<1>6. Goes(w, h) /\ UNCHANGED <<status, team, proxy, inOrder>> /\ org' = [org EXCEPT !.scope = i]
  BY <1>2, <1>4 DEF SetUpstreamOrganization
<1>7. JobsKeptStep(w, h)
  BY <1>5, <1>6, GoesKeeps
<1>8. org' \in [status : {"provisioning", "active"}, scope : Nat] /\ org'.scope = i
  BY <1>0, <1>3, <1>6 DEF ProjectionTyped
<1>9. HandHolds(w)'
  <2>1. h.job \in 1..Len(jobs) /\ jobs[h.job].kind \in {"provision", "dept"}
    BY <1>0, <1>1, <1>5 DEF HandHolds
  <2>2. IsScope(i)' /\ i \in 0..Len(proxy) /\ i # NoId
    BY <1>3, <1>6 DEF IsScope, NoId
  <2>3. hand'[w] = h /\ jobs' = jobs /\ proxy' = proxy
    BY <1>6, <1>7 DEF JobsKeptStep
  <2> QED BY <2>1, <2>2, <2>3, <1>3, <1>5, <1>8 DEF HandHolds
<1> QED BY <1>0, <1>3, <1>5, <1>6, <1>7, <1>8, <1>9, MappedStep

LEMMA FinishesStep ==
    ASSUME ProjectionInv, NEW w \in ProjectionWorkers, Activate(w)
    PROVE  ProjectionInv'
<1>0. /\ ProjectionTyped /\ RowsHold /\ hand[w].pc = "activate" /\ org.status # "archived"
  BY DEF ProjectionInv, Activate, Busy, Mappable
<1>1. hand[w] \in HandStates /\ HandHolds(w) /\ hand[w].scope \in Nat
  <2>1. hand[w].pc # "idle"
    BY <1>0
  <2> QED BY <2>1, HandOf
<1>2. PICK x : x = hand[w].scope
  OBVIOUS
<1>3. x \in Nat /\ IsScope(x) /\ (x = Given => adopted) /\ hand[w].job \in 1..Len(jobs)
      /\ jobs[hand[w].job].kind \in {"provision", "dept"} /\ x \in 0..Len(proxy)
  BY <1>0, <1>1, <1>2 DEF HandHolds
<1>4. PICK h : h = [hand[w] EXCEPT !.pc = IF Doing(w).kind = "dept" THEN "provisioned" ELSE "done"]
  OBVIOUS
<1>5. h \in HandStates /\ h.job = hand[w].job /\ h.scope = x
      /\ h.pc = IF jobs[hand[w].job].kind = "dept" THEN "provisioned" ELSE "done"
  BY <1>1, <1>2, <1>4 DEF HandStates, HandSteps, Doing
<1>6. Goes(w, h) /\ UNCHANGED <<status, team, proxy, inOrder>> /\ org' = [status |-> "active", scope |-> x]
  BY <1>2, <1>4 DEF Activate
<1>7. JobsKeptStep(w, h)
  BY <1>5, <1>6, GoesKeeps
<1>8. org' \in [status : {"provisioning", "active"}, scope : Nat] /\ org'.scope = x
  BY <1>3, <1>6
<1>9. HandHolds(w)'
  <2>1. hand'[w] = h /\ jobs' = jobs /\ proxy' = proxy /\ adopted' = adopted
    BY <1>6, <1>7 DEF JobsKeptStep
  <2>2. org'.scope # NoId
    BY <1>3, <1>8 DEF IsScope, NoId
  <2> QED BY <2>1, <2>2, <1>3, <1>5 DEF HandHolds
<1>10. h.job = 1 => skipped \/ Left = {}
  BY <1>0, <1>5 DEF ProjectionInv, NoneLeft
<1> QED BY <1>0, <1>3, <1>5, <1>6, <1>7, <1>8, <1>9, <1>10, MappedStep

LEMMA SetUpstreamTeamStep ==
    ASSUME ProjectionInv, NEW w \in ProjectionWorkers, SetUpstreamTeam(w)
    PROVE  ProjectionInv'
<1>0. /\ ProjectionTyped /\ RowsHold /\ hand[w].pc = "store" /\ hand[w].target # "org"
      /\ Len(proxy) \in Nat /\ Len(jobs) \in Nat
  BY LensAreNats DEF ProjectionInv, SetUpstreamTeam, Busy
<1>1. /\ hand[w] \in HandStates /\ HandHolds(w) /\ hand[w].id \in Nat
      /\ hand[w].target \in OrgDepartments /\ hand[w].todo \in SUBSET OrgDepartments
  <2>1. hand[w].pc # "idle"
    BY <1>0
  <2> QED BY <2>1, <1>0, HandOf
<1>2. PICK i, t, rest : i = hand[w].id /\ t = hand[w].target /\ rest = hand[w].todo \ {t}
  OBVIOUS
<1>3. /\ i \in Nat /\ i \in 1..Len(proxy) /\ proxy[i].of = t /\ t \in OrgDepartments
      /\ rest \in SUBSET OrgDepartments
  BY <1>0, <1>1, <1>2 DEF HandHolds
<1>4. t \notin {"org", "given"} /\ i # GivenTeam /\ i # NoId
  BY <1>0, <1>3, ProjectionAssumption DEF RowsHold, NoId
<1>5. /\ team' = [team EXCEPT ![t] = i]
      /\ UNCHANGED <<org, status, proxy, inOrder>>
  BY <1>2 DEF SetUpstreamTeam
<1>6. PICK n \in NextDepartment(rest) :
        Goes(w, [hand[w] EXCEPT !.todo = rest, !.pc = n.pc, !.target = n.target])
  BY <1>2 DEF SetUpstreamTeam
<1>7. \/ n.pc = "activate" /\ n.target = "org" /\ rest = {}
      \/ n.pc = "find" /\ n.target \in rest /\ n.target \in OrgDepartments
  BY <1>3, <1>6, NextDepartmentIs
<1>8. PICK h : h = [hand[w] EXCEPT !.todo = rest, !.pc = n.pc, !.target = n.target]
  OBVIOUS
<1>9. h \in HandStates /\ h.job = hand[w].job /\ h.scope = hand[w].scope
      /\ h.target = n.target /\ h.todo = rest /\ h.pc = n.pc
  BY <1>1, <1>3, <1>7, <1>8 DEF HandStates, HandSteps
<1>10. JobsKeptStep(w, h)
  <2>1. Goes(w, h)
    BY <1>6, <1>8
  <2> QED BY <2>1, <1>5, <1>9, GoesKeeps
<1>11. team \in [OrgDepartments -> Nat] /\ team'[t] = i
       /\ \A d \in OrgDepartments : d # t => team'[d] = team[d]
  BY <1>0, <1>3, <1>5 DEF ProjectionTyped
<1>12. ProjectionTyped'
  <2>1. team' \in [OrgDepartments -> Nat]
    BY <1>3, <1>5, <1>11
  <2> QED BY <2>1, <1>0, <1>5, <1>10 DEF ProjectionTyped, JobsKeptStep
<1>13. \A d \in OrgDepartments : team[d] # NoId => team'[d] # NoId
  BY <1>4, <1>11
<1>14. Onward
  BY <1>0, <1>5, <1>10, <1>13 DEF Onward, ObjectsStay, JobSame, JobsKeptStep
<1>15. HandHolds(w)'
  <2>1. /\ hand'[w] = h /\ jobs' = jobs /\ proxy' = proxy /\ adopted' = adopted /\ org' = org
        /\ HandHolds(w)
    BY <1>1, <1>5, <1>10 DEF JobsKeptStep
  <2>2. IsScope(h.scope)' /\ org.scope # NoId
    BY <2>1, <1>0, <1>9 DEF HandHolds, IsScope
  <2>3. "org" \notin OrgDepartments
    BY ProjectionAssumption
  <2> QED BY <2>1, <2>2, <2>3, <1>0, <1>7, <1>9 DEF HandHolds
<1>16. (\A v \in ProjectionWorkers : HandHolds(v)') /\ (\A k \in 2..Len(jobs') : SyncHolds(k)')
  BY <1>9, <1>10, <1>12, <1>14, <1>15, OthersHold
<1>17. OrgQueue' /\ OrgApplied' /\ TeamQueue' /\ TeamApplied'
  <2>1. Len(jobs') = Len(jobs)
        /\ \A j \in 1..Len(jobs) : JobSame(j) /\ jobs'[j].applied = jobs[j].applied
    BY <1>10 DEF JobsKeptStep, JobSame
  <2>2. reopened' = reopened
    BY <1>10 DEF JobsKeptStep
  <2> QED BY <2>1, <2>2, <1>0, <1>5, <1>12, QueueStays DEF ProjectionInv
<1>18. RowsHold'
  <2>1. \A d \in OrgDepartments : HasGiven(d)' => HasGiven(d)
    BY <1>4, <1>10, <1>11 DEF HasGiven, JobsKeptStep
  <2>2. \A x, d : (IsScope(x)' <=> IsScope(x)) /\ (IsTeam(x, d)' <=> IsTeam(x, d))
    BY <1>5 DEF IsScope, IsTeam
  <2>3. IsTeam(i, t)
    BY <1>3 DEF IsTeam
  <2>4. \A d \in OrgDepartments : team'[d] # NoId => IsTeam(team'[d], d) /\ org.scope # NoId
    BY <2>3, <1>0, <1>1, <1>11 DEF RowsHold, HandHolds
  <2> QED BY <2>1, <2>2, <2>4, <1>0, <1>5, <1>10 DEF RowsHold, JobsKeptStep
<1>19. NoneLeft'
  <2>1. \A d : HasJob(d)' <=> HasJob(d)
    BY <1>10 DEF HasJob, JobsKeptStep
  <2>2. Left' \subseteq Left \ {t}
    BY <2>1, <1>4, <1>5, <1>11 DEF Left, NoId
  <2>3. h.job = 1 => skipped \/ Left' \subseteq rest
    BY <2>2, <1>0, <1>2, <1>9 DEF NoneLeft, ProjectionInv
  <2>4. h.job = 1 /\ rest = {} => skipped \/ Left' = {}
    BY <2>3
  <2> QED BY <2>2, <2>3, <2>4, <1>5, <1>7, <1>9, <1>10 DEF NoneLeft, JobsKeptStep, ProjectionInv
<1>20. OneAtATime'
  BY <1>0, <1>5, <1>7, <1>9, <1>10, SMTT(30) DEF OneAtATime, JobsKeptStep, ProjectionInv
<1> QED BY <1>12, <1>16, <1>17, <1>18, <1>19, <1>20 DEF ProjectionInv

-----------------------------------------------------------------------------
\* Two departments share no team.
LEMMA TeamsDiffer ==
    ASSUME ProjectionInv, NEW d \in OrgDepartments, NEW e \in OrgDepartments, NEW x,
           x # NoId, IsTeam(x, d), IsTeam(x, e),
           team[d] = x \/ \E j \in 1..Len(jobs) :
                            jobs[j].kind = "dept" /\ jobs[j].dept = d /\ jobs[j].team = x,
           team[e] = x \/ \E j \in 1..Len(jobs) :
                            jobs[j].kind = "dept" /\ jobs[j].dept = e /\ jobs[j].team = x
    PROVE  d = e
<1>1. CASE x = GivenTeam
  BY <1>1 DEF ProjectionInv, RowsHold, HasGiven
<1>2. CASE x # GivenTeam
  BY <1>2 DEF IsTeam
<1> QED BY <1>1, <1>2

LEMMA TeamIsNoScope ==
    ASSUME RowsHold, NEW d \in OrgDepartments, NEW x, IsTeam(x, d)
    PROVE  ~IsScope(x)
  BY ProjectionAssumption DEF RowsHold, IsTeam, IsScope, Given, GivenTeam

LEMMA AppliesStep ==
    ASSUME ProjectionInv, NEW w \in ProjectionWorkers, hand[w].pc \in {"start", "provisioned"},
           NEW i \in 1..Len(proxy), NEW j, j = hand[w].job, j # 1, Applies(w, i),
           \/ jobs[j].kind = "org" /\ i = jobs[j].scope
           \/ /\ jobs[j].kind = "dept" /\ IsTeam(i, jobs[j].dept) /\ team[jobs[j].dept] # NoId
              /\ i = jobs[j].team \/ (jobs[j].team = NoId /\ i = team[jobs[j].dept])
    PROVE  ProjectionInv'
<1>0. ProjectionTyped /\ RowsHold /\ Len(proxy) \in Nat /\ Len(jobs) \in Nat
  BY LensAreNats DEF ProjectionInv
<1>1. hand[w] \in HandStates /\ HandHolds(w) /\ j \in 1..Len(jobs) /\ jobs[j] \in JobRows
  <2>1. hand[w].pc # "idle"
    OBVIOUS
  <2> QED BY <2>1, HandOf
<1>2. SyncHolds(j) /\ j \in 2..Len(jobs)
  BY <1>1, KindsOfJobs
<1>3. PICK h : h = [hand[w] EXCEPT !.pc = "done"]
  OBVIOUS
<1>4. h \in HandStates /\ h.job = j /\ h.scope = hand[w].scope /\ h.pc = "done"
  BY <1>1, <1>3 DEF HandStates, HandSteps
<1>5. /\ hand' \in [ProjectionWorkers -> HandStates] /\ hand'[w] = h
      /\ \A v \in ProjectionWorkers : v # w => hand'[v] = hand[v]
  <2>1. hand' = [hand EXCEPT ![w] = h]
    BY <1>3 DEF Applies
  <2> QED BY <2>1, <1>0, <1>4, HandMoves
<1>6. PICK q : q = [jobs[j] EXCEPT !.applied = TRUE]
  OBVIOUS
<1>7. /\ q \in JobRows /\ q.applied = TRUE /\ q.kind = jobs[j].kind /\ q.dept = jobs[j].dept
      /\ q.scope = jobs[j].scope /\ q.team = jobs[j].team /\ q.blocks = jobs[j].blocks
      /\ q.state = jobs[j].state
  BY <1>1, <1>6 DEF JobRows
<1>8. /\ jobs' \in Seq(JobRows) /\ Len(jobs') = Len(jobs)
      /\ \A k \in 1..Len(jobs) : jobs'[k] = IF k = j THEN q ELSE jobs[k]
  <2>1. jobs' = [jobs EXCEPT ![j] = q] /\ jobs \in Seq(JobRows)
    BY <1>0, <1>6 DEF Applies, ProjectionTyped
  <2> QED BY <2>1, <1>1, <1>7, RowChanged
<1>9. \A k \in 1..Len(jobs) : /\ JobSame(k) /\ jobs'[k].state = jobs[k].state
                              /\ k = j => jobs'[k].applied
                              /\ k # j => jobs'[k].applied = jobs[k].applied
  BY <1>7, <1>8 DEF JobSame
<1>10. PICK e : e = [proxy[i] EXCEPT !.blocked = jobs[j].blocks,
                                     !.in = IF jobs[j].kind = "org" THEN @ ELSE jobs[j].scope]
  OBVIOUS
<1>11. /\ e \in ProxyRows /\ e.blocked = jobs[j].blocks /\ e.of = proxy[i].of
       /\ e.in = (IF jobs[j].kind = "org" THEN proxy[i].in ELSE jobs[j].scope)
  <2>1. proxy[i] \in ProxyRows
    BY <1>0 DEF ProjectionTyped
  <2>2. jobs[j].blocks \in BOOLEAN /\ jobs[j].scope \in Nat
    BY <1>1 DEF JobRows
  <2> QED BY <1>10, <2>1, <2>2 DEF ProxyRows
<1>12. /\ proxy' \in Seq(ProxyRows) /\ Len(proxy') = Len(proxy)
       /\ \A k \in 1..Len(proxy) : proxy'[k] = IF k = i THEN e ELSE proxy[k]
  <2>1. proxy' = [proxy EXCEPT ![i] = e] /\ proxy \in Seq(ProxyRows)
    BY <1>0, <1>10 DEF Applies, ProjectionTyped
  <2> QED BY <2>1, <1>11, RowChanged
<1>13. UNCHANGED <<org, status, team, orgEdits, overruns, adopted, skipped, reopened, muted, jobFaults>>
       /\ inOrder' = (inOrder /\ ~Overtaken(j))
  BY DEF Applies, directoryVars, historyVars, adoptionHistory
<1>14. ProjectionTyped'
  <2>1. inOrder' \in BOOLEAN
    BY <1>0, <1>13 DEF ProjectionTyped
  <2> QED BY <2>1, <1>0, <1>5, <1>8, <1>12, <1>13 DEF ProjectionTyped
<1>15. \A k \in 1..Len(proxy) : proxy'[k].of = proxy[k].of
  BY <1>11, <1>12
<1>16. Onward
  BY <1>0, <1>8, <1>9, <1>12, <1>13, <1>15, SMTT(30) DEF Onward, ObjectsStay
<1>17. \A x, d : (IsScope(x)' <=> IsScope(x)) /\ (IsTeam(x, d)' <=> IsTeam(x, d))
  BY <1>12, <1>15 DEF IsScope, IsTeam
<1>18. HandHolds(w)'
  <2>1. jobs'[j].applied /\ JobSame(j)
    BY <1>1, <1>9
  <2>2. jobs[j].kind = "dept" => team[jobs[j].dept] # NoId
    OBVIOUS
  <2>3. org.scope # NoId
    BY <1>0, <1>2 DEF RowsHold
  <2> QED BY <2>1, <2>2, <2>3, <1>1, <1>4, <1>5, <1>8, <1>12, <1>13 DEF HandHolds, JobSame
<1>19. ASSUME NEW v \in ProjectionWorkers PROVE HandHolds(v)'
  BY <1>0, <1>5, <1>14, <1>16, <1>18, HandStays DEF ProjectionInv
<1>20. ASSUME NEW k \in 2..Len(jobs') PROVE SyncHolds(k)'
  <2>1. k \in 2..Len(jobs) /\ k \in 1..Len(jobs) /\ SyncHolds(k)
    BY <1>0, <1>8 DEF ProjectionInv
  <2>2. jobs'[k].state = "sent" => jobs'[k].applied \/ k \in muted'
    BY <2>1, <1>9, <1>13 DEF SyncHolds
  <2> QED BY <2>1, <2>2, <1>0, <1>14, <1>16, JobStays
<1>21. RowsHold'
  <2>1. \A d : HasGiven(d)' <=> HasGiven(d)
    BY <1>8, <1>9, <1>13 DEF HasGiven, JobSame
  <2>2. \A k \in 1..Len(proxy') : proxy'[k].in <= Len(proxy')
    <3>1. jobs[j].scope <= Len(proxy)
      BY <1>0, <1>2 DEF SyncHolds, IsScope
    <3> QED BY <3>1, <1>0, <1>11, <1>12 DEF RowsHold
  <2>3. 1 \in 1..Len(jobs)
    BY KindsOfJobs
  <2>4. jobs'[1].kind = jobs[1].kind /\ jobs'[1].scope = jobs[1].scope /\ jobs'[1].team = jobs[1].team
    BY <2>3, <1>9 DEF JobSame
  <2>5. 1 \in 1..Len(proxy) /\ 2 \in 1..Len(proxy)
    BY <1>0 DEF RowsHold
  <2>6. proxy'[Given].of = proxy[Given].of /\ proxy'[GivenTeam].of = proxy[GivenTeam].of
    BY <2>5, <1>15 DEF Given, GivenTeam
  <2> QED BY <2>1, <2>2, <2>4, <2>6, <1>0, <1>8, <1>12, <1>13, <1>17 DEF RowsHold
<1>22. NoneLeft'
  <2>1. \A d : HasJob(d)' <=> HasJob(d)
    BY <1>8, <1>9, <1>13 DEF HasJob, JobSame
  <2>2. Left' = Left
    BY <2>1, <1>13 DEF Left
  <2>3. jobs'[1].state = jobs[1].state
    BY <1>9, KindsOfJobs
  <2> QED BY <2>2, <2>3, <1>4, <1>5, <1>13 DEF NoneLeft, ProjectionInv
<1>23. OneAtATime'
  <2> SUFFICES ASSUME overruns' = 0 PROVE OneAtATime'
    BY DEF OneAtATime
  <2>1. overruns = 0
    BY <1>13
  <2>2. \A v \in ProjectionWorkers : hand[v].pc # "idle" => hand[v].job \in 1..Len(jobs)
    BY DEF ProjectionInv, HandHolds
  <2>3. \A v \in ProjectionWorkers :
          /\ hand'[v].job = hand[v].job /\ (hand'[v].pc # "idle" => hand[v].pc # "idle")
          /\ (hand'[v].pc = "create" /\ hand'[v].target = "org" =>
                hand[v].pc = "create" /\ hand[v].target = "org")
    BY <1>4, <1>5
  <2>4. \A v \in ProjectionWorkers :
          hand'[v].pc # "idle" => jobs'[hand'[v].job].state \in {"processing", "sent"}
    BY <2>1, <2>2, <2>3, <1>9 DEF ProjectionInv, OneAtATime
  <2>5. \A u, v \in ProjectionWorkers :
          hand'[u].job = hand'[v].job /\ hand'[u].pc # "idle" /\ hand'[v].pc # "idle" => u = v
    BY <2>1, <2>3 DEF ProjectionInv, OneAtATime
  <2>6. /\ \A i1, k1 \in 1..Len(proxy') : proxy'[i1].of = "org" /\ proxy'[k1].of = "org" => i1 = k1
        /\ \A v \in ProjectionWorkers : hand'[v].pc = "create" /\ hand'[v].target = "org" =>
             \A i1 \in 1..Len(proxy') : proxy'[i1].of # "org"
    <3>1. /\ \A i1, k1 \in 1..Len(proxy) : proxy[i1].of = "org" /\ proxy[k1].of = "org" => i1 = k1
          /\ \A v \in ProjectionWorkers : hand[v].pc = "create" /\ hand[v].target = "org" =>
               \A i1 \in 1..Len(proxy) : proxy[i1].of # "org"
      BY <2>1 DEF ProjectionInv, OneAtATime
    <3>2. \A i1 \in 1..Len(proxy') : i1 \in 1..Len(proxy) /\ proxy'[i1].of = proxy[i1].of
      BY <1>12, <1>15
    <3> QED BY <3>1, <3>2, <2>3
  <2> QED BY <2>4, <2>5, <2>6 DEF OneAtATime
<1>24. OrgQueue'
  <2>1. \A k \in 1..Len(jobs) : \A x : OrgSync(k, x)' <=> OrgSync(k, x)
    BY <1>9 DEF OrgSync, JobSame
  <2>2. \A k \in 1..Len(jobs) : \A x : LastOf(k, x)' <=> LastOf(k, x)
    BY <1>8, <2>1 DEF LastOf
  <2>3. \A x : Closed(x)' = Closed(x)
    BY <1>13 DEF Closed
  <2>4. \A k \in 1..Len(jobs) : jobs'[k].blocks = jobs[k].blocks
    BY <1>9 DEF JobSame
  <2>5. OrgQueue
    BY DEF ProjectionInv
  <2>6. reopened' = reopened
    BY <1>13
  <2> QED BY <1>8, <1>12, <2>1, <2>2, <2>3, <2>4, <2>5, <2>6, ZenonT(60) DEF OrgQueue
<1>25. TeamQueue'
  BY <1>8, <1>9 DEF TeamQueue, Blocking, JobSame, ProjectionInv
<1> HIDE DEF ProjectionInv
<1>26. OrgApplied'
  <2>0. OrgApplied
    BY DEF ProjectionInv
  <2>1. \A k \in 1..Len(jobs) : \A x : OrgSync(k, x)' <=> OrgSync(k, x)
    BY <1>9 DEF OrgSync, JobSame
  <2>2. jobs[j].kind = "dept" => ~IsScope(i)
    BY <1>0, <1>1, TeamIsNoScope DEF JobRows
  <2>3. ASSUME NEW x \in 1..Len(proxy'), IsScope(x)', proxy'[x].blocked
        PROVE  \E k \in 1..Len(jobs') : OrgSync(k, x)'
    <3>1. CASE x = i
      BY <3>1, <2>1, <2>2, <2>3, <1>1, <1>8, <1>17 DEF OrgSync
    <3>2. CASE x # i
      BY <3>2, <2>0, <2>1, <2>3, <1>8, <1>12, <1>17 DEF OrgApplied
    <3> QED BY <3>1, <3>2
  <2>4. ASSUME inOrder', NEW k \in 1..Len(jobs'), jobs'[k].kind = "org", jobs'[k].applied,
               \A m \in 1..Len(jobs') :
                 jobs'[m].kind = "org" /\ jobs'[m].scope = jobs'[k].scope /\ jobs'[m].applied => m <= k
        PROVE  proxy'[jobs'[k].scope].blocked = jobs'[k].blocks
    <3>1. PICK x : x = jobs[k].scope
      OBVIOUS
    <3>2. /\ k \in 1..Len(jobs) /\ jobs[k].kind = "org" /\ jobs'[k].scope = x /\ jobs'[k].blocks = jobs[k].blocks
          /\ \A m \in 1..Len(jobs) : OrgSync(m, x) /\ jobs'[m].applied => m <= k
      <4>1. k \in 1..Len(jobs) /\ JobSame(k)
        BY <2>4, <1>8, <1>9
      <4>2. /\ jobs[k].kind = "org" /\ jobs'[k].scope = x /\ jobs'[k].blocks = jobs[k].blocks
        BY <4>1, <2>4, <3>1 DEF JobSame
      <4>3. ASSUME NEW m \in 1..Len(jobs), OrgSync(m, x), jobs'[m].applied PROVE m <= k
        <5>1. JobSame(m) /\ m \in 1..Len(jobs')
          BY <1>8, <1>9
        <5> QED BY <5>1, <4>2, <4>3, <2>4 DEF JobSame, OrgSync
      <4> QED BY <4>1, <4>2, <4>3
    <3>3. IsScope(x) /\ x \in 1..Len(proxy) /\ k # 1
      <4>1. k # 1
        BY <3>2, KindsOfJobs
      <4> QED BY <4>1, <3>1, <3>2, KindsOfJobs DEF SyncHolds, IsScope
    <3>4. inOrder /\ ~Overtaken(j)
      BY <2>4, <1>13
    <3>5. CASE jobs[j].kind = "org" /\ i = x
      <4>1. OrgSync(j, x) /\ jobs'[j].applied
        BY <3>5, <1>1, <1>9 DEF OrgSync
      <4>2. j <= k
        BY <4>1, <3>2, <1>1
      <4>3. CASE k = j
        BY <4>3, <3>2, <3>5, <1>11, <1>12
      <4>4. CASE k # j
        <5>1. k \in (j + 1)..Len(jobs) /\ jobs[k].applied
          BY <4>2, <4>4, <2>4, <3>2, <1>0, <1>1, <1>9
        <5>2. SameRow(j, k)
          BY <3>2, <3>3, <3>5, <1>2, KindsOfJobs DEF SameRow, SyncHolds
        <5> QED BY <5>1, <5>2, <3>4 DEF Overtaken
      <4> QED BY <4>3, <4>4
    <3>6. CASE i # x
      <4>1. k # j
        BY <3>1, <3>2, <3>6
      <4>2. jobs[k].applied
        BY <4>1, <2>4, <3>2, <1>9
      <4>3. \A m \in 1..Len(jobs) : OrgSync(m, x) /\ jobs[m].applied => m <= k
        BY <3>2, <1>9
      <4>4. proxy[x].blocked = jobs[k].blocks
        BY <4>2, <4>3, <3>1, <3>2, <3>4, <2>0 DEF OrgApplied
      <4> QED BY <4>4, <3>2, <3>3, <3>6, <1>12
    <3> QED BY <3>3, <3>5, <3>6, <2>2
  <2> QED BY <2>3, <2>4 DEF OrgApplied, OrgSync
<1>27. TeamApplied'
  <2>0. TeamApplied /\ TeamQueue
    BY DEF ProjectionInv
  <2>1. \A k \in 1..Len(jobs) : (Blocking(k)' <=> Blocking(k)) /\ jobs'[k].team = jobs[k].team
    BY <1>9 DEF Blocking, JobSame
  <2>2. jobs[j].kind = "org" => IsScope(i)
    BY <1>2 DEF SyncHolds
  <2>3. jobs[j].kind = "dept" /\ jobs[j].blocks => Blocking(j) /\ jobs[j].team = i
    BY <1>2 DEF SyncHolds, Blocking
  <2>4. ASSUME NEW x \in 1..Len(proxy'), ~IsScope(x)', proxy'[x].blocked
        PROVE  \E k \in 1..Len(jobs') : Blocking(k)' /\ jobs'[k].team = x
    <3>1. CASE x = i
      BY <3>1, <2>1, <2>2, <2>3, <2>4, <1>1, <1>8, <1>11, <1>12, <1>17
    <3>2. CASE x # i
      <4>1. x \in 1..Len(proxy) /\ ~IsScope(x) /\ proxy[x].blocked
        BY <3>2, <2>4, <1>12, <1>17
      <4>2. PICK k \in 1..Len(jobs) : Blocking(k) /\ jobs[k].team = x
        BY <4>1, <2>0 DEF TeamApplied
      <4> QED BY <4>2, <2>1, <1>8
    <3> QED BY <3>1, <3>2
  <2>5. ASSUME inOrder', NEW k \in 1..Len(jobs'), Blocking(k)', jobs'[k].applied
        PROVE  proxy'[jobs'[k].team].blocked
    <3>1. PICK x, d : x = jobs[k].team /\ d = jobs[k].dept
      OBVIOUS
    <3>2. k \in 1..Len(jobs) /\ Blocking(k) /\ jobs'[k].team = x /\ jobs[k].kind = "dept" /\ jobs[k].dept = d
      BY <2>1, <2>5, <3>1, <1>8 DEF Blocking
    <3>3. d \in OrgDepartments /\ SyncHolds(k)
      <4>1. k # 1 /\ jobs[k] \in JobRows
        BY <3>2, KindsOfJobs
      <4> QED BY <4>1, <3>1, <3>2, KindsOfJobs DEF JobRows
    <3>4. x # NoId /\ IsTeam(x, d) /\ x \in 1..Len(proxy)
      BY <3>1, <3>2, <3>3 DEF SyncHolds, Blocking, IsTeam
    <3>5. inOrder /\ ~Overtaken(j)
      BY <2>5, <1>13
    <3>6. CASE x = i
      <4>1. jobs[j].kind = "dept"
        BY <2>2, <3>3, <3>4, <3>6, <1>0, <1>2, TeamIsNoScope DEF SyncHolds
      <4>2. PICK c : c = jobs[j].dept
        OBVIOUS
      <4>3. c \in OrgDepartments /\ IsTeam(i, c)
        BY <4>1, <4>2, <1>1 DEF JobRows
      <4>4. /\ team[c] = i \/ \E m \in 1..Len(jobs) : jobs[m].kind = "dept" /\ jobs[m].dept = c /\ jobs[m].team = i
            /\ \E m \in 1..Len(jobs) : jobs[m].kind = "dept" /\ jobs[m].dept = d /\ jobs[m].team = i
        BY <4>1, <4>2, <3>1, <3>2, <3>6, <1>1
      <4>5. c = d
        BY <4>3, <4>4, <3>3, <3>4, <3>6, TeamsDiffer
      <4>6. CASE k = j
        BY <4>6, <3>2, <3>6, <1>11, <1>12 DEF Blocking
      <4>7. CASE k # j
        <5>1. jobs[k].applied
          BY <4>7, <2>5, <3>2, <1>9
        <5>2. SameRow(j, k)
          BY <4>1, <4>2, <4>5, <3>1, <3>2 DEF SameRow
        <5>3. k \in 1..Len(jobs) /\ j \in 1..Len(jobs) /\ k \notin (j + 1)..Len(jobs)
          BY <5>1, <5>2, <3>2, <3>5, <1>1 DEF Overtaken
        <5>4. k <= j
          BY <5>3, <1>0
        <5>5. jobs[j].blocks
          BY <5>3, <5>4, <2>0, <3>2, <4>1, <4>2, <4>5, <3>1 DEF TeamQueue
        <5> QED BY <5>5, <3>2, <3>6, <1>11, <1>12
      <4> QED BY <4>6, <4>7
    <3>7. CASE x # i
      <4>1. jobs[k].applied
        <5>1. k # j
          BY <2>3, <3>1, <3>2, <3>7 DEF Blocking
        <5> QED BY <5>1, <2>5, <3>2, <1>9
      <4>2. proxy[x].blocked
        BY <4>1, <2>0, <3>1, <3>2, <3>5 DEF TeamApplied
      <4> QED BY <4>2, <3>2, <3>4, <3>7, <1>12
    <3> QED BY <3>6, <3>7
  <2> QED BY <2>4, <2>5 DEF TeamApplied
<1> QED BY <1>14, <1>19, <1>20, <1>21, <1>22, <1>23, <1>24, <1>25, <1>26, <1>27 DEF ProjectionInv

LEMMA SyncsStep ==
    ASSUME ProjectionInv, NEW w \in ProjectionWorkers, SyncOrganization(w) \/ SyncDepartment(w)
    PROVE  ProjectionInv'
<1>1. PICK j : j = hand[w].job
  OBVIOUS
<1>2. hand[w].pc \in {"start", "provisioned"}
  BY DEF SyncOrganization, SyncDepartment, Busy
<1>3. j \in 1..Len(jobs) /\ jobs[j] \in JobRows
  <2>1. hand[w].pc # "idle"
    BY <1>2
  <2> QED BY <2>1, <1>1, HandOf
<1>4. jobs[j].kind \in {"org", "dept"} /\ j # 1 /\ SyncHolds(j)
  <2>1. jobs[j].kind \in {"org", "dept"}
    BY <1>1 DEF SyncOrganization, SyncDepartment, Doing
  <2> QED BY <2>1, <1>3, KindsOfJobs
<1>5. CASE SyncOrganization(w)
  <2>1. jobs[j].kind = "org" /\ Applies(w, jobs[j].scope)
    BY <1>1, <1>5 DEF SyncOrganization, Doing
  <2>2. jobs[j].scope \in 1..Len(proxy)
    BY <1>4 DEF SyncHolds, IsScope
  <2> QED BY <2>1, <2>2, <1>1, <1>2, <1>4, AppliesStep
<1>6. CASE SyncDepartment(w)
  <2>1. PICK i, d : /\ d = jobs[j].dept
                    /\ i = IF jobs[j].team # NoId THEN jobs[j].team ELSE team[d]
    OBVIOUS
  <2>2. jobs[j].kind = "dept" /\ i # NoId /\ Applies(w, i)
    BY <1>1, <1>6, <2>1 DEF SyncDepartment, Doing, TeamOf
  <2>3. d \in OrgDepartments
    BY <1>3, <2>1 DEF JobRows
  <2>4. IsTeam(i, d) /\ team[d] # NoId
    BY <1>4, <2>1, <2>2, <2>3 DEF SyncHolds, ProjectionInv, RowsHold
  <2>5. i \in 1..Len(proxy)
    BY <2>4 DEF IsTeam
  <2> QED BY <2>1, <2>2, <2>4, <2>5, <1>1, <1>2, <1>4, AppliesStep
<1> QED BY <1>5, <1>6

-----------------------------------------------------------------------------
LEMMA FirstAdoptionStep ==
    ASSUME ProjectionInv, NEW d \in OrgDepartments, AdoptExistingUpstreamScope(d), ~adopted
    PROVE  ProjectionInv'
<1>0. /\ ProjectionTyped /\ RowsHold /\ Len(proxy) \in Nat /\ Len(jobs) \in Nat
      /\ ~adopted /\ adopted' = TRUE /\ org' = [status |-> "active", scope |-> Given]
      /\ team' = [team EXCEPT ![d] = GivenTeam]
      /\ skipped' = (skipped \/ Unmapped \ {d} # {})
      /\ reopened' \in BOOLEAN
      /\ UNCHANGED <<status, proxy, hand, orgEdits, jobFaults, overruns, muted, inOrder>>
  BY LensAreNats DEF ProjectionInv, ProjectionTyped, AdoptExistingUpstreamScope
<1>1. org.scope = NoId /\ Len(jobs) = 1 /\ \A e \in OrgDepartments : ~HasGiven(e)
  <2>1. org.scope = NoId
    BY <1>0 DEF RowsHold, AdoptExistingUpstreamScope
  <2>2. Len(jobs) = 1
    <3>1. Len(jobs) >= 1 /\ ~(Len(jobs) > 1)
      BY <2>1, <1>0 DEF RowsHold
    <3>2. Len(jobs) \in Nat
      BY LensAreNats DEF ProjectionInv
    <3>3. PICK n \in Nat : n = Len(jobs)
      BY <3>2
    <3>4. n >= 1 /\ ~(n > 1)
      BY <3>1, <3>3
    <3>5. n = 1
      BY <3>4
    <3> QED BY <3>3, <3>5
  <2> QED BY <2>1, <2>2, <1>0 DEF RowsHold
<1>2. jobs' = [j \in 1..1 |->
                 IF jobs[j].kind = "provision" /\ jobs[j].state \in {"pending", "processing"}
                 THEN [jobs[j] EXCEPT !.state = "sent"] ELSE jobs[j]]
  BY <1>0, <1>1 DEF AdoptExistingUpstreamScope, ProjectionTyped
<1>3. PICK q : q = [jobs[1] EXCEPT !.state = "sent"]
  OBVIOUS
<1>4. jobs[1] \in JobRows /\ jobs[1].kind = "provision"
  BY <1>1, KindsOfJobs
<1>5. q \in JobRows /\ q.state = "sent" /\ q.kind = "provision" /\ q.dept = jobs[1].dept
      /\ q.scope = jobs[1].scope /\ q.team = jobs[1].team /\ q.blocks = jobs[1].blocks
      /\ q.applied = jobs[1].applied
  BY <1>3, <1>4 DEF JobRows
<1>6. jobs' \in Seq(JobRows) /\ Len(jobs') = 1 /\ (jobs'[1] = jobs[1] \/ jobs'[1] = q)
  <2>1. jobs' \in [1..1 -> JobRows]
    BY <1>2, <1>3, <1>4, <1>5
  <2>2. ASSUME NEW S, NEW n \in Nat, NEW f \in [1..n -> S] PROVE f \in Seq(S) /\ Len(f) = n
    OBVIOUS
  <2>3. jobs' \in Seq(JobRows) /\ Len(jobs') = 1
    BY <2>1, <2>2
  <2>4. jobs'[1] = jobs[1] \/ jobs'[1] = q
    BY <1>2, <1>3
  <2> QED BY <2>3, <2>4
<1>7. \A j \in 1..1 : j = 1
  OBVIOUS
<1>8. \A j \in 1..Len(jobs) : JobSame(j) /\ jobs'[j].applied = jobs[j].applied /\ j = 1
                              /\ jobs'[j].state \in {jobs[j].state, "sent"}
  BY <1>1, <1>4, <1>5, <1>6, <1>7 DEF JobSame
<1>9. /\ team'[d] = GivenTeam /\ \A e \in OrgDepartments : e # d => team'[e] = team[e]
      /\ team' \in [OrgDepartments -> Nat]
  <2>1. team \in [OrgDepartments -> Nat] /\ GivenTeam \in Nat
    BY <1>0 DEF ProjectionTyped, GivenTeam
  <2> QED BY <2>1, <1>0
<1>10. ProjectionTyped'
  <2>1. org' \in [status : {"provisioning", "active", "archived"}, scope : Nat]
    BY <1>0 DEF Given
  <2>2. skipped' \in BOOLEAN /\ adopted' \in BOOLEAN
    BY <1>0
  <2>3. muted' \subseteq 1..Len(jobs')
    BY <1>0, <1>1, <1>6 DEF ProjectionTyped
  <2> QED BY <2>1, <2>2, <2>3, <1>0, <1>6, <1>9 DEF ProjectionTyped
<1>11. Onward
  BY <1>0, <1>1, <1>6, <1>8, <1>9 DEF Onward, ObjectsStay, GivenTeam, NoId
<1>12. \A v \in ProjectionWorkers : HandHolds(v)'
  BY <1>0, <1>10, <1>11, HandStays DEF ProjectionInv
<1>13. \A k \in 2..Len(jobs') : SyncHolds(k)'
  BY <1>6
<1>14. \A x, e : (IsScope(x)' <=> IsScope(x)) /\ (IsTeam(x, e)' <=> IsTeam(x, e))
  BY <1>0 DEF IsScope, IsTeam
<1>15. RowsHold'
  <2>1. \A e \in OrgDepartments : HasGiven(e)' => e = d
    <3>1. \A j \in 1..Len(jobs') : jobs'[j].kind = "provision"
      BY <1>4, <1>5, <1>6, <1>7
    <3> QED BY <3>1, <1>1, <1>9 DEF HasGiven
  <2>2. IsScope(Given) /\ IsTeam(GivenTeam, d)
    BY <1>0 DEF RowsHold, IsScope, IsTeam, Given, GivenTeam
  <2>3. org'.scope = Given /\ Given # NoId
    BY <1>0 DEF Given, NoId
  <2>4. \A e \in OrgDepartments : team'[e] # NoId => IsTeam(team'[e], e)
    BY <2>2, <1>0, <1>9 DEF RowsHold
  <2>5. jobs'[1].kind = "provision" /\ jobs'[1].scope = NoId /\ jobs'[1].team = NoId
    BY <1>0, <1>4, <1>5, <1>6 DEF RowsHold
  <2> QED BY <2>1, <2>2, <2>3, <2>4, <2>5, <1>0, <1>6, <1>14 DEF RowsHold
<1>16. NoneLeft'
  <2>1. Left' \subseteq Unmapped \ {d}
    BY <1>0, <1>9 DEF Left, Unmapped, GivenTeam, NoId
  <2>2. skipped' \/ Left' = {}
    BY <2>1, <1>0
  <2>3. org'.scope # NoId
    BY <1>0 DEF Given, NoId
  <2> QED BY <2>2, <2>3 DEF NoneLeft
<1>17. OneAtATime'
  <2> SUFFICES ASSUME overruns' = 0 PROVE OneAtATime'
    BY DEF OneAtATime
  <2>1. \A v \in ProjectionWorkers : hand[v].pc # "idle" => hand[v].job \in 1..Len(jobs)
    BY DEF ProjectionInv, HandHolds
  <2>2. \A v \in ProjectionWorkers : hand[v].pc # "idle" => jobs'[hand[v].job].state \in {"processing", "sent"}
    BY <2>1, <1>0, <1>8 DEF ProjectionInv, OneAtATime
  <2> QED BY <2>2, <1>0 DEF OneAtATime, ProjectionInv
<1>18. OrgQueue' /\ OrgApplied' /\ TeamQueue' /\ TeamApplied'
  <2>1. \A j \in 1..Len(jobs') : jobs'[j].kind = "provision"
    BY <1>4, <1>5, <1>6, <1>7
  <2>2. \A j \in 1..Len(jobs) : jobs[j].kind = "provision"
    BY <1>1, <1>4, <1>7
  <2>3. OrgQueue'
    BY <2>1, <1>0 DEF OrgQueue, OrgSync, Closed
  <2>4. OrgApplied'
    BY <2>1, <2>2, <1>0, <1>14 DEF OrgApplied, OrgSync, ProjectionInv
  <2>5. TeamQueue' /\ TeamApplied'
    BY <2>1, <2>2, <1>0, <1>14 DEF TeamQueue, TeamApplied, Blocking, ProjectionInv
  <2> QED BY <2>3, <2>4, <2>5
<1> QED BY <1>10, <1>12, <1>13, <1>15, <1>16, <1>17, <1>18 DEF ProjectionInv

\* The operation is applied again: the department has its team, and the row of
\* an archived organization is opened.
LEMMA NextAdoptionStep ==
    ASSUME ProjectionInv, NEW d \in OrgDepartments, AdoptExistingUpstreamScope(d), adopted
    PROVE  ProjectionInv'
<1>0. /\ ProjectionTyped /\ RowsHold /\ Len(proxy) \in Nat /\ Len(jobs) \in Nat
      /\ team[d] = GivenTeam /\ adopted' = TRUE /\ org' = [status |-> "active", scope |-> Given]
      /\ team' = [team EXCEPT ![d] = GivenTeam]
      /\ skipped' = (skipped \/ Unmapped \ {d} # {})
      /\ reopened' = (reopened \/ org = [status |-> "archived", scope |-> Given])
      /\ UNCHANGED <<status, proxy, hand, orgEdits, jobFaults, overruns, muted, inOrder>>
  BY LensAreNats DEF ProjectionInv, AdoptExistingUpstreamScope
<1>1. team' = team /\ org.scope = Given
  <2>1. team' = team
    BY <1>0 DEF ProjectionTyped
  <2>2. org.scope # NoId
    BY <1>0 DEF RowsHold, NoId, GivenTeam
  <2> QED BY <2>1, <2>2 DEF AdoptExistingUpstreamScope
<1>2. /\ jobs' \in Seq(JobRows) /\ Len(jobs') = Len(jobs)
      /\ \A j \in 1..Len(jobs) :
           /\ JobSame(j) /\ jobs'[j].applied = jobs[j].applied
           /\ jobs'[j].state \in {jobs[j].state, "sent"} /\ (j # 1 => jobs'[j] = jobs[j])
  <2>1. jobs' = [j \in 1..Len(jobs) |->
                   IF jobs[j].kind = "provision" /\ jobs[j].state \in {"pending", "processing"}
                   THEN [jobs[j] EXCEPT !.state = "sent"] ELSE jobs[j]]
    BY <1>0 DEF AdoptExistingUpstreamScope, ProjectionTyped
  <2>2. ASSUME NEW r \in JobRows
        PROVE  LET u == [r EXCEPT !.state = "sent"]
               IN /\ u \in JobRows /\ u.state = "sent" /\ u.kind = r.kind /\ u.dept = r.dept
                  /\ u.scope = r.scope /\ u.team = r.team /\ u.blocks = r.blocks
                  /\ u.applied = r.applied
    BY DEF JobRows
  <2>3. \A j \in 1..Len(jobs) : jobs[j] \in JobRows /\ (jobs[j].kind = "provision" <=> j = 1)
    BY KindsOfJobs
  <2>4. \A j \in 1..Len(jobs) :
          jobs'[j] = IF jobs[j].kind = "provision" /\ jobs[j].state \in {"pending", "processing"}
                     THEN [jobs[j] EXCEPT !.state = "sent"] ELSE jobs[j]
    BY <2>1
  <2>5. jobs' \in [1..Len(jobs) -> JobRows]
    BY <2>1, <2>2, <2>3
  <2>6. ASSUME NEW S, NEW n \in Nat, NEW f \in [1..n -> S] PROVE f \in Seq(S) /\ Len(f) = n
    OBVIOUS
  <2>7. jobs' \in Seq(JobRows) /\ Len(jobs') = Len(jobs)
    BY <1>0, <2>5, <2>6
  <2>8. ASSUME NEW j \in 1..Len(jobs)
        PROVE  /\ JobSame(j) /\ jobs'[j].applied = jobs[j].applied
               /\ jobs'[j].state \in {jobs[j].state, "sent"} /\ (j # 1 => jobs'[j] = jobs[j])
    <3>1. CASE jobs[j].kind = "provision" /\ jobs[j].state \in {"pending", "processing"}
      <4>1. jobs'[j] = [jobs[j] EXCEPT !.state = "sent"] /\ j = 1 /\ jobs[j] \in JobRows
        BY <2>3, <2>4, <3>1
      <4> QED BY <2>2, <4>1 DEF JobSame
    <3>2. CASE ~(jobs[j].kind = "provision" /\ jobs[j].state \in {"pending", "processing"})
      <4>1. jobs'[j] = jobs[j]
        BY <2>4, <3>2
      <4> QED BY <4>1 DEF JobSame
    <3> QED BY <3>1, <3>2
  <2> QED BY <2>7, <2>8
<1>3. ProjectionTyped'
  <2>1. org' \in [status : {"provisioning", "active", "archived"}, scope : Nat]
    BY <1>0 DEF Given
  <2>2. skipped' \in BOOLEAN /\ adopted' \in BOOLEAN /\ reopened' \in BOOLEAN
    BY <1>0 DEF ProjectionTyped
  <2> QED BY <2>1, <2>2, <1>0, <1>1, <1>2 DEF ProjectionTyped
<1>4. Onward
  BY <1>0, <1>1, <1>2 DEF Onward, ObjectsStay, NoId, Given
<1>5. \A v \in ProjectionWorkers : HandHolds(v)'
  BY <1>0, <1>3, <1>4, HandStays DEF ProjectionInv
<1>6. ASSUME NEW k \in 2..Len(jobs') PROVE SyncHolds(k)'
  <2>1. k \in 2..Len(jobs) /\ k \in 1..Len(jobs) /\ k # 1 /\ SyncHolds(k)
    BY <1>0, <1>2 DEF ProjectionInv
  <2>2. jobs'[k].state = "sent" => jobs'[k].applied \/ k \in muted'
    BY <2>1, <1>0, <1>2 DEF SyncHolds
  <2> QED BY <2>1, <2>2, <1>0, <1>3, <1>4, JobStays
<1>7. \A x, e : (IsScope(x)' <=> IsScope(x)) /\ (IsTeam(x, e)' <=> IsTeam(x, e))
  BY <1>0 DEF IsScope, IsTeam
<1>8. RowsHold'
  <2>1. \A e : HasGiven(e)' <=> HasGiven(e)
    BY <1>1, <1>2 DEF HasGiven, JobSame
  <2>2. IsScope(Given) /\ Given # NoId /\ org'.scope = Given
    BY <1>0, <1>1 DEF RowsHold, Given, NoId
  <2>3. jobs'[1].kind = "provision" /\ jobs'[1].scope = NoId /\ jobs'[1].team = NoId
    BY <1>0, <1>2, KindsOfJobs DEF RowsHold, JobSame
  <2> QED BY <2>1, <2>2, <2>3, <1>0, <1>1, <1>2, <1>7 DEF RowsHold
<1>9. NoneLeft'
  <2>1. team[d] # NoId
    BY <1>0 DEF NoId, GivenTeam
  <2>2. Left' \subseteq Unmapped \ {d}
    BY <2>1, <1>0, <1>1 DEF Left, Unmapped
  <2>3. skipped' \/ Left' = {}
    BY <2>2, <1>0
  <2>4. org'.scope # NoId
    BY <1>0 DEF Given, NoId
  <2> QED BY <2>3, <2>4 DEF NoneLeft
<1>10. OneAtATime'
  <2> SUFFICES ASSUME overruns' = 0 PROVE OneAtATime'
    BY DEF OneAtATime
  <2>1. \A v \in ProjectionWorkers : hand[v].pc # "idle" => hand[v].job \in 1..Len(jobs)
    BY DEF ProjectionInv, HandHolds
  <2>2. \A v \in ProjectionWorkers : hand[v].pc # "idle" => jobs'[hand[v].job].state \in {"processing", "sent"}
    BY <2>1, <1>0, <1>2 DEF ProjectionInv, OneAtATime
  <2> QED BY <2>2, <1>0 DEF OneAtATime, ProjectionInv
<1>11. OrgQueue'
  <2>1. \A k \in 1..Len(jobs) : \A x : (OrgSync(k, x)' <=> OrgSync(k, x)) /\ jobs'[k].blocks = jobs[k].blocks
    BY <1>2 DEF OrgSync, JobSame
  <2>2. \A k \in 1..Len(jobs) : \A x : LastOf(k, x)' <=> LastOf(k, x)
    BY <1>2, <2>1 DEF LastOf
  <2>3. \A x : Closed(x)' = FALSE
    BY <1>0 DEF Closed
  <2>4. \A x : Closed(x) = FALSE \/ (x = Given /\ reopened')
    <3>1. org \in [status : {"provisioning", "active", "archived"}, scope : Nat]
      BY <1>0 DEF ProjectionTyped
    <3>2. org.status = "archived" => org = [status |-> "archived", scope |-> Given]
      BY <3>1, <1>1
    <3> QED BY <3>2, <1>0, <1>1 DEF Closed
  <2>5. OrgQueue /\ (reopened => reopened') /\ proxy' = proxy
    BY <1>0 DEF ProjectionInv
  <2> QED BY <2>1, <2>2, <2>3, <2>4, <2>5, <1>2 DEF OrgQueue
<1>12. OrgApplied' /\ TeamQueue' /\ TeamApplied'
  <2>0. OrgApplied /\ TeamQueue /\ TeamApplied /\ proxy' = proxy /\ inOrder' = inOrder
    BY <1>0 DEF ProjectionInv
  <2>1. \A j \in 1..Len(jobs) :
          /\ Blocking(j)' <=> Blocking(j)
          /\ jobs'[j].kind = jobs[j].kind /\ jobs'[j].dept = jobs[j].dept
          /\ jobs'[j].team = jobs[j].team /\ jobs'[j].scope = jobs[j].scope
          /\ jobs'[j].blocks = jobs[j].blocks /\ jobs'[j].applied = jobs[j].applied
          /\ \A x : OrgSync(j, x)' <=> OrgSync(j, x)
    BY <1>2 DEF Blocking, OrgSync, JobSame
  <2>2. OrgApplied'
    BY <2>0, <2>1, <1>2, <1>7 DEF OrgApplied
  <2>3. TeamQueue'
    BY <2>0, <2>1, <1>2 DEF TeamQueue
  <2>4. TeamApplied'
    BY <2>0, <2>1, <1>2, <1>7 DEF TeamApplied
  <2> QED BY <2>2, <2>3, <2>4
<1> QED BY <1>3, <1>5, <1>6, <1>8, <1>9, <1>10, <1>11, <1>12 DEF ProjectionInv

LEMMA AdoptStep ==
    ASSUME ProjectionInv, NEW d \in OrgDepartments, AdoptExistingUpstreamScope(d)
    PROVE  ProjectionInv'
<1>1. CASE adopted
  BY <1>1, NextAdoptionStep
<1>2. CASE ~adopted
  BY <1>2, FirstAdoptionStep
<1> QED BY <1>1, <1>2

-----------------------------------------------------------------------------
\* An administrator's edit: one row changes, and at most one job is queued.
EditFrame ==
  UNCHANGED <<team, proxy, hand, jobFaults, overruns, adopted, muted, inOrder>> /\ org'.scope = org.scope

\* The job queued, if any, is the next one.
Queues(q) ==
  /\ jobs' \in Seq(JobRows)
  /\ \A j \in 1..Len(jobs) : jobs'[j] = jobs[j]
  /\ \/ Len(jobs') = Len(jobs)
     \/ Len(jobs') = Len(jobs) + 1 /\ jobs'[Len(jobs) + 1] = q /\ org.scope # NoId

LEMMA JobMade ==
    ASSUME NEW kind \in {"org", "dept"}, NEW d \in OrgDepartments,
           NEW x \in Nat, NEW t \in Nat, NEW b \in BOOLEAN
    PROVE  Job(kind, d, x, t, b) \in JobRows
BY DEF Job, JobRows

LEMMA JobQueued ==
    ASSUME ProjectionTyped, NEW q \in JobRows,
           jobs' = jobs \/ (jobs' = Append(jobs, q) /\ org.scope # NoId)
    PROVE  Queues(q)
<1>1. jobs \in Seq(JobRows)
  BY DEF ProjectionTyped
<1>2. CASE jobs' = jobs
  BY <1>1, <1>2 DEF Queues
<1>3. CASE jobs' = Append(jobs, q) /\ org.scope # NoId
  BY <1>1, <1>3, RowAppended DEF Queues
<1> QED BY <1>2, <1>3

LEMMA EditKeeps ==
    ASSUME ProjectionInv, NEW q \in JobRows, Queues(q), EditFrame, ProjectionTyped',
           q.kind \in {"org", "dept"}, q.state = "pending", q.applied = FALSE,
           q.scope = org.scope,
           q.kind = "org" => q.dept = FirstDepartment /\ q.team = NoId,
           q.kind = "dept" => q.team \in {NoId, team[q.dept]},
           q.kind = "dept" /\ q.blocks => q.team # NoId /\ status'[q.dept] = "archived",
           \A d \in OrgDepartments : status[d] = "archived" => status'[d] = "archived"
    PROVE  /\ (\A v \in ProjectionWorkers : HandHolds(v)') /\ (\A k \in 2..Len(jobs') : SyncHolds(k)')
           /\ RowsHold' /\ OneAtATime' /\ OrgApplied' /\ TeamApplied'
<1>0. ProjectionTyped /\ RowsHold /\ Len(proxy) \in Nat /\ Len(jobs) \in Nat /\ Len(jobs) >= 1
  BY LensAreNats DEF ProjectionInv, RowsHold
<1>1. Onward
  <2>1. Len(jobs) <= Len(jobs') /\ \A j \in 1..Len(jobs) : jobs'[j] = jobs[j]
    BY <1>0 DEF Queues
  <2> QED BY <2>1, <1>0 DEF Onward, ObjectsStay, JobSame, EditFrame
<1>2. \A v \in ProjectionWorkers : HandHolds(v)'
  BY <1>0, <1>1, HandStays DEF ProjectionInv, EditFrame
<1>3. \A x, d : (IsScope(x)' <=> IsScope(x)) /\ (IsTeam(x, d)' <=> IsTeam(x, d))
  BY DEF IsScope, IsTeam, EditFrame
<1>4. \A k \in 1..Len(jobs') :
        \/ k \in 1..Len(jobs) /\ jobs'[k] = jobs[k]
        \/ k = Len(jobs) + 1 /\ jobs'[k] = q /\ org.scope # NoId
  BY <1>0 DEF Queues
<1>5. q.dept \in OrgDepartments /\ q.team \in Nat
  BY DEF JobRows
<1>6. ASSUME NEW k \in 2..Len(jobs') PROVE SyncHolds(k)'
  <2>1. k \in 1..Len(jobs')
    BY DEF Queues
  <2>2. CASE k \in 1..Len(jobs) /\ jobs'[k] = jobs[k]
    <3>1. k \in 2..Len(jobs) /\ SyncHolds(k)
      BY <2>2, <1>0 DEF ProjectionInv
    <3>2. jobs'[k].state = "sent" => jobs'[k].applied \/ k \in muted'
      BY <2>2, <3>1 DEF SyncHolds, EditFrame
    <3> QED BY <3>1, <3>2, <1>0, <1>1, JobStays
  <2>3. CASE jobs'[k] = q /\ org.scope # NoId
    <3>1. PICK x, t, d : x = q.scope /\ t = q.team /\ d = q.dept
      OBVIOUS
    <3>2. IsScope(x)'
      BY <2>3, <3>1, <1>0, <1>3 DEF RowsHold
    <3>3. q.kind = "dept" /\ t # NoId => team'[d] # NoId /\ IsTeam(t, d)'
      BY <3>1, <1>0, <1>3, <1>5 DEF RowsHold, EditFrame
    <3> QED BY <2>3, <3>1, <3>2, <3>3 DEF SyncHolds
  <2> QED BY <2>1, <2>2, <2>3, <1>4
<1>7. RowsHold'
  <2>1. ASSUME NEW d \in OrgDepartments, HasGiven(d)' PROVE HasGiven(d)
    <3>1. CASE team'[d] = GivenTeam
      BY <3>1 DEF HasGiven, EditFrame
    <3>2. ASSUME NEW k \in 1..Len(jobs'), jobs'[k].kind = "dept", jobs'[k].dept = d, jobs'[k].team = GivenTeam
          PROVE  HasGiven(d)
      <4>1. CASE k \in 1..Len(jobs) /\ jobs'[k] = jobs[k]
        BY <3>2, <4>1 DEF HasGiven
      <4>2. CASE jobs'[k] = q
        BY <3>2, <4>2 DEF HasGiven, GivenTeam, NoId
      <4> QED BY <4>1, <4>2, <1>4
    <3> QED BY <2>1, <3>1, <3>2 DEF HasGiven
  <2>2. 1 \in 1..Len(jobs) /\ jobs'[1] = jobs[1] /\ Len(jobs') >= 1
    BY <1>0 DEF Queues
  <2>3. Len(jobs') > 1 => org.scope # NoId
    BY <1>0 DEF Queues, RowsHold
  <2> QED BY <2>1, <2>2, <2>3, <1>0, <1>3 DEF RowsHold, EditFrame
<1>8. OneAtATime'
  <2>1. \A v \in ProjectionWorkers :
          hand[v].pc # "idle" => hand[v].job \in 1..Len(jobs) /\ jobs'[hand[v].job] = jobs[hand[v].job]
    BY DEF ProjectionInv, HandHolds, Queues
  <2> QED BY <2>1 DEF OneAtATime, EditFrame, ProjectionInv
<1>9. OrgApplied'
  <2>0. OrgApplied
    BY DEF ProjectionInv
  <2>1. ASSUME NEW x \in 1..Len(proxy'), IsScope(x)', proxy'[x].blocked
        PROVE  \E k \in 1..Len(jobs') : OrgSync(k, x)'
    <3>1. PICK k \in 1..Len(jobs) : OrgSync(k, x)
      BY <2>0, <2>1, <1>3 DEF OrgApplied, EditFrame
    <3>2. k \in 1..Len(jobs') /\ jobs'[k] = jobs[k]
      BY <3>1, <1>0 DEF Queues
    <3> QED BY <3>1, <3>2 DEF OrgSync
  <2>2. ASSUME inOrder', NEW k \in 1..Len(jobs'), jobs'[k].kind = "org", jobs'[k].applied,
               \A m \in 1..Len(jobs') :
                 jobs'[m].kind = "org" /\ jobs'[m].scope = jobs'[k].scope /\ jobs'[m].applied => m <= k
        PROVE  proxy'[jobs'[k].scope].blocked = jobs'[k].blocks
    <3>1. k \in 1..Len(jobs) /\ jobs'[k] = jobs[k]
      BY <2>2, <1>4
    <3>2. \A m \in 1..Len(jobs) : OrgSync(m, jobs[k].scope) /\ jobs[m].applied => m <= k
      <4>1. \A m \in 1..Len(jobs) : m \in 1..Len(jobs') /\ jobs'[m] = jobs[m]
        BY <1>0 DEF Queues
      <4> QED BY <4>1, <3>1, <2>2 DEF OrgSync
    <3> QED BY <3>1, <3>2, <2>0, <2>2 DEF OrgApplied, EditFrame
  <2> QED BY <2>1, <2>2 DEF OrgApplied, OrgSync
<1>10. TeamApplied'
  <2>0. TeamApplied
    BY DEF ProjectionInv
  <2>1. ASSUME NEW x \in 1..Len(proxy'), ~IsScope(x)', proxy'[x].blocked
        PROVE  \E k \in 1..Len(jobs') : Blocking(k)' /\ jobs'[k].team = x
    <3>1. PICK k \in 1..Len(jobs) : Blocking(k) /\ jobs[k].team = x
      BY <2>0, <2>1, <1>3 DEF TeamApplied, EditFrame
    <3>2. k \in 1..Len(jobs') /\ jobs'[k] = jobs[k]
      BY <3>1, <1>0 DEF Queues
    <3> QED BY <3>1, <3>2 DEF Blocking
  <2>2. ASSUME inOrder', NEW k \in 1..Len(jobs'), Blocking(k)', jobs'[k].applied
        PROVE  proxy'[jobs'[k].team].blocked
    <3>1. k \in 1..Len(jobs) /\ jobs'[k] = jobs[k]
      BY <2>2, <1>4
    <3> QED BY <3>1, <2>0, <2>2 DEF TeamApplied, EditFrame, Blocking
  <2> QED BY <2>1, <2>2 DEF TeamApplied
<1> QED BY <1>2, <1>6, <1>7, <1>8, <1>9, <1>10

\* What is left of departments, where none was added and jobs were only queued.
LEMMA LeftShrinks ==
    ASSUME ProjectionInv, NEW q, Queues(q), EditFrame,
           NEW D \in SUBSET OrgDepartments,
           \A d \in OrgDepartments \ D : status'[d] = "active" => status[d] = "active"
    PROVE  Left' \subseteq Left \union D
<1>1. ASSUME NEW d, HasJob(d) PROVE HasJob(d)'
  <2>1. PICK k \in 1..Len(jobs) :
          jobs[k].kind = "dept" /\ jobs[k].dept = d /\ (jobs[k].state # "sent" \/ k \in muted)
    BY <1>1 DEF HasJob
  <2>2. k \in 1..Len(jobs') /\ jobs'[k] = jobs[k]
    BY <2>1, LensAreNats DEF Queues, ProjectionInv
  <2> QED BY <2>1, <2>2 DEF HasJob, EditFrame
<1> QED BY <1>1 DEF Left, EditFrame

LEMMA NoneLeftStays ==
    ASSUME ProjectionInv, NEW q, Queues(q), EditFrame, skipped => skipped', skipped' \/ Left' \subseteq Left
    PROVE  NoneLeft'
<1>1. 1 \in 1..Len(jobs) /\ jobs'[1] = jobs[1]
  BY KindsOfJobs DEF Queues
<1> QED BY <1>1 DEF NoneLeft, EditFrame, ProjectionInv

LEMMA OrgEdited ==
    ASSUME ProjectionInv, NEW new \in {"provisioning", "active", "archived"}, SetOrgStatus(new),
           skipped' \in BOOLEAN, skipped => skipped'
    PROVE  ProjectionInv'
<1>0. /\ ProjectionTyped /\ RowsHold /\ Len(jobs) \in Nat /\ Len(proxy) \in Nat
      /\ org \in [status : {"provisioning", "active", "archived"}, scope : Nat]
  BY LensAreNats DEF ProjectionInv, ProjectionTyped
<1>1. PICK x \in Nat : x = org.scope
  BY <1>0
<1>2. PICK b \in BOOLEAN : b = (new = "archived")
  OBVIOUS
<1>3. PICK q : q = Job("org", FirstDepartment, x, NoId, b)
  OBVIOUS
<1>4. /\ jobs' = IF x = NoId THEN jobs ELSE Append(jobs, q)
      /\ org' = [org EXCEPT !.status = new]
      /\ UNCHANGED <<status, team, proxy, hand, jobFaults, overruns, adopted, muted, inOrder>>
      /\ orgEdits' = orgEdits + 1 /\ reopened' = (reopened /\ x # Given)
  BY <1>1, <1>2, <1>3 DEF SetOrgStatus, QueueOrgSync, Edits
<1>5. /\ Queues(q) /\ q \in JobRows /\ q.kind = "org" /\ q.dept = FirstDepartment /\ q.scope = x
      /\ q.team = NoId /\ q.blocks = b /\ q.state = "pending" /\ q.applied = FALSE
  <2>1. jobs' = jobs \/ (jobs' = Append(jobs, q) /\ org.scope # NoId)
    BY <1>1, <1>4
  <2>2. NoId \in Nat /\ FirstDepartment \in OrgDepartments
    BY ProjectionAssumption DEF NoId
  <2>3. q \in JobRows
    BY <2>2, <1>3, JobMade
  <2>4. Queues(q)
    BY <2>1, <2>3, <1>0, JobQueued
  <2> QED BY <2>3, <2>4, <1>3 DEF Job
<1>6. org'.scope = x /\ org'.status = new /\ org' \in [status : {"provisioning", "active", "archived"}, scope : Nat]
  BY <1>0, <1>1, <1>4
<1>7. EditFrame
  BY <1>1, <1>4, <1>6 DEF EditFrame
<1>8. ProjectionTyped'
  BY <1>0, <1>4, <1>5, <1>6 DEF ProjectionTyped, Queues
<1>9. /\ (\A v \in ProjectionWorkers : HandHolds(v)') /\ (\A k \in 2..Len(jobs') : SyncHolds(k)')
      /\ RowsHold' /\ OneAtATime' /\ OrgApplied' /\ TeamApplied'
  BY <1>1, <1>4, <1>5, <1>7, <1>8, EditKeeps
<1>10. NoneLeft'
  <2>1. Left' \subseteq Left \union {}
    BY <1>4, <1>5, <1>7, LeftShrinks
  <2> QED BY <2>1, <1>5, <1>7, NoneLeftStays
<1>11. TeamQueue'
  <2>1. TeamQueue
    BY DEF ProjectionInv
  <2>2. \A k \in 1..Len(jobs') : jobs'[k].kind = "dept" => k \in 1..Len(jobs) /\ jobs'[k] = jobs[k]
    BY <1>0, <1>5 DEF Queues
  <2> QED BY <2>1, <2>2 DEF TeamQueue, Blocking
<1>12. OrgQueue'
  <2>0. OrgQueue
    BY DEF ProjectionInv
  <2>1. \A k \in 1..Len(jobs) : k \in 1..Len(jobs') /\ jobs'[k] = jobs[k]
    BY <1>0, <1>5 DEF Queues
  <2>2. CASE x = NoId
    <3>1. jobs' = jobs
      BY <2>2, <1>4
    <3>2. \A y \in 1..Len(proxy) : Closed(y) = FALSE /\ Closed(y)' = FALSE
      BY <2>2, <1>1, <1>6 DEF Closed, NoId
    <3>3. \A y : \A j : (OrgSync(j, y)' <=> OrgSync(j, y)) /\ (LastOf(j, y)' <=> LastOf(j, y))
      BY <3>1 DEF OrgSync, LastOf
    <3>4. reopened' = reopened
      <4>1. x # Given
        BY <2>2 DEF NoId, Given
      <4>2. reopened \in BOOLEAN
        BY <1>0 DEF ProjectionTyped
      <4> QED BY <4>1, <4>2, <1>4
    <3>5. proxy' = proxy
      BY <1>4
    <3>6. ASSUME NEW y \in 1..Len(proxy)
          PROVE  \/ ~Closed(y)' /\ \A j \in 1..Len(jobs') : ~OrgSync(j, y)'
                 \/ y = Given /\ reopened'
                 \/ \E j \in 1..Len(jobs') : LastOf(j, y)' /\ jobs'[j].blocks = Closed(y)'
      <4>1. CASE \A j \in 1..Len(jobs) : ~OrgSync(j, y)
        BY <4>1, <3>1, <3>2, <3>3
      <4>2. CASE y = Given /\ reopened
        BY <4>2, <3>4
      <4>3. ASSUME NEW j \in 1..Len(jobs), LastOf(j, y), jobs[j].blocks = Closed(y)
            PROVE  LastOf(j, y)' /\ jobs'[j].blocks = Closed(y)' /\ j \in 1..Len(jobs')
        BY <4>3, <3>1, <3>2, <3>3
      <4> QED BY <4>1, <4>2, <4>3, <2>0 DEF OrgQueue
    <3> QED BY <3>5, <3>6 DEF OrgQueue
  <2>3. CASE x # NoId
    <3>1. PICK n : n = Len(jobs) + 1
      OBVIOUS
    <3>2. n \in 1..Len(jobs') /\ jobs'[n] = q /\ Len(jobs') = n
      BY <2>3, <3>1, <1>0, <1>4, RowAppended, <1>5 DEF Queues, ProjectionTyped
    <3>3. \A k \in 1..Len(jobs') : k = n \/ (k \in 1..Len(jobs) /\ jobs'[k] = jobs[k])
      BY <3>1, <3>2, <2>1, <1>0
    <3>4. ASSUME NEW y \in 1..Len(proxy)
          PROVE  \/ ~Closed(y)' /\ \A j \in 1..Len(jobs') : ~OrgSync(j, y)'
                 \/ y = Given /\ reopened'
                 \/ \E j \in 1..Len(jobs') : LastOf(j, y)' /\ jobs'[j].blocks = Closed(y)'
      <4>1. CASE y = x
        <5>1. Closed(y)' = b
          BY <4>1, <1>2, <1>6 DEF Closed
        <5>2. \A k \in 1..Len(jobs') : k <= n
          BY <3>1, <3>2, <1>0
        <5>3. LastOf(n, y)'
          BY <4>1, <3>2, <5>2, <1>5 DEF LastOf, OrgSync
        <5> QED BY <5>1, <5>3, <3>2, <1>5
      <4>2. CASE y # x
        <5>1. Closed(y)' = FALSE /\ Closed(y) = FALSE
          BY <4>2, <1>1, <1>6 DEF Closed
        <5>2. \A k \in 1..Len(jobs') : OrgSync(k, y)' <=> k \in 1..Len(jobs) /\ OrgSync(k, y)
          <6>1. ASSUME NEW k \in 1..Len(jobs') PROVE OrgSync(k, y)' <=> k \in 1..Len(jobs) /\ OrgSync(k, y)
            <7>1. CASE k = n
              <8>1. n \notin 1..Len(jobs)
                BY <3>1, <1>0
              <8> QED BY <8>1, <7>1, <4>2, <3>2, <1>5 DEF OrgSync
            <7>2. CASE k \in 1..Len(jobs) /\ jobs'[k] = jobs[k]
              BY <7>2 DEF OrgSync
            <7> QED BY <7>1, <7>2, <3>3
          <6> QED BY <6>1
        <5>3. \A k \in 1..Len(jobs) : LastOf(k, y) => LastOf(k, y)'
          BY <5>2, <2>1 DEF LastOf
        <5>4. y = Given /\ reopened => y = Given /\ reopened'
          BY <4>2, <1>4
        <5> QED BY <5>1, <5>2, <5>3, <5>4, <2>0, <2>1 DEF OrgQueue
      <4> QED BY <4>1, <4>2
    <3> QED BY <3>4, <1>4 DEF OrgQueue
  <2> QED BY <2>2, <2>3
<1> QED BY <1>8, <1>9, <1>10, <1>11, <1>12 DEF ProjectionInv

\* Syncs of departments leave the queue of the organization's as it is.
LEMMA OrgQueueStays ==
    ASSUME ProjectionInv, NEW q, Queues(q), q.kind = "dept", UNCHANGED <<org, proxy, reopened>>
    PROVE  OrgQueue'
<1>0. OrgQueue /\ Len(jobs) \in Nat
  BY LensAreNats DEF ProjectionInv
<1>1. \A k \in 1..Len(jobs) : k \in 1..Len(jobs') /\ jobs'[k] = jobs[k]
  BY <1>0 DEF Queues
<1>2. \A k \in 1..Len(jobs') : k \notin 1..Len(jobs) => jobs'[k].kind = "dept"
  BY <1>0 DEF Queues
<1>3. \A k \in 1..Len(jobs') : \A y : OrgSync(k, y)' <=> k \in 1..Len(jobs) /\ OrgSync(k, y)
  <2>1. ASSUME NEW k \in 1..Len(jobs'), NEW y PROVE OrgSync(k, y)' <=> k \in 1..Len(jobs) /\ OrgSync(k, y)
    <3>1. CASE k \in 1..Len(jobs)
      BY <3>1, <1>1 DEF OrgSync
    <3>2. CASE k \notin 1..Len(jobs)
      BY <3>2, <1>2 DEF OrgSync
    <3> QED BY <3>1, <3>2
  <2> QED BY <2>1
<1>4. \A k \in 1..Len(jobs) : \A y : LastOf(k, y) => LastOf(k, y)'
  BY <1>1, <1>3 DEF LastOf
<1>5. \A y : Closed(y)' = Closed(y)
  BY DEF Closed
<1> QED BY <1>0, <1>1, <1>3, <1>4, <1>5 DEF OrgQueue

LEMMA DepartmentEdited ==
    ASSUME ProjectionInv, NEW d \in OrgDepartments, NEW new \in {"active", "archived"},
           NEW t \in Nat, t \in {NoId, team[d]},
           NEW b \in BOOLEAN, b => new = "archived" /\ t # NoId,
           NEW q, q = Job("dept", d, org.scope, t, b),
           \/ jobs' = jobs
           \/ jobs' = Append(jobs, q) /\ org.scope # NoId /\ b = (new = "archived"),
           status[d] # "none" => new \in {status[d], "archived"},
           status[d] = "none" => new = "active" /\ (jobs' = Append(jobs, q) \/ org.scope = NoId),
           status' = [status EXCEPT ![d] = new], orgEdits' = orgEdits + 1,
           UNCHANGED <<org, team, proxy, hand, jobFaults, overruns, adoptionHistory, muted, inOrder>>
    PROVE  ProjectionInv'
<1>0. /\ ProjectionTyped /\ RowsHold /\ Len(jobs) \in Nat /\ Len(proxy) \in Nat
      /\ status \in [OrgDepartments -> {"none", "active", "archived"}] /\ org.scope \in Nat
  BY LensAreNats DEF ProjectionInv, ProjectionTyped
<1>1. /\ Queues(q) /\ q \in JobRows /\ q.kind = "dept" /\ q.dept = d /\ q.scope = org.scope
      /\ q.team = t /\ q.blocks = b /\ q.state = "pending" /\ q.applied = FALSE
  <2>1. jobs' = jobs \/ (jobs' = Append(jobs, q) /\ org.scope # NoId)
    OBVIOUS
  <2>2. q \in JobRows
    BY <1>0, JobMade
  <2>3. Queues(q)
    BY <2>1, <2>2, <1>0, JobQueued
  <2> QED BY <2>2, <2>3 DEF Job
<1>2. status'[d] = new /\ \A e \in OrgDepartments : e # d => status'[e] = status[e]
  BY <1>0
<1>3. EditFrame /\ UNCHANGED <<skipped, reopened>>
  BY DEF EditFrame, adoptionHistory
<1>4. ProjectionTyped'
  <2>1. status' \in [OrgDepartments -> {"none", "active", "archived"}]
    BY <1>0
  <2>2. orgEdits' \in Nat
    BY <1>0 DEF ProjectionTyped
  <2> QED BY <2>1, <2>2, <1>0, <1>1 DEF ProjectionTyped, Queues, adoptionHistory
<1>5. \A e \in OrgDepartments : status[e] = "archived" => status'[e] = "archived"
  BY <1>2
<1>6. /\ (\A v \in ProjectionWorkers : HandHolds(v)') /\ (\A k \in 2..Len(jobs') : SyncHolds(k)')
      /\ RowsHold' /\ OneAtATime' /\ OrgApplied' /\ TeamApplied'
  <2>1. q.kind = "dept" => q.team \in {NoId, team[q.dept]}
    BY <1>1
  <2>2. q.blocks => q.team # NoId /\ status'[q.dept] = "archived"
    BY <1>1, <1>2
  <2> QED BY <2>1, <2>2, <1>1, <1>3, <1>4, <1>5, EditKeeps
<1>7. OrgQueue'
  BY <1>1, <1>3, OrgQueueStays
<1>8. TeamQueue'
  <2>0. TeamQueue
    BY DEF ProjectionInv
  <2>1. ASSUME NEW j \in 1..Len(jobs'), NEW k \in 1..Len(jobs'), Blocking(j)', j <= k,
               jobs'[k].kind = "dept", jobs'[k].dept = jobs'[j].dept
        PROVE  jobs'[k].blocks
    <3>1. CASE k \in 1..Len(jobs)
      <4>1. j \in 1..Len(jobs) /\ jobs'[j] = jobs[j] /\ jobs'[k] = jobs[k]
        BY <2>1, <3>1, <1>0, <1>1 DEF Queues
      <4> QED BY <4>1, <3>1, <2>0, <2>1 DEF TeamQueue, Blocking
    <3>2. CASE k \notin 1..Len(jobs)
      <4>1. k = Len(jobs) + 1 /\ jobs'[k] = q /\ jobs' # jobs
        BY <3>2, <1>0, <1>1 DEF Queues
      <4>2. b = (new = "archived")
        BY <4>1
      <4>3. CASE j \in 1..Len(jobs)
        <5>1. jobs'[j] = jobs[j] /\ Blocking(j) /\ jobs[j].dept = d
          BY <4>1, <4>3, <2>1, <1>1 DEF Queues, Blocking
        <5>2. status[d] = "archived"
          BY <5>1, <4>3, KindsOfJobs DEF Blocking, SyncHolds
        <5> QED BY <5>2, <4>1, <4>2, <1>1
      <4>4. CASE j \notin 1..Len(jobs)
        <5>1. jobs'[j] = q
          BY <4>4, <1>0, <1>1 DEF Queues
        <5> QED BY <5>1, <4>1, <2>1 DEF Blocking
      <4> QED BY <4>3, <4>4
    <3> QED BY <3>1, <3>2
  <2> QED BY <2>1 DEF TeamQueue, Blocking
<1>9. NoneLeft'
  <2>1. CASE status[d] # "none"
    <3>1. Left' \subseteq Left \union {}
      BY <2>1, <1>1, <1>2, <1>3, LeftShrinks
    <3> QED BY <3>1, <1>1, <1>3, NoneLeftStays
  <2>2. CASE jobs' = Append(jobs, q) /\ status[d] = "none"
    <3>1. Left' \subseteq Left \union {d}
      BY <1>1, <1>2, <1>3, LeftShrinks
    <3>2. HasJob(d)'
      <4>1. Len(jobs) + 1 \in 1..Len(jobs') /\ jobs'[Len(jobs) + 1] = q
        BY <2>2, <1>0, <1>1, RowAppended DEF ProjectionTyped
      <4> QED BY <4>1, <1>1 DEF HasJob
    <3>3. Left' \subseteq Left
      BY <3>1, <3>2 DEF Left
    <3> QED BY <3>3, <1>1, <1>3, NoneLeftStays
  <2>3. CASE org.scope = NoId
    <3>1. jobs'[1].state # "sent" \/ 1 \in muted'
      BY <2>3, <1>1, KindsOfJobs DEF Queues, ProjectionInv, NoneLeft
    <3>2. \A w \in ProjectionWorkers :
            /\ hand[w].pc \notin {"activate", "done"}
            /\ hand[w].pc \in {"find", "create", "store"} => hand[w].target = "org"
      BY <2>3 DEF ProjectionInv, HandHolds
    <3> QED BY <3>1, <3>2 DEF NoneLeft
  <2> QED BY <2>1, <2>2, <2>3
<1> QED BY <1>4, <1>6, <1>7, <1>8, <1>9 DEF ProjectionInv

LEMMA EditsStep ==
    ASSUME ProjectionInv, NEW d \in OrgDepartments,
           \/ UpdateOrganization \/ ArchiveOrganization \/ RestoreOrganization
           \/ CreateDepartment(d) \/ UpdateDepartment(d) \/ ArchiveDepartment(d)
    PROVE  ProjectionInv'
<1>0. /\ ProjectionTyped /\ skipped \in BOOLEAN
      /\ org \in [status : {"provisioning", "active", "archived"}, scope : Nat]
      /\ team[d] \in Nat /\ status[d] \in {"none", "active", "archived"}
  BY DEF ProjectionInv, ProjectionTyped
<1>1. CASE UpdateOrganization
  <2>1. PICK new \in {"provisioning", "active", "archived"} : new = org.status
    BY <1>0
  <2> QED BY <2>1, <1>0, <1>1, OrgEdited DEF UpdateOrganization
<1>2. CASE ArchiveOrganization
  BY <1>0, <1>2, OrgEdited DEF ArchiveOrganization
<1>3. CASE RestoreOrganization
  <2>1. skipped' \in BOOLEAN /\ (skipped => skipped')
    BY <1>0, <1>3 DEF RestoreOrganization
  <2> QED BY <2>1, <1>3, OrgEdited DEF RestoreOrganization
<1>4. CASE CreateDepartment(d)
  <2>1. PICK q : q = Job("dept", d, org.scope, NoId, FALSE)
    OBVIOUS
  <2>2. /\ jobs' = IF org.scope = NoId THEN jobs ELSE Append(jobs, q)
        /\ status[d] = "none" /\ status' = [status EXCEPT ![d] = "active"] /\ orgEdits' = orgEdits + 1
        /\ UNCHANGED <<org, team, proxy, hand, jobFaults, overruns, adoptionHistory, muted, inOrder>>
    BY <1>4, <2>1 DEF CreateDepartment, Edits
  <2>3. NoId \in Nat /\ FALSE \in BOOLEAN /\ "active" \in {"active", "archived"}
    BY DEF NoId
  <2> QED BY <2>1, <2>2, <2>3, DepartmentEdited
<1>5. CASE UpdateDepartment(d) \/ ArchiveDepartment(d)
  <2>1. PICK new \in {"active", "archived"} : SetDepartment(d, new) /\ new \in {status[d], "archived"}
    <3>1. CASE UpdateDepartment(d)
      <4>1. status[d] # "none"
        BY <3>1 DEF UpdateDepartment, SetDepartment
      <4>2. status[d] \in {"active", "archived"}
        BY <4>1, <1>0
      <4> QED BY <4>2, <3>1 DEF UpdateDepartment
    <3>2. CASE ArchiveDepartment(d)
      BY <3>2 DEF ArchiveDepartment
    <3> QED BY <1>5, <3>1, <3>2
  <2>2. PICK t \in Nat : t = team[d]
    BY <1>0
  <2>3. PICK b \in BOOLEAN : b = (new = "archived" /\ t # NoId)
    OBVIOUS
  <2>4. PICK q : q = Job("dept", d, org.scope, t, b)
    OBVIOUS
  <2>5. /\ status[d] # "none" /\ status' = [status EXCEPT ![d] = new] /\ orgEdits' = orgEdits + 1
        /\ UNCHANGED <<org, team, proxy, hand, jobFaults, overruns, adoptionHistory, muted, inOrder>>
    BY <2>1 DEF SetDepartment, Edits
  <2>6. jobs' = IF t = NoId THEN jobs ELSE Append(jobs, Job("dept", d, org.scope, t, new = "archived"))
    BY <2>1, <2>2 DEF SetDepartment
  <2>7. CASE t = NoId
    <3>1. jobs' = jobs
      BY <2>6, <2>7
    <3> QED BY <3>1, <2>1, <2>2, <2>3, <2>4, <2>5, DepartmentEdited
  <2>8. CASE t # NoId
    <3>1. jobs' = Append(jobs, q) /\ b = (new = "archived")
      BY <2>3, <2>4, <2>6, <2>8
    <3>2. org.scope # NoId
      BY <2>2, <2>8 DEF ProjectionInv, RowsHold
    <3> QED BY <3>1, <3>2, <2>1, <2>2, <2>3, <2>4, <2>5, DepartmentEdited
  <2> QED BY <2>7, <2>8
<1> QED BY <1>1, <1>2, <1>3, <1>4, <1>5

LEMMA ProjectionStep == ProjectionInv /\ [ProjectionNext]_projectionVars => ProjectionInv'
<1> SUFFICES ASSUME ProjectionInv, [ProjectionNext]_projectionVars PROVE ProjectionInv'
  OBVIOUS
<1>1. CASE UpdateOrganization \/ ArchiveOrganization \/ RestoreOrganization
  BY <1>1, EditsStep, ProjectionAssumption
<1>2. CASE \E d \in OrgDepartments :
             CreateDepartment(d) \/ UpdateDepartment(d) \/ ArchiveDepartment(d)
               \/ AdoptExistingUpstreamScope(d)
  BY <1>2, EditsStep, AdoptStep
<1>3. CASE \E w \in ProjectionWorkers :
       \/ ClaimJob(w) \/ ClaimOverrun(w) \/ JobFails(w) \/ WorkerDies(w) \/ Completes(w)
       \/ ReadOrganization(w) \/ FindObject(w) \/ CreateObject(w) \/ SetUpstreamOrganization(w)
       \/ ListDepartments(w) \/ SetUpstreamTeam(w) \/ Activate(w) \/ RefusedAsArchived(w)
       \/ SyncOrganization(w) \/ SyncDepartment(w) \/ NotProvisioned(w)
  BY <1>3, MarksStep, ReadOrganizationStep, FindObjectStep, CreateObjectStep,
     SetUpstreamOrganizationStep, ListDepartmentsStep, SetUpstreamTeamStep, FinishesStep, SyncsStep
<1>4. CASE UNCHANGED projectionVars
  <2>1. /\ ProjectionTyped /\ RowsHold /\ (\A j \in 2..Len(jobs) : SyncHolds(j))
        /\ (\A w \in ProjectionWorkers : HandHolds(w))
        /\ NoneLeft /\ OneAtATime /\ OrgQueue /\ OrgApplied /\ TeamQueue /\ TeamApplied
    BY DEF ProjectionInv
  <2>2. /\ ProjectionTyped' /\ RowsHold' /\ NoneLeft' /\ OneAtATime'
    BY <2>1, <1>4 DEF projectionVars, ProjectionTyped, RowsHold, NoneLeft, OneAtATime, HasGiven, IsScope,
       IsTeam, Left, HasJob
  <2>3. (\A j \in 2..Len(jobs') : SyncHolds(j)') /\ (\A w \in ProjectionWorkers : HandHolds(w)')
    BY <2>1, <1>4 DEF projectionVars, SyncHolds, HandHolds, IsScope, IsTeam
  <2>4. Len(jobs') = Len(jobs) /\ UNCHANGED <<org, proxy, reopened, inOrder>>
        /\ \A j \in 1..Len(jobs) : JobSame(j) /\ jobs'[j].applied = jobs[j].applied
    BY <1>4 DEF projectionVars, JobSame
  <2>5. OrgQueue' /\ OrgApplied' /\ TeamQueue' /\ TeamApplied'
    BY <2>1, <2>2, <2>4, QueueStays
  <2> QED BY <2>2, <2>3, <2>5 DEF ProjectionInv
<1> QED BY <1>1, <1>2, <1>3, <1>4 DEF ProjectionNext

\* What an upstream object stands for, which departments provisioning still has
\* to find, and what the syncs queued and applied of one row have in common.
THEOREM ProjectionInvariant == ProjectionSpec => []ProjectionInv
BY ProjectionStart, ProjectionStep, PTL DEF ProjectionSpec

LEMMA ProjectionSafe == ProjectionInv => ProjectionIsSound
<1> SUFFICES ASSUME ProjectionInv PROVE ProjectionIsSound
  OBVIOUS
<1>0. ProjectionTyped /\ RowsHold /\ Len(proxy) \in Nat /\ Len(jobs) \in Nat
      /\ OrgQueue /\ OrgApplied /\ TeamQueue /\ TeamApplied
  BY LensAreNats DEF ProjectionInv
<1>1. DOMAIN jobs = 1..Len(jobs) /\ DOMAIN proxy = 1..Len(proxy)
  BY <1>0 DEF ProjectionTyped
<1>2. AgreesInOrder
  <2> SUFFICES ASSUME Quiet, inOrder
               PROVE  /\ ScopeAgrees \/ OrgMuted \/ (reopened /\ org.scope = Given)
                      /\ \A d \in OrgDepartments : TeamAgrees(d) \/ DeptMuted({d})
    BY DEF AgreesInOrder
  <2>1. \A j \in 1..Len(jobs) : j # 1 => jobs[j].applied \/ j \in muted
    <3>1. \A j \in 1..Len(jobs) : jobs[j].state = "sent"
      BY <1>1 DEF Quiet, AllSent
    <3> QED BY <3>1, KindsOfJobs DEF SyncHolds
  <2>2. ScopeAgrees \/ OrgMuted \/ (reopened /\ org.scope = Given)
    <3> SUFFICES ASSUME org.scope # NoId, ~OrgMuted, ~(reopened /\ org.scope = Given)
                 PROVE  proxy[org.scope].blocked = (org.status = "archived")
      BY DEF ScopeAgrees
    <3>1. PICK x : x = org.scope
      OBVIOUS
    <3>2. IsScope(x) /\ x \in 1..Len(proxy) /\ Closed(x) = (org.status = "archived")
      BY <1>0, <3>1 DEF RowsHold, IsScope, Closed
    <3>3. proxy[x].blocked \in BOOLEAN
      <4>1. proxy[x] \in ProxyRows
        BY <1>0, <3>2 DEF ProjectionTyped
      <4> QED BY <4>1 DEF ProxyRows
    <3>4. CASE ~Closed(x) /\ \A j \in 1..Len(jobs) : ~OrgSync(j, x)
      BY <1>0, <3>1, <3>2, <3>3, <3>4 DEF OrgApplied
    <3>5. ASSUME NEW j \in 1..Len(jobs), LastOf(j, x), jobs[j].blocks = Closed(x)
          PROVE  proxy[x].blocked = Closed(x)
      <4>1. jobs[j].kind = "org" /\ jobs[j].scope = x /\ jobs[j].applied
        BY <2>1, <3>5, KindsOfJobs DEF LastOf, OrgSync, OrgMuted
      <4> QED BY <4>1, <1>0, <3>5 DEF OrgApplied, LastOf
    <3> QED BY <1>0, <3>1, <3>2, <3>4, <3>5 DEF OrgQueue
  <2>3. ASSUME NEW d \in OrgDepartments, team[d] # NoId, status[d] = "archived" => Announced(d),
               ~DeptMuted({d})
        PROVE  proxy[team[d]].blocked = (status[d] = "archived")
    <3>1. PICK x : x = team[d]
      OBVIOUS
    <3>2. IsTeam(x, d) /\ x \in 1..Len(proxy) /\ ~IsScope(x) /\ proxy[x].blocked \in BOOLEAN
      <4>1. IsTeam(x, d) /\ x \in 1..Len(proxy)
        BY <1>0, <2>3, <3>1 DEF RowsHold, IsTeam
      <4>2. proxy[x] \in ProxyRows
        BY <1>0, <4>1 DEF ProjectionTyped
      <4> QED BY <4>1, <4>2, <1>0, TeamIsNoScope DEF ProxyRows
    <3>3. CASE status[d] = "archived"
      <4>1. PICK j \in 1..Len(jobs) : jobs[j].kind = "dept" /\ jobs[j].dept = d /\ jobs[j].team = x /\ jobs[j].blocks
        BY <1>1, <2>3, <3>1, <3>3 DEF Announced
      <4>2. jobs[j].applied /\ Blocking(j)
        BY <4>1, <2>1, <2>3, KindsOfJobs DEF Blocking, DeptMuted
      <4>3. proxy[x].blocked
        BY <4>1, <4>2, <1>0 DEF TeamApplied
      <4> QED BY <4>3, <3>1, <3>2, <3>3
    <3>4. CASE status[d] # "archived"
      <4>1. ASSUME proxy[x].blocked PROVE FALSE
        <5>1. PICK j \in 1..Len(jobs) : Blocking(j) /\ jobs[j].team = x
          BY <4>1, <1>0, <3>2 DEF TeamApplied
        <5>2. PICK e : e = jobs[j].dept
          OBVIOUS
        <5>3. e \in OrgDepartments /\ SyncHolds(j) /\ jobs[j].kind = "dept"
          <6>1. jobs[j].kind = "dept" /\ j # 1 /\ jobs[j] \in JobRows
            BY <5>1, KindsOfJobs DEF Blocking
          <6> QED BY <6>1, <5>2, KindsOfJobs DEF JobRows
        <5>4. IsTeam(x, e) /\ status[e] = "archived" /\ x # NoId
          BY <5>1, <5>2, <5>3 DEF SyncHolds, Blocking
        <5>5. e = d
          BY <5>1, <5>2, <5>3, <5>4, <3>1, <3>2, TeamsDiffer
        <5> QED BY <5>4, <5>5, <3>4
      <4> QED BY <4>1, <3>1, <3>2, <3>4
    <3> QED BY <3>3, <3>4
  <2> QED BY <2>2, <2>3 DEF TeamAgrees
<1>3. NoneForgotten
  <2> SUFFICES ASSUME Unmapped # {}, AllSent, ~skipped, 1 \notin muted, ~DeptMuted(Unmapped)
               PROVE  FALSE
    BY DEF NoneForgotten
  <2>1. \A j \in 1..Len(jobs) : jobs[j].state = "sent"
    BY <1>1 DEF AllSent
  <2>2. Left = Unmapped
    <3>1. \A e \in Unmapped : ~HasJob(e)
      BY <2>1 DEF HasJob, DeptMuted
    <3> QED BY <3>1 DEF Left, Unmapped
  <2>3. jobs[1].state = "sent"
    BY <2>1, KindsOfJobs
  <2> QED BY <2>2, <2>3 DEF ProjectionInv, NoneLeft
<1>4. MadeOnce
  <2> SUFFICES ASSUME overruns = 0
               PROVE  Cardinality({i \in DOMAIN proxy : proxy[i].of = "org"}) <= 1
    BY DEF MadeOnce
  <2>1. PICK S : S = {i \in DOMAIN proxy : proxy[i].of = "org"}
    OBVIOUS
  <2>2. \A i, k \in S : i = k
    BY <1>1, <2>1 DEF ProjectionInv, OneAtATime
  <2>3. S = {} \/ \E i : S = {i}
    BY <2>2
  <2>4. Cardinality(S) = 0 \/ Cardinality(S) = 1
    BY <2>3, FS_EmptySet, FS_Singleton
  <2> QED BY <2>1, <2>4
<1> QED BY <1>2, <1>3, <1>4 DEF ProjectionIsSound

\* Once the queue is drained, the proxy enforces what the administrators have
\* made of a row, unless a sync was applied after a newer one, one of the row
\* was recorded as sent when it had failed, or an adoption opened the row again;
\* no active department is forgotten, but by a job so recorded; one upstream
\* organization is made: for any number of departments, workers, edits,
\* adoptions and failures.
THEOREM ProjectionSound == ProjectionSpec => []ProjectionIsSound
BY ProjectionSafe, ProjectionInvariant, PTL

LEMMA ProjectionTypes == ProjectionInv => ProjectionTypeOK
<1> SUFFICES ASSUME ProjectionInv PROVE ProjectionTypeOK
  OBVIOUS
<1>0. ProjectionTyped /\ RowsHold /\ Len(proxy) \in Nat /\ Len(jobs) \in Nat
  BY LensAreNats DEF ProjectionInv
<1>1. DOMAIN jobs = 1..Len(jobs) /\ DOMAIN proxy = 1..Len(proxy)
  BY <1>0 DEF ProjectionTyped
<1>2. NoId \in 0..Len(proxy) /\ \A x \in 1..Len(proxy) : x \in 0..Len(proxy)
  BY <1>0 DEF NoId
<1>3. org \in [status : {"provisioning", "active", "archived"}, scope : 0..Len(proxy)]
  <2>1. org.scope \in 0..Len(proxy)
    <3>1. org.scope = NoId \/ org.scope \in 1..Len(proxy)
      BY <1>0 DEF RowsHold, IsScope
    <3> QED BY <3>1, <1>2
  <2> QED BY <2>1, <1>0 DEF ProjectionTyped
<1>4. team \in [OrgDepartments -> 0..Len(proxy)]
  <2>1. \A d \in OrgDepartments : team[d] \in 0..Len(proxy)
    <3>1. \A d \in OrgDepartments : team[d] = NoId \/ team[d] \in 1..Len(proxy)
      BY <1>0 DEF RowsHold, IsTeam
    <3> QED BY <3>1, <1>2
  <2> QED BY <2>1, <1>0 DEF ProjectionTyped
<1>5. ASSUME NEW i \in DOMAIN proxy
      PROVE  proxy[i] \in [of : OrgDepartments \cup {"org", "given"}, in : 0..Len(proxy), blocked : BOOLEAN]
  <2>1. proxy[i] \in ProxyRows /\ proxy[i].in <= Len(proxy)
    BY <1>0, <1>1 DEF ProjectionTyped, RowsHold
  <2> QED BY <2>1, <1>0 DEF ProxyRows
<1>6. ASSUME NEW j \in DOMAIN jobs
      PROVE  jobs[j] \in [kind : {"provision", "org", "dept"}, dept : OrgDepartments,
                    scope : 0..Len(proxy), team : 0..Len(proxy), blocks : BOOLEAN,
                    state : {"pending", "processing", "sent", "failed"},
                    delayed : BOOLEAN, applied : BOOLEAN]
  <2>1. jobs[j] \in JobRows /\ (j # 1 => SyncHolds(j))
    BY <1>1, KindsOfJobs
  <2>2. jobs[j].scope \in 0..Len(proxy) /\ jobs[j].team \in 0..Len(proxy)
    <3>1. CASE j = 1
      BY <3>1, <1>0, <1>2 DEF RowsHold
    <3>2. CASE j # 1
      <4>1. jobs[j].scope \in 1..Len(proxy)
        BY <2>1, <3>2 DEF SyncHolds, IsScope
      <4>2. jobs[j].team = NoId \/ jobs[j].team \in 1..Len(proxy)
        BY <2>1, <3>2 DEF SyncHolds, IsTeam
      <4> QED BY <4>1, <4>2, <1>2
    <3> QED BY <3>1, <3>2
  <2> QED BY <2>1, <2>2 DEF JobRows
<1>7. \A w \in ProjectionWorkers : hand[w].job \in 0..Len(jobs)
  BY <1>0 DEF ProjectionInv, HandHolds
<1> QED BY <1>0, <1>3, <1>4, <1>5, <1>6, <1>7 DEF ProjectionTypeOK, ProjectionTyped

\* Type correctness of the projection: no id that was stored or queued is one
\* of an object that does not exist.
THEOREM ProjectionTypeCorrect == ProjectionSpec => []ProjectionTypeOK
BY ProjectionTypes, ProjectionInvariant, PTL
=================================================================================

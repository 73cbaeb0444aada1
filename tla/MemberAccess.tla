----------------------------- MODULE MemberAccess -----------------------------
(***************************************************************************)
(* One member of an organization, from the invitation to the removal, and  *)
(* what the proxy lets it do.  Administrators edit the row of the member;  *)
(* each edit that matters upstream queues a job in the same transaction.   *)
(* The outbox workers run two kinds of jobs: provisioning, which reads the *)
(* member once and then creates the user, the organization membership, the *)
(* team membership and activates the row, and synchronization, which reads *)
(* the member and makes the memberships what the row says.  Each of their  *)
(* calls may fail, which puts the job back, until its attempts are used up;*)
(* but a failure whose error has no text counts as success.                *)
(*                                                                         *)
(* Module Outbox has the queue itself; here a job is one of a number of    *)
(* jobs of its kind.                                                       *)
(***************************************************************************)
EXTENDS Naturals, FiniteSets

CONSTANTS
  Departments,
  Invites,       \* invitations the member can be sent
  MemberWorkers,       \* outbox workers, each running one job at a time
  MaxEdits,      \* bound: edits by administrators
  NoDepartment

ASSUME MemberAssumption == Departments # {} /\ NoDepartment \notin Departments /\ MaxEdits \in Nat

VARIABLES
  person,      \* the row of customer_member
  invites,     \* customer_invitation by id
  mailed,      \* invitations whose mail went out
  archived,    \* departments with status 'archived'
  queued,      \* jobs waiting, by kind
  lost,        \* jobs that left the queue undone: their kind, and what the row says of them
  worker,      \* what each worker is doing, and what it has read
  proxyOrg,    \* the proxy has the member in the organization
  proxyTeams,  \* departments whose team the proxy has the member in
  edits,
  crossed      \* since the last quiet reading of the row a worker that had read it
               \* was overtaken, by an edit or by another worker

memberVars == <<person, invites, mailed, archived, queued, lost, worker, proxyOrg, proxyTeams,
                edits, crossed>>

proxyVars == <<proxyOrg, proxyTeams>>

NoJob == [job |-> "none", pc |-> "idle", status |-> "none", dept |-> NoDepartment, known |-> FALSE]

MemberInit ==
  /\ person = [status |-> "none", dept |-> NoDepartment, bound |-> FALSE, accepted |-> FALSE,
               known |-> FALSE]
  /\ invites = [i \in Invites |-> "none"] /\ mailed = {} /\ archived = {}
  /\ queued = [provision |-> 0, sync |-> 0] /\ lost = {}
  /\ worker = [w \in MemberWorkers |-> NoJob]
  /\ proxyOrg = FALSE /\ proxyTeams = {}
  /\ edits = 0 /\ crossed = FALSE

-----------------------------------------------------------------------------
(* The directory *)

HasRead(w) == worker[w].pc \notin {"idle", "start"}
OthersHaveRead(w) == \E v \in MemberWorkers \ {w} : HasRead(v)
Crosses == crossed' = (crossed \/ \E w \in MemberWorkers : HasRead(w))

\* Mutant: a change of the row is not projected.
QueueSyncNot(row) == queued' = [queued EXCEPT !.sync = IF row.known THEN @ ELSE 0]

\* A change is projected once the proxy knows the member.
QueueSync(row) == queued' = [queued EXCEPT !.sync = IF row.known THEN @ + 1 ELSE @]

Edited(row) ==
  /\ edits < MaxEdits /\ edits' = edits + 1
  /\ person' = row /\ QueueSync(row) /\ Crosses

DepartmentArchived(d) ==
  /\ d \notin archived /\ edits < MaxEdits
  /\ archived' = archived \cup {d} /\ edits' = edits + 1
  /\ UNCHANGED <<person, invites, mailed, queued, lost, worker, proxyVars, crossed>>

\* The member, its invitation and the job that mails it are one transaction.
CreateMember(d, i) ==
  /\ person.status = "none" /\ d \notin archived
  /\ person' = [person EXCEPT !.status = "invited", !.dept = d]
  /\ invites' = [invites EXCEPT ![i] = "open"]
  /\ UNCHANGED <<mailed, archived, queued, lost, worker, proxyVars, edits, crossed>>

MoveMember(d) ==
  /\ person.status \notin {"none", "removed"} /\ d \notin archived \cup {person.dept}
  /\ Edited([person EXCEPT !.dept = d])
  /\ UNCHANGED <<invites, mailed, archived, lost, worker, proxyVars>>

\* An administrator may suspend a member or invite it again, not activate it.
SetStatus(status) ==
  /\ person.status \notin {"none", "removed", status} /\ status \in {"suspended", "invited"}
  /\ Edited([person EXCEPT !.status = status])
  /\ UNCHANGED <<invites, mailed, archived, lost, worker, proxyVars>>

Revoked == [i \in Invites |-> IF invites[i] = "open" THEN "revoked" ELSE invites[i]]

\* An invitation is rotated: after inviting again, or to send it once more.
CreateInvitation(i) ==
  /\ person.status = "invited" /\ invites[i] = "none"
  /\ invites' = [Revoked EXCEPT ![i] = "open"]
  /\ UNCHANGED <<person, mailed, archived, queued, lost, worker, proxyVars, edits, crossed>>

RevokeMemberInvitation ==
  /\ person.status = "invited" /\ invites # Revoked /\ invites' = Revoked
  /\ UNCHANGED <<person, mailed, archived, queued, lost, worker, proxyVars, edits, crossed>>

\* The job of the mail; an invitation that is no longer open is not sent.
DispatchInvitation(i) ==
  /\ invites[i] = "open" /\ mailed' = mailed \cup {i}
  /\ UNCHANGED <<person, invites, archived, queued, lost, worker, proxyVars, edits, crossed>>

Acceptable(i) == invites[i] = "open" /\ i \in mailed /\ person.status = "invited"

\* Consumed, bound and queued for provisioning in one transaction.
MemberAccepts(i) ==
  /\ Acceptable(i)
  /\ invites' = [invites EXCEPT ![i] = "consumed"]
  /\ person' = [person EXCEPT !.bound = TRUE, !.accepted = TRUE]
  /\ queued' = [queued EXCEPT !.provision = @ + 1]
  /\ UNCHANGED <<mailed, archived, lost, worker, proxyVars, edits, crossed>>

\* Removed for good: unbound, uninvited and projected.
RemoveMember ==
  /\ person.status \in {"invited", "suspended"}
  /\ Edited([person EXCEPT !.status = "removed", !.bound = FALSE])
  /\ invites' = Revoked
  /\ UNCHANGED <<mailed, archived, lost, worker, proxyVars>>

-----------------------------------------------------------------------------
(* The workers *)

JobAt(w, job, pc) == worker[w].job = job /\ worker[w].pc = pc
JobGoes(w, pc) == worker' = [worker EXCEPT ![w].pc = pc]
JobEnds(w) == worker' = [worker EXCEPT ![w] = NoJob]

ClaimMemberJob(w, job) ==
  /\ worker[w] = NoJob /\ queued[job] > 0
  /\ queued' = [queued EXCEPT ![job] = @ - 1]
  /\ worker' = [worker EXCEPT ![w].job = job, ![w].pc = "start"]
  /\ UNCHANGED <<person, invites, mailed, archived, lost, proxyVars, edits, crossed>>

\* A call fails, or a check raises: the job is put back, or was tried enough.  If
\* the error has no text, as that of a timeout, the job is recorded as sent.
MemberJobFails(w) ==
  /\ worker[w] # NoJob /\ JobEnds(w)
  /\ \/ queued' = [queued EXCEPT ![worker[w].job] = @ + 1] /\ UNCHANGED lost
     \/ /\ \E state \in {"failed", "sent"} : lost' = lost \cup {<<worker[w].job, state>>}
        /\ UNCHANGED queued
  /\ UNCHANGED <<person, invites, mailed, archived, proxyVars, edits, crossed>>

JobReads(w, pc) ==
  worker' = [worker EXCEPT ![w].pc = pc, ![w].status = person.status, ![w].dept = person.dept,
                           ![w].known = person.known]

ReadForProvision(w) ==
  /\ JobAt(w, "provision", "start") /\ person.status \notin {"suspended", "removed"}
  /\ JobReads(w, IF person.known THEN "organization" ELSE "user")
  /\ crossed' = (crossed \/ OthersHaveRead(w))
  /\ UNCHANGED <<person, invites, mailed, archived, queued, lost, proxyVars, edits>>

\* The user is found or created at the proxy, and its id kept, whatever has
\* become of the member meanwhile.
CreateUser(w) ==
  /\ JobAt(w, "provision", "user") /\ JobGoes(w, "organization")
  /\ person' = [person EXCEPT !.known = TRUE]
  /\ UNCHANGED <<invites, mailed, archived, queued, lost, proxyVars, edits, crossed>>

JoinOrganization(w) ==
  /\ JobAt(w, "provision", "organization") /\ JobGoes(w, "team") /\ proxyOrg' = TRUE
  /\ UNCHANGED <<person, invites, mailed, archived, queued, lost, proxyTeams, edits, crossed>>

JoinTeam(w) ==
  /\ JobAt(w, "provision", "team") /\ JobGoes(w, "activate")
  /\ proxyTeams' = proxyTeams \cup {worker[w].dept}
  /\ UNCHANGED <<person, invites, mailed, archived, queued, lost, proxyOrg, edits, crossed>>

MayActivate == person.status \in {"invited", "active"}

\* Any other status raises, so that only MemberJobFails is left.
ActivateMember(w) ==
  /\ JobAt(w, "provision", "activate") /\ MayActivate /\ JobEnds(w)
  /\ person' = [person EXCEPT !.status = "active"]
  /\ UNCHANGED <<invites, mailed, archived, queued, lost, proxyVars, edits, crossed>>

\* A reading with nobody else at work starts from a clean sheet.
ReadForSync(w) ==
  /\ JobAt(w, "sync", "start") /\ person.known
  /\ JobReads(w, "leaving teams")
  /\ crossed' = OthersHaveRead(w)
  /\ UNCHANGED <<person, invites, mailed, archived, queued, lost, proxyVars, edits>>

LeaveOtherTeams(w) ==
  /\ JobAt(w, "sync", "leaving teams")
  /\ proxyTeams' = proxyTeams \cap {worker[w].dept}
  /\ JobGoes(w, IF worker[w].status = "active" THEN "updating" ELSE "leaving")
  /\ UNCHANGED <<person, invites, mailed, archived, queued, lost, proxyOrg, edits, crossed>>

LeaveOrganization(w) ==
  /\ JobAt(w, "sync", "leaving") /\ JobGoes(w, "leaving own team") /\ proxyOrg' = FALSE
  /\ UNCHANGED <<person, invites, mailed, archived, queued, lost, proxyTeams, edits, crossed>>

LeaveOwnTeam(w) ==
  /\ JobAt(w, "sync", "leaving own team") /\ JobEnds(w)
  /\ proxyTeams' = proxyTeams \ {worker[w].dept}
  /\ UNCHANGED <<person, invites, mailed, archived, queued, lost, proxyOrg, edits, crossed>>

\* Updating the role of somebody who is not in the organization fails.
UpdateMemberships(w) ==
  /\ JobAt(w, "sync", "updating") /\ proxyOrg /\ JobGoes(w, "own team")
  /\ UNCHANGED <<person, invites, mailed, archived, queued, lost, proxyVars, edits, crossed>>

UpdateTeam(w) ==
  /\ JobAt(w, "sync", "own team") /\ JobEnds(w)
  /\ proxyTeams' = proxyTeams \cup {worker[w].dept}
  /\ UNCHANGED <<person, invites, mailed, archived, queued, lost, proxyOrg, edits, crossed>>

-----------------------------------------------------------------------------
MemberNext ==
  \/ \E d \in Departments :
       DepartmentArchived(d) \/ MoveMember(d) \/ \E i \in Invites : CreateMember(d, i)
  \/ \E status \in {"suspended", "invited"} : SetStatus(status)
  \/ \E i \in Invites : CreateInvitation(i) \/ DispatchInvitation(i) \/ MemberAccepts(i)
  \/ RevokeMemberInvitation \/ RemoveMember
  \/ \E w \in MemberWorkers :
       \/ \E job \in {"provision", "sync"} : ClaimMemberJob(w, job)
       \/ MemberJobFails(w) \/ ReadForProvision(w) \/ CreateUser(w) \/ JoinOrganization(w)
       \/ JoinTeam(w) \/ ActivateMember(w) \/ ReadForSync(w) \/ LeaveOtherTeams(w)
       \/ LeaveOrganization(w) \/ LeaveOwnTeam(w) \/ UpdateMemberships(w) \/ UpdateTeam(w)

MemberSpec == MemberInit /\ [][MemberNext]_memberVars

-----------------------------------------------------------------------------
(* Properties *)

LostJobs == {"provision", "sync"} \X {"failed", "sent"}

MemberTypeOK ==
  /\ person \in [status : {"none", "invited", "active", "suspended", "removed"},
                 dept : Departments \cup {NoDepartment}, bound : BOOLEAN, accepted : BOOLEAN,
                 known : BOOLEAN]
  /\ invites \in [Invites -> {"none", "open", "consumed", "revoked"}]
  /\ mailed \subseteq Invites /\ archived \subseteq Departments
  /\ queued \in [provision : Nat, sync : Nat] /\ lost \subseteq LostJobs
  /\ \A w \in MemberWorkers : worker[w].job \in {"none", "provision", "sync"}
  /\ proxyOrg \in BOOLEAN /\ proxyTeams \subseteq Departments
  /\ edits \in 0..MaxEdits /\ crossed \in BOOLEAN

\* Nobody becomes active without having accepted an invitation and having been
\* provisioned, and a removed member stays without account and invitation.
AccessIsEarned ==
  /\ person.status = "active" => person.accepted /\ person.known /\ person.bound
  /\ person.status = "removed" => ~person.bound /\ \A i \in Invites : invites[i] # "open"

\* At most one invitation of the member can be accepted.
OneOpenInvitation == Cardinality({i \in Invites : invites[i] = "open"}) <= 1

Settled == queued = [provision |-> 0, sync |-> 0] /\ \A w \in MemberWorkers : worker[w] = NoJob

\* Once the queue is drained the proxy grants what the directory says, through
\* all failures and retries, unless a job was given up, or recorded as sent when it
\* had failed, or a worker that had read the row was overtaken since.
AccessFollowsDirectory ==
  Settled /\ lost = {} /\ ~crossed /\ person.known =>
    /\ proxyOrg = (person.status = "active")
    /\ proxyTeams = IF person.status = "active" THEN {person.dept} ELSE {}

MembersAreSound == AccessIsEarned /\ OneOpenInvitation /\ AccessFollowsDirectory

\* Comment of sync_member: a member who left must be taken out of the upstream
\* organization and its teams.  A provisioning that was under way when the
\* member was removed puts it in, and leaves nothing queued that takes it out.
RemovedHasNoAccess ==
  person.status = "removed" /\ Settled /\ (\A l \in lost : l[1] # "sync") =>
    ~proxyOrg /\ proxyTeams = {}
=============================================================================

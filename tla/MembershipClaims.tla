--------------------------- MODULE MembershipClaims ---------------------------
(***************************************************************************)
(* A managed account without a mail address: the platform issues a claim   *)
(* for a login name, its holder sets a password, the platform approves,    *)
(* and the login opens once the organization's member has been provisioned *)
(* at the proxy.  Claims and accounts are rows of SQLite, members and the  *)
(* principal they report as are rows of PostgreSQL, so that the approval   *)
(* and the reconciliation that every round of the outbox worker ends with  *)
(* go back and forth between two databases, and run beside each other.     *)
(*                                                                         *)
(* One login name is followed.  What the proxy does for a member is in     *)
(* module MemberAccess; here the member becomes active at some time.       *)
(***************************************************************************)
EXTENDS Naturals, FiniteSets

CONSTANTS
  Claims,        \* claims that can be issued for the login name
  ManagedUsers,  \* ids of accounts with it
  Members,       \* ids of the organization's members that can stand for it
  Runners,       \* approvals and reconciliations in progress
  Nobody

ASSUME ClaimsAssumption == Nobody \notin Claims \cup ManagedUsers \cup Members

VARIABLES
  claims,     \* auth_membership_claims; due: expires_at has passed
  users,      \* auth_users.status by id; "none" is no row
  members,    \* customer_member: status and auth_user_id; served: it has been active
  principal,  \* customer_principal.member_id
  runner      \* per request: where it is, and what it has read

claimVars == <<claims, users, members, principal, runner>>

Resting == [pc |-> "idle", claim |-> Nobody, user |-> Nobody, stage |-> "none",
            member |-> Nobody, ready |-> FALSE]

ClaimsInit ==
  /\ claims = [c \in Claims |-> [status |-> "none", due |-> FALSE, user |-> Nobody]]
  /\ users = [u \in ManagedUsers |-> "none"]
  /\ members = [m \in Members |-> [status |-> "none", user |-> Nobody, served |-> FALSE]]
  /\ principal = Nobody
  /\ runner = [r \in Runners |-> Resting]

-----------------------------------------------------------------------------
(* The store of claims.  Its operations are transactions, most of which
   first expire the due claims they touch. *)

Unapproved == {"pending", "accepted"}
Reserving == {"pending", "accepted", "approved", "provisioning"}
Open == {c \in Claims : claims[c].status \in Reserving}
NameTaken == \E u \in ManagedUsers : users[u] # "none"

Expired(which) == {c \in which : claims[c].due /\ claims[c].status \in Unapproved}

\* The accounts of ended claims are dropped while nobody has approved them.
Dropped(ended) ==
  {u \in ManagedUsers : users[u] = "pending_approval" /\ \E c \in ended : claims[c].user = u}

Without(gone) == [u \in ManagedUsers |-> IF u \in gone THEN "none" ELSE users[u]]

\* The rows after some claims have ended; a dropped account leaves no reference.
Ended(ended, status) ==
  [c \in Claims |->
     [claims[c] EXCEPT !.status = IF c \in ended THEN status ELSE @,
                       !.user = IF @ \in Dropped(ended) THEN Nobody ELSE @]]

ExpireDue(which) ==
  /\ claims' = Ended(Expired(which), "expired")
  /\ users' = Without(Dropped(Expired(which)))

FallsDue(c) ==
  /\ claims[c].status \in Unapproved /\ ~claims[c].due
  /\ claims' = [claims EXCEPT ![c].due = TRUE]
  /\ UNCHANGED <<users, members, principal, runner>>

\* Any reading of a claim, by its id, its token or in a list.
ReadClaim(c) ==
  /\ Expired({c}) # {} /\ ExpireDue({c})
  /\ UNCHANGED <<members, principal, runner>>

\* A claim replaces one that is still pending; it is refused when the name has
\* an account, or a claim that went further, once the due ones have expired.
CreateClaim(c) ==
  LET open == Open \ Expired(Claims)
      kept == [d \in Claims |-> IF d \in open THEN [claims[d] EXCEPT !.status = "revoked"]
                                ELSE Ended(Expired(Claims), "expired")[d]]
  IN  /\ claims[c].status = "none"
      /\ \A u \in ManagedUsers : users[u] # "none" => u \in Dropped(Expired(Claims))
      /\ \A d \in open : claims[d].status = "pending"
      /\ claims' = [kept EXCEPT ![c].status = "pending"]
      /\ users' = Without(Dropped(Expired(Claims)))
      /\ UNCHANGED <<members, principal, runner>>

\* The holder sets a password: the token is spent and the account opened.
AcceptClaim(c) ==
  /\ claims[c].status = "pending" /\ ~claims[c].due /\ ~NameTaken
  /\ \E u \in ManagedUsers :
       /\ users' = [users EXCEPT ![u] = "pending_approval"]
       /\ claims' = [claims EXCEPT ![c].status = "accepted", ![c].user = u]
  /\ UNCHANGED <<members, principal, runner>>

RevokeClaim(c) ==
  /\ claims[c].status \in Unapproved
  /\ claims' = Ended({c}, "revoked") /\ users' = Without(Dropped({c}))
  /\ UNCHANGED <<members, principal, runner>>

-----------------------------------------------------------------------------
(* Members *)

MembersOf(u) == {m \in Members : members[m].user = u /\ members[m].status # "removed"}

\* The member of the account, or a new one, invited and queued for provisioning.
EnsuresMember(u, m) ==
  IF MembersOf(u) # {}
  THEN m \in MembersOf(u) /\ UNCHANGED members
  ELSE /\ members[m].status = "none"
       /\ members' = [members EXCEPT ![m].status = "invited", ![m].user = u]

\* A principal is bound once.
Linkable(m) == principal \in {Nobody, m}

\* The provisioning job has done its work.
MemberActivated(m) ==
  /\ members[m].status = "invited"
  /\ members' = [members EXCEPT ![m].status = "active", ![m].served = TRUE]
  /\ UNCHANGED <<claims, users, principal, runner>>

MemberSuspended(m) ==
  /\ members[m].status \in {"invited", "active"}
  /\ members' = [members EXCEPT ![m].status = "suspended"]
  /\ UNCHANGED <<claims, users, principal, runner>>

MemberRemoved(m) ==
  /\ members[m].status \in {"invited", "suspended"}
  /\ members' = [members EXCEPT ![m].status = "removed", ![m].user = Nobody]
  /\ UNCHANGED <<claims, users, principal, runner>>

-----------------------------------------------------------------------------
(* Approving: the handler of the platform, up to the outbox it then runs *)

RunnerGoes(r, pc) == runner' = [runner EXCEPT ![r].pc = pc]
RunnerAt(r, pc) == runner[r].pc = pc
RunnerLeaves(r) == runner' = [runner EXCEPT ![r] = Resting]

\* Approving twice is harmless; a due claim expires instead.
Approve(r, c) ==
  /\ RunnerAt(r, "idle") /\ claims[c].status \in {"accepted", "approved", "provisioning", "active"}
  /\ IF Expired({c}) # {}
     THEN ExpireDue({c}) /\ UNCHANGED runner
     ELSE /\ IF claims[c].status = "accepted"
             THEN /\ claims' = [claims EXCEPT ![c].status = "approved"]
                  /\ users' = [users EXCEPT ![claims[c].user] = "provisioning"]
             ELSE UNCHANGED <<claims, users>>
          /\ runner' = [runner EXCEPT ![r] =
               [Resting EXCEPT !.pc = "member", !.claim = c, !.user = claims[c].user]]
  /\ UNCHANGED <<members, principal>>

\* The department is gone, or the call fails.
ApprovalFails(r) ==
  /\ \E pc \in {"member", "linking", "marking"} : RunnerAt(r, pc)
  /\ RunnerLeaves(r) /\ UNCHANGED <<claims, users, members, principal>>

EnsureMember(r, m) ==
  /\ RunnerAt(r, "member") /\ EnsuresMember(runner[r].user, m)
  /\ runner' = [runner EXCEPT ![r].pc = "linking", ![r].member = m]
  /\ UNCHANGED <<claims, users, principal>>

LinkApproved(r) ==
  /\ RunnerAt(r, "linking")
  /\ IF Linkable(runner[r].member)
     THEN principal' = runner[r].member /\ RunnerGoes(r, "marking")
     ELSE RunnerLeaves(r) /\ UNCHANGED principal
  /\ UNCHANGED <<claims, users, members>>

Marked(c) ==
  IF claims[c].status = "active" THEN claims
  ELSE [claims EXCEPT ![c].status = "provisioning"]

MarkApproved(r) ==
  /\ RunnerAt(r, "marking") /\ claims' = Marked(runner[r].claim) /\ RunnerLeaves(r)
  /\ UNCHANGED <<users, members, principal>>

-----------------------------------------------------------------------------
(* Reconciling, at the end of every round of the outbox: by the worker and,
   at once, by the approval *)

\* The claims are read; one of this name may be under way.
ListClaims(r) ==
  /\ RunnerAt(r, "idle") /\ ExpireDue(Claims)
  /\ \E c \in Claims :
       /\ claims[c].status \in {"approved", "provisioning"}
       /\ runner' = [runner EXCEPT ![r] =
            [Resting EXCEPT !.pc = "resolving", !.claim = c, !.user = claims[c].user,
                            !.stage = claims[c].status]]
  /\ UNCHANGED <<members, principal>>

\* The member as it is now; without one, an approval that was cut short is
\* resumed, and a claim already provisioning has to wait.
ResolveMember(r) ==
  /\ RunnerAt(r, "resolving")
  /\ \/ \E m \in MembersOf(runner[r].user) :
          runner' = [runner EXCEPT ![r].pc = "resolved", ![r].member = m,
                                   ![r].ready = members[m].status = "active"]
     \/ /\ MembersOf(runner[r].user) = {}
        /\ IF runner[r].stage = "approved" THEN RunnerGoes(r, "creating") ELSE RunnerLeaves(r)
  /\ UNCHANGED <<claims, users, members, principal>>

\* Mutant: a member that exists is as good as an active one.
CreateResumedReady(r, m) ==
  /\ RunnerAt(r, "creating") /\ EnsuresMember(runner[r].user, m)
  /\ runner' = [runner EXCEPT ![r].pc = "resolved", ![r].member = m, ![r].ready = TRUE]
  /\ UNCHANGED <<claims, users, principal>>

CreateResumed(r, m) ==
  /\ RunnerAt(r, "creating") /\ EnsuresMember(runner[r].user, m)
  /\ runner' = [runner EXCEPT ![r].pc = "resolved", ![r].member = m,
                              ![r].ready = members[m].status = "active"]
  /\ UNCHANGED <<claims, users, principal>>

MarkResolved(r) ==
  /\ RunnerAt(r, "resolved")
  /\ claims' = IF runner[r].stage = "approved" THEN Marked(runner[r].claim) ELSE claims
  /\ IF runner[r].ready THEN RunnerGoes(r, "binding") ELSE RunnerLeaves(r)
  /\ UNCHANGED <<users, members, principal>>

\* A principal of another member ends the round with an error.
LinkResolved(r) ==
  /\ RunnerAt(r, "binding")
  /\ IF Linkable(runner[r].member)
     THEN principal' = runner[r].member /\ RunnerGoes(r, "opening")
     ELSE RunnerLeaves(r) /\ UNCHANGED principal
  /\ UNCHANGED <<claims, users, members>>

\* The claim and the account change together, or the call raises.
ActivateClaim(r) ==
  LET c == runner[r].claim IN
  /\ RunnerAt(r, "opening") /\ RunnerLeaves(r)
  /\ IF claims[c].status = "provisioning" /\ users[claims[c].user] = "provisioning"
     THEN /\ claims' = [claims EXCEPT ![c].status = "active"]
          /\ users' = [users EXCEPT ![claims[c].user] = "active"]
     ELSE UNCHANGED <<claims, users>>
  /\ UNCHANGED <<members, principal>>

\* A call to either database fails, or the process dies.
RoundFails(r) ==
  /\ \E pc \in {"resolving", "creating", "resolved", "binding", "opening"} : RunnerAt(r, pc)
  /\ RunnerLeaves(r) /\ UNCHANGED <<claims, users, members, principal>>

-----------------------------------------------------------------------------
ClaimsNext ==
  \/ \E c \in Claims :
       FallsDue(c) \/ ReadClaim(c) \/ CreateClaim(c) \/ AcceptClaim(c) \/ RevokeClaim(c)
  \/ \E m \in Members : MemberActivated(m) \/ MemberSuspended(m) \/ MemberRemoved(m)
  \/ \E r \in Runners :
       \/ ApprovalFails(r) \/ LinkApproved(r) \/ MarkApproved(r)
       \/ ListClaims(r) \/ ResolveMember(r) \/ MarkResolved(r) \/ LinkResolved(r)
       \/ ActivateClaim(r) \/ RoundFails(r)
       \/ \E c \in Claims : Approve(r, c)
       \/ \E m \in Members : EnsureMember(r, m) \/ CreateResumed(r, m)

ClaimsSpec == ClaimsInit /\ [][ClaimsNext]_claimVars

-----------------------------------------------------------------------------
(* Properties *)

ClaimsTypeOK ==
  /\ claims \in [Claims ->
       [status : Reserving \cup {"none", "active", "expired", "revoked"}, due : BOOLEAN,
        user : ManagedUsers \cup {Nobody}]]
  /\ users \in [ManagedUsers -> {"none", "pending_approval", "provisioning", "active"}]
  /\ members \in [Members ->
       [status : {"none", "invited", "active", "suspended", "removed"},
        user : ManagedUsers \cup {Nobody}, served : BOOLEAN]]
  /\ principal \in Members \cup {Nobody}
  /\ runner \in [Runners ->
       [pc : {"idle", "member", "linking", "marking", "resolving", "creating", "resolved",
              "binding", "opening"},
        claim : Claims \cup {Nobody}, user : ManagedUsers \cup {Nobody},
        stage : {"none", "approved", "provisioning"}, member : Members \cup {Nobody},
        ready : BOOLEAN]]

\* The name is reserved once: one claim is under way, one account has it, and
\* no claim waits for a holder beside an account.
NameReservedOnce ==
  /\ Cardinality(Open) <= 1
  /\ Cardinality({u \in ManagedUsers : users[u] # "none"}) <= 1
  /\ NameTaken => \A c \in Open : claims[c].status # "pending"

\* An account lives for a claim at the same stage: one that expired or was
\* revoked has released the name, and no account is open before its claim.
StageAgrees ==
  \A u \in ManagedUsers : users[u] # "none" =>
    \E c \in Claims :
      /\ claims[c].user = u
      /\ CASE users[u] = "pending_approval" -> claims[c].status = "accepted"
           [] users[u] = "provisioning" -> claims[c].status \in {"approved", "provisioning"}
           [] users[u] = "active" -> claims[c].status = "active"

\* "Open managed login only after the durable member is fully active": the
\* principal of an open account is bound to a member that was activated.
LoginFollowsMember ==
  \A u \in ManagedUsers : users[u] = "active" =>
    principal # Nobody /\ members[principal].served

ClaimsAreSound == NameReservedOnce /\ StageAgrees /\ LoginFollowsMember
=============================================================================

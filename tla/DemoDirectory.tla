----------------------------- MODULE DemoDirectory -----------------------------
(***************************************************************************)
(* The demonstration store of customer organizations: the directory, the   *)
(* tokens and the balance a customer sees where no database is configured. *)
(* Every operation runs under one lock, so it is one action.  What is left *)
(* to go wrong are the rules that relate rows of one or several customers, *)
(* and the usage boards the HTTP layer caches under the store's private    *)
(* revision: a request reads the revision, builds the board and stores it  *)
(* in three steps, while other requests change the directory.              *)
(* Names, models and validity periods are not modelled; a refused call     *)
(* changes nothing.                                                        *)
(***************************************************************************)
EXTENDS Naturals, FiniteSets

CONSTANTS
  Tenants, SeedTenant,       \* customers there may be, the one in the seed
  Staff, SeedAdmin,          \* member rows, the administrator in the seed
  SeedGuest,                 \* and the member it has invited
  Offices, SeedOffice,       \* department rows, the one in the seed
  Addresses,                 \* normalized e-mail addresses
  SeedAddress, GuestAddress, \* those of the seed's two members
  DemoTokens, MaxTokens,     \* token rows, MAX_TOKENS_PER_ORGANIZATION
  NoTenant,
  BoardReaders,              \* requests for a board
  MaxDemoEdits               \* bound: operations in a behaviour

ASSUME DemoAssumption ==
  /\ SeedTenant \in Tenants /\ SeedAdmin \in Staff /\ SeedOffice \in Offices
  /\ SeedGuest \in Staff \ {SeedAdmin} /\ NoTenant \notin Tenants
  /\ SeedAddress \in Addresses /\ GuestAddress \in Addresses \ {SeedAddress}
  /\ MaxTokens \in Nat /\ MaxDemoEdits \in Nat

VARIABLES
  tenant,      \* status and balance of an organization
  office,      \* organization and status of a department
  staff,       \* office, address, role and status of a member
  demoToken,   \* organization, member (or NoTenant: shared), status, deleted
  board,       \* what the cache holds under the current revision of a customer
  boardReader,
  reseeded,    \* a customer was reset alone, and all together not since
  demoEdits

demoVars == <<tenant, office, staff, demoToken, board, boardReader, reseeded, demoEdits>>
boardVars == <<board, boardReader>>

NoRow == [tenant |-> NoTenant, status |-> "none"]
NoStaff == [office |-> SeedOffice, address |-> SeedAddress, admin |-> FALSE, status |-> "none"]
NoToken == [tenant |-> NoTenant, member |-> NoTenant, status |-> "none", deleted |-> FALSE]
NoBoardRequest == [pc |-> "idle", tenant |-> NoTenant, key |-> FALSE, data |-> FALSE]
Opened == [status |-> "active", topups |-> 0, balance |-> 0]

SeedTenants == [o \in Tenants |-> IF o = SeedTenant THEN Opened ELSE [Opened EXCEPT !.status = "none"]]
SeedOffices == [d \in Offices |->
  IF d = SeedOffice THEN [tenant |-> SeedTenant, status |-> "active"] ELSE NoRow]
SeedStaff == [m \in Staff |->
  CASE m = SeedAdmin -> [NoStaff EXCEPT !.admin = TRUE, !.status = "active"]
    [] m = SeedGuest -> [NoStaff EXCEPT !.address = GuestAddress, !.status = "invited"]
    [] OTHER         -> NoStaff]

DemoInit ==
  /\ tenant = SeedTenants /\ office = SeedOffices /\ staff = SeedStaff
  /\ demoToken = [t \in DemoTokens |-> NoToken]
  /\ board = [o \in Tenants |-> "none"] /\ boardReader = [r \in BoardReaders |-> NoBoardRequest]
  /\ reseeded = FALSE /\ demoEdits = 0

TenantOf(m) == office[staff[m].office].tenant
Live == {"invited", "active"}          \* ACTIVE_DEPARTMENT_MEMBER_STATUSES
Present(m) == staff[m].status \notin {"none", "removed"}
Operating(o) == tenant[o].status = "active"
Edit == demoEdits < MaxDemoEdits /\ demoEdits' = demoEdits + 1

\* _member_email_assignment, over all customers: a removed member's address is free.
Assigned(a) == \E m \in Staff : Present(m) /\ staff[m].address = a

\* Mutant: counts the administrators of the customer whatever their status.
PrivilegedRemainsOnPaper(m, admin, next) ==
  LET admins == {n \in Staff : Present(n) /\ TenantOf(n) = TenantOf(m) /\ staff[n].admin}
  IN m \in admins /\ (~admin \/ next # "active") => Cardinality(admins) > 1

\* _ensure_privileged_member_remains.
PrivilegedRemains(m, admin, next) ==
  LET admins == {n \in Staff : staff[n].status = "active" /\ staff[n].admin
                               /\ TenantOf(n) = TenantOf(m)}
  IN m \in admins /\ (~admin \/ next # "active") => Cardinality(admins) > 1

\* Mutant: the directory changes and the revision stays.
TouchedNot(o) ==
  /\ board' = [board EXCEPT ![o] = IF @ = "current" THEN "old" ELSE @]
  /\ boardReader' = [r \in BoardReaders |->
       IF boardReader[r].tenant = o THEN [boardReader[r] EXCEPT !.data = FALSE]
       ELSE boardReader[r]]

\* _touch_usage_scope: the revision moves, so what was cached is found no more and
\* a request in progress holds a key of the past.
Touched(o) ==
  /\ board' = [board EXCEPT ![o] = "none"]
  /\ boardReader' = [r \in BoardReaders |->
       IF boardReader[r].tenant = o THEN [boardReader[r] EXCEPT !.key = FALSE, !.data = FALSE]
       ELSE boardReader[r]]

-----------------------------------------------------------------------------
(* Customers *)

CreateTenant(o, d, m, a) ==
  /\ Edit /\ tenant[o].status = "none" /\ office[d].status = "none" /\ staff[m].status = "none"
  /\ ~Assigned(a)
  /\ tenant' = [tenant EXCEPT ![o] = Opened]
  /\ office' = [office EXCEPT ![d] = [tenant |-> o, status |-> "active"]]
  /\ staff' = [staff EXCEPT ![m] =
       [office |-> d, address |-> a, admin |-> TRUE, status |-> "active"]]
  /\ UNCHANGED <<demoToken, boardVars, reseeded>>

\* An archived customer is read-only.
UpdateTenant(o) ==
  /\ Edit /\ tenant[o].status \in {"active", "suspended"}
  /\ \E s \in {"active", "suspended", "archived"} : tenant' = [tenant EXCEPT ![o].status = s]
  /\ Touched(o) /\ UNCHANGED <<office, staff, demoToken, reseeded>>

ArchiveTenant(o) ==
  /\ Edit /\ tenant[o].status \in {"active", "suspended"}
  /\ tenant' = [tenant EXCEPT ![o].status = "archived"]
  /\ Touched(o) /\ UNCHANGED <<office, staff, demoToken, reseeded>>

RestoreTenant(o) ==
  /\ Edit /\ tenant[o].status = "archived"
  /\ tenant' = [tenant EXCEPT ![o].status = "active"]
  /\ Touched(o) /\ UNCHANGED <<office, staff, demoToken, reseeded>>

SimulateTopup(o) ==
  /\ Edit /\ Operating(o)
  /\ tenant' = [tenant EXCEPT ![o].topups = @ + 1, ![o].balance = @ + 1]
  /\ Touched(o) /\ UNCHANGED <<office, staff, demoToken, reseeded>>

-----------------------------------------------------------------------------
(* Departments and members *)

CreateOffice(o, d) ==
  /\ Edit /\ Operating(o) /\ office[d].status = "none"
  /\ office' = [office EXCEPT ![d] = [tenant |-> o, status |-> "active"]]
  /\ Touched(o) /\ UNCHANGED <<tenant, staff, demoToken, reseeded>>

\* A new name: what a board shows changes, nothing else.
RenameOffice(d) ==
  /\ Edit /\ office[d].status = "active" /\ Operating(office[d].tenant)
  /\ Touched(office[d].tenant) /\ UNCHANGED <<tenant, office, staff, demoToken, reseeded>>

ArchiveOffice(d) ==
  /\ Edit /\ office[d].status = "active" /\ Operating(office[d].tenant)
  /\ ~\E m \in Staff : staff[m].office = d /\ staff[m].status \in Live
  /\ office' = [office EXCEPT ![d].status = "archived"]
  /\ Touched(office[d].tenant) /\ UNCHANGED <<tenant, staff, demoToken, reseeded>>

CreateStaff(m, d, a) ==
  /\ Edit /\ staff[m].status = "none" /\ office[d].status = "active"
  /\ Operating(office[d].tenant) /\ ~Assigned(a)
  /\ \E admin \in BOOLEAN : staff' = [staff EXCEPT ![m] =
       [office |-> d, address |-> a, admin |-> admin, status |-> "invited"]]
  /\ Touched(office[d].tenant) /\ UNCHANGED <<tenant, office, demoToken, reseeded>>

\* update_member: a member who moves, or who is live afterwards, needs a department in use.
UpdateStaff(m) ==
  /\ Edit /\ Present(m) /\ Operating(TenantOf(m))
  /\ \E d \in Offices, admin \in BOOLEAN, next \in {"invited", "active", "suspended"} :
       /\ office[d].tenant = TenantOf(m)
       /\ d # staff[m].office \/ next \in Live => office[d].status = "active"
       /\ PrivilegedRemains(m, admin, next)
       /\ staff' = [staff EXCEPT ![m].office = d, ![m].admin = admin, ![m].status = next]
  /\ Touched(TenantOf(m)) /\ UNCHANGED <<tenant, office, demoToken, reseeded>>

\* The tombstone keeps the row; the member's active tokens end with the membership.
RemoveStaff(m) ==
  /\ Edit /\ staff[m].status \in {"invited", "suspended"} /\ Operating(TenantOf(m))
  /\ staff' = [staff EXCEPT ![m].status = "removed"]
  /\ demoToken' = [t \in DemoTokens |->
       IF demoToken[t].member = m /\ demoToken[t].status = "active"
       THEN [demoToken[t] EXCEPT !.status = "revoked"] ELSE demoToken[t]]
  /\ Touched(TenantOf(m)) /\ UNCHANGED <<tenant, office, reseeded>>

-----------------------------------------------------------------------------
(* Tokens: boards do not show them, so the revision stays *)

\* _visible_tokens: what counts against the cap; a deleted token does not.
Visible(o) == {t \in DemoTokens : demoToken[t].tenant = o /\ ~demoToken[t].deleted}

IssueToken(t, o) ==
  /\ Edit /\ demoToken[t].status = "none" /\ Operating(o)
  /\ Cardinality(Visible(o)) < MaxTokens
  /\ \E m \in Staff \union {NoTenant} :
       /\ m \in Staff => staff[m].status \in Live /\ TenantOf(m) = o
       /\ demoToken' = [demoToken EXCEPT ![t] =
            [tenant |-> o, member |-> m, status |-> "active", deleted |-> FALSE]]
  /\ UNCHANGED <<tenant, office, staff, boardVars, reseeded>>

RevokeDemoToken(t) ==
  /\ Edit /\ demoToken[t].status = "active" /\ Operating(demoToken[t].tenant)
  /\ demoToken' = [demoToken EXCEPT ![t].status = "revoked"]
  /\ UNCHANGED <<tenant, office, staff, boardVars, reseeded>>

HideToken(t) ==
  /\ Edit /\ demoToken[t].status = "revoked" /\ ~demoToken[t].deleted
  /\ Operating(demoToken[t].tenant)
  /\ demoToken' = [demoToken EXCEPT ![t].deleted = TRUE]
  /\ UNCHANGED <<tenant, office, staff, boardVars, reseeded>>

\* Either reset makes a new namespace, under which no key was made yet.
NewNamespace ==
  /\ board' = [o \in Tenants |-> "none"]
  /\ boardReader' = [r \in BoardReaders |->
       [boardReader[r] EXCEPT !.key = FALSE, !.data = FALSE]]

\* reset without an id: the seed again.
ResetDemo ==
  /\ Edit /\ tenant' = SeedTenants /\ office' = SeedOffices /\ staff' = SeedStaff
  /\ demoToken' = [t \in DemoTokens |-> NoToken]
  /\ NewNamespace /\ reseeded' = FALSE

\* reset of one customer, which must be in the seed: its rows become the seed's, and
\* nobody asks whether the seed's addresses have been taken elsewhere.
ResetTenant(o) ==
  /\ Edit /\ o = SeedTenant
  /\ tenant' = [tenant EXCEPT ![o] = SeedTenants[o]]
  /\ office' = [d \in Offices |-> IF office[d].tenant = o THEN SeedOffices[d] ELSE office[d]]
  /\ staff' = [m \in Staff |-> IF TenantOf(m) = o THEN SeedStaff[m] ELSE staff[m]]
  /\ demoToken' = [t \in DemoTokens |-> IF demoToken[t].tenant = o THEN NoToken ELSE demoToken[t]]
  /\ NewNamespace /\ reseeded' = TRUE

-----------------------------------------------------------------------------
(* Boards *)

Reading(r, step) == boardReader[r].pc = step

\* The key is made before the board is looked up or built; a hit ends the request.
ReadRevision(r, o) ==
  /\ Reading(r, "idle") /\ tenant[o].status # "none"
  /\ boardReader' = [boardReader EXCEPT ![r] =
       [pc |-> "keyed", tenant |-> o, key |-> TRUE, data |-> FALSE]]
  /\ UNCHANGED <<tenant, office, staff, demoToken, board, reseeded, demoEdits>>

BuildBoard(r) ==
  /\ Reading(r, "keyed")
  /\ boardReader' = [boardReader EXCEPT ![r].pc = "built", ![r].data = TRUE]
  /\ UNCHANGED <<tenant, office, staff, demoToken, board, reseeded, demoEdits>>

\* Stored under the key of the start: where the revision has moved since, nobody finds it.
StoreBoard(r) ==
  /\ Reading(r, "built")
  /\ board' = IF ~boardReader[r].key THEN board
              ELSE [board EXCEPT ![boardReader[r].tenant] =
                      IF boardReader[r].data THEN "current" ELSE "old"]
  /\ boardReader' = [boardReader EXCEPT ![r] = NoBoardRequest]
  /\ UNCHANGED <<tenant, office, staff, demoToken, reseeded, demoEdits>>

\* A write's handler clears the cache once the store has answered; entries also expire.
ClearBoards ==
  /\ \E o \in Tenants : board[o] # "none"
  /\ board' = [o \in Tenants |-> "none"]
  /\ UNCHANGED <<tenant, office, staff, demoToken, boardReader, reseeded, demoEdits>>

DemoNext ==
  \/ \E o \in Tenants :
       \/ \E d \in Offices, m \in Staff, a \in Addresses : CreateTenant(o, d, m, a)
       \/ UpdateTenant(o) \/ ArchiveTenant(o) \/ RestoreTenant(o) \/ SimulateTopup(o)
       \/ ResetTenant(o)
       \/ \E d \in Offices : CreateOffice(o, d)
       \/ \E t \in DemoTokens : IssueToken(t, o)
       \/ \E r \in BoardReaders : ReadRevision(r, o)
  \/ \E d \in Offices : RenameOffice(d) \/ ArchiveOffice(d)
  \/ \E m \in Staff, d \in Offices, a \in Addresses : CreateStaff(m, d, a)
  \/ \E m \in Staff : UpdateStaff(m) \/ RemoveStaff(m)
  \/ \E t \in DemoTokens : RevokeDemoToken(t) \/ HideToken(t)
  \/ \E r \in BoardReaders : BuildBoard(r) \/ StoreBoard(r)
  \/ ResetDemo \/ ClearBoards

DemoSpec == DemoInit /\ [][DemoNext]_demoVars

-----------------------------------------------------------------------------
\* The rows of the demonstration store and the requests for boards keep their types.
DemoTypeOK ==
  /\ tenant \in [Tenants -> [status : {"none", "active", "suspended", "archived"},
                             topups : Nat, balance : Nat]]
  /\ office \in [Offices -> [tenant : Tenants \union {NoTenant},
                             status : {"none", "active", "archived"}]]
  /\ staff \in [Staff -> [office : Offices, address : Addresses, admin : BOOLEAN,
                          status : {"none", "invited", "active", "suspended", "removed"}]]
  /\ demoToken \in [DemoTokens -> [tenant : Tenants \union {NoTenant},
       member : Staff \union {NoTenant}, status : {"none", "active", "revoked"},
       deleted : BOOLEAN]]
  /\ board \in [Tenants -> {"none", "current", "old"}]
  /\ boardReader \in [BoardReaders -> [pc : {"idle", "keyed", "built"},
       tenant : Tenants \union {NoTenant}, key : BOOLEAN, data : BOOLEAN]]
  /\ reseeded \in BOOLEAN /\ demoEdits \in 0..MaxDemoEdits

\* Every customer keeps an administrator who can act for it.
AdminRemains ==
  \A o \in Tenants : tenant[o].status # "none" =>
    \E m \in Staff : staff[m].status = "active" /\ staff[m].admin /\ TenantOf(m) = o

\* An address signs in to one customer at most, unless a customer was reset alone: that
\* may bring back a member of the seed whose address another row has taken by then.
OneMembership ==
  \A m, n \in Staff : Present(m) /\ Present(n) /\ staff[m].address = staff[n].address =>
    m = n \/ (reseeded /\ {m, n} \intersect {SeedAdmin, SeedGuest} # {})

\* Whoever may use the customer's departments is in one that is in use.
LiveStaffHasOffice ==
  \A m \in Staff : staff[m].status \in Live => office[staff[m].office].status = "active"

\* Nobody who has left holds a token that works, and the cap holds.
DemoTokensEnd ==
  /\ \A t \in DemoTokens : demoToken[t].status = "active" =>
       demoToken[t].member = NoTenant \/ Present(demoToken[t].member)
  /\ \A o \in Tenants : Cardinality(Visible(o)) <= MaxTokens

\* A board found in the cache shows the directory as it is.
BoardsAreCurrent == \A o \in Tenants : board[o] # "old"

DemoIsSound ==
  /\ AdminRemains /\ OneMembership /\ LiveStaffHasOffice /\ DemoTokensEnd /\ BoardsAreCurrent
==============================================================================

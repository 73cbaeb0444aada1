----------------------------- MODULE MCBackoffice -----------------------------
(***************************************************************************)
(* The back office: accounts, claims, members, orders, the projection of   *)
(* the directory, adoption, the pilot's reconciliation, the keys, and the  *)
(* demonstration store.  They share rows only through the interfaces each  *)
(* module already leaves open (a member who is activated, a claim that is  *)
(* linked), so as in MCUsagePipeline a behaviour picks one of them and     *)
(* runs it.                                                                *)
(***************************************************************************)
EXTENDS LocalAccounts, MembershipClaims, MemberAccess, TopUpOrders, TenantProjection,
        Adoption, PilotReconcile, KeyRotation, TeamKeyReads, DemoDirectory, TLC

VARIABLE focus

backVars == <<accountVars, claimVars, memberVars, orderVars, projectionVars, adoptionVars,
              pilotVars, rotationVars, readsVars, demoVars, focus>>

\* A handler serves one request and they are all alike, so it loses no behaviour to take
\* the handlers that share their names with the runners first.
InTurn ==
  \A g \in Handlers \intersect Runners, h \in Handlers \ Runners :
    handler[h].pc # "idle" => handler[g].pc # "idle"

\* Four requests of an account are explored where an invitation makes it, three where
\* registrations do.
ThreeRequests == InTurn /\ Cardinality({h \in Handlers : handler[h].pc # "idle"}) <= 3
OnlyInvited == InTurn /\ \A h \in Handlers : handler[h].pc \notin {"mailingCode", "registering"}

\* One job of a member is lost in a behaviour, in one way.
OneLoss == Cardinality(lost) <= 1

\* Two edits are explored for an organization of one department, and with a failure
\* only where no two workers are busy; departments next to each other with one edit.
OneEdit == orgEdits <= 1
OneDepartment == \A d \in OrgDepartments \ {FirstDepartment} : status[d] = "none"
Alone == \A v, w \in ProjectionWorkers : hand[v].pc # "idle" /\ hand[w].pc # "idle" => v = w
TwoEdits == OneDepartment /\ (orgEdits + jobFaults + overruns <= 2 \/ Alone)

\* The last edit of the demonstration store is explored where no board is open or kept.
LastWithoutBoards ==
  demoEdits = MaxDemoEdits =>
    /\ \A o \in Tenants : board[o] = "none"
    /\ \A r \in BoardReaders : boardReader[r] = NoBoardRequest

\* Init picks what a component starts from only where that component runs.
MCInit ==
  /\ AccountsInit /\ ClaimsInit /\ MemberInit /\ OrdersInit /\ ProjectionInit
  /\ AdoptionInit /\ PilotInit /\ RotationInit /\ ReadsInit /\ DemoInit
  /\ focus \in {"accounts", "logins", "claims", "members", "orders", "firm", "projection",
                "edits", "adoption", "pilot", "rotation", "reads", "demo"}
  /\ focus # "adoption" => ~scopeMade
  /\ focus # "pilot" => oldJob = "pending"
  /\ focus # "rotation" => vault = {}

MCNext ==
  /\ CASE focus = "accounts" -> AccountsNext /\ ThreeRequests'
       [] focus = "logins"   -> AccountsNext /\ OnlyInvited'
       [] OTHER              -> UNCHANGED accountVars
  /\ IF focus = "claims" THEN ClaimsNext ELSE UNCHANGED claimVars
  /\ IF focus = "members" THEN MemberNext /\ OneLoss' ELSE UNCHANGED memberVars
  /\ CASE focus = "orders" -> PersonalNext \/ \E c \in Clerks : ClerkDies(c)
       [] focus = "firm"   -> FirmNext \/ \E c \in Clerks : ClerkDies(c)
       [] OTHER            -> UNCHANGED orderVars
  /\ CASE focus = "projection" -> ProjectionNext /\ OneEdit'
       [] focus = "edits"      -> ProjectionNext /\ TwoEdits'
       [] OTHER                -> UNCHANGED projectionVars
  /\ IF focus = "adoption" THEN AdoptionNext ELSE UNCHANGED adoptionVars
  /\ IF focus = "pilot" THEN PilotNext ELSE UNCHANGED pilotVars
  /\ IF focus = "rotation" THEN RotationNext ELSE UNCHANGED rotationVars
  /\ IF focus = "reads" THEN ReadsNext ELSE UNCHANGED readsVars
  /\ IF focus = "demo" THEN DemoNext /\ LastWithoutBoards' ELSE UNCHANGED demoVars
  /\ UNCHANGED focus

MCSpec == MCInit /\ [][MCNext]_backVars

\* Requests and workers, the things they work on, and persons are each interchangeable;
\* the instance names them alike in every component, so that three groups are enough.
MCSymmetry ==
  Permutations(Runners) \union Permutations(Claims) \union Permutations(Members)

\* The rows, jobs and requests of the component that runs keep their types.
BackofficeTypeOK ==
  /\ focus \in {"accounts", "logins"} => AccountsTypeOK
  /\ focus = "claims" => ClaimsTypeOK
  /\ focus = "members" => MemberTypeOK
  /\ focus \in {"orders", "firm"} => OrdersTypeOK
  /\ focus \in {"projection", "edits"} => ProjectionTypeOK
  /\ focus = "adoption" => AdoptionTypeOK
  /\ focus = "pilot" => PilotTypeOK
  /\ focus = "rotation" => RotationTypeOK
  /\ focus = "reads" => ReadsTypeOK
  /\ focus = "demo" => DemoTypeOK

\* The memberships an administrator grants: claims of an account, and access at the proxy.
MembershipsAreSound == ClaimsAreSound /\ MembersAreSound

\* The personal keys: the rotation of one, and what a leader is shown of a team's.
KeysAreSound == RotationIsSafe /\ ReadsAreFresh

\* What is taken over from before: an organization found upstream, the pilot's member.
TakeoversAreSound == AdoptionIsSound /\ PilotIsSound

\* What a person was promised is not taken back behind their back: the link delivered
\* last keeps working, and an adoption that was completed stays so.
PromisesStay == DeliveredLinkStays /\ AppliedStays
==============================================================================

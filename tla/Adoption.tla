-------------------------------- MODULE Adoption --------------------------------
(***************************************************************************)
(* Taking over an organization that exists upstream, with the keys that    *)
(* were in use before.  The administrator previews the adoption; what the  *)
(* preview saw makes its fingerprint, and the fingerprint the key of the   *)
(* operation.  Applying it is a long run of calls without a transaction    *)
(* around them, each repeatable: ensure the upstream scope, map a local    *)
(* organization to it, ensure the principal, import every key as a         *)
(* report-only asset, queue its backfill, and only then mark the operation *)
(* applied.  Two requests may apply at once, with one operation or two.    *)
(* Meanwhile the principal is bound to members of the organization.        *)
(***************************************************************************)
EXTENDS Naturals, FiniteSets

CONSTANTS
  Assets,              \* keys to take over
  Operations,          \* number of fingerprints the preview goes through
  Appliers,            \* requests to apply
  Persons, NoPerson,     \* members the principal may be bound to
  MaxAdoptionFaults    \* bound: calls that fail, processes that die

ASSUME AdoptionAssumption ==
  Operations \in Nat \ {0} /\ NoPerson \notin Persons /\ MaxAdoptionFaults \in Nat

VARIABLES
  preview,       \* the fingerprint the preview has now
  operation,     \* customer_adoption_operation, by fingerprint
  scopeMade,     \* the upstream organization and team exist
  localOrg,      \* "none", "made" or "mapped" to them
  customer,     \* customer_principal: does it exist, and to whom is it bound
  imported,      \* customer_usage_key_identity: the operation of each key, and its member
  backfills,     \* keys with a row in customer_usage_backfill
  applier,
  adoptionFaults

adoptionVars == <<preview, operation, scopeMade, localOrg, customer, imported, backfills,
                  applier, adoptionFaults>>

rowVars == <<scopeMade, localOrg, customer, imported, backfills>>

Ops == 1..Operations
Unclaimed == [by |-> 0, member |-> NoPerson]
Away == [pc |-> "away", op |-> 0, todo |-> {}]

AdoptionInit ==
  /\ preview = 1 /\ operation = [o \in Ops |-> "none"]
  /\ scopeMade \in BOOLEAN /\ localOrg = "none"
  /\ customer = [known |-> FALSE, member |-> NoPerson]
  /\ imported = [k \in Assets |-> Unclaimed] /\ backfills = {}
  /\ applier = [p \in Appliers |-> Away] /\ adoptionFaults = 0

Follows(p, step) == applier' = [applier EXCEPT ![p] = step]

\* The preview reads the spend of the keys, their scopes and the upstream objects.
UpstreamMoves ==
  /\ preview < Operations /\ preview' = preview + 1
  /\ UNCHANGED <<operation, rowVars, applier, adoptionFaults>>

-----------------------------------------------------------------------------
(* The request *)

\* An applied operation is answered from its row.  Any other must match the
\* preview of this moment, and its row is made or found.
ApplyAdoption(p, o) ==
  /\ applier[p].pc = "away" /\ operation[o] # "applied" /\ o = preview
  /\ operation' = [operation EXCEPT ![o] = IF @ = "none" THEN "started" ELSE @]
  /\ Follows(p, [Away EXCEPT !.pc = "scope", !.op = o])
  /\ UNCHANGED <<preview, rowVars, adoptionFaults>>

\* ensure_adoption_upstream_scope: create or recover.
EnsureScope(p) ==
  /\ applier[p].pc = "scope" /\ scopeMade' = TRUE
  /\ Follows(p, [applier[p] EXCEPT !.pc = "mapping"])
  /\ UNCHANGED <<preview, operation, localOrg, customer, imported, backfills, adoptionFaults>>

LookForMapping(p) ==
  /\ applier[p].pc = "mapping"
  /\ Follows(p, [applier[p] EXCEPT
       !.pc = CASE localOrg = "mapped" -> "principal"
                [] localOrg = "made"   -> "adopt"
                [] OTHER               -> "create"])
  /\ UNCHANGED <<preview, operation, rowVars, adoptionFaults>>

\* The name of an organization is unique: of two that create it one fails.
CreateLocal(p) ==
  /\ applier[p].pc = "create" /\ localOrg = "none" /\ localOrg' = "made"
  /\ Follows(p, [applier[p] EXCEPT !.pc = "adopt"])
  /\ UNCHANGED <<preview, operation, scopeMade, customer, imported, backfills, adoptionFaults>>

AdoptScope(p) ==
  /\ applier[p].pc = "adopt" /\ localOrg' = "mapped"
  /\ Follows(p, [applier[p] EXCEPT !.pc = "principal"])
  /\ UNCHANGED <<preview, operation, scopeMade, customer, imported, backfills, adoptionFaults>>

EnsurePrincipal(p) ==
  /\ applier[p].pc = "principal" /\ customer' = [customer EXCEPT !.known = TRUE]
  /\ Follows(p, [applier[p] EXCEPT !.pc = "import", !.todo = Assets])
  /\ UNCHANGED <<preview, operation, scopeMade, localOrg, imported, backfills, adoptionFaults>>

Importable(p, k) == imported[k].by \in {0, applier[p].op}

\* import_report_only_key_identity: inserted without a member, or refreshed.
ImportKey(p, k) ==
  /\ applier[p].pc = "import" /\ k \in applier[p].todo /\ Importable(p, k)
  /\ imported' = [imported EXCEPT ![k].by = applier[p].op]
  /\ LET rest == applier[p].todo \ {k}
     IN Follows(p, [applier[p] EXCEPT !.todo = IF rest = {} THEN Assets ELSE rest,
                                      !.pc = IF rest = {} THEN "backfill" ELSE "import"])
  /\ UNCHANGED <<preview, operation, scopeMade, localOrg, customer, backfills, adoptionFaults>>

QueueBackfill(p, k) ==
  /\ applier[p].pc = "backfill" /\ k \in applier[p].todo
  /\ backfills' = backfills \cup {k}
  /\ LET rest == applier[p].todo \ {k}
     IN Follows(p, [applier[p] EXCEPT !.todo = rest,
                                      !.pc = IF rest = {} THEN "complete" ELSE "backfill"])
  /\ UNCHANGED <<preview, operation, scopeMade, localOrg, customer, imported, adoptionFaults>>

CompleteOperation(p) ==
  /\ applier[p].pc = "complete"
  /\ operation' = [operation EXCEPT ![applier[p].op] = "applied"]
  /\ Follows(p, Away)
  /\ UNCHANGED <<preview, rowVars, adoptionFaults>>

FailOperation(p) ==
  /\ operation' = [operation EXCEPT ![applier[p].op] = IF @ = "applied" THEN @ ELSE "failed"]
  /\ Follows(p, Away)
  /\ UNCHANGED <<preview, rowVars>>

\* The key was claimed by the operation of another preview, the name was taken.
Conflicts(p) ==
  /\ \/ applier[p].pc = "import" /\ \E k \in applier[p].todo : ~Importable(p, k)
     \/ applier[p].pc = "create" /\ localOrg # "none"
  /\ FailOperation(p) /\ UNCHANGED adoptionFaults

AdoptionFaults(p) ==
  /\ applier[p].pc # "away"
  /\ adoptionFaults < MaxAdoptionFaults /\ adoptionFaults' = adoptionFaults + 1

CallFails(p) == AdoptionFaults(p) /\ FailOperation(p)

ApplierDies(p) ==
  /\ AdoptionFaults(p) /\ Follows(p, Away) /\ UNCHANGED <<preview, operation, rowVars>>

-----------------------------------------------------------------------------
(* The principal and its member: one transaction with the keys *)

\* Mutant: only keys without a member follow a new binding.
RebindLinked(m) ==
  imported' = [k \in Assets |->
    IF imported[k].by # 0 /\ imported[k].member = NoPerson
    THEN [imported[k] EXCEPT !.member = m] ELSE imported[k]]

Rebind(m) ==
  imported' = [k \in Assets |->
    IF imported[k].by # 0 THEN [imported[k] EXCEPT !.member = m] ELSE imported[k]]

\* set_principal_member: an administrator binds, rebinds or releases.
SetPrincipalMember(m) ==
  /\ customer.known /\ customer' = [customer EXCEPT !.member = m] /\ Rebind(m)
  /\ UNCHANGED <<preview, operation, scopeMade, localOrg, backfills, applier, adoptionFaults>>

\* link_principal_member: a claim binds a principal that is free.
LinkPrincipalMember(m) ==
  /\ customer.known /\ customer.member \in {NoPerson, m} /\ m # NoPerson
  /\ customer' = [customer EXCEPT !.member = m]
  /\ imported' = [k \in Assets |->
       IF imported[k].by # 0 /\ imported[k].member = NoPerson
       THEN [imported[k] EXCEPT !.member = m] ELSE imported[k]]
  /\ UNCHANGED <<preview, operation, scopeMade, localOrg, backfills, applier, adoptionFaults>>

AdoptionNext ==
  \/ UpstreamMoves
  \/ \E p \in Appliers :
       \/ \E o \in Ops : ApplyAdoption(p, o)
       \/ EnsureScope(p) \/ LookForMapping(p) \/ CreateLocal(p) \/ AdoptScope(p)
       \/ EnsurePrincipal(p) \/ CompleteOperation(p)
       \/ \E k \in Assets : ImportKey(p, k) \/ QueueBackfill(p, k)
       \/ Conflicts(p) \/ CallFails(p) \/ ApplierDies(p)
  \/ \E m \in Persons : LinkPrincipalMember(m)
  \/ \E m \in Persons \cup {NoPerson} : SetPrincipalMember(m)

AdoptionSpec == AdoptionInit /\ [][AdoptionNext]_adoptionVars

-----------------------------------------------------------------------------
AdoptionTypeOK ==
  /\ preview \in Ops /\ operation \in [Ops -> {"none", "started", "failed", "applied"}]
  /\ scopeMade \in BOOLEAN /\ localOrg \in {"none", "made", "mapped"}
  /\ customer \in [known : BOOLEAN, member : Persons \cup {NoPerson}]
  /\ imported \in [Assets -> [by : 0..Operations, member : Persons \cup {NoPerson}]]
  /\ backfills \subseteq Assets
  /\ applier \in [Appliers -> [pc : {"away", "scope", "mapping", "create", "adopt", "principal",
                                     "import", "backfill", "complete"},
                               op : 0..Operations, todo : SUBSET Assets]]

(***************************************************************************)
(* An adoption that says applied is whole: the organization is mapped,     *)
(* every key is its own import and has a backfill queued; no key is        *)
(* claimed by two operations, so at most one is applied; and usage is never*)
(* booked to anyone but the person the principal is bound to.              *)
(***************************************************************************)
AppliedIsWhole == \A o \in Ops : operation[o] = "applied" =>
  /\ localOrg = "mapped" /\ customer.known /\ backfills = Assets
  /\ \A k \in Assets : imported[k].by = o
KeysFollowPrincipal == \A k \in Assets : imported[k].member \in {NoPerson, customer.member}

AdoptionIsSound == AppliedIsWhole /\ KeysFollowPrincipal

(***************************************************************************)
(* A request that fails late does not undo the adoption another request    *)
(* has completed meanwhile.                                                *)
(***************************************************************************)
AppliedStays ==
  [][\A o \in Ops : operation[o] = "applied" => operation'[o] = "applied"]_operation
=============================================================================

--------------------------- MODULE OrgEligibility ---------------------------
(***************************************************************************)
(* What the rest of the system may rely on about one customer              *)
(* organization: its lifecycle status, the status of its credit, and       *)
(* whether the tokens issued while it was eligible have been swept, i.e.   *)
(* queued for revocation.  CreditLedger implements it; TokenLifecycle is   *)
(* built on it.                                                            *)
(***************************************************************************)

VARIABLES
    orgStatus,  \* customer_organization.status
    billing,    \* customer_organization.billing_status
    swept       \* a revocation sweep was queued after the last eligible state

eligibilityVars == <<orgStatus, billing, swept>>

OrgStatuses == {"provisioning", "active", "suspended", "archived"}
Disabled == {"suspended", "archived"}
BillingStatuses == {"active", "past_due", "suspended"}

\* create_token_record and finalize_token_record accept tokens only then.
Eligible == orgStatus = "active" /\ billing = "active"

EligibilityTypeOK ==
    /\ orgStatus \in OrgStatuses
    /\ billing \in BillingStatuses
    /\ swept \in BOOLEAN

EligibilityInit ==
    /\ orgStatus = "provisioning"
    /\ billing = "past_due"
    /\ swept = TRUE

\* The sweep of a transaction is queued with it, or a step that leaves the
\* organization eligible re-opens the account for tokens.
Sweep(queued) ==
    swept' = IF queued THEN TRUE ELSE swept /\ ~Eligible'

\* update_organization, archive_organization: a disabled status sweeps.
SetStatus(newStatus) ==
    /\ orgStatus' = newStatus
    /\ UNCHANGED billing
    /\ Sweep(newStatus \in Disabled)

\* restore_organization revives an archived organization, and only that.
RestoreOrganization ==
    /\ orgStatus = "archived"
    /\ orgStatus' = "active"
    /\ UNCHANGED billing
    /\ Sweep(FALSE)

\* set_upstream_organization(status="active"), refused while disabled.
ActivateOrganization ==
    /\ orgStatus \notin Disabled
    /\ orgStatus' = "active"
    /\ UNCHANGED billing
    /\ Sweep(FALSE)

\* Mutant: the organization's status is copied into its billing status.
BillingAfterCopied(funded, disabled) ==
    IF disabled THEN orgStatus ELSE IF funded THEN "active" ELSE "past_due"

\* The billing status a ledger write leaves: "suspended" is never left again.
BillingAfter(funded, disabled) ==
    IF billing = "suspended" \/ disabled THEN "suspended"
    ELSE IF funded THEN "active" ELSE "past_due"

\* Mutant: only settlements sweep.
CreditAdjustedUnswept(funded) ==
    /\ billing' = BillingAfter(funded, FALSE)
    /\ UNCHANGED orgStatus
    /\ Sweep(FALSE)

\* adjust_billing with a positive (funded) or a non-positive balance after it.
CreditAdjusted(funded) ==
    /\ billing' = BillingAfter(funded, FALSE)
    /\ UNCHANGED orgStatus
    /\ Sweep(billing' # "active")

\* settle_usage, which also suspends the credit of a disabled organization.
UsageSettled(funded) ==
    /\ billing' = BillingAfter(funded, orgStatus \in Disabled)
    /\ UNCHANGED orgStatus
    /\ Sweep(billing' # "active")

EligibilityNext ==
    \/ \E newStatus \in OrgStatuses \ {"provisioning"} : SetStatus(newStatus)
    \/ RestoreOrganization
    \/ ActivateOrganization
    \/ \E funded \in BOOLEAN : CreditAdjusted(funded) \/ UsageSettled(funded)

EligibilitySpec == EligibilityInit /\ [][EligibilityNext]_eligibilityVars

-----------------------------------------------------------------------------
\* An organization that may not hold tokens has had its tokens queued for
\* revocation since the last moment it could issue one: whatever mixture of
\* status changes, top-ups and settlements led there (organization_repository
\* queues the sweep in the transaction that makes the change).
IneligibleIsSwept == ~Eligible => swept

=============================================================================

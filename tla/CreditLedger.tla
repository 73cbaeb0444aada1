---------------------------- MODULE CreditLedger ----------------------------
(***************************************************************************)
(* The credit account of one customer organization, as PostgreSQL holds    *)
(* it: customer_organization (status, billing_status, balance, the day     *)
(* billing became effective), customer_billing_ledger and                  *)
(* customer_usage_settlement, the operators who adjust the account and the *)
(* settlers (runs of the usage sync) that charge daily usage to it.        *)
(*                                                                         *)
(* Every ledger write is one transaction under the organization's row      *)
(* lock, hence one action.  Reading the spend of the window and settling   *)
(* its days are separate transactions, hence separate actions: a settler   *)
(* may settle figures another settler has already superseded.              *)
(*                                                                         *)
(* Amounts are integers (micro-dollars).  The ledger is keyed by           *)
(* idempotency key; its three kinds of key are three functions.  A replay  *)
(* of a key or of an external reference returns the stored row or raises a *)
(* conflict and writes nothing: it is a stuttering step.                   *)
(***************************************************************************)
EXTENDS Integers, Functions, FiniteSetsExt, OrgEligibility

CONSTANTS
    LastDay,       \* last day of the calendar explored
    Lookback,      \* usage sync window in days (USAGE_SYNC_LOOKBACK_DAYS)
    Amounts,       \* amounts an operator may adjust by
    Spends,        \* amounts a usage day may add up to
    OperatorKeys,  \* idempotency keys of adjust_billing
    References,    \* external references (trade numbers)
    NoReference,   \* the empty external reference
    Settlers,      \* concurrent runs of run_usage_sync
    MaxRevisions,  \* bound on how often the usage warehouse is revised
    MaxCrashes,    \* bound on how often a settler dies
    None           \* no row / no payload

Days == 1 .. LastDay

ASSUME CalendarAssumption == LastDay \in Nat \ {0} /\ Lookback \in Nat
ASSUME AmountsAssumption ==
    /\ Amounts \subseteq Nat \ {0}
    /\ Spends \subseteq Nat
ASSUME NoneAssumption ==
    /\ None \notin Int
    /\ None \notin [amount : Int, after : Int]
    /\ None \notin [amount : Int, after : Int,
                    reference : References \cup {NoReference}]
    /\ None \notin [balance : Int, billing : BillingStatuses]
    /\ NoReference \notin References
ASSUME BoundsAssumption == MaxRevisions \in Nat /\ MaxCrashes \in Nat

VARIABLES
    linked,          \* upstream_organization_id is set
    balance,         \* billing_balance_usd
    effective,       \* day of billing_effective_at, 0 when it is NULL
    today,           \* the current day
    operatorRows,    \* ledger rows written by adjust_billing
    usageRows,       \* ledger rows keyed usage:<org>:<day>
    adjustmentRows,  \* ledger rows keyed usage-adjustment:<org>:<day>
    settled,         \* customer_usage_settlement.settled_amount_usd per day
    projected,       \* payload of the newest organization.billing.sync job
    spend,           \* usage_query_daily: attributed spend per day
    revisions,       \* revisions of spend so far
    batch,           \* rows a settler has read and not yet settled
    crashes          \* settlers that died so far

ledgerVars == <<operatorRows, usageRows, adjustmentRows, settled>>
accountVars == <<eligibilityVars, linked, balance, effective, projected>>
warehouseVars == <<spend, revisions>>
vars == <<accountVars, ledgerVars, today, warehouseVars, batch, crashes>>

OperatorRow == [amount : Int, after : Int,
                reference : References \cup {NoReference}]
UsageRow == [amount : Int, after : Int]

TypeOK ==
    /\ EligibilityTypeOK
    /\ linked \in BOOLEAN
    /\ balance \in Int
    /\ effective \in Days \cup {0}
    /\ today \in Days
    /\ operatorRows \in [OperatorKeys -> OperatorRow \cup {None}]
    /\ usageRows \in [Days -> UsageRow \cup {None}]
    /\ adjustmentRows \in [Days -> UsageRow \cup {None}]
    /\ settled \in [Days -> Nat \cup {None}]
    /\ projected \in [balance : Int, billing : BillingStatuses] \cup {None}
    /\ spend \in [Days -> Spends \cup {None}]
    /\ revisions \in 0 .. MaxRevisions
    /\ batch \in [Settlers -> [Days -> Spends \cup {None}]]
    /\ crashes \in 0 .. MaxCrashes

NoUsage == [d \in Days |-> None]

Init ==
    /\ EligibilityInit
    /\ linked = FALSE
    /\ balance = 0
    /\ effective = 0
    /\ today = 1
    /\ operatorRows = [k \in OperatorKeys |-> None]
    /\ usageRows = NoUsage
    /\ adjustmentRows = NoUsage
    /\ settled = NoUsage
    /\ projected = None
    /\ spend = NoUsage
    /\ revisions = 0
    /\ batch = [s \in Settlers |-> NoUsage]
    /\ crashes = 0

-----------------------------------------------------------------------------
(* The organization's own lifecycle.                                       *)

UnchangedByLifecycle ==
    UNCHANGED <<balance, effective, projected, ledgerVars, today,
                warehouseVars, batch, crashes>>

\* Mutant: the status changes and no revocations are queued.
UpdateStatusUnswept(newStatus) ==
    /\ orgStatus' = newStatus
    /\ UNCHANGED <<billing, swept, linked>>
    /\ UnchangedByLifecycle

UpdateStatus(newStatus) ==
    /\ SetStatus(newStatus)
    /\ UnchangedByLifecycle /\ UNCHANGED linked

ArchiveOrganization == UpdateStatus("archived")

Restore ==
    /\ RestoreOrganization
    /\ UnchangedByLifecycle /\ UNCHANGED linked

\* set_upstream_organization, first with status "provisioning" and, once the
\* departments are mapped, with status "active".
SetUpstreamOrganization(activate) ==
    /\ IF activate THEN ActivateOrganization
                   ELSE orgStatus \notin Disabled /\ UNCHANGED eligibilityVars
    /\ activate => linked
    /\ linked' = TRUE
    /\ UnchangedByLifecycle

-----------------------------------------------------------------------------
(* Ledger writes.                                                          *)

Credits == {"grant", "credit", "refund"}
Debits == {"revoke", "charge"}

Funded(newBalance) == newBalance > 0

\* Mutant: the payload carries the balance read before the write.
ProjectBillingStale(newBalance) ==
    projected' = IF linked THEN [balance |-> balance, billing |-> billing']
                           ELSE projected

\* _enqueue_projection_sync of organization.billing.sync, in the transaction.
ProjectBilling(newBalance) ==
    projected' = IF linked THEN [balance |-> newBalance, billing |-> billing']
                           ELSE projected

Written == {k \in OperatorKeys : operatorRows[k] # None}

\* Mutant: a replay is recognised by its idempotency key alone.
ReferenceIgnored(reference) == TRUE

\* adjust_billing looks for a row with the same external reference.
ReferenceUnused(reference) ==
    reference # NoReference =>
        \A k \in Written : operatorRows[k].reference # reference

\* The first grant makes usage billable from the next day on.
EffectiveAfter(operation) ==
    IF operation = "grant" /\ effective = 0 THEN today ELSE effective

AdjustBilling(operation, amount, key, reference) ==
    LET delta == IF operation \in Credits THEN amount ELSE -amount
        newBalance == balance + delta
    IN /\ operatorRows[key] = None
       /\ ReferenceUnused(reference)
       /\ newBalance >= 0
       /\ operatorRows' = [operatorRows EXCEPT ![key] =
              [amount |-> delta, after |-> newBalance,
               reference |-> reference]]
       /\ balance' = newBalance
       /\ effective' = EffectiveAfter(operation)
       /\ CreditAdjusted(Funded(newBalance))
       /\ ProjectBilling(newBalance)
       /\ UNCHANGED <<linked, usageRows, adjustmentRows, settled, today,
                      warehouseVars, batch, crashes>>

\* First settlement of a day: a charge row and a settlement row.
ChargeUsage(d, amount) ==
    LET newBalance == balance - amount
    IN /\ settled[d] = None
       /\ usageRows' = [usageRows EXCEPT ![d] =
              [amount |-> -amount, after |-> newBalance]]
       /\ settled' = [settled EXCEPT ![d] = amount]
       /\ balance' = newBalance
       /\ UsageSettled(Funded(newBalance))
       /\ ProjectBilling(newBalance)
       /\ UNCHANGED adjustmentRows

\* Mutant: the latest correction replaces the earlier ones.
AdjustedAfresh(d, delta) == -delta

\* ON CONFLICT DO UPDATE SET amount_usd = amount_usd + EXCLUDED.amount_usd
AdjustedBy(d, delta) ==
    (IF adjustmentRows[d] = None THEN 0 ELSE adjustmentRows[d].amount) - delta

\* A later, different figure for a settled day: the difference goes to the
\* one adjustment row of that day (INSERT ... ON CONFLICT DO UPDATE).
CorrectUsage(d, amount) ==
    LET delta == amount - settled[d]
        newBalance == balance - delta
    IN /\ settled[d] \notin {None, amount}
       /\ adjustmentRows' = [adjustmentRows EXCEPT ![d] =
              [amount |-> AdjustedBy(d, delta), after |-> newBalance]]
       /\ settled' = [settled EXCEPT ![d] = amount]
       /\ balance' = newBalance
       /\ UsageSettled(Funded(newBalance))
       /\ ProjectBilling(newBalance)
       /\ UNCHANGED usageRows

\* Mutant: the day credit was granted is charged in full.
BeforeCreditExclusive(d) == effective = 0 \/ d < effective

BeforeCredit(d) == effective = 0 \/ d <= effective

\* settle_usage_rows skips a row no organization is mapped to.
NotBillable(d) == ~linked \/ BeforeCredit(d)

\* Not billable, or already settled at this figure.
SkipUsage(d, amount) ==
    /\ NotBillable(d) \/ settled[d] = amount
    /\ UNCHANGED <<eligibilityVars, balance, usageRows, adjustmentRows,
                   settled, projected>>

\* Mutant: a settled day is final.
SettleUsageOnce(d, amount) ==
    \/ SkipUsage(d, IF settled[d] = None THEN amount ELSE settled[d])
    \/ ~NotBillable(d) /\ ChargeUsage(d, amount)

SettleUsage(d, amount) ==
    \/ SkipUsage(d, amount)
    \/ ~NotBillable(d) /\ ChargeUsage(d, amount)
    \/ ~NotBillable(d) /\ CorrectUsage(d, amount)

-----------------------------------------------------------------------------
(* A settler: run_usage_sync reads the completed days of its window, then  *)
(* settle_usage_rows settles them one transaction each, by date.           *)

Pending(s) == {d \in Days : batch[s][d] # None}

ReadSpend(s) ==
    /\ Pending(s) = {}
    /\ batch' = [batch EXCEPT ![s] =
          [d \in Days |-> IF d < today /\ d > today - Lookback
                          THEN spend[d] ELSE None]]
    /\ UNCHANGED <<accountVars, ledgerVars, today, warehouseVars, crashes>>

SettleNext(s) ==
    \E d \in Pending(s) :
        /\ \A e \in Pending(s) : d <= e
        /\ SettleUsage(d, batch[s][d])
        /\ batch' = [batch EXCEPT ![s][d] = None]
        /\ UNCHANGED <<linked, effective, operatorRows, today, warehouseVars,
                       crashes>>

\* The process dies: what it read is gone, what it settled is committed.
CrashSettler(s) ==
    /\ Pending(s) # {} /\ crashes < MaxCrashes
    /\ crashes' = crashes + 1
    /\ batch' = [batch EXCEPT ![s] = NoUsage]
    /\ UNCHANGED <<accountVars, ledgerVars, today, warehouseVars>>

\* The usage sync replaces the figures of a day (late logs, re-attribution).
ReviseSpend(d, amount) ==
    /\ revisions < MaxRevisions
    /\ d <= today
    /\ spend[d] # amount
    /\ spend' = [spend EXCEPT ![d] = amount]
    /\ revisions' = revisions + 1
    /\ UNCHANGED <<accountVars, ledgerVars, today, batch, crashes>>

DayPasses ==
    /\ today < LastDay
    /\ today' = today + 1
    /\ UNCHANGED <<accountVars, ledgerVars, warehouseVars, batch, crashes>>

Next ==
    \/ \E newStatus \in OrgStatuses \ {"provisioning"} : UpdateStatus(newStatus)
    \/ ArchiveOrganization
    \/ Restore
    \/ \E activate \in BOOLEAN : SetUpstreamOrganization(activate)
    \/ \E operation \in Credits \cup Debits, amount \in Amounts,
          key \in OperatorKeys, reference \in References \cup {NoReference} :
             AdjustBilling(operation, amount, key, reference)
    \/ \E s \in Settlers : ReadSpend(s) \/ SettleNext(s) \/ CrashSettler(s)
    \/ \E d \in Days, amount \in Spends \cup {None} : ReviseSpend(d, amount)
    \/ DayPasses

Spec == Init /\ [][Next]_vars

\* The sync loop keeps running: it reads again and finishes what it read.
FairSpec ==
    /\ Spec
    /\ \A s \in Settlers : WF_vars(ReadSpend(s)) /\ WF_vars(SettleNext(s))

-----------------------------------------------------------------------------
(* Properties.                                                             *)

AmountIn(row) == IF row = None THEN 0 ELSE row.amount
RowsIn(rows) == {k \in DOMAIN rows : rows[k] # None}
TotalOf(rows) == MapThenSumSet(LAMBDA k : rows[k].amount, RowsIn(rows))

\* The balance the organization sees is the sum of its ledger: credits minus
\* debits, the initial balance being zero (the account of billing_payload).
AccountIdentity ==
    balance = TotalOf(operatorRows) + TotalOf(usageRows)
              + TotalOf(adjustmentRows)

\* A day is charged for exactly the figure last settled for it, however often
\* and by whichever settler it was corrected: its charge row and its
\* adjustment row together are the settled amount.
SettledDaysAreCharged ==
    \A d \in Days :
        IF settled[d] = None
        THEN usageRows[d] = None /\ adjustmentRows[d] = None
        ELSE /\ usageRows[d] # None
             /\ AmountIn(usageRows[d]) + AmountIn(adjustmentRows[d])
                    = -settled[d]

\* Usage of the day credit was first granted, or of an earlier day, is never
\* charged (settle_usage's cutoff), whatever the settlers had read by then.
NothingBilledBeforeCredit ==
    \A d \in Days : settled[d] # None => effective # 0 /\ effective < d

\* billing_status tells whether there is credit, through every interleaving of
\* grants, charges and corrections; only a suspension hides it.
BillingReflectsBalance ==
    /\ billing = "active" => balance > 0
    /\ billing = "past_due" => balance <= 0

\* One trade number moves the account once, even under different keys.
ReferenceUsedOnce ==
    \A j, k \in Written :
        /\ operatorRows[j].reference = operatorRows[k].reference
        /\ operatorRows[j].reference # NoReference
        => j = k

\* The newest billing projection queued for the proxy states the account as it
\* is now: no ledger write forgets to queue one or queues a stale figure.
ProjectionIsCurrent ==
    projected # None => projected = [balance |-> balance, billing |-> billing]

\* History is not rewritten: operator rows and usage charges stay as they were
\* written, and the day billing became effective never moves.
HistoryIsKept ==
    [][/\ \A k \in OperatorKeys :
             operatorRows[k] # None => operatorRows'[k] = operatorRows[k]
       /\ \A d \in Days : usageRows[d] # None => usageRows'[d] = usageRows[d]
       /\ effective # 0 => effective' = effective]_vars

\* Once revisions and crashes (both bounded) are over, every completed billable
\* day in the window ends up charged at the warehouse's figure, though outdated
\* settlers may charge older figures in between.
Billable(d) ==
    /\ linked /\ effective # 0 /\ effective < d
    /\ d < today /\ d > today - Lookback
    /\ spend[d] # None
SettlementConverges ==
    <>[](\A d \in Days : Billable(d) => settled[d] = spend[d])

\* The detailed account implements what the rest of the system relies on.
ImplementsEligibility == EligibilitySpec

\* README.md:129: restoring an archived organization makes it active again and
\* lifts its ban on calls; with credit on the account, tokens can be issued.
RestoreLiftsTheBan ==
    [][orgStatus = "archived" /\ orgStatus' = "active" /\ balance > 0
          => billing' = "active"]_vars

=============================================================================

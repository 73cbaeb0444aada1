------------------------- MODULE CreditLedgerProofs -------------------------
(***************************************************************************)
(* Proofs about CreditLedger, for any calendar, amounts, operator keys,    *)
(* references and settlers.                                                *)
(*                                                                         *)
(* The properties of the account are nearly inductive together: what they  *)
(* need besides is that nothing is projected before the organization is    *)
(* linked (UnlinkedIsQuiet).  Eligibility is proved on the abstract        *)
(* specification and carried over by the refinement.  That the balance is  *)
(* the sum of the ledger (AccountIdentity) rests on a theory of sums over  *)
(* finite sets of rows, at the end.                                        *)
(***************************************************************************)
EXTENDS CreditLedger, FiniteSetTheorems, TLAPS

UnlinkedIsQuiet == ~linked => projected = None

AccountInv ==
    /\ TypeOK
    /\ SettledDaysAreCharged
    /\ NothingBilledBeforeCredit
    /\ BillingReflectsBalance
    /\ ReferenceUsedOnce
    /\ ProjectionIsCurrent
    /\ UnlinkedIsQuiet

-----------------------------------------------------------------------------
(* The detailed account implements OrgEligibility.                         *)

LEMMA SettleImplements ==
    ASSUME NEW s \in Settlers, SettleNext(s)
    PROVE  [EligibilityNext]_eligibilityVars
<1> PICK d \in Pending(s) : SettleUsage(d, batch[s][d])
  BY DEF SettleNext
<1>1. CASE SkipUsage(d, batch[s][d])
  BY <1>1 DEF SkipUsage
<1>2. ASSUME NEW newBalance, UsageSettled(Funded(newBalance))
      PROVE  EligibilityNext
  <2>1. Funded(newBalance) \in BOOLEAN
    BY DEF Funded
  <2> QED BY <1>2, <2>1 DEF EligibilityNext
<1>3. CASE ChargeUsage(d, batch[s][d])
  BY <1>2, <1>3 DEF ChargeUsage
<1>4. CASE CorrectUsage(d, batch[s][d])
  BY <1>2, <1>4 DEF CorrectUsage
<1> QED BY <1>1, <1>3, <1>4 DEF SettleUsage

LEMMA StepImplements ==
    ASSUME [Next]_vars
    PROVE  [EligibilityNext]_eligibilityVars
<1>1. ASSUME NEW newStatus \in OrgStatuses \ {"provisioning"},
             UpdateStatus(newStatus)
      PROVE  EligibilityNext
  BY <1>1 DEF UpdateStatus, EligibilityNext
<1>2. ASSUME ArchiveOrganization PROVE EligibilityNext
  BY <1>1, <1>2 DEF ArchiveOrganization, OrgStatuses
<1>3. ASSUME Restore PROVE EligibilityNext
  BY <1>3 DEF Restore, EligibilityNext
<1>4. ASSUME NEW activate \in BOOLEAN, SetUpstreamOrganization(activate)
      PROVE  [EligibilityNext]_eligibilityVars
  BY <1>4 DEF SetUpstreamOrganization, EligibilityNext
<1>5. ASSUME NEW operation, NEW amount, NEW key, NEW reference,
             AdjustBilling(operation, amount, key, reference)
      PROVE  EligibilityNext
  <2> DEFINE delta == IF operation \in Credits THEN amount ELSE -amount
  <2>1. CreditAdjusted(Funded(balance + delta))
    BY <1>5 DEF AdjustBilling
  <2>2. Funded(balance + delta) \in BOOLEAN
    BY DEF Funded
  <2> QED BY <2>1, <2>2 DEF EligibilityNext
<1>6. ASSUME NEW s \in Settlers, ReadSpend(s) \/ CrashSettler(s)
      PROVE  UNCHANGED eligibilityVars
  BY <1>6 DEF ReadSpend, CrashSettler, accountVars
<1>7. ASSUME (\E d \in Days, amount \in Spends \cup {None} :
                 ReviseSpend(d, amount)) \/ DayPasses
      PROVE  UNCHANGED eligibilityVars
  BY <1>7 DEF ReviseSpend, DayPasses, accountVars
<1>8. ASSUME UNCHANGED vars PROVE UNCHANGED eligibilityVars
  BY <1>8 DEF vars, accountVars
<1> QED BY <1>1, <1>2, <1>3, <1>4, <1>5, <1>6, <1>7, <1>8, SettleImplements
        DEF Next

\* Every behaviour of the account is one of OrgEligibility, which the other
\* components are built on.
THEOREM AccountImplementsEligibility == Spec => ImplementsEligibility
<1>1. Init => EligibilityInit
  BY DEF Init
<1>2. [Next]_vars => [EligibilityNext]_eligibilityVars
  BY StepImplements
<1> QED
  BY <1>1, <1>2, PTL DEF Spec, ImplementsEligibility, EligibilitySpec

-----------------------------------------------------------------------------
(* Eligibility.                                                            *)

LEMMA SweepKept ==
    ASSUME EligibilityTypeOK, IneligibleIsSwept,
           [EligibilityNext]_eligibilityVars
    PROVE  EligibilityTypeOK' /\ IneligibleIsSwept'
<1> USE DEF EligibilityTypeOK, IneligibleIsSwept, Eligible, Sweep, OrgStatuses,
            BillingStatuses, Disabled
<1>1. ASSUME NEW newStatus \in OrgStatuses \ {"provisioning"},
             SetStatus(newStatus)
      PROVE  EligibilityTypeOK' /\ IneligibleIsSwept'
  BY <1>1 DEF SetStatus
<1>2. CASE RestoreOrganization \/ ActivateOrganization
  BY <1>2 DEF RestoreOrganization, ActivateOrganization
<1>3. ASSUME NEW funded \in BOOLEAN,
             CreditAdjusted(funded) \/ UsageSettled(funded)
      PROVE  EligibilityTypeOK' /\ IneligibleIsSwept'
  BY <1>3 DEF CreditAdjusted, UsageSettled, BillingAfter
<1>4. CASE UNCHANGED eligibilityVars
  BY <1>4 DEF eligibilityVars
<1> QED BY <1>1, <1>2, <1>3, <1>4 DEF EligibilityNext

\* An organization that may not hold tokens has had them queued for
\* revocation, whatever made it ineligible.
THEOREM IneligibleSwept == Spec => []IneligibleIsSwept
<1>1. EligibilityInit => EligibilityTypeOK /\ IneligibleIsSwept
  BY DEF EligibilityInit, EligibilityTypeOK, IneligibleIsSwept, OrgStatuses,
         BillingStatuses
<1>2. EligibilityTypeOK /\ IneligibleIsSwept /\ [EligibilityNext]_eligibilityVars
        => (EligibilityTypeOK /\ IneligibleIsSwept)'
  BY SweepKept
<1>3. EligibilitySpec => []IneligibleIsSwept
  BY <1>1, <1>2, PTL DEF EligibilitySpec
<1> QED BY <1>3, AccountImplementsEligibility, PTL DEF ImplementsEligibility

-----------------------------------------------------------------------------
(* The account's invariant: the initial state and the quiet steps.         *)

LEMMA AccountInit == Init => AccountInv
<1> SUFFICES ASSUME Init PROVE AccountInv
  OBVIOUS
<1>1. EligibilityTypeOK /\ billing = "past_due"
  BY DEF Init, EligibilityInit, EligibilityTypeOK, OrgStatuses, BillingStatuses
<1>2. /\ operatorRows \in [OperatorKeys -> OperatorRow \cup {None}]
      /\ usageRows \in [Days -> UsageRow \cup {None}]
      /\ adjustmentRows \in [Days -> UsageRow \cup {None}]
      /\ settled \in [Days -> Nat \cup {None}]
      /\ spend \in [Days -> Spends \cup {None}]
      /\ batch \in [Settlers -> [Days -> Spends \cup {None}]]
  BY DEF Init, NoUsage
<1>3. TypeOK
  <2>1. linked \in BOOLEAN
    BY DEF Init
  <2>2. /\ balance \in Int /\ effective \in Days \cup {0} /\ today \in Days
        /\ revisions \in 0 .. MaxRevisions /\ crashes \in 0 .. MaxCrashes
    BY CalendarAssumption, BoundsAssumption DEF Init, Days
  <2>3. projected \in [balance : Int, billing : BillingStatuses] \cup {None}
    BY DEF Init
  <2> QED BY <1>1, <1>2, <2>1, <2>2, <2>3 DEF TypeOK
<1>4. SettledDaysAreCharged /\ NothingBilledBeforeCredit
  BY DEF Init, SettledDaysAreCharged, NothingBilledBeforeCredit, NoUsage
<1>5. ReferenceUsedOnce
  BY DEF Init, ReferenceUsedOnce, Written
<1> QED
  BY <1>1, <1>3, <1>4, <1>5
     DEF Init, AccountInv, BillingReflectsBalance, ProjectionIsCurrent,
         UnlinkedIsQuiet

\* A step that leaves the ledger, the balance and the credit alone.
LEMMA QuietStep ==
    ASSUME AccountInv, TypeOK',
           UNCHANGED <<billing, balance, effective, projected, ledgerVars>>,
           linked => linked'
    PROVE  AccountInv'
<1> USE DEF AccountInv, ledgerVars
<1>1. SettledDaysAreCharged' /\ NothingBilledBeforeCredit'
  BY DEF SettledDaysAreCharged, NothingBilledBeforeCredit
<1>2. BillingReflectsBalance' /\ ReferenceUsedOnce'
  BY DEF BillingReflectsBalance, ReferenceUsedOnce, Written
<1>3. ProjectionIsCurrent' /\ UnlinkedIsQuiet'
  BY DEF ProjectionIsCurrent, UnlinkedIsQuiet
<1> QED BY <1>1, <1>2, <1>3

LEMMA LifecycleInv ==
    ASSUME AccountInv,
           \/ \E newStatus \in OrgStatuses \ {"provisioning"} :
                 UpdateStatus(newStatus)
           \/ ArchiveOrganization \/ Restore
           \/ \E activate \in BOOLEAN : SetUpstreamOrganization(activate)
    PROVE  AccountInv'
<1> USE DEF AccountInv
<1>1. UNCHANGED <<billing, balance, effective, projected, ledgerVars, today,
                  warehouseVars, batch, crashes>> /\ (linked => linked')
  <2>1. UnchangedByLifecycle /\ (linked => linked')
    BY DEF UpdateStatus, ArchiveOrganization, Restore, SetUpstreamOrganization
  <2>2. UNCHANGED billing
    BY DEF UpdateStatus, ArchiveOrganization, Restore, SetUpstreamOrganization,
           SetStatus, RestoreOrganization, ActivateOrganization, eligibilityVars
  <2> QED BY <2>1, <2>2 DEF UnchangedByLifecycle
<1>2. linked' \in BOOLEAN
  BY DEF UpdateStatus, ArchiveOrganization, Restore, SetUpstreamOrganization,
         TypeOK
<1>3. orgStatus' \in OrgStatuses
  BY DEF UpdateStatus, ArchiveOrganization, Restore, SetUpstreamOrganization,
         SetStatus, RestoreOrganization, ActivateOrganization, OrgStatuses,
         TypeOK, EligibilityTypeOK, eligibilityVars
<1>4. swept' \in BOOLEAN
  <2>1. ASSUME NEW queued, Sweep(queued) PROVE swept' \in BOOLEAN
    BY <2>1 DEF Sweep, Eligible
  <2>2. CASE \E newStatus \in OrgStatuses \ {"provisioning"} :
                UpdateStatus(newStatus)
    BY <2>1, <2>2 DEF UpdateStatus, SetStatus
  <2>3. CASE ArchiveOrganization \/ Restore
    BY <2>1, <2>3 DEF ArchiveOrganization, UpdateStatus, SetStatus, Restore,
                      RestoreOrganization
  <2>4. CASE \E activate \in BOOLEAN : SetUpstreamOrganization(activate)
    BY <2>1, <2>4 DEF SetUpstreamOrganization, ActivateOrganization,
                      eligibilityVars, TypeOK, EligibilityTypeOK
  <2> QED BY <2>2, <2>3, <2>4
<1>5. TypeOK'
  BY <1>1, <1>2, <1>3, <1>4
     DEF TypeOK, EligibilityTypeOK, ledgerVars, warehouseVars
<1> QED BY <1>1, <1>5, QuietStep

LEMMA SyncInv ==
    ASSUME AccountInv,
           \/ \E s \in Settlers : ReadSpend(s) \/ CrashSettler(s)
           \/ \E d \in Days, amount \in Spends \cup {None} :
                 ReviseSpend(d, amount)
           \/ DayPasses
    PROVE  AccountInv'
<1> USE DEF AccountInv
<1>1. UNCHANGED <<accountVars, ledgerVars>>
  BY DEF ReadSpend, CrashSettler, ReviseSpend, DayPasses
<1>2. /\ spend' \in [Days -> Spends \cup {None}]
      /\ revisions' \in 0 .. MaxRevisions
      /\ today' \in Days
      /\ crashes' \in 0 .. MaxCrashes
      /\ batch' \in [Settlers -> [Days -> Spends \cup {None}]]
  <2>1. CASE \E s \in Settlers : ReadSpend(s)
    BY <2>1 DEF ReadSpend, TypeOK, warehouseVars
  <2>2. CASE \E s \in Settlers : CrashSettler(s)
    BY <2>2, BoundsAssumption DEF CrashSettler, TypeOK, warehouseVars, NoUsage
  <2>3. CASE \E d \in Days, amount \in Spends \cup {None} :
                ReviseSpend(d, amount)
    BY <2>3, BoundsAssumption DEF ReviseSpend, TypeOK
  <2>4. CASE DayPasses
    BY <2>4, CalendarAssumption DEF DayPasses, TypeOK, warehouseVars, Days
  <2> QED BY <2>1, <2>2, <2>3, <2>4
<1>3. TypeOK'
  BY <1>1, <1>2 DEF TypeOK, EligibilityTypeOK, accountVars, eligibilityVars,
                    ledgerVars
<1> QED BY <1>1, <1>3, QuietStep DEF accountVars, eligibilityVars

-----------------------------------------------------------------------------
(* The ledger writes.                                                      *)

\* What every ledger write does next to writing its rows: the credit follows
\* the new balance, and so does the projection.
LEMMA BalanceWritten ==
    ASSUME AccountInv, NEW newBalance \in Int, balance' = newBalance,
           CreditAdjusted(Funded(newBalance)) \/ UsageSettled(Funded(newBalance)),
           ProjectBilling(newBalance), UNCHANGED linked
    PROVE  /\ EligibilityTypeOK'
           /\ BillingReflectsBalance'
           /\ ProjectionIsCurrent'
           /\ UnlinkedIsQuiet'
           /\ projected' \in [balance : Int, billing : BillingStatuses]
                                \cup {None}
<1> USE DEF AccountInv
<1>1. PICK disabled : billing' = BillingAfter(Funded(newBalance), disabled)
  BY DEF CreditAdjusted, UsageSettled
<1>2. billing' \in BillingStatuses
  BY <1>1 DEF BillingAfter, BillingStatuses
<1>3. orgStatus' \in OrgStatuses
  BY DEF CreditAdjusted, UsageSettled, TypeOK, EligibilityTypeOK
<1>4. swept' \in BOOLEAN
  BY DEF CreditAdjusted, UsageSettled, Sweep, Eligible
<1>5. BillingReflectsBalance'
  <2>1. /\ billing' = "active" => newBalance > 0
        /\ billing' = "past_due" => ~(newBalance > 0)
    BY <1>1 DEF BillingAfter, Funded
  <2> QED BY <2>1 DEF BillingReflectsBalance
<1>6. ProjectionIsCurrent' /\ UnlinkedIsQuiet'
  BY DEF ProjectBilling, ProjectionIsCurrent, UnlinkedIsQuiet
<1>7. projected' \in [balance : Int, billing : BillingStatuses] \cup {None}
  BY <1>2 DEF ProjectBilling, TypeOK
<1> QED BY <1>2, <1>3, <1>4, <1>5, <1>6, <1>7 DEF EligibilityTypeOK

LEMMA AdjustInv ==
    ASSUME AccountInv,
           NEW operation \in Credits \cup Debits, NEW amount \in Amounts,
           NEW key \in OperatorKeys,
           NEW reference \in References \cup {NoReference},
           AdjustBilling(operation, amount, key, reference)
    PROVE  AccountInv'
<1> USE DEF AccountInv
<1> DEFINE delta == IF operation \in Credits THEN amount ELSE -amount
           newBalance == balance + delta
           newRow == [amount |-> delta, after |-> newBalance,
                      reference |-> reference]
<1>1. delta \in Int /\ newBalance \in Int
  BY AmountsAssumption DEF TypeOK
<1>2. /\ operatorRows[key] = None /\ ReferenceUnused(reference)
      /\ operatorRows' = [operatorRows EXCEPT ![key] = newRow]
      /\ balance' = newBalance
      /\ effective' = EffectiveAfter(operation)
      /\ CreditAdjusted(Funded(newBalance)) /\ ProjectBilling(newBalance)
      /\ UNCHANGED <<linked, usageRows, adjustmentRows, settled, today,
                     warehouseVars, batch, crashes>>
  BY DEF AdjustBilling
<1> HIDE DEF delta, newBalance
<1>3. /\ EligibilityTypeOK' /\ BillingReflectsBalance'
      /\ ProjectionIsCurrent' /\ UnlinkedIsQuiet'
      /\ projected' \in [balance : Int, billing : BillingStatuses] \cup {None}
  BY <1>1, <1>2, BalanceWritten
<1>4. newRow \in OperatorRow
  BY <1>1 DEF OperatorRow
<1>5. effective' \in Days \cup {0}
  BY <1>2 DEF EffectiveAfter, TypeOK
<1>6. TypeOK'
  BY <1>1, <1>2, <1>3, <1>4, <1>5 DEF TypeOK, warehouseVars
<1>7. SettledDaysAreCharged'
  BY <1>2 DEF SettledDaysAreCharged
<1>8. NothingBilledBeforeCredit'
  BY <1>2 DEF NothingBilledBeforeCredit, EffectiveAfter
<1>9. ReferenceUsedOnce'
  <2> SUFFICES ASSUME NEW j \in Written', NEW k \in Written',
                      operatorRows'[j].reference = operatorRows'[k].reference,
                      operatorRows'[j].reference # NoReference
               PROVE  j = k
    BY DEF ReferenceUsedOnce
  <2>1. j \in OperatorKeys /\ k \in OperatorKeys
    BY DEF Written
  <2>2. \A i \in OperatorKeys : i # key => operatorRows'[i] = operatorRows[i]
    BY <1>2 DEF TypeOK
  <2>3. operatorRows'[key].reference = reference
    BY <1>2 DEF TypeOK
  <2>4. \A i \in Written : reference # NoReference
            => operatorRows[i].reference # reference
    BY <1>2 DEF ReferenceUnused
  <2>5. CASE j # key /\ k # key
    <3>1. j \in Written /\ k \in Written
      BY <2>1, <2>2, <2>5 DEF Written
    <3> QED BY <2>1, <2>2, <2>5, <3>1 DEF ReferenceUsedOnce
  <2>6. CASE j = key /\ k # key
    <3>1. k \in Written
      BY <2>1, <2>2, <2>6 DEF Written
    <3> QED BY <2>1, <2>2, <2>3, <2>4, <2>6, <3>1
  <2>7. CASE j # key /\ k = key
    <3>1. j \in Written
      BY <2>1, <2>2, <2>7 DEF Written
    <3> QED BY <2>1, <2>2, <2>3, <2>4, <2>7, <3>1
  <2> QED BY <2>5, <2>6, <2>7
<1> QED BY <1>3, <1>6, <1>7, <1>8, <1>9

LEMMA ChargeInv ==
    ASSUME AccountInv, NEW d \in Days, NEW amount \in Spends,
           ~NotBillable(d), ChargeUsage(d, amount),
           batch' \in [Settlers -> [Days -> Spends \cup {None}]],
           UNCHANGED <<linked, effective, operatorRows, today, warehouseVars,
                       crashes>>
    PROVE  AccountInv'
<1> USE DEF AccountInv
<1> DEFINE newBalance == balance - amount
           newRow == [amount |-> -amount, after |-> newBalance]
<1>1. amount \in Nat /\ newBalance \in Int
  BY AmountsAssumption DEF TypeOK
<1>2. /\ settled[d] = None
      /\ usageRows' = [usageRows EXCEPT ![d] = newRow]
      /\ settled' = [settled EXCEPT ![d] = amount]
      /\ balance' = newBalance
      /\ UsageSettled(Funded(newBalance)) /\ ProjectBilling(newBalance)
      /\ UNCHANGED adjustmentRows
  BY DEF ChargeUsage
<1> HIDE DEF newBalance
<1>3. /\ EligibilityTypeOK' /\ BillingReflectsBalance'
      /\ ProjectionIsCurrent' /\ UnlinkedIsQuiet'
      /\ projected' \in [balance : Int, billing : BillingStatuses] \cup {None}
  BY <1>1, <1>2, BalanceWritten
<1>4. newRow \in UsageRow /\ newRow # None /\ amount # None
  BY <1>1, NoneAssumption DEF UsageRow
<1>5. TypeOK'
  BY <1>1, <1>2, <1>3, <1>4 DEF TypeOK, warehouseVars
<1>6. SettledDaysAreCharged'
  <2> SUFFICES ASSUME NEW e \in Days
               PROVE  IF settled'[e] = None
                      THEN usageRows'[e] = None /\ adjustmentRows'[e] = None
                      ELSE /\ usageRows'[e] # None
                           /\ AmountIn(usageRows'[e])
                                 + AmountIn(adjustmentRows'[e]) = -settled'[e]
    BY DEF SettledDaysAreCharged, AmountIn
  <2>1. CASE e = d
    <3>1. adjustmentRows'[e] = None /\ usageRows'[e] = newRow
          /\ settled'[e] = amount
      BY <1>2, <2>1 DEF SettledDaysAreCharged, TypeOK
    <3> QED BY <1>1, <1>4, <3>1 DEF AmountIn
  <2>2. CASE e # d
    <3>1. adjustmentRows'[e] = adjustmentRows[e] /\ usageRows'[e] = usageRows[e]
          /\ settled'[e] = settled[e]
      BY <1>2, <2>2 DEF TypeOK
    <3> QED BY <3>1 DEF SettledDaysAreCharged
  <2> QED BY <2>1, <2>2
<1>7. NothingBilledBeforeCredit'
  <2>1. effective # 0 /\ effective < d
    BY DEF NotBillable, BeforeCredit, TypeOK, Days
  <2> QED BY <1>2, <2>1 DEF NothingBilledBeforeCredit, TypeOK
<1>8. ReferenceUsedOnce'
  BY DEF ReferenceUsedOnce, Written
<1> QED BY <1>3, <1>5, <1>6, <1>7, <1>8

LEMMA CorrectInv ==
    ASSUME AccountInv, NEW d \in Days, NEW amount \in Spends,
           ~NotBillable(d), CorrectUsage(d, amount),
           batch' \in [Settlers -> [Days -> Spends \cup {None}]],
           UNCHANGED <<linked, effective, operatorRows, today, warehouseVars,
                       crashes>>
    PROVE  AccountInv'
<1> USE DEF AccountInv
<1> DEFINE delta == amount - settled[d]
           newBalance == balance - delta
           newRow == [amount |-> AdjustedBy(d, delta), after |-> newBalance]
<1>1. /\ amount \in Nat /\ settled[d] \in Nat /\ settled[d] # None
      /\ delta \in Int /\ newBalance \in Int
  BY AmountsAssumption DEF CorrectUsage, TypeOK
<1>2. /\ adjustmentRows' = [adjustmentRows EXCEPT ![d] = newRow]
      /\ settled' = [settled EXCEPT ![d] = amount]
      /\ balance' = newBalance
      /\ UsageSettled(Funded(newBalance)) /\ ProjectBilling(newBalance)
      /\ UNCHANGED usageRows
  BY DEF CorrectUsage
<1>3. /\ EligibilityTypeOK' /\ BillingReflectsBalance'
      /\ ProjectionIsCurrent' /\ UnlinkedIsQuiet'
      /\ projected' \in [balance : Int, billing : BillingStatuses] \cup {None}
  BY <1>1, <1>2, BalanceWritten
<1>4. /\ AmountIn(adjustmentRows[d]) \in Int /\ AmountIn(usageRows[d]) \in Int
      /\ AdjustedBy(d, delta) = AmountIn(adjustmentRows[d]) - delta
  BY <1>1 DEF AmountIn, AdjustedBy, TypeOK, UsageRow
<1>5. newRow \in UsageRow /\ newRow # None /\ amount # None
  BY <1>1, <1>4, NoneAssumption DEF UsageRow
<1>6. TypeOK'
  BY <1>1, <1>2, <1>3, <1>5 DEF TypeOK, warehouseVars
<1>7. SettledDaysAreCharged'
  <2> SUFFICES ASSUME NEW e \in Days
               PROVE  IF settled'[e] = None
                      THEN usageRows'[e] = None /\ adjustmentRows'[e] = None
                      ELSE /\ usageRows'[e] # None
                           /\ AmountIn(usageRows'[e])
                                 + AmountIn(adjustmentRows'[e]) = -settled'[e]
    BY DEF SettledDaysAreCharged, AmountIn
  <2>1. CASE e = d
    <3>1. adjustmentRows'[e] = newRow /\ usageRows'[e] = usageRows[d]
          /\ settled'[e] = amount
      BY <1>2, <2>1 DEF TypeOK
    <3>2. usageRows[d] # None /\ AmountIn(usageRows[d])
              + AmountIn(adjustmentRows[d]) = -settled[d]
      BY <1>1 DEF SettledDaysAreCharged
    <3>3. AmountIn(newRow) = AmountIn(adjustmentRows[d]) - delta
      BY <1>4, <1>5 DEF AmountIn
    <3> QED BY <1>1, <1>4, <1>5, <3>1, <3>2, <3>3
  <2>2. CASE e # d
    <3>1. adjustmentRows'[e] = adjustmentRows[e] /\ usageRows'[e] = usageRows[e]
          /\ settled'[e] = settled[e]
      BY <1>2, <2>2 DEF TypeOK
    <3> QED BY <3>1 DEF SettledDaysAreCharged
  <2> QED BY <2>1, <2>2
<1>8. NothingBilledBeforeCredit'
  BY <1>1, <1>2 DEF NothingBilledBeforeCredit, TypeOK
<1>9. ReferenceUsedOnce'
  BY DEF ReferenceUsedOnce, Written
<1> QED BY <1>3, <1>6, <1>7, <1>8, <1>9

LEMMA SettleInv ==
    ASSUME AccountInv, NEW s \in Settlers, SettleNext(s)
    PROVE  AccountInv'
<1> USE DEF AccountInv
<1> PICK d \in Pending(s) :
        /\ SettleUsage(d, batch[s][d])
        /\ batch' = [batch EXCEPT ![s][d] = None]
        /\ UNCHANGED <<linked, effective, operatorRows, today, warehouseVars,
                       crashes>>
  BY DEF SettleNext
<1>1. d \in Days /\ batch[s][d] \in Spends
  BY DEF Pending, TypeOK
<1>2. batch' \in [Settlers -> [Days -> Spends \cup {None}]]
  BY <1>1 DEF TypeOK
<1>3. CASE SkipUsage(d, batch[s][d])
  <2>1. UNCHANGED <<eligibilityVars, billing, balance, effective, projected,
                    ledgerVars>>
    BY <1>3 DEF SkipUsage, ledgerVars, eligibilityVars
  <2>2. TypeOK'
    BY <1>2, <2>1 DEF TypeOK, EligibilityTypeOK, eligibilityVars, ledgerVars,
                      warehouseVars
  <2> QED BY <2>1, <2>2, QuietStep
<1>4. CASE ~NotBillable(d) /\ ChargeUsage(d, batch[s][d])
  BY <1>1, <1>2, <1>4, ChargeInv
<1>5. CASE ~NotBillable(d) /\ CorrectUsage(d, batch[s][d])
  BY <1>1, <1>2, <1>5, CorrectInv
<1> QED BY <1>3, <1>4, <1>5 DEF SettleUsage

LEMMA AccountStepInv == AccountInv /\ [Next]_vars => AccountInv'
<1> SUFFICES ASSUME AccountInv, [Next]_vars PROVE AccountInv'
  OBVIOUS
<1>1. CASE UNCHANGED vars
  <2>1. UNCHANGED <<billing, balance, effective, projected, ledgerVars, linked>>
    BY <1>1 DEF vars, accountVars, eligibilityVars
  <2>2. TypeOK'
    BY <1>1 DEF AccountInv, TypeOK, EligibilityTypeOK, vars, accountVars,
                eligibilityVars, ledgerVars, warehouseVars
  <2> QED BY <2>1, <2>2, QuietStep
<1>2. CASE Next
  BY <1>2, LifecycleInv, AdjustInv, SettleInv, SyncInv DEF Next
<1> QED BY <1>1, <1>2

-----------------------------------------------------------------------------
(* The theorems.                                                           *)

\* The account's invariant, from which the safety properties follow.
THEOREM AccountInvariant == Spec => []AccountInv
<1>1. Init => AccountInv
  BY AccountInit
<1>2. AccountInv /\ [Next]_vars => AccountInv'
  BY AccountStepInv
<1> QED BY <1>1, <1>2, PTL DEF Spec

\* The tables keep their types.
THEOREM TypeCorrect == Spec => []TypeOK
<1>1. AccountInv => TypeOK
  BY DEF AccountInv
<1> QED BY <1>1, AccountInvariant, PTL

\* A day is charged for exactly the figure last settled for it, whatever
\* outdated figures the settlers had read.
THEOREM SettledAreCharged == Spec => []SettledDaysAreCharged
<1>1. AccountInv => SettledDaysAreCharged
  BY DEF AccountInv
<1> QED BY <1>1, AccountInvariant, PTL

\* Usage of the day of the first grant, or of an earlier day, is never charged.
THEOREM NothingBeforeCredit == Spec => []NothingBilledBeforeCredit
<1>1. AccountInv => NothingBilledBeforeCredit
  BY DEF AccountInv
<1> QED BY <1>1, AccountInvariant, PTL

\* billing_status tells whether there is credit.
THEOREM BillingIsBalance == Spec => []BillingReflectsBalance
<1>1. AccountInv => BillingReflectsBalance
  BY DEF AccountInv
<1> QED BY <1>1, AccountInvariant, PTL

\* One trade number moves the account once.
THEOREM ReferencesOnce == Spec => []ReferenceUsedOnce
<1>1. AccountInv => ReferenceUsedOnce
  BY DEF AccountInv
<1> QED BY <1>1, AccountInvariant, PTL

\* The newest billing projection states the account as it is now.
THEOREM ProjectionCurrent == Spec => []ProjectionIsCurrent
<1>1. AccountInv => ProjectionIsCurrent
  BY DEF AccountInv
<1> QED BY <1>1, AccountInvariant, PTL

LEMMA HistoryStep ==
    ASSUME AccountInv, [Next]_vars
    PROVE  /\ \A k \in OperatorKeys :
                 operatorRows[k] # None => operatorRows'[k] = operatorRows[k]
           /\ \A d \in Days :
                 usageRows[d] # None => usageRows'[d] = usageRows[d]
           /\ effective # 0 => effective' = effective
<1> DEFINE Kept ==
        /\ \A k \in OperatorKeys :
              operatorRows[k] # None => operatorRows'[k] = operatorRows[k]
        /\ \A d \in Days : usageRows[d] # None => usageRows'[d] = usageRows[d]
        /\ effective # 0 => effective' = effective
<1>1. CASE UNCHANGED <<operatorRows, usageRows, effective>>
  BY <1>1
<1>2. ASSUME NEW operation, NEW amount, NEW key \in OperatorKeys, NEW reference,
             AdjustBilling(operation, amount, key, reference)
      PROVE  Kept
  <2>1. /\ \A k \in OperatorKeys : k # key =>
              operatorRows'[k] = operatorRows[k]
        /\ operatorRows[key] = None /\ UNCHANGED usageRows
        /\ effective' = EffectiveAfter(operation)
    BY <1>2 DEF AdjustBilling, AccountInv, TypeOK
  <2> QED BY <2>1 DEF EffectiveAfter
<1>3. ASSUME NEW s \in Settlers, SettleNext(s) PROVE Kept
  <2> PICK d \in Pending(s) : SettleUsage(d, batch[s][d])
    BY <1>3 DEF SettleNext
  <2>1. UNCHANGED <<operatorRows, effective>>
    BY <1>3 DEF SettleNext
  <2>2. CASE UNCHANGED usageRows
    BY <2>1, <2>2
  <2>3. CASE ChargeUsage(d, batch[s][d])
    <3>1. d \in Days /\ usageRows[d] = None
      BY <2>3 DEF ChargeUsage, Pending, AccountInv, SettledDaysAreCharged
    <3> QED BY <2>1, <2>3, <3>1 DEF ChargeUsage, AccountInv, TypeOK
  <2> QED BY <2>2, <2>3 DEF SettleUsage, SkipUsage, CorrectUsage
<1>4. ASSUME Next PROVE Kept
  <2>1. ASSUME \/ \E newStatus \in OrgStatuses \ {"provisioning"} :
                     UpdateStatus(newStatus)
               \/ ArchiveOrganization \/ Restore
               \/ \E activate \in BOOLEAN : SetUpstreamOrganization(activate)
        PROVE  UNCHANGED <<operatorRows, usageRows, effective>>
    BY <2>1 DEF UpdateStatus, ArchiveOrganization, Restore, ledgerVars,
                SetUpstreamOrganization, UnchangedByLifecycle
  <2>2. ASSUME \/ \E s \in Settlers : ReadSpend(s) \/ CrashSettler(s)
               \/ \E d \in Days, amount \in Spends \cup {None} :
                     ReviseSpend(d, amount)
               \/ DayPasses
        PROVE  UNCHANGED <<operatorRows, usageRows, effective>>
    BY <2>2 DEF ReadSpend, CrashSettler, ReviseSpend, DayPasses, accountVars,
                ledgerVars
  <2> QED BY <1>1, <1>2, <1>3, <1>4, <2>1, <2>2 DEF Next
<1> QED BY <1>1, <1>4 DEF vars, accountVars, ledgerVars

\* History is not rewritten: operator rows, usage charges and the day billing
\* became effective stay as they were written.
THEOREM HistoryStays == Spec => HistoryIsKept
<1>1. AccountInv /\ [Next]_vars =>
        [/\ \A k \in OperatorKeys :
               operatorRows[k] # None => operatorRows'[k] = operatorRows[k]
         /\ \A d \in Days : usageRows[d] # None => usageRows'[d] = usageRows[d]
         /\ effective # 0 => effective' = effective]_vars
  BY HistoryStep
<1> QED BY <1>1, AccountInvariant, PTL DEF Spec, HistoryIsKept

-----------------------------------------------------------------------------
(* Sums over finite sets.  MapThenSumSet is defined by recursion over the  *)
(* subsets of the set: t[s] is the sum over s.                             *)

Pick(s) == CHOOSE x \in s : TRUE
Sums(t, f, S) == t = [s \in SUBSET S |-> IF s = {} THEN 0 ELSE f[Pick(s)] + t[s \ {Pick(s)}]]

\* Of a set of finite sets, one holds none of the others.
LEMMA Smallest ==
    ASSUME NEW S, IsFiniteSet(S), NEW T, T \subseteq SUBSET S, T # {}
    PROVE  \E x \in T : \A y \in T : y \subseteq x => y = x
<1>1. T \subseteq FiniteSubsetsOf(S)
  BY FS_FiniteSubsetsOfFinite, Zenon
<1>2. PICK x \in T : \A y \in T : ~(<<y, x>> \in StrictSubsetOrdering(S))
  BY <1>1, FS_StrictSubsetOrderingWellFounded, WFMin, Zenon
<1>3. ASSUME NEW y \in T, y \subseteq x PROVE y = x
  BY <1>2, <1>3 DEF StrictSubsetOrdering
<1> QED BY <1>3

LEMMA LeastNat ==
    ASSUME NEW T, T \subseteq Nat, T # {}
    PROVE  \E n \in T : \A m \in T : n <= m
<1>1. \A x, y \in Nat : y < x => <<y, x>> \in OpToRel(<, Nat)
  BY DEF OpToRel
<1>2. PICK R : IsWellFoundedOn(R, Nat) /\ \A x, y \in Nat : y < x => <<y, x>> \in R
  BY <1>1, NatLessThanWellFounded, Zenon
<1>3. PICK n \in T : \A m \in T : ~(<<m, n>> \in R)
  BY <1>2, WFMin, Zenon
<1>4. ASSUME NEW m \in T PROVE n <= m
  <2>1. n \in Nat /\ m \in Nat
    OBVIOUS
  <2>2. ~(m < n)
    BY <2>1, <1>2, <1>3, Zenon
  <2> QED BY <2>1, <2>2
<1> QED BY <1>4

LEMMA Picked == ASSUME NEW s, s # {} PROVE Pick(s) \in s
BY DEF Pick

\* The recursion has a solution.
LEMMA SumsExist ==
    ASSUME NEW S, IsFiniteSet(S), NEW f
    PROVE  \E t : Sums(t, f, S)
<1> DEFINE Up(n) == {s \in SUBSET S : Cardinality(s) <= n}
           Solved(n) == \E t : t = [s \in Up(n) |-> IF s = {} THEN 0
                                                    ELSE f[Pick(s)] + t[s \ {Pick(s)}]]
           Unsolved == {n \in Nat : ~Solved(n)}
<1>1. \A s \in SUBSET S : IsFiniteSet(s) /\ Cardinality(s) \in Nat
  BY FS_Subset, FS_CardinalityType
<1>2. \A s \in SUBSET S : s # {} =>
        /\ s \ {Pick(s)} \in SUBSET S
        /\ Cardinality(s \ {Pick(s)}) = Cardinality(s) - 1
  <2> SUFFICES ASSUME NEW s \in SUBSET S, s # {}
               PROVE  /\ s \ {Pick(s)} \in SUBSET S
                      /\ Cardinality(s \ {Pick(s)}) = Cardinality(s) - 1
    OBVIOUS
  <2>1. PICK x : x = Pick(s) /\ x \in s
    BY Picked
  <2>2. IsFiniteSet(s)
    BY <1>1
  <2> QED BY <2>1, <2>2, FS_RemoveElement
<1>3. Solved(0)
  <2>1. \A s \in Up(0) : s = {}
    <3> SUFFICES ASSUME NEW s \in Up(0) PROVE s = {}
      OBVIOUS
    <3>1. IsFiniteSet(s) /\ Cardinality(s) = 0
      BY <1>1
    <3> QED BY <3>1, FS_EmptySet
  <2>2. PICK t : t = [s \in Up(0) |-> 0]
    OBVIOUS
  <2>3. t = [s \in Up(0) |-> IF s = {} THEN 0 ELSE f[Pick(s)] + t[s \ {Pick(s)}]]
    BY <2>1, <2>2
  <2> QED BY <2>3
<1>4. ASSUME NEW n \in Nat, Solved(n) PROVE Solved(n + 1)
  <2>1. PICK t : t = [s \in Up(n) |-> IF s = {} THEN 0 ELSE f[Pick(s)] + t[s \ {Pick(s)}]]
    BY <1>4
  <2>2. PICK u : u = [s \in Up(n + 1) |-> IF s = {} THEN 0 ELSE f[Pick(s)] + t[s \ {Pick(s)}]]
    OBVIOUS
  <2>3. \A s \in Up(n) : s \in Up(n + 1) /\ u[s] = t[s]
    <3> SUFFICES ASSUME NEW s \in Up(n) PROVE s \in Up(n + 1) /\ u[s] = t[s]
      OBVIOUS
    <3>1. s \in Up(n + 1)
      BY <1>1
    <3>2. t[s] = IF s = {} THEN 0 ELSE f[Pick(s)] + t[s \ {Pick(s)}]
      BY <2>1
    <3>3. u[s] = IF s = {} THEN 0 ELSE f[Pick(s)] + t[s \ {Pick(s)}]
      BY <2>2, <3>1
    <3> QED BY <3>1, <3>2, <3>3
  <2>4. \A s \in Up(n + 1) : s # {} => s \ {Pick(s)} \in Up(n)
    BY <1>1, <1>2
  <2>5. u = [s \in Up(n + 1) |-> IF s = {} THEN 0 ELSE f[Pick(s)] + u[s \ {Pick(s)}]]
    BY <2>2, <2>3, <2>4
  <2> QED BY <2>5
<1>5. PICK c \in Nat : c = Cardinality(S)
  BY FS_CardinalityType
<1>6. Up(c) = SUBSET S
  BY <1>1, <1>5, FS_Subset
<1> HIDE DEF Solved, Up
<1>7. \A n \in Nat : Solved(n)
  <2> SUFFICES ASSUME Unsolved # {} PROVE FALSE
    OBVIOUS
  <2>1. Unsolved \subseteq Nat
    OBVIOUS
  <2>2. PICK n \in Unsolved : \A m \in Unsolved : n <= m
    BY <2>1, LeastNat
  <2>3. n \in Nat /\ ~Solved(n) /\ n # 0
    BY <2>2, <1>3
  <2>4. n - 1 \in Nat /\ n - 1 \notin Unsolved /\ (n - 1) + 1 = n
    BY <2>2, <2>3
  <2> QED BY <2>3, <2>4, <1>4
<1>8. PICK t : t = [s \in Up(c) |-> IF s = {} THEN 0 ELSE f[Pick(s)] + t[s \ {Pick(s)}]]
  BY <1>7, <1>5 DEF Solved
<1> QED BY <1>6, <1>8 DEF Sums

LEMMA SumsTyped ==
    ASSUME NEW S, IsFiniteSet(S), NEW f, \A k \in S : f[k] \in Int, NEW t, Sums(t, f, S)
    PROVE  \A s \in SUBSET S : t[s] \in Int
<1> DEFINE T == {s \in SUBSET S : t[s] \notin Int}
<1> SUFFICES ASSUME T # {} PROVE FALSE
  OBVIOUS
<1>1. PICK s \in T : \A y \in T : y \subseteq s => y = s
  <2>1. T \subseteq SUBSET S
    OBVIOUS
  <2> HIDE DEF T
  <2> QED BY <2>1, Smallest
<1>2. CASE s = {}
  BY <1>1, <1>2 DEF Sums
<1>3. CASE s # {}
  <2>1. PICK x : x = Pick(s) /\ x \in s
    BY <1>3, Picked
  <2>2. t[s \ {x}] \in Int
    BY <1>1, <2>1
  <2>3. t[s] = f[x] + t[s \ {x}]
    BY <1>3, <2>1 DEF Sums
  <2> QED BY <2>1, <2>2, <2>3
<1> QED BY <1>2, <1>3

\* In whatever order the members are taken.
LEMMA SumsTake ==
    ASSUME NEW S, IsFiniteSet(S), NEW f, \A k \in S : f[k] \in Int, NEW t, Sums(t, f, S)
    PROVE  \A s \in SUBSET S : \A x \in s : t[s] = f[x] + t[s \ {x}]
<1> DEFINE T == {s \in SUBSET S : \E x \in s : t[s] # f[x] + t[s \ {x}]}
<1> SUFFICES ASSUME T # {} PROVE FALSE
  OBVIOUS
<1>1. PICK s \in T : \A y \in T : y \subseteq s => y = s
  <2>1. T \subseteq SUBSET S
    OBVIOUS
  <2> HIDE DEF T
  <2> QED BY <2>1, Smallest
<1>2. PICK x \in s : t[s] # f[x] + t[s \ {x}]
  BY <1>1
<1>3. PICK c : c = Pick(s) /\ c \in s
  BY <1>2, Picked
<1>4. t[s] = f[c] + t[s \ {c}]
  BY <1>1, <1>2, <1>3 DEF Sums
<1>5. c # x
  BY <1>2, <1>4
<1>6. s \ {c} \in SUBSET S /\ s \ {x} \in SUBSET S /\ s \ {c} # s /\ s \ {x} # s
  BY <1>1, <1>2, <1>3
<1>7. t[s \ {c}] = f[x] + t[(s \ {c}) \ {x}]
  BY <1>1, <1>2, <1>5, <1>6, ZenonT(60)
<1>8. t[s \ {x}] = f[c] + t[(s \ {x}) \ {c}]
  BY <1>1, <1>3, <1>5, <1>6
<1>9. PICK r : r = (s \ {c}) \ {x}
  OBVIOUS
<1>10. r = (s \ {x}) \ {c} /\ r \in SUBSET S
  BY <1>6, <1>9
<1>11. t[r] \in Int /\ f[c] \in Int /\ f[x] \in Int
  BY <1>1, <1>2, <1>3, <1>10, SumsTyped
<1>12. t[s \ {c}] = f[x] + t[r] /\ t[s \ {x}] = f[c] + t[r]
  BY <1>7, <1>8, <1>9, <1>10
<1>13. f[c] + (f[x] + t[r]) = f[x] + (f[c] + t[r])
  BY <1>11
<1> QED BY <1>2, <1>4, <1>12, <1>13

LEMMA SumsAgree ==
    ASSUME NEW S, IsFiniteSet(S), NEW f, NEW t, Sums(t, f, S),
           NEW R, NEW g, NEW u, Sums(u, g, R),
           NEW Q, Q \subseteq S, Q \subseteq R, \A k \in Q : f[k] = g[k]
    PROVE  t[Q] = u[Q]
<1> DEFINE T == {s \in SUBSET Q : t[s] # u[s]}
<1> SUFFICES ASSUME T # {} PROVE FALSE
  OBVIOUS
<1>0. IsFiniteSet(Q)
  BY FS_Subset
<1>1. PICK s \in T : \A y \in T : y \subseteq s => y = s
  <2>1. T \subseteq SUBSET Q
    OBVIOUS
  <2> HIDE DEF T
  <2> QED BY <1>0, <2>1, Smallest
<1>2. s \in SUBSET Q /\ s \in SUBSET S /\ s \in SUBSET R /\ t[s] # u[s]
  BY <1>1
<1>3. CASE s = {}
  BY <1>2, <1>3 DEF Sums
<1>4. CASE s # {}
  <2>1. PICK x : x = Pick(s) /\ x \in s
    BY <1>4, Picked
  <2>2. t[s \ {x}] = u[s \ {x}]
    BY <1>1, <1>2, <2>1
  <2>3. t[s] = f[x] + t[s \ {x}]
    BY <1>2, <1>4, <2>1 DEF Sums
  <2>4. u[s] = g[x] + u[s \ {x}]
    BY <1>2, <1>4, <2>1 DEF Sums
  <2> QED BY <1>2, <2>1, <2>2, <2>3, <2>4
<1> QED BY <1>3, <1>4

\* What MapThenSumSet adds up: the amounts of the rows that were written.
LEMMA TotalSums ==
    ASSUME NEW rows, NEW S, S = RowsIn(rows), IsFiniteSet(S),
           NEW f, \A k \in S : f[k] = rows[k].amount
    PROVE  \E t : Sums(t, f, S) /\ TotalOf(rows) = t[S]
<1> DEFINE it == CHOOSE t : t = [s \in SUBSET S |-> IF s = {} THEN 0
                                 ELSE rows[Pick(s)].amount + t[s \ {Pick(s)}]]
<1>1. TotalOf(rows) = it[S]
  BY DEF TotalOf, MapThenSumSet, MapThenFoldSet, Pick
<1>2. \A t : Sums(t, f, S) <=> t = [s \in SUBSET S |-> IF s = {} THEN 0
                                   ELSE rows[Pick(s)].amount + t[s \ {Pick(s)}]]
  <2> SUFFICES ASSUME NEW t
               PROVE  [s \in SUBSET S |-> IF s = {} THEN 0 ELSE f[Pick(s)] + t[s \ {Pick(s)}]]
                        = [s \in SUBSET S |-> IF s = {} THEN 0
                             ELSE rows[Pick(s)].amount + t[s \ {Pick(s)}]]
    BY DEF Sums
  <2>1. \A s \in SUBSET S : s # {} => f[Pick(s)] = rows[Pick(s)].amount
    BY Picked
  <2> QED BY <2>1
<1>3. \E t : t = [s \in SUBSET S |-> IF s = {} THEN 0 ELSE rows[Pick(s)].amount + t[s \ {Pick(s)}]]
  BY <1>2, SumsExist
<1>4. it = [s \in SUBSET S |-> IF s = {} THEN 0 ELSE rows[Pick(s)].amount + it[s \ {Pick(s)}]]
  BY <1>3
<1> HIDE DEF it
<1> QED BY <1>1, <1>2, <1>4

\* A row written where there was none adds its amount.
LEMMA TotalGrows ==
    ASSUME NEW rows, NEW rows2, IsFiniteSet(RowsIn(rows)), IsFiniteSet(RowsIn(rows2)),
           NEW x \in RowsIn(rows2), RowsIn(rows2) \ {x} = RowsIn(rows),
           \A k \in RowsIn(rows) : rows[k].amount \in Int /\ rows2[k] = rows[k],
           rows2[x].amount \in Int
    PROVE  TotalOf(rows2) = TotalOf(rows) + rows2[x].amount /\ TotalOf(rows) \in Int
<1>a. PICK S, R : S = RowsIn(rows) /\ R = RowsIn(rows2)
  OBVIOUS
<1>b. IsFiniteSet(S) /\ IsFiniteSet(R)
  BY <1>a
<1>c. x \in R /\ R \ {x} = S
  BY <1>a
<1>d. \A k \in S : rows[k].amount \in Int /\ rows2[k] = rows[k]
  BY <1>a
<1>1. PICK f : f = [k \in S |-> rows[k].amount]
  OBVIOUS
<1>2. PICK g : g = [k \in R |-> rows2[k].amount]
  OBVIOUS
<1>3. (\A k \in S : f[k] = rows[k].amount) /\ \A k \in S : f[k] \in Int
  BY <1>1, <1>d
<1>4. \A k \in R : g[k] = rows2[k].amount
  BY <1>2
<1>5. \A k \in S : k \in R /\ g[k] = f[k]
  BY <1>3, <1>4, <1>c, <1>d
<1>6. \A k \in R : g[k] \in Int
  <2>1. \A k \in R : k = x \/ k \in S
    BY <1>c
  <2> QED BY <2>1, <1>3, <1>4, <1>5
<1>7. PICK t : Sums(t, f, S) /\ TotalOf(rows) = t[S]
  BY <1>a, <1>b, <1>3, TotalSums
<1>8. PICK u : Sums(u, g, R) /\ TotalOf(rows2) = u[R]
  BY <1>a, <1>b, <1>4, TotalSums
<1>9. u[R] = g[x] + u[S]
  BY <1>b, <1>c, <1>6, <1>8, SumsTake
<1>10. t[S] = u[S]
  <2>1. S \subseteq S /\ S \subseteq R /\ \A k \in S : f[k] = g[k]
    BY <1>5, <1>c
  <2> QED BY <2>1, <1>b, <1>7, <1>8, SumsAgree
<1>11. t[S] \in Int
  BY <1>b, <1>3, <1>7, SumsTyped
<1>12. PICK a \in Int, b \in Int : a = t[S] /\ b = rows2[x].amount
  BY <1>11
<1>13. u[R] = b + a
  BY <1>4, <1>9, <1>10, <1>12, <1>c
<1>14. b + a = a + b
  BY <1>12
<1> QED BY <1>7, <1>8, <1>12, <1>13, <1>14

\* A row written over another adds the difference.
LEMMA TotalMoves ==
    ASSUME NEW rows, NEW rows2, IsFiniteSet(RowsIn(rows)), RowsIn(rows2) = RowsIn(rows),
           NEW x \in RowsIn(rows),
           \A k \in RowsIn(rows) : rows[k].amount \in Int /\ (k # x => rows2[k] = rows[k]),
           rows2[x].amount \in Int
    PROVE  /\ TotalOf(rows2) = TotalOf(rows) - rows[x].amount + rows2[x].amount
           /\ TotalOf(rows) \in Int
<1>1. PICK S : S = RowsIn(rows)
  OBVIOUS
<1>2. IsFiniteSet(S) /\ x \in S /\ S = RowsIn(rows2)
  BY <1>1
<1>3. PICK f, g : f = [k \in S |-> rows[k].amount] /\ g = [k \in S |-> rows2[k].amount]
  OBVIOUS
<1>4. \A k \in S : f[k] = rows[k].amount /\ f[k] \in Int
  BY <1>1, <1>3
<1>5. \A k \in S : g[k] = rows2[k].amount /\ g[k] \in Int /\ (k # x => g[k] = f[k])
  BY <1>1, <1>3
<1>6. PICK t : Sums(t, f, S) /\ TotalOf(rows) = t[S]
  BY <1>1, <1>2, <1>4, TotalSums
<1>7. PICK u : Sums(u, g, S) /\ TotalOf(rows2) = u[S]
  BY <1>2, <1>5, TotalSums
<1>8. u[S] = g[x] + u[S \ {x}] /\ t[S] = f[x] + t[S \ {x}]
  BY <1>2, <1>4, <1>5, <1>6, <1>7, SumsTake
<1>9. t[S \ {x}] = u[S \ {x}]
  <2>1. S \ {x} \subseteq S /\ \A k \in S \ {x} : f[k] = g[k]
    BY <1>5
  <2> QED BY <2>1, <1>2, <1>6, <1>7, SumsAgree
<1>10. t[S] \in Int /\ t[S \ {x}] \in Int
  BY <1>2, <1>4, <1>6, SumsTyped
<1>11. f[x] \in Int /\ g[x] \in Int /\ f[x] = rows[x].amount /\ g[x] = rows2[x].amount
  BY <1>2, <1>4, <1>5
<1> QED BY <1>6, <1>7, <1>8, <1>9, <1>10, <1>11

LEMMA TotalNone == ASSUME NEW rows, RowsIn(rows) = {} PROVE TotalOf(rows) = 0
<1>1. PICK S, f : S = RowsIn(rows) /\ f = [k \in S |-> rows[k].amount]
  OBVIOUS
<1>2. IsFiniteSet(S) /\ \A k \in S : f[k] = rows[k].amount
  BY <1>1, FS_EmptySet
<1>3. PICK t : Sums(t, f, S) /\ TotalOf(rows) = t[S]
  BY <1>1, <1>2, TotalSums
<1> QED BY <1>1, <1>3 DEF Sums

-----------------------------------------------------------------------------
(* The balance is the sum of the ledger.                                   *)

IdentityInv == AccountInv /\ IsFiniteSet(RowsIn(operatorRows)) /\ AccountIdentity

LEMMA DaysAreFinite ==
    ASSUME NEW S, S \subseteq Days
    PROVE  IsFiniteSet(S)
<1>1. IsFiniteSet(Days)
  BY CalendarAssumption, FS_Interval DEF Days
<1> QED BY <1>1, FS_Subset

LEMMA TotalsAreIntegers ==
    ASSUME TypeOK, IsFiniteSet(RowsIn(operatorRows))
    PROVE  /\ TotalOf(operatorRows) \in Int /\ TotalOf(usageRows) \in Int
           /\ TotalOf(adjustmentRows) \in Int
<1>1. ASSUME NEW rows, IsFiniteSet(RowsIn(rows)), \A k \in RowsIn(rows) : rows[k].amount \in Int
      PROVE  TotalOf(rows) \in Int
  <2>1. PICK S, f : S = RowsIn(rows) /\ f = [k \in S |-> rows[k].amount]
    OBVIOUS
  <2>2. \A k \in S : f[k] = rows[k].amount
    BY <2>1
  <2>3. \A k \in S : f[k] \in Int
    BY <1>1, <2>1
  <2>4. IsFiniteSet(S) /\ S = RowsIn(rows)
    BY <1>1, <2>1
  <2>5. PICK t : Sums(t, f, S) /\ TotalOf(rows) = t[S]
    BY <2>2, <2>4, TotalSums
  <2> QED BY <2>3, <2>4, <2>5, SumsTyped
<1>2. \A k \in RowsIn(operatorRows) : operatorRows[k].amount \in Int
  BY DEF TypeOK, RowsIn, OperatorRow
<1>3. \A k \in RowsIn(usageRows) : usageRows[k].amount \in Int
  BY DEF TypeOK, RowsIn, UsageRow
<1>4. \A k \in RowsIn(adjustmentRows) : adjustmentRows[k].amount \in Int
  BY DEF TypeOK, RowsIn, UsageRow
<1>5. IsFiniteSet(RowsIn(usageRows)) /\ IsFiniteSet(RowsIn(adjustmentRows))
  <2>1. RowsIn(usageRows) \subseteq Days /\ RowsIn(adjustmentRows) \subseteq Days
    BY DEF TypeOK, RowsIn
  <2> QED BY <2>1, DaysAreFinite
<1> QED BY <1>1, <1>2, <1>3, <1>4, <1>5

\* A table that gets a row for a key that had none.
LEMMA RowAdded ==
    ASSUME NEW K, NEW rows, DOMAIN rows = K, IsFiniteSet(RowsIn(rows)),
           \A k \in RowsIn(rows) : rows[k].amount \in Int,
           NEW x \in K, rows[x] = None, NEW row, row # None, row.amount \in Int,
           NEW rows2, rows2 = [rows EXCEPT ![x] = row]
    PROVE  TotalOf(rows2) = TotalOf(rows) + row.amount /\ IsFiniteSet(RowsIn(rows2))
<1>1. PICK S : S = RowsIn(rows)
  OBVIOUS
<1>2. PICK R : R = RowsIn(rows2)
  OBVIOUS
<1>3. rows2[x] = row /\ DOMAIN rows2 = K /\ \A k \in K : k # x => rows2[k] = rows[k]
  OBVIOUS
<1>4. x \in R /\ R \ {x} = S /\ R = S \union {x}
  BY <1>1, <1>2, <1>3 DEF RowsIn
<1>5. IsFiniteSet(S) /\ IsFiniteSet(R)
  BY <1>1, <1>4, FS_AddElement
<1>6. \A k \in S : rows[k].amount \in Int /\ rows2[k] = rows[k]
  BY <1>1, <1>3 DEF RowsIn
<1>7. rows2[x].amount \in Int /\ rows2[x].amount = row.amount
  BY <1>3
<1>8. x \in R /\ R \ {x} = S
  BY <1>4
<1>9. TotalOf(rows2) = TotalOf(rows) + rows2[x].amount
  <2>1. x \in RowsIn(rows2) /\ RowsIn(rows2) \ {x} = RowsIn(rows)
    BY <1>1, <1>2, <1>8
  <2>2. IsFiniteSet(RowsIn(rows2))
    BY <1>2, <1>5
  <2>3. \A k \in RowsIn(rows) : rows[k].amount \in Int /\ rows2[k] = rows[k]
    BY <1>1, <1>6
  <2>4. x \in RowsIn(rows2)
    BY <2>1
  <2>5. RowsIn(rows2) \ {x} = RowsIn(rows)
    BY <2>1
  <2>6. rows2[x].amount \in Int
    BY <1>7
  <2> QED BY <2>2, <2>3, <2>4, <2>5, <2>6, TotalGrows, ZenonT(60)
<1> QED BY <1>2, <1>5, <1>7, <1>9

LEMMA RowChanged ==
    ASSUME NEW rows, IsFiniteSet(RowsIn(rows)),
           \A k \in RowsIn(rows) : rows[k].amount \in Int,
           NEW x \in DOMAIN rows, rows[x] # None, NEW row, row # None, row.amount \in Int
    PROVE  TotalOf([rows EXCEPT ![x] = row]) = TotalOf(rows) - rows[x].amount + row.amount
<1>0. PICK rows2 : rows2 = [rows EXCEPT ![x] = row]
  OBVIOUS
<1>1. /\ rows2[x] = row /\ DOMAIN rows2 = DOMAIN rows
      /\ \A k \in DOMAIN rows : k # x => rows2[k] = rows[k]
  BY <1>0
<1>2. RowsIn(rows2) = RowsIn(rows) /\ x \in RowsIn(rows)
  BY <1>1 DEF RowsIn
<1>3. \A k \in RowsIn(rows) : rows[k].amount \in Int /\ (k # x => rows2[k] = rows[k])
  BY <1>1 DEF RowsIn
<1>4. rows2[x].amount \in Int /\ rows2[x].amount = row.amount
  BY <1>1
<1>5. TotalOf(rows2) = TotalOf(rows) - rows[x].amount + rows2[x].amount
  BY <1>2, <1>3, <1>4, TotalMoves
<1> QED BY <1>0, <1>4, <1>5

LEMMA IdentityInit == Init => IdentityInv
<1> SUFFICES ASSUME Init PROVE IdentityInv
  OBVIOUS
<1>1. RowsIn(operatorRows) = {} /\ RowsIn(usageRows) = {} /\ RowsIn(adjustmentRows) = {}
  BY DEF Init, NoUsage, RowsIn
<1>2. IsFiniteSet(RowsIn(operatorRows))
  BY <1>1, FS_EmptySet
<1>3. TotalOf(operatorRows) = 0 /\ TotalOf(usageRows) = 0 /\ TotalOf(adjustmentRows) = 0
  BY <1>1, TotalNone
<1>4. balance = 0
  BY DEF Init
<1> QED BY <1>2, <1>3, <1>4, AccountInit DEF IdentityInv, AccountIdentity

LEMMA IdentityAdjust ==
    ASSUME IdentityInv, NEW operation, NEW amount \in Amounts, NEW key \in OperatorKeys,
           NEW reference \in References \cup {NoReference},
           AdjustBilling(operation, amount, key, reference)
    PROVE  IsFiniteSet(RowsIn(operatorRows))' /\ AccountIdentity'
<1>1. TypeOK /\ IsFiniteSet(RowsIn(operatorRows)) /\ AccountIdentity /\ balance \in Int
  BY DEF IdentityInv, AccountInv, TypeOK
<1>2. PICK delta : delta = IF operation \in Credits THEN amount ELSE -amount
  OBVIOUS
<1>3. delta \in Int
  BY <1>2, AmountsAssumption
<1>4. PICK row : row = [amount |-> delta, after |-> balance + delta, reference |-> reference]
  OBVIOUS
<1>5. /\ operatorRows[key] = None /\ operatorRows' = [operatorRows EXCEPT ![key] = row]
      /\ balance' = balance + delta /\ UNCHANGED <<usageRows, adjustmentRows>>
  BY <1>2, <1>4 DEF AdjustBilling
<1>6. row # None /\ row.amount = delta
  <2>1. row \in OperatorRow /\ row.amount = delta
    BY <1>1, <1>3, <1>4 DEF OperatorRow
  <2> QED BY <2>1, NoneAssumption DEF OperatorRow
<1>7. /\ DOMAIN operatorRows = OperatorKeys
      /\ \A k \in RowsIn(operatorRows) : operatorRows[k].amount \in Int
  BY <1>1 DEF TypeOK, RowsIn, OperatorRow
<1>8. TotalOf(operatorRows') = TotalOf(operatorRows) + row.amount /\ IsFiniteSet(RowsIn(operatorRows'))
  BY <1>1, <1>3, <1>5, <1>6, <1>7, RowAdded
<1>9. PICK a \in Int, b \in Int, c \in Int :
        a = TotalOf(operatorRows) /\ b = TotalOf(usageRows) /\ c = TotalOf(adjustmentRows)
  BY <1>1, TotalsAreIntegers
<1>10. balance' = (a + delta) + b + c
  BY <1>1, <1>3, <1>5, <1>9 DEF AccountIdentity
<1>11. TotalOf(operatorRows') = a + delta /\ TotalOf(usageRows') = b /\ TotalOf(adjustmentRows') = c
  BY <1>5, <1>6, <1>8, <1>9
<1> QED BY <1>8, <1>10, <1>11 DEF AccountIdentity

LEMMA IdentityCharge ==
    ASSUME IdentityInv, NEW d \in Days, NEW amount \in Spends, ChargeUsage(d, amount), UNCHANGED operatorRows
    PROVE  AccountIdentity'
<1>1. /\ TypeOK /\ IsFiniteSet(RowsIn(operatorRows)) /\ AccountIdentity /\ balance \in Int
      /\ SettledDaysAreCharged
  BY DEF IdentityInv, AccountInv, TypeOK
<1>2. PICK row : row = [amount |-> -amount, after |-> balance - amount]
  OBVIOUS
<1>3. amount \in Nat /\ -amount \in Int /\ row.amount = -amount
  BY <1>2, AmountsAssumption
<1>4. /\ usageRows[d] = None /\ usageRows' = [usageRows EXCEPT ![d] = row]
      /\ balance' = balance - amount /\ UNCHANGED adjustmentRows
  BY <1>1, <1>2 DEF ChargeUsage, SettledDaysAreCharged
<1>5. row # None
  <2>1. row \in UsageRow
    BY <1>1, <1>2, <1>3 DEF UsageRow
  <2> QED BY <2>1, NoneAssumption DEF UsageRow
<1>6. /\ DOMAIN usageRows = Days
      /\ \A k \in RowsIn(usageRows) : usageRows[k].amount \in Int
      /\ RowsIn(usageRows) \subseteq Days
  BY <1>1 DEF TypeOK, RowsIn, UsageRow
<1>7. IsFiniteSet(RowsIn(usageRows))
  BY <1>6, DaysAreFinite
<1>8. TotalOf(usageRows') = TotalOf(usageRows) + row.amount
  BY <1>3, <1>4, <1>5, <1>6, <1>7, RowAdded, ZenonT(60)
<1>9. PICK a \in Int, b \in Int, c \in Int :
        a = TotalOf(operatorRows) /\ b = TotalOf(usageRows) /\ c = TotalOf(adjustmentRows)
  BY <1>1, TotalsAreIntegers
<1>10. balance' = a + (b + (-amount)) + c
  BY <1>1, <1>3, <1>4, <1>9 DEF AccountIdentity
<1>11. TotalOf(operatorRows') = a /\ TotalOf(usageRows') = b + (-amount) /\ TotalOf(adjustmentRows') = c
  BY <1>3, <1>4, <1>8, <1>9
<1> QED BY <1>10, <1>11 DEF AccountIdentity

LEMMA IdentityCorrect ==
    ASSUME IdentityInv, NEW d \in Days, NEW amount \in Spends, CorrectUsage(d, amount), UNCHANGED operatorRows
    PROVE  AccountIdentity'
<1>1. /\ TypeOK /\ IsFiniteSet(RowsIn(operatorRows)) /\ AccountIdentity /\ balance \in Int
  BY DEF IdentityInv, AccountInv, TypeOK
<1>2. PICK delta : delta = amount - settled[d]
  OBVIOUS
<1>3. amount \in Nat /\ settled[d] \in Nat /\ delta \in Int
  BY <1>1, <1>2, AmountsAssumption DEF CorrectUsage, TypeOK
<1>4. PICK row : row = [amount |-> AdjustedBy(d, delta), after |-> balance - delta]
  OBVIOUS
<1>5. /\ adjustmentRows' = [adjustmentRows EXCEPT ![d] = row]
      /\ balance' = balance - delta /\ UNCHANGED usageRows
  BY <1>2, <1>4 DEF CorrectUsage
<1>6. /\ DOMAIN adjustmentRows = Days
      /\ \A k \in RowsIn(adjustmentRows) : adjustmentRows[k].amount \in Int
      /\ RowsIn(adjustmentRows) \subseteq Days
  BY <1>1 DEF TypeOK, RowsIn, UsageRow
<1>7. IsFiniteSet(RowsIn(adjustmentRows))
  BY <1>6, DaysAreFinite
<1>8. AdjustedBy(d, delta) \in Int /\ row.amount = AdjustedBy(d, delta)
  BY <1>1, <1>3, <1>4 DEF AdjustedBy, TypeOK, UsageRow
<1>9. row # None
  <2>1. row \in UsageRow
    BY <1>1, <1>3, <1>4, <1>8 DEF UsageRow
  <2> QED BY <2>1, NoneAssumption DEF UsageRow
<1>10. PICK a \in Int, b \in Int, c \in Int :
        a = TotalOf(operatorRows) /\ b = TotalOf(usageRows) /\ c = TotalOf(adjustmentRows)
  BY <1>1, TotalsAreIntegers
<1>11. balance' = a + b + (c - delta)
  BY <1>1, <1>3, <1>5, <1>10 DEF AccountIdentity
<1>12. TotalOf(adjustmentRows') = c - delta
  <2>1. CASE adjustmentRows[d] = None
    <3>1. TotalOf(adjustmentRows') = TotalOf(adjustmentRows) + row.amount
      BY <2>1, <1>5, <1>6, <1>7, <1>8, <1>9, RowAdded, ZenonT(60)
    <3>2. row.amount = 0 - delta
      BY <2>1, <1>8 DEF AdjustedBy
    <3> QED BY <3>1, <3>2, <1>3, <1>10
  <2>2. CASE adjustmentRows[d] # None
    <3>0. PICK old, new : old = adjustmentRows /\ new = adjustmentRows'
      OBVIOUS
    <3>a. d \in DOMAIN old /\ IsFiniteSet(RowsIn(old)) /\ old[d] # None
      BY <2>2, <1>6, <1>7, <3>0
    <3>b. \A k \in RowsIn(old) : old[k].amount \in Int
      BY <1>6, <3>0
    <3>c. new = [old EXCEPT ![d] = row]
      BY <1>5, <3>0
    <3>d. row.amount \in Int
      BY <1>8
    <3>e. TotalOf([old EXCEPT ![d] = row]) = TotalOf(old) - old[d].amount + row.amount
      BY <3>a, <3>b, <3>d, <1>9, RowChanged
    <3>1. TotalOf(adjustmentRows') = TotalOf(adjustmentRows) - adjustmentRows[d].amount + row.amount
      BY <3>0, <3>c, <3>e
    <3>2. PICK e \in Int : e = adjustmentRows[d].amount
      BY <2>2, <1>1 DEF TypeOK, UsageRow
    <3>3. row.amount = e - delta
      BY <2>2, <3>2, <1>8 DEF AdjustedBy
    <3> QED BY <3>1, <3>2, <3>3, <1>3, <1>10
  <2> QED BY <2>1, <2>2
<1>13. TotalOf(operatorRows') = a /\ TotalOf(usageRows') = b
  BY <1>5, <1>10
<1> QED BY <1>11, <1>12, <1>13 DEF AccountIdentity

LEMMA IdentityStep == IdentityInv /\ [Next]_vars => IdentityInv'
<1> SUFFICES ASSUME IdentityInv, [Next]_vars PROVE IdentityInv'
  OBVIOUS
<1>0. AccountInv'
  BY AccountStepInv DEF IdentityInv
<1>1. ASSUME UNCHANGED <<balance, operatorRows, usageRows, adjustmentRows>>
      PROVE  IsFiniteSet(RowsIn(operatorRows))' /\ AccountIdentity'
  BY <1>1 DEF IdentityInv, AccountIdentity
<1>2. ASSUME NEW operation \in Credits \cup Debits, NEW amount \in Amounts,
             NEW key \in OperatorKeys, NEW reference \in References \cup {NoReference},
             AdjustBilling(operation, amount, key, reference)
      PROVE  IsFiniteSet(RowsIn(operatorRows))' /\ AccountIdentity'
  BY <1>2, IdentityAdjust
<1>3. ASSUME NEW s \in Settlers, SettleNext(s)
      PROVE  IsFiniteSet(RowsIn(operatorRows))' /\ AccountIdentity'
  <2>1. PICK d \in Pending(s) : SettleUsage(d, batch[s][d])
    BY <1>3 DEF SettleNext
  <2>2. UNCHANGED operatorRows
    BY <1>3 DEF SettleNext
  <2>3. d \in Days /\ batch[s][d] \in Spends
    BY <2>1 DEF Pending, IdentityInv, AccountInv, TypeOK
  <2>4. IsFiniteSet(RowsIn(operatorRows))'
    BY <2>2 DEF IdentityInv
  <2>5. CASE SkipUsage(d, batch[s][d])
    BY <2>5, <2>2, <1>1 DEF SkipUsage
  <2>6. CASE ChargeUsage(d, batch[s][d])
    BY <2>2, <2>3, <2>4, <2>6, IdentityCharge
  <2>7. CASE CorrectUsage(d, batch[s][d])
    BY <2>2, <2>3, <2>4, <2>7, IdentityCorrect
  <2> QED BY <2>1, <2>5, <2>6, <2>7 DEF SettleUsage
<1>4. ASSUME \/ \E newStatus \in OrgStatuses \ {"provisioning"} : UpdateStatus(newStatus)
             \/ ArchiveOrganization \/ Restore
             \/ \E activate \in BOOLEAN : SetUpstreamOrganization(activate)
             \/ \E s \in Settlers : ReadSpend(s) \/ CrashSettler(s)
             \/ \E d \in Days, amount \in Spends \cup {None} : ReviseSpend(d, amount)
             \/ DayPasses
      PROVE  UNCHANGED <<balance, operatorRows, usageRows, adjustmentRows>>
  BY <1>4 DEF UpdateStatus, ArchiveOrganization, Restore, SetUpstreamOrganization,
     UnchangedByLifecycle, ReadSpend, CrashSettler, ReviseSpend, DayPasses, accountVars, ledgerVars
<1>5. CASE UNCHANGED vars
  BY <1>5, <1>0, <1>1 DEF vars, accountVars, ledgerVars, IdentityInv
<1>6. CASE Next
  <2>1. IsFiniteSet(RowsIn(operatorRows))' /\ AccountIdentity'
    BY <1>6, <1>1, <1>2, <1>3, <1>4 DEF Next
  <2> QED BY <2>1, <1>0 DEF IdentityInv
<1> QED BY <1>5, <1>6

\* The balance is what the ledger adds up to: no row is lost, written twice or
\* counted under another figure.
THEOREM BalanceIsLedger == Spec => []AccountIdentity
<1>1. IdentityInv => AccountIdentity
  BY DEF IdentityInv
<1> QED BY <1>1, IdentityInit, IdentityStep, PTL DEF Spec

=============================================================================

----------------------------- MODULE TopUpOrders -----------------------------
(***************************************************************************)
(* Personal top-up orders and redemption codes of one customer, the        *)
(* entitlement they carry to the proxy, and enterprise orders with their   *)
(* grant (billing_store.py; main.py from billing_identity on).             *)
(*                                                                         *)
(* Every order is worth one unit.  An order placed by the customer is      *)
(* always allocated to the tool accounts, a redeemed code never is; the    *)
(* order a code writes is named by the code.  The two tool accounts run    *)
(* the same steps and are one here.  A clerk is a request being served: an *)
(* administrator, the payment gateway, the customer or the retry.          *)
(***************************************************************************)
EXTENDS Naturals, FiniteSets

CONSTANTS Orders,      \* trade numbers of orders the customer places
          Codes,       \* redemption codes
          FirmOrders,  \* trade numbers of enterprise orders
          Clerks,      \* requests served at the same time
          NoOrder      \* what an idle clerk works on

ASSUME OrdersAssumption ==
    /\ Orders \cap Codes = {} /\ (Orders \cup Codes) \cap FirmOrders = {}
    /\ NoOrder \notin Orders \cup Codes \cup FirmOrders

VARIABLES orders,     \* billing_order rows
          codes,      \* billing_redemption.status
          total,      \* billing_account.topup_total_usd (= balance_usd: never debited)
          billed,   \* per account at the proxy: its budget and whether it has a key
          written,    \* history: the orders some budget write of the account counted
          forgotten,  \* history: orders whose clerk died after marking them done
          firm,       \* organization_billing_order rows and the grants they made
          clerks      \* what each request is doing

orderVars == <<orders, codes, total, billed, written, forgotten, firm, clerks>>

Accounts == {"main", "tool"}
Trades == Orders \cup Codes
AccountOf(o) == IF o \in Orders THEN "tool" ELSE "main"
Paid == {o \in Trades : orders[o].status = "success"}
Nothing == [sum |-> 0, of |-> {}]
Idle == [at |-> "idle", order |-> NoOrder, read |-> Nothing, seen |-> "none"]

OrdersInit ==
    /\ orders = [o \in Trades |-> [status |-> "none", sync |-> "none"]]
    /\ codes = [k \in Codes |-> "enabled"]
    /\ total = 0
    /\ billed = [a \in Accounts |-> [budget |-> 0, key |-> FALSE]]
    /\ written = [a \in Accounts |-> {}]
    /\ forgotten = {}
    /\ firm = [e \in FirmOrders |-> [status |-> "none", grants |-> 0]]
    /\ clerks = [c \in Clerks |-> Idle]

ClerkAt(c, places) == clerks[c].at \in places
ClerkGoes(c, place) == clerks' = [clerks EXCEPT ![c].at = place]
ClerkStarts(c, place, o, seen) ==
    /\ ClerkAt(c, {"idle"})
    /\ clerks' = [clerks EXCEPT ![c] = [Idle EXCEPT !.at = place, !.order = o, !.seen = seen]]
ClerkApplies(c) == clerks' = [clerks EXCEPT ![c].at = "apply", ![c].seen = "none"]
ClerkRests(c) == clerks' = [clerks EXCEPT ![c] = Idle]
Synced(o, state) == orders' = [orders EXCEPT ![o].sync = state]
proxyAndHistory == <<billed, written, forgotten>>

-----------------------------------------------------------------------------
(* Orders and codes. *)

CreateOrder(o) ==
    /\ orders[o].status = "none"
    /\ orders' = [orders EXCEPT ![o].status = "pending"]
    /\ UNCHANGED <<codes, total, proxyAndHistory, firm, clerks>>

\* An administrator rejects what is still pending.
RejectOrder(o) ==
    /\ orders[o].status = "pending"
    /\ orders' = [orders EXCEPT ![o].status = "failed"]
    /\ UNCHANGED <<codes, total, proxyAndHistory, firm, clerks>>

\* An administrator read the order pending; the gateway, which repeats its
\* call until it is answered, only that it exists.
ConfirmOrder(c, o) ==
    /\ orders[o].status = "pending"
    /\ ClerkStarts(c, "settle", o, "pending")
    /\ UNCHANGED <<orders, codes, total, proxyAndHistory, firm>>

NotifyPaid(c, o) ==
    /\ orders[o].status # "none"
    /\ ClerkStarts(c, "settle", o, "notified")
    /\ UNCHANGED <<orders, codes, total, proxyAndHistory, firm>>

Credited(o) ==
    /\ orders' = [orders EXCEPT ![o].status = "success", ![o].sync = "pending"]
    /\ total' = total + 1

\* A settlement that does not look at the row's status again.
SettleOrderBlindly(c) ==
    /\ ClerkAt(c, {"settle"})
    /\ Credited(clerks[c].order) /\ ClerkApplies(c)
    /\ UNCHANGED <<codes, proxyAndHistory, firm>>

\* One transaction: only the call that moves the row from pending credits.
\* The administrator's request goes on either way, the gateway's stops.
SettleOrder(c) ==
    /\ ClerkAt(c, {"settle"})
    /\ \/ /\ orders[clerks[c].order].status = "pending"
          /\ Credited(clerks[c].order) /\ ClerkApplies(c)
       \/ /\ orders[clerks[c].order].status # "pending"
          /\ IF clerks[c].seen = "notified" THEN ClerkRests(c) ELSE ClerkApplies(c)
          /\ UNCHANGED <<orders, total>>
    /\ UNCHANGED <<codes, proxyAndHistory, firm>>

\* A code is spent, its order written and the account credited together.
Redeem(c, k) ==
    /\ codes[k] = "enabled"
    /\ codes' = [codes EXCEPT ![k] = "used"]
    /\ Credited(k)
    /\ ClerkStarts(c, "apply", k, "none")
    /\ UNCHANGED <<proxyAndHistory, firm>>

DisableRedemption(k) ==
    /\ codes[k] = "enabled"
    /\ codes' = [codes EXCEPT ![k] = "disabled"]
    /\ UNCHANGED <<orders, total, proxyAndHistory, firm, clerks>>

-----------------------------------------------------------------------------
(* apply_topup_entitlement, step by step. *)

\* The retry takes a paid order still waiting for its entitlement.
RetryPendingSync(c, o) ==
    /\ orders[o].status = "success" /\ orders[o].sync = "pending"
    /\ ClerkStarts(c, "apply", o, "none")
    /\ UNCHANGED <<orders, codes, total, proxyAndHistory, firm>>

\* The customer has no account at the proxy yet: the order stays waiting.
NotOpenedYet(c) ==
    /\ ClerkAt(c, {"apply"}) /\ Synced(clerks[c].order, "pending") /\ ClerkRests(c)
    /\ UNCHANGED <<codes, total, proxyAndHistory, firm>>

\* The account is read first; an allocated order writes nothing to the main
\* account and is marked done at once.
ReadEntitlement(c) ==
    /\ ClerkAt(c, {"apply"})
    /\ IF clerks[c].order \in Orders THEN ClerkGoes(c, "mark")
       ELSE clerks' = [clerks EXCEPT ![c].at = "write", ![c].read = [sum |-> total, of |-> Paid]]
    /\ UNCHANGED <<orders, codes, total, proxyAndHistory, firm>>

\* Opening the billing page writes the whole total to the main account, for no order;
\* what was allocated to the tool account is part of that total.
VisitBilling(c) ==
    /\ ClerkAt(c, {"idle"}) /\ total > 0
    /\ clerks' = [clerks EXCEPT ![c] = [Idle EXCEPT !.at = "write", !.read = [sum |-> total, of |-> Paid]]]
    /\ UNCHANGED <<orders, codes, total, proxyAndHistory, firm>>

SetBudget(c, a) ==
    /\ billed' = [billed EXCEPT ![a].budget = clerks[c].read.sum]
    /\ written' = [written EXCEPT ![a] = @ \cup clerks[c].read.of]

WriteEntitlement(c) ==
    /\ ClerkAt(c, {"write"})
    /\ SetBudget(c, "main")
    /\ clerks' = [clerks EXCEPT ![c].at = IF clerks[c].order = NoOrder THEN "keys" ELSE "mark",
                                ![c].read = Nothing]
    /\ UNCHANGED <<orders, codes, total, forgotten, firm>>

\* The budget or one of the writes after it failed; for a visit only a log line.
EntitlementFails(c) ==
    /\ ClerkAt(c, {"write"}) \/ (ClerkAt(c, {"mark"}) /\ AccountOf(clerks[c].order) = "main")
    /\ IF clerks[c].order = NoOrder THEN UNCHANGED orders ELSE Synced(clerks[c].order, "pending")
    /\ ClerkRests(c)
    /\ UNCHANGED <<codes, total, proxyAndHistory, firm>>

MarkDone(c) ==
    /\ ClerkAt(c, {"mark"})
    /\ Synced(clerks[c].order, "done")
    /\ ClerkGoes(c, IF clerks[c].order \in Orders THEN "allocate" ELSE "keys")
    /\ UNCHANGED <<codes, total, proxyAndHistory, firm>>

\* ensure_template_keys_after_entitlement: what the paid orders allocate is
\* read, written as the tool account's budget, and once more if it has a key.
ReadAllocations(c) ==
    LET allocated == Paid \cap Orders IN
    /\ ClerkAt(c, {"allocate"})
    /\ clerks' = [clerks EXCEPT ![c].at = "toolWrite",
                                ![c].read = [sum |-> Cardinality(allocated), of |-> allocated]]
    /\ UNCHANGED <<orders, codes, total, proxyAndHistory, firm>>

WriteTool(c) ==
    /\ ClerkAt(c, {"toolWrite", "toolAgain"})
    /\ SetBudget(c, "tool")
    /\ IF ClerkAt(c, {"toolWrite"}) THEN ClerkGoes(c, "keys") ELSE ClerkRests(c)
    /\ UNCHANGED <<orders, codes, total, forgotten, firm>>

ListKeys(c) ==
    /\ ClerkAt(c, {"keys"})
    /\ IF ~billed[AccountOf(clerks[c].order)].key THEN ClerkGoes(c, "create")
       ELSE IF clerks[c].order \in Orders THEN ClerkGoes(c, "toolAgain") ELSE ClerkRests(c)
    /\ UNCHANGED <<orders, codes, total, proxyAndHistory, firm>>

CreateKey(c) ==
    /\ ClerkAt(c, {"create"})
    /\ billed' = [billed EXCEPT ![AccountOf(clerks[c].order)].key = TRUE]
    /\ ClerkRests(c)
    /\ UNCHANGED <<orders, codes, total, written, forgotten, firm>>

Provisioning == {"keys", "create", "allocate", "toolWrite", "toolAgain"}

KeysFail(c) ==
    /\ ClerkAt(c, Provisioning)
    /\ IF clerks[c].order = NoOrder THEN UNCHANGED orders ELSE Synced(clerks[c].order, "pending")
    /\ ClerkRests(c)
    /\ UNCHANGED <<codes, total, proxyAndHistory, firm>>

\* The process stops under a request.
ClerkDies(c) ==
    /\ ~ClerkAt(c, {"idle"})
    /\ forgotten' = IF ClerkAt(c, Provisioning) THEN forgotten \cup ({clerks[c].order} \cap Orders) ELSE forgotten
    /\ ClerkRests(c)
    /\ UNCHANGED <<orders, codes, total, billed, written, firm>>

-----------------------------------------------------------------------------
(* Enterprise orders: settled in the billing store, granted in the ledger. *)

CreateFirmOrder(e) ==
    /\ firm[e].status = "none"
    /\ firm' = [firm EXCEPT ![e].status = "pending"]
    /\ UNCHANGED <<orders, codes, total, proxyAndHistory, clerks>>

FailFirmOrder(e) ==
    /\ firm[e].status = "pending"
    /\ firm' = [firm EXCEPT ![e].status = "failed"]
    /\ UNCHANGED <<orders, codes, total, proxyAndHistory, clerks>>

\* Completing an order reads it first, whatever its status.
CompleteFirmOrder(c, e) ==
    /\ firm[e].status # "none"
    /\ ClerkStarts(c, "settleFirm", e, firm[e].status)
    /\ UNCHANGED <<orders, codes, total, proxyAndHistory, firm>>

SettleFirmOrder(c) ==
    LET e == clerks[c].order IN
    /\ ClerkAt(c, {"settleFirm"})
    /\ firm' = IF firm[e].status = "pending" THEN [firm EXCEPT ![e].status = "success"] ELSE firm
    /\ IF firm[e].status = "pending" \/ clerks[c].seen = "success"
       THEN ClerkGoes(c, "grant") ELSE ClerkRests(c)
    /\ UNCHANGED <<orders, codes, total, proxyAndHistory>>

\* The ledger takes the grant under the order's idempotency key.
GrantFirmOrder(c) ==
    LET e == clerks[c].order IN
    /\ ClerkAt(c, {"grant"})
    /\ firm' = IF firm[e].grants = 0 THEN [firm EXCEPT ![e].grants = 1] ELSE firm
    /\ ClerkRests(c)
    /\ UNCHANGED <<orders, codes, total, proxyAndHistory>>

-----------------------------------------------------------------------------
PersonalNext ==
    \/ \E o \in Orders : CreateOrder(o) \/ RejectOrder(o)
    \/ \E c \in Clerks, o \in Orders : ConfirmOrder(c, o) \/ NotifyPaid(c, o)
    \/ \E c \in Clerks, k \in Codes : Redeem(c, k)
    \/ \E k \in Codes : DisableRedemption(k)
    \/ \E c \in Clerks, o \in Trades : RetryPendingSync(c, o)
    \/ \E c \in Clerks :
          \/ SettleOrder(c) \/ NotOpenedYet(c) \/ ReadEntitlement(c) \/ VisitBilling(c)
          \/ WriteEntitlement(c) \/ EntitlementFails(c) \/ MarkDone(c) \/ ReadAllocations(c)
          \/ WriteTool(c) \/ ListKeys(c) \/ CreateKey(c) \/ KeysFail(c)

FirmNext ==
    \/ \E e \in FirmOrders : CreateFirmOrder(e) \/ FailFirmOrder(e)
    \/ \E c \in Clerks, e \in FirmOrders : CompleteFirmOrder(c, e)
    \/ \E c \in Clerks : SettleFirmOrder(c) \/ GrantFirmOrder(c)

OrdersNext == PersonalNext \/ FirmNext \/ \E c \in Clerks : ClerkDies(c)

OrdersSpec == OrdersInit /\ [][OrdersNext]_orderVars

-----------------------------------------------------------------------------
\* The shape of the state.
OrdersTypeOK ==
    /\ orders \in [Trades -> [status : {"none", "pending", "success", "failed"}, sync : {"none", "pending", "done"}]]
    /\ codes \in [Codes -> {"enabled", "used", "disabled"}]
    /\ total \in Nat /\ forgotten \subseteq Trades
    /\ billed \in [Accounts -> [budget : Nat, key : BOOLEAN]]
    /\ written \in [Accounts -> SUBSET Trades]
    /\ firm \in [FirmOrders -> [status : {"none", "pending", "success", "failed"}, grants : Nat]]

\* Callbacks, confirmations and redemptions that repeat or overlap credit the
\* account once for each paid order (settle_order, redeem).
CreditedOnce ==
    /\ total = Cardinality(Paid)
    /\ \A k \in Codes : (k \in Paid) <=> (codes[k] = "used")

\* No account at the proxy is told to allow more than was paid towards it, however
\* the reads and writes of the totals overlap: to the tool account what was allocated
\* to it, to the main account everything.  Each is bounded for itself: an allocated
\* order counts in both, so the two together may allow it twice.
EachBudgetIsPaidFor ==
    /\ billed["main"].budget <= total
    /\ billed["tool"].budget <= Cardinality(Paid \cap Orders)

\* An order is marked as synchronised only once its money was part of a budget
\* written to its account; an allocated one may be ahead of that write while
\* its request still runs, and stays ahead if that request dies.
DoneIsWritten ==
    \A o \in Paid : orders[o].sync = "done" =>
        \/ o \in written[AccountOf(o)]
        \/ /\ o \in Orders
           /\ o \in forgotten \/ \E c \in Clerks : ClerkAt(c, Provisioning) /\ clerks[c].order = o

\* An enterprise order grants credit at most once, and only when settled,
\* although its two halves commit in different databases.
GrantedOnce ==
    \A e \in FirmOrders : firm[e].grants <= 1 /\ (firm[e].grants = 1 => firm[e].status = "success")

\* Money is credited once, raises no budget beyond what was paid towards it, and is
\* not reported as delivered before it was, whichever requests overlap or die.
OrdersAreSound == CreditedOnce /\ EachBudgetIsPaidFor /\ DoneIsWritten /\ GrantedOnce
=============================================================================

------------------------------ MODULE SafeDeal ------------------------------
(***************************************************************************)
(* Safe deals over classified ads: apps/billing (deal_services.py,         *)
(* tasks.py, the webhook of views.py) and the deal views of                *)
(* apps/classifieds/views.py, for one buyer, one seller and one ad.        *)
(*                                                                         *)
(* No deal handler locks its row and no view is wrapped in a transaction:  *)
(* each save, each ledger entry and each call of the payment provider is a *)
(* step of its own, taken on a deal object loaded by an earlier step.      *)
(* release_deal_funds and mark_buyer_confirmed are transactions and one    *)
(* step each.  Any process may die between two steps.                      *)
(*                                                                         *)
(* The provider (YooKassa) is external: a payment is created once per      *)
(* idempotency key, is paid or canceled outside, and its event is sent     *)
(* again and again until it is answered.  The amount, the same everywhere  *)
(* in a deal, is counted as one.                                           *)
(*                                                                         *)
(* A definition under the comment "Mutant" is no part of the system: it is *)
(* a defect a property has to notice in place of a definition after it.    *)
(***************************************************************************)
EXTENDS Integers, FiniteSets

CONSTANTS Deals,      \* primary keys a ClassifiedsDeal row may get
          Procs,      \* web and Celery workers
          NoDeal,     \* a request that is not yet about a deal
          MaxCrashes  \* bound on the workers that die

ASSUME ConstantsAssumption == NoDeal \notin Deals /\ MaxCrashes \in Nat

VARIABLES status,   \* ClassifiedsDeal.status; "none" before the row exists
          paidAt,   \* deals with a paid_at
          payId,    \* deals with a provider_payment_id
          stale,    \* deals created DEAL_PAYMENT_TIMEOUT_MINUTES ago
          auto,     \* auto_confirm_at: "null", "set" or passed ("due")
          events,   \* ProviderWebhookEvent rows
          ledger,   \* WalletLedgerEntry rows of the seller's wallet
          payment,  \* the provider: status of the payment of the deal
          refund,   \* the provider: status of the refund of the deal
          req,      \* the request each process is in the middle of
          crashes

dealVars == <<status, paidAt, payId, auto>>
providerVars == <<payment, refund>>
vars == <<dealVars, stale, events, ledger, providerVars, req, crashes>>

-----------------------------------------------------------------------------
\* CREATED and FUNDS_HELD are never saved: a deal is created in
\* PAYMENT_PENDING and its payment sets WAITING_SHIPMENT.
Status == {"none", "payment_pending", "waiting_shipment", "shipped",
           "buyer_confirmed", "released", "canceled", "refund_pending", "refunded"}

\* ad_safe_buy_start goes on with a deal that is not in a closing status.
Closed == {"none", "canceled", "refunded", "released"}

\* Statuses the handlers ask for.
Unpaid == {"payment_pending"}
\* Mutant: whatever is not closed may be canceled.
CancelableUntilClosed == Status \ {"none", "canceled", "refunded", "refund_pending"}
CancelableStatuses == {"payment_pending", "waiting_shipment"}
ShippableStatuses == {"waiting_shipment"}
\* Mutant: receipt of an unpaid deal may be confirmed.
ReceivableUnpaid == {"payment_pending", "waiting_shipment", "shipped"}
\* Mutant: so may that of a deal being refunded.
ReceivableThoughRefunded == {"waiting_shipment", "shipped", "refund_pending"}
ReceivableStatuses == {"waiting_shipment", "shipped"}

\* A ledger row: the unique index over wallet, kind, direction and external id
\* makes the ledger a set and get_or_create idempotent.
Entry == [deal : Deals, kind : {"hold", "release"}, dir : {"credit", "debit"},
          ext : {"payment", "deal", "refund"}]

HoldCredit(d) == [deal |-> d, kind |-> "hold", dir |-> "credit", ext |-> "payment"]
\* Mutant: the refund is entered under another kind.
RefundDebitOfRefund(d) == [deal |-> d, kind |-> "refund", dir |-> "debit", ext |-> "refund"]
RefundDebit(d) == [deal |-> d, kind |-> "hold", dir |-> "debit", ext |-> "refund"]
ReleaseDebit(d, ext) == [deal |-> d, kind |-> "hold", dir |-> "debit", ext |-> ext]
ReleaseCredit(d, ext) == [deal |-> d, kind |-> "release", dir |-> "credit", ext |-> ext]

Ops == {"idle", "buy_create", "buy_pay", "buy_save",
        "paid_save", "paid_hold", "declined_save",
        "cancel_save", "refund_call", "refund_save", "refund_ledger", "refund_done",
        "ship_save", "confirm_save", "release"}

\* The step a request is at and what it remembers of the deal it loaded.
Request == [op : Ops, deal : Deals \cup {NoDeal}, seen : Status, paid : BOOLEAN,
            ext : {"payment", "deal"}, answer : {"none", "pending", "succeeded"}]

Idle == [op |-> "idle", deal |-> NoDeal, seen |-> "none", paid |-> FALSE,
         ext |-> "deal", answer |-> "none"]

\* A request that has loaded deal d.
Loaded(op, d) == [Idle EXCEPT !.op = op, !.deal = d, !.seen = status[d]]

Begin(p, r) == req[p] = Idle /\ req' = [req EXCEPT ![p] = r]
At(p, op) == req[p].op = op
Goto(p, op) == req' = [req EXCEPT ![p].op = op]
End(p) == req' = [req EXCEPT ![p] = Idle]

Init ==
    /\ status = [d \in Deals |-> "none"]
    /\ paidAt = {}
    /\ payId = {}
    /\ stale = {}
    /\ auto = [d \in Deals |-> "null"]
    /\ events = {}
    /\ ledger = {}
    /\ payment = [d \in Deals |-> "none"]
    /\ refund = [d \in Deals |-> "none"]
    /\ req = [p \in Procs |-> Idle]
    /\ crashes = 0

-----------------------------------------------------------------------------
\* ad_safe_buy_start.

\* Bound: a request that will create a deal finds a primary key to give it.
KeyLeft ==
    Cardinality({q \in Procs : At(q, "buy_create")})
        < Cardinality({d \in Deals : status[d] = "none"})

\* The deal that is not closed is taken up (the newest, in no order here when
\* two requests have created one each), or none is found.
BuyRead(p) ==
    /\ \/ \E d \in Deals : status[d] \notin Closed /\ Begin(p, Loaded("buy_pay", d))
       \/ /\ \A d \in Deals : status[d] \in Closed
          /\ KeyLeft
          /\ Begin(p, [Idle EXCEPT !.op = "buy_create"])
    /\ UNCHANGED <<dealVars, stale, events, ledger, providerVars, crashes>>

BuyCreate(p) ==
    /\ At(p, "buy_create")
    /\ \E d \in Deals :
          /\ status[d] = "none"
          /\ status' = [status EXCEPT ![d] = "payment_pending"]
          /\ req' = [req EXCEPT ![p] = [Loaded("buy_pay", d) EXCEPT !.seen = "payment_pending"]]
    /\ UNCHANGED <<paidAt, payId, auto, stale, events, ledger, providerVars, crashes>>

\* create_payment under the idempotency key of the deal: the first call creates
\* the payment, a later one gets the same payment back, and any call may fail.
BuyPay(p) ==
    LET d == req[p].deal
    IN  /\ At(p, "buy_pay")
        /\ \/ /\ payment' = [payment EXCEPT ![d] = IF @ = "none" THEN "pending" ELSE @]
              /\ Goto(p, "buy_save")
           \/ /\ End(p)
              /\ UNCHANGED payment
        /\ UNCHANGED <<dealVars, stale, events, ledger, refund, crashes>>

\* Only provider_payload and provider_payment_id are saved.
BuySave(p) ==
    /\ At(p, "buy_save")
    /\ payId' = payId \cup {req[p].deal}
    /\ End(p)
    /\ UNCHANGED <<status, paidAt, auto, stale, events, ledger, providerVars, crashes>>

-----------------------------------------------------------------------------
\* yookassa_webhook.

\* The event row is inserted, or found and the request ends; then the deal is
\* loaded.  The insert commits at once.
WebhookReceive(p, d) ==
    /\ payment[d] \in {"succeeded", "canceled"}
    /\ d \notin events
    /\ events' = events \cup {d}
    /\ Begin(p, [Loaded(IF payment[d] = "succeeded" THEN "paid_save" ELSE "declined_save", d)
                   EXCEPT !.paid = (d \in paidAt)])
    /\ UNCHANGED <<dealVars, stale, ledger, providerVars, crashes>>

\* payment.succeeded: the status that was loaded is written back even when it
\* is not one that waits for payment.
PaidSave(p) ==
    LET d == req[p].deal
        opens == req[p].seen \in Unpaid
    IN  /\ At(p, "paid_save")
        /\ status' = [status EXCEPT ![d] = IF opens THEN "waiting_shipment" ELSE req[p].seen]
        /\ paidAt' = IF opens \/ req[p].paid THEN paidAt \cup {d} ELSE paidAt \ {d}
        /\ payId' = payId \cup {d}
        /\ Goto(p, "paid_hold")
        /\ UNCHANGED <<auto, stale, events, ledger, providerVars, crashes>>

\* The hold is entered whatever the status of the deal.
PaidHold(p) ==
    /\ At(p, "paid_hold")
    /\ ledger' = ledger \cup {HoldCredit(req[p].deal)}
    /\ End(p)
    /\ UNCHANGED <<dealVars, stale, events, providerVars, crashes>>

\* payment.canceled.
DeclinedSave(p) ==
    LET d == req[p].deal
    IN  /\ At(p, "declined_save")
        /\ status' = [status EXCEPT ![d] = IF req[p].seen \in Unpaid THEN "canceled" ELSE @]
        /\ End(p)
        /\ UNCHANGED <<paidAt, payId, auto, stale, events, ledger, providerVars, crashes>>

-----------------------------------------------------------------------------
\* classifieds_deal_cancel by the buyer.

CancelRead(p, d) ==
    /\ status[d] \in CancelableStatuses
    /\ \/ /\ status[d] \in Unpaid /\ d \notin paidAt
          /\ Begin(p, Loaded("cancel_save", d))
       \/ /\ ~(status[d] \in Unpaid /\ d \notin paidAt)
          /\ d \in payId
          /\ Begin(p, Loaded("refund_call", d))
    /\ UNCHANGED <<dealVars, stale, events, ledger, providerVars, crashes>>

CancelSave(p) ==
    /\ At(p, "cancel_save")
    /\ status' = [status EXCEPT ![req[p].deal] = "canceled"]
    /\ End(p)
    /\ UNCHANGED <<paidAt, payId, auto, stale, events, ledger, providerVars, crashes>>

\* create_refund under the idempotency key of the deal; any call may fail.
RefundCall(p) ==
    LET d == req[p].deal
    IN  /\ At(p, "refund_call")
        /\ \/ /\ payment[d] = "succeeded"
              /\ \E answer \in {"pending", "succeeded"} :
                    /\ refund[d] = "succeeded" => answer = "succeeded"
                    /\ refund' = [refund EXCEPT ![d] = answer]
                    /\ req' = [req EXCEPT ![p].op = "refund_save", ![p].answer = answer]
           \/ /\ End(p)
              /\ UNCHANGED refund
        /\ UNCHANGED <<dealVars, stale, events, ledger, payment, crashes>>

RefundSave(p) ==
    /\ At(p, "refund_save")
    /\ status' = [status EXCEPT ![req[p].deal] = "refund_pending"]
    /\ Goto(p, "refund_ledger")
    /\ UNCHANGED <<paidAt, payId, auto, stale, events, ledger, providerVars, crashes>>

RefundLedger(p) ==
    /\ At(p, "refund_ledger")
    /\ ledger' = ledger \cup {RefundDebit(req[p].deal)}
    /\ IF req[p].answer = "succeeded" THEN Goto(p, "refund_done") ELSE End(p)
    /\ UNCHANGED <<dealVars, stale, events, providerVars, crashes>>

RefundDone(p) ==
    /\ At(p, "refund_done")
    /\ status' = [status EXCEPT ![req[p].deal] = "refunded"]
    /\ End(p)
    /\ UNCHANGED <<paidAt, payId, auto, stale, events, ledger, providerVars, crashes>>

-----------------------------------------------------------------------------
\* classifieds_deal_mark_shipped by the seller.

ShipRead(p, d) ==
    /\ status[d] \in ShippableStatuses
    /\ Begin(p, Loaded("ship_save", d))
    /\ UNCHANGED <<dealVars, stale, events, ledger, providerVars, crashes>>

ShipSave(p) ==
    LET d == req[p].deal
    IN  /\ At(p, "ship_save")
        /\ status' = [status EXCEPT ![d] = "shipped"]
        /\ auto' = [auto EXCEPT ![d] = "set"]
        /\ End(p)
        /\ UNCHANGED <<paidAt, payId, stale, events, ledger, providerVars, crashes>>

-----------------------------------------------------------------------------
\* Receipt: classifieds_deal_confirm_received by the buyer, or the task
\* auto_confirm_and_release_deals.

\* provider_payment_id of the deal as loaded, or deal-<pk> when it is empty.
\* Mutant: the key depends on the way the deal took.
ReleaseExtByPath(d) == IF status[d] = "shipped" THEN "deal" ELSE "payment"
ReleaseExt(d) == IF d \in payId THEN "payment" ELSE "deal"

ConfirmReceivedRead(p, d) ==
    /\ status[d] \in ReceivableStatuses
    /\ Begin(p, [Loaded("confirm_save", d) EXCEPT !.ext = ReleaseExt(d)])
    /\ UNCHANGED <<dealVars, stale, events, ledger, providerVars, crashes>>

\* Mutant: the task asks for the wrong status.
AutoConfirmableUnshipped == {d \in Deals : status[d] = "waiting_shipment" /\ auto[d] = "due"}
AutoConfirmable == {d \in Deals : status[d] = "shipped" /\ auto[d] = "due"}

AutoConfirmRead(p, d) ==
    /\ d \in AutoConfirmable
    /\ Begin(p, [Loaded("confirm_save", d) EXCEPT !.ext = ReleaseExt(d)])
    /\ UNCHANGED <<dealVars, stale, events, ledger, providerVars, crashes>>

\* mark_buyer_confirmed, a transaction.
ConfirmSave(p) ==
    /\ At(p, "confirm_save")
    /\ status' = [status EXCEPT ![req[p].deal] = "buyer_confirmed"]
    /\ Goto(p, "release")
    /\ UNCHANGED <<paidAt, payId, auto, stale, events, ledger, providerVars, crashes>>

\* release_deal_funds, another transaction.
\* Mutant: the seller is not credited.
ReleaseEntriesOfHold(d, ext) == {ReleaseDebit(d, ext)}
ReleaseEntries(d, ext) == {ReleaseDebit(d, ext), ReleaseCredit(d, ext)}

ReleaseDealFunds(p) ==
    LET d == req[p].deal
    IN  /\ At(p, "release")
        /\ ledger' = ledger \cup ReleaseEntries(d, req[p].ext)
        /\ status' = [status EXCEPT ![d] = "released"]
        /\ End(p)
        /\ UNCHANGED <<paidAt, payId, auto, stale, events, providerVars, crashes>>

-----------------------------------------------------------------------------
\* cancel_stale_classifieds_deals, one UPDATE: needs a worker free.
\* Mutant: the task cancels the paid deals.
StaleDealsPaid == {d \in Deals : status[d] \in Unpaid /\ d \in stale /\ d \in paidAt}
StaleDeals == {d \in Deals : status[d] \in Unpaid /\ d \in stale /\ d \notin paidAt}

CancelStaleDeals ==
    /\ StaleDeals # {}
    /\ \E p \in Procs : req[p] = Idle
    /\ status' = [d \in Deals |-> IF d \in StaleDeals THEN "canceled" ELSE status[d]]
    /\ UNCHANGED <<paidAt, payId, auto, stale, events, ledger, providerVars, req, crashes>>

-----------------------------------------------------------------------------
\* The environment.

\* The buyer pays at the provider, or the provider gives the payment up: both
\* may happen after the deal was canceled here.
PaymentEnds(d) ==
    /\ payment[d] = "pending"
    /\ \E outcome \in {"succeeded", "canceled"} :
          payment' = [payment EXCEPT ![d] = outcome]
    /\ UNCHANGED <<dealVars, stale, events, ledger, refund, req, crashes>>

PaymentTimesOut(d) ==
    /\ status[d] # "none" /\ d \notin stale
    /\ stale' = stale \cup {d}
    /\ UNCHANGED <<dealVars, events, ledger, providerVars, req, crashes>>

ReceiptTimesOut(d) ==
    /\ auto[d] = "set"
    /\ auto' = [auto EXCEPT ![d] = "due"]
    /\ UNCHANGED <<status, paidAt, payId, stale, events, ledger, providerVars, req, crashes>>

\* A worker dies, or the database or a network call raises.
Crash(p) ==
    /\ req[p] # Idle
    /\ crashes < MaxCrashes
    /\ crashes' = crashes + 1
    /\ End(p)
    /\ UNCHANGED <<dealVars, stale, events, ledger, providerVars>>

Start(p) ==
    \/ BuyRead(p)
    \/ \E d \in Deals :
          \/ WebhookReceive(p, d)
          \/ CancelRead(p, d)
          \/ ShipRead(p, d)
          \/ ConfirmReceivedRead(p, d)
          \/ AutoConfirmRead(p, d)

Continue(p) ==
    \/ BuyCreate(p) \/ BuyPay(p) \/ BuySave(p)
    \/ PaidSave(p) \/ PaidHold(p) \/ DeclinedSave(p)
    \/ CancelSave(p)
    \/ RefundCall(p) \/ RefundSave(p) \/ RefundLedger(p) \/ RefundDone(p)
    \/ ShipSave(p)
    \/ ConfirmSave(p) \/ ReleaseDealFunds(p)

Environment ==
    \E d \in Deals : PaymentEnds(d) \/ PaymentTimesOut(d) \/ ReceiptTimesOut(d)

Next ==
    \/ \E p \in Procs : Start(p) \/ Continue(p) \/ Crash(p)
    \/ CancelStaleDeals
    \/ Environment

Spec == Init /\ [][Next]_vars

\* Time passes; a request goes on unless its worker dies; beat queues the two
\* tasks every five minutes and the provider repeats an event until it is
\* answered, so that one of their attempts finds a worker free.
Fairness ==
    /\ \A d \in Deals : WF_vars(PaymentTimesOut(d)) /\ WF_vars(ReceiptTimesOut(d))
    /\ \A p \in Procs : WF_vars(Continue(p))
    /\ SF_vars(CancelStaleDeals)
    /\ \A d \in Deals : /\ SF_vars(\E p \in Procs : AutoConfirmRead(p, d))
                        /\ SF_vars(\E p \in Procs : WebhookReceive(p, d))

FairSpec == Spec /\ Fairness

-----------------------------------------------------------------------------
\* Properties.

Released(d) == \E ext \in {"payment", "deal"} : ReleaseCredit(d, ext) \in ledger

\* Every variable keeps to the values of its column, and only a deal with a row
\* has anything else.
TypeOK ==
    /\ status \in [Deals -> Status]
    /\ paidAt \subseteq Deals
    /\ payId \subseteq Deals
    /\ stale \subseteq Deals
    /\ auto \in [Deals -> {"null", "set", "due"}]
    /\ events \subseteq Deals
    /\ ledger \subseteq Entry
    /\ payment \in [Deals -> {"none", "pending", "succeeded", "canceled"}]
    /\ refund \in [Deals -> {"none", "pending", "succeeded"}]
    /\ req \in [Procs -> Request]
    /\ crashes \in 0..MaxCrashes

\* The seller gets money only for a deal the provider has taken money for,
\* however stale the deal objects are that the handlers write back.
ReleaseBackedByPayment ==
    \A d \in Deals : Released(d) => payment[d] = "succeeded"

\* A deal is paid out once: a confirmation, a stale "shipped" written over it
\* and the auto-confirmation after that must meet in one ledger entry.
ReleasedOnce ==
    \A d \in Deals :
        ~(ReleaseCredit(d, "payment") \in ledger /\ ReleaseCredit(d, "deal") \in ledger)

\* A deal shown as finished has been paid out.
ReleasedMeansPaidOut == \A d \in Deals : status[d] = "released" => Released(d)

\* With requests one at a time and no crash, the money of a deal goes one way.
moneyOf ==
    [d \in Deals |->
        IF refund[d] # "none" /\ Released(d) THEN "both"
        ELSE IF refund[d] # "none" THEN "returned"
        ELSE IF Released(d) THEN "seller"
        ELSE IF payment[d] = "succeeded" THEN "platform"
        ELSE "buyer"]
Promise == INSTANCE Escrow WITH money <- moneyOf
KeepsEscrow == Promise!Spec

\* With requests one at a time and no crash, what is taken from the hold of a
\* deal, by a release or a refund, was put there first, and is taken once.
HoldBalanced ==
    \A d \in Deals :
        LET debits == {e \in ledger : e.deal = d /\ e.kind = "hold" /\ e.dir = "debit"}
        IN  /\ Cardinality(debits) <= 1
            /\ debits # {} => HoldCredit(d) \in ledger

\* With requests one at a time and no crash, a shipped deal is paid out: by the
\* buyer's confirmation or by the auto-confirmation task.
ShippedIsPaidOut ==
    \A d \in Deals : (status[d] = "shipped") ~> Released(d)

\* A deal does not wait for a payment for ever: it is paid, or canceled by the
\* buyer, by the provider's event or by the task.
PaymentIsDecided ==
    \A d \in Deals : (status[d] = "payment_pending") ~> (status[d] # "payment_pending")

\* The docstring of classifieds_deal_cancel: the buyer cancels before shipment,
\* so no refund is started for a deal that is shipped or past it.
RefundOnlyBeforeShipment ==
    [][\A d \in Deals :
         refund[d] = "none" /\ refund'[d] # "none"
            => status[d] \notin {"shipped", "buyer_confirmed", "released"}]_vars

\* The docstring of ProviderWebhookEvent: an event is handled exactly once, so
\* the event of a payment, once recorded, puts the money on hold.
RecordedEventIsHandled ==
    \A d \in Deals :
        (d \in events /\ payment[d] = "succeeded") ~> (HoldCredit(d) \in ledger)

-----------------------------------------------------------------------------
(***************************************************************************)
(* What the ERP tells of safe deals (deals_report, deals_users_report and  *)
(* deals_cities_report of apps/erp/views.py, and their workbooks): totals  *)
(* by the status of a deal and its paid_at, sums of the ledger, and lists  *)
(* of deals that are stuck.  A sum is the set of what is added up; a user, *)
(* a city and a period choose among the deals.                             *)
(***************************************************************************)
\* Mutant: a list that forgets the refunds still on their way.
PaidLikeDone == {"waiting_shipment", "shipped", "buyer_confirmed", "released", "refunded"}
PaidLike == {"waiting_shipment", "shipped", "buyer_confirmed", "released",
             "refund_pending", "refunded"}

\* The sums over deals: of the report, for what the filters leave, and of each row
\* of the tops.
GmvPaid(deals) == {d \in deals : d \in paidAt /\ status[d] \in PaidLike}
Refunds(deals) == {d \in deals : status[d] = "refunded"}
CanceledBeforePay(deals) == {d \in deals : status[d] = "canceled" /\ d \notin paidAt}
Canceled(deals) == {d \in deals : status[d] = "canceled"}

\* deals_report: the deals of a status, or all of them; and its workbook.
Made == {d \in Deals : status[d] # "none"}
DealRows(s) == {d \in Made : s \in {"any", status[d]}}
DealSheet(s) == {d \in Made : s \in {"any", status[d]}}

\* A row of deals_users_report, of one seller or buyer, and of deals_cities_report.
UserRow(deals) == [deals |-> deals, gmv |-> GmvPaid(deals), refunds |-> Refunds(deals),
                   canceled |-> Canceled(deals)]
CityRow(deals) == [deals |-> deals, gmv |-> GmvPaid(deals), refunds |-> Refunds(deals),
                   canceled |-> Canceled(deals)]

\* The ledger by kind: holds adds up both directions.
LedgerSum(kind) == {e \in ledger : e.kind = kind}

\* The three lists of stuck deals.
StuckPayment == {d \in stale : status[d] \in Unpaid /\ d \notin paidAt}
StuckWaiting == {d \in paidAt : status[d] = "waiting_shipment"}
StuckOverdue == AutoConfirmable

-----------------------------------------------------------------------------
\* With requests one at a time and no crash, what the reports take from the deals
\* and what they take from the ledger are of the same deals: a release is of a deal
\* in the paid turnover, a refund is part of it, and a hold is of a deal in it or of
\* one that was canceled before its payment came; in a row of the tops what counts as
\* canceled is not in the turnover.
TotalsFollowLedger ==
    /\ \A e \in LedgerSum("release") : e.deal \in GmvPaid(Made)
    /\ \A e \in LedgerSum("hold") : e.deal \in GmvPaid(Made) \cup CanceledBeforePay(Made)
    /\ Refunds(Made) \subseteq GmvPaid(Made)
    /\ \A s \in Status : DealRows(s) = DealSheet(s)
    /\ \A deals \in SUBSET Made : LET row == UserRow(deals) IN
          /\ row = CityRow(deals)
          /\ row.gmv \cap CanceledBeforePay(row.deals) = {}
          /\ GmvPaid(row.canceled) = {}

\* Refuted by TLC (see README): no money comes for a deal that is counted as
\* canceled before payment.
CanceledBeforePayTookNothing == \A d \in CanceledBeforePay(Made) : HoldCredit(d) \notin ledger

\* Nor is a deal listed as stuck, between two requests, whose money has gone on, to
\* the seller or back.
StuckIsUnsettled ==
    (\A p \in Procs : req[p] = Idle) =>
    \A d \in StuckPayment \cup StuckWaiting \cup StuckOverdue :
        moneyOf[d] \in {"buyer", "platform"}

\* With requests one at a time and no crash, the hold of a deal is balanced, and the
\* reports account for what the ledger has.
DealsAreAccounted == HoldBalanced /\ TotalsFollowLedger /\ StuckIsUnsettled
=============================================================================

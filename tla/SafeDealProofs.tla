--------------------------- MODULE SafeDealProofs ---------------------------
(***************************************************************************)
(* Theorems about SafeDeal for every set of deals and processes and any    *)
(* number of crashes: whatever overlaps whatever.                          *)
(***************************************************************************)
EXTENDS SafeDeal, TLAPS, FiniteSetTheorems

\* A step of the system is one of these.
LEMMA DealSteps ==
    ASSUME [Next]_vars
    PROVE  \/ \E p \in Procs : \/ BuyRead(p) \/ BuyCreate(p) \/ BuyPay(p) \/ BuySave(p)
                               \/ PaidSave(p) \/ PaidHold(p) \/ DeclinedSave(p)
                               \/ CancelSave(p) \/ RefundCall(p) \/ RefundSave(p)
                               \/ RefundLedger(p) \/ RefundDone(p) \/ ShipSave(p)
                               \/ ConfirmSave(p) \/ ReleaseDealFunds(p) \/ Crash(p)
           \/ \E p \in Procs, d \in Deals :
                  \/ WebhookReceive(p, d) \/ CancelRead(p, d) \/ ShipRead(p, d)
                  \/ ConfirmReceivedRead(p, d) \/ AutoConfirmRead(p, d)
           \/ CancelStaleDeals
           \/ \E d \in Deals : PaymentEnds(d) \/ PaymentTimesOut(d) \/ ReceiptTimesOut(d)
           \/ UNCHANGED vars
  BY DEF Next, Start, Continue, Environment

\* A request that is about a deal has loaded one.
RequestHasDeal ==
    \A p \in Procs : req[p].op \notin {"idle", "buy_create"} => req[p].deal \in Deals

TypeInv == TypeOK /\ RequestHasDeal

\* A process takes up a well-formed request.
LEMMA RequestTaken ==
    ASSUME TypeInv, NEW p \in Procs, NEW r \in Request,
           r.op \notin {"idle", "buy_create"} => r.deal \in Deals,
           req' = [req EXCEPT ![p] = r]
    PROVE  req' \in [Procs -> Request] /\ RequestHasDeal'
  BY DEF TypeInv, TypeOK, RequestHasDeal

\* A request that is about a deal goes on to another step.
LEMMA RequestGoesOn ==
    ASSUME TypeInv, NEW p \in Procs, NEW op \in Ops, req[p].deal \in Deals, Goto(p, op)
    PROVE  req' \in [Procs -> Request] /\ RequestHasDeal'
<1> DEFINE r == [req[p] EXCEPT !.op = op]
<1>1. req[p] \in Request
  BY DEF TypeInv, TypeOK
<1>2. r \in Request /\ r.deal \in Deals
  BY <1>1 DEF Request
<1>3. req' = [req EXCEPT ![p] = r]
  BY DEF Goto
<1> HIDE DEF r
<1>4. QED
  BY <1>2, <1>3, RequestTaken

\* A request ends.
LEMMA RequestEnds ==
    ASSUME TypeInv, NEW p \in Procs, End(p)
    PROVE  req' \in [Procs -> Request] /\ RequestHasDeal'
<1>1. Idle \in Request /\ Idle.op = "idle"
  BY DEF Idle, Request, Ops, Status
<1>2. QED
  BY <1>1, RequestTaken DEF End

LEMMA TypeInvariant == Spec => []TypeInv
<1>1. Init => TypeInv
  BY ConstantsAssumption DEF Init, TypeInv, TypeOK, RequestHasDeal, Status, Request, Ops, Idle
<1>2. TypeInv /\ [Next]_vars => TypeInv'
  <2> SUFFICES ASSUME TypeInv, [Next]_vars PROVE TypeInv'
    OBVIOUS
  <2> USE ConstantsAssumption DEF TypeInv, TypeOK, RequestHasDeal, dealVars, providerVars
  <2>0. /\ Idle \in Request
        /\ {"payment_pending", "waiting_shipment", "shipped", "buyer_confirmed",
            "released", "canceled", "refund_pending", "refunded"} \subseteq Status
    BY DEF Idle, Request, Ops, Status
  <2>1. \A d \in Deals, op \in Ops : Loaded(op, d) \in Request /\ Loaded(op, d).deal = d
                                     /\ Loaded(op, d).op = op
    BY DEF Loaded, Idle, Request
  <2>3. ASSUME NEW p \in Procs, BuyRead(p) PROVE TypeInv'
    <3>1. [Idle EXCEPT !.op = "buy_create"] \in Request
      BY DEF Idle, Request, Ops, Status
    <3>2. [Idle EXCEPT !.op = "buy_create"].op = "buy_create"
      BY DEF Idle
    <3>3. PICK r \in Request : /\ req' = [req EXCEPT ![p] = r]
                               /\ r.op # "buy_create" => r.deal \in Deals
      <4>1. CASE \E d \in Deals : Begin(p, Loaded("buy_pay", d))
        <5>1. "buy_pay" \in Ops
          BY DEF Ops
        <5>2. PICK d \in Deals : req' = [req EXCEPT ![p] = Loaded("buy_pay", d)]
          BY <4>1 DEF Begin
        <5>3. Loaded("buy_pay", d) \in Request /\ Loaded("buy_pay", d).deal = d
          BY <2>1, <5>1
        <5>4. QED
          BY <5>2, <5>3
      <4>2. CASE Begin(p, [Idle EXCEPT !.op = "buy_create"])
        BY <3>1, <3>2, <4>2 DEF Begin
      <4>3. QED
        BY <2>3, <4>1, <4>2 DEF BuyRead
    <3>4. QED
      BY <2>3, <3>3, RequestTaken DEF BuyRead
  <2>4. ASSUME NEW p \in Procs, BuyCreate(p) PROVE TypeInv'
    <3>1. PICK d \in Deals :
            /\ status' = [status EXCEPT ![d] = "payment_pending"]
            /\ req' = [req EXCEPT ![p] = [Loaded("buy_pay", d) EXCEPT !.seen = "payment_pending"]]
      BY <2>4 DEF BuyCreate
    <3>2. [Loaded("buy_pay", d) EXCEPT !.seen = "payment_pending"] \in Request
      BY <2>0, <2>1 DEF Ops, Request
    <3>3. [Loaded("buy_pay", d) EXCEPT !.seen = "payment_pending"].deal = d
      BY <2>0, <2>1 DEF Ops, Request
    <3>4. QED
      BY <2>0, <2>4, <3>1, <3>2, <3>3 DEF BuyCreate
  <2>5. ASSUME NEW p \in Procs, BuyPay(p) PROVE TypeInv'
    <3>1. req' \in [Procs -> Request] /\ RequestHasDeal'
      BY <2>5, RequestGoesOn, RequestEnds DEF BuyPay, At, Ops
    <3>2. QED
      BY <2>5, <3>1 DEF BuyPay
  <2>6. ASSUME NEW p \in Procs, BuySave(p) PROVE TypeInv'
    BY <2>0, <2>6 DEF BuySave, At, End, Idle
  <2>7. ASSUME NEW p \in Procs, PaidSave(p) PROVE TypeInv'
    <3>1. req' \in [Procs -> Request] /\ RequestHasDeal'
      BY <2>7, RequestGoesOn DEF PaidSave, At, Ops
    <3>2. req[p].deal \in Deals /\ req[p].seen \in Status
      BY <2>7 DEF PaidSave, At, Request
    <3>3. QED
      BY <2>0, <2>7, <3>1, <3>2 DEF PaidSave
  <2>8. ASSUME NEW p \in Procs, PaidHold(p) PROVE TypeInv'
    BY <2>0, <2>8 DEF PaidHold, At, End, Idle, HoldCredit, Entry
  <2>9. ASSUME NEW p \in Procs, DeclinedSave(p) PROVE TypeInv'
    BY <2>0, <2>9 DEF DeclinedSave, At, End, Idle
  <2>10. ASSUME NEW p \in Procs, CancelSave(p) PROVE TypeInv'
    BY <2>0, <2>10 DEF CancelSave, At, End, Idle
  <2>11. ASSUME NEW p \in Procs, RefundCall(p) PROVE TypeInv'
    <3>1. req' \in [Procs -> Request] /\ RequestHasDeal'
      <4>1. CASE End(p)
        BY <4>1, RequestEnds
      <4>2. ASSUME NEW answer \in {"pending", "succeeded"},
                   req' = [req EXCEPT ![p].op = "refund_save", ![p].answer = answer]
            PROVE  req' \in [Procs -> Request] /\ RequestHasDeal'
        <5> DEFINE r == [req[p] EXCEPT !.op = "refund_save", !.answer = answer]
        <5>1. r \in Request /\ r.deal \in Deals
          BY <2>11, ZenonT(40) DEF RefundCall, At, Request, Ops
        <5>2. req' = [req EXCEPT ![p] = r]
          BY <4>2
        <5> HIDE DEF r
        <5>3. QED
          BY <5>1, <5>2, RequestTaken
      <4>3. QED
        BY <2>11, <4>1, <4>2 DEF RefundCall
    <3>2. QED
      BY <2>11, <3>1 DEF RefundCall
  <2>12. ASSUME NEW p \in Procs, RefundSave(p) PROVE TypeInv'
    <3>1. req' \in [Procs -> Request] /\ RequestHasDeal'
      BY <2>12, RequestGoesOn DEF RefundSave, At, Ops
    <3>2. req[p].deal \in Deals /\ req[p].seen \in Status
      BY <2>12 DEF RefundSave, At, Request
    <3>3. QED
      BY <2>0, <2>12, <3>1, <3>2 DEF RefundSave
  <2>13. ASSUME NEW p \in Procs, RefundLedger(p) PROVE TypeInv'
    <3>1. req' \in [Procs -> Request] /\ RequestHasDeal'
      BY <2>13, RequestGoesOn, RequestEnds DEF RefundLedger, At, Ops
    <3>2. RefundDebit(req[p].deal) \in Entry
      BY <2>13 DEF RefundLedger, At, RefundDebit, Entry
    <3>3. QED
      BY <2>13, <3>1, <3>2 DEF RefundLedger
  <2>14. ASSUME NEW p \in Procs, RefundDone(p) PROVE TypeInv'
    BY <2>0, <2>14 DEF RefundDone, At, End, Idle
  <2>15. ASSUME NEW p \in Procs, ShipSave(p) PROVE TypeInv'
    BY <2>0, <2>15 DEF ShipSave, At, End, Idle
  <2>16. ASSUME NEW p \in Procs, ConfirmSave(p) PROVE TypeInv'
    <3>1. req' \in [Procs -> Request] /\ RequestHasDeal'
      BY <2>16, RequestGoesOn DEF ConfirmSave, At, Ops
    <3>2. req[p].deal \in Deals /\ req[p].seen \in Status
      BY <2>16 DEF ConfirmSave, At, Request
    <3>3. QED
      BY <2>0, <2>16, <3>1, <3>2 DEF ConfirmSave
  <2>17. ASSUME NEW p \in Procs, ReleaseDealFunds(p) PROVE TypeInv'
    BY <2>0, <2>17 DEF ReleaseDealFunds, At, End, Idle, Request, ReleaseEntries,
         ReleaseDebit, ReleaseCredit, Entry
  <2>18. ASSUME NEW p \in Procs, Crash(p) PROVE TypeInv'
    BY <2>0, <2>18 DEF Crash, End, Idle
  <2>19. ASSUME NEW p \in Procs, NEW d \in Deals,
                \/ WebhookReceive(p, d) \/ CancelRead(p, d) \/ ShipRead(p, d)
                \/ ConfirmReceivedRead(p, d) \/ AutoConfirmRead(p, d)
         PROVE  TypeInv'
    <3>1. PICK r \in Request : /\ req' = [req EXCEPT ![p] = r]
                               /\ r.deal = d
      <4>1. ASSUME NEW op \in Ops PROVE /\ Loaded(op, d) \in Request
                                        /\ Loaded(op, d).deal = d
        BY <2>1
      <4>2. ASSUME NEW op \in Ops, NEW ext \in {"payment", "deal"}
            PROVE  /\ [Loaded(op, d) EXCEPT !.ext = ext] \in Request
                   /\ [Loaded(op, d) EXCEPT !.ext = ext].deal = d
        BY <4>1 DEF Request
      <4>3. ASSUME NEW op \in Ops, NEW paid \in BOOLEAN
            PROVE  /\ [Loaded(op, d) EXCEPT !.paid = paid] \in Request
                   /\ [Loaded(op, d) EXCEPT !.paid = paid].deal = d
        BY <4>1 DEF Request
      <4>4. {"paid_save", "declined_save", "cancel_save", "refund_call", "ship_save",
             "confirm_save"} \subseteq Ops
        BY DEF Ops
      <4>5. CASE WebhookReceive(p, d)
        <5> DEFINE op == IF payment[d] = "succeeded" THEN "paid_save" ELSE "declined_save"
                   paid == d \in paidAt
        <5>0. op \in Ops
          BY <4>4
        <5>1. paid \in BOOLEAN
          BY SMT
        <5>2. req' = [req EXCEPT ![p] = [Loaded(op, d) EXCEPT !.paid = paid]]
          BY <4>5, Zenon DEF WebhookReceive, Begin
        <5> HIDE DEF op, paid
        <5>3. QED
          BY <4>3, <5>0, <5>1, <5>2
      <4>6. CASE CancelRead(p, d) \/ ShipRead(p, d)
        BY <4>1, <4>4, <4>6 DEF CancelRead, ShipRead, Begin
      <4>7. CASE ConfirmReceivedRead(p, d) \/ AutoConfirmRead(p, d)
        BY <4>2, <4>4, <4>7 DEF ConfirmReceivedRead, AutoConfirmRead, Begin, ReleaseExt
      <4>8. QED
        BY <2>19, <4>5, <4>6, <4>7
    <3>2. events' \subseteq Deals
      BY <2>19 DEF WebhookReceive, CancelRead, ShipRead, ConfirmReceivedRead, AutoConfirmRead
    <3>3. UNCHANGED <<dealVars, stale, ledger, providerVars, crashes>>
      BY <2>19 DEF WebhookReceive, CancelRead, ShipRead, ConfirmReceivedRead, AutoConfirmRead
    <3>4. QED
      BY <3>1, <3>2, <3>3
  <2>20. CASE CancelStaleDeals
    BY <2>0, <2>20 DEF CancelStaleDeals
  <2>21. ASSUME NEW d \in Deals, PaymentEnds(d) \/ PaymentTimesOut(d) \/ ReceiptTimesOut(d)
         PROVE  TypeInv'
    BY <2>21 DEF PaymentEnds, PaymentTimesOut, ReceiptTimesOut
  <2>22. CASE UNCHANGED vars
    BY <2>22 DEF vars
  <2>23. QED
    BY <2>3, <2>4, <2>5, <2>6, <2>7, <2>8, <2>9, <2>10, <2>11, <2>12, <2>13, <2>14,
       <2>15, <2>16, <2>17, <2>18, <2>19, <2>20, <2>21, <2>22, DealSteps
<1>3. QED
  BY <1>1, <1>2, PTL DEF Spec

\* Every state of the system keeps to the types of its columns.
THEOREM TypeCorrect == Spec => []TypeOK
  BY TypeInvariant, PTL DEF TypeInv

-----------------------------------------------------------------------------
\* Statuses that come after the payment.
PaidStatuses == {"waiting_shipment", "shipped", "buyer_confirmed", "released",
                 "refund_pending", "refunded"}

\* The provider has the money and the deal knows the payment.
Funded(d) == payment[d] = "succeeded" /\ d \in payId

PaidOut(d) == ReleaseCredit(d, "payment") \in ledger

\* The rows of a deal: a status after the payment and a release are backed by
\* it, and the release was entered under the key of the payment.
DealBacked(d) ==
    /\ status[d] \in PaidStatuses => Funded(d)
    /\ status[d] = "released" => PaidOut(d)
    /\ PaidOut(d) => payment[d] = "succeeded"
    /\ ReleaseCredit(d, "deal") \notin ledger

\* What a request will write back is backed already.
RequestBacked(p) ==
    LET d == req[p].deal
    IN  /\ req[p].op \in {"refund_save", "refund_ledger", "refund_done",
                          "ship_save", "confirm_save", "release"} => Funded(d)
        /\ req[p].op = "refund_call" => d \in payId
        /\ req[p].op \in {"confirm_save", "release"} => req[p].ext = "payment"
        /\ req[p].op = "paid_save" => /\ payment[d] = "succeeded"
                                      /\ req[p].seen = "released" => PaidOut(d)

MoneyInv ==
    /\ TypeInv
    /\ \A d \in Deals : DealBacked(d)
    /\ \A p \in Procs : RequestBacked(p)

\* A payment that succeeded, the deal's knowledge of it and the ledger stay.
LEMMA MoneyStays ==
    ASSUME TypeInv, [Next]_vars
    PROVE  /\ ledger \subseteq ledger'
           /\ \A d \in Deals : /\ d \in payId => d \in payId'
                               /\ payment[d] = "succeeded" => payment'[d] = "succeeded"
<1> USE DEF TypeInv, TypeOK, dealVars, providerVars
<1>1. ASSUME NEW p \in Procs,
             \/ BuyRead(p) \/ BuyCreate(p) \/ BuySave(p)
             \/ PaidSave(p) \/ PaidHold(p) \/ DeclinedSave(p)
             \/ CancelSave(p) \/ RefundCall(p) \/ RefundSave(p)
             \/ RefundLedger(p) \/ RefundDone(p) \/ ShipSave(p)
             \/ ConfirmSave(p) \/ ReleaseDealFunds(p) \/ Crash(p)
      PROVE  ledger \subseteq ledger' /\ UNCHANGED payment
             /\ \A d \in Deals : d \in payId => d \in payId'
  BY <1>1 DEF BuyRead, BuyCreate, BuySave, PaidSave, PaidHold, DeclinedSave, CancelSave,
       RefundCall, RefundSave, RefundLedger, RefundDone, ShipSave, ConfirmSave,
       ReleaseDealFunds, Crash
<1>2. ASSUME NEW p \in Procs, NEW d \in Deals,
             \/ WebhookReceive(p, d) \/ CancelRead(p, d) \/ ShipRead(p, d)
             \/ ConfirmReceivedRead(p, d) \/ AutoConfirmRead(p, d)
      PROVE  UNCHANGED <<ledger, payment, payId>>
  BY <1>2 DEF WebhookReceive, CancelRead, ShipRead, ConfirmReceivedRead, AutoConfirmRead
<1>3. ASSUME NEW p \in Procs, BuyPay(p)
      PROVE  /\ UNCHANGED <<ledger, payId>>
             /\ \A d \in Deals : payment[d] = "succeeded" => payment'[d] = "succeeded"
  BY <1>3 DEF BuyPay
<1>4. ASSUME NEW d \in Deals, PaymentEnds(d)
      PROVE  /\ UNCHANGED <<ledger, payId>>
             /\ \A e \in Deals : payment[e] = "succeeded" => payment'[e] = "succeeded"
  BY <1>4 DEF PaymentEnds
<1>5. ASSUME CancelStaleDeals \/ (\E d \in Deals : PaymentTimesOut(d) \/ ReceiptTimesOut(d))
             \/ UNCHANGED vars
      PROVE  UNCHANGED <<ledger, payment, payId>>
  BY <1>5 DEF CancelStaleDeals, PaymentTimesOut, ReceiptTimesOut, vars
<1>6. QED
  BY <1>1, <1>2, <1>3, <1>4, <1>5, DealSteps

\* A request that stays as it was stays backed, and so does a deal whose status
\* is kept, or set to one that needs no payment, while nothing is released.
LEMMA BackedStays ==
    ASSUME MoneyInv, [Next]_vars
    PROVE  /\ \A q \in Procs : req'[q] = req[q] => RequestBacked(q)'
           /\ \A d \in Deals :
                 /\ status'[d] = status[d] \/ status'[d] \notin PaidStatuses
                 /\ PaidOut(d)' => PaidOut(d)
                 /\ ReleaseCredit(d, "deal") \in ledger' => ReleaseCredit(d, "deal") \in ledger
                 => DealBacked(d)'
<1>0. /\ TypeInv
      /\ ledger \subseteq ledger'
      /\ \A d \in Deals : /\ d \in payId => d \in payId'
                          /\ payment[d] = "succeeded" => payment'[d] = "succeeded"
  BY MoneyStays DEF MoneyInv
<1>1. ASSUME NEW q \in Procs, req'[q] = req[q] PROVE RequestBacked(q)'
  <2>1. req[q].op \notin {"idle", "buy_create"} => req[q].deal \in Deals
    BY <1>0 DEF TypeInv, RequestHasDeal
  <2>2. RequestBacked(q)
    BY DEF MoneyInv
  <2> DEFINE d == req[q].deal
  <2>3. CASE req[q].op \in {"idle", "buy_create"}
    BY <1>1, <2>3 DEF RequestBacked
  <2>4. CASE d \in Deals
    <3>1. /\ Funded(d) => payment'[d] = "succeeded" /\ d \in payId'
          /\ d \in payId => d \in payId'
          /\ payment[d] = "succeeded" => payment'[d] = "succeeded"
          /\ PaidOut(d) => ReleaseCredit(d, "payment") \in ledger'
      BY <1>0, <2>4 DEF Funded, PaidOut
    <3> HIDE DEF d
    <3>2. req'[q].deal = d
      BY <1>1 DEF d
    <3>3. QED
      BY <1>1, <2>2, <3>1, <3>2 DEF RequestBacked, Funded, PaidOut, ReleaseCredit, d
  <2>5. QED
    BY <2>1, <2>3, <2>4
<1>2. ASSUME NEW d \in Deals,
             status'[d] = status[d] \/ status'[d] \notin PaidStatuses,
             PaidOut(d)' => PaidOut(d),
             ReleaseCredit(d, "deal") \in ledger' => ReleaseCredit(d, "deal") \in ledger
      PROVE  DealBacked(d)'
  <2>1. DealBacked(d)
    BY DEF MoneyInv
  <2>2. PaidOut(d) => PaidOut(d)'
    BY <1>0 DEF PaidOut, ReleaseCredit
  <2>3. (ReleaseCredit(d, "deal") \in ledger)' <=> ReleaseCredit(d, "deal") \in ledger'
    BY DEF ReleaseCredit
  <2>4. Funded(d) => Funded(d)'
    BY <1>0 DEF Funded
  <2>5. status'[d] = "released" => status[d] = "released"
    BY <1>2 DEF PaidStatuses
  <2>6. QED
    BY <1>0, <1>2, <2>1, <2>2, <2>3, <2>4, <2>5 DEF DealBacked
<1>3. QED
  BY <1>1, <1>2

\* The invariant is inductive: per action, the request of the acting process and
\* the deal it writes; BackedStays covers the others.
LEMMA MoneyInvariant == Spec => []MoneyInv
<1>1. Init => MoneyInv
  <2> SUFFICES ASSUME Init PROVE MoneyInv
    OBVIOUS
  <2>1. TypeInv
    BY ConstantsAssumption DEF Init, TypeInv, TypeOK, RequestHasDeal, Status, Request, Ops, Idle
  <2>2. QED
    BY <2>1 DEF Init, MoneyInv, DealBacked, RequestBacked, PaidStatuses, PaidOut, Idle
<1>2. TypeInv /\ TypeInv' /\ MoneyInv /\ [Next]_vars => MoneyInv'
  <2> SUFFICES ASSUME TypeInv, TypeInv', MoneyInv, [Next]_vars PROVE MoneyInv'
    OBVIOUS
  <2>0. /\ ledger \subseteq ledger'
        /\ \A d \in Deals : d \in payId => d \in payId'
        /\ \A d \in Deals : payment[d] = "succeeded" => payment'[d] = "succeeded"
    BY MoneyStays
  \* Every process but p keeps its request, and only deal c gets a status.
  <2>1. ASSUME NEW p \in Procs, RequestBacked(p)',
               \A q \in Procs \ {p} : req'[q] = req[q],
               NEW c \in Deals, DealBacked(c)',
               \A d \in Deals \ {c} :
                   /\ status'[d] = status[d] \/ status'[d] \notin PaidStatuses
                   /\ PaidOut(d)' => PaidOut(d)
                   /\ ReleaseCredit(d, "deal") \in ledger' => ReleaseCredit(d, "deal") \in ledger
        PROVE  MoneyInv'
    BY <2>1, BackedStays DEF MoneyInv
  \* Every process but p keeps its request, and no deal gets a paid status.
  <2>2. ASSUME NEW p \in Procs, RequestBacked(p)',
               \A q \in Procs \ {p} : req'[q] = req[q],
               \A d \in Deals : status'[d] = status[d] \/ status'[d] \notin PaidStatuses,
               UNCHANGED ledger
        PROVE  MoneyInv'
    BY <2>2, BackedStays DEF MoneyInv, PaidOut, ReleaseCredit
  <2>3. ASSUME NEW p \in Procs,
               \/ BuyRead(p) \/ BuyCreate(p) \/ BuyPay(p) \/ BuySave(p)
               \/ DeclinedSave(p) \/ CancelSave(p) \/ Crash(p)
        PROVE  MoneyInv'
    <3>1. RequestBacked(p)'
      <4>1. req'[p].op \in {"idle", "buy_create", "buy_pay", "buy_save"}
        <5>1. CASE BuyRead(p)
          BY <5>1, ZenonT(40) DEF BuyRead, Begin, Loaded, Idle, TypeInv, TypeOK
        <5>2. CASE BuyCreate(p)
          BY <5>2 DEF BuyCreate, Loaded, Idle, TypeInv, TypeOK
        <5>3. CASE BuyPay(p)
          BY <5>3 DEF BuyPay, Goto, End, Idle, TypeInv, TypeOK, Request
        <5>4. CASE BuySave(p) \/ DeclinedSave(p) \/ CancelSave(p) \/ Crash(p)
          BY <5>4 DEF BuySave, DeclinedSave, CancelSave, Crash, End, Idle, TypeInv, TypeOK
        <5>5. QED
          BY <2>3, <5>1, <5>2, <5>3, <5>4
      <4>2. QED
        BY <4>1 DEF RequestBacked
    <3>2. \A q \in Procs \ {p} : req'[q] = req[q]
      BY <2>3 DEF BuyRead, BuyCreate, BuyPay, BuySave, DeclinedSave, CancelSave, Crash,
           Begin, Goto, End, TypeInv, TypeOK
    <3>3. UNCHANGED ledger
      BY <2>3 DEF BuyRead, BuyCreate, BuyPay, BuySave, DeclinedSave, CancelSave, Crash
    <3>4. \A d \in Deals : status'[d] = status[d] \/ status'[d] \notin PaidStatuses
      BY <2>3 DEF BuyRead, BuyCreate, BuyPay, BuySave, DeclinedSave, CancelSave, Crash,
           dealVars, PaidStatuses, TypeInv, TypeOK
    <3>5. QED
      BY <2>2, <3>1, <3>2, <3>3, <3>4
  <2>4. ASSUME NEW p \in Procs, PaidSave(p) PROVE MoneyInv'
    <3> DEFINE s == IF req[p].seen \in Unpaid THEN "waiting_shipment" ELSE req[p].seen
    <3>0. PICK c \in Deals : c = req[p].deal
      BY <2>4 DEF PaidSave, At, TypeInv, RequestHasDeal
    <3>1. /\ payment[c] = "succeeded"
          /\ req[p].seen = "released" => PaidOut(c)
      BY <2>4, <3>0 DEF PaidSave, At, MoneyInv, RequestBacked
    <3>2. status' = [status EXCEPT ![c] = s] /\ c \in payId' /\ UNCHANGED <<ledger, payment>>
      BY <2>4, <3>0 DEF PaidSave, providerVars
    <3>3. s = "released" => req[p].seen = "released"
      BY DEF Unpaid
    <3>4. req'[p].op = "paid_hold" /\ \A q \in Procs \ {p} : req'[q] = req[q]
      BY <2>4 DEF PaidSave, Goto, TypeInv, TypeOK, Request
    <3>5. RequestBacked(p)'
      BY <3>4 DEF RequestBacked
    <3>6. status'[c] = s /\ \A d \in Deals \ {c} : status'[d] = status[d]
      BY <3>1, <3>2 DEF TypeInv, TypeOK
    <3> HIDE DEF s
    <3>7. DealBacked(c)'
      BY <3>1, <3>2, <3>3, <3>6 DEF DealBacked, Funded, PaidOut, ReleaseCredit, MoneyInv
    <3>8. QED
      BY <2>1, <3>1, <3>2, <3>4, <3>5, <3>6, <3>7 DEF PaidOut, ReleaseCredit
  <2>5. ASSUME NEW p \in Procs, PaidHold(p) \/ RefundLedger(p) PROVE MoneyInv'
    <3>1. PICK c \in Deals : c = req[p].deal
      BY <2>5 DEF PaidHold, RefundLedger, At, TypeInv, RequestHasDeal
    <3>2. UNCHANGED <<status, payment>>
      BY <2>5 DEF PaidHold, RefundLedger, dealVars, providerVars
    <3>3. \A d \in Deals, ext \in {"payment", "deal"} :
            ReleaseCredit(d, ext) \in ledger' => ReleaseCredit(d, ext) \in ledger
      BY <2>5 DEF PaidHold, RefundLedger, HoldCredit, RefundDebit, ReleaseCredit
    <3>4. RequestBacked(p)'
      <4>1. CASE req'[p] = Idle
        BY <4>1 DEF RequestBacked, Idle
      <4>2. CASE RefundLedger(p) /\ Goto(p, "refund_done")
        <5>1. req'[p].op = "refund_done" /\ req'[p].deal = c
          BY <3>1, <4>2 DEF Goto, TypeInv, TypeOK, Request
        <5>2. Funded(c)
          BY <3>1, <4>2 DEF RefundLedger, At, MoneyInv, RequestBacked
        <5>3. QED
          BY <2>0, <5>1, <5>2 DEF RequestBacked, Funded
      <4>3. QED
        BY <2>5, <4>1, <4>2 DEF PaidHold, RefundLedger, End, TypeInv, TypeOK
    <3>5. \A q \in Procs \ {p} : req'[q] = req[q]
      BY <2>5 DEF PaidHold, RefundLedger, Goto, End, TypeInv, TypeOK
    <3>6. \A d \in Deals : DealBacked(d)'
      BY <3>2, <3>3, BackedStays DEF PaidOut, ReleaseCredit
    <3>7. QED
      BY <2>1, <3>1, <3>2, <3>3, <3>4, <3>5, <3>6 DEF PaidOut, ReleaseCredit
  <2>6. ASSUME NEW p \in Procs, RefundCall(p) PROVE MoneyInv'
    <3>1. PICK c \in Deals : c = req[p].deal
      BY <2>6 DEF RefundCall, At, TypeInv, RequestHasDeal
    <3>2. UNCHANGED <<status, ledger, payId, payment>>
      BY <2>6 DEF RefundCall, dealVars
    <3>3. RequestBacked(p)'
      <4>1. CASE End(p)
        BY <4>1 DEF End, RequestBacked, Idle, TypeInv, TypeOK
      <4>2. ASSUME payment[req[p].deal] = "succeeded",
                   NEW answer \in {"pending", "succeeded"},
                   req' = [req EXCEPT ![p].op = "refund_save", ![p].answer = answer]
            PROVE  RequestBacked(p)'
        <5>1. req'[p].op = "refund_save" /\ req'[p].deal = c
          BY <3>1, <4>2 DEF TypeInv, TypeOK, Request
        <5>2. Funded(c)
          BY <2>6, <3>1, <4>2 DEF RefundCall, At, MoneyInv, RequestBacked, Funded
        <5>3. QED
          BY <3>2, <5>1, <5>2 DEF RequestBacked, Funded
      <4>3. QED
        BY <2>6, <4>1, <4>2 DEF RefundCall
    <3>4. \A q \in Procs \ {p} : req'[q] = req[q]
      BY <2>6 DEF RefundCall, End, TypeInv, TypeOK
    <3>5. QED
      BY <2>2, <3>2, <3>3, <3>4
  <2>7. ASSUME NEW p \in Procs,
               RefundSave(p) \/ RefundDone(p) \/ ShipSave(p) \/ ConfirmSave(p)
        PROVE  MoneyInv'
    <3>1. PICK c \in Deals : c = req[p].deal
      BY <2>7 DEF RefundSave, RefundDone, ShipSave, ConfirmSave, At, TypeInv, RequestHasDeal
    <3>2. /\ Funded(c)
          /\ req[p].op = "confirm_save" => req[p].ext = "payment"
      BY <2>7, <3>1 DEF RefundSave, RefundDone, ShipSave, ConfirmSave, At, MoneyInv,
         RequestBacked
    <3>3. UNCHANGED <<ledger, payId, payment>>
      BY <2>7 DEF RefundSave, RefundDone, ShipSave, ConfirmSave, providerVars
    <3>4. /\ status'[c] # "released"
          /\ \A d \in Deals \ {c} : status'[d] = status[d]
      BY <2>7, <3>1 DEF RefundSave, RefundDone, ShipSave, ConfirmSave, TypeInv, TypeOK
    <3>5. DealBacked(c)'
      BY <3>2, <3>3, <3>4 DEF MoneyInv, DealBacked, Funded, PaidOut, ReleaseCredit
    <3>6. /\ \/ req'[p] = Idle
             \/ req'[p].op = "refund_ledger" /\ req'[p].deal = c
             \/ req'[p].op = "release" /\ req'[p].deal = c /\ req'[p].ext = "payment"
          /\ \A q \in Procs \ {p} : req'[q] = req[q]
      BY <2>7, <3>1, <3>2 DEF RefundSave, RefundDone, ShipSave, ConfirmSave, Goto, End, At,
         TypeInv, TypeOK, Request
    <3>7. RequestBacked(p)'
      BY <3>2, <3>3, <3>6 DEF RequestBacked, Funded, Idle
    <3>8. QED
      BY <2>1, <3>3, <3>4, <3>5, <3>6, <3>7 DEF PaidOut, ReleaseCredit
  <2>8. ASSUME NEW p \in Procs, ReleaseDealFunds(p) PROVE MoneyInv'
    <3>1. PICK c \in Deals : c = req[p].deal
      BY <2>8 DEF ReleaseDealFunds, At, TypeInv, RequestHasDeal
    <3>2. Funded(c) /\ req[p].ext = "payment"
      BY <2>8, <3>1 DEF ReleaseDealFunds, At, MoneyInv, RequestBacked
    <3>3. /\ ledger' = ledger \cup {ReleaseDebit(c, "payment"), ReleaseCredit(c, "payment")}
          /\ UNCHANGED <<payId, payment>>
      BY <2>8, <3>1, <3>2 DEF ReleaseDealFunds, ReleaseEntries, providerVars
    <3>4. \A d \in Deals \ {c} : status'[d] = status[d]
      BY <2>8, <3>1 DEF ReleaseDealFunds, TypeInv, TypeOK
    <3>5. /\ ReleaseCredit(c, "payment") \in ledger'
          /\ \A d \in Deals, ext \in {"payment", "deal"} :
                ReleaseCredit(d, ext) \in ledger'
                  => ReleaseCredit(d, ext) \in ledger \/ (d = c /\ ext = "payment")
      BY <3>3 DEF ReleaseDebit, ReleaseCredit
    <3>6. DealBacked(c)'
      BY <3>2, <3>3, <3>5 DEF MoneyInv, DealBacked, Funded, PaidOut, ReleaseCredit
    <3>7. req'[p] = Idle /\ \A q \in Procs \ {p} : req'[q] = req[q]
      BY <2>8 DEF ReleaseDealFunds, End, TypeInv, TypeOK
    <3>8. RequestBacked(p)'
      BY <3>7 DEF RequestBacked, Idle
    <3>9. QED
      BY <2>1, <3>4, <3>5, <3>6, <3>7, <3>8 DEF PaidOut, ReleaseCredit
  <2>9. ASSUME NEW p \in Procs, NEW d \in Deals,
               \/ WebhookReceive(p, d) \/ CancelRead(p, d) \/ ShipRead(p, d)
               \/ ConfirmReceivedRead(p, d) \/ AutoConfirmRead(p, d)
        PROVE  MoneyInv'
    <3>1. UNCHANGED <<status, ledger, payId, payment>>
      BY <2>9 DEF WebhookReceive, CancelRead, ShipRead, ConfirmReceivedRead,
         AutoConfirmRead, dealVars, providerVars
    <3>2. \A q \in Procs \ {p} : req'[q] = req[q]
      BY <2>9 DEF WebhookReceive, CancelRead, ShipRead, ConfirmReceivedRead,
         AutoConfirmRead, Begin, TypeInv, TypeOK
    <3>3. DealBacked(d)
      BY DEF MoneyInv
    <3>4. RequestBacked(p)'
      <4>1. CASE WebhookReceive(p, d)
        <5>1. /\ req'[p].deal = d /\ req'[p].seen = status[d]
              /\ req'[p].op \in {"paid_save", "declined_save"}
              /\ req'[p].op = "paid_save" => payment[d] = "succeeded"
          BY <4>1 DEF WebhookReceive, Begin, Loaded, Idle, TypeInv, TypeOK
        <5>2. QED
          BY <3>1, <3>3, <5>1 DEF RequestBacked, DealBacked, PaidOut
      <4>2. CASE CancelRead(p, d)
        <5>1. /\ req'[p].deal = d
              /\ \/ req'[p].op = "cancel_save"
                 \/ req'[p].op = "refund_call" /\ d \in payId
          BY <4>2, ZenonT(40) DEF CancelRead, Begin, Loaded, Idle, TypeInv, TypeOK
        <5>2. QED
          BY <3>1, <5>1 DEF RequestBacked
      <4>3. CASE ShipRead(p, d)
        <5>1. req'[p].deal = d /\ req'[p].op = "ship_save" /\ status[d] = "waiting_shipment"
          BY <4>3 DEF ShipRead, ShippableStatuses, Begin, Loaded, Idle, TypeInv, TypeOK
        <5>2. QED
          BY <3>1, <3>3, <5>1 DEF RequestBacked, DealBacked, PaidStatuses, Funded
      <4>4. CASE ConfirmReceivedRead(p, d) \/ AutoConfirmRead(p, d)
        <5>1. /\ req'[p].deal = d /\ req'[p].op = "confirm_save"
              /\ req'[p].ext = ReleaseExt(d)
              /\ status[d] \in {"waiting_shipment", "shipped"}
          BY <4>4, ZenonT(40) DEF ConfirmReceivedRead, AutoConfirmRead, AutoConfirmable,
             ReceivableStatuses, Begin, Loaded, Idle, TypeInv, TypeOK
        <5>2. QED
          BY <3>1, <3>3, <5>1 DEF RequestBacked, DealBacked, PaidStatuses, Funded, ReleaseExt
      <4>5. QED
        BY <2>9, <4>1, <4>2, <4>3, <4>4
    <3>5. QED
      BY <2>2, <3>1, <3>2, <3>4
  <2>10. ASSUME CancelStaleDeals
                \/ (\E d \in Deals : PaymentEnds(d) \/ PaymentTimesOut(d) \/ ReceiptTimesOut(d))
                \/ UNCHANGED vars
         PROVE  MoneyInv'
    <3>1. UNCHANGED <<ledger, req>>
      BY <2>10 DEF CancelStaleDeals, PaymentEnds, PaymentTimesOut, ReceiptTimesOut, vars
    <3>2. \A d \in Deals : status'[d] = status[d] \/ status'[d] \notin PaidStatuses
      BY <2>10 DEF CancelStaleDeals, PaymentEnds, PaymentTimesOut, ReceiptTimesOut, vars,
         dealVars, PaidStatuses
    <3>3. QED
      BY <3>1, <3>2, BackedStays DEF MoneyInv, PaidOut, ReleaseCredit
  <2>11. QED
    BY <2>3, <2>4, <2>5, <2>6, <2>7, <2>8, <2>9, <2>10, DealSteps
<1>3. QED
  BY <1>1, <1>2, TypeInvariant, PTL DEF Spec

\* Nobody is paid for a deal the provider has taken no money for.
THEOREM PayoutBacked == Spec => []ReleaseBackedByPayment
<1>1. MoneyInv => ReleaseBackedByPayment
  BY DEF MoneyInv, DealBacked, PaidOut, ReleaseBackedByPayment, Released
<1>2. QED
  BY <1>1, MoneyInvariant, PTL

\* However often a deal is confirmed, one payout is entered.
THEOREM PayoutOnce == Spec => []ReleasedOnce
<1>1. MoneyInv => ReleasedOnce
  BY DEF MoneyInv, DealBacked, ReleasedOnce
<1>2. QED
  BY <1>1, MoneyInvariant, PTL

\* A deal shown as finished has been paid out.
THEOREM FinishedMeansPaidOut == Spec => []ReleasedMeansPaidOut
<1>1. MoneyInv => ReleasedMeansPaidOut
  BY DEF MoneyInv, DealBacked, PaidOut, ReleasedMeansPaidOut, Released
<1>2. QED
  BY <1>1, MoneyInvariant, PTL
-----------------------------------------------------------------------------
(***************************************************************************)
(* With one worker that does not die, a request at a time: what each       *)
(* status of a deal goes with, and how far the request has come that would *)
(* add what is not there yet.                                              *)
(***************************************************************************)

\* The step the worker has come to with deal d.
StepOf(w, d) == IF req[w].deal = d THEN req[w].op ELSE "idle"

EntriesOf(d) == {e \in ledger : e.deal = d}
ReleasePair(d) == {ReleaseDebit(d, "payment"), ReleaseCredit(d, "payment")}

\* While its payment is awaited a deal has no other row.
NotYetPaid(w, d) ==
    status[d] \in {"none", "payment_pending"} =>
        /\ d \notin paidAt /\ refund[d] = "none" /\ EntriesOf(d) = {}
        /\ status[d] = "none" => /\ payment[d] = "none" /\ d \notin events
                                 /\ StepOf(w, d) = "idle"
        /\ d \in events => StepOf(w, d) \in {"paid_save", "declined_save"}
        /\ StepOf(w, d) \in {"idle", "buy_pay", "buy_save", "paid_save", "declined_save",
                             "cancel_save"}

\* A canceled deal was not paid; a payment that comes for it puts it on hold.
NothingForCanceled(w, d) ==
    status[d] = "canceled" =>
        /\ d \notin paidAt /\ refund[d] = "none"
        /\ EntriesOf(d) \subseteq {HoldCredit(d)}
        /\ StepOf(w, d) \in {"idle", "paid_save", "paid_hold", "declined_save"}

\* A deal that was paid has its event and its paid_at.
PaidInOrder(d) ==
    status[d] \in PaidStatuses => Funded(d) /\ d \in paidAt /\ d \in events

\* Until its money goes on, a paid deal has a hold and no refund: but for the
\* entry, or the answer of the provider, that the worker has still to write.
HeldUntilDecided(w, d) ==
    /\ status[d] = "waiting_shipment" =>
          /\ refund[d] # "none" <=> StepOf(w, d) = "refund_save"
          /\ EntriesOf(d) = IF StepOf(w, d) = "paid_hold" THEN {} ELSE {HoldCredit(d)}
          /\ StepOf(w, d) \in {"idle", "buy_pay", "buy_save", "paid_hold", "refund_call",
                               "refund_save", "ship_save", "confirm_save"}
    /\ status[d] \in {"shipped", "buyer_confirmed"} =>
          /\ refund[d] = "none" /\ EntriesOf(d) = {HoldCredit(d)}
          /\ StepOf(w, d) \in IF status[d] = "shipped"
                              THEN {"idle", "buy_pay", "buy_save", "confirm_save"}
                              ELSE {"release"}

\* The money goes one way.
MoneyHasGone(w, d) ==
    /\ status[d] = "released" =>
          /\ refund[d] = "none" /\ StepOf(w, d) = "idle"
          /\ EntriesOf(d) = {HoldCredit(d)} \cup ReleasePair(d)
    /\ status[d] \in {"refund_pending", "refunded"} =>
          /\ refund[d] # "none"
          /\ EntriesOf(d) = IF StepOf(w, d) = "refund_ledger" THEN {HoldCredit(d)}
                            ELSE {HoldCredit(d), RefundDebit(d)}
          /\ StepOf(w, d) \in IF status[d] = "refund_pending"
                              THEN {"idle", "buy_pay", "buy_save", "refund_ledger", "refund_done"}
                              ELSE {"idle"}

\* What a webhook has loaded is still so.
WebhookIsFresh(w, d) ==
    StepOf(w, d) \in {"paid_save", "declined_save"} =>
        /\ req[w].seen = status[d] /\ ~req[w].paid /\ d \in events
        /\ StepOf(w, d) = "paid_save" => payment[d] = "succeeded"

DealInOrder(w, d) ==
    /\ NotYetPaid(w, d) /\ NothingForCanceled(w, d) /\ PaidInOrder(d)
    /\ HeldUntilDecided(w, d) /\ MoneyHasGone(w, d) /\ WebhookIsFresh(w, d)

\* A deal the worker is not at leaves no step open.
IdleHasNoDeal(w) == req[w].op \in {"idle", "buy_create"} => req[w].deal = NoDeal

SerialInv(w) ==
    /\ MoneyInv
    /\ IdleHasNoDeal(w)
    /\ \A d \in Deals : DealInOrder(w, d)

\* The statuses a step may find.
LEMMA StatusAtStep ==
    ASSUME NEW w \in Procs, SerialInv(w), NEW d \in Deals
    PROVE  LET at == StepOf(w, d) IN
           /\ at \in {"buy_pay", "buy_save"} => status[d] # "none"
           /\ at \in {"paid_save", "declined_save"}
                => status[d] \in {"payment_pending", "canceled"}
           /\ at = "paid_hold" => status[d] \in {"waiting_shipment", "canceled"}
           /\ at = "cancel_save" => status[d] = "payment_pending"
           /\ at \in {"refund_call", "refund_save", "ship_save"}
                => status[d] = "waiting_shipment"
           /\ at \in {"refund_ledger", "refund_done"} => status[d] = "refund_pending"
           /\ at = "confirm_save" => status[d] \in {"waiting_shipment", "shipped"}
           /\ at = "release" => status[d] = "buyer_confirmed"
<1>1. status[d] \in Status
  BY DEF SerialInv, MoneyInv, TypeInv, TypeOK
<1>2. DealInOrder(w, d)
  BY DEF SerialInv
<1>3. QED
  BY <1>1, <1>2 DEF DealInOrder, NotYetPaid, NothingForCanceled, HeldUntilDecided,
     MoneyHasGone, Status

\* The rows of deal d stay.
SameRows(d) ==
    /\ status'[d] = status[d]
    /\ d \in paidAt' <=> d \in paidAt
    /\ d \in payId' <=> d \in payId
    /\ d \in events' <=> d \in events
    /\ payment'[d] = payment[d] /\ refund'[d] = refund[d]
    /\ EntriesOf(d)' = EntriesOf(d)

\* A deal whose rows stay, and with it the step the worker is at, stays in order.
LEMMA StaysInOrder ==
    ASSUME NEW w \in Procs, SerialInv(w), NEW d \in Deals, SameRows(d),
           StepOf(w, d)' = StepOf(w, d),
           StepOf(w, d) \in {"paid_save", "declined_save"} => req'[w] = req[w]
    PROVE  DealInOrder(w, d)'
<1>1. DealInOrder(w, d)
  BY DEF SerialInv
<1>2. /\ NotYetPaid(w, d)' /\ NothingForCanceled(w, d)'
      /\ PaidInOrder(d)' /\ WebhookIsFresh(w, d)'
  BY <1>1 DEF DealInOrder, NotYetPaid, NothingForCanceled, PaidInOrder, WebhookIsFresh,
     SameRows, Funded, HoldCredit
<1>3. HeldUntilDecided(w, d)' /\ MoneyHasGone(w, d)'
  BY <1>1 DEF DealInOrder, HeldUntilDecided, MoneyHasGone, SameRows, HoldCredit,
     RefundDebit, ReleasePair, ReleaseDebit, ReleaseCredit
<1>4. QED
  BY <1>2, <1>3 DEF DealInOrder

\* A step about deal c has only c to put in order.
LEMMA OneDealMoves ==
    ASSUME NEW w \in Procs, SerialInv(w), MoneyInv', NEW c \in Deals, DealInOrder(w, c)',
           \A d \in Deals \ {c} : SameRows(d),
           req[w].deal \in {c, NoDeal}, req'[w].deal \in {c, NoDeal}, IdleHasNoDeal(w)'
    PROVE  SerialInv(w)'
<1>1. ASSUME NEW d \in Deals \ {c} PROVE DealInOrder(w, d)'
  <2>1. StepOf(w, d) = "idle" /\ StepOf(w, d)' = "idle"
    BY <1>1, ConstantsAssumption DEF StepOf
  <2>2. QED
    BY <1>1, <2>1, StaysInOrder
<1>2. QED
  BY <1>1 DEF SerialInv

\* New entries are of one deal.
LEMMA EntriesAdded ==
    ASSUME NEW c \in Deals, NEW X, \A e \in X : e.deal = c, ledger' = ledger \cup X
    PROVE  /\ EntriesOf(c)' = EntriesOf(c) \cup X
           /\ \A d \in Deals \ {c} : EntriesOf(d)' = EntriesOf(d)
  BY DEF EntriesOf

LEMMA SerialInvariant ==
    ASSUME NEW w, Procs = {w}, MaxCrashes = 0
    PROVE  Spec => []SerialInv(w)
<1>0. w \in Procs
  OBVIOUS
<1>1. Init /\ MoneyInv => SerialInv(w)
  BY ConstantsAssumption DEF Init, SerialInv, IdleHasNoDeal, DealInOrder, NotYetPaid,
     NothingForCanceled, PaidInOrder, HeldUntilDecided, MoneyHasGone, WebhookIsFresh,
     PaidStatuses, StepOf, EntriesOf, Idle
<1>2. MoneyInv' /\ SerialInv(w) /\ [Next]_vars => SerialInv(w)'
  <2> SUFFICES ASSUME MoneyInv', SerialInv(w), [Next]_vars PROVE SerialInv(w)'
    OBVIOUS
  <2> USE <1>0
  <2>0. /\ TypeInv /\ MoneyInv /\ IdleHasNoDeal(w)
        /\ \A d \in Deals : DealInOrder(w, d)
        /\ req \in [Procs -> Request] /\ req' \in [Procs -> Request]
        /\ req[w] \in Request
    BY DEF SerialInv, MoneyInv, TypeInv, TypeOK
  <2>1. crashes = 0
    BY DEF SerialInv, MoneyInv, TypeInv, TypeOK
  \* The worker takes a request up, about deal d.
  <2>2. ASSUME NEW d \in Deals, req[w] = Idle, req'[w].deal = d,
               req'[w].op \notin {"idle", "buy_create"},
               UNCHANGED <<status, paidAt, payId, payment, refund, ledger>>,
               events \subseteq events', events' \subseteq events \cup {d},
               DealInOrder(w, d)'
        PROVE  SerialInv(w)'
    <3>1. \A e \in Deals \ {d} : SameRows(e)
      BY <2>2 DEF SameRows, EntriesOf
    <3>2. req[w].deal = NoDeal /\ IdleHasNoDeal(w)'
      BY <2>2 DEF Idle, IdleHasNoDeal
    <3>3. QED
      BY <2>2, <3>1, <3>2, OneDealMoves
  \* A request about deal c writes its rows.
  <2>3. ASSUME NEW c \in Deals, req[w].deal = c, req'[w].deal \in {c, NoDeal},
               IdleHasNoDeal(w)', DealInOrder(w, c)',
               \A d \in Deals \ {c} : /\ status'[d] = status[d]
                                      /\ d \in paidAt' <=> d \in paidAt
                                      /\ d \in payId' <=> d \in payId
                                      /\ payment'[d] = payment[d]
                                      /\ refund'[d] = refund[d]
                                      /\ EntriesOf(d)' = EntriesOf(d),
               UNCHANGED events
        PROVE  SerialInv(w)'
    <3>1. \A d \in Deals \ {c} : SameRows(d)
      BY <2>3 DEF SameRows
    <3>2. QED
      BY <2>0, <2>3, <3>1, OneDealMoves
  \* The request about c ends, or goes on to its next step.
  <2>4. ASSUME NEW c \in Deals, req[w].deal = c, End(w)
        PROVE  StepOf(w, c)' = "idle" /\ req'[w].deal \in {c, NoDeal} /\ IdleHasNoDeal(w)'
    BY <2>0, <2>4, ConstantsAssumption DEF End, Idle, StepOf, IdleHasNoDeal
  <2>5. ASSUME NEW c \in Deals, req[w].deal = c, NEW op \in Ops \ {"idle", "buy_create"},
               Goto(w, op)
        PROVE  StepOf(w, c)' = op /\ req'[w].deal \in {c, NoDeal} /\ IdleHasNoDeal(w)'
    <3>1. req'[w] = [req[w] EXCEPT !.op = op]
      BY <2>0, <2>5 DEF Goto
    <3>2. req'[w].op = op /\ req'[w].deal = c
      BY <2>0, <2>5, <3>1 DEF Request
    <3>3. QED
      BY <2>5, <3>2 DEF StepOf, IdleHasNoDeal
  <2>6. ASSUME BuyPay(w) PROVE SerialInv(w)'
    <3>1. PICK c \in Deals : c = req[w].deal
      BY <2>0, <2>6 DEF BuyPay, At, TypeInv, RequestHasDeal
    <3>2. StepOf(w, c) = "buy_pay" /\ status[c] \in Status
      BY <2>0, <2>6, <3>1 DEF BuyPay, At, StepOf, TypeInv, TypeOK
    <3>3. /\ StepOf(w, c)' \in {"idle", "buy_save"}
          /\ req'[w].deal \in {c, NoDeal} /\ IdleHasNoDeal(w)'
      BY <2>4, <2>5, <2>6, <3>1 DEF BuyPay, Ops
    <3>4. /\ payment[c] # "none" => payment'[c] = payment[c]
          /\ \A d \in Deals \ {c} : payment'[d] = payment[d]
          /\ UNCHANGED <<status, paidAt, payId, events, ledger, refund>>
      BY <2>0, <2>6, <3>1, <3>2 DEF BuyPay, TypeInv, TypeOK, dealVars, providerVars
    <3>5. \A d \in Deals : EntriesOf(d)' = EntriesOf(d)
      BY <3>4 DEF EntriesOf
    <3>6. DealInOrder(w, c)'
      BY <2>0, <3>2, <3>3, <3>4, <3>5, StatusAtStep
      DEF DealInOrder, NotYetPaid, NothingForCanceled, PaidInOrder,
         HeldUntilDecided, MoneyHasGone, WebhookIsFresh, PaidStatuses, Funded,
         HoldCredit, RefundDebit, ReleasePair, ReleaseDebit, ReleaseCredit
    <3>7. QED
      BY <2>0, <2>3, <3>1, <3>3, <3>4, <3>5, <3>6 DEF TypeInv, TypeOK
  <2>7. ASSUME BuySave(w) PROVE SerialInv(w)'
    <3>1. PICK c \in Deals : c = req[w].deal
      BY <2>0, <2>7 DEF BuySave, At, TypeInv, RequestHasDeal
    <3>2. StepOf(w, c) = "buy_save" /\ status[c] \in Status
      BY <2>0, <2>7, <3>1 DEF BuySave, At, StepOf, TypeInv, TypeOK
    <3>3. /\ StepOf(w, c)' = "idle"
          /\ req'[w].deal \in {c, NoDeal} /\ IdleHasNoDeal(w)'
      BY <2>4, <2>7, <3>1 DEF BuySave
    <3>4. /\ payId' = payId \cup {c}
          /\ UNCHANGED <<status, paidAt, events, ledger, payment, refund>>
      BY <2>0, <2>7, <3>1, <3>2 DEF BuySave, TypeInv, TypeOK, dealVars, providerVars
    <3>5. \A d \in Deals : EntriesOf(d)' = EntriesOf(d)
      BY <3>4 DEF EntriesOf
    <3>6. DealInOrder(w, c)'
      BY <2>0, <3>2, <3>3, <3>4, <3>5, StatusAtStep
      DEF DealInOrder, NotYetPaid, NothingForCanceled, PaidInOrder,
         HeldUntilDecided, MoneyHasGone, WebhookIsFresh, PaidStatuses, Funded,
         HoldCredit, RefundDebit, ReleasePair, ReleaseDebit, ReleaseCredit
    <3>7. QED
      BY <2>0, <2>3, <3>1, <3>3, <3>4, <3>5, <3>6 DEF TypeInv, TypeOK
  <2>8. ASSUME PaidSave(w) PROVE SerialInv(w)'
    <3>1. PICK c \in Deals : c = req[w].deal
      BY <2>0, <2>8 DEF PaidSave, At, TypeInv, RequestHasDeal
    <3>2. StepOf(w, c) = "paid_save" /\ status[c] \in Status
      BY <2>0, <2>8, <3>1 DEF PaidSave, At, StepOf, TypeInv, TypeOK
    <3>3. /\ StepOf(w, c)' = "paid_hold"
          /\ req'[w].deal \in {c, NoDeal} /\ IdleHasNoDeal(w)'
      BY <2>5, <2>8, <3>1 DEF PaidSave, Ops
    <3>4. req[w].seen = status[c] /\ ~req[w].paid /\ c \in events /\ payment[c] = "succeeded"
      BY <2>0, <3>1, <3>2 DEF DealInOrder, WebhookIsFresh
    <3>5. status[c] \in {"payment_pending", "canceled"} /\ c \notin paidAt
      BY <2>0, <3>2, StatusAtStep DEF DealInOrder, NotYetPaid, NothingForCanceled
    <3>6. /\ status'[c] = IF status[c] = "payment_pending" THEN "waiting_shipment" ELSE status[c]
          /\ c \in paidAt' <=> status[c] = "payment_pending"
          /\ c \in payId' /\ c \in events
          /\ payment[c] = "succeeded"
          /\ \A d \in Deals \ {c} : /\ status'[d] = status[d]
                                    /\ d \in paidAt' <=> d \in paidAt
                                    /\ d \in payId' <=> d \in payId
          /\ UNCHANGED <<events, ledger, payment, refund>>
      <4>1. /\ status' = [status EXCEPT ![c] = IF status[c] = "payment_pending"
                                               THEN "waiting_shipment" ELSE status[c]]
            /\ payId' = payId \cup {c}
            /\ UNCHANGED <<events, ledger, payment, refund>>
        BY <2>8, <3>1, <3>4 DEF PaidSave, providerVars, Unpaid
      <4>2. paidAt' = IF status[c] = "payment_pending" THEN paidAt \cup {c} ELSE paidAt \ {c}
        BY <2>8, <3>1, <3>4, Zenon DEF PaidSave, Unpaid
      <4>3. QED
        BY <2>0, <3>4, <4>1, <4>2 DEF TypeInv, TypeOK
    <3>7. \A d \in Deals : EntriesOf(d)' = EntriesOf(d)
      BY <3>6 DEF EntriesOf
    <3>8. DealInOrder(w, c)'
      BY <2>0, <3>2, <3>3, <3>6, <3>7, StatusAtStep
      DEF DealInOrder, NotYetPaid, NothingForCanceled, PaidInOrder,
         HeldUntilDecided, MoneyHasGone, WebhookIsFresh, PaidStatuses, Funded,
         HoldCredit, RefundDebit, ReleasePair, ReleaseDebit, ReleaseCredit
    <3>9. QED
      BY <2>0, <2>3, <3>1, <3>3, <3>6, <3>7, <3>8 DEF TypeInv, TypeOK
  <2>9. ASSUME PaidHold(w) PROVE SerialInv(w)'
    <3>1. PICK c \in Deals : c = req[w].deal
      BY <2>0, <2>9 DEF PaidHold, At, TypeInv, RequestHasDeal
    <3>2. StepOf(w, c) = "paid_hold" /\ status[c] \in Status
      BY <2>0, <2>9, <3>1 DEF PaidHold, At, StepOf, TypeInv, TypeOK
    <3>3. /\ StepOf(w, c)' = "idle"
          /\ req'[w].deal \in {c, NoDeal} /\ IdleHasNoDeal(w)'
      BY <2>4, <2>9, <3>1 DEF PaidHold
    <3>4. /\ ledger' = ledger \cup {HoldCredit(c)}
          /\ UNCHANGED <<status, paidAt, payId, events, payment, refund>>
      BY <2>0, <2>9, <3>1, <3>2 DEF PaidHold, TypeInv, TypeOK, dealVars, providerVars
    <3>5. /\ EntriesOf(c)' = EntriesOf(c) \cup {HoldCredit(c)}
          /\ \A d \in Deals \ {c} : EntriesOf(d)' = EntriesOf(d)
      <4> DEFINE X == {HoldCredit(c)}
      <4>1. \A e \in X : e.deal = c
        BY DEF HoldCredit, RefundDebit, ReleasePair, ReleaseDebit, ReleaseCredit
      <4>2. ledger' = ledger \cup X
        BY <3>4
      <4> HIDE DEF X
      <4>3. EntriesOf(c)' = EntriesOf(c) \cup X /\ \A d \in Deals \ {c} : EntriesOf(d)' = EntriesOf(d)
        BY <4>1, <4>2, EntriesAdded
      <4>4. QED
        BY <4>3 DEF X
    <3>6. DealInOrder(w, c)'
      BY <2>0, <3>2, <3>3, <3>4, <3>5, StatusAtStep
      DEF DealInOrder, NotYetPaid, NothingForCanceled, PaidInOrder,
         HeldUntilDecided, MoneyHasGone, WebhookIsFresh, PaidStatuses, Funded,
         HoldCredit, RefundDebit, ReleasePair, ReleaseDebit, ReleaseCredit
    <3>7. QED
      BY <2>0, <2>3, <3>1, <3>3, <3>4, <3>5, <3>6 DEF TypeInv, TypeOK
  <2>10. ASSUME DeclinedSave(w) PROVE SerialInv(w)'
    <3>1. PICK c \in Deals : c = req[w].deal
      BY <2>0, <2>10 DEF DeclinedSave, At, TypeInv, RequestHasDeal
    <3>2. StepOf(w, c) = "declined_save" /\ status[c] \in Status
      BY <2>0, <2>10, <3>1 DEF DeclinedSave, At, StepOf, TypeInv, TypeOK
    <3>3. /\ StepOf(w, c)' = "idle"
          /\ req'[w].deal \in {c, NoDeal} /\ IdleHasNoDeal(w)'
      BY <2>4, <2>10, <3>1 DEF DeclinedSave
    <3>4. /\ status'[c] = "canceled"
          /\ \A d \in Deals \ {c} : status'[d] = status[d]
          /\ UNCHANGED <<paidAt, payId, events, ledger, payment, refund>>
      BY <2>0, <2>10, <3>1, <3>2, StatusAtStep DEF DeclinedSave, TypeInv, TypeOK, dealVars, providerVars,
         SerialInv, DealInOrder, WebhookIsFresh, Unpaid
    <3>5. \A d \in Deals : EntriesOf(d)' = EntriesOf(d)
      BY <3>4 DEF EntriesOf
    <3>6. DealInOrder(w, c)'
      BY <2>0, <3>2, <3>3, <3>4, <3>5, StatusAtStep
      DEF DealInOrder, NotYetPaid, NothingForCanceled, PaidInOrder,
         HeldUntilDecided, MoneyHasGone, WebhookIsFresh, PaidStatuses, Funded,
         HoldCredit, RefundDebit, ReleasePair, ReleaseDebit, ReleaseCredit
    <3>7. QED
      BY <2>0, <2>3, <3>1, <3>3, <3>4, <3>5, <3>6 DEF TypeInv, TypeOK
  <2>11. ASSUME CancelSave(w) PROVE SerialInv(w)'
    <3>1. PICK c \in Deals : c = req[w].deal
      BY <2>0, <2>11 DEF CancelSave, At, TypeInv, RequestHasDeal
    <3>2. StepOf(w, c) = "cancel_save" /\ status[c] \in Status
      BY <2>0, <2>11, <3>1 DEF CancelSave, At, StepOf, TypeInv, TypeOK
    <3>3. /\ StepOf(w, c)' = "idle"
          /\ req'[w].deal \in {c, NoDeal} /\ IdleHasNoDeal(w)'
      BY <2>4, <2>11, <3>1 DEF CancelSave
    <3>4. /\ status'[c] = "canceled"
          /\ \A d \in Deals \ {c} : status'[d] = status[d]
          /\ UNCHANGED <<paidAt, payId, events, ledger, payment, refund>>
      BY <2>0, <2>11, <3>1, <3>2 DEF CancelSave, TypeInv, TypeOK, dealVars, providerVars
    <3>5. \A d \in Deals : EntriesOf(d)' = EntriesOf(d)
      BY <3>4 DEF EntriesOf
    <3>6. DealInOrder(w, c)'
      BY <2>0, <3>2, <3>3, <3>4, <3>5, StatusAtStep
      DEF DealInOrder, NotYetPaid, NothingForCanceled, PaidInOrder,
         HeldUntilDecided, MoneyHasGone, WebhookIsFresh, PaidStatuses, Funded,
         HoldCredit, RefundDebit, ReleasePair, ReleaseDebit, ReleaseCredit
    <3>7. QED
      BY <2>0, <2>3, <3>1, <3>3, <3>4, <3>5, <3>6 DEF TypeInv, TypeOK
  <2>12. ASSUME RefundCall(w) PROVE SerialInv(w)'
    <3>1. PICK c \in Deals : c = req[w].deal
      BY <2>0, <2>12 DEF RefundCall, At, TypeInv, RequestHasDeal
    <3>2. StepOf(w, c) = "refund_call" /\ status[c] \in Status
      BY <2>0, <2>12, <3>1 DEF RefundCall, At, StepOf, TypeInv, TypeOK
    <3>3. /\ StepOf(w, c)' = IF refund'[c] = "none" THEN "idle" ELSE "refund_save"
          /\ req'[w].deal \in {c, NoDeal} /\ IdleHasNoDeal(w)'
      <4>1. refund[c] = "none"
        BY <2>0, <3>2, StatusAtStep DEF SerialInv, DealInOrder, HeldUntilDecided
      <4>2. CASE End(w) /\ UNCHANGED refund
        BY <2>4, <3>1, <4>1, <4>2
      <4>3. ASSUME NEW answer \in {"pending", "succeeded"},
                   refund' = [refund EXCEPT ![c] = answer],
                   req' = [req EXCEPT ![w].op = "refund_save", ![w].answer = answer]
            PROVE  /\ StepOf(w, c)' = IF refund'[c] = "none" THEN "idle" ELSE "refund_save"
                   /\ req'[w].deal \in {c, NoDeal} /\ IdleHasNoDeal(w)'
        <5>1. req'[w].op = "refund_save" /\ req'[w].deal = c
          BY <2>0, <3>1, <4>3 DEF Request
        <5>2. refund'[c] = answer
          BY <2>0, <4>3 DEF TypeInv, TypeOK
        <5>3. QED
          BY <5>1, <5>2 DEF StepOf, IdleHasNoDeal
      <4>4. QED
        BY <2>12, <3>1, <4>2, <4>3 DEF RefundCall
    <3>4. /\ \A d \in Deals \ {c} : refund'[d] = refund[d]
          /\ UNCHANGED <<status, paidAt, payId, events, ledger, payment>>
      BY <2>0, <2>12, <3>1, <3>2 DEF RefundCall, TypeInv, TypeOK, dealVars, providerVars
    <3>5. \A d \in Deals : EntriesOf(d)' = EntriesOf(d)
      BY <3>4 DEF EntriesOf
    <3>6. DealInOrder(w, c)'
      BY <2>0, <3>2, <3>3, <3>4, <3>5, StatusAtStep
      DEF DealInOrder, NotYetPaid, NothingForCanceled, PaidInOrder,
         HeldUntilDecided, MoneyHasGone, WebhookIsFresh, PaidStatuses, Funded,
         HoldCredit, RefundDebit, ReleasePair, ReleaseDebit, ReleaseCredit
    <3>7. QED
      BY <2>0, <2>3, <3>1, <3>3, <3>4, <3>5, <3>6 DEF TypeInv, TypeOK
  <2>13. ASSUME RefundSave(w) PROVE SerialInv(w)'
    <3>1. PICK c \in Deals : c = req[w].deal
      BY <2>0, <2>13 DEF RefundSave, At, TypeInv, RequestHasDeal
    <3>2. StepOf(w, c) = "refund_save" /\ status[c] \in Status
      BY <2>0, <2>13, <3>1 DEF RefundSave, At, StepOf, TypeInv, TypeOK
    <3>3. /\ StepOf(w, c)' = "refund_ledger"
          /\ req'[w].deal \in {c, NoDeal} /\ IdleHasNoDeal(w)'
      BY <2>5, <2>13, <3>1 DEF RefundSave, Ops
    <3>4. /\ status'[c] = "refund_pending"
          /\ \A d \in Deals \ {c} : status'[d] = status[d]
          /\ UNCHANGED <<paidAt, payId, events, ledger, payment, refund>>
      BY <2>0, <2>13, <3>1, <3>2 DEF RefundSave, TypeInv, TypeOK, dealVars, providerVars
    <3>5. \A d \in Deals : EntriesOf(d)' = EntriesOf(d)
      BY <3>4 DEF EntriesOf
    <3>6. DealInOrder(w, c)'
      BY <2>0, <3>2, <3>3, <3>4, <3>5, StatusAtStep
      DEF DealInOrder, NotYetPaid, NothingForCanceled, PaidInOrder,
         HeldUntilDecided, MoneyHasGone, WebhookIsFresh, PaidStatuses, Funded,
         HoldCredit, RefundDebit, ReleasePair, ReleaseDebit, ReleaseCredit
    <3>7. QED
      BY <2>0, <2>3, <3>1, <3>3, <3>4, <3>5, <3>6 DEF TypeInv, TypeOK
  <2>14. ASSUME RefundLedger(w) PROVE SerialInv(w)'
    <3>1. PICK c \in Deals : c = req[w].deal
      BY <2>0, <2>14 DEF RefundLedger, At, TypeInv, RequestHasDeal
    <3>2. StepOf(w, c) = "refund_ledger" /\ status[c] \in Status
      BY <2>0, <2>14, <3>1 DEF RefundLedger, At, StepOf, TypeInv, TypeOK
    <3>3. /\ StepOf(w, c)' \in {"idle", "refund_done"}
          /\ req'[w].deal \in {c, NoDeal} /\ IdleHasNoDeal(w)'
      BY <2>4, <2>5, <2>14, <3>1 DEF RefundLedger, Ops
    <3>4. /\ ledger' = ledger \cup {RefundDebit(c)}
          /\ UNCHANGED <<status, paidAt, payId, events, payment, refund>>
      BY <2>0, <2>14, <3>1, <3>2 DEF RefundLedger, TypeInv, TypeOK, dealVars, providerVars
    <3>5. /\ EntriesOf(c)' = EntriesOf(c) \cup {RefundDebit(c)}
          /\ \A d \in Deals \ {c} : EntriesOf(d)' = EntriesOf(d)
      <4> DEFINE X == {RefundDebit(c)}
      <4>1. \A e \in X : e.deal = c
        BY DEF HoldCredit, RefundDebit, ReleasePair, ReleaseDebit, ReleaseCredit
      <4>2. ledger' = ledger \cup X
        BY <3>4
      <4> HIDE DEF X
      <4>3. EntriesOf(c)' = EntriesOf(c) \cup X /\ \A d \in Deals \ {c} : EntriesOf(d)' = EntriesOf(d)
        BY <4>1, <4>2, EntriesAdded
      <4>4. QED
        BY <4>3 DEF X
    <3>6. DealInOrder(w, c)'
      BY <2>0, <3>2, <3>3, <3>4, <3>5, StatusAtStep
      DEF DealInOrder, NotYetPaid, NothingForCanceled, PaidInOrder,
         HeldUntilDecided, MoneyHasGone, WebhookIsFresh, PaidStatuses, Funded,
         HoldCredit, RefundDebit, ReleasePair, ReleaseDebit, ReleaseCredit
    <3>7. QED
      BY <2>0, <2>3, <3>1, <3>3, <3>4, <3>5, <3>6 DEF TypeInv, TypeOK
  <2>15. ASSUME RefundDone(w) PROVE SerialInv(w)'
    <3>1. PICK c \in Deals : c = req[w].deal
      BY <2>0, <2>15 DEF RefundDone, At, TypeInv, RequestHasDeal
    <3>2. StepOf(w, c) = "refund_done" /\ status[c] \in Status
      BY <2>0, <2>15, <3>1 DEF RefundDone, At, StepOf, TypeInv, TypeOK
    <3>3. /\ StepOf(w, c)' = "idle"
          /\ req'[w].deal \in {c, NoDeal} /\ IdleHasNoDeal(w)'
      BY <2>4, <2>15, <3>1 DEF RefundDone
    <3>4. /\ status'[c] = "refunded"
          /\ \A d \in Deals \ {c} : status'[d] = status[d]
          /\ UNCHANGED <<paidAt, payId, events, ledger, payment, refund>>
      BY <2>0, <2>15, <3>1, <3>2 DEF RefundDone, TypeInv, TypeOK, dealVars, providerVars
    <3>5. \A d \in Deals : EntriesOf(d)' = EntriesOf(d)
      BY <3>4 DEF EntriesOf
    <3>6. DealInOrder(w, c)'
      BY <2>0, <3>2, <3>3, <3>4, <3>5, StatusAtStep
      DEF DealInOrder, NotYetPaid, NothingForCanceled, PaidInOrder,
         HeldUntilDecided, MoneyHasGone, WebhookIsFresh, PaidStatuses, Funded,
         HoldCredit, RefundDebit, ReleasePair, ReleaseDebit, ReleaseCredit
    <3>7. QED
      BY <2>0, <2>3, <3>1, <3>3, <3>4, <3>5, <3>6 DEF TypeInv, TypeOK
  <2>16. ASSUME ShipSave(w) PROVE SerialInv(w)'
    <3>1. PICK c \in Deals : c = req[w].deal
      BY <2>0, <2>16 DEF ShipSave, At, TypeInv, RequestHasDeal
    <3>2. StepOf(w, c) = "ship_save" /\ status[c] \in Status
      BY <2>0, <2>16, <3>1 DEF ShipSave, At, StepOf, TypeInv, TypeOK
    <3>3. /\ StepOf(w, c)' = "idle"
          /\ req'[w].deal \in {c, NoDeal} /\ IdleHasNoDeal(w)'
      BY <2>4, <2>16, <3>1 DEF ShipSave
    <3>4. /\ status'[c] = "shipped"
          /\ \A d \in Deals \ {c} : status'[d] = status[d]
          /\ UNCHANGED <<paidAt, payId, events, ledger, payment, refund>>
      BY <2>0, <2>16, <3>1, <3>2 DEF ShipSave, TypeInv, TypeOK, dealVars, providerVars
    <3>5. \A d \in Deals : EntriesOf(d)' = EntriesOf(d)
      BY <3>4 DEF EntriesOf
    <3>6. DealInOrder(w, c)'
      BY <2>0, <3>2, <3>3, <3>4, <3>5, StatusAtStep
      DEF DealInOrder, NotYetPaid, NothingForCanceled, PaidInOrder,
         HeldUntilDecided, MoneyHasGone, WebhookIsFresh, PaidStatuses, Funded,
         HoldCredit, RefundDebit, ReleasePair, ReleaseDebit, ReleaseCredit
    <3>7. QED
      BY <2>0, <2>3, <3>1, <3>3, <3>4, <3>5, <3>6 DEF TypeInv, TypeOK
  <2>17. ASSUME ConfirmSave(w) PROVE SerialInv(w)'
    <3>1. PICK c \in Deals : c = req[w].deal
      BY <2>0, <2>17 DEF ConfirmSave, At, TypeInv, RequestHasDeal
    <3>2. StepOf(w, c) = "confirm_save" /\ status[c] \in Status
      BY <2>0, <2>17, <3>1 DEF ConfirmSave, At, StepOf, TypeInv, TypeOK
    <3>3. /\ StepOf(w, c)' = "release"
          /\ req'[w].deal \in {c, NoDeal} /\ IdleHasNoDeal(w)'
      BY <2>5, <2>17, <3>1 DEF ConfirmSave, Ops
    <3>4. /\ status'[c] = "buyer_confirmed"
          /\ \A d \in Deals \ {c} : status'[d] = status[d]
          /\ UNCHANGED <<paidAt, payId, events, ledger, payment, refund>>
      BY <2>0, <2>17, <3>1, <3>2 DEF ConfirmSave, TypeInv, TypeOK, dealVars, providerVars
    <3>5. \A d \in Deals : EntriesOf(d)' = EntriesOf(d)
      BY <3>4 DEF EntriesOf
    <3>6. DealInOrder(w, c)'
      BY <2>0, <3>2, <3>3, <3>4, <3>5, StatusAtStep
      DEF DealInOrder, NotYetPaid, NothingForCanceled, PaidInOrder,
         HeldUntilDecided, MoneyHasGone, WebhookIsFresh, PaidStatuses, Funded,
         HoldCredit, RefundDebit, ReleasePair, ReleaseDebit, ReleaseCredit
    <3>7. QED
      BY <2>0, <2>3, <3>1, <3>3, <3>4, <3>5, <3>6 DEF TypeInv, TypeOK
  <2>18. ASSUME ReleaseDealFunds(w) PROVE SerialInv(w)'
    <3>1. PICK c \in Deals : c = req[w].deal
      BY <2>0, <2>18 DEF ReleaseDealFunds, At, TypeInv, RequestHasDeal
    <3>2. StepOf(w, c) = "release" /\ status[c] \in Status
      BY <2>0, <2>18, <3>1 DEF ReleaseDealFunds, At, StepOf, TypeInv, TypeOK
    <3>3. /\ StepOf(w, c)' = "idle"
          /\ req'[w].deal \in {c, NoDeal} /\ IdleHasNoDeal(w)'
      BY <2>4, <2>18, <3>1 DEF ReleaseDealFunds
    <3>4. /\ status'[c] = "released" /\ ledger' = ledger \cup ReleasePair(c)
          /\ \A d \in Deals \ {c} : status'[d] = status[d]
          /\ UNCHANGED <<paidAt, payId, events, payment, refund>>
      BY <2>0, <2>18, <3>1, <3>2 DEF ReleaseDealFunds, TypeInv, TypeOK, dealVars, providerVars,
         At, ReleaseEntries, ReleasePair, MoneyInv, RequestBacked
    <3>5. /\ EntriesOf(c)' = EntriesOf(c) \cup ReleasePair(c)
          /\ \A d \in Deals \ {c} : EntriesOf(d)' = EntriesOf(d)
      <4> DEFINE X == ReleasePair(c)
      <4>1. \A e \in X : e.deal = c
        BY DEF HoldCredit, RefundDebit, ReleasePair, ReleaseDebit, ReleaseCredit
      <4>2. ledger' = ledger \cup X
        BY <3>4
      <4> HIDE DEF X
      <4>3. EntriesOf(c)' = EntriesOf(c) \cup X /\ \A d \in Deals \ {c} : EntriesOf(d)' = EntriesOf(d)
        BY <4>1, <4>2, EntriesAdded
      <4>4. QED
        BY <4>3 DEF X
    <3>6. DealInOrder(w, c)'
      BY <2>0, <3>2, <3>3, <3>4, <3>5, StatusAtStep
      DEF DealInOrder, NotYetPaid, NothingForCanceled, PaidInOrder,
         HeldUntilDecided, MoneyHasGone, WebhookIsFresh, PaidStatuses, Funded,
         HoldCredit, RefundDebit, ReleasePair, ReleaseDebit, ReleaseCredit
    <3>7. QED
      BY <2>0, <2>3, <3>1, <3>3, <3>4, <3>5, <3>6 DEF TypeInv, TypeOK
  <2>19. ASSUME BuyRead(w) PROVE SerialInv(w)'
    <3>1. req[w] = Idle /\ UNCHANGED <<status, paidAt, payId, payment, refund, ledger, events>>
      BY <2>19 DEF BuyRead, Begin, dealVars, providerVars
    <3>2. \A d \in Deals : StepOf(w, d) = "idle"
      BY <3>1 DEF Idle, StepOf
    <3>3. ASSUME NEW d \in Deals, status[d] \notin Closed, Begin(w, Loaded("buy_pay", d))
          PROVE  SerialInv(w)'
      <4>1. req'[w].deal = d /\ req'[w].op = "buy_pay"
        BY <2>0, <3>3 DEF Begin, Loaded, Idle
      <4>2. StepOf(w, d)' = "buy_pay"
        BY <4>1 DEF StepOf
      <4>3. DealInOrder(w, d)'
        BY <2>0, <3>1, <3>2, <3>3, <4>2
        DEF Closed, EntriesOf, DealInOrder, NotYetPaid, NothingForCanceled, PaidInOrder,
            HeldUntilDecided, MoneyHasGone, WebhookIsFresh, PaidStatuses, Funded,
            HoldCredit, RefundDebit, ReleasePair, ReleaseDebit, ReleaseCredit
      <4>4. QED
        BY <2>2, <3>1, <4>1, <4>3
    <3>4. CASE Begin(w, [Idle EXCEPT !.op = "buy_create"])
      <4>1. req'[w].deal = NoDeal /\ req'[w].op = "buy_create"
        BY <2>0, <3>4 DEF Begin, Idle
      <4>2. ASSUME NEW d \in Deals PROVE DealInOrder(w, d)'
        <5>1. StepOf(w, d)' = "idle"
          BY <4>1, ConstantsAssumption DEF StepOf
        <5>2. SameRows(d)
          BY <3>1 DEF SameRows, EntriesOf
        <5>3. QED
          BY <3>2, <5>1, <5>2, StaysInOrder
      <4>3. QED
        BY <4>1, <4>2 DEF SerialInv, IdleHasNoDeal
    <3>5. QED
      BY <2>19, <3>3, <3>4 DEF BuyRead
  <2>20. ASSUME BuyCreate(w) PROVE SerialInv(w)'
    <3>1. PICK c \in Deals :
            /\ status[c] = "none" /\ status' = [status EXCEPT ![c] = "payment_pending"]
            /\ req' = [req EXCEPT ![w] = [Loaded("buy_pay", c) EXCEPT !.seen = "payment_pending"]]
      BY <2>20 DEF BuyCreate
    <3>2. req'[w].deal = c /\ req'[w].op = "buy_pay"
      BY <2>0, <3>1 DEF Loaded, Idle
    <3>3. req[w].deal = NoDeal
      BY <2>0, <2>20 DEF BuyCreate, At, IdleHasNoDeal
    <3>4. /\ status'[c] = "payment_pending" /\ \A d \in Deals \ {c} : status'[d] = status[d]
          /\ UNCHANGED <<paidAt, payId, events, ledger, payment, refund>>
      BY <2>0, <2>20, <3>1 DEF BuyCreate, TypeInv, TypeOK, providerVars
    <3>5. StepOf(w, c)' = "buy_pay"
      BY <3>2 DEF StepOf
    <3>6. DealInOrder(w, c)'
      BY <2>0, <3>1, <3>4, <3>5
      DEF EntriesOf, DealInOrder, NotYetPaid, NothingForCanceled, PaidInOrder,
          HeldUntilDecided, MoneyHasGone, WebhookIsFresh, PaidStatuses
    <3>7. \A d \in Deals \ {c} : SameRows(d)
      BY <3>4 DEF SameRows, EntriesOf
    <3>8. IdleHasNoDeal(w)'
      BY <3>2 DEF IdleHasNoDeal
    <3>9. QED
      BY <3>2, <3>3, <3>6, <3>7, <3>8, OneDealMoves
  <2>21. ASSUME NEW d \in Deals, WebhookReceive(w, d) PROVE SerialInv(w)'
    <3> DEFINE op == IF payment[d] = "succeeded" THEN "paid_save" ELSE "declined_save"
               paid == d \in paidAt
    <3>1. /\ req[w] = Idle /\ d \notin events /\ events' = events \cup {d}
          /\ payment[d] \in {"succeeded", "canceled"}
          /\ UNCHANGED <<status, paidAt, payId, payment, refund, ledger>>
      BY <2>21 DEF WebhookReceive, Begin, dealVars, providerVars
    <3>2. StepOf(w, d) = "idle"
      BY <3>1 DEF Idle, StepOf
    <3>3. req' = [req EXCEPT ![w] = [Loaded(op, d) EXCEPT !.paid = paid]]
      BY <2>21, Zenon DEF WebhookReceive, Begin
    <3>4. /\ req'[w].deal = d /\ req'[w].op = op /\ req'[w].seen = status[d]
          /\ req'[w].paid = paid
      <4> HIDE DEF op, paid
      <4>1. QED
        BY <2>0, <3>3 DEF Loaded, Idle
    <3>5. status[d] \in {"payment_pending", "canceled"} /\ d \notin paidAt
      <4>1. status[d] \in Status
        BY <2>0 DEF TypeInv, TypeOK
      <4>2. DealInOrder(w, d)
        BY <2>0
      <4>3. status[d] \notin PaidStatuses
        BY <3>1, <4>2 DEF DealInOrder, PaidInOrder
      <4>4. QED
        BY <3>1, <4>1, <4>2, <4>3 DEF DealInOrder, NotYetPaid, NothingForCanceled, Status,
           PaidStatuses
    <3>6. /\ op \in {"paid_save", "declined_save"}
          /\ op = "paid_save" => payment[d] = "succeeded"
      OBVIOUS
    <3>7. StepOf(w, d)' = op
      BY <3>4 DEF StepOf
    <3>8. ~req'[w].paid
      BY <3>4, <3>5, Zenon
    <3> HIDE DEF op, paid
    <3>9. DealInOrder(w, d)'
      BY <2>0, <3>1, <3>2, <3>4, <3>5, <3>6, <3>7, <3>8
      DEF EntriesOf, DealInOrder, NotYetPaid, NothingForCanceled, PaidInOrder, HoldCredit,
          HeldUntilDecided, MoneyHasGone, WebhookIsFresh, PaidStatuses
    <3>10. QED
      BY <2>2, <3>1, <3>4, <3>6, <3>9
  <2>22. ASSUME NEW d \in Deals, \/ CancelRead(w, d) \/ ShipRead(w, d)
                                 \/ ConfirmReceivedRead(w, d) \/ AutoConfirmRead(w, d)
         PROVE  SerialInv(w)'
    <3>1. /\ req[w] = Idle
          /\ UNCHANGED <<status, paidAt, payId, payment, refund, ledger, events>>
      BY <2>22 DEF CancelRead, ShipRead, ConfirmReceivedRead, AutoConfirmRead, Begin,
         dealVars, providerVars
    <3>2. StepOf(w, d) = "idle"
      BY <3>1 DEF Idle, StepOf
    <3>3. /\ req'[w].deal = d
          /\ \/ req'[w].op = "cancel_save" /\ status[d] = "payment_pending"
             \/ req'[w].op \in {"refund_call", "ship_save"} /\ status[d] = "waiting_shipment"
             \/ req'[w].op = "confirm_save" /\ status[d] \in {"waiting_shipment", "shipped"}
      <4>1. status[d] = "payment_pending" => d \notin paidAt
        BY <2>0 DEF DealInOrder, NotYetPaid
      <4>2. CASE CancelRead(w, d)
        BY <2>0, <4>1, <4>2, ZenonT(40) DEF CancelRead, CancelableStatuses, Unpaid, Begin, Loaded, Idle
      <4>3. CASE ShipRead(w, d)
        BY <2>0, <4>3 DEF ShipRead, ShippableStatuses, Begin, Loaded, Idle
      <4>4. CASE ConfirmReceivedRead(w, d) \/ AutoConfirmRead(w, d)
        BY <2>0, <4>4 DEF ConfirmReceivedRead, ReceivableStatuses, AutoConfirmRead,
           AutoConfirmable, Begin, Loaded, Idle
      <4>5. QED
        BY <2>22, <4>2, <4>3, <4>4
    <3>4. StepOf(w, d)' = req'[w].op
      BY <3>3 DEF StepOf
    <3>5. DealInOrder(w, d)'
      BY <2>0, <3>1, <3>2, <3>3, <3>4
      DEF EntriesOf, DealInOrder, NotYetPaid, NothingForCanceled, PaidInOrder,
          HeldUntilDecided, MoneyHasGone, WebhookIsFresh, PaidStatuses, Funded, HoldCredit
    <3>6. QED
      BY <2>2, <3>1, <3>3, <3>5
  <2>23. CASE Crash(w)
    BY <2>1, <2>23 DEF Crash
  <2>24. CASE CancelStaleDeals
    <3>1. /\ req[w] = Idle
          /\ UNCHANGED <<paidAt, payId, payment, refund, ledger, events, req>>
          /\ \A d \in Deals : status'[d] = IF d \in StaleDeals THEN "canceled" ELSE status[d]
      BY <2>24 DEF CancelStaleDeals, providerVars
    <3>2. \A d \in Deals : StepOf(w, d) = "idle" /\ StepOf(w, d)' = "idle"
      BY <3>1 DEF Idle, StepOf
    <3>3. ASSUME NEW d \in Deals PROVE DealInOrder(w, d)'
      <4>1. CASE d \in StaleDeals
        <5>1. status[d] = "payment_pending" /\ status'[d] = "canceled"
          BY <3>1, <4>1 DEF StaleDeals, Unpaid
        <5>2. QED
          BY <2>0, <3>1, <3>2, <5>1
          DEF EntriesOf, DealInOrder, NotYetPaid, NothingForCanceled, PaidInOrder,
              HeldUntilDecided, MoneyHasGone, WebhookIsFresh, PaidStatuses
      <4>2. CASE d \notin StaleDeals
        <5>1. SameRows(d)
          BY <3>1, <4>2 DEF SameRows, EntriesOf
        <5>2. QED
          BY <3>1, <3>2, <5>1, StaysInOrder
      <4>3. QED
        BY <4>1, <4>2
    <3>4. QED
      BY <2>0, <3>1, <3>3 DEF SerialInv, IdleHasNoDeal
  <2>25. ASSUME NEW c \in Deals, PaymentEnds(c) PROVE SerialInv(w)'
    <3>1. /\ payment[c] = "pending" /\ payment'[c] \in {"succeeded", "canceled"}
          /\ \A d \in Deals \ {c} : payment'[d] = payment[d]
          /\ UNCHANGED <<status, paidAt, payId, refund, ledger, events, req>>
      BY <2>0, <2>25 DEF PaymentEnds, dealVars, TypeInv, TypeOK
    <3>2. \A d \in Deals : StepOf(w, d)' = StepOf(w, d) /\ EntriesOf(d)' = EntriesOf(d)
      BY <3>1 DEF StepOf, EntriesOf
    <3>3. DealInOrder(w, c)'
      BY <2>0, <3>1, <3>2
      DEF DealInOrder, NotYetPaid, NothingForCanceled, PaidInOrder, HeldUntilDecided,
          MoneyHasGone, WebhookIsFresh, Funded,
          HoldCredit, RefundDebit, ReleasePair, ReleaseDebit, ReleaseCredit
    <3>4. \A d \in Deals \ {c} : SameRows(d)
      BY <3>1, <3>2 DEF SameRows
    <3>5. \A d \in Deals \ {c} : DealInOrder(w, d)'
      BY <3>1, <3>2, <3>4, StaysInOrder
    <3>6. QED
      BY <2>0, <3>1, <3>3, <3>5 DEF SerialInv, IdleHasNoDeal
  <2>26. CASE \/ \E d \in Deals : PaymentTimesOut(d) \/ ReceiptTimesOut(d)
              \/ UNCHANGED vars
    <3>1. UNCHANGED <<status, paidAt, payId, payment, refund, ledger, events, req>>
      BY <2>26 DEF PaymentTimesOut, ReceiptTimesOut, vars, dealVars, providerVars
    <3>2. \A d \in Deals : SameRows(d) /\ StepOf(w, d)' = StepOf(w, d)
      BY <3>1 DEF SameRows, EntriesOf, StepOf
    <3>3. \A d \in Deals : DealInOrder(w, d)'
      BY <3>1, <3>2, StaysInOrder
    <3>4. QED
      BY <2>0, <3>1, <3>3 DEF SerialInv, IdleHasNoDeal
  <2>27. QED
    BY <2>6, <2>7, <2>8, <2>9, <2>10, <2>11, <2>12, <2>13, <2>14, <2>15, <2>16, <2>17, <2>18,
       <2>19, <2>20, <2>21, <2>22, <2>23, <2>24, <2>25, <2>26, DealSteps
<1>3. QED
  BY <1>1, <1>2, MoneyInvariant, PTL DEF Spec

\* What a deal has in the ledger.
LEMMA EntriesAre ==
    ASSUME NEW w \in Procs, SerialInv(w), NEW d \in Deals
    PROVE  /\ EntriesOf(d) \subseteq {HoldCredit(d)}
              \/ EntriesOf(d) = {HoldCredit(d)} \cup ReleasePair(d)
              \/ EntriesOf(d) = {HoldCredit(d), RefundDebit(d)}
           /\ status[d] = "released" <=> EntriesOf(d) = {HoldCredit(d)} \cup ReleasePair(d)
           /\ EntriesOf(d) # {} => status[d] \in PaidStatuses \cup {"canceled"}
<1>1. status[d] \in Status /\ DealInOrder(w, d)
  BY DEF SerialInv, MoneyInv, TypeInv, TypeOK
<1>2. {HoldCredit(d)} \cup ReleasePair(d) \notin {{}, {HoldCredit(d)}, {HoldCredit(d), RefundDebit(d)}}
  <2>1. ReleaseCredit(d, "payment") \in {HoldCredit(d)} \cup ReleasePair(d)
    BY DEF ReleasePair
  <2>2. ReleaseCredit(d, "payment") \notin {HoldCredit(d), RefundDebit(d)}
    BY DEF ReleaseCredit, HoldCredit, RefundDebit
  <2>3. QED
    BY <2>1, <2>2
<1>3. QED
  BY <1>1, <1>2 DEF DealInOrder, NotYetPaid, NothingForCanceled, HeldUntilDecided,
     MoneyHasGone, PaidStatuses, Status

\* The status tells where the money of a deal is, and it is not in two places.
LEMMA MoneyIsInOnePlace ==
    ASSUME NEW w \in Procs, SerialInv(w), NEW d \in Deals
    PROVE  /\ Released(d) <=> status[d] = "released"
           /\ refund[d] # "none" => payment[d] = "succeeded" /\ ~Released(d)
           /\ Released(d) => payment[d] = "succeeded"
           /\ refund[d] # "none" => \/ StepOf(w, d) = "refund_save"
                                    \/ status[d] \in {"refund_pending", "refunded"}
<1>1. status[d] \in Status /\ DealInOrder(w, d) /\ MoneyInv
  BY DEF SerialInv, MoneyInv, TypeInv, TypeOK
<1>2. Released(d) <=> status[d] = "released"
  <2>1. ASSUME Released(d) PROVE status[d] = "released"
    <3>1. PICK e \in ledger : e.deal = d /\ e.kind = "release"
      BY <2>1 DEF Released, ReleaseCredit
    <3>2. e \in EntriesOf(d) /\ e \notin {HoldCredit(d), RefundDebit(d)}
      BY <3>1 DEF EntriesOf, HoldCredit, RefundDebit
    <3>3. QED
      BY <3>2, EntriesAre
  <2>2. ASSUME status[d] = "released" PROVE Released(d)
    BY <1>1, <2>2 DEF MoneyInv, DealBacked, PaidOut, Released
  <2>3. QED
    BY <2>1, <2>2
<1>3. refund[d] # "none" => \/ StepOf(w, d) = "refund_save" /\ status[d] = "waiting_shipment"
                            \/ status[d] \in {"refund_pending", "refunded"}
  BY <1>1 DEF DealInOrder, NotYetPaid, NothingForCanceled, HeldUntilDecided, MoneyHasGone,
     Status
<1>4. QED
  BY <1>1, <1>2, <1>3 DEF DealInOrder, PaidInOrder, PaidStatuses, Funded

\* With requests one at a time and no crash: what leaves the hold of a deal was put
\* there and leaves it once, and the reports account for what the ledger has.
THEOREM MoneyIsAccounted ==
    ASSUME NEW w, Procs = {w}, MaxCrashes = 0
    PROVE  Spec => []DealsAreAccounted
<1>1. SerialInv(w) => HoldBalanced
  <2> SUFFICES ASSUME SerialInv(w), NEW d \in Deals
               PROVE  LET debits == {e \in ledger : e.deal = d /\ e.kind = "hold"
                                                                /\ e.dir = "debit"}
                      IN  Cardinality(debits) <= 1 /\ (debits # {} => HoldCredit(d) \in ledger)
    BY DEF HoldBalanced
  <2> DEFINE debits == {e \in ledger : e.deal = d /\ e.kind = "hold" /\ e.dir = "debit"}
  <2>1. debits = {e \in EntriesOf(d) : e.kind = "hold" /\ e.dir = "debit"}
    BY DEF EntriesOf
  <2>2. debits \in {{}, {ReleaseDebit(d, "payment")}, {RefundDebit(d)}}
    <3>1. CASE EntriesOf(d) \subseteq {HoldCredit(d)}
      BY <2>1, <3>1 DEF HoldCredit
    <3>2. CASE EntriesOf(d) = {HoldCredit(d)} \cup ReleasePair(d)
      <4>1. debits = {ReleaseDebit(d, "payment")}
        BY <2>1, <3>2 DEF ReleasePair, HoldCredit, ReleaseDebit, ReleaseCredit
      <4>2. QED
        BY <4>1
    <3>3. CASE EntriesOf(d) = {HoldCredit(d), RefundDebit(d)}
      <4>1. debits = {RefundDebit(d)}
        BY <2>1, <3>3 DEF HoldCredit, RefundDebit
      <4>2. QED
        BY <4>1
    <3>4. QED
      BY <3>1, <3>2, <3>3, EntriesAre
  <2>3. debits # {} => HoldCredit(d) \in ledger
    <3>1. debits # {} => ~(EntriesOf(d) \subseteq {HoldCredit(d)})
      BY <2>1 DEF HoldCredit
    <3>2. debits # {} => HoldCredit(d) \in EntriesOf(d)
      BY <3>1, EntriesAre
    <3>3. QED
      BY <3>2 DEF EntriesOf
  <2> HIDE DEF debits
  <2>4. Cardinality(debits) \in {0, 1}
    BY <2>2, FS_EmptySet, FS_Singleton
  <2>5. QED
    BY <2>3, <2>4 DEF debits
<1>2. SerialInv(w) => TotalsFollowLedger
  <2> SUFFICES ASSUME SerialInv(w) PROVE TotalsFollowLedger
    OBVIOUS
  <2>0. \A e \in ledger : e.deal \in Deals /\ e \in EntriesOf(e.deal)
    BY DEF SerialInv, MoneyInv, TypeInv, TypeOK, Entry, EntriesOf
  <2>1. \A d \in Deals : status[d] \in PaidStatuses => d \in GmvPaid(Made)
    BY DEF SerialInv, DealInOrder, PaidInOrder, PaidStatuses, GmvPaid, Made, PaidLike
  <2>2. ASSUME NEW e \in LedgerSum("release") PROVE e.deal \in GmvPaid(Made)
    <3>1. e \notin {HoldCredit(e.deal), RefundDebit(e.deal)}
      BY <2>2 DEF LedgerSum, HoldCredit, RefundDebit
    <3>2. status[e.deal] = "released"
      BY <2>0, <2>2, <3>1, EntriesAre DEF LedgerSum
    <3>3. QED
      BY <2>0, <2>1, <2>2, <3>2 DEF LedgerSum, PaidStatuses
  <2>3. ASSUME NEW e \in LedgerSum("hold")
        PROVE  e.deal \in GmvPaid(Made) \cup CanceledBeforePay(Made)
    <3>1. e.deal \in Deals /\ status[e.deal] \in PaidStatuses \cup {"canceled"}
      BY <2>0, <2>3, EntriesAre DEF LedgerSum
    <3>2. CASE status[e.deal] = "canceled"
      BY <3>1, <3>2 DEF SerialInv, DealInOrder, NothingForCanceled, CanceledBeforePay, Made
    <3>3. QED
      BY <2>1, <3>1, <3>2
  <2>4. Refunds(Made) \subseteq GmvPaid(Made)
    BY <2>1 DEF Refunds, Made, PaidStatuses
  <2>5. \A s \in Status : DealRows(s) = DealSheet(s)
    BY DEF DealRows, DealSheet
  <2>6. ASSUME NEW deals \in SUBSET Made
        PROVE  LET row == UserRow(deals) IN
               /\ row = CityRow(deals)
               /\ row.gmv \cap CanceledBeforePay(row.deals) = {}
               /\ GmvPaid(row.canceled) = {}
    <3>1. /\ GmvPaid(deals) \cap CanceledBeforePay(deals) = {}
          /\ GmvPaid(Canceled(deals)) = {}
      BY DEF GmvPaid, CanceledBeforePay, Canceled, PaidLike
    <3>2. UserRow(deals) = CityRow(deals)
      BY DEF UserRow, CityRow
    <3>3. /\ UserRow(deals).gmv = GmvPaid(deals) /\ UserRow(deals).deals = deals
          /\ UserRow(deals).canceled = Canceled(deals)
      BY DEF UserRow
    <3>4. QED
      BY <3>1, <3>2, <3>3
  <2>7. QED
    BY <2>2, <2>3, <2>4, <2>5, <2>6 DEF TotalsFollowLedger
<1>3. SerialInv(w) => StuckIsUnsettled
  <2> SUFFICES ASSUME SerialInv(w), \A p \in Procs : req[p] = Idle,
                      NEW d \in StuckPayment \cup StuckWaiting \cup StuckOverdue
               PROVE  moneyOf[d] \in {"buyer", "platform"}
    BY DEF StuckIsUnsettled
  <2>1. d \in Deals /\ status[d] \in {"payment_pending", "waiting_shipment", "shipped"}
    BY DEF StuckPayment, StuckWaiting, StuckOverdue, AutoConfirmable, Unpaid, SerialInv,
       MoneyInv, TypeInv, TypeOK
  <2>2. StepOf(w, d) = "idle"
    BY DEF StepOf, Idle
  <2>3. refund[d] = "none" /\ ~Released(d)
    BY <2>1, <2>2, MoneyIsInOnePlace
  <2>4. QED
    BY <2>1, <2>3 DEF moneyOf
<1>4. QED
  BY <1>1, <1>2, <1>3, SerialInvariant, PTL DEF DealsAreAccounted

-----------------------------------------------------------------------------
\* What the money of a deal follows.
LEMMA MoneyFollows ==
    ASSUME \A d \in Deals : /\ refund'[d] = "none" <=> refund[d] = "none"
                            /\ payment'[d] = "succeeded" <=> payment[d] = "succeeded"
                            /\ Released(d)' <=> Released(d)
    PROVE  moneyOf' = moneyOf
  BY DEF moneyOf

\* The money of deal c moves, and no other.
LEMMA MoneyMoves ==
    ASSUME NEW c \in Deals,
           \A d \in Deals \ {c} : /\ refund'[d] = "none" <=> refund[d] = "none"
                                  /\ payment'[d] = "succeeded" <=> payment[d] = "succeeded"
                                  /\ Released(d)' <=> Released(d)
    PROVE  \A to : moneyOf'[c] = to => moneyOf' = [moneyOf EXCEPT ![c] = to]
  BY DEF moneyOf

ReleasedIsShown == \A d \in Deals : Released(d) <=> status[d] = "released"

\* With requests one at a time and no crash a safe deal implements Escrow: the money
\* is taken once, and goes to the seller or back to the buyer.
THEOREM MoneyGoesOneWay ==
    ASSUME NEW w, Procs = {w}, MaxCrashes = 0
    PROVE  Spec => KeepsEscrow
<1>0. w \in Procs
  OBVIOUS
<1>1. Init => Promise!Init
  BY DEF Init, Promise!Init, moneyOf, Released
<1>2. SerialInv(w) => ReleasedIsShown
  BY <1>0, MoneyIsInOnePlace DEF ReleasedIsShown
<1>3. SerialInv(w) /\ ReleasedIsShown' /\ [Next]_vars => [Promise!Next]_moneyOf
  <2> SUFFICES ASSUME SerialInv(w), ReleasedIsShown', [Next]_vars
               PROVE  Promise!Next \/ UNCHANGED moneyOf
    OBVIOUS
  <2> USE <1>0
  <2>0. /\ TypeInv /\ \A d \in Deals : DealInOrder(w, d)
        /\ \A d \in Deals : (Released(d) <=> status[d] = "released")
                            /\ (Released(d)' <=> status'[d] = "released")
    BY <1>2 DEF SerialInv, MoneyInv, ReleasedIsShown
  <2>1. ASSUME UNCHANGED refund,
               \A d \in Deals : /\ payment'[d] = "succeeded" <=> payment[d] = "succeeded"
                                /\ status'[d] = "released" <=> status[d] = "released"
        PROVE  UNCHANGED moneyOf
    BY <2>0, <2>1, MoneyFollows
  \* The rows of the deal the worker is at.
  <2>2. ASSUME NEW op \in Ops \ {"idle", "buy_create"}, At(w, op)
        PROVE  /\ req[w].deal \in Deals
               /\ StepOf(w, req[w].deal) = op
    BY <2>0, <2>2 DEF At, StepOf, TypeInv, RequestHasDeal
  <2>3. CASE BuyPay(w)
    <3>1. /\ UNCHANGED <<status, refund>>
          /\ \A d \in Deals : payment'[d] = "succeeded" <=> payment[d] = "succeeded"
      BY <2>0, <2>3 DEF BuyPay, dealVars, TypeInv, TypeOK
    <3>2. QED
      BY <2>1, <3>1
  <2>4. CASE \/ BuyRead(w) \/ BuySave(w) \/ PaidHold(w) \/ RefundLedger(w) \/ Crash(w)
             \/ \E d \in Deals : \/ WebhookReceive(w, d) \/ CancelRead(w, d) \/ ShipRead(w, d)
                                 \/ ConfirmReceivedRead(w, d) \/ AutoConfirmRead(w, d)
                                 \/ PaymentTimesOut(d) \/ ReceiptTimesOut(d)
             \/ UNCHANGED vars
    <3>1. UNCHANGED <<status, refund, payment>>
      BY <2>4 DEF BuyRead, BuySave, PaidHold, RefundLedger, Crash, WebhookReceive,
         CancelRead, ShipRead, ConfirmReceivedRead, AutoConfirmRead, PaymentTimesOut,
         ReceiptTimesOut, vars, dealVars, providerVars
    <3>2. QED
      BY <2>1, <3>1
  <2>5. CASE \/ PaidSave(w) \/ DeclinedSave(w) \/ CancelSave(w) \/ RefundSave(w)
             \/ RefundDone(w) \/ ShipSave(w) \/ ConfirmSave(w)
    <3>1. PICK c \in Deals :
            /\ c = req[w].deal
            /\ StepOf(w, c) \in {"paid_save", "declined_save", "cancel_save", "refund_save",
                                 "refund_done", "ship_save", "confirm_save"}
      BY <2>2, <2>5 DEF PaidSave, DeclinedSave, CancelSave, RefundSave, RefundDone, ShipSave,
         ConfirmSave, Ops
    <3>2. status[c] # "released"
      BY <3>1, StatusAtStep
    <3>3. StepOf(w, c) = "paid_save" => req[w].seen = status[c]
      BY <2>0, <3>1 DEF DealInOrder, WebhookIsFresh
    <3>4. PaidSave(w) => StepOf(w, c) = "paid_save"
      BY <2>2, <3>1 DEF PaidSave, Ops
    <3>5. /\ UNCHANGED <<refund, payment>>
          /\ status'[c] # "released" /\ \A d \in Deals \ {c} : status'[d] = status[d]
      BY <2>0, <2>5, <3>1, <3>2, <3>3, <3>4 DEF PaidSave, DeclinedSave, CancelSave,
         RefundSave, RefundDone, ShipSave, ConfirmSave, providerVars, TypeInv, TypeOK
    <3>6. QED
      BY <2>1, <3>2, <3>5
  <2>6. CASE BuyCreate(w) \/ CancelStaleDeals
    <3>1. /\ UNCHANGED <<refund, payment>>
          /\ \A d \in Deals : status'[d] = "released" <=> status[d] = "released"
      BY <2>0, <2>6 DEF BuyCreate, CancelStaleDeals, StaleDeals, Unpaid, providerVars,
         TypeInv, TypeOK
    <3>2. QED
      BY <2>1, <3>1
  \* The three steps that move money.
  <2>7. ASSUME NEW c \in Deals, PaymentEnds(c) PROVE Promise!Next \/ UNCHANGED moneyOf
    <3>1. /\ payment[c] = "pending" /\ payment'[c] \in {"succeeded", "canceled"}
          /\ \A d \in Deals \ {c} : payment'[d] = payment[d]
          /\ UNCHANGED <<status, refund>>
      BY <2>0, <2>7 DEF PaymentEnds, dealVars, TypeInv, TypeOK
    <3>2. refund[c] = "none" /\ ~Released(c)
      BY <3>1, MoneyIsInOnePlace
    <3>3. moneyOf[c] = "buyer"
      BY <3>1, <3>2 DEF moneyOf
    <3>4. CASE payment'[c] = "canceled"
      BY <2>1, <3>1, <3>4
    <3>5. CASE payment'[c] = "succeeded"
      <4>1. moneyOf'[c] = "platform"
        BY <2>0, <3>1, <3>2, <3>5 DEF moneyOf
      <4>2. moneyOf' = [moneyOf EXCEPT ![c] = "platform"]
        BY <2>0, <3>1, <4>1, MoneyMoves
      <4>3. QED
        BY <3>3, <4>2 DEF Promise!Next, Promise!Pay
    <3>6. QED
      BY <3>1, <3>4, <3>5
  <2>8. CASE RefundCall(w)
    <3>1. PICK c \in Deals : c = req[w].deal /\ StepOf(w, c) = "refund_call"
      BY <2>2, <2>8 DEF RefundCall, Ops
    <3>2. status[c] = "waiting_shipment" /\ refund[c] = "none" /\ payment[c] = "succeeded"
      <4>1. status[c] = "waiting_shipment"
        BY <3>1, StatusAtStep
      <4>2. QED
        BY <2>0, <3>1, <4>1 DEF DealInOrder, HeldUntilDecided, PaidInOrder, PaidStatuses, Funded
    <3>3. /\ UNCHANGED <<status, payment>>
          /\ \A d \in Deals \ {c} : refund'[d] = refund[d]
      BY <2>0, <2>8, <3>1 DEF RefundCall, dealVars, TypeInv, TypeOK
    <3>4. moneyOf[c] = "platform"
      BY <2>0, <3>2 DEF moneyOf
    <3>5. CASE refund'[c] = "none"
      BY <2>0, <3>2, <3>3, <3>5, MoneyFollows
    <3>6. CASE refund'[c] # "none"
      <4>1. moneyOf'[c] = "returned"
        BY <2>0, <3>2, <3>3, <3>6 DEF moneyOf
      <4>2. moneyOf' = [moneyOf EXCEPT ![c] = "returned"]
        BY <2>0, <3>3, <4>1, MoneyMoves
      <4>3. QED
        BY <3>4, <4>2 DEF Promise!Next, Promise!Return
    <3>7. QED
      BY <3>5, <3>6
  <2>9. CASE ReleaseDealFunds(w)
    <3>1. PICK c \in Deals : c = req[w].deal /\ StepOf(w, c) = "release"
      BY <2>2, <2>9 DEF ReleaseDealFunds, Ops
    <3>2. status[c] = "buyer_confirmed" /\ refund[c] = "none" /\ payment[c] = "succeeded"
      <4>1. status[c] = "buyer_confirmed"
        BY <3>1, StatusAtStep
      <4>2. QED
        BY <2>0, <4>1 DEF DealInOrder, HeldUntilDecided, PaidInOrder, PaidStatuses, Funded
    <3>3. /\ UNCHANGED <<refund, payment>> /\ status'[c] = "released"
          /\ \A d \in Deals \ {c} : status'[d] = status[d]
      BY <2>0, <2>9, <3>1 DEF ReleaseDealFunds, providerVars, TypeInv, TypeOK
    <3>4. moneyOf[c] = "platform" /\ moneyOf'[c] = "seller"
      BY <2>0, <3>2, <3>3 DEF moneyOf
    <3>5. moneyOf' = [moneyOf EXCEPT ![c] = "seller"]
      BY <2>0, <3>3, <3>4, MoneyMoves
    <3>6. QED
      BY <3>4, <3>5 DEF Promise!Next, Promise!Release
  <2>10. QED
    BY <2>3, <2>4, <2>5, <2>6, <2>7, <2>8, <2>9, DealSteps
<1>4. QED
  BY <1>1, <1>2, <1>3, SerialInvariant, PTL DEF Spec, KeepsEscrow, Promise!Spec
=============================================================================

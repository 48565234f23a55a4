---------------------------- MODULE MarketProofs ----------------------------
(***************************************************************************)
(* Theorems about Wallet, Subscriptions, Ads, AntiFraud and AdVisitors,    *)
(* for every value of their constants.  Each component has an inductive    *)
(* invariant, the lemmas that it holds at first and is kept by every step, *)
(* and the theorem about its specification; PlatformProofs takes the       *)
(* lemmas to the platform.                                                 *)
(***************************************************************************)
EXTENDS Wallet, Subscriptions, Ads, AntiFraud, AdVisitors, FiniteSetTheorems, TLAPS

USE DEF workerVars, walletVars, subVars, adVars, fraudVars, visitorVars

-----------------------------------------------------------------------------
(* Wallet.                                                                 *)

DecisionOps == {"withdraw_enter", "approve_save", "approve_enter", "reject_save", "paid_save"}

\* The types of the rows and requests, but for the bound on the amounts: it needs
\* the value of a sum over a set.
WalletShape ==
    /\ withdrawal \in [Withdrawals -> [status : {"none", "pending", "approved", "rejected", "paid"},
                                       amount : Int]]
    /\ req \in [Procs -> [op : {"withdraw_create"}, amount : Int]
                            \cup [op : DecisionOps, of : Withdrawals] \cup {Idle}]
    /\ crashes \in Nat

Decided(w) == withdrawal[w].status \in {"approved", "rejected", "paid"}
Entering(w) == \E p \in Procs : At(p, "approve_enter") /\ req[p].of = w
Paying(w) == \E p \in Procs : At(p, "paid_save") /\ req[p].of = w

\* Who is about to enter a debit, or to mark it as paid, has seen the decision; and
\* unless someone died, what was approved once is debited or about to be.
DebitsAreDue ==
    /\ WalletShape
    /\ \A w \in Withdrawals : w \in Debited \/ Entering(w) \/ Paying(w) => Decided(w)
    /\ crashes = 0 =>
          \A w \in Withdrawals :
              withdrawal[w].status \in {"approved", "paid"} \/ Paying(w)
                  => w \in Debited \/ Entering(w)

LEMMA DebitsInit == WorkersInit /\ WalletInit => DebitsAreDue
<1> SUFFICES ASSUME WorkersInit, WalletInit PROVE DebitsAreDue
  OBVIOUS
<1>1. WalletShape
  BY DEF WorkersInit, WalletInit, WalletShape, NoWithdrawal
<1>2. \A p \in Procs : ~At(p, "approve_enter") /\ ~At(p, "paid_save")
  BY DEF WorkersInit, At, Idle
<1>3. Debited = {} /\ \A w \in Withdrawals : withdrawal[w].status = "none"
  BY DEF WalletInit, Debited, NoWithdrawal
<1>4. QED
  BY <1>1, <1>2, <1>3 DEF DebitsAreDue, Entering, Paying

\* A row that changes only in its status.
LEMMA StatusSaved ==
    ASSUME WalletShape, NEW p \in Procs, req[p] \in [op : DecisionOps, of : Withdrawals],
           NEW s \in {"approved", "rejected", "paid"}, SaveDecision(p, s)
    PROVE  /\ withdrawal' \in [Withdrawals -> [status : {"none", "pending", "approved", "rejected", "paid"},
                                               amount : Int]]
           /\ withdrawal'[req[p].of].status = s
           /\ \A w \in Withdrawals : w # req[p].of => withdrawal'[w] = withdrawal[w]
           /\ Debited' = Debited
<1>1. req[p].of \in Withdrawals
  OBVIOUS
<1>2. Debited' = Debited
  BY DEF SaveDecision, Debited
<1>3. QED
  BY <1>1, <1>2 DEF SaveDecision, WalletShape

\* What a request is when its worker has come to a step.
LEMMA DecisionAt ==
    ASSUME WalletShape, NEW p \in Procs, NEW op \in DecisionOps, At(p, op)
    PROVE  req[p] \in [op : DecisionOps, of : Withdrawals]
BY DEF WalletShape, At, Idle, DecisionOps

LEMMA DebitsStep == DebitsAreDue /\ [WalletNext]_<<workerVars, walletVars>> => DebitsAreDue'
<1> SUFFICES ASSUME DebitsAreDue, [WalletNext]_<<workerVars, walletVars>> PROVE DebitsAreDue'
  OBVIOUS
<1>0. WalletShape
  BY DEF DebitsAreDue
<1>1. ASSUME UNCHANGED <<withdrawal, walletLedger, workerVars>> PROVE DebitsAreDue'
  BY <1>1 DEF DebitsAreDue, WalletShape, Decided, Entering, Paying, At, Debited
<1>2. ASSUME NEW p \in Procs, WithdrawRead(p) PROVE DebitsAreDue'
  <2>1. PICK a \in Int : Begin(p, [op |-> "withdraw_create", amount |-> a])
    BY <1>2 DEF WithdrawRead
  <2>2. WalletShape'
    BY <1>0, <1>2, <2>1 DEF WithdrawRead, WalletShape, Begin
  <2>3. \A w \in Withdrawals : (Entering(w)' <=> Entering(w)) /\ (Paying(w)' <=> Paying(w))
    BY <1>0, <2>1 DEF WalletShape, Begin, Entering, Paying, At, Idle
  <2>4. Debited' = Debited /\ withdrawal' = withdrawal /\ crashes' = crashes
    BY <1>2, <2>1 DEF WithdrawRead, Begin, Debited
  <2>5. QED
    BY <2>2, <2>3, <2>4 DEF DebitsAreDue, Decided
<1>3. ASSUME NEW p \in Procs, WithdrawCreate(p) PROVE DebitsAreDue'
  <2>1. PICK x \in Withdrawals :
           /\ withdrawal[x] = NoWithdrawal
           /\ withdrawal' = [withdrawal EXCEPT ![x] = [status |-> "pending", amount |-> req[p].amount]]
           /\ Continue(p, [op |-> "withdraw_enter", of |-> x])
    BY <1>3 DEF WithdrawCreate
  <2>2. req[p].amount \in Int
    BY <1>0, <1>3 DEF WithdrawCreate, At, WalletShape, Idle, DecisionOps
  <2>3. WalletShape'
    BY <1>0, <2>1, <2>2 DEF WalletShape, Continue, DecisionOps
  <2>4. \A w \in Withdrawals : (Entering(w)' <=> Entering(w)) /\ (Paying(w)' <=> Paying(w))
    BY <1>0, <1>3, <2>1 DEF WalletShape, WithdrawCreate, Continue, Entering, Paying, At
  <2>5. Debited' = Debited /\ crashes' = crashes
    BY <1>3, <2>1 DEF WithdrawCreate, Continue, Debited
  <2>6. ~Decided(x)
    BY <2>1 DEF Decided, NoWithdrawal
  <2>7. \A w \in Withdrawals : w # x => withdrawal'[w] = withdrawal[w]
    BY <1>0, <2>1 DEF WalletShape
  <2>8. withdrawal'[x].status = "pending"
    BY <1>0, <2>1 DEF WalletShape
  <2>9. QED
    BY <2>3, <2>4, <2>5, <2>6, <2>7, <2>8 DEF DebitsAreDue, Decided
<1>4. ASSUME NEW p \in Procs, WithdrawEnter(p) PROVE DebitsAreDue'
  <2>1. req[p].of \in Withdrawals
    BY <1>0, <1>4, DecisionAt DEF WithdrawEnter, DecisionOps
  <2>2. Debited' = Debited
    BY <1>4 DEF WithdrawEnter, Debited, DebitOf
  <2>3. WalletShape'
    BY <1>0, <1>4 DEF WithdrawEnter, WalletShape, End, Continue
  <2>4. \A w \in Withdrawals : (Entering(w)' <=> Entering(w)) /\ (Paying(w)' <=> Paying(w))
    BY <1>0, <1>4 DEF WalletShape, WithdrawEnter, End, Continue, Entering, Paying, At, Idle
  <2>5. QED
    BY <1>4, <2>2, <2>3, <2>4 DEF WithdrawEnter, End, Continue, DebitsAreDue, Decided
<1>5. ASSUME NEW p \in Procs, NEW x \in Withdrawals, ApproveRead(p, x) \/ RejectRead(p, x)
      PROVE  DebitsAreDue'
  <2>1. PICK op \in {"approve_save", "reject_save"} : Begin(p, [op |-> op, of |-> x])
    BY <1>5 DEF ApproveRead, RejectRead, DecisionRead
  <2>2. UNCHANGED walletVars
    BY <1>5 DEF ApproveRead, RejectRead, DecisionRead
  <2>3. WalletShape'
    BY <1>0, <2>1, <2>2 DEF WalletShape, Begin, DecisionOps
  <2>4. \A w \in Withdrawals : (Entering(w)' <=> Entering(w)) /\ (Paying(w)' <=> Paying(w))
    BY <1>0, <2>1 DEF WalletShape, Begin, Entering, Paying, At, Idle
  <2>5. QED
    BY <2>1, <2>2, <2>3, <2>4 DEF Begin, DebitsAreDue, Decided, Debited
<1>6. ASSUME NEW p \in Procs, NEW x \in Withdrawals, PaidRead(p, x) PROVE DebitsAreDue'
  <2>1. Begin(p, [op |-> "paid_save", of |-> x]) /\ withdrawal[x].status = "approved"
        /\ UNCHANGED walletVars
    BY <1>6 DEF PaidRead, DecisionRead
  <2>2. WalletShape'
    BY <1>0, <2>1 DEF WalletShape, Begin, DecisionOps
  <2>3. \A w \in Withdrawals : Entering(w)' <=> Entering(w)
    BY <1>0, <2>1 DEF WalletShape, Begin, Entering, At, Idle
  <2>4. \A w \in Withdrawals : Paying(w)' => Paying(w) \/ w = x
    BY <1>0, <2>1 DEF WalletShape, Begin, Paying, At
  <2>5. QED
    BY <2>1, <2>2, <2>3, <2>4 DEF Begin, DebitsAreDue, Decided, Debited
<1>7. ASSUME NEW p \in Procs, ApproveSave(p) PROVE DebitsAreDue'
  <2>1. req[p] \in [op : DecisionOps, of : Withdrawals]
    BY <1>0, <1>7, DecisionAt DEF ApproveSave, DecisionOps
  <2> DEFINE r == [op |-> "approve_enter", of |-> req[p].of]
  <2>7. [req[p] EXCEPT !.op = "approve_enter"] = r
    BY <2>1
  <2>8. req' = [req EXCEPT ![p] = [req[p] EXCEPT !.op = "approve_enter"]] /\ crashes' = crashes
    BY <1>7 DEF ApproveSave, Goto, Continue
  <2>2. req' = [req EXCEPT ![p] = r] /\ crashes' = crashes
    BY <2>7, <2>8
  <2>3. /\ withdrawal' \in [Withdrawals -> [status : {"none", "pending", "approved", "rejected", "paid"},
                                            amount : Int]]
        /\ withdrawal'[req[p].of].status = "approved"
        /\ \A w \in Withdrawals : w # req[p].of => withdrawal'[w] = withdrawal[w]
        /\ Debited' = Debited
    BY <1>0, <1>7, <2>1, StatusSaved DEF ApproveSave
  <2>4. WalletShape'
    BY <1>0, <2>1, <2>2, <2>3 DEF WalletShape, DecisionOps
  <2>5. \A w \in Withdrawals : (Entering(w)' <=> Entering(w) \/ w = req[p].of) /\ (Paying(w)' <=> Paying(w))
    BY <1>0, <1>7, <2>2 DEF WalletShape, ApproveSave, Entering, Paying, At
  <2>6. QED
    BY <2>1, <2>2, <2>3, <2>4, <2>5 DEF DebitsAreDue, Decided
<1>8. ASSUME NEW p \in Procs, ApproveEnter(p) PROVE DebitsAreDue'
  <2>1. req[p].of \in Withdrawals
    BY <1>0, <1>8, DecisionAt DEF ApproveEnter, DecisionOps
  <2>2. Debited' = Debited \cup {req[p].of}
    BY <1>8, <2>1 DEF ApproveEnter, Debited, DebitOf
  <2>3. WalletShape'
    BY <1>0, <1>8 DEF ApproveEnter, WalletShape, End, Continue
  <2>4. Entering(req[p].of)
    BY <1>8 DEF ApproveEnter, Entering
  <2>5. \A w \in Withdrawals : /\ Entering(w)' => Entering(w)
                               /\ Entering(w) => Entering(w)' \/ w = req[p].of
                               /\ Paying(w)' <=> Paying(w)
    BY <1>0, <1>8 DEF WalletShape, ApproveEnter, End, Continue, Entering, Paying, At, Idle
  <2>6. QED
    BY <1>8, <2>1, <2>2, <2>3, <2>4, <2>5 DEF ApproveEnter, End, Continue, DebitsAreDue, Decided
<1>9. ASSUME NEW p \in Procs, RejectSave(p) \/ PaidSave(p) PROVE DebitsAreDue'
  <2>1. req[p] \in [op : DecisionOps, of : Withdrawals]
    BY <1>0, <1>9, DecisionAt DEF RejectSave, PaidSave, DecisionOps
  <2>2. PICK s \in {"rejected", "paid"} : SaveDecision(p, s) /\ (s = "paid" => At(p, "paid_save"))
    BY <1>9 DEF RejectSave, PaidSave
  <2>3. /\ withdrawal' \in [Withdrawals -> [status : {"none", "pending", "approved", "rejected", "paid"},
                                            amount : Int]]
        /\ withdrawal'[req[p].of].status = s
        /\ \A w \in Withdrawals : w # req[p].of => withdrawal'[w] = withdrawal[w]
        /\ Debited' = Debited
    BY <1>0, <2>1, <2>2, StatusSaved
  <2>4. req' = [req EXCEPT ![p] = Idle] /\ crashes' = crashes
    BY <1>9 DEF RejectSave, PaidSave, End, Continue
  <2>5. WalletShape'
    BY <1>0, <2>3, <2>4 DEF WalletShape
  <2>6. \A w \in Withdrawals : (Entering(w)' <=> Entering(w)) /\ (Paying(w)' => Paying(w))
    BY <1>0, <1>9, <2>4 DEF WalletShape, RejectSave, PaidSave, Entering, Paying, At, Idle
  <2>7. s = "paid" => Paying(req[p].of)
    BY <2>2 DEF Paying
  <2>8. QED
    BY <2>1, <2>3, <2>4, <2>5, <2>6, <2>7 DEF DebitsAreDue, Decided
<1>10. ASSUME NEW p \in Procs, WalletCrash(p) PROVE DebitsAreDue'
  <2>1. req' = [req EXCEPT ![p] = Idle] /\ crashes' = crashes + 1 /\ UNCHANGED walletVars
    BY <1>10 DEF WalletCrash, Crash
  <2>2. WalletShape' /\ crashes' # 0
    BY <1>0, <2>1 DEF WalletShape
  <2>3. \A w \in Withdrawals : (Entering(w)' => Entering(w)) /\ (Paying(w)' => Paying(w))
    BY <1>0, <2>1 DEF WalletShape, Entering, Paying, At, Idle
  <2>4. QED
    BY <2>1, <2>2, <2>3 DEF DebitsAreDue, Decided, Debited
<1>11. CASE FundsReleased
  BY <1>1, <1>11 DEF FundsReleased
<1>12. CASE UNCHANGED <<workerVars, walletVars>>
  BY <1>1, <1>12
<1>13. QED
  BY <1>2, <1>3, <1>4, <1>5, <1>6, <1>7, <1>8, <1>9, <1>10, <1>11, <1>12 DEF WalletNext, WalletStep

LEMMA DebitsFollow == DebitsAreDue => DebitFollowsDecision
BY DEF DebitsAreDue, DebitFollowsDecision, Decided, Entering, InFlight, Debited

\* However many administrators decide at once, and whoever dies, money leaves a
\* wallet for approved withdrawals only, and a withdrawal is paid from a debit.
THEOREM DebitsFollowDecisions == WalletSpec => []DebitFollowsDecision
BY DebitsInit, DebitsStep, DebitsFollow, PTL DEF WalletSpec

-----------------------------------------------------------------------------
(* Subscriptions.                                                          *)

SubObject == [end : Int, next : Int, failed : Int, status : {"active", "past_due"}]

SubShape ==
    /\ today \in Int
    /\ sub \in SubObject
    /\ station \in [paidUntil : Int, blocked : BOOLEAN]
    /\ paidOn \in [Payments -> Int]
    /\ req \in [Procs -> [op : {"sub_save", "station_save", "fail_save", "retry_save"},
                          obj : SubObject, task : BOOLEAN] \cup {Idle}]
    /\ crashes \in Nat

Applying == {p \in Procs : req[p].op \in {"sub_save", "station_save"}}

\* What a payment or a charge has loaded reaches over a whole period from today, for
\* no request lasts over midnight, and starts its count of failures anew.
AppliedInTime ==
    \A p \in Procs :
        /\ p \in Applying => req[p].obj.end >= today + Period /\ req[p].obj.failed = 0
        /\ At(p, "fail_save") => req[p].obj.failed = 1

\* A payment has reached the station, or its request goes on; and the station is
\* never blocked.
PaymentArrives ==
    /\ ~station.blocked
    /\ \A e \in Handled :
          /\ paidOn[e] <= today
          /\ crashes = 0 => \/ station.paidUntil >= paidOn[e] + Period
                            \/ \E p \in Applying : ~req[p].task

PaymentsCount == SubShape /\ AppliedInTime /\ PaymentArrives

LEMMA PaymentsInit == WorkersInit /\ SubscriptionsInit => PaymentsCount
<1> SUFFICES ASSUME WorkersInit, SubscriptionsInit PROVE PaymentsCount
  OBVIOUS
<1>1. SubShape
  BY DEF WorkersInit, SubscriptionsInit, SubShape, SubObject, NoDate
<1>2. AppliedInTime
  BY DEF WorkersInit, AppliedInTime, Applying, At, Idle
<1>3. PaymentArrives
  BY DEF SubscriptionsInit, PaymentArrives, Handled
<1>4. QED
  BY <1>1, <1>2, <1>3 DEF PaymentsCount

\* What a handler makes of the row it loads.
LEMMA LoadedIsExtended ==
    ASSUME SubShape, NEW task \in BOOLEAN
    PROVE  /\ LoadedSub(task) \in [op : {"sub_save"}, obj : SubObject, task : {task}]
           /\ LoadedSub(task).obj.end >= today + Period
           /\ LoadedSub(task).obj.failed = 0
BY PeriodAssumption DEF SubShape, SubObject, LoadedSub, Extended, Later

LEMMA FailedOnce ==
    ASSUME NEW row \in SubObject
    PROVE  Failed(row) \in SubObject /\ Failed(row).failed = row.failed + 1
<1>1. row.end \in Int /\ row.next \in Int /\ row.failed \in Int /\ row.failed + 1 \in Int
  BY DEF SubObject
<1>2. /\ Failed(row).end = row.end /\ Failed(row).next = row.next
      /\ Failed(row).failed = row.failed + 1 /\ Failed(row).status = "past_due"
  BY DEF Failed, SubObject
<1>3. Failed(row) = [f \in {"end", "next", "failed", "status"} |-> Failed(row)[f]]
  BY DEF Failed, SubObject
<1>4. QED
  BY <1>1, <1>2, <1>3 DEF SubObject

LEMMA PaymentsStep ==
    PaymentsCount /\ [SubscriptionsNext]_<<workerVars, subVars>> => PaymentsCount'
<1> SUFFICES ASSUME PaymentsCount, [SubscriptionsNext]_<<workerVars, subVars>> PROVE PaymentsCount'
  OBVIOUS
<1>0. SubShape /\ AppliedInTime /\ PaymentArrives
  BY DEF PaymentsCount
<1>1. ASSUME UNCHANGED <<workerVars, subVars>> PROVE PaymentsCount'
  BY <1>0, <1>1 DEF PaymentsCount, SubShape, AppliedInTime, PaymentArrives, Applying, At, Handled
<1>2. CASE NextDay
  <2>1. req' = req /\ \A p \in Procs : req[p] = Idle
    BY <1>2 DEF NextDay, AllIdle
  <2>2. SubShape'
    BY <1>0, <1>2 DEF SubShape, NextDay
  <2>3. AppliedInTime' /\ Applying = {}
    BY <2>1 DEF AppliedInTime, Applying, At, Idle
  <2>4. PaymentArrives'
    BY <1>0, <1>2, <2>3 DEF PaymentArrives, NextDay, SubShape, Handled
  <2>5. QED
    BY <2>2, <2>3, <2>4 DEF PaymentsCount
<1>3. ASSUME NEW p \in Procs, ChargeRead(p) PROVE PaymentsCount'
  <2>1. req[p] = Idle /\ req' = [req EXCEPT ![p] = LoadedSub(TRUE)] /\ UNCHANGED <<crashes, subVars>>
    BY <1>3 DEF ChargeRead, Begin
  <2>2. SubShape'
    BY <1>0, <2>1, LoadedIsExtended DEF SubShape
  <2>3. AppliedInTime'
    BY <1>0, <2>1, LoadedIsExtended DEF SubShape, AppliedInTime, Applying, At
  <2>7. p \notin Applying /\ \A q \in Procs : q # p => req'[q] = req[q]
    BY <1>0, <2>1 DEF SubShape, Applying, Idle
  <2>4. \A q \in Applying : q \in Applying' /\ req'[q] = req[q]
    BY <2>7 DEF Applying
  <2>5. PaymentArrives'
    BY <1>0, <2>1, <2>4 DEF PaymentArrives, Handled
  <2>6. QED
    BY <2>2, <2>3, <2>5 DEF PaymentsCount
<1>4. ASSUME NEW p \in Procs, NEW e \in Payments, SubscriptionPaid(p, e) PROVE PaymentsCount'
  <2>1. /\ req[p] = Idle /\ req' = [req EXCEPT ![p] = LoadedSub(FALSE)]
        /\ paidOn' = [paidOn EXCEPT ![e] = today]
        /\ UNCHANGED <<crashes, today, sub, station>>
    BY <1>4 DEF SubscriptionPaid, Begin
  <2>2. SubShape'
    BY <1>0, <2>1, LoadedIsExtended DEF SubShape
  <2>3. AppliedInTime'
    BY <1>0, <2>1, LoadedIsExtended DEF SubShape, AppliedInTime, Applying, At
  <2>4. p \in Applying' /\ ~req'[p].task
    BY <1>0, <2>1, LoadedIsExtended DEF SubShape, Applying
  <2>5. \A x \in Handled' : paidOn'[x] <= today'
    BY <1>0, <2>1 DEF SubShape, PaymentArrives, Handled
  <2>6. PaymentArrives'
    BY <1>0, <2>1, <2>4, <2>5 DEF PaymentArrives
  <2>7. QED
    BY <2>2, <2>3, <2>6 DEF PaymentsCount
<1>5. ASSUME NEW p \in Procs, SubSave(p) PROVE PaymentsCount'
  <2>1. req[p] \in [op : {"sub_save"}, obj : SubObject, task : BOOLEAN]
    BY <1>0, <1>5 DEF SubSave, At, SubShape, Idle
  <2>8. /\ req' = [req EXCEPT ![p] = [req[p] EXCEPT !.op = "station_save"]]
        /\ sub' = req[p].obj
        /\ UNCHANGED <<crashes, today, station, paidOn>>
    BY <1>5 DEF SubSave, Goto, Continue
  <2>9. [req[p] EXCEPT !.op = "station_save"] = [op |-> "station_save", obj |-> req[p].obj, task |-> req[p].task]
    BY <2>1
  <2>2. /\ req' = [req EXCEPT ![p] = [op |-> "station_save", obj |-> req[p].obj, task |-> req[p].task]]
        /\ sub' = req[p].obj
        /\ UNCHANGED <<crashes, today, station, paidOn>>
    BY <2>8, <2>9
  <2>3. SubShape'
    BY <1>0, <2>1, <2>2 DEF SubShape
  <2>4. p \in Applying /\ \A q \in Applying : q \in Applying' /\ req'[q].task = req[q].task
    BY <1>0, <2>1, <2>2 DEF SubShape, Applying
  <2>5. AppliedInTime'
    BY <1>0, <2>1, <2>2, <2>4 DEF SubShape, AppliedInTime, Applying, At
  <2>6. PaymentArrives'
    BY <1>0, <2>2, <2>4 DEF PaymentArrives, Handled
  <2>7. QED
    BY <2>3, <2>5, <2>6 DEF PaymentsCount
<1>6. ASSUME NEW p \in Procs, StationSave(p) PROVE PaymentsCount'
  <2>1. req[p] \in [op : {"station_save"}, obj : SubObject, task : BOOLEAN]
    BY <1>0, <1>6 DEF StationSave, At, SubShape, Idle
  <2>2. /\ req' = [req EXCEPT ![p] = Idle]
        /\ station' = [paidUntil |-> req[p].obj.end, blocked |-> FALSE]
        /\ UNCHANGED <<crashes, today, sub, paidOn>>
    BY <1>6 DEF StationSave, End, Continue
  <2>3. SubShape'
    BY <1>0, <2>1, <2>2 DEF SubShape, SubObject
  <2>4. AppliedInTime'
    BY <1>0, <2>2 DEF SubShape, AppliedInTime, Applying, At, Idle
  <2>5. req[p].obj.end >= today + Period /\ req[p].obj.end \in Int
    BY <1>0, <2>1 DEF AppliedInTime, Applying, SubObject
  <2>6. PaymentArrives'
    BY <1>0, <2>2, <2>5, PeriodAssumption DEF PaymentArrives, Handled, SubShape
  <2>7. QED
    BY <2>3, <2>4, <2>6 DEF PaymentsCount
<1>7. ASSUME NEW p \in Procs, ChargeRaises(p) PROVE PaymentsCount'
  <2>1. /\ req[p] \in [op : {"sub_save", "station_save"}, obj : SubObject, task : BOOLEAN]
        /\ req[p].task
    BY <1>0, <1>7 DEF ChargeRaises, SubShape, Idle
  <2>2. /\ req' = [req EXCEPT ![p] = [op |-> "fail_save", obj |-> Failed(req[p].obj), task |-> req[p].task]]
        /\ UNCHANGED <<crashes, today, sub, station, paidOn>>
    <3>1. /\ req' = [req EXCEPT ![p] = [req[p] EXCEPT !.op = "fail_save", !.obj = Failed(@)]]
          /\ UNCHANGED <<crashes, today, sub, station, paidOn>>
      BY <1>7 DEF ChargeRaises, Continue
    <3> DEFINE r == req[p]
               failed == Failed(req[p].obj)
    <3>2. [r EXCEPT !.op = "fail_save", !.obj = failed]
            = [op |-> "fail_save", obj |-> failed, task |-> r.task]
      <4>1. r \in [op : {"sub_save", "station_save"}, obj : SubObject, task : BOOLEAN]
        BY <2>1
      <4>2. failed \in SubObject
        BY <2>1, FailedOnce, <1>0 DEF AppliedInTime, Applying
      <4> HIDE DEF r, failed
      <4>3. [r EXCEPT !.op = "fail_save", !.obj = failed]
              = [[r EXCEPT !.op = "fail_save"] EXCEPT !.obj = failed]
        BY <4>1, <4>2
      <4>4. [r EXCEPT !.op = "fail_save"] = [op |-> "fail_save", obj |-> r.obj, task |-> r.task]
        BY <4>1
      <4>5. [[op |-> "fail_save", obj |-> r.obj, task |-> r.task] EXCEPT !.obj = failed]
              = [op |-> "fail_save", obj |-> failed, task |-> r.task]
        BY <4>1
      <4>6. QED
        BY <4>3, <4>4, <4>5
    <3>3. QED
      BY <3>1, <3>2
  <2>3. req[p].obj \in SubObject /\ req[p].obj.failed = 0
    BY <1>0, <2>1 DEF AppliedInTime, Applying
  <2>4. Failed(req[p].obj) \in SubObject /\ Failed(req[p].obj).failed = 1
    BY <2>3, FailedOnce
  <2>5. SubShape'
    BY <1>0, <2>1, <2>2, <2>4 DEF SubShape
  <2>6. AppliedInTime'
    BY <1>0, <2>2, <2>4 DEF SubShape, AppliedInTime, Applying, At
  <2>7. \A q \in Applying : ~req[q].task => q \in Applying' /\ ~req'[q].task
    BY <1>0, <2>1, <2>2 DEF SubShape, Applying
  <2>8. PaymentArrives'
    BY <1>0, <2>2, <2>7 DEF PaymentArrives, Handled
  <2>9. QED
    BY <2>5, <2>6, <2>8 DEF PaymentsCount
<1>8. ASSUME NEW p \in Procs, FailSave(p) PROVE PaymentsCount'
  <2>1. /\ req[p] \in [op : {"fail_save"}, obj : SubObject, task : BOOLEAN]
        /\ req[p].obj.failed = 1
    BY <1>0, <1>8 DEF FailSave, At, SubShape, Idle, AppliedInTime
  <2>2. /\ sub' = [sub EXCEPT !.failed = 1, !.status = "past_due"]
        /\ station' = [station EXCEPT !.blocked = @ \/ FALSE]
        /\ Goto(p, "retry_save")
        /\ UNCHANGED <<today, paidOn>>
    BY <1>8, <2>1 DEF FailSave
  <2>3. station' = station
    BY <1>0, <2>2 DEF SubShape, PaymentArrives
  <2>4. /\ req' = [req EXCEPT ![p] = [op |-> "retry_save", obj |-> req[p].obj, task |-> req[p].task]]
        /\ UNCHANGED crashes
    <3>1. req' = [req EXCEPT ![p] = [req[p] EXCEPT !.op = "retry_save"]] /\ UNCHANGED crashes
      BY <2>2 DEF Goto, Continue
    <3>2. [req[p] EXCEPT !.op = "retry_save"] = [op |-> "retry_save", obj |-> req[p].obj, task |-> req[p].task]
      BY <2>1
    <3>3. QED
      BY <3>1, <3>2
  <2>5. SubShape'
    BY <1>0, <2>1, <2>2, <2>3, <2>4 DEF SubShape, SubObject
  <2>6. AppliedInTime'
    BY <1>0, <2>2, <2>4 DEF SubShape, AppliedInTime, Applying, At
  <2>7. \A q \in Applying : q \in Applying' /\ req'[q] = req[q]
    BY <1>0, <2>1, <2>4 DEF SubShape, Applying
  <2>8. PaymentArrives'
    BY <1>0, <2>2, <2>3, <2>4, <2>7 DEF PaymentArrives, Handled
  <2>9. QED
    BY <2>5, <2>6, <2>8 DEF PaymentsCount
<1>9. ASSUME NEW p \in Procs, RetrySave(p) \/ SubscriptionsCrash(p) PROVE PaymentsCount'
  <2>1. /\ req' = [req EXCEPT ![p] = Idle]
        /\ crashes' \in Nat
        /\ UNCHANGED <<today, station, paidOn>>
    BY <1>0, <1>9 DEF RetrySave, End, Continue, SubscriptionsCrash, Crash, SubShape
  <2>2. sub' \in SubObject
    BY <1>0, <1>9 DEF RetrySave, SubscriptionsCrash, SubShape, SubObject
  <2>3. crashes' = 0 => At(p, "retry_save") /\ crashes = 0
    BY <1>0, <1>9 DEF RetrySave, End, Continue, SubscriptionsCrash, Crash, SubShape
  <2>4. SubShape'
    BY <1>0, <2>1, <2>2 DEF SubShape
  <2>5. AppliedInTime'
    BY <1>0, <2>1 DEF SubShape, AppliedInTime, Applying, At, Idle
  <2>6. crashes' = 0 => \A q \in Applying : q \in Applying' /\ req'[q] = req[q]
    BY <1>0, <2>1, <2>3 DEF SubShape, Applying, At
  <2>7. PaymentArrives'
    BY <1>0, <2>1, <2>3, <2>6 DEF PaymentArrives, Handled
  <2>8. QED
    BY <2>4, <2>5, <2>7 DEF PaymentsCount
<1>10. QED
  BY <1>1, <1>2, <1>3, <1>4, <1>5, <1>6, <1>7, <1>8, <1>9 DEF SubscriptionsNext, SubscriptionStep

LEMMA PaymentsBuy == PaymentsCount => PaymentBuysAPeriod
<1> SUFFICES ASSUME PaymentsCount, AllIdle, crashes = 0, NEW e \in Handled,
                    today <= paidOn[e] + Period
             PROVE  StationIsVisible /\ AcceptsOnlineBooking
  BY DEF PaymentBuysAPeriod
<1>1. Applying = {}
  BY DEF AllIdle, Applying, Idle
<1>2. ~station.blocked /\ station.paidUntil >= paidOn[e] + Period
  BY <1>1 DEF PaymentsCount, PaymentArrives
<1>3. today \in Int /\ station.paidUntil \in Int /\ paidOn[e] \in Int
  BY DEF PaymentsCount, SubShape, Handled
<1>4. QED
  BY <1>2, <1>3, PeriodAssumption DEF StationIsVisible, AcceptsOnlineBooking

\* However charges and payments overlap, and whatever errors the charges meet, a
\* payment buys its station a period in the catalogue and of online bookings.
THEOREM PaymentsBuyPeriods == SubscriptionsSpec => []PaymentBuysAPeriod
BY PaymentsInit, PaymentsStep, PaymentsBuy, PTL DEF SubscriptionsSpec

\* How far a subscription can reach today: a period for every payment, and one more for
\* the charge of every day.
Reach(n) == today + Period * (today + n + Cardinality(Handled))

FarRow == [end : Int, next : Int, failed : 0..3, status : {"active", "past_due"}]

\* A payment and a charge load what is in reach, and nothing is charged today that has
\* been extended today.
DatesInReach ==
    /\ today \in 0..MaxDay /\ failures \in Nat /\ faults \in 0..MaxFaults
    /\ sub \in FarRow /\ sub.end \in NoDate..Reach(1) /\ sub.next \in NoDate..Reach(1)
    /\ sub.next # NoDate /\ sub.next <= today => sub.end <= Reach(0)
    /\ station \in [paidUntil : NoDate..Reach(1), blocked : BOOLEAN]
    /\ paidOn \in [Payments -> {NoDate} \cup 0..today]
    /\ req \in [Procs -> [op : {"sub_save", "station_save", "fail_save", "retry_save"},
                          obj : FarRow, task : BOOLEAN] \cup {Idle}]
    /\ \A p \in Procs : req[p] # Idle =>
          /\ req[p].obj.end \in today + 1..Reach(1) /\ req[p].obj.next = req[p].obj.end
          /\ req[p].op \in {"sub_save", "station_save"} => req[p].obj.failed = 0

\* Multiples of a period.
LEMMA Periods ==
    ASSUME NEW k \in Nat, NEW m \in Nat, k <= m
    PROVE  /\ Period * k \in Nat /\ Period * m \in Nat /\ Period * k <= Period * m
           /\ Period * (k + 1) = Period * k + Period
           /\ k <= Period * k
<1>0. Period \in Nat /\ Period >= 1
  BY PeriodAssumption
<1>1. Period * k \in Nat /\ Period * m \in Nat
  BY <1>0
<1>2. Period * (k + 1) = Period * k + Period
  BY <1>0
<1>3. m - k \in Nat /\ Period * (m - k) \in Nat
  BY <1>0
<1>4. Period * m = Period * k + Period * (m - k)
  BY <1>0
<1>5. Period - 1 \in Nat /\ (Period - 1) * k \in Nat
  BY <1>0
<1>6. Period * k = k + (Period - 1) * k
  BY <1>0
<1>7. QED
  BY <1>1, <1>2, <1>3, <1>4, <1>5, <1>6

LEMMA HandledIsFinite ==
    /\ IsFiniteSet(Handled) /\ Cardinality(Handled) \in Nat
    /\ Cardinality(Handled) <= Cardinality(Payments) /\ Cardinality(Payments) \in Nat
<1>1. Handled \subseteq Payments
  BY DEF Handled
<1>2. QED
  BY <1>1, PeriodAssumption, FS_Subset, FS_CardinalityType

\* The reach of today, in numbers.
LEMMA ReachIs ==
    ASSUME NEW n \in Nat, today \in Nat
    PROVE  /\ Reach(n) \in Nat /\ today <= Reach(n)
           /\ Reach(n + 1) = Reach(n) + Period
           /\ Reach(n) + Period \in Nat
<1> DEFINE h == Cardinality(Handled)
<1>1. h \in Nat
  BY HandledIsFinite
<1>2. /\ Reach(n) = today + Period * (today + n + h)
      /\ Reach(n + 1) = today + Period * (today + (n + 1) + h)
  BY DEF Reach
<1> HIDE DEF h
<1>3. today + (n + 1) + h = today + n + h + 1 /\ today + n + h \in Nat
  BY <1>1
<1>4. /\ Period * (today + n + h) \in Nat
      /\ Period * (today + n + h + 1) = Period * (today + n + h) + Period
  BY <1>3, Periods
<1>5. Period \in Nat
  BY PeriodAssumption
<1>6. QED
  BY <1>2, <1>3, <1>4, <1>5

\* A row as it is loaded, extended and failed.
LEMMA ExtendedRow ==
    ASSUME NEW row \in FarRow, today \in Nat
    PROVE  /\ Extended(row) \in FarRow /\ Extended(row).next = Extended(row).end
           /\ Extended(row).end = Later(row.end, today) + Period
           /\ Extended(row).failed = 0
BY PeriodAssumption DEF FarRow, Extended, Later

LEMMA FailedRow ==
    ASSUME NEW row \in FarRow, row.failed = 0
    PROVE  /\ Failed(row) \in FarRow
           /\ Failed(row).end = row.end /\ Failed(row).next = row.next
<1>1. /\ Failed(row).end = row.end /\ Failed(row).next = row.next
      /\ Failed(row).failed = row.failed + 1 /\ Failed(row).status = "past_due"
  BY DEF Failed, FarRow
<1>2. Failed(row) = [f \in {"end", "next", "failed", "status"} |-> Failed(row)[f]]
  BY DEF Failed, FarRow
<1>3. row.end \in Int /\ row.next \in Int
  BY DEF FarRow
<1>4. QED
  BY <1>1, <1>2, <1>3 DEF FarRow

FarRequest == [op : {"sub_save", "station_save", "fail_save", "retry_save"},
               obj : FarRow, task : BOOLEAN]

\* A request in flight that is in reach.
InReach(r) ==
    /\ r \in FarRequest
    /\ r.obj.end \in today + 1..Reach(1) /\ r.obj.next = r.obj.end
    /\ r.op \in {"sub_save", "station_save"} => r.obj.failed = 0

LEMMA RequestInReach ==
    ASSUME DatesInReach, NEW p \in Procs, req[p] # Idle
    PROVE  InReach(req[p])
BY DEF DatesInReach, InReach, FarRequest

LEMMA ReachInit == WorkersInit /\ SubscriptionsInit => DatesInReach
<1> SUFFICES ASSUME WorkersInit, SubscriptionsInit PROVE DatesInReach
  OBVIOUS
<1>1. today = 0 /\ Reach(1) \in Nat /\ Reach(0) \in Nat
  BY ReachIs DEF SubscriptionsInit
<1>2. sub \in FarRow /\ sub.end = NoDate /\ sub.next \in {NoDate, 0}
  BY DEF SubscriptionsInit, FarRow, NoDate
<1>3. NoDate \in NoDate..Reach(1) /\ 0 \in NoDate..Reach(1) /\ NoDate <= Reach(0)
  BY <1>1 DEF NoDate
<1>4. station \in [paidUntil : NoDate..Reach(1), blocked : BOOLEAN]
  BY <1>3 DEF SubscriptionsInit
<1>5. QED
  BY <1>1, <1>2, <1>3, <1>4, PeriodAssumption DEF DatesInReach, WorkersInit, SubscriptionsInit

\* A step of the day leaves the reach as it is.
LEMMA SameReach ==
    ASSUME UNCHANGED <<today, paidOn>>
    PROVE  \A n : Reach(n)' = Reach(n)
BY DEF Reach, Handled

\* A step of a request that leaves day and payments, saves what is in reach, and goes
\* on with what is in reach or ends.
LEMMA SavedInReach ==
    ASSUME DatesInReach, NEW p \in Procs, NEW r, InReach(r) \/ r = Idle,
           req' = [req EXCEPT ![p] = r], UNCHANGED <<today, paidOn>>,
           failures' \in Nat, faults' \in 0..MaxFaults,
           sub' \in FarRow, sub'.end \in NoDate..Reach(1), sub'.next \in NoDate..Reach(1),
           sub'.next # NoDate /\ sub'.next <= today => sub'.end <= Reach(0),
           station' \in [paidUntil : NoDate..Reach(1), blocked : BOOLEAN]
    PROVE  DatesInReach'
<1>1. Reach(1)' = Reach(1) /\ Reach(0)' = Reach(0)
  BY SameReach
<1>2. /\ r \in FarRequest \cup {Idle}
      /\ r # Idle => /\ r.obj.end \in today + 1..Reach(1) /\ r.obj.next = r.obj.end
                     /\ r.op \in {"sub_save", "station_save"} => r.obj.failed = 0
  BY DEF InReach
<1>3. req' \in [Procs -> FarRequest \cup {Idle}]
  BY <1>2 DEF DatesInReach, FarRequest
<1>4. ASSUME NEW q \in Procs, req'[q] # Idle
      PROVE  /\ req'[q].obj.end \in today + 1..Reach(1) /\ req'[q].obj.next = req'[q].obj.end
             /\ req'[q].op \in {"sub_save", "station_save"} => req'[q].obj.failed = 0
  <2>1. req'[q] = IF q = p THEN r ELSE req[q]
    BY DEF DatesInReach
  <2>2. CASE q = p
    BY <1>2, <1>4, <2>1, <2>2
  <2>3. CASE q # p
    BY <1>4, <2>1, <2>3 DEF DatesInReach
  <2>4. QED
    BY <2>2, <2>3
<1>5. \A q \in Procs : req'[q] # Idle =>
          /\ req'[q].obj.end \in today' + 1..Reach(1)' /\ req'[q].obj.next = req'[q].obj.end
          /\ req'[q].op \in {"sub_save", "station_save"} => req'[q].obj.failed = 0
  BY <1>1, <1>4
<1>6. /\ today' \in 0..MaxDay /\ paidOn' \in [Payments -> {NoDate} \cup 0..today']
      /\ sub'.end \in NoDate..Reach(1)' /\ sub'.next \in NoDate..Reach(1)'
      /\ sub'.next # NoDate /\ sub'.next <= today' => sub'.end <= Reach(0)'
      /\ station' \in [paidUntil : NoDate..Reach(1)', blocked : BOOLEAN]
  BY <1>1 DEF DatesInReach
<1>7. QED
  BY <1>3, <1>5, <1>6 DEF DatesInReach, FarRequest

LEMMA ReachStep == DatesInReach /\ [SubscriptionsNext]_<<workerVars, subVars>> => DatesInReach'
<1> SUFFICES ASSUME DatesInReach, [SubscriptionsNext]_<<workerVars, subVars>> PROVE DatesInReach'
  OBVIOUS
<1>0. /\ today \in Nat /\ today <= MaxDay /\ MaxDay \in Nat /\ MaxFaults \in Nat /\ Period \in Nat /\ Period >= 1
      /\ Reach(0) \in Nat /\ today <= Reach(0) /\ Reach(1) = Reach(0) + Period
      /\ sub.end \in NoDate..Reach(1) /\ sub.next \in NoDate..Reach(1) /\ sub \in FarRow
      /\ station.paidUntil \in NoDate..Reach(1) /\ station.blocked \in BOOLEAN
      /\ failures \in Nat /\ faults \in 0..MaxFaults
  <2>1. today \in Nat /\ today <= MaxDay /\ MaxDay \in Nat /\ MaxFaults \in Nat /\ Period \in Nat /\ Period >= 1
    BY PeriodAssumption DEF DatesInReach
  <2>2. Reach(0) \in Nat /\ today <= Reach(0) /\ Reach(1) = Reach(0) + Period
    BY <2>1, ReachIs
  <2>3. QED
    BY <2>1, <2>2 DEF DatesInReach
<1>1. CASE UNCHANGED <<workerVars, subVars>>
  BY <1>1, SameReach DEF DatesInReach
<1>2. CASE NextDay
  <2>1. /\ today' = today + 1 /\ today < MaxDay /\ req' = req /\ \A p \in Procs : req[p] = Idle
        /\ UNCHANGED <<sub, station, paidOn, failures, faults>>
    BY <1>2 DEF NextDay, AllIdle
  <2>2. Reach(0)' = Reach(1) + 1 /\ Reach(1) <= Reach(1)' /\ Reach(1)' \in Nat
    <3> DEFINE h == Cardinality(Handled)
    <3>1. h \in Nat
      BY HandledIsFinite
    <3>2. Handled' = Handled
      BY <2>1 DEF Handled
    <3>3. Reach(1) = today + Period * (today + 1 + h) /\ Reach(0)' = today' + Period * (today' + 0 + h)
          /\ Reach(1)' = today' + Period * (today' + 1 + h)
      BY <3>2 DEF Reach
    <3> HIDE DEF h
    <3>4. today' + 0 + h = today + 1 + h /\ today' + 1 + h = today + 1 + h + 1 /\ today + 1 + h \in Nat
      BY <1>0, <2>1, <3>1
    <3>5. Period * (today + 1 + h) \in Nat
          /\ Period * (today + 1 + h + 1) = Period * (today + 1 + h) + Period
      BY <3>4, Periods
    <3>6. QED
      BY <1>0, <2>1, <3>3, <3>4, <3>5
  <2>3. sub.end <= Reach(0)' /\ sub.end \in NoDate..Reach(1)' /\ sub.next \in NoDate..Reach(1)'
        /\ station \in [paidUntil : NoDate..Reach(1)', blocked : BOOLEAN]
    <3>1. Reach(1)' \in Int /\ \A d \in NoDate..Reach(1) : d \in NoDate..Reach(1)' /\ d <= Reach(0)'
      BY <1>0, <2>2 DEF NoDate
    <3>2. QED
      BY <1>0, <3>1 DEF DatesInReach
  <2>4. paidOn \in [Payments -> {NoDate} \cup 0..today']
    <3>1. 0..today \subseteq 0..today'
      BY <1>0, <2>1
    <3>2. QED
      BY <3>1 DEF DatesInReach
  <2>5. today' \in 0..MaxDay
    BY <1>0, <2>1
  <2>6. QED
    BY <2>1, <2>3, <2>4, <2>5 DEF DatesInReach
<1>3. ASSUME NEW p \in Procs, ChargeRead(p) PROVE DatesInReach'
  <2>1. /\ req' = [req EXCEPT ![p] = LoadedSub(TRUE)] /\ UNCHANGED subVars
        /\ sub.next # NoDate /\ sub.next <= today
    BY <1>3 DEF ChargeRead, Begin, Due
  <2>2. sub.end <= Reach(0)
    BY <2>1 DEF DatesInReach
  <2>3. InReach(LoadedSub(TRUE))
    <3>1. Extended(sub).end = Later(sub.end, today) + Period /\ Extended(sub).next = Extended(sub).end
          /\ Extended(sub) \in FarRow /\ Extended(sub).failed = 0
      BY <1>0, ExtendedRow
    <3>2. sub.end \in Int
      BY <1>0 DEF FarRow
    <3>3. Later(sub.end, today) + Period \in today + 1..Reach(1)
      BY <1>0, <2>2, <3>2 DEF Later
    <3>4. QED
      BY <3>1, <3>3 DEF InReach, LoadedSub, FarRequest
  <2>4. QED
    BY <1>0, <2>1, <2>3, SavedInReach DEF DatesInReach
<1>4. ASSUME NEW p \in Procs, NEW e \in Payments, SubscriptionPaid(p, e) PROVE DatesInReach'
  <2>1. /\ req' = [req EXCEPT ![p] = LoadedSub(FALSE)] /\ paidOn[e] = NoDate
        /\ paidOn' = [paidOn EXCEPT ![e] = today] /\ UNCHANGED <<today, sub, station, failures, faults>>
    BY <1>4 DEF SubscriptionPaid, Begin
  <2>2. Handled' = Handled \cup {e} /\ e \notin Handled /\ today # NoDate
    BY <1>0, <2>1 DEF Handled, DatesInReach, NoDate
  <2>3. Cardinality(Handled') = Cardinality(Handled) + 1
    BY <2>2, HandledIsFinite, FS_AddElement
  <2>4. Reach(0)' = Reach(1) /\ Reach(1)' = Reach(1) + Period
    <3> DEFINE h == Cardinality(Handled)
    <3>1. h \in Nat
      BY HandledIsFinite
    <3>2. Reach(0) = today + Period * (today + 0 + h) /\ Reach(0)' = today + Period * (today + 0 + (h + 1))
          /\ Reach(1) = today + Period * (today + 1 + h) /\ Reach(1)' = today + Period * (today + 1 + (h + 1))
      BY <2>1, <2>3 DEF Reach
    <3> HIDE DEF h
    <3>3. today + 0 + (h + 1) = today + 1 + h /\ today + 1 + (h + 1) = today + 1 + h + 1 /\ today + 1 + h \in Nat
      BY <1>0, <3>1
    <3>4. Period * (today + 1 + h) \in Nat
          /\ Period * (today + 1 + h + 1) = Period * (today + 1 + h) + Period
      BY <3>3, Periods
    <3>5. QED
      BY <1>0, <3>2, <3>3, <3>4
  <2>5. /\ \A d \in NoDate..Reach(1) : d \in NoDate..Reach(1)'
        /\ \A d \in today + 1..Reach(1) : d \in today + 1..Reach(1)'
        /\ Reach(1)' \in Nat /\ Reach(0) <= Reach(0)'
    BY <1>0, <2>4 DEF NoDate
  <2>6. LoadedSub(FALSE) \in FarRequest /\ LoadedSub(FALSE).obj.failed = 0
        /\ LoadedSub(FALSE).obj.next = LoadedSub(FALSE).obj.end
        /\ LoadedSub(FALSE).obj.end \in today + 1..Reach(1)'
    <3>1. Extended(sub).end = Later(sub.end, today) + Period /\ Extended(sub).next = Extended(sub).end
          /\ Extended(sub) \in FarRow /\ Extended(sub).failed = 0
      BY <1>0, ExtendedRow
    <3>2. sub.end \in Int
      BY <1>0 DEF FarRow
    <3>3. Later(sub.end, today) + Period \in today + 1..Reach(1)'
      BY <1>0, <2>4, <3>2 DEF Later
    <3>4. QED
      BY <3>1, <3>3 DEF LoadedSub, FarRequest
  <2>7. paidOn' \in [Payments -> {NoDate} \cup 0..today]
    BY <1>0, <2>1 DEF DatesInReach
  <2>8. req' \in [Procs -> FarRequest \cup {Idle}]
    BY <2>1, <2>6 DEF DatesInReach, FarRequest
  <2>9. ASSUME NEW q \in Procs, req'[q] # Idle
        PROVE  /\ req'[q].obj.end \in today + 1..Reach(1)' /\ req'[q].obj.next = req'[q].obj.end
               /\ req'[q].op \in {"sub_save", "station_save"} => req'[q].obj.failed = 0
    <3>1. req'[q] = IF q = p THEN LoadedSub(FALSE) ELSE req[q]
      BY <2>1 DEF DatesInReach
    <3>2. CASE q = p
      BY <2>6, <3>1, <3>2
    <3>3. CASE q # p
      BY <2>5, <2>9, <3>1, <3>3 DEF DatesInReach
    <3>4. QED
      BY <3>2, <3>3
  <2>10. /\ sub'.end \in NoDate..Reach(1)' /\ sub'.next \in NoDate..Reach(1)'
         /\ sub'.next # NoDate /\ sub'.next <= today => sub'.end <= Reach(0)'
         /\ station' \in [paidUntil : NoDate..Reach(1)', blocked : BOOLEAN]
    <3>1. sub.end \in Int
      BY <1>0 DEF FarRow
    <3>2. sub.next # NoDate /\ sub.next <= today => sub.end <= Reach(0)'
      BY <1>0, <2>5, <3>1, <2>4 DEF DatesInReach
    <3>3. QED
      BY <1>0, <2>1, <2>5, <3>2 DEF DatesInReach
  <2>11. QED
    BY <1>0, <2>1, <2>7, <2>8, <2>9, <2>10 DEF DatesInReach, FarRequest
<1>5. ASSUME NEW p \in Procs, SubSave(p) PROVE DatesInReach'
  <2>1. /\ req[p].op = "sub_save" /\ sub' = req[p].obj /\ UNCHANGED <<today, station, paidOn, failures, faults>>
        /\ req' = [req EXCEPT ![p] = [req[p] EXCEPT !.op = "station_save"]]
    BY <1>5 DEF SubSave, At, Goto, Continue
  <2>2. InReach(req[p])
    BY <2>1, RequestInReach DEF Idle
  <2>3. InReach([req[p] EXCEPT !.op = "station_save"])
    BY <2>1, <2>2 DEF InReach, FarRequest
  <2>4. sub' \in FarRow /\ sub'.end \in today + 1..Reach(1) /\ sub'.next = sub'.end
    BY <2>1, <2>2 DEF InReach, FarRequest
  <2>5. /\ sub'.end \in NoDate..Reach(1) /\ sub'.next \in NoDate..Reach(1)
        /\ ~(sub'.next <= today)
    BY <1>0, <2>4 DEF NoDate
  <2> DEFINE r == [req[p] EXCEPT !.op = "station_save"]
  <2> HIDE DEF r
  <2>6. req' = [req EXCEPT ![p] = r] /\ InReach(r)
    BY <2>1, <2>3 DEF r
  <2>7. station' \in [paidUntil : NoDate..Reach(1), blocked : BOOLEAN] /\ failures' \in Nat /\ faults' \in 0..MaxFaults
    BY <2>1 DEF DatesInReach
  <2>8. QED
    BY <2>1, <2>4, <2>5, <2>6, <2>7, SavedInReach
<1>6. ASSUME NEW p \in Procs, StationSave(p) PROVE DatesInReach'
  <2>1. /\ req[p].op = "station_save" /\ station' = [paidUntil |-> req[p].obj.end, blocked |-> FALSE]
        /\ req' = [req EXCEPT ![p] = Idle] /\ failures' = 0 /\ UNCHANGED <<today, sub, paidOn, faults>>
    BY <1>6 DEF StationSave, At, End, Continue
  <2>2. InReach(req[p])
    BY <2>1, RequestInReach DEF Idle
  <2>3. req[p].obj.end \in NoDate..Reach(1)
    BY <1>0, <2>2 DEF InReach, NoDate
  <2>4. station' \in [paidUntil : NoDate..Reach(1), blocked : BOOLEAN]
    BY <2>1, <2>3
  <2>5. QED
    BY <2>1, <2>4, SavedInReach DEF DatesInReach
<1>7. ASSUME NEW p \in Procs, ChargeRaises(p) PROVE DatesInReach'
  <2> DEFINE r == [req[p] EXCEPT !.op = "fail_save", !.obj = Failed(@)]
  <2>1. /\ req[p].op \in {"sub_save", "station_save"} /\ faults < MaxFaults
        /\ faults' = faults + 1 /\ failures' = failures + 1
        /\ req' = [req EXCEPT ![p] = r] /\ UNCHANGED <<today, sub, station, paidOn>>
    BY <1>7 DEF ChargeRaises, Continue
  <2>2. InReach(req[p])
    BY <2>1, RequestInReach DEF Idle
  <2>3. req[p].obj \in FarRow /\ req[p].obj.failed = 0
    BY <2>1, <2>2 DEF InReach, FarRequest
  <2>4. Failed(req[p].obj) \in FarRow /\ Failed(req[p].obj).end = req[p].obj.end
        /\ Failed(req[p].obj).next = req[p].obj.next
    BY <2>3, FailedRow
  <2>5. r.op = "fail_save" /\ r.obj = Failed(req[p].obj) /\ r \in FarRequest
    <3>1. req[p] \in FarRequest
      BY <2>2 DEF InReach
    <3>2. r.op = "fail_save" /\ r.obj = Failed(req[p].obj) /\ r.task = req[p].task
          /\ r = [f \in {"op", "obj", "task"} |-> r[f]]
      BY <3>1 DEF FarRequest
    <3> HIDE DEF r
    <3>3. QED
      BY <2>4, <3>1, <3>2 DEF FarRequest
  <2> HIDE DEF r
  <2>6. InReach(r)
    BY <2>2, <2>4, <2>5 DEF InReach
  <2>7. failures' \in Nat /\ faults' \in 0..MaxFaults
    BY <1>0, <2>1
  <2>8. QED
    BY <2>1, <2>6, <2>7, SavedInReach DEF DatesInReach
<1>8. ASSUME NEW p \in Procs, FailSave(p) PROVE DatesInReach'
  <2> DEFINE r == IF req[p].obj.failed >= 3 THEN Idle ELSE [req[p] EXCEPT !.op = "retry_save"]
             row == [sub EXCEPT !.failed = req[p].obj.failed, !.status = "past_due"]
             b == station.blocked \/ req[p].obj.failed >= 3
  <2>1. /\ req[p].op = "fail_save" /\ sub' = row /\ station' = [station EXCEPT !.blocked = b]
        /\ req' = [req EXCEPT ![p] = r] /\ UNCHANGED <<today, paidOn, failures, faults>>
    BY <1>8 DEF FailSave, At, End, Goto, Continue
  <2>2. InReach(req[p])
    BY <2>1, RequestInReach DEF Idle
  <2>3. InReach([req[p] EXCEPT !.op = "retry_save"])
    BY <2>2 DEF InReach, FarRequest
  <2>4. InReach(r) \/ r = Idle
    BY <2>3
  <2>5. req[p].obj.failed \in 0..3
    BY <2>2 DEF InReach, FarRequest, FarRow
  <2>6. row \in FarRow /\ row.end = sub.end /\ row.next = sub.next
    <3> DEFINE n == req[p].obj.failed
               one == [sub EXCEPT !.failed = n]
    <3> HIDE DEF n
    <3>1. one \in FarRow /\ one.end = sub.end /\ one.next = sub.next
      BY <1>0, <2>5 DEF FarRow, n
    <3>2. row = [one EXCEPT !.status = "past_due"]
      BY DEF n
    <3> HIDE DEF one
    <3>3. QED
      BY <3>1, <3>2 DEF FarRow
  <2>7. station' \in [paidUntil : NoDate..Reach(1), blocked : BOOLEAN]
    <3>1. b \in BOOLEAN
      OBVIOUS
    <3> HIDE DEF b
    <3>2. QED
      BY <2>1, <3>1 DEF DatesInReach
  <2> HIDE DEF r, row, b
  <2>8. /\ sub' \in FarRow /\ sub'.end = sub.end /\ sub'.next = sub.next
        /\ sub.next # NoDate /\ sub.next <= today => sub.end <= Reach(0)
    BY <2>1, <2>6 DEF DatesInReach
  <2>9. failures' \in Nat /\ faults' \in 0..MaxFaults
    BY <2>1 DEF DatesInReach
  <2>10. QED
    BY <1>0, <2>1, <2>4, <2>7, <2>8, <2>9, SavedInReach
<1>9. ASSUME NEW p \in Procs, RetrySave(p) PROVE DatesInReach'
  <2>1. /\ req[p].op = "retry_save" /\ sub' = [sub EXCEPT !.next = today + 1]
        /\ req' = [req EXCEPT ![p] = Idle] /\ UNCHANGED <<today, station, paidOn, failures, faults>>
    BY <1>9 DEF RetrySave, At, End, Continue
  <2>2. /\ sub' \in FarRow /\ sub'.end = sub.end /\ sub'.next = today + 1
    BY <1>0, <2>1 DEF FarRow
  <2>3. /\ sub'.end \in NoDate..Reach(1) /\ sub'.next \in NoDate..Reach(1) /\ ~(sub'.next <= today)
    BY <1>0, <2>2 DEF NoDate
  <2>4. station' \in [paidUntil : NoDate..Reach(1), blocked : BOOLEAN] /\ failures' \in Nat /\ faults' \in 0..MaxFaults
    BY <2>1 DEF DatesInReach
  <2>5. QED
    BY <2>1, <2>2, <2>3, <2>4, SavedInReach
<1>10. ASSUME NEW p \in Procs, SubscriptionsCrash(p) PROVE DatesInReach'
  <2>1. req' = [req EXCEPT ![p] = Idle] /\ UNCHANGED subVars
    BY <1>10 DEF SubscriptionsCrash, Crash
  <2>2. QED
    BY <1>0, <2>1, SavedInReach DEF DatesInReach
<1>11. QED
  BY <1>1, <1>2, <1>3, <1>4, <1>5, <1>6, <1>7, <1>8, <1>9, <1>10 DEF SubscriptionsNext, SubscriptionStep

LEMMA ReachIsTyped == DatesInReach => SubscriptionsTypeOK
<1> SUFFICES ASSUME DatesInReach PROVE SubscriptionsTypeOK
  OBVIOUS
<1>0. today \in Nat /\ today <= MaxDay /\ MaxDay \in Nat /\ Period \in Nat
  BY PeriodAssumption DEF DatesInReach
<1>1. Reach(1) \in Nat /\ today <= Reach(1) /\ Reach(1) <= MaxDay + Period * (MaxDay + 2 + Cardinality(Payments))
  <2> DEFINE h == Cardinality(Handled)
             m == Cardinality(Payments)
  <2>1. h \in Nat /\ m \in Nat /\ h <= m
    BY HandledIsFinite
  <2>2. Reach(1) = today + Period * (today + 1 + h)
    BY DEF Reach
  <2> HIDE DEF h, m
  <2>3. today + 1 + h \in Nat /\ MaxDay + 2 + m \in Nat /\ today + 1 + h <= MaxDay + 2 + m
    BY <1>0, <2>1
  <2>4. Period * (today + 1 + h) \in Nat /\ Period * (MaxDay + 2 + m) \in Nat
        /\ Period * (today + 1 + h) <= Period * (MaxDay + 2 + m)
    BY <2>3, Periods
  <2>5. QED
    BY <1>0, <2>2, <2>4 DEF m
<1>2. NoDate..Reach(1) \subseteq Dates /\ 0..today \subseteq Dates /\ NoDate \in Dates
  <2> DEFINE far == MaxDay + Period * (MaxDay + 2 + Cardinality(Payments))
  <2>1. far \in Int
    BY <1>0, HandledIsFinite
  <2>2. Dates = NoDate..far
    BY DEF Dates
  <2> HIDE DEF far
  <2>3. Reach(1) <= far
    BY <1>1 DEF far
  <2>4. QED
    BY <1>0, <1>1, <2>1, <2>2, <2>3 DEF NoDate
<1>3. \A row \in FarRow : row.end \in Dates /\ row.next \in Dates => row \in SubRow
  BY DEF FarRow, SubRow
<1>4. sub \in SubRow /\ station \in StationRow /\ paidOn \in [Payments -> Dates]
  BY <1>2, <1>3 DEF DatesInReach, StationRow
<1>5. ASSUME NEW p \in Procs PROVE req[p] \in SubRequest \cup {Idle}
  <2>1. CASE req[p] = Idle
    BY <2>1
  <2>2. CASE req[p] # Idle
    <3>1. InReach(req[p])
      BY <2>2, RequestInReach
    <3>2. req[p].obj.end \in Dates /\ req[p].obj.next \in Dates
      <4>1. today + 1..Reach(1) \subseteq NoDate..Reach(1)
        BY <1>0, <1>1 DEF NoDate
      <4>2. QED
        BY <1>2, <3>1, <4>1 DEF InReach
    <3>3. req[p].obj \in SubRow
      BY <1>3, <3>1, <3>2 DEF InReach, FarRequest
    <3>4. QED
      BY <3>1, <3>3 DEF InReach, FarRequest, SubRequest
  <2>3. QED
    BY <2>1, <2>2
<1>6. req \in [Procs -> SubRequest \cup {Idle}]
  BY <1>5 DEF DatesInReach
<1>7. QED
  BY <1>4, <1>6 DEF DatesInReach, SubscriptionsTypeOK

\* The row of the owner follows from the dates alone.
LEMMA RowTells == DatesInReach => RowTellsVisibility
<1> SUFFICES ASSUME DatesInReach PROVE RowTellsVisibility
  OBVIOUS
<1>1. /\ today \in Nat /\ station.paidUntil \in Int
  BY DEF DatesInReach
<1>2. StationIsVisible <=> ~station.blocked /\ station.paidUntil >= today
  BY DEF StationIsVisible
<1>3. CASE station.paidUntil = NoDate
  BY <1>1, <1>2, <1>3 DEF NeedsAttention, NoDate, RowTellsVisibility
<1>4. CASE station.paidUntil # NoDate /\ station.paidUntil < today
  BY <1>1, <1>2, <1>4 DEF NeedsAttention, RowTellsVisibility
<1>5. CASE station.paidUntil # NoDate /\ ~(station.paidUntil < today)
  BY <1>1, <1>2, <1>5 DEF NeedsAttention, RowTellsVisibility
<1>6. QED
  BY <1>3, <1>4, <1>5

\* However charges and payments overlap, rows and requests are well formed, no
\* subscription reaches over a period for every payment and one for the charge of every day, and
\* the owner's row calls for attention just when the catalogue drops the station.
THEOREM SubscriptionsTypeCorrect == SubscriptionsSpec => [](SubscriptionsTypeOK /\ RowTellsVisibility)
BY ReachInit, ReachStep, ReachIsTyped, RowTells, PTL DEF SubscriptionsSpec

-----------------------------------------------------------------------------
(* Ads.                                                                    *)

Hiding == {p \in Procs : req[p].op \in {"report_count", "report_hide"}}

\* Before the ad is made nothing goes on about it; one on the site has no contacts;
\* and when too many have reported it, someone is about to hide it or has died.
AdIsWatched ==
    /\ AdsTypeOK
    /\ IsFiniteSet(recent)
    /\ crashes \in Nat
    /\ ad = NoAd => AllIdle /\ ~reported
    /\ ad.moderation = "none" => ad = NoAd
    /\ ad.published => ad.clean
    /\ ad.published /\ reported /\ crashes = 0 => Cardinality(recent) < ReportLimit \/ Hiding # {}

LEMMA AdInit == WorkersInit /\ AdsInit => AdIsWatched
<1> SUFFICES ASSUME WorkersInit, AdsInit PROVE AdIsWatched
  OBVIOUS
<1>1. AdsTypeOK
  BY DEF WorkersInit, AdsInit, AdsTypeOK, AdRow, NoAd
<1>2. IsFiniteSet(recent)
  BY FS_EmptySet DEF AdsInit
<1>3. QED
  BY <1>1, <1>2 DEF AdIsWatched, WorkersInit, AdsInit, NoAd, AllIdle

\* A form makes a row that is no longer NoAd, clean when it is published.
LEMMA FormRows ==
    ASSUME NEW ticked \in BOOLEAN, NEW clean \in BOOLEAN
    PROVE  /\ FormRow(ticked, clean) \in AdRow
           /\ FormRow(ticked, clean).moderation # "none"
           /\ FormRow(ticked, clean).published => FormRow(ticked, clean).clean
BY DEF FormRow, AdRow, NoAd

\* The posted photos that are kept.
LEMMA KeptPhotos ==
    ASSUME photos \in Nat, NEW posted \in 0..PhotoLimit
    PROVE  /\ PhotoRoom \in 0..PhotoLimit
           /\ (IF posted <= PhotoRoom THEN posted ELSE PhotoRoom) \in 0..PhotoLimit
BY AdsAssumption DEF PhotoRoom

\* An ad withdrawn is off the site, and otherwise as it was.
LEMMA Unpublished ==
    ASSUME ad \in AdRow, Unpublish
    PROVE  ad' \in AdRow /\ ~ad'.published /\ ad'.moderation = ad.moderation
BY DEF Unpublish, AdRow, NoAd

LEMMA AdStepKeeps == AdIsWatched /\ [AdsNext]_<<workerVars, adVars>> => AdIsWatched'
<1> SUFFICES ASSUME AdIsWatched, [AdsNext]_<<workerVars, adVars>> PROVE AdIsWatched'
  OBVIOUS
<1> USE AdsAssumption
<1>0. AdsTypeOK
  BY DEF AdIsWatched
<1>1. ASSUME UNCHANGED <<workerVars, ad, reports, recent, reported>>, photos' \in Nat
      PROVE  AdIsWatched'
  BY <1>0, <1>1 DEF AdIsWatched, AdsTypeOK, AllIdle, Hiding
<1>2. ASSUME NEW p \in Procs, AdPosted(p) PROVE AdIsWatched'
  <2>1. PICK ticked \in BOOLEAN, clean \in BOOLEAN : ad' = FormRow(ticked, clean)
    BY <1>2 DEF AdPosted
  <2>2. PICK n \in 0..PhotoLimit : Begin(p, [op |-> "ad_attach", posted |-> n])
    BY <1>2 DEF AdPosted
  <2>3. UNCHANGED <<reports, recent, reported, photos, crashes>> /\ ~reported
    BY <1>2, <2>2 DEF AdPosted, AdIsWatched, Begin
  <2>4. req' \in [Procs -> AdRequest \cup {Idle}]
    BY <1>0, <2>2 DEF Begin, AdsTypeOK, AdRequest
  <2>5. AdsTypeOK'
    BY <1>0, <2>1, <2>3, <2>4, FormRows DEF AdsTypeOK
  <2>6. QED
    BY <2>1, <2>3, <2>5, FormRows DEF AdIsWatched, NoAd
<1>3. ASSUME NEW p \in Procs, AdEdited(p) PROVE AdIsWatched'
  <2>1. PICK ticked \in BOOLEAN, clean \in BOOLEAN : ad' = FormRow(ticked, clean)
    BY <1>3 DEF AdEdited
  <2>2. PICK n \in 0..PhotoLimit : Begin(p, [op |-> "ad_photos", posted |-> n])
    BY <1>3 DEF AdEdited
  <2>3. UNCHANGED <<reports, recent, photos, crashes>> /\ reported' = FALSE
    BY <1>3, <2>2 DEF AdEdited, Begin
  <2>4. req' \in [Procs -> AdRequest \cup {Idle}]
    BY <1>0, <2>2 DEF Begin, AdsTypeOK, AdRequest
  <2>5. AdsTypeOK'
    BY <1>0, <2>1, <2>3, <2>4, FormRows DEF AdsTypeOK
  <2>6. QED
    BY <2>1, <2>3, <2>5, FormRows DEF AdIsWatched, NoAd
\* A step of a handler on its way that leaves the ad and its reports as they are.
<1>4. ASSUME NEW p \in Procs, NEW r \in AdRequest \cup {Idle}, ad # NoAd,
             req' = [req EXCEPT ![p] = r], UNCHANGED <<crashes, ad, reports, recent, reported>>,
             photos' \in Nat, p \in Hiding => p \in Hiding' \/ Cardinality(recent) < ReportLimit
      PROVE  AdIsWatched'
  <2>1. AdsTypeOK'
    BY <1>0, <1>4 DEF AdsTypeOK
  <2>2. \A q \in Procs : q # p => req'[q] = req[q]
    BY <1>0, <1>4 DEF AdsTypeOK
  <2>3. Hiding # {} => Hiding' # {} \/ Cardinality(recent) < ReportLimit
    BY <1>4, <2>2 DEF Hiding
  <2>4. QED
    BY <1>4, <2>1, <2>3 DEF AdIsWatched
\* Whoever is in the middle of a request, the ad is there.
<1>5. ASSUME NEW p \in Procs, req[p] # Idle PROVE ad # NoAd
  BY <1>5 DEF AdIsWatched, AllIdle
<1>6. ASSUME NEW p \in Procs, PhotosCounted(p) PROVE AdIsWatched'
  <2>1. req[p] # Idle /\ req[p].posted \in 0..PhotoLimit /\ p \notin Hiding
    BY <1>0, <1>6 DEF PhotosCounted, At, AdsTypeOK, AdRequest, Idle, Hiding
  <2> DEFINE kept == IF req[p].posted <= PhotoRoom THEN req[p].posted ELSE PhotoRoom
  <2>2. kept \in 0..PhotoLimit
    BY <1>0, <2>1, KeptPhotos DEF AdsTypeOK
  <2>3. req' = [req EXCEPT ![p] = [op |-> "ad_attach", posted |-> kept]] /\ UNCHANGED <<crashes, adVars>>
    BY <1>6 DEF PhotosCounted, Continue
  <2> HIDE DEF kept
  <2>4. [op |-> "ad_attach", posted |-> kept] \in AdRequest
    BY <2>2 DEF AdRequest
  <2>5. photos' \in Nat
    BY <1>0, <2>3 DEF AdsTypeOK
  <2>6. QED
    BY <1>4, <1>5, <2>1, <2>3, <2>4, <2>5
<1>7. ASSUME NEW p \in Procs, PhotosAttached(p) PROVE AdIsWatched'
  <2>1. req[p] # Idle /\ req[p].posted \in 0..PhotoLimit /\ p \notin Hiding
    BY <1>0, <1>7 DEF PhotosAttached, At, AdsTypeOK, AdRequest, Idle, Hiding
  <2>2. photos' \in Nat
    BY <1>0, <1>7, <2>1 DEF PhotosAttached, AdsTypeOK
  <2>3. QED
    BY <1>4, <1>5, <1>7, <2>1, <2>2 DEF PhotosAttached, End, Continue
<1>8. ASSUME NEW p \in Procs, AdPhotoDelete(p) PROVE AdIsWatched'
  <2>1. photos' \in Nat
    BY <1>0, <1>8 DEF AdPhotoDelete, AdsTypeOK
  <2>2. QED
    BY <1>1, <1>8, <2>1 DEF AdPhotoDelete
<1>9. ASSUME NEW p \in Procs,
             WithdrawAdRead(p) \/ \E u \in Reporters : ReportRead(p, u)
      PROVE  AdIsWatched'
  <2>1. PICK r \in AdRequest : Begin(p, r) /\ UNCHANGED adVars /\ ad.published
    BY <1>9 DEF WithdrawAdRead, ReportRead, AdRequest
  <2>2. ad # NoAd
    BY <2>1 DEF NoAd
  <2>3. p \notin Hiding
    BY <2>1 DEF Begin, Hiding, Idle
  <2>4. photos' \in Nat
    BY <1>0, <2>1 DEF AdsTypeOK
  <2>5. QED
    BY <1>4, <2>1, <2>2, <2>3, <2>4 DEF Begin
<1>10. ASSUME NEW p \in Procs, WithdrawAdSave(p) \/ ReportHide(p) PROVE AdIsWatched'
  <2>1. req[p] # Idle /\ Unpublish /\ End(p)
    BY <1>10 DEF WithdrawAdSave, ReportHide, At, Idle
  <2>2. ad # NoAd
    BY <1>5, <2>1
  <2>3. ad' \in AdRow /\ ~ad'.published /\ ad'.moderation # "none"
    BY <1>0, <2>1, <2>2, Unpublished DEF AdsTypeOK, AdIsWatched
  <2>6. req' \in [Procs -> AdRequest \cup {Idle}]
    BY <1>0, <2>1 DEF AdsTypeOK, End, Continue
  <2>4. AdsTypeOK'
    <3>1. UNCHANGED <<reports, recent, reported, photos>>
      BY <2>1 DEF Unpublish
    <3>2. QED
      BY <1>0, <2>3, <2>6, <3>1 DEF AdsTypeOK
  <2>5. QED
    BY <2>1, <2>3, <2>4 DEF AdIsWatched, Unpublish, End, Continue, NoAd
<1>11. ASSUME NEW p \in Procs, ReportInsert(p) PROVE AdIsWatched'
  <2>1. req[p] # Idle /\ req[p].user \in Reporters
    BY <1>0, <1>11 DEF ReportInsert, At, AdsTypeOK, AdRequest, Idle
  <2>2. ad # NoAd
    BY <1>5, <2>1
  <2>3. recent' \in {recent, recent \cup {req[p].user}} /\ recent' \subseteq reports'
    BY <1>0, <1>11 DEF ReportInsert, AdsTypeOK
  <2>4. IsFiniteSet(recent')
    <3>1. IsFiniteSet(recent)
      BY DEF AdIsWatched
    <3>2. IsFiniteSet(recent \cup {req[p].user})
      BY <3>1, FS_AddElement
    <3>3. QED
      BY ONLY <2>3, <3>1, <3>2
  <2>5. req' = [req EXCEPT ![p] = [op |-> "report_count"]] /\ UNCHANGED <<crashes, ad, photos>>
        /\ reported' = TRUE /\ reports' = reports \cup {req[p].user}
    BY <1>11 DEF ReportInsert, Continue
  <2>6. req' \in [Procs -> AdRequest \cup {Idle}]
    BY <1>0, <2>5 DEF AdsTypeOK, AdRequest
  <2>7. AdsTypeOK'
    BY <1>0, <2>1, <2>3, <2>5, <2>6 DEF AdsTypeOK
  <2>8. p \in Hiding'
    BY <1>0, <2>5 DEF AdsTypeOK, Hiding
  <2>9. QED
    BY <2>2, <2>4, <2>5, <2>7, <2>8 DEF AdIsWatched
<1>12. ASSUME NEW p \in Procs, ReportCount(p) PROVE AdIsWatched'
  <2>1. req[p] = [op |-> "report_count"] /\ req[p] # Idle
    BY <1>0, <1>12 DEF ReportCount, At, AdsTypeOK, AdRequest, Idle
  <2>2. Cardinality(recent) \in Nat
    BY FS_CardinalityType DEF AdIsWatched
  <2>3. photos' \in Nat /\ UNCHANGED <<crashes, adVars>>
    BY <1>0, <1>12 DEF ReportCount, AdsTypeOK, Goto, End, Continue
  <2>4. CASE Cardinality(recent) >= ReportLimit
    <3>1. req' = [req EXCEPT ![p] = [op |-> "report_hide"]]
      BY <1>12, <2>1, <2>4 DEF ReportCount, Goto, Continue
    <3>2. p \in Hiding'
      BY <1>0, <3>1 DEF AdsTypeOK, Hiding
    <3>3. [op |-> "report_hide"] \in AdRequest
      BY DEF AdRequest
    <3>4. QED
      BY <1>4, <1>5, <2>1, <2>3, <3>1, <3>2, <3>3
  <2>5. CASE ~(Cardinality(recent) >= ReportLimit)
    <3>1. req' = [req EXCEPT ![p] = Idle]
      BY <1>12, <2>5 DEF ReportCount, End, Continue
    <3>2. Cardinality(recent) < ReportLimit
      BY <2>2, <2>5
    <3>3. QED
      BY <1>4, <1>5, <2>1, <2>3, <3>1, <3>2
  <2>6. QED
    BY <2>4, <2>5
<1>13. ASSUME NEW p \in Procs, AdsCrash(p) PROVE AdIsWatched'
  <2>1. crashes' = crashes + 1 /\ req' = [req EXCEPT ![p] = Idle] /\ req[p] # Idle /\ UNCHANGED adVars
    BY <1>13 DEF AdsCrash, Crash
  <2>2. ad # NoAd
    BY <1>5, <2>1
  <2>3. AdsTypeOK'
    BY <1>0, <2>1 DEF AdsTypeOK
  <2>4. QED
    BY <2>1, <2>2, <2>3 DEF AdIsWatched
<1>14. CASE WeekPasses
  <2>1. AdsTypeOK' /\ IsFiniteSet(recent') /\ Cardinality(recent') = 0
    BY <1>0, <1>14, FS_EmptySet DEF WeekPasses, AdsTypeOK
  <2>2. QED
    BY <1>14, <2>1 DEF AdIsWatched, WeekPasses, AllIdle
<1>15. CASE UNCHANGED <<workerVars, adVars>>
  BY <1>0, <1>1, <1>15 DEF AdsTypeOK
<1>16. QED
  BY <1>2, <1>3, <1>6, <1>7, <1>8, <1>9, <1>10, <1>11, <1>12, <1>13, <1>14, <1>15 DEF AdsNext, AdStep

LEMMA AdInOrder == AdIsWatched => WhatIsPublished
BY DEF AdIsWatched, WhatIsPublished, AllIdle, Hiding, Idle

\* However edits, withdrawals and reports overlap, what is on the site has no
\* contacts in its text and has not been reported by too many.
THEOREM PublishedIsInOrder == AdsSpec => []WhatIsPublished
BY AdInit, AdStepKeeps, AdInOrder, PTL DEF AdsSpec

-----------------------------------------------------------------------------
(* AntiFraud.                                                              *)

\* A task knows its photo as it is, unless that has been deleted.
TaskKnowsItsPhoto ==
    \A p \in Procs : req[p] # Idle =>
        LET i == req[p].photo
        IN  photo[i] = DeletedPhoto
            \/ (Stored(i) /\ photo[i].owner = req[p].owner /\ photo[i].picture = req[p].picture)

Checking(i) == \E p \in Procs : At(p, "hash_check") /\ req[p].photo = i

\* Of two owners of one picture one is flagged, or the task of one of the photos is
\* still to look for others.
DuplicatesAreSought ==
    crashes = 0 =>
        \A i, j \in Hashed : photo[i].picture = photo[j].picture /\ photo[i].owner # photo[j].owner
            => {photo[i].owner, photo[j].owner} \cap suspicious # {} \/ Checking(i) \/ Checking(j)

FraudIsSought == AntiFraudTypeOK /\ crashes \in Nat /\ TaskKnowsItsPhoto /\ DuplicatesAreSought

LEMMA FraudInit == WorkersInit /\ AntiFraudInit => FraudIsSought
<1> SUFFICES ASSUME WorkersInit, AntiFraudInit PROVE FraudIsSought
  OBVIOUS
<1>1. AntiFraudTypeOK
  BY DEF WorkersInit, AntiFraudInit, AntiFraudTypeOK, PhotoRow
<1>2. TaskKnowsItsPhoto
  BY DEF WorkersInit, TaskKnowsItsPhoto
<1>3. Hashed = {}
  BY DEF AntiFraudInit, Hashed, NoPhoto
<1>4. QED
  BY <1>1, <1>2, <1>3 DEF FraudIsSought, DuplicatesAreSought, WorkersInit

\* What the row of a photo is, by its state.
LEMMA PhotoStates ==
    ASSUME AntiFraudTypeOK, NEW i \in Photos
    PROVE  /\ photo[i] = NoPhoto <=> photo[i].state = "none"
           /\ photo[i] = DeletedPhoto <=> photo[i].state = "deleted"
           /\ Stored(i) => photo[i] \in [state : {"stored", "hashed"}, owner : Sellers,
                                         picture : Pictures \cup {Unreadable}]
BY DEF AntiFraudTypeOK, PhotoRow, NoPhoto, DeletedPhoto, Stored

LEMMA FraudStep == FraudIsSought /\ [AntiFraudNext]_<<workerVars, fraudVars>> => FraudIsSought'
<1> SUFFICES ASSUME FraudIsSought, [AntiFraudNext]_<<workerVars, fraudVars>> PROVE FraudIsSought'
  OBVIOUS
<1>0. AntiFraudTypeOK /\ crashes \in Nat /\ TaskKnowsItsPhoto /\ DuplicatesAreSought
  BY DEF FraudIsSought
<1>1. ASSUME NEW p \in Procs, req[p] # Idle
      PROVE  req[p] \in FraudRequest /\ req[p].photo \in Photos /\ req[p].owner \in Sellers
  BY <1>0, <1>1 DEF AntiFraudTypeOK, FraudRequest
\* The rows of hashed photos stay, whoever checked still does, and no flag is taken.
<1>2. ASSUME AntiFraudTypeOK', crashes' \in Nat, crashes' = 0 => crashes = 0,
             TaskKnowsItsPhoto',
             \A i \in Hashed' : i \in Hashed /\ photo'[i] = photo[i],
             \A i \in Photos : crashes' = 0 /\ Checking(i) => Checking(i)', suspicious \subseteq suspicious'
      PROVE  FraudIsSought'
  <2>1. \A i \in Hashed : i \in Photos
    BY DEF Hashed
  <2>2. DuplicatesAreSought'
    <3> SUFFICES ASSUME crashes' = 0, NEW i \in Hashed', NEW j \in Hashed',
                        photo'[i].picture = photo'[j].picture, photo'[i].owner # photo'[j].owner
                 PROVE  {photo'[i].owner, photo'[j].owner} \cap suspicious' # {} \/ Checking(i)' \/ Checking(j)'
      BY DEF DuplicatesAreSought
    <3>1. {photo[i].owner, photo[j].owner} \cap suspicious # {} \/ Checking(i) \/ Checking(j)
      BY <1>0, <1>2 DEF DuplicatesAreSought
    <3>2. photo'[i] = photo[i] /\ photo'[j] = photo[j] /\ i \in Photos /\ j \in Photos
      BY <1>2, <2>1
    <3>3. QED
      BY <1>2, <3>1, <3>2
  <2>3. QED
    BY <1>2, <2>2 DEF FraudIsSought
<1>3. ASSUME NEW u \in Sellers, NEW picture \in Pictures \cup {Unreadable}, PhotoPosted(u, picture)
      PROVE  FraudIsSought'
  <2>1. PICK i \in Photos :
           /\ photo[i] = NoPhoto
           /\ photo' = [photo EXCEPT ![i] = [state |-> "stored", owner |-> u, picture |-> picture]]
           /\ hashQueue' \in {hashQueue, hashQueue \cup {i}}
    BY <1>3 DEF PhotoPosted
  <2>2. UNCHANGED <<suspicious, req, crashes>>
    BY <1>3 DEF PhotoPosted
  <2> DEFINE row == [state |-> "stored", owner |-> u, picture |-> picture]
  <2>3. row \in PhotoRow /\ row.state = "stored"
    BY DEF PhotoRow
  <2>4. photo' = [photo EXCEPT ![i] = row]
    BY <2>1
  <2> HIDE DEF row
  <2>5. AntiFraudTypeOK'
    BY <1>0, <2>1, <2>2, <2>3, <2>4 DEF AntiFraudTypeOK
  <2>6. \A j \in Photos : j # i => photo'[j] = photo[j]
    BY <1>0, <2>4 DEF AntiFraudTypeOK
  <2>7. \A j \in Hashed' : j \in Hashed /\ photo'[j] = photo[j]
    BY <1>0, <2>3, <2>4, <2>6 DEF Hashed, AntiFraudTypeOK
  <2>8. \A p \in Procs : req[p] # Idle => req[p].photo # i
    BY <1>0, <1>1, <2>1, PhotoStates DEF TaskKnowsItsPhoto, Stored, NoPhoto, DeletedPhoto
  <2>9. TaskKnowsItsPhoto'
    BY <1>0, <1>1, <2>2, <2>6, <2>8 DEF TaskKnowsItsPhoto, Stored
  <2>10. \A j \in Photos : Checking(j) => Checking(j)'
    BY <2>2 DEF Checking, At
  <2>11. QED
    BY <1>0, <1>2, <2>2, <2>5, <2>7, <2>9, <2>10
<1>4. ASSUME NEW i \in Photos, PhotoDeleted(i) PROVE FraudIsSought'
  <2>1. photo' = [photo EXCEPT ![i] = DeletedPhoto] /\ UNCHANGED <<hashQueue, suspicious, req, crashes>>
    BY <1>4 DEF PhotoDeleted
  <2>2. AntiFraudTypeOK'
    BY <1>0, <2>1 DEF AntiFraudTypeOK, PhotoRow
  <2>3. \A j \in Photos : j # i => photo'[j] = photo[j]
    BY <1>0, <2>1 DEF AntiFraudTypeOK
  <2>4. photo'[i] = DeletedPhoto
    BY <1>0, <2>1 DEF AntiFraudTypeOK
  <2>5. \A j \in Hashed' : j \in Hashed /\ photo'[j] = photo[j]
    BY <2>3, <2>4 DEF Hashed, DeletedPhoto
  <2>6. TaskKnowsItsPhoto'
    BY <1>0, <1>1, <2>1, <2>3, <2>4 DEF TaskKnowsItsPhoto, Stored
  <2>7. \A j \in Photos : Checking(j) => Checking(j)'
    BY <2>1 DEF Checking, At
  <2>8. QED
    BY <1>0, <1>2, <2>1, <2>2, <2>5, <2>6, <2>7
<1>5. ASSUME NEW p \in Procs, NEW i \in Photos, HashRead(p, i) PROVE FraudIsSought'
  <2>1. hashQueue' \subseteq Photos /\ UNCHANGED <<photo, suspicious, crashes>>
    BY <1>0, <1>5 DEF HashRead, AntiFraudTypeOK, Begin
  <2>2. CASE UNCHANGED req
    <3>1. AntiFraudTypeOK' /\ TaskKnowsItsPhoto'
      BY <1>0, <2>1, <2>2 DEF AntiFraudTypeOK, TaskKnowsItsPhoto, Stored
    <3>2. Hashed' = Hashed /\ \A j \in Photos : Checking(j) => Checking(j)'
      BY <2>1, <2>2 DEF Hashed, Checking, At
    <3>3. QED
      BY <1>0, <1>2, <2>1, <3>1, <3>2
  <2>3. CASE ~UNCHANGED req
    <3>1. /\ Readable(i) /\ req[p] = Idle
          /\ req' = [req EXCEPT ![p] = [op |-> "hash_save", photo |-> i, owner |-> photo[i].owner,
                                        picture |-> photo[i].picture]]
      BY <1>5, <2>3 DEF HashRead, Begin
    <3>2. Stored(i) /\ photo[i].owner \in Sellers /\ photo[i].picture \in Pictures
      BY <1>0, <3>1, PhotoStates DEF Readable
    <3> DEFINE r == [op |-> "hash_save", photo |-> i, owner |-> photo[i].owner,
                     picture |-> photo[i].picture]
    <3>3. r \in FraudRequest /\ r.photo = i /\ r.owner = photo[i].owner /\ r.picture = photo[i].picture
      BY <3>2 DEF FraudRequest
    <3>4. req' = [req EXCEPT ![p] = r]
      BY <3>1
    <3> HIDE DEF r
    <3>5. AntiFraudTypeOK'
      BY <1>0, <2>1, <3>3, <3>4 DEF AntiFraudTypeOK
    <3>6. \A q \in Procs : req'[q] = IF q = p THEN r ELSE req[q]
      BY <1>0, <3>4 DEF AntiFraudTypeOK
    <3>7. TaskKnowsItsPhoto'
      BY <1>0, <2>1, <3>2, <3>3, <3>6 DEF TaskKnowsItsPhoto, Stored
    <3>8. Hashed' = Hashed /\ \A j \in Photos : Checking(j) => Checking(j)'
      BY <2>1, <3>1, <3>6 DEF Hashed, Checking, At, Idle
    <3>9. QED
      BY <1>0, <1>2, <2>1, <3>5, <3>7, <3>8
  <2>4. QED
    BY <2>2, <2>3
<1>6. ASSUME NEW p \in Procs, HashSave(p) PROVE FraudIsSought'
  <2>1. req[p] # Idle /\ At(p, "hash_save")
    BY <1>6 DEF HashSave, At, Idle
  <2>2. req[p] \in FraudRequest /\ req[p].photo \in Photos
    BY <1>1, <2>1
  <2>0. PICK i \in Photos : i = req[p].photo
    BY <2>2
  <2>3. UNCHANGED <<hashQueue, suspicious, crashes>>
    BY <1>6 DEF HashSave, Goto, End, Continue
  <2>4. CASE ~Stored(i)
    <3>1. req' = [req EXCEPT ![p] = Idle] /\ UNCHANGED photo
      BY <1>6, <2>0, <2>4 DEF HashSave, End, Continue
    <3>2. AntiFraudTypeOK'
      BY <1>0, <2>3, <3>1 DEF AntiFraudTypeOK
    <3>3. \A q \in Procs : q # p => req'[q] = req[q]
      BY <1>0, <3>1 DEF AntiFraudTypeOK
    <3>4. req'[p] = Idle
      BY <1>0, <3>1 DEF AntiFraudTypeOK
    <3>5. TaskKnowsItsPhoto'
      BY <1>0, <3>1, <3>3, <3>4 DEF TaskKnowsItsPhoto, Stored
    <3>6. Hashed' = Hashed /\ \A j \in Photos : Checking(j) => Checking(j)'
      BY <2>1, <3>1, <3>3 DEF Hashed, Checking, At
    <3>7. QED
      BY <1>0, <1>2, <2>3, <3>1, <3>2, <3>5, <3>6
  <2>5. CASE Stored(i)
    <3>1. photo' = [photo EXCEPT ![i].state = "hashed"] /\ Goto(p, "hash_check")
      BY <1>6, <2>0, <2>5 DEF HashSave
    <3>2. photo[i] \in [state : {"stored", "hashed"}, owner : Sellers, picture : Pictures \cup {Unreadable}]
      BY <1>0, <2>2, <2>5, PhotoStates
    <3> DEFINE r == [req[p] EXCEPT !.op = "hash_check"]
               row == [photo[i] EXCEPT !.state = "hashed"]
    <3>3. /\ r \in FraudRequest /\ r.photo = i /\ r.owner = req[p].owner /\ r.picture = req[p].picture
          /\ r.op = "hash_check"
      BY <2>0, <2>2 DEF FraudRequest
    <3>4. row \in PhotoRow /\ row.owner = photo[i].owner /\ row.picture = photo[i].picture /\ row.state = "hashed"
      BY <3>2 DEF PhotoRow
    <3>5. req' = [req EXCEPT ![p] = r] /\ photo' = [photo EXCEPT ![i] = row]
      BY <3>1 DEF Goto, Continue
    <3>6. i \in Photos
      BY <2>0
    <3> HIDE DEF r, row
    <3>7. AntiFraudTypeOK'
      BY <1>0, <2>3, <3>3, <3>4, <3>5 DEF AntiFraudTypeOK
    <3>8. \A q \in Procs : req'[q] = IF q = p THEN r ELSE req[q]
      BY <1>0, <3>5 DEF AntiFraudTypeOK
    <3>9. \A j \in Photos : photo'[j] = IF j = i THEN row ELSE photo[j]
      BY <1>0, <3>5 DEF AntiFraudTypeOK
    <3>10. photo[i].owner = req[p].owner /\ photo[i].picture = req[p].picture
      BY <1>0, <2>0, <2>1, <2>5 DEF TaskKnowsItsPhoto, Stored, DeletedPhoto
    <3>11. TaskKnowsItsPhoto'
      <4> SUFFICES ASSUME NEW q \in Procs, req'[q] # Idle
                   PROVE  \/ photo'[req'[q].photo] = DeletedPhoto
                          \/ /\ photo'[req'[q].photo].state \in {"stored", "hashed"}
                             /\ photo'[req'[q].photo].owner = req'[q].owner
                             /\ photo'[req'[q].photo].picture = req'[q].picture
        BY DEF TaskKnowsItsPhoto, Stored
      <4>1. CASE q = p
        BY <3>3, <3>4, <3>6, <3>8, <3>9, <3>10, <4>1
      <4>2. CASE q # p /\ req[q].photo = i
        BY <1>0, <2>5, <3>4, <3>6, <3>8, <3>9, <4>2 DEF TaskKnowsItsPhoto, Stored, DeletedPhoto
      <4>3. CASE q # p /\ req[q].photo # i
        BY <1>0, <1>1, <3>8, <3>9, <4>3 DEF TaskKnowsItsPhoto, Stored
      <4>4. QED
        BY <4>1, <4>2, <4>3
    <3>12. Checking(i)'
      BY <3>3, <3>8 DEF Checking, At
    <3>13. \A j \in Photos : Checking(j) => Checking(j)'
      BY <2>0, <2>1, <3>8, <3>12 DEF Checking, At
    <3>14. DuplicatesAreSought'
      <4> SUFFICES ASSUME crashes' = 0, NEW j \in Hashed', NEW k \in Hashed',
                          photo'[j].picture = photo'[k].picture, photo'[j].owner # photo'[k].owner
                   PROVE  {photo'[j].owner, photo'[k].owner} \cap suspicious' # {} \/ Checking(j)' \/ Checking(k)'
        BY DEF DuplicatesAreSought
      <4>1. CASE j = i \/ k = i
        BY <3>12, <4>1
      <4>2. CASE j # i /\ k # i
        <5>1. j \in Photos /\ k \in Photos
          BY DEF Hashed
        <5>2. photo'[j] = photo[j] /\ photo'[k] = photo[k]
          BY <3>9, <4>2, <5>1
        <5>3. j \in Hashed /\ k \in Hashed
          BY <5>1, <5>2 DEF Hashed
        <5>4. {photo[j].owner, photo[k].owner} \cap suspicious # {} \/ Checking(j) \/ Checking(k)
          BY <1>0, <2>3, <5>2, <5>3 DEF DuplicatesAreSought
        <5>5. QED
          BY <2>3, <3>13, <5>1, <5>2, <5>4
      <4>3. QED
        BY <4>1, <4>2
    <3>15. QED
      BY <1>0, <2>3, <3>7, <3>11, <3>14 DEF FraudIsSought
  <2>6. QED
    BY <2>4, <2>5
<1>7. ASSUME NEW p \in Procs, HashCheck(p) PROVE FraudIsSought'
  <2>1. req[p] # Idle /\ At(p, "hash_check")
    BY <1>7 DEF HashCheck, At, Idle
  <2>2. req[p] \in FraudRequest /\ req[p].photo \in Photos /\ req[p].owner \in Sellers
    BY <1>1, <2>1
  <2>3. req' = [req EXCEPT ![p] = Idle] /\ UNCHANGED <<photo, hashQueue, crashes>>
    BY <1>7 DEF HashCheck, End, Continue
  <2>4. suspicious \subseteq suspicious' /\ suspicious' \subseteq Sellers
    BY <1>0, <1>7, <2>2 DEF HashCheck, AntiFraudTypeOK
  <2>5. AntiFraudTypeOK'
    BY <1>0, <2>3, <2>4 DEF AntiFraudTypeOK
  <2>6. \A q \in Procs : req'[q] = IF q = p THEN Idle ELSE req[q]
    BY <1>0, <2>3 DEF AntiFraudTypeOK
  <2>7. TaskKnowsItsPhoto'
    BY <1>0, <2>3, <2>6 DEF TaskKnowsItsPhoto, Stored
  <2>8. \A j \in Photos : Checking(j) => Checking(j)' \/ j = req[p].photo
    BY <2>6 DEF Checking, At
  \* Whoever has the picture of the task, the task flags its owner.
  <2>9. ASSUME NEW j \in Hashed, req[p].photo \in Hashed,
               photo[j].picture = photo[req[p].photo].picture, photo[j].owner # photo[req[p].photo].owner
        PROVE  photo[req[p].photo].owner \in suspicious'
    <3>1. photo[req[p].photo].owner = req[p].owner /\ photo[req[p].photo].picture = req[p].picture
      BY <1>0, <2>1, <2>9 DEF TaskKnowsItsPhoto, Hashed, DeletedPhoto
    <3>2. j \in Duplicates(req[p])
      BY <2>9, <3>1 DEF Duplicates
    <3>3. QED
      BY <1>7, <3>1, <3>2 DEF HashCheck
  <2>10. DuplicatesAreSought'
    <3> SUFFICES ASSUME crashes' = 0, NEW j \in Hashed', NEW k \in Hashed',
                        photo'[j].picture = photo'[k].picture, photo'[j].owner # photo'[k].owner
                 PROVE  {photo'[j].owner, photo'[k].owner} \cap suspicious' # {} \/ Checking(j)' \/ Checking(k)'
      BY DEF DuplicatesAreSought
    <3>1. j \in Hashed /\ k \in Hashed /\ j \in Photos /\ k \in Photos /\ photo' = photo
      BY <2>3 DEF Hashed
    <3>2. CASE j = req[p].photo
      BY <2>9, <3>1, <3>2
    <3>3. CASE k = req[p].photo
      BY <2>9, <3>1, <3>3
    <3>4. CASE j # req[p].photo /\ k # req[p].photo
      <4>1. {photo[j].owner, photo[k].owner} \cap suspicious # {} \/ Checking(j) \/ Checking(k)
        BY <1>0, <2>3, <3>1 DEF DuplicatesAreSought
      <4>2. QED
        BY <2>4, <2>8, <3>1, <3>4, <4>1
    <3>5. QED
      BY <3>2, <3>3, <3>4
  <2>11. QED
    BY <1>0, <2>3, <2>5, <2>7, <2>10 DEF FraudIsSought
<1>8. ASSUME NEW p \in Procs, AntiFraudCrash(p) PROVE FraudIsSought'
  <2>1. req' = [req EXCEPT ![p] = Idle] /\ crashes' = crashes + 1 /\ UNCHANGED fraudVars
    BY <1>8 DEF AntiFraudCrash, Crash
  <2>2. AntiFraudTypeOK' /\ crashes' \in Nat /\ crashes' # 0
    BY <1>0, <2>1 DEF AntiFraudTypeOK
  <2>3. \A q \in Procs : req'[q] = IF q = p THEN Idle ELSE req[q]
    BY <1>0, <2>1 DEF AntiFraudTypeOK
  <2>4. TaskKnowsItsPhoto'
    BY <1>0, <2>1, <2>3 DEF TaskKnowsItsPhoto, Stored
  <2>5. QED
    BY <2>2, <2>4 DEF FraudIsSought, DuplicatesAreSought
<1>9. CASE UNCHANGED <<workerVars, fraudVars>>
  <2>1. AntiFraudTypeOK' /\ TaskKnowsItsPhoto'
    BY <1>0, <1>9 DEF AntiFraudTypeOK, TaskKnowsItsPhoto, Stored
  <2>2. Hashed' = Hashed /\ \A j \in Photos : Checking(j) => Checking(j)'
    BY <1>9 DEF Hashed, Checking, At
  <2>3. QED
    BY <1>0, <1>2, <1>9, <2>1, <2>2
<1>10. QED
  BY <1>3, <1>4, <1>5, <1>6, <1>7, <1>8, <1>9 DEF AntiFraudNext, AntiFraudStep

LEMMA FraudFlagged == FraudIsSought => DuplicateIsFlagged
BY DEF FraudIsSought, DuplicatesAreSought, DuplicateIsFlagged, Checking, AllIdle, At, Idle

\* In whatever order the tasks run and overlap, and whatever is posted and deleted
\* meanwhile, of two owners of one picture one is flagged.
THEOREM DuplicatesAreFlagged == AntiFraudSpec => []DuplicateIsFlagged
BY FraudInit, FraudStep, FraudFlagged, PTL DEF AntiFraudSpec

-----------------------------------------------------------------------------
(* AdVisitors.                                                             *)

SessionOps == {"ad_count", "ad_seen", "session_save"}

\* What a session holds was counted, and so was what a request is about to save in
\* it; an author was thanked for the review there is.
SessionCounted == \A a \in session : views[a] >= 1
Thanks == [u \in Reviewers |-> IF opinion[u] = None THEN << >> ELSE <<opinion[u].stars>>]

VisitsAreSound ==
    /\ AdVisitorsTypeOK
    /\ SessionCounted
    /\ thanked = Thanks
    /\ \A p \in Procs : req[p].op \in SessionOps => \A a \in req[p].seen : views[a] >= 1
    /\ \A p \in Procs : At(p, "ad_seen") => views[req[p].ad] >= 1

LEMMA VisitsInit == WorkersInit /\ VisitorsInit => VisitsAreSound
<1> SUFFICES ASSUME WorkersInit, VisitorsInit PROVE VisitsAreSound
  OBVIOUS
<1>1. AdVisitorsTypeOK
  BY DEF WorkersInit, VisitorsInit, AdVisitorsTypeOK
<1>2. SessionCounted /\ thanked = Thanks
  BY DEF VisitorsInit, SessionCounted, Thanks
<1>3. QED
  BY <1>1, <1>2 DEF VisitsAreSound, WorkersInit, At, Idle, SessionOps

\* A city of a list is one the session may have.
LEMMA EnsuredIsLabel ==
    ASSUME NEW list \in CityLists
    PROVE  EnsuredCity(list) \in CityLabels /\ EnsuredCity(list) \in CitiesOf(list)
<1>1. list[1] \in CitiesOf(list)
  BY AdVisitorsAssumption DEF CitiesOf
<1>2. EnsuredCity(list) \in CitiesOf(list)
  BY <1>1 DEF EnsuredCity
<1>3. QED
  BY <1>2 DEF CityLabels

\* A request of each handler.
LEMMA VisitorAt ==
    ASSUME AdVisitorsTypeOK, NEW p \in Procs
    PROVE  /\ At(p, "ad_count") \/ At(p, "ad_seen") =>
                 req[p] \in [op : {"ad_count", "ad_seen"}, ad : VisitedAds, seen : SUBSET VisitedAds,
                             city : CityLabels]
           /\ At(p, "session_save") =>
                 req[p] \in [op : {"session_save"}, seen : SUBSET VisitedAds, city : CityLabels,
                             told : CityLabels \cup {NoCity}]
           /\ At(p, "favourite_decide") =>
                 req[p] \in [op : {"favourite_decide"}, ad : VisitedAds, was : BOOLEAN]
           /\ At(p, "favourite_write") =>
                 req[p] \in [op : {"favourite_write"}, ad : VisitedAds, was : BOOLEAN, add : BOOLEAN]
           /\ At(p, "opinion_save") =>
                 req[p] \in [op : {"opinion_save"}, author : Reviewers, stars : Stars]
BY DEF AdVisitorsTypeOK, VisitorRequest, At, Idle

\* Who was thanked, was thanked for stars.
LEMMA ThanksAreStars ==
    ASSUME NEW o \in [Reviewers -> Opinion \cup {None}], NEW u \in Reviewers,
           NEW t, t = IF o[u] = None THEN << >> ELSE <<o[u].stars>>
    PROVE  \A i \in DOMAIN t : t[i] \in Stars
BY DEF Opinion

LEMMA VisitsStep == VisitsAreSound /\ [VisitorsNext]_<<workerVars, visitorVars>> => VisitsAreSound'
<1> SUFFICES ASSUME VisitsAreSound, [VisitorsNext]_<<workerVars, visitorVars>> PROVE VisitsAreSound'
  OBVIOUS
<1>0. AdVisitorsTypeOK /\ SessionCounted /\ thanked = Thanks
  BY DEF VisitsAreSound
\* A step that only changes the request of a worker.
<1>1. ASSUME NEW p \in Procs, NEW r \in VisitorRequest \cup {Idle}, req' = [req EXCEPT ![p] = r],
             UNCHANGED visitorVars,
             r.op \in SessionOps => (r.op # "ad_seen" /\ \A a \in r.seen : views[a] >= 1)
      PROVE  VisitsAreSound'
  <2>1. AdVisitorsTypeOK'
    BY <1>0, <1>1 DEF AdVisitorsTypeOK
  <2>2. \A q \in Procs : req'[q] = IF q = p THEN r ELSE req[q]
    BY <1>0, <1>1 DEF AdVisitorsTypeOK
  <2>3. SessionCounted' /\ thanked' = Thanks'
    BY <1>0, <1>1 DEF SessionCounted, Thanks
  <2>4. \A q \in Procs : req'[q].op \in SessionOps => \A a \in req'[q].seen : views'[a] >= 1
    BY <1>1, <2>2 DEF VisitsAreSound
  <2>5. \A q \in Procs : req'[q].op = "ad_seen" => views'[req'[q].ad] >= 1
    BY <1>1, <2>2 DEF VisitsAreSound, At, SessionOps
  <2>6. QED
    BY <2>1, <2>3, <2>4, <2>5 DEF VisitsAreSound, At
\* A step that ends a request and leaves views, reviews and thanks as they are.
<1>2. ASSUME NEW p \in Procs, End(p), UNCHANGED <<views, opinion, thanked>>, AdVisitorsTypeOK',
             \A a \in session' : views[a] >= 1
      PROVE  VisitsAreSound'
  <2>1. \A q \in Procs : req'[q] = IF q = p THEN Idle ELSE req[q]
    BY <1>0, <1>2 DEF AdVisitorsTypeOK, End, Continue
  <2>2. SessionCounted' /\ thanked' = Thanks'
    BY <1>0, <1>2 DEF SessionCounted, Thanks
  <2>3. \A q \in Procs : req'[q].op \in SessionOps => \A a \in req'[q].seen : views'[a] >= 1
    BY <1>2, <2>1 DEF VisitsAreSound, Idle, SessionOps
  <2>4. \A q \in Procs : req'[q].op = "ad_seen" => views'[req'[q].ad] >= 1
    BY <1>2, <2>1 DEF VisitsAreSound, At, Idle
  <2>5. QED
    BY <1>2, <2>2, <2>3, <2>4 DEF VisitsAreSound, At
<1>3. ASSUME NEW p \in Procs, NEW a \in VisitedAds, AdOpened(p, a) PROVE VisitsAreSound'
  <2>1. PICK list \in CityLists :
           Begin(p, [op |-> "ad_count", ad |-> a, seen |-> session, city |-> EnsuredCity(list)])
    BY <1>3 DEF AdOpened
  <2> DEFINE r == [op |-> "ad_count", ad |-> a, seen |-> session, city |-> EnsuredCity(list)]
  <2>2. r \in VisitorRequest /\ r.op = "ad_count" /\ r.seen = session
    BY <1>0, EnsuredIsLabel DEF AdVisitorsTypeOK, VisitorRequest
  <2>3. req' = [req EXCEPT ![p] = r] /\ UNCHANGED visitorVars
    BY <1>3, <2>1 DEF AdOpened, Begin
  <2> HIDE DEF r
  <2>4. QED
    BY <1>0, <1>1, <2>2, <2>3 DEF SessionCounted
<1>4. ASSUME NEW p \in Procs, PageOpened(p) \/ CityChosen(p) PROVE VisitsAreSound'
  <2>1. PICK c \in CityLabels, told \in CityLabels \cup {NoCity} :
           Begin(p, [op |-> "session_save", seen |-> session, city |-> c, told |-> told])
    <3>1. CASE PageOpened(p)
      BY <3>1, EnsuredIsLabel DEF PageOpened
    <3>2. CASE CityChosen(p)
      <4>1. PICK list \in CityLists, label \in CityLabels :
               Begin(p, [op |-> "session_save", seen |-> session,
                         city |-> IF label \in CitiesOf(list) THEN label ELSE EnsuredCity(list),
                         told |-> IF label \in CitiesOf(list) THEN label ELSE NoCity])
        BY <3>2 DEF CityChosen
      <4>2. QED
        BY <4>1, EnsuredIsLabel
    <3>3. QED
      BY <1>4, <3>1, <3>2
  <2> DEFINE r == [op |-> "session_save", seen |-> session, city |-> c, told |-> told]
  <2>2. r \in VisitorRequest /\ r.op = "session_save" /\ r.seen = session
    BY <1>0 DEF AdVisitorsTypeOK, VisitorRequest
  <2>3. req' = [req EXCEPT ![p] = r] /\ UNCHANGED visitorVars
    BY <1>4, <2>1 DEF PageOpened, CityChosen, Begin
  <2> HIDE DEF r
  <2>4. QED
    BY <1>0, <1>1, <2>2, <2>3 DEF SessionCounted
<1>5. ASSUME NEW p \in Procs, NEW a \in VisitedAds, FavouriteRead(p, a) PROVE VisitsAreSound'
  <2> DEFINE r == [op |-> "favourite_decide", ad |-> a, was |-> a \in favourite]
  <2>1. r \in VisitorRequest /\ r.op = "favourite_decide"
    BY DEF VisitorRequest
  <2>2. req' = [req EXCEPT ![p] = r] /\ UNCHANGED visitorVars
    BY <1>5 DEF FavouriteRead, Begin
  <2> HIDE DEF r
  <2>3. QED
    BY <1>1, <2>1, <2>2 DEF SessionOps
<1>6. ASSUME NEW p \in Procs, FavouriteDecide(p) PROVE VisitsAreSound'
  <2>1. req[p].ad \in VisitedAds /\ req[p].was \in BOOLEAN
    BY <1>0, <1>6, VisitorAt DEF FavouriteDecide
  <2> DEFINE r == [op |-> "favourite_write", ad |-> req[p].ad, was |-> req[p].was,
                   add |-> req[p].ad \notin favourite]
  <2>2. r \in VisitorRequest /\ r.op = "favourite_write"
    BY <2>1 DEF VisitorRequest
  <2>3. req' = [req EXCEPT ![p] = r] /\ UNCHANGED visitorVars
    BY <1>6 DEF FavouriteDecide, Continue
  <2> HIDE DEF r
  <2>4. QED
    BY <1>1, <2>2, <2>3 DEF SessionOps
<1>7. ASSUME NEW p \in Procs, NEW u \in Reviewers, OpinionRead(p, u) PROVE VisitsAreSound'
  <2>1. PICK n \in Stars : Begin(p, [op |-> "opinion_save", author |-> u, stars |-> n])
    BY <1>7 DEF OpinionRead
  <2> DEFINE r == [op |-> "opinion_save", author |-> u, stars |-> n]
  <2>2. r \in VisitorRequest /\ r.op = "opinion_save"
    BY DEF VisitorRequest
  <2>3. req' = [req EXCEPT ![p] = r] /\ UNCHANGED visitorVars
    BY <1>7, <2>1 DEF OpinionRead, Begin
  <2> HIDE DEF r
  <2>4. QED
    BY <1>1, <2>2, <2>3 DEF SessionOps
<1>8. ASSUME NEW p \in Procs, VisitorsCrash(p) PROVE VisitsAreSound'
  BY <1>1, <1>8 DEF VisitorsCrash, Crash, Idle, SessionOps
<1>9. ASSUME NEW p \in Procs, AdCounted(p) PROVE VisitsAreSound'
  <2>1. req[p] \in [op : {"ad_count", "ad_seen"}, ad : VisitedAds, seen : SUBSET VisitedAds,
                    city : CityLabels]
    BY <1>0, <1>9, VisitorAt DEF AdCounted
  <2> DEFINE r == [req[p] EXCEPT !.op = "ad_seen"]
             b == req[p].ad
  <2>2. r \in VisitorRequest /\ r.op = "ad_seen" /\ r.seen = req[p].seen /\ r.ad = b /\ b \in VisitedAds
    BY <2>1 DEF VisitorRequest
  <2>3. /\ req' = [req EXCEPT ![p] = r] /\ views' = [views EXCEPT ![b] = @ + 1]
        /\ UNCHANGED <<session, city, chosen, favourite, button, opinion, thanked>>
    BY <1>9 DEF AdCounted, Goto, Continue
  <2>4. \A a \in req[p].seen : views[a] >= 1
    BY <1>9 DEF AdCounted, At, VisitsAreSound, SessionOps
  <2>9. \A q \in Procs : req[q].op \in SessionOps => req[q].seen \subseteq VisitedAds
    BY <1>0, VisitorAt DEF At, SessionOps
  <2>10. \A q \in Procs : req[q].op = "ad_seen" => req[q].ad \in VisitedAds
    BY <1>0, VisitorAt DEF At
  <2> HIDE DEF r, b
  <2>5. AdVisitorsTypeOK'
    BY <1>0, <2>2, <2>3 DEF AdVisitorsTypeOK
  <2>6. \A a \in VisitedAds : views'[a] >= views[a] /\ views[a] \in Nat /\ views'[a] \in Nat
    BY <1>0, <2>2, <2>3 DEF AdVisitorsTypeOK
  <2>7. views'[b] >= 1
    BY <1>0, <2>2, <2>3 DEF AdVisitorsTypeOK
  <2>8. \A q \in Procs : req'[q] = IF q = p THEN r ELSE req[q]
    BY <1>0, <2>3 DEF AdVisitorsTypeOK
  <2>11. SessionCounted' /\ thanked' = Thanks'
    BY <1>0, <2>3, <2>6 DEF SessionCounted, Thanks, AdVisitorsTypeOK
  <2>12. \A q \in Procs : req'[q].op \in SessionOps => \A a \in req'[q].seen : views'[a] >= 1
    <3> SUFFICES ASSUME NEW q \in Procs, req'[q].op \in SessionOps, NEW a \in req'[q].seen
                 PROVE  views'[a] >= 1
      OBVIOUS
    <3>1. CASE q = p
      <4>1. a \in req[p].seen /\ a \in VisitedAds
        BY <2>1, <2>2, <2>8, <3>1
      <4>2. QED
        BY <2>4, <2>6, <4>1
    <3>2. CASE q # p
      <4>1. req[q].op \in SessionOps /\ a \in req[q].seen /\ a \in VisitedAds
        BY <2>8, <2>9, <3>2
      <4>2. views[a] >= 1
        BY <4>1 DEF VisitsAreSound
      <4>3. QED
        BY <2>6, <4>1, <4>2
    <3>3. QED
      BY <3>1, <3>2
  <2>13. \A q \in Procs : req'[q].op = "ad_seen" => views'[req'[q].ad] >= 1
    <3> SUFFICES ASSUME NEW q \in Procs, req'[q].op = "ad_seen" PROVE views'[req'[q].ad] >= 1
      OBVIOUS
    <3>1. CASE q = p
      BY <2>2, <2>7, <2>8, <3>1
    <3>2. CASE q # p
      <4>1. views[req[q].ad] >= 1 /\ req[q].ad \in VisitedAds
        BY <2>8, <2>10, <3>2 DEF VisitsAreSound, At
      <4>2. QED
        BY <2>6, <2>8, <3>2, <4>1
    <3>3. QED
      BY <3>1, <3>2
  <2>14. QED
    BY <2>5, <2>11, <2>12, <2>13 DEF VisitsAreSound, At
<1>10. ASSUME NEW p \in Procs, AdSeen(p) PROVE VisitsAreSound'
  <2>1. req[p] \in [op : {"ad_count", "ad_seen"}, ad : VisitedAds, seen : SUBSET VisitedAds,
                    city : CityLabels]
    BY <1>0, <1>10, VisitorAt DEF AdSeen
  <2>2. \A a \in session' : views[a] >= 1
    BY <1>10 DEF AdSeen, At, VisitsAreSound, SessionOps
  <2>3. AdVisitorsTypeOK'
    BY <1>0, <1>10, <2>1 DEF AdSeen, AdVisitorsTypeOK, End, Continue
  <2>4. QED
    BY <1>2, <1>10, <2>2, <2>3 DEF AdSeen
<1>11. ASSUME NEW p \in Procs, SessionSaved(p) PROVE VisitsAreSound'
  <2>1. req[p] \in [op : {"session_save"}, seen : SUBSET VisitedAds, city : CityLabels,
                    told : CityLabels \cup {NoCity}]
    BY <1>0, <1>11, VisitorAt DEF SessionSaved
  <2>2. \A a \in session' : views[a] >= 1
    BY <1>11 DEF SessionSaved, At, VisitsAreSound, SessionOps
  <2>3. AdVisitorsTypeOK'
    BY <1>0, <1>11, <2>1 DEF SessionSaved, AdVisitorsTypeOK, End, Continue
  <2>4. QED
    BY <1>2, <1>11, <2>2, <2>3 DEF SessionSaved
<1>12. ASSUME NEW p \in Procs, FavouriteWrite(p) PROVE VisitsAreSound'
  <2>1. req[p].ad \in VisitedAds
    BY <1>0, <1>12, VisitorAt DEF FavouriteWrite
  <2>2. favourite' \subseteq VisitedAds /\ button' \subseteq VisitedAds
    BY <1>0, <1>12, <2>1 DEF FavouriteWrite, AdVisitorsTypeOK
  <2>3. AdVisitorsTypeOK'
    BY <1>0, <1>12, <2>2 DEF FavouriteWrite, AdVisitorsTypeOK, End, Continue
  <2>4. QED
    BY <1>0, <1>2, <1>12, <2>3 DEF FavouriteWrite, SessionCounted
\* A review saved or moderated: each author's thanks are for what he is kept to have said.
<1>13. ASSUME AdVisitorsTypeOK', thanked' = Thanks', UNCHANGED <<session, views>>,
              \A q \in Procs : req'[q] = req[q] \/ req'[q] = Idle
       PROVE  VisitsAreSound'
  <2>1. \A q \in Procs : req'[q].op \in SessionOps => \A a \in req'[q].seen : views'[a] >= 1
    BY <1>13 DEF VisitsAreSound, Idle, SessionOps
  <2>2. \A q \in Procs : req'[q].op = "ad_seen" => views'[req'[q].ad] >= 1
    BY <1>13 DEF VisitsAreSound, At, Idle
  <2>3. QED
    BY <1>0, <1>13, <2>1, <2>2 DEF VisitsAreSound, SessionCounted, At
<1>14. ASSUME NEW p \in Procs, OpinionSave(p) PROVE VisitsAreSound'
  <2>1. req[p].author \in Reviewers /\ req[p].stars \in Stars
    BY <1>0, <1>14, VisitorAt DEF OpinionSave
  <2>2. req' = [req EXCEPT ![p] = Idle]
    BY <1>14 DEF OpinionSave, End, Continue
  <2>3. req' \in [Procs -> VisitorRequest \cup {Idle}] /\ \A q \in Procs : req'[q] = req[q] \/ req'[q] = Idle
    BY <1>0, <2>2 DEF AdVisitorsTypeOK
  <2>4. CASE ~MayReview(req[p].author)
    BY <1>0, <1>13, <1>14, <2>3, <2>4 DEF OpinionSave, AdVisitorsTypeOK, Thanks
  <2>5. CASE MayReview(req[p].author)
    <3> DEFINE u == req[p].author
               said == [stars |-> req[p].stars, status |-> "ok"]
    <3>1. said \in Opinion /\ said # None /\ said.stars = req[p].stars
      BY <2>1, AdVisitorsAssumption DEF Opinion, None
    <3>2. /\ opinion' = [opinion EXCEPT ![u] = said]
          /\ thanked' = [thanked EXCEPT ![u] = Append(@, req[p].stars)]
          /\ UNCHANGED <<session, city, chosen, views, favourite, button>>
      BY <1>14, <2>5 DEF OpinionSave
    <3>3. \A v \in Reviewers : thanked'[v] = IF v = u THEN Append(thanked[u], req[p].stars) ELSE thanked[v]
      <4>1. DOMAIN thanked = Reviewers
        BY <1>0 DEF Thanks
      <4>2. thanked' = [thanked EXCEPT ![u] = Append(thanked[u], req[p].stars)]
        BY <3>2
      <4> HIDE DEF u, said
      <4>3. QED
        BY <4>1, <4>2
    <3>4. Append(thanked[u], req[p].stars) = <<req[p].stars>>
      <4>1. thanked[u] = << >>
        BY <1>0, <2>1, <2>5 DEF Thanks, MayReview
      <4> HIDE DEF u
      <4>2. QED
        BY <4>1
    <3>5. DOMAIN thanked' = Reviewers /\ thanked' = [v \in Reviewers |-> thanked'[v]]
      BY <1>0, <3>2, ZenonT(40) DEF Thanks
    <3> HIDE DEF u, said
    <3>6. u \in Reviewers
      BY <2>1 DEF u
    <3>7. \A v \in Reviewers : opinion'[v] = IF v = u THEN said ELSE opinion[v]
      BY <1>0, <3>2, <3>6 DEF AdVisitorsTypeOK
    <3>8. \A v \in Reviewers : thanked'[v] = IF opinion'[v] = None THEN << >> ELSE <<opinion'[v].stars>>
      BY <1>0, <3>1, <3>3, <3>4, <3>7 DEF Thanks
    <3>9. thanked' = Thanks'
      BY <3>5, <3>8 DEF Thanks
    <3>10. opinion' \in [Reviewers -> Opinion \cup {None}]
      BY <1>0, <3>1, <3>2 DEF AdVisitorsTypeOK
    <3>11. AdVisitorsTypeOK'
      BY <1>0, <2>3, <3>2, <3>8, <3>10, ThanksAreStars DEF AdVisitorsTypeOK
    <3>12. QED
      BY <1>13, <2>3, <3>2, <3>9, <3>11
  <2>6. QED
    BY <2>4, <2>5
<1>15. ASSUME NEW p \in Procs, OpinionModerated(p) PROVE VisitsAreSound'
  <2>1. PICK u \in Reviewers, status \in {"ok", "hidden"} :
           opinion[u] # None /\ opinion' = [opinion EXCEPT ![u].status = status]
    BY <1>15 DEF OpinionModerated
  <2>2. UNCHANGED <<session, city, chosen, views, favourite, button, thanked, req>>
    BY <1>15 DEF OpinionModerated
  <2>3. opinion[u] \in Opinion
    BY <1>0, <2>1 DEF AdVisitorsTypeOK
  <2> DEFINE said == [opinion[u] EXCEPT !.status = status]
  <2>4. said \in Opinion /\ said # None /\ said.stars = opinion[u].stars
    BY <2>3, AdVisitorsAssumption DEF Opinion, None
  <2>5. opinion' = [opinion EXCEPT ![u] = said]
    BY <2>1
  <2> HIDE DEF said
  <2>6. \A v \in Reviewers : opinion'[v] = IF v = u THEN said ELSE opinion[v]
    BY <1>0, <2>5 DEF AdVisitorsTypeOK
  <2>7. thanked' = Thanks'
    BY <1>0, <2>1, <2>2, <2>4, <2>6 DEF Thanks
  <2>8. AdVisitorsTypeOK'
    BY <1>0, <2>2, <2>4, <2>5 DEF AdVisitorsTypeOK
  <2>9. QED
    BY <1>13, <2>2, <2>7, <2>8
<1>16. CASE UNCHANGED <<workerVars, visitorVars>>
  <2>1. AdVisitorsTypeOK' /\ thanked' = Thanks'
    BY <1>0, <1>16 DEF AdVisitorsTypeOK, Thanks
  <2>2. UNCHANGED <<session, views>> /\ \A q \in Procs : req'[q] = req[q] \/ req'[q] = Idle
    BY <1>16
  <2>3. QED
    BY <1>13, <2>1, <2>2
<1>17. QED
  BY <1>3, <1>4, <1>5, <1>6, <1>7, <1>8, <1>9, <1>10, <1>11, <1>12, <1>14, <1>15, <1>16,
     AdVisitorsAssumption DEF VisitorsNext, VisitorStep

LEMMA VisitsKept == VisitsAreSound => VisitsAreKept
BY DEF VisitsAreSound, SessionCounted, Thanks, VisitsAreKept

\* Whatever tabs and workers overlap or die, an ad that the session knows was
\* counted, and an author was thanked once, for the stars that are kept.
THEOREM VisitsStayKept == VisitorsSpec => []VisitsAreKept
BY VisitsInit, VisitsStep, VisitsKept, PTL DEF VisitorsSpec

-----------------------------------------------------------------------------
(* Ads and their visitors, one request at a time.                          *)

\* The photos that are being attached have been counted with the others.
PhotosAreCounted ==
    /\ AdIsWatched
    /\ photos <= PhotoLimit
    /\ ad = NoAd => photos = 0
    /\ \A p \in Procs : At(p, "ad_attach") => photos + req[p].posted <= PhotoLimit

LEMMA PhotosInit == WorkersInit /\ AdsInit => PhotosAreCounted
<1> SUFFICES ASSUME WorkersInit, AdsInit PROVE PhotosAreCounted
  OBVIOUS
<1>1. \A p \in Procs : req[p].op = "idle"
  BY DEF WorkersInit, Idle
<1>2. QED
  BY <1>1, AdInit, AdsAssumption DEF PhotosAreCounted, AdsInit, At

LEMMA PhotosStep ==
    ASSUME \A p, q \in Procs : p = q, PhotosAreCounted, [AdsNext]_<<workerVars, adVars>>
    PROVE  PhotosAreCounted'
<1> USE AdsAssumption
<1>0. /\ AdIsWatched' /\ AdIsWatched /\ AdsTypeOK /\ photos \in Nat
      /\ req \in [Procs -> AdRequest \cup {Idle}]
  BY AdStepKeeps DEF PhotosAreCounted, AdIsWatched, AdsTypeOK
<1>1. Idle.op # "ad_attach" /\ NoAd.moderation = "none"
  BY DEF Idle, NoAd
<1>2. \A p \in Procs : At(p, "ad_attach") \/ At(p, "ad_photos") => req[p].posted \in 0..PhotoLimit
  BY <1>0 DEF AdRequest, At, Idle
\* The one worker goes on with no photo to attach.
<1>3. ASSUME NEW p \in Procs, NEW r, req' = [req EXCEPT ![p] = r], r.op # "ad_attach",
             photos' <= PhotoLimit, ad' = NoAd => photos' = 0
      PROVE  PhotosAreCounted'
  BY <1>0, <1>3 DEF PhotosAreCounted, At
\* Nor does an idle one.
<1>4. ASSUME NEW p \in Procs, req[p] = Idle, req' = req, photos' <= PhotoLimit, ad' = NoAd => photos' = 0
      PROVE  PhotosAreCounted'
  BY <1>0, <1>1, <1>4 DEF PhotosAreCounted, At
<1>5. \A row \in AdRow : [row EXCEPT !.published = FALSE].moderation = row.moderation
  BY DEF AdRow
<1>6. \A ticked, clean \in BOOLEAN : FormRow(ticked, clean) # NoAd
  BY <1>1, FormRows
<1>7. CASE UNCHANGED <<workerVars, adVars>>
  BY <1>0, <1>7 DEF PhotosAreCounted, At
<1>8. CASE WeekPasses
  BY <1>0, <1>8 DEF WeekPasses, PhotosAreCounted, At
<1>9. ASSUME NEW p \in Procs, AdPosted(p) PROVE PhotosAreCounted'
  <2>1. PICK n \in 0..PhotoLimit : req' = [req EXCEPT ![p] = [op |-> "ad_attach", posted |-> n]]
    BY <1>9 DEF AdPosted, Begin
  <2>2. photos = 0 /\ photos' = photos /\ ad' # NoAd
    BY <1>6, <1>9 DEF AdPosted, PhotosAreCounted
  <2>3. \A q \in Procs : req'[q] = [op |-> "ad_attach", posted |-> n]
    BY <1>0, <2>1
  <2>4. \A q \in Procs : req'[q].posted = n
    BY <2>3
  <2>5. QED
    BY <1>0, <2>2, <2>4 DEF PhotosAreCounted
<1>10. ASSUME NEW p \in Procs, AdEdited(p) PROVE PhotosAreCounted'
  <2>1. PICK n \in 0..PhotoLimit : req' = [req EXCEPT ![p] = [op |-> "ad_photos", posted |-> n]]
    BY <1>10 DEF AdEdited, Begin
  <2>2. photos' = photos /\ ad' # NoAd /\ photos <= PhotoLimit
    BY <1>6, <1>10 DEF AdEdited, PhotosAreCounted
  <2>3. [op |-> "ad_photos", posted |-> n].op # "ad_attach"
    OBVIOUS
  <2>4. QED
    BY <1>3, <2>1, <2>2, <2>3
<1>11. ASSUME NEW p \in Procs, PhotosCounted(p) PROVE PhotosAreCounted'
  <2>1. PICK kept \in 0..PhotoLimit :
           /\ kept <= PhotoLimit - photos
           /\ req' = [req EXCEPT ![p] = [op |-> "ad_attach", posted |-> kept]]
    <3>1. PICK posted \in 0..PhotoLimit : posted = req[p].posted
      BY <1>2, <1>11 DEF PhotosCounted
    <3>2. PhotoRoom = PhotoLimit - photos /\ PhotoRoom \in 0..PhotoLimit
      BY <1>0 DEF PhotoRoom, PhotosAreCounted
    <3>3. req' = [req EXCEPT ![p] = [op |-> "ad_attach", posted |-> IF posted <= PhotoRoom THEN posted ELSE PhotoRoom]]
      BY <1>11, <3>1 DEF PhotosCounted, Continue
    <3>4. (IF posted <= PhotoRoom THEN posted ELSE PhotoRoom) \in 0..PhotoLimit
          /\ (IF posted <= PhotoRoom THEN posted ELSE PhotoRoom) <= PhotoLimit - photos
      BY <3>1, <3>2
    <3>5. QED
      BY <3>3, <3>4
  <2>2. UNCHANGED <<photos, ad>>
    BY <1>11 DEF PhotosCounted
  <2>3. \A q \in Procs : req'[q] = [op |-> "ad_attach", posted |-> kept]
    BY <1>0, <2>1
  <2>4. \A q \in Procs : req'[q].posted = kept
    BY <2>3
  <2>5. QED
    BY <1>0, <2>1, <2>2, <2>4 DEF PhotosAreCounted
<1>12. ASSUME NEW p \in Procs, PhotosAttached(p) PROVE PhotosAreCounted'
  <2>1. req' = [req EXCEPT ![p] = Idle] /\ photos' = photos + req[p].posted /\ ad' = ad
    BY <1>12 DEF PhotosAttached, End, Continue
  <2>2. photos' <= PhotoLimit /\ At(p, "ad_attach")
    BY <1>12, <2>1 DEF PhotosAreCounted, PhotosAttached
  <2>3. ad # NoAd
    BY <1>1, <1>12 DEF AdIsWatched, PhotosAreCounted, PhotosAttached, AllIdle, At
  <2>4. QED
    BY <1>1, <1>3, <2>1, <2>2, <2>3
<1>13. ASSUME NEW p \in Procs, AdPhotoDelete(p) PROVE PhotosAreCounted'
  BY <1>0, <1>4, <1>13 DEF AdPhotoDelete, PhotosAreCounted
\* What is done about the report or the withdrawal leaves the photos as they are.
<1>14. ASSUME NEW p \in Procs, NEW r, req' = [req EXCEPT ![p] = r], r.op # "ad_attach", photos' = photos,
              ad' = NoAd => ad = NoAd
       PROVE  PhotosAreCounted'
  BY <1>3, <1>14 DEF PhotosAreCounted
<1>15. ASSUME NEW p \in Procs, WithdrawAdRead(p) PROVE PhotosAreCounted'
  <2>1. req' = [req EXCEPT ![p] = [op |-> "ad_withdraw"]] /\ UNCHANGED <<ad, photos>>
    BY <1>15 DEF WithdrawAdRead, Begin
  <2>2. [op |-> "ad_withdraw"].op # "ad_attach"
    OBVIOUS
  <2>3. QED
    BY <1>14, <2>1, <2>2
<1>16. ASSUME NEW p \in Procs, WithdrawAdSave(p) \/ ReportHide(p) PROVE PhotosAreCounted'
  <2>1. req' = [req EXCEPT ![p] = Idle] /\ ad' = [ad EXCEPT !.published = FALSE] /\ photos' = photos
    BY <1>16 DEF WithdrawAdSave, ReportHide, Unpublish, End, Continue
  <2>2. ad # NoAd
    BY <1>1, <1>16 DEF AdIsWatched, PhotosAreCounted, WithdrawAdSave, ReportHide, AllIdle, At, Idle
  <2>3. ad \in AdRow
    BY <1>0 DEF AdsTypeOK
  <2>4. ad' # NoAd
    <3>1. ad.moderation # "none"
      BY <1>0, <2>2 DEF AdIsWatched
    <3>2. QED
      BY <1>1, <1>5, <2>1, <2>3, <3>1
  <2>5. QED
    BY <1>1, <1>14, <2>1, <2>4
<1>17. ASSUME NEW p \in Procs, NEW u \in Reporters, ReportRead(p, u) PROVE PhotosAreCounted'
  <2>1. req' = [req EXCEPT ![p] = [op |-> "report_insert", user |-> u]] /\ UNCHANGED <<ad, photos>>
    BY <1>17 DEF ReportRead, Begin
  <2>2. [op |-> "report_insert", user |-> u].op # "ad_attach"
    OBVIOUS
  <2>3. QED
    BY <1>14, <2>1, <2>2
<1>18. ASSUME NEW p \in Procs, ReportInsert(p) PROVE PhotosAreCounted'
  <2>1. req' = [req EXCEPT ![p] = [op |-> "report_count"]] /\ UNCHANGED <<ad, photos>>
    BY <1>18 DEF ReportInsert, Continue
  <2>2. [op |-> "report_count"].op # "ad_attach"
    OBVIOUS
  <2>3. QED
    BY <1>14, <2>1, <2>2
<1>19. ASSUME NEW p \in Procs, ReportCount(p) PROVE PhotosAreCounted'
  <2>1. PICK r \in {[req[p] EXCEPT !.op = "report_hide"], Idle} : req' = [req EXCEPT ![p] = r]
    BY <1>19 DEF ReportCount, Goto, End, Continue
  <2>2. r.op # "ad_attach"
    <3>1. req[p] \in [op : {"report_count"}]
      BY <1>0, <1>19 DEF ReportCount, At, AdRequest, Idle
    <3>2. [req[p] EXCEPT !.op = "report_hide"].op = "report_hide"
      BY <3>1
    <3>3. QED
      BY <1>1, <2>1, <3>2
  <2>3. UNCHANGED <<ad, photos>>
    BY <1>19 DEF ReportCount
  <2>4. QED
    BY <1>14, <2>1, <2>2, <2>3
<1>20. ASSUME NEW p \in Procs, AdsCrash(p) PROVE PhotosAreCounted'
  <2>1. req' = [req EXCEPT ![p] = Idle] /\ UNCHANGED <<ad, photos>>
    BY <1>20 DEF AdsCrash, Crash
  <2>2. QED
    BY <1>1, <1>14, <2>1
<1>21. QED
  BY <1>7, <1>8, <1>9, <1>10, <1>11, <1>12, <1>13, <1>15, <1>16, <1>17, <1>18, <1>19, <1>20 DEF AdsNext, AdStep

\* One at a time, the photos of an ad stay within MAX_PHOTOS_PER_AD.
THEOREM PhotosStayWithinLimit ==
    ASSUME \A p, q \in Procs : p = q
    PROVE  AdsSpec => []PhotosWithinLimit
<1>1. PhotosAreCounted /\ [AdsNext]_<<workerVars, adVars>> => PhotosAreCounted'
  BY PhotosStep
<1>2. PhotosAreCounted => PhotosWithinLimit
  BY DEF PhotosAreCounted, PhotosWithinLimit
<1>3. QED
  BY <1>1, <1>2, PhotosInit, PTL DEF AdsSpec

\* What the one worker has loaded is so, and what it is about to save is what the
\* visitor has been told.
KnowsTheVisitor(p) ==
    /\ At(p, "ad_count") => /\ req[p].seen = session /\ req[p].ad \notin session /\ views[req[p].ad] = 0
                            /\ chosen # NoCity => req[p].city = chosen
    /\ At(p, "ad_seen") => /\ req[p].seen = session
                           /\ chosen # NoCity => req[p].city = chosen
    /\ At(p, "session_save") => /\ req[p].seen = session
                                /\ req[p].told # NoCity => req[p].city = req[p].told
                                /\ req[p].told = NoCity /\ chosen # NoCity => req[p].city = chosen
    /\ At(p, "favourite_decide") => req[p].was = (req[p].ad \in favourite)
    /\ At(p, "favourite_write") => /\ req[p].was = (req[p].ad \in favourite)
                                   /\ req[p].add = (req[p].ad \notin favourite)

VisitorIsKnown ==
    /\ VisitsAreSound /\ crashes \in Nat
    /\ \A a \in VisitedAds :
          /\ views[a] <= 1
          /\ a \notin session => views[a] = 0 \/ \E p \in Procs : At(p, "ad_seen") /\ req[p].ad = a
    /\ chosen # NoCity => city = chosen
    /\ button = favourite
    /\ \A p \in Procs : KnowsTheVisitor(p)

\* The list that a request reads has the cities of the others.
OneSetOfCities == \A l1, l2 \in CityLists : CitiesOf(l1) = CitiesOf(l2)

LEMMA VisitorInit == WorkersInit /\ VisitorsInit => VisitorIsKnown
<1> SUFFICES ASSUME WorkersInit, VisitorsInit PROVE VisitorIsKnown
  OBVIOUS
<1>1. \A p \in Procs : req[p].op = "idle"
  BY DEF WorkersInit, Idle
<1>2. \A p \in Procs : KnowsTheVisitor(p)
  BY <1>1 DEF KnowsTheVisitor, At
<1>3. QED
  BY <1>2, VisitsInit DEF VisitorIsKnown, VisitorsInit, WorkersInit

\* A city that was chosen is on every list.
LEMMA ChosenIsKept ==
    ASSUME OneSetOfCities, VisitorIsKnown, chosen # NoCity, NEW list \in CityLists
    PROVE  city \in CitiesOf(list) /\ EnsuredCity(list) = chosen
<1>1. chosen \in CityLabels /\ city = chosen
  BY DEF VisitorIsKnown, VisitsAreSound, AdVisitorsTypeOK
<1>2. chosen \in CitiesOf(list)
  BY <1>1 DEF CityLabels, OneSetOfCities
<1>3. QED
  BY <1>1, <1>2 DEF EnsuredCity

LEMMA VisitorStepKeeps ==
    ASSUME \A p, q \in Procs : p = q, MaxCrashes = 0, OneSetOfCities, VisitorIsKnown,
           [VisitorsNext]_<<workerVars, visitorVars>>
    PROVE  VisitorIsKnown'
<1>0. /\ crashes \in Nat /\ crashes' \in Nat /\ VisitsAreSound /\ VisitsAreSound' /\ AdVisitorsTypeOK /\ AdVisitorsTypeOK'
      /\ views \in [VisitedAds -> Nat] /\ DOMAIN req = Procs
      /\ session \subseteq VisitedAds /\ favourite \subseteq VisitedAds
      /\ \A a \in VisitedAds :
            /\ views[a] <= 1
            /\ a \notin session => views[a] = 0 \/ \E p \in Procs : At(p, "ad_seen") /\ req[p].ad = a
      /\ chosen # NoCity => city = chosen
      /\ button = favourite
      /\ \A p \in Procs : KnowsTheVisitor(p)
  <2>1. crashes \in Nat
    BY DEF VisitorIsKnown
  <2>2. ASSUME NEW p \in Procs, VisitorStep(p) PROVE crashes' = crashes
    <3>1. CASE \/ \E a \in VisitedAds : AdOpened(p, a)
               \/ \E a \in FavouriteAds : FavouriteRead(p, a)
               \/ PageOpened(p) \/ CityChosen(p) \/ (\E u \in Reviewers : OpinionRead(p, u))
      BY <3>1 DEF AdOpened, FavouriteRead, PageOpened, CityChosen, OpinionRead, Begin
    <3>2. CASE SessionSaved(p) \/ AdCounted(p) \/ AdSeen(p) \/ FavouriteDecide(p) \/ FavouriteWrite(p)
               \/ OpinionSave(p) \/ OpinionModerated(p)
      BY <3>2 DEF SessionSaved, AdCounted, AdSeen, FavouriteDecide, FavouriteWrite, OpinionSave,
         OpinionModerated, Goto, End, Continue
    <3>3. QED
      BY <2>2, <3>1, <3>2 DEF VisitorStep
  <2>3. ASSUME NEW p \in Procs, VisitorsCrash(p) PROVE crashes' = crashes + 1
    BY <2>3 DEF VisitorsCrash, Crash
  <2>4. crashes' \in Nat
    BY <2>1, <2>2, <2>3 DEF VisitorsNext
  <2>5. QED
    BY <2>1, <2>4, VisitsStep DEF VisitorIsKnown, VisitsAreSound, AdVisitorsTypeOK
<1>1. Idle.op = "idle"
  BY DEF Idle
\* Unless it was about to mark an ad, what is not in the session was not counted.
<1>2. ASSUME NEW p \in Procs, ~At(p, "ad_seen") PROVE \A a \in VisitedAds : a \notin session => views[a] = 0
  BY <1>0, <1>2
\* A worker that goes on with what is so, while the session and the views stay.
<1>3. ASSUME NEW p \in Procs, ~At(p, "ad_seen"), UNCHANGED <<session, views>>, button' = favourite',
             chosen' # NoCity => city' = chosen', KnowsTheVisitor(p)'
      PROVE  VisitorIsKnown'
  <2>1. \A a \in VisitedAds : views'[a] <= 1 /\ (a \notin session' => views'[a] = 0)
    BY <1>0, <1>2, <1>3
  <2>2. \A q \in Procs : KnowsTheVisitor(q)'
    BY <1>3
  <2>3. QED
    BY <1>0, <1>3, <2>1, <2>2 DEF VisitorIsKnown
\* One that ends.
<1>4. ASSUME NEW p \in Procs, req' = [req EXCEPT ![p] = Idle] PROVE KnowsTheVisitor(p)'
  <2>1. req'[p].op = "idle"
    BY <1>0, <1>1, <1>4
  <2>2. QED
    BY <2>1 DEF KnowsTheVisitor, At
<1>5. CASE UNCHANGED <<workerVars, visitorVars>>
  <2>1. \A p \in Procs : KnowsTheVisitor(p)'
    BY <1>0, <1>5 DEF KnowsTheVisitor, At
  <2>2. \A a \in VisitedAds : /\ views'[a] <= 1
            /\ a \notin session' => views'[a] = 0 \/ \E p \in Procs : At(p, "ad_seen")' /\ req'[p].ad = a
    BY <1>0, <1>5 DEF At
  <2>3. QED
    BY <1>0, <1>5, <2>1, <2>2 DEF VisitorIsKnown
<1>6. ASSUME NEW p \in Procs, NEW a \in VisitedAds, AdOpened(p, a) PROVE VisitorIsKnown'
  <2>1. PICK list \in CityLists :
           Begin(p, [op |-> "ad_count", ad |-> a, seen |-> session, city |-> EnsuredCity(list)])
    BY <1>6 DEF AdOpened
  <2>2. PICK label : label = EnsuredCity(list)
    OBVIOUS
  <2>3. /\ req[p] = Idle /\ UNCHANGED visitorVars /\ a \notin session
        /\ req' = [req EXCEPT ![p] = [op |-> "ad_count", ad |-> a, seen |-> session, city |-> label]]
    BY <1>6, <2>1, <2>2 DEF AdOpened, Begin
  <2>4. req'[p] = [op |-> "ad_count", ad |-> a, seen |-> session, city |-> label]
    BY <1>0, <2>3
  <2>5. chosen # NoCity => label = chosen
    BY <2>2, ChosenIsKept
  <2>6. ~At(p, "ad_seen") /\ views[a] = 0
    BY <1>1, <1>2, <2>3 DEF At
  <2>7. KnowsTheVisitor(p)'
    BY <2>3, <2>4, <2>5, <2>6 DEF KnowsTheVisitor, At
  <2>8. QED
    BY <1>0, <1>3, <2>3, <2>6, <2>7
<1>7. ASSUME NEW p \in Procs, AdCounted(p) PROVE VisitorIsKnown'
  <2>1. At(p, "ad_count") /\ UNCHANGED <<session, city, chosen, favourite, button>>
    BY <1>7 DEF AdCounted
  <2>2. PICK a \in VisitedAds, label \in CityLabels, s \in SUBSET VisitedAds :
           req[p] = [op |-> "ad_count", ad |-> a, seen |-> s, city |-> label]
    BY <1>0, <2>1, VisitorAt DEF At
  <2>3. s = session /\ a \notin session /\ views[a] = 0 /\ (chosen # NoCity => label = chosen)
    <3>1. req[p].seen = s /\ req[p].ad = a /\ req[p].city = label
      BY <2>2
    <3>2. QED
      BY <1>0, <2>1, <3>1 DEF KnowsTheVisitor
  <2>4. views' = [views EXCEPT ![a] = 1]
    BY <1>0, <1>7, <2>2, <2>3 DEF AdCounted
  <2>5. req'[p] = [op |-> "ad_seen", ad |-> a, seen |-> s, city |-> label]
    BY <1>0, <1>7, <2>2 DEF AdCounted, Goto, Continue
  <2>6. At(p, "ad_seen")' /\ req'[p].ad = a /\ req'[p].seen = s /\ req'[p].city = label
    BY <2>5 DEF At
  <2>7. \A b \in VisitedAds : b # a => (b \notin session => views[b] = 0)
    BY <1>2, <2>1 DEF At
  <2>8. \A b \in VisitedAds : views'[b] <= 1 /\ (b \notin session' => views'[b] = 0 \/ b = a)
    BY <1>0, <2>1, <2>4, <2>7
  <2>9. KnowsTheVisitor(p)'
    BY <2>1, <2>3, <2>6 DEF KnowsTheVisitor, At
  <2>10. \A q \in Procs : KnowsTheVisitor(q)'
    BY <2>9
  <2>11. \A b \in VisitedAds : b \notin session' => views'[b] = 0 \/ \E q \in Procs : At(q, "ad_seen")' /\ req'[q].ad = b
    BY <2>6, <2>8
  <2>12. QED
    BY <1>0, <2>1, <2>8, <2>10, <2>11 DEF VisitorIsKnown
<1>8. ASSUME NEW p \in Procs, AdSeen(p) PROVE VisitorIsKnown'
  <2>1. /\ At(p, "ad_seen") /\ UNCHANGED <<chosen, views, favourite, button>>
        /\ session' = req[p].seen \cup {req[p].ad} /\ city' = req[p].city
        /\ req' = [req EXCEPT ![p] = Idle]
    BY <1>8 DEF AdSeen, End, Continue
  <2>2. session' = session \cup {req[p].ad} /\ (chosen # NoCity => city' = chosen)
    BY <1>0, <2>1 DEF KnowsTheVisitor
  <2>3. \A b \in VisitedAds : views'[b] <= 1 /\ (b \notin session' => views'[b] = 0)
    BY <1>0, <2>1, <2>2
  <2>4. \A q \in Procs : KnowsTheVisitor(q)'
    BY <1>4, <2>1
  <2>5. QED
    BY <1>0, <2>1, <2>2, <2>3, <2>4 DEF VisitorIsKnown
<1>9. ASSUME NEW p \in Procs, PageOpened(p) PROVE VisitorIsKnown'
  <2>1. PICK list \in CityLists :
           Begin(p, [op |-> "session_save", seen |-> session, city |-> EnsuredCity(list), told |-> NoCity])
    BY <1>9 DEF PageOpened
  <2>8. PICK label : label = EnsuredCity(list)
    OBVIOUS
  <2>2. /\ req[p] = Idle /\ UNCHANGED visitorVars
        /\ req' = [req EXCEPT ![p] = [op |-> "session_save", seen |-> session, city |-> label, told |-> NoCity]]
    BY <1>9, <2>1, <2>8 DEF PageOpened, Begin
  <2>3. req'[p] = [op |-> "session_save", seen |-> session, city |-> label, told |-> NoCity]
    BY <1>0, <2>2
  <2>4. chosen # NoCity => label = chosen
    BY <2>8, ChosenIsKept
  <2>5. KnowsTheVisitor(p)'
    BY <2>2, <2>3, <2>4 DEF KnowsTheVisitor, At
  <2>6. ~At(p, "ad_seen")
    BY <1>1, <2>2 DEF At
  <2>7. QED
    BY <1>0, <1>3, <2>2, <2>5, <2>6
<1>10. ASSUME NEW p \in Procs, CityChosen(p) PROVE VisitorIsKnown'
  <2>1. PICK list \in CityLists, label \in CityLabels :
           Begin(p, [op |-> "session_save", seen |-> session,
                     city |-> IF label \in CitiesOf(list) THEN label ELSE EnsuredCity(list),
                     told |-> IF label \in CitiesOf(list) THEN label ELSE NoCity])
    BY <1>10 DEF CityChosen
  <2>2. label \in CitiesOf(list)
    BY DEF CityLabels, OneSetOfCities
  <2>3. /\ req[p] = Idle /\ UNCHANGED visitorVars
        /\ req' = [req EXCEPT ![p] = [op |-> "session_save", seen |-> session, city |-> label, told |-> label]]
    BY <1>10, <2>1, <2>2 DEF CityChosen, Begin
  <2>4. req'[p] = [op |-> "session_save", seen |-> session, city |-> label, told |-> label]
    BY <1>0, <2>3
  <2>5. label # NoCity
    BY <2>2, AdVisitorsAssumption
  <2>6. KnowsTheVisitor(p)'
    BY <2>3, <2>4, <2>5 DEF KnowsTheVisitor, At
  <2>7. ~At(p, "ad_seen")
    BY <1>1, <2>3 DEF At
  <2>8. QED
    BY <1>0, <1>3, <2>3, <2>6, <2>7
<1>11. ASSUME NEW p \in Procs, SessionSaved(p) PROVE VisitorIsKnown'
  <2>1. /\ At(p, "session_save") /\ ~At(p, "ad_seen") /\ UNCHANGED <<views, favourite, button>>
        /\ session' = req[p].seen /\ city' = req[p].city
        /\ chosen' = IF req[p].told = NoCity THEN chosen ELSE req[p].told
        /\ req' = [req EXCEPT ![p] = Idle]
    BY <1>11 DEF SessionSaved, End, Continue, At
  <2>2. session' = session /\ (chosen' # NoCity => city' = chosen')
    BY <1>0, <2>1 DEF KnowsTheVisitor
  <2>3. QED
    BY <1>0, <1>3, <1>4, <2>1, <2>2
<1>12. ASSUME NEW p \in Procs, NEW a \in FavouriteAds, FavouriteRead(p, a) PROVE VisitorIsKnown'
  <2>1. PICK was : was = (a \in favourite)
    OBVIOUS
  <2>2. /\ req[p] = Idle /\ UNCHANGED visitorVars
        /\ req' = [req EXCEPT ![p] = [op |-> "favourite_decide", ad |-> a, was |-> was]]
    BY <1>12, <2>1 DEF FavouriteRead, Begin
  <2>3. req'[p] = [op |-> "favourite_decide", ad |-> a, was |-> was]
    BY <1>0, <2>2
  <2>4. KnowsTheVisitor(p)'
    <3>1. req'[p].op = "favourite_decide" /\ req'[p].was = was /\ req'[p].ad = a
      BY <2>3
    <3>2. req'[p].was = (req'[p].ad \in favourite')
      BY <2>1, <2>2, <3>1, Zenon
    <3>3. QED
      BY <3>1, <3>2 DEF KnowsTheVisitor, At
  <2>5. ~At(p, "ad_seen")
    BY <1>1, <2>2 DEF At
  <2>6. QED
    BY <1>0, <1>3, <2>2, <2>4, <2>5
<1>13. ASSUME NEW p \in Procs, FavouriteDecide(p) PROVE VisitorIsKnown'
  <2>1. At(p, "favourite_decide") /\ UNCHANGED visitorVars
    BY <1>13 DEF FavouriteDecide
  <2>2. PICK a \in VisitedAds, was \in BOOLEAN, add \in BOOLEAN :
            req[p].ad = a /\ req[p].was = was /\ add = (a \notin favourite)
    BY <1>0, <2>1, VisitorAt
  <2>3. req' = [req EXCEPT ![p] = [op |-> "favourite_write", ad |-> a, was |-> was, add |-> add]]
    BY <1>13, <2>2 DEF FavouriteDecide, Continue
  <2>4. req'[p] = [op |-> "favourite_write", ad |-> a, was |-> was, add |-> add]
    BY <1>0, <2>3
  <2>5. was = (a \in favourite)
    BY <1>0, <2>1, <2>2 DEF KnowsTheVisitor
  <2>6. KnowsTheVisitor(p)'
    <3>1. req'[p].op = "favourite_write" /\ req'[p].was = was /\ req'[p].ad = a /\ req'[p].add = add
      BY <2>4
    <3>2. req'[p].was = (req'[p].ad \in favourite') /\ req'[p].add = (req'[p].ad \notin favourite')
      BY <2>1, <2>2, <2>5, <3>1, Zenon
    <3>3. QED
      BY <3>1, <3>2 DEF KnowsTheVisitor, At
  <2>7. ~At(p, "ad_seen")
    BY <2>1 DEF At
  <2>8. QED
    BY <1>0, <1>3, <2>1, <2>6, <2>7
<1>14. ASSUME NEW p \in Procs, FavouriteWrite(p) PROVE VisitorIsKnown'
  <2>1. /\ At(p, "favourite_write") /\ ~At(p, "ad_seen") /\ UNCHANGED <<session, city, chosen, views>>
        /\ req' = [req EXCEPT ![p] = Idle]
    BY <1>14 DEF FavouriteWrite, End, Continue, At
  <2>2. button' = favourite'
    BY <1>0, <1>14, <2>1 DEF FavouriteWrite, KnowsTheVisitor
  <2>3. QED
    BY <1>0, <1>3, <1>4, <2>1, <2>2
<1>15. ASSUME NEW p \in Procs, ~At(p, "ad_seen"), UNCHANGED <<session, city, chosen, views, favourite, button>>,
              req'[p].op \notin {"ad_count", "ad_seen", "session_save", "favourite_decide", "favourite_write"}
       PROVE  VisitorIsKnown'
  <2>1. KnowsTheVisitor(p)'
    BY <1>15 DEF KnowsTheVisitor, At
  <2>2. QED
    BY <1>0, <1>3, <1>15, <2>1
<1>16. ASSUME NEW p \in Procs, NEW u \in Reviewers, OpinionRead(p, u) PROVE VisitorIsKnown'
  <2>1. PICK n \in Stars : req' = [req EXCEPT ![p] = [op |-> "opinion_save", author |-> u, stars |-> n]]
    BY <1>16 DEF OpinionRead, Begin
  <2>2. req'[p].op = "opinion_save" /\ ~At(p, "ad_seen") /\ UNCHANGED visitorVars
    BY <1>0, <1>1, <1>16, <2>1 DEF OpinionRead, Begin, At
  <2>3. QED
    BY <1>15, <2>2
<1>17. ASSUME NEW p \in Procs, OpinionSave(p) PROVE VisitorIsKnown'
  <2>1. /\ ~At(p, "ad_seen") /\ UNCHANGED <<session, city, chosen, views, favourite, button>>
        /\ req' = [req EXCEPT ![p] = Idle]
    BY <1>17 DEF OpinionSave, End, Continue, At
  <2>2. req'[p].op = "idle"
    BY <1>0, <1>1, <2>1
  <2>3. QED
    BY <1>15, <2>1, <2>2
<1>18. ASSUME NEW p \in Procs, OpinionModerated(p) PROVE VisitorIsKnown'
  <2>1. /\ req'[p].op = "idle" /\ ~At(p, "ad_seen")
        /\ UNCHANGED <<session, city, chosen, views, favourite, button>>
    BY <1>1, <1>18 DEF OpinionModerated, At
  <2>2. QED
    BY <1>15, <2>1
<1>19. ASSUME NEW p \in Procs, VisitorsCrash(p) PROVE FALSE
  <2>1. crashes < 0 /\ crashes \in Nat
    BY <1>0, <1>19 DEF VisitorsCrash, Crash
  <2>2. QED
    BY <2>1
<1>20. QED
  BY <1>5, <1>6, <1>7, <1>8, <1>9, <1>10, <1>11, <1>12, <1>13, <1>14, <1>16, <1>17, <1>18, <1>19
     DEF VisitorsNext, VisitorStep

\* One at a time, and with one set of cities on every list, a session counts an ad
\* once, the visitor keeps the city he was told is his, and his buttons are as the rows.
THEOREM VisitsCountOnce ==
    ASSUME \A p, q \in Procs : p = q, MaxCrashes = 0, OneSetOfCities
    PROVE  VisitorsSpec => []VisitsAreCountedOnce
<1>1. VisitorIsKnown /\ [VisitorsNext]_<<workerVars, visitorVars>> => VisitorIsKnown'
  BY VisitorStepKeeps
<1>2. VisitorIsKnown => VisitsAreCountedOnce
  BY DEF VisitorIsKnown, VisitsAreCountedOnce
<1>3. QED
  BY <1>1, <1>2, VisitorInit, PTL DEF VisitorsSpec
=============================================================================

------------------------------- MODULE Wallet -------------------------------
(***************************************************************************)
(* One seller's wallet: balances (apps/billing/wallet_services.py), the    *)
(* withdrawal request (wallet_views.py, forms.py) and the decisions of the *)
(* administrators (withdrawal_* of apps/erp/views.py).                     *)
(*                                                                         *)
(* None of the handlers takes a lock or opens a transaction: the balance   *)
(* is read, the row is created and the ledger is written in three steps,   *)
(* and a decision saves the row it loaded before.                          *)
(***************************************************************************)
EXTENDS Workers, Integers, FiniteSetsExt

CONSTANTS Withdrawals, \* primary keys a WithdrawalRequest row may get
          MaxReleased  \* bound on the money deals release to the wallet

ASSUME MaxReleasedAssumption == MaxReleased \in Nat

VARIABLES released,      \* sum of the DEAL_RELEASE credits
          withdrawal,    \* the WithdrawalRequest rows
          walletLedger   \* the WITHDRAWAL_* debits

walletVars == <<released, withdrawal, walletLedger>>

NoWithdrawal == [status |-> "none", amount |-> 0]
Withdrawal ==
    [status : {"pending", "approved", "rejected", "paid"}, amount : 1..MaxReleased]
      \cup {NoWithdrawal}

\* The external id of a debit names its request: with the unique index over
\* kind, direction and external id the ledger is a set.
WalletEntry == [kind : {"withdrawal_request", "withdrawal_approved"}, of : Withdrawals]
DebitOf(kind, w) == [kind |-> kind, of |-> w]
Debited == {w \in Withdrawals : DebitOf("withdrawal_approved", w) \in walletLedger}

\* wallet_balances: what was approved is taken off, what is requested is not.
Available == released - MapThenSumSet(LAMBDA w : withdrawal[w].amount, Debited)

WalletRequest ==
    [op : {"withdraw_create"}, amount : 1..MaxReleased]
      \cup [op : {"withdraw_enter", "approve_save", "approve_enter", "reject_save", "paid_save"},
            of : Withdrawals]

WalletInit ==
    /\ released = 0
    /\ withdrawal = [w \in Withdrawals |-> NoWithdrawal]
    /\ walletLedger = {}

-----------------------------------------------------------------------------
\* A deal is released to the seller (SafeDeal!ReleaseDealFunds).
FundsReleased ==
    /\ released < MaxReleased
    /\ released' = released + 1
    /\ UNCHANGED <<withdrawal, walletLedger, workerVars>>

\* withdrawal_request_create: the form accepts at most what was available when
\* it was built.
WithdrawRead(p) ==
    /\ \E a \in 1..Available : Begin(p, [op |-> "withdraw_create", amount |-> a])
    /\ UNCHANGED walletVars

WithdrawCreate(p) ==
    /\ At(p, "withdraw_create")
    /\ \E w \in Withdrawals :
          /\ withdrawal[w] = NoWithdrawal
          /\ withdrawal' = [withdrawal EXCEPT ![w] = [status |-> "pending", amount |-> req[p].amount]]
          /\ Continue(p, [op |-> "withdraw_enter", of |-> w])
    /\ UNCHANGED <<released, walletLedger>>

WithdrawEnter(p) ==
    /\ At(p, "withdraw_enter")
    /\ walletLedger' = walletLedger \cup {DebitOf("withdrawal_request", req[p].of)}
    /\ End(p)
    /\ UNCHANGED <<released, withdrawal>>

\* The administrators: each handler loads the row, tests its status and, later,
\* saves another.
DecisionRead(p, w, from, op) ==
    /\ withdrawal[w].status = from
    /\ Begin(p, [op |-> op, of |-> w])
    /\ UNCHANGED walletVars

SaveDecision(p, status) ==
    /\ withdrawal' = [withdrawal EXCEPT ![req[p].of].status = status]
    /\ UNCHANGED <<released, walletLedger>>

ApproveRead(p, w) == DecisionRead(p, w, "pending", "approve_save")
ApproveSave(p) == At(p, "approve_save") /\ SaveDecision(p, "approved") /\ Goto(p, "approve_enter")

\* The debit; the second of two is refused by the unique index.
ApproveEnter(p) ==
    /\ At(p, "approve_enter")
    /\ walletLedger' = walletLedger \cup {DebitOf("withdrawal_approved", req[p].of)}
    /\ End(p)
    /\ UNCHANGED <<released, withdrawal>>

\* Mutant: an approved request may still be rejected.
RejectReadTooLate(p, w) ==
    /\ withdrawal[w].status \in {"pending", "approved"}
    /\ Begin(p, [op |-> "reject_save", of |-> w])
    /\ UNCHANGED walletVars
RejectRead(p, w) == DecisionRead(p, w, "pending", "reject_save")
RejectSave(p) == At(p, "reject_save") /\ SaveDecision(p, "rejected") /\ End(p)

\* Mutant: what is not yet decided may be marked as paid.
PaidReadTooEarly(p, w) ==
    /\ withdrawal[w].status \in {"pending", "approved"}
    /\ Begin(p, [op |-> "paid_save", of |-> w])
    /\ UNCHANGED walletVars
PaidRead(p, w) == DecisionRead(p, w, "approved", "paid_save")
PaidSave(p) == At(p, "paid_save") /\ SaveDecision(p, "paid") /\ End(p)

-----------------------------------------------------------------------------
WalletStep(p) ==
    \/ WithdrawRead(p) \/ WithdrawCreate(p) \/ WithdrawEnter(p)
    \/ \E w \in Withdrawals : ApproveRead(p, w) \/ RejectRead(p, w) \/ PaidRead(p, w)
    \/ ApproveSave(p) \/ ApproveEnter(p) \/ RejectSave(p) \/ PaidSave(p)

WalletCrash(p) == Crash(p) /\ UNCHANGED walletVars

WalletNext == FundsReleased \/ \E p \in Procs : WalletStep(p) \/ WalletCrash(p)

WalletSpec == WorkersInit /\ WalletInit /\ [][WalletNext]_<<workerVars, walletVars>>

-----------------------------------------------------------------------------
WalletTypeOK ==
    /\ released \in 0..MaxReleased
    /\ withdrawal \in [Withdrawals -> Withdrawal]
    /\ walletLedger \subseteq WalletEntry
    /\ req \in [Procs -> WalletRequest \cup {Idle}]

\* However the requests of two administrators overlap and whoever dies, money
\* leaves the wallet only for a withdrawal that was decided on, and a withdrawal
\* is paid only for a debit that is in the ledger or about to be, unless the
\* worker that approved it died before writing it.
DebitFollowsDecision ==
    /\ \A w \in Debited : withdrawal[w].status \in {"approved", "rejected", "paid"}
    /\ crashes = 0 =>
          \A w \in Withdrawals : withdrawal[w].status = "paid" =>
              w \in Debited \/ \E p \in InFlight("approve_enter") : req[p].of = w

\* While decisions are taken one at a time and no worker dies, the withdrawals
\* approved or paid are exactly the ones taken off the balance (a rejected one
\* never is), but for the one being entered.
DebitedIffApproved ==
    {w \in Withdrawals : withdrawal[w].status \in {"approved", "paid"}}
      = Debited \cup {req[p].of : p \in InFlight("approve_enter")}
=============================================================================

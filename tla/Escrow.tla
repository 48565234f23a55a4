------------------------------- MODULE Escrow -------------------------------
(***************************************************************************)
(* What a safe deal promises about the buyer's money, whatever the steps   *)
(* of the deal are: it is taken once, and then it goes to the seller or    *)
(* back to the buyer, never to both and never to either without payment.   *)
(***************************************************************************)
CONSTANT Deals

VARIABLE money  \* where the money of each deal is

Init == money = [d \in Deals |-> "buyer"]

Pay(d) ==
    /\ money[d] = "buyer"
    /\ money' = [money EXCEPT ![d] = "platform"]

Release(d) ==
    /\ money[d] = "platform"
    /\ money' = [money EXCEPT ![d] = "seller"]

Return(d) ==
    /\ money[d] = "platform"
    /\ money' = [money EXCEPT ![d] = "returned"]

Next == \E d \in Deals : Pay(d) \/ Release(d) \/ Return(d)

Spec == Init /\ [][Next]_money
=============================================================================

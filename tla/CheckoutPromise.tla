---------------------------- MODULE CheckoutPromise ----------------------------
(***************************************************************************)
(* What a checkout promises the buyer, with no saga, no services and no     *)
(* crashes: a voucher is delivered only for points that were paid, the      *)
(* price is taken once and only from points the buyer has, and it comes     *)
(* back at most once, whole.                                                *)
(***************************************************************************)
EXTENDS Naturals

CONSTANTS Sagas, Users, Buyer, Price, Funds,
          MayGiveUp  \* may a paid checkout be returned before it delivered?

VARIABLES phase,   \* [Sagas -> {"open", "paid", "delivered", "returned"}]
          balance  \* [Users -> Nat]

Init ==
    /\ phase = [s \in Sagas |-> "open"]
    /\ balance = Funds

Pay(s) ==
    /\ phase[s] = "open"
    /\ balance[Buyer[s]] >= Price[s]
    /\ phase'   = [phase EXCEPT ![s] = "paid"]
    /\ balance' = [balance EXCEPT ![Buyer[s]] = @ - Price[s]]

Deliver(s) ==
    /\ phase[s] = "paid"
    /\ phase' = [phase EXCEPT ![s] = "delivered"]
    /\ UNCHANGED balance

Return(s) ==
    /\ phase[s] = "delivered" \/ (MayGiveUp /\ phase[s] = "paid")
    /\ phase'   = [phase EXCEPT ![s] = "returned"]
    /\ balance' = [balance EXCEPT ![Buyer[s]] = @ + Price[s]]

Next == \E s \in Sagas : Pay(s) \/ Deliver(s) \/ Return(s)

Spec == Init /\ [][Next]_<<phase, balance>>
===============================================================================

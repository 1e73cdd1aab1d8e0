-------------------------- MODULE RedemptionProofs ----------------------------
(***************************************************************************)
(* For any vouchers, holds, values and policies: a live hold has its        *)
(* voucher to itself, a voucher is held only for somebody, and nothing      *)
(* moves on a voucher that ended.                                           *)
(*                                                                          *)
(* HoldOwnsItsVoucher is not inductive: a capture makes its voucher active, *)
(* and a hold that the sweep expired before may still be waiting to release *)
(* it.  A swept hold therefore claims its voucher as a live one does, and a *)
(* voucher has one claim.                                                   *)
(*                                                                          *)
(* The second part proves the books: partial captures and the expiry of the *)
(* rest add up to the settlement value although each is rounded up, and no  *)
(* value is lost between draws and refunds.  The claim about a voucher that *)
(* ended rests on one about a voucher that lives (Telescoped): what is      *)
(* booked so far is the rounded share of all that is drawn, and more by at  *)
(* most the shares of what was refunded.                                    *)
(*                                                                          *)
(* The third part follows the rows that captures leave in the outbox to the *)
(* ledger, whatever posters there are.                                      *)
(***************************************************************************)
EXTENDS Redemption, Outbox, FiniteSetTheorems, TLAPS

USE DEF voucher, time, hold, settled, sweeps

(* A hold that is live, or expired with its voucher still to be released. *)
Claims(h) == auth[h] = "held" \/ h \in swept

OneClaim ==
    \A h \in Holds : Claims(h) =>
        /\ vstate[HoldOn[h]] \in {"held", "voided"}
        /\ \A g \in HoldsOf(HoldOn[h]) \ {h} : ~Claims(g)

(* A swept hold is no longer live. *)
SweptIsOver == \A h \in swept : auth[h] = "expired"

(* A live hold never exceeds what its voucher has left. *)
WithinValue ==
    /\ \A h \in Holds : auth[h] = "held" => amount[h] <= remaining[HoldOn[h]]
    /\ \A v \in Vouchers : remaining[v] <= Face[v]

IInv == TypeOK /\ OneClaim /\ SweptIsOver /\ WithinValue /\ HeldForAHold

LEMMA DivMonotone ==
  ASSUME NEW x \in Int, NEW y \in Int, x <= y, NEW d \in Nat \ {0}
  PROVE  x \div d <= y \div d /\ x \div d \in Int
OBVIOUS

LEMMA ProductMonotone ==
  ASSUME NEW k \in Nat, NEW x \in Nat, NEW y \in Nat, x <= y
  PROVE  k * x <= k * y /\ k * x \in Nat /\ k * y \in Nat
OBVIOUS

(* The share of a draw-down is never negative. *)
LEMMA ShareIsNat ==
  ASSUME NEW v \in Vouchers, NEW before \in Nat, NEW after \in Nat, before <= after
  PROVE  PayableShare(v, before, after) \in Nat
<1>1. S[v] \in Nat /\ Face[v] \in Nat \ {0}
  BY RedemptionAssumption DEF RedemptionAssumption
<1>2. S[v] * before <= S[v] * after /\ S[v] * before \in Nat /\ S[v] * after \in Nat
  BY <1>1, ProductMonotone
<1>3. CeilShare(v, before) <= CeilShare(v, after)
      /\ CeilShare(v, before) \in Int /\ CeilShare(v, after) \in Int
  <2> DEFINE x == S[v] * before + Face[v] - 1
             y == S[v] * after + Face[v] - 1
  <2>1. x \in Int /\ y \in Int /\ x <= y
    BY <1>1, <1>2
  <2>2. x \div Face[v] <= y \div Face[v] /\ x \div Face[v] \in Int /\ y \div Face[v] \in Int
    <3> HIDE DEF x, y
    <3> QED BY <1>1, <2>1, DivMonotone
  <2> QED BY <2>2 DEF CeilShare
<1> QED BY <1>3 DEF PayableShare

LEMMA InitIInv == ASSUME Init PROVE IInv
<1>1. Face \in [Vouchers -> Nat \ {0}] /\ MaxCrashes \in Nat
  BY RedemptionAssumption DEF RedemptionAssumption
<1>2. TypeOK
  BY <1>1 DEF Init, TypeOK, VoucherState, HoldState
<1>3. OneClaim /\ SweptIsOver /\ HeldForAHold
  BY DEF Init, OneClaim, SweptIsOver, HeldForAHold, Claims
<1>4. WithinValue
  BY <1>1 DEF Init, WithinValue
<1> QED BY <1>2, <1>3, <1>4 DEF IInv

LEMMA AuthorizeKeeps ==
  ASSUME IInv, NEW h \in Holds, NEW n \in Nat, Authorize(h, n)
  PROVE  IInv'
<1>0. /\ TypeOK /\ OneClaim /\ SweptIsOver /\ WithinValue /\ HeldForAHold
      /\ HoldOn \in [Holds -> Vouchers] /\ Face \in [Vouchers -> Nat \ {0}]
  BY RedemptionAssumption DEF IInv, RedemptionAssumption
<1>1. TypeOK' /\ WithinValue'
  BY <1>0 DEF Authorize, TypeOK, WithinValue, OneClaim, Claims, VoucherState, HoldState
<1>2. OneClaim' /\ SweptIsOver'
  BY <1>0 DEF Authorize, TypeOK, OneClaim, SweptIsOver, Claims, HoldsOf
<1>3. HeldForAHold'
  BY <1>0 DEF Authorize, TypeOK, OneClaim, HeldForAHold, Claims, HoldsOf
<1> QED BY <1>1, <1>2, <1>3 DEF IInv

LEMMA CaptureKeeps ==
  ASSUME IInv, NEW h \in Holds, NEW n \in Nat, Capture(h, n)
  PROVE  IInv'
<1>0. /\ TypeOK /\ OneClaim /\ SweptIsOver /\ WithinValue /\ HeldForAHold
      /\ HoldOn \in [Holds -> Vouchers] /\ Face \in [Vouchers -> Nat \ {0}]
  BY RedemptionAssumption DEF IInv, RedemptionAssumption
<1>1. TypeOK' /\ WithinValue'
  <2> DEFINE v == HoldOn[h]
             left == LeftAfter(v, n)
             share == PayableShare(v, Face[v] - remaining[v], Face[v] - left)
  <2>1. /\ v \in Vouchers /\ auth[h] = "held" /\ n \in 1..amount[h]
        /\ remaining[v] \in Nat /\ amount[h] \in Nat /\ Face[v] \in Nat
        /\ amount[h] <= remaining[v] /\ remaining[v] <= Face[v]
    BY <1>0 DEF Capture, TypeOK, WithinValue
  <2>2. left \in Nat /\ left <= remaining[v]
    BY <2>1 DEF LeftAfter
  <2>3. share \in Nat
    <3>1. /\ Face[v] - remaining[v] \in Nat /\ Face[v] - left \in Nat
          /\ Face[v] - remaining[v] <= Face[v] - left
      <4> HIDE DEF left
      <4> QED BY <2>1, <2>2
    <3> HIDE DEF left
    <3> QED BY <2>1, <3>1, ShareIsNat
  <2>4. /\ auth' = [auth EXCEPT ![h] = "captured"] /\ taken' = [taken EXCEPT ![h] = n]
        /\ remaining' = [remaining EXCEPT ![v] = left]
        /\ vstate' = [vstate EXCEPT ![v] = IF left = 0 THEN "redeemed" ELSE "active"]
        /\ owed' = [owed EXCEPT ![h] = share]
        /\ UNCHANGED <<amount, time, refunded, closed, killed, sweeps, crashes>>
    BY DEF Capture
  <2> HIDE DEF left, share
  <2>5. TypeOK'
    BY <1>0, <2>1, <2>2, <2>3, <2>4 DEF TypeOK, VoucherState, HoldState
  <2>6. WithinValue'
    <3> SUFFICES ASSUME NEW g \in Holds, auth'[g] = "held"
                 PROVE  amount'[g] <= remaining'[HoldOn[g]]
      BY <1>0, <2>1, <2>2, <2>4 DEF WithinValue, TypeOK
    <3>1. g # h /\ auth[g] = "held"
      BY <1>0, <2>4 DEF TypeOK
    <3>2. HoldOn[g] # v
      BY <1>0, <2>1, <3>1 DEF OneClaim, Claims, HoldsOf
    <3> QED BY <1>0, <2>4, <3>1, <3>2 DEF WithinValue, TypeOK
  <2> QED BY <2>5, <2>6
<1>2. OneClaim' /\ SweptIsOver'
  BY <1>0 DEF Capture, LeftAfter, TypeOK, OneClaim, SweptIsOver, Claims, HoldsOf
<1>3. HeldForAHold'
  BY <1>0 DEF Capture, LeftAfter, TypeOK, OneClaim, HeldForAHold, Claims, HoldsOf
<1> QED BY <1>1, <1>2, <1>3 DEF IInv

LEMMA VoidKeeps ==
  ASSUME IInv, NEW h \in Holds, Void(h)
  PROVE  IInv'
<1>0. /\ TypeOK /\ OneClaim /\ SweptIsOver /\ WithinValue /\ HeldForAHold
      /\ HoldOn \in [Holds -> Vouchers] /\ Face \in [Vouchers -> Nat \ {0}]
  BY RedemptionAssumption DEF IInv, RedemptionAssumption
<1>1. TypeOK' /\ WithinValue'
  BY <1>0 DEF Void, TypeOK, WithinValue, OneClaim, Claims, VoucherState, HoldState
<1>2. OneClaim' /\ SweptIsOver'
  BY <1>0 DEF Void, TypeOK, OneClaim, SweptIsOver, Claims, HoldsOf
<1>3. HeldForAHold'
  BY <1>0 DEF Void, TypeOK, OneClaim, HeldForAHold, Claims, HoldsOf
<1> QED BY <1>1, <1>2, <1>3 DEF IInv

LEMMA RefundKeeps ==
  ASSUME IInv, NEW h \in Holds, NEW r \in Refs, NEW n \in Nat, Refund(h, r, n)
  PROVE  IInv'
<1>0. /\ TypeOK /\ OneClaim /\ SweptIsOver /\ WithinValue /\ HeldForAHold
      /\ HoldOn \in [Holds -> Vouchers] /\ Face \in [Vouchers -> Nat \ {0}]
  BY RedemptionAssumption DEF IInv, RedemptionAssumption
<1>1. TypeOK' /\ WithinValue'
  BY <1>0 DEF Refund, TypeOK, WithinValue, OneClaim, Claims, VoucherState, HoldState
<1>2. OneClaim' /\ SweptIsOver'
  BY <1>0 DEF Refund, TypeOK, OneClaim, SweptIsOver, Claims, HoldsOf
<1>3. HeldForAHold'
  BY <1>0 DEF Refund, TypeOK, OneClaim, HeldForAHold, Claims, HoldsOf
<1> QED BY <1>1, <1>2, <1>3 DEF IInv

LEMMA VoidVoucherKeeps ==
  ASSUME IInv, NEW v \in Vouchers, VoidVoucher(v)
  PROVE  IInv'
<1>0. /\ TypeOK /\ OneClaim /\ SweptIsOver /\ WithinValue /\ HeldForAHold
      /\ HoldOn \in [Holds -> Vouchers] /\ Face \in [Vouchers -> Nat \ {0}]
  BY RedemptionAssumption DEF IInv, RedemptionAssumption
<1>1. TypeOK' /\ WithinValue'
  BY <1>0 DEF VoidVoucher, TypeOK, WithinValue, OneClaim, Claims, VoucherState, HoldState
<1>2. OneClaim' /\ SweptIsOver'
  BY <1>0 DEF VoidVoucher, TypeOK, OneClaim, SweptIsOver, Claims, HoldsOf
<1>3. HeldForAHold'
  BY <1>0 DEF VoidVoucher, TypeOK, OneClaim, HeldForAHold, Claims, HoldsOf
<1> QED BY <1>1, <1>2, <1>3 DEF IInv

LEMMA SweepHoldsKeeps ==
  ASSUME IInv, SweepHolds
  PROVE  IInv'
<1>0. /\ TypeOK /\ OneClaim /\ SweptIsOver /\ WithinValue /\ HeldForAHold
      /\ HoldOn \in [Holds -> Vouchers] /\ Face \in [Vouchers -> Nat \ {0}]
  BY RedemptionAssumption DEF IInv, RedemptionAssumption
<1>1. TypeOK' /\ WithinValue'
  BY <1>0 DEF SweepHolds, Stale, TypeOK, WithinValue, OneClaim, Claims, VoucherState, HoldState
<1>2. OneClaim' /\ SweptIsOver'
  BY <1>0 DEF SweepHolds, Stale, TypeOK, OneClaim, SweptIsOver, Claims, HoldsOf
<1>3. HeldForAHold'
  BY <1>0 DEF SweepHolds, Stale, TypeOK, OneClaim, HeldForAHold, Claims, HoldsOf
<1> QED BY <1>1, <1>2, <1>3 DEF IInv

LEMMA ReleaseSweptKeeps ==
  ASSUME IInv, NEW h \in Holds, ReleaseSwept(h)
  PROVE  IInv'
<1>0. /\ TypeOK /\ OneClaim /\ SweptIsOver /\ WithinValue /\ HeldForAHold
      /\ HoldOn \in [Holds -> Vouchers] /\ Face \in [Vouchers -> Nat \ {0}]
  BY RedemptionAssumption DEF IInv, RedemptionAssumption
<1>1. TypeOK' /\ WithinValue'
  BY <1>0 DEF ReleaseSwept, TypeOK, WithinValue, OneClaim, Claims, VoucherState, HoldState
<1>2. OneClaim' /\ SweptIsOver'
  BY <1>0 DEF ReleaseSwept, TypeOK, OneClaim, SweptIsOver, Claims, HoldsOf
<1>3. HeldForAHold'
  BY <1>0 DEF ReleaseSwept, TypeOK, OneClaim, HeldForAHold, Claims, HoldsOf
<1> QED BY <1>1, <1>2, <1>3 DEF IInv

LEMMA ListDueKeeps ==
  ASSUME IInv, ListDue
  PROVE  IInv'
<1>0. /\ TypeOK /\ OneClaim /\ SweptIsOver /\ WithinValue /\ HeldForAHold
      /\ HoldOn \in [Holds -> Vouchers] /\ Face \in [Vouchers -> Nat \ {0}]
  BY RedemptionAssumption DEF IInv, RedemptionAssumption
<1>1. TypeOK' /\ WithinValue'
  BY <1>0 DEF ListDue, TypeOK, WithinValue, OneClaim, Claims, VoucherState, HoldState
<1>2. OneClaim' /\ SweptIsOver'
  BY <1>0 DEF ListDue, TypeOK, OneClaim, SweptIsOver, Claims, HoldsOf
<1>3. HeldForAHold'
  BY <1>0 DEF ListDue, TypeOK, OneClaim, HeldForAHold, Claims, HoldsOf
<1> QED BY <1>1, <1>2, <1>3 DEF IInv

LEMMA ExpireListedKeeps ==
  ASSUME IInv, NEW v \in Vouchers, ExpireListed(v)
  PROVE  IInv'
<1>0. /\ TypeOK /\ OneClaim /\ SweptIsOver /\ WithinValue /\ HeldForAHold
      /\ HoldOn \in [Holds -> Vouchers] /\ Face \in [Vouchers -> Nat \ {0}]
  BY RedemptionAssumption DEF IInv, RedemptionAssumption
<1>1. TypeOK' /\ WithinValue'
  <2> DEFINE share == PayableShare(v, Face[v] - remaining[v], Face[v])
  <2>1. Face[v] - remaining[v] \in Nat /\ Face[v] \in Nat /\ Face[v] - remaining[v] <= Face[v]
    BY <1>0 DEF TypeOK, WithinValue
  <2>2. share \in Nat
    BY <2>1, ShareIsNat
  <2>3. /\ vstate' = vstate \/ vstate' = [vstate EXCEPT ![v] = "expired"]
        /\ closed' = closed \/ closed' = [closed EXCEPT ![v] = share]
        /\ listed' = listed \ {v}
        /\ UNCHANGED <<remaining, hold, time, taken, refunded, owed, killed, swept, crashes>>
    BY DEF ExpireListed
  <2> HIDE DEF share
  <2>4. vstate' \in [Vouchers -> VoucherState] /\ closed' \in [Vouchers -> Nat]
    BY <1>0, <2>2, <2>3 DEF TypeOK, VoucherState
  <2>5. TypeOK'
    BY <1>0, <2>3, <2>4 DEF TypeOK
  <2>6. WithinValue'
    BY <1>0, <2>3 DEF WithinValue
  <2> QED BY <2>5, <2>6
<1>2. OneClaim' /\ SweptIsOver'
  <2>1. \A h \in Holds : Claims(h)' <=> Claims(h)
    BY DEF ExpireListed, Claims
  <2>2. \A h \in Holds : Claims(h) => vstate'[HoldOn[h]] = vstate[HoldOn[h]]
    BY <1>0 DEF ExpireListed, OneClaim, TypeOK
  <2> QED BY <1>0, <2>1, <2>2 DEF ExpireListed, OneClaim, SweptIsOver, HoldsOf
<1>3. HeldForAHold'
  BY <1>0 DEF ExpireListed, TypeOK, OneClaim, HeldForAHold, Claims, HoldsOf
<1> QED BY <1>1, <1>2, <1>3 DEF IInv

LEMMA CrashKeeps ==
  ASSUME IInv, Crash
  PROVE  IInv'
<1>0. /\ TypeOK /\ OneClaim /\ SweptIsOver /\ WithinValue /\ HeldForAHold
      /\ HoldOn \in [Holds -> Vouchers] /\ Face \in [Vouchers -> Nat \ {0}]
  BY RedemptionAssumption DEF IInv, RedemptionAssumption
<1>1. TypeOK' /\ WithinValue'
  BY <1>0 DEF Crash, TypeOK, WithinValue, OneClaim, Claims, VoucherState, HoldState
<1>2. OneClaim' /\ SweptIsOver'
  BY <1>0 DEF Crash, TypeOK, OneClaim, SweptIsOver, Claims, HoldsOf
<1>3. HeldForAHold'
  BY <1>0 DEF Crash, TypeOK, OneClaim, HeldForAHold, Claims, HoldsOf
<1> QED BY <1>1, <1>2, <1>3 DEF IInv

LEMMA ToggleKillKeeps ==
  ASSUME IInv, ToggleKill
  PROVE  IInv'
<1>0. /\ TypeOK /\ OneClaim /\ SweptIsOver /\ WithinValue /\ HeldForAHold
      /\ HoldOn \in [Holds -> Vouchers] /\ Face \in [Vouchers -> Nat \ {0}]
  BY RedemptionAssumption DEF IInv, RedemptionAssumption
<1>1. TypeOK' /\ WithinValue'
  BY <1>0 DEF ToggleKill, TypeOK, WithinValue, OneClaim, Claims, VoucherState, HoldState
<1>2. OneClaim' /\ SweptIsOver'
  BY <1>0 DEF ToggleKill, TypeOK, OneClaim, SweptIsOver, Claims, HoldsOf
<1>3. HeldForAHold'
  BY <1>0 DEF ToggleKill, TypeOK, OneClaim, HeldForAHold, Claims, HoldsOf
<1> QED BY <1>1, <1>2, <1>3 DEF IInv

LEMMA HoldTimesOutKeeps ==
  ASSUME IInv, NEW h \in Holds, HoldTimesOut(h)
  PROVE  IInv'
<1>0. /\ TypeOK /\ OneClaim /\ SweptIsOver /\ WithinValue /\ HeldForAHold
      /\ HoldOn \in [Holds -> Vouchers] /\ Face \in [Vouchers -> Nat \ {0}]
  BY RedemptionAssumption DEF IInv, RedemptionAssumption
<1>1. TypeOK' /\ WithinValue'
  BY <1>0 DEF HoldTimesOut, TypeOK, WithinValue, OneClaim, Claims, VoucherState, HoldState
<1>2. OneClaim' /\ SweptIsOver'
  BY <1>0 DEF HoldTimesOut, TypeOK, OneClaim, SweptIsOver, Claims, HoldsOf
<1>3. HeldForAHold'
  BY <1>0 DEF HoldTimesOut, TypeOK, OneClaim, HeldForAHold, Claims, HoldsOf
<1> QED BY <1>1, <1>2, <1>3 DEF IInv

LEMMA VoucherFallsDueKeeps ==
  ASSUME IInv, NEW v \in Vouchers, VoucherFallsDue(v)
  PROVE  IInv'
<1>0. /\ TypeOK /\ OneClaim /\ SweptIsOver /\ WithinValue /\ HeldForAHold
      /\ HoldOn \in [Holds -> Vouchers] /\ Face \in [Vouchers -> Nat \ {0}]
  BY RedemptionAssumption DEF IInv, RedemptionAssumption
<1>1. TypeOK' /\ WithinValue'
  BY <1>0 DEF VoucherFallsDue, TypeOK, WithinValue, OneClaim, Claims, VoucherState, HoldState
<1>2. OneClaim' /\ SweptIsOver'
  BY <1>0 DEF VoucherFallsDue, TypeOK, OneClaim, SweptIsOver, Claims, HoldsOf
<1>3. HeldForAHold'
  BY <1>0 DEF VoucherFallsDue, TypeOK, OneClaim, HeldForAHold, Claims, HoldsOf
<1> QED BY <1>1, <1>2, <1>3 DEF IInv

LEMMA StutterKeeps == ASSUME IInv, UNCHANGED vars PROVE IInv'
<1> USE DEF vars
<1>1. TypeOK' /\ WithinValue'
  BY DEF IInv, TypeOK, WithinValue
<1>2. OneClaim' /\ SweptIsOver' /\ HeldForAHold'
  BY DEF IInv, OneClaim, SweptIsOver, HeldForAHold, Claims
<1> QED BY <1>1, <1>2 DEF IInv

LEMMA NextKeeps == ASSUME IInv, [Next]_vars PROVE IInv'
<1>1. ASSUME NEW h \in Holds, NEW n \in 1..Face[HoldOn[h]], Authorize(h, n) \/ Capture(h, n)
      PROVE  IInv'
  <2>1. n \in Nat
    BY RedemptionAssumption DEF RedemptionAssumption
  <2> QED BY <1>1, <2>1, AuthorizeKeeps, CaptureKeeps
<1>2. ASSUME NEW h \in Holds, NEW n \in 1..Face[HoldOn[h]], NEW r \in Refs, Refund(h, r, n)
      PROVE  IInv'
  <2>1. n \in Nat
    BY RedemptionAssumption DEF RedemptionAssumption
  <2> QED BY <1>2, <2>1, RefundKeeps
<1>3. ASSUME NEW h \in Holds, Void(h) \/ ReleaseSwept(h) \/ HoldTimesOut(h)
      PROVE  IInv'
  BY <1>3, VoidKeeps, ReleaseSweptKeeps, HoldTimesOutKeeps
<1>4. ASSUME NEW v \in Vouchers, VoidVoucher(v) \/ ExpireListed(v) \/ VoucherFallsDue(v)
      PROVE  IInv'
  BY <1>4, VoidVoucherKeeps, ExpireListedKeeps, VoucherFallsDueKeeps
<1>5. CASE SweepHolds \/ ListDue \/ Crash \/ ToggleKill
  BY <1>5, SweepHoldsKeeps, ListDueKeeps, CrashKeeps, ToggleKillKeeps
<1>6. CASE UNCHANGED vars
  BY <1>6, StutterKeeps
<1> QED BY <1>1, <1>2, <1>3, <1>4, <1>5, <1>6 DEF Next

(* The invariant holds for every number of vouchers, holds and references,     *)
(* every face and settlement value and any number of sweeps that stop.         *)
THEOREM Invariance == Spec => []IInv
<1>1. Init => IInv
  BY InitIInv
<1>2. IInv /\ [Next]_vars => IInv'
  BY NextKeeps
<1> QED BY <1>1, <1>2, PTL DEF Spec

(* Every variable keeps its type; in particular no draw goes below zero and no *)
(* booked share is negative.                                                   *)
THEOREM TypeCorrect == Spec => []TypeOK
<1>1. IInv => TypeOK
  BY DEF IInv
<1> QED BY <1>1, Invariance, PTL

(* A live hold has its voucher to itself, whatever the sweeps, disputes and    *)
(* other tills do, and no voucher is held for nobody unless a pass of the hold *)
(* sweep stopped half-way.                                                     *)
THEOREM HoldsExclude == Spec => []HoldsAgree
<1>1. IInv => HoldsAgree
  BY DEF IInv, OneClaim, Claims, HoldOwnsItsVoucher, HoldsAgree
<1> QED BY <1>1, Invariance, PTL

(* No late capture, refund, release or sweep moves anything on a voucher that  *)
(* was redeemed, expired or voided.  The proof shows more than the property    *)
(* asks: no step of the program undoes an expiry.                              *)
THEOREM EndedIsFinal == Spec => EndedStaysEnded
<1> DEFINE Ended == \A v \in Vouchers : vstate[v] \in {"redeemed", "expired", "voided"} =>
              UNCHANGED <<vstate[v], remaining[v], closed[v]>>
              /\ \A h \in HoldsOf(v) : owed'[h] = owed[h]
<1>1. IInv /\ [Next]_vars => [Ended]_vars
  <2> SUFFICES ASSUME TypeOK, HoldOn \in [Holds -> Vouchers], Next PROVE Ended
    BY RedemptionAssumption DEF IInv, RedemptionAssumption
  <2> USE DEF TypeOK, HoldsOf
  <2>1. ASSUME NEW h \in Holds, NEW n \in 1..Face[HoldOn[h]], Authorize(h, n) PROVE Ended
    BY <2>1 DEF Authorize
  <2>2. ASSUME NEW h \in Holds, NEW n \in 1..Face[HoldOn[h]], Capture(h, n) PROVE Ended
    BY <2>2 DEF Capture
  <2>3. ASSUME NEW h \in Holds, NEW n \in 1..Face[HoldOn[h]], NEW r \in Refs, Refund(h, r, n)
        PROVE  Ended
    BY <2>3 DEF Refund
  <2>4. ASSUME NEW h \in Holds, Void(h) \/ ReleaseSwept(h) \/ HoldTimesOut(h) PROVE Ended
    BY <2>4 DEF Void, ReleaseSwept, HoldTimesOut
  <2>5. ASSUME NEW v \in Vouchers, VoidVoucher(v) \/ ExpireListed(v) \/ VoucherFallsDue(v)
        PROVE  Ended
    BY <2>5 DEF VoidVoucher, ExpireListed, VoucherFallsDue
  <2>6. CASE SweepHolds \/ ListDue \/ Crash \/ ToggleKill
    BY <2>6 DEF SweepHolds, ListDue, Crash, ToggleKill
  <2> QED BY <2>1, <2>2, <2>3, <2>4, <2>5, <2>6 DEF Next
<1> DEFINE EndedOrUndone == \A v \in Vouchers : vstate[v] \in {"redeemed", "expired", "voided"} =>
              \/ UndoesExpiry(v)
              \/ /\ UNCHANGED <<vstate[v], remaining[v], closed[v]>>
                 /\ \A h \in HoldsOf(v) : owed'[h] = owed[h]
<1>2. [Ended]_vars => [EndedOrUndone]_vars
  OBVIOUS
<1> QED BY <1>1, <1>2, Invariance, PTL DEF Spec, EndedStaysEnded
-------------------------------------------------------------------------------
(* Sums by counting: what a function that grows at one point adds. *)

LEMMA Stretch ==
    ASSUME NEW k \in Nat, NEW n \in Nat
    PROVE  IsFiniteSet(k + 1 .. k + n) /\ Cardinality(k + 1 .. k + n) = n
<1>1. PICK a \in Int, b \in Int : a = k + 1 /\ b = k + n
  OBVIOUS
<1>2. IsFiniteSet(a .. b) /\ Cardinality(a .. b) = IF a > b THEN 0 ELSE b - a + 1
  BY FS_Interval
<1>3. (IF a > b THEN 0 ELSE b - a + 1) = n
  BY <1>1
<1>4. IsFiniteSet(a .. b) /\ Cardinality(a .. b) = n
  BY <1>2, <1>3
<1> QED BY <1>1, <1>4

LEMMA TotalGrows ==
    ASSUME NEW set, NEW f, NEW g, IsFiniteSet(Units(f, set)),
           NEW y \in set, NEW n \in Nat, f[y] \in Nat, g[y] = f[y] + n,
           \A x \in set \ {y} : g[x] = f[x]
    PROVE  IsFiniteSet(Units(g, set)) /\ Total(g, set) = Total(f, set) + n
<1> DEFINE new == {y} \X (f[y] + 1 .. f[y] + n)
<1>1. Units(g, set) = Units(f, set) \cup new
  BY DEF Units
<1>2. Units(f, set) \cap new = {}
  BY DEF Units
<1>3. IsFiniteSet(Units(f, set)) /\ Cardinality(Units(f, set)) \in Nat
  BY FS_CardinalityType
<1>4. IsFiniteSet(new) /\ Cardinality(new) = n
  <2>1. IsFiniteSet({y}) /\ Cardinality({y}) = 1
    BY FS_Singleton
  <2>2. IsFiniteSet(f[y] + 1 .. f[y] + n) /\ Cardinality(f[y] + 1 .. f[y] + n) = n
    BY Stretch
  <2>3. IsFiniteSet(new) /\ Cardinality(new) = Cardinality({y}) * Cardinality(f[y] + 1 .. f[y] + n)
    BY <2>1, <2>2, FS_Product
  <2>4. 1 * n = n
    OBVIOUS
  <2> QED BY <2>1, <2>2, <2>3, <2>4
<1> HIDE DEF new
<1>5. IsFiniteSet(Units(f, set) \cup new)
      /\ Cardinality(Units(f, set) \cup new)
           = Cardinality(Units(f, set)) + Cardinality(new) - Cardinality(Units(f, set) \cap new)
  BY <1>3, <1>4, FS_Union
<1>6. Cardinality(Units(f, set) \cap new) = 0
  BY <1>2, FS_EmptySet
<1>7. Cardinality(Units(f, set)) + Cardinality(new) - 0 = Cardinality(Units(f, set)) + n
  <2>1. \A a, b \in Nat : a + b - 0 = a + b
    OBVIOUS
  <2> QED BY <1>3, <1>4, <2>1
<1>8. Cardinality(Units(g, set)) = Cardinality(Units(f, set)) + n
  BY ONLY <1>1, <1>5, <1>6, <1>7
<1> QED BY <1>1, <1>5, <1>8 DEF Total

LEMMA TotalSame ==
    ASSUME NEW set, NEW f, NEW g, \A x \in set : f[x] = g[x]
    PROVE  Units(f, set) = Units(g, set) /\ Total(f, set) = Total(g, set)
<1>1. Units(f, set) = Units(g, set)
  BY DEF Units
<1> QED BY <1>1 DEF Total

LEMMA TotalOfZeros ==
    ASSUME NEW set, NEW f, \A x \in set : f[x] = 0
    PROVE  IsFiniteSet(Units(f, set)) /\ Total(f, set) = 0
<1>1. Units(f, set) = {}
  BY DEF Units
<1> QED BY <1>1, FS_EmptySet DEF Total

(* The share of nothing is nothing and the share of the whole is S.            *)
LEMMA ShareEnds ==
    ASSUME NEW v \in Vouchers
    PROVE  CeilShare(v, 0) = 0 /\ CeilShare(v, Face[v]) = S[v]
<1>1. S[v] \in Nat /\ Face[v] \in Nat \ {0}
  BY RedemptionAssumption DEF RedemptionAssumption
<1>2. \A n \in Nat \ {0} : (n - 1) \div n = 0
  OBVIOUS
<1>3. \A s \in Nat, n \in Nat \ {0} : (s * n + n - 1) \div n = s
  OBVIOUS
<1>4. S[v] * 0 + Face[v] - 1 = Face[v] - 1
  BY <1>1
<1> QED BY <1>1, <1>2, <1>3, <1>4 DEF CeilShare

(* A share is a number, and more drawn has no smaller share.                   *)
LEMMA ShareGrows ==
    ASSUME NEW v \in Vouchers, NEW a \in Nat, NEW b \in Nat, a <= b
    PROVE  CeilShare(v, a) \in Nat /\ CeilShare(v, a) <= CeilShare(v, b)
<1>1. S[v] \in Nat /\ Face[v] \in Nat \ {0}
  BY RedemptionAssumption DEF RedemptionAssumption
<1>2. \A x \in Nat : CeilShare(v, x) \in Int
  <2> SUFFICES ASSUME NEW x \in Nat PROVE CeilShare(v, x) \in Int
    OBVIOUS
  <2>1. S[v] * x \in Nat
    BY <1>1, ProductMonotone
  <2>2. S[v] * x + Face[v] - 1 \in Int
    BY <1>1, <2>1
  <2> QED BY <1>1, <2>2, DivMonotone DEF CeilShare
<1>3. PayableShare(v, 0, a) \in Nat /\ PayableShare(v, a, b) \in Nat
  BY ShareIsNat
<1>4. CeilShare(v, a) = PayableShare(v, 0, a)
  BY <1>2, ShareEnds DEF PayableShare
<1> QED BY <1>2, <1>3, <1>4 DEF PayableShare

LEMMA DivCovers ==
  ASSUME NEW x \in Nat, NEW d \in Nat \ {0}
  PROVE  /\ (x + d - 1) \div d \in Nat
         /\ x <= ((x + d - 1) \div d) * d
OBVIOUS

(* Rounding up twice gives no less than rounding up once.                      *)
LEMMA ShareSplits ==
    ASSUME NEW v \in Vouchers, NEW a \in Nat, NEW b \in Nat
    PROVE  CeilShare(v, a + b) <= CeilShare(v, a) + CeilShare(v, b)
<1> DEFINE d == Face[v]
           x == S[v] * a
           y == S[v] * b
           p == CeilShare(v, a)
           q == CeilShare(v, b)
<1>1. S[v] \in Nat /\ d \in Nat \ {0}
  BY RedemptionAssumption DEF RedemptionAssumption
<1>2. x \in Nat /\ y \in Nat /\ S[v] * (a + b) = x + y
  <2>1. x \in Nat /\ y \in Nat
    <3>1. a <= a /\ b <= b
      OBVIOUS
    <3> QED BY <1>1, <3>1, ProductMonotone
  <2> QED BY <1>1, <2>1
<1>3. p \in Nat /\ x <= p * d /\ q \in Nat /\ y <= q * d
  <2> HIDE DEF x, y, d
  <2>1. p = (x + d - 1) \div d /\ q = (y + d - 1) \div d
    BY DEF CeilShare, x, y, d
  <2> QED BY <1>1, <1>2, <2>1, DivCovers
<1>4. CeilShare(v, a + b) = (x + y + d - 1) \div d
  BY <1>2 DEF CeilShare
<1> HIDE DEF d, x, y, p, q
<1>5. (x + y + d - 1) \div d <= p + q
  <2>1. \A m \in Nat, n \in Nat \ {0} : m * n \in Nat /\ (m * n + n - 1) \div n = m
    OBVIOUS
  <2>2. (p + q) * d = p * d + q * d /\ p * d \in Nat /\ q * d \in Nat
    BY <1>1, <1>3
  <2>3. x + y + d - 1 <= (p + q) * d + d - 1
    BY <1>1, <1>2, <1>3, <2>2
  <2>4. (x + y + d - 1) \div d <= ((p + q) * d + d - 1) \div d
    <3>1. x + y + d - 1 \in Int /\ (p + q) * d + d - 1 \in Int
      BY <1>1, <1>2, <2>2
    <3> QED BY <1>1, <2>3, <3>1, DivMonotone
  <2>5. ((p + q) * d + d - 1) \div d = p + q
    BY <1>1, <1>3, <2>1
  <2> QED BY <2>4, <2>5
<1> QED BY <1>4, <1>5 DEF p, q

-------------------------------------------------------------------------------
(* The books of the vouchers.                                                  *)

(* What was refunded of each capture. *)
Returned == [h \in Holds |-> Total(refunded[h], Refs)]

(* The same as shares: of each refund, and of all refunds of a capture. *)
ShareOf(h) == [r \in Refs |-> CeilShare(HoldOn[h], refunded[h][r])]
Restored   == [h \in Holds |-> RefundShares(h)]

(* Each sum has finitely many units, because every call adds finitely many;    *)
(* the sets of holds and references need not be finite.                        *)
Countable ==
    /\ \A h \in Holds : /\ IsFiniteSet(Units(refunded[h], Refs))
                        /\ IsFiniteSet(Units(ShareOf(h), Refs))
    /\ \A v \in Vouchers : /\ IsFiniteSet(Units(taken, HoldsOf(v)))
                           /\ IsFiniteSet(Units(owed, HoldsOf(v)))
                           /\ IsFiniteSet(Units(Returned, HoldsOf(v)))
                           /\ IsFiniteSet(Units(Restored, HoldsOf(v)))

(* Only a capture takes or owes anything. *)
CapturesPay == \A h \in Holds : auth[h] # "captured" => taken[h] = 0 /\ owed[h] = 0

(* The share of what is drawn now; an expiry draws the rest. *)
ShareDrawn(v) ==
    IF vstate[v] = "expired" THEN S[v] ELSE CeilShare(v, Face[v] - remaining[v])

(* Captures telescope: what is booked on a voucher is the share of all that is *)
(* drawn, however many captures drew it.  A refund takes back from what is     *)
(* drawn and nothing from what is booked.                                      *)
Telescoped(v) ==
    /\ vstate[v] # "expired" => closed[v] = 0
    /\ ShareDrawn(v) <= Booked(v)
    /\ Booked(v) <= ShareDrawn(v) + Rebookable(v)

(* A redeemed voucher is used up. *)
UsedUp(v) == vstate[v] = "redeemed" => remaining[v] = 0

(* A balance-carrying voucher: draws, net of refunds, and the rest make up the *)
(* face value.                                                                 *)
Balances(v) ==
    v \in Carrying =>
        remaining[v] + Total(taken, HoldsOf(v)) = Face[v] + Total(Returned, HoldsOf(v))

Books ==
    /\ Countable /\ CapturesPay
    /\ \A v \in Vouchers : Telescoped(v) /\ UsedUp(v) /\ Balances(v)

(* Each sum is a number. *)
LEMMA Sums ==
    ASSUME Books, NEW v \in Vouchers
    PROVE  /\ Total(owed, HoldsOf(v)) \in Nat /\ Total(taken, HoldsOf(v)) \in Nat
           /\ Rebookable(v) \in Nat
BY FS_CardinalityType DEF Books, Countable, Total, Rebookable, Restored

(* The shares of refunds depend on the refunds alone. *)
LEMMA SharesStay ==
    ASSUME UNCHANGED refunded
    PROVE  /\ Restored' = Restored /\ \A h \in Holds : ShareOf(h)' = ShareOf(h)
           /\ \A v \in Vouchers : Rebookable(v)' = Rebookable(v)
BY DEF Restored, ShareOf, Rebookable, RefundShares, CeilShare

(* A step that moves no value: holds come and go, the voucher's state moves    *)
(* between those that have not ended, or is voided.                            *)
LEMMA StateOnlyKeepsBooks ==
    ASSUME Books, UNCHANGED <<remaining, settled>>,
           \A h \in Holds : auth'[h] # "captured" => auth[h] # "captured",
           \A v \in Vouchers :
               \/ vstate'[v] = vstate[v]
               \/ /\ vstate'[v] \notin {"expired", "redeemed"}
                  /\ vstate[v] \notin {"expired", "redeemed"}
    PROVE  Books'
<1>1. Returned' = Returned /\ Countable'
  BY SharesStay DEF Books, Countable, Returned
<1>2. CapturesPay'
  BY DEF Books, CapturesPay
<1>3. ASSUME NEW v \in Vouchers PROVE (Telescoped(v) /\ UsedUp(v) /\ Balances(v))'
  <2>1. Rebookable(v)' = Rebookable(v) /\ Booked(v)' = Booked(v)
    BY SharesStay DEF Booked
  <2>2. Telescoped(v) /\ UsedUp(v) /\ Balances(v)
    BY DEF Books
  <2>3. Telescoped(v)'
    <3>1. ShareDrawn(v)' = ShareDrawn(v)
      BY DEF ShareDrawn, CeilShare
    <3> QED BY <2>1, <2>2, <3>1 DEF Telescoped
  <2>4. UsedUp(v)'
    BY <2>2 DEF UsedUp
  <2>5. Balances(v)'
    BY <1>1, <2>2 DEF Balances
  <2> QED BY <2>3, <2>4, <2>5
<1> QED BY <1>1, <1>2, <1>3 DEF Books

(* Expiry books the share of the rest, which completes S.                      *)
LEMMA ExpiryKeepsBooks ==
    ASSUME IInv, Books, NEW w \in Vouchers, ExpireListed(w)
    PROVE  Books'
<1>1. /\ vstate \in [Vouchers -> VoucherState] /\ closed \in [Vouchers -> Nat]
      /\ remaining \in [Vouchers -> Nat] /\ owed \in [Holds -> Nat]
  BY DEF IInv, TypeOK
<1>2. CASE UNCHANGED <<vstate, closed>>
  BY <1>2, StateOnlyKeepsBooks DEF ExpireListed
<1>3. CASE ~ UNCHANGED <<vstate, closed>>
  <2>1. /\ vstate[w] = "active" /\ vstate' = [vstate EXCEPT ![w] = "expired"]
        /\ closed' = [closed EXCEPT ![w] = PayableShare(w, Face[w] - remaining[w], Face[w])]
        /\ UNCHANGED <<remaining, auth, taken, refunded, owed>>
    BY <1>3 DEF ExpireListed
  <2>2. Returned' = Returned /\ Countable' /\ CapturesPay'
    BY <2>1, SharesStay DEF Books, Countable, Returned, CapturesPay
  <2>3. ASSUME NEW v \in Vouchers PROVE (Telescoped(v) /\ UsedUp(v) /\ Balances(v))'
    <3>1. Rebookable(v)' = Rebookable(v) /\ Total(owed, HoldsOf(v))' = Total(owed, HoldsOf(v))
      BY <2>1, SharesStay
    <3>2. Telescoped(v) /\ UsedUp(v) /\ Balances(v)
      BY DEF Books
    <3>3. UsedUp(v)' /\ Balances(v)'
      BY <1>1, <2>1, <2>2, <3>2 DEF UsedUp, Balances
    <3>4. CASE v # w
      <4>1. vstate'[v] = vstate[v] /\ closed'[v] = closed[v]
        BY <1>1, <2>1, <3>4
      <4>2. ShareDrawn(v)' = ShareDrawn(v) /\ Booked(v)' = Booked(v)
        BY <2>1, <3>1, <4>1 DEF ShareDrawn, Booked, CeilShare
      <4> QED BY <3>1, <3>2, <3>3, <4>1, <4>2 DEF Telescoped
    <3>5. CASE v = w
      <4> DEFINE drawn == CeilShare(v, Face[v] - remaining[v])
      <4>1. /\ closed[v] = 0 /\ drawn <= Total(owed, HoldsOf(v)) + 0
            /\ Total(owed, HoldsOf(v)) + 0 <= drawn + Rebookable(v)
        BY <2>1, <3>2, <3>5 DEF Telescoped, Booked, ShareDrawn
      <4>2. closed'[v] = S[v] - drawn
        BY <1>1, <2>1, <3>5, ShareEnds DEF PayableShare
      <4>3. Total(owed, HoldsOf(v)) \in Nat /\ Rebookable(v) \in Nat /\ S[v] \in Nat
        BY Sums, RedemptionAssumption DEF RedemptionAssumption
      <4>4. drawn \in Nat
        <5>1. Face[v] - remaining[v] \in Nat
          BY RedemptionAssumption DEF IInv, TypeOK, WithinValue, RedemptionAssumption
        <5> QED BY <5>1, ShareGrows
      <4>5. vstate'[v] = "expired"
        BY <1>1, <2>1, <3>5
      <4> HIDE DEF drawn
      <4>6. /\ S[v] <= Total(owed, HoldsOf(v)) + closed'[v]
            /\ Total(owed, HoldsOf(v)) + closed'[v] <= S[v] + Rebookable(v)
        BY <4>1, <4>2, <4>3, <4>4
      <4>7. Telescoped(v)'
        BY <3>1, <4>5, <4>6 DEF Telescoped, Booked, ShareDrawn
      <4> QED BY <3>3, <4>7
    <3> QED BY <3>4, <3>5
  <2> QED BY <2>2, <2>3 DEF Books
<1> QED BY <1>2, <1>3

(* A capture books the share from what was drawn before to what is drawn now.  *)
LEMMA CaptureKeepsBooks ==
    ASSUME IInv, Books, NEW h \in Holds, NEW n \in Nat, Capture(h, n)
    PROVE  Books'
<1> DEFINE w == HoldOn[h]
           left == LeftAfter(w, n)
           share == PayableShare(w, Face[w] - remaining[w], Face[w] - left)
<1>1. /\ vstate \in [Vouchers -> VoucherState] /\ closed \in [Vouchers -> Nat]
      /\ remaining \in [Vouchers -> Nat] /\ owed \in [Holds -> Nat] /\ taken \in [Holds -> Nat]
      /\ auth \in [Holds -> HoldState] /\ amount \in [Holds -> Nat]
      /\ refunded \in [Holds -> [Refs -> Nat]]
      /\ w \in Vouchers /\ Face[w] \in Nat /\ remaining[w] <= Face[w]
      /\ h \in HoldsOf(w)
  BY RedemptionAssumption DEF IInv, TypeOK, WithinValue, RedemptionAssumption, HoldsOf
<1>2. /\ auth[h] = "held" /\ vstate[w] = "held" /\ taken[h] = 0 /\ owed[h] = 0
      /\ n <= remaining[w]
  BY <1>1 DEF Capture, Books, CapturesPay, IInv, WithinValue
<1>3. left \in Nat /\ left <= remaining[w] /\ (w \in Carrying => left = remaining[w] - n)
  BY <1>1, <1>2 DEF LeftAfter
<1>4. share \in Nat
  <2>1. /\ Face[w] - remaining[w] \in Nat /\ Face[w] - left \in Nat
        /\ Face[w] - remaining[w] <= Face[w] - left
    <3> HIDE DEF left
    <3> QED BY <1>1, <1>3
  <2> HIDE DEF left
  <2> QED BY <1>1, <2>1, ShareIsNat
<1>5. /\ auth' = [auth EXCEPT ![h] = "captured"] /\ taken' = [taken EXCEPT ![h] = n]
      /\ remaining' = [remaining EXCEPT ![w] = left]
      /\ vstate' = [vstate EXCEPT ![w] = IF left = 0 THEN "redeemed" ELSE "active"]
      /\ owed' = [owed EXCEPT ![h] = share]
      /\ UNCHANGED <<refunded, closed>>
  BY DEF Capture
<1>6. Returned' = Returned
  BY <1>5 DEF Returned
<1>7. share = CeilShare(w, Face[w] - left) - CeilShare(w, Face[w] - remaining[w])
  BY DEF PayableShare
<1> HIDE DEF left, share, w
<1>8. CapturesPay'
  BY <1>1, <1>5 DEF CapturesPay, Books
<1>9. ASSUME NEW v \in Vouchers, v # w
      PROVE  /\ (Telescoped(v) /\ UsedUp(v) /\ Balances(v))'
             /\ IsFiniteSet(Units(taken, HoldsOf(v)))'
             /\ IsFiniteSet(Units(owed, HoldsOf(v)))'
  <2>1. h \notin HoldsOf(v) /\ HoldsOf(v) \subseteq Holds
    BY <1>9 DEF HoldsOf, w
  <2>2. \A g \in HoldsOf(v) : taken'[g] = taken[g] /\ owed'[g] = owed[g]
    BY <1>1, <1>5, <2>1
  <2>3. /\ Units(taken', HoldsOf(v)) = Units(taken, HoldsOf(v))
        /\ Total(taken', HoldsOf(v)) = Total(taken, HoldsOf(v))
        /\ Units(owed', HoldsOf(v)) = Units(owed, HoldsOf(v))
        /\ Total(owed', HoldsOf(v)) = Total(owed, HoldsOf(v))
    BY <2>2, TotalSame
  <2>4. vstate'[v] = vstate[v] /\ remaining'[v] = remaining[v] /\ closed'[v] = closed[v]
    BY <1>1, <1>5, <1>9
  <2>5. /\ Rebookable(v)' = Rebookable(v) /\ Booked(v)' = Booked(v)
        /\ ShareDrawn(v)' = ShareDrawn(v)
    BY <1>5, <2>3, <2>4, SharesStay DEF Booked, ShareDrawn, CeilShare
  <2>6. Telescoped(v) /\ UsedUp(v) /\ Balances(v)
    BY DEF Books
  <2>7. Telescoped(v)'
    BY <2>4, <2>5, <2>6 DEF Telescoped
  <2>8. UsedUp(v)' /\ Balances(v)'
    BY <1>6, <2>3, <2>4, <2>6 DEF UsedUp, Balances
  <2>9. IsFiniteSet(Units(taken', HoldsOf(v))) /\ IsFiniteSet(Units(owed', HoldsOf(v)))
    BY <2>3 DEF Books, Countable
  <2> QED BY <2>7, <2>8, <2>9
<1>10. /\ (Telescoped(w) /\ UsedUp(w) /\ Balances(w))'
       /\ IsFiniteSet(Units(taken, HoldsOf(w)))'
       /\ IsFiniteSet(Units(owed, HoldsOf(w)))'
  <2>1. IsFiniteSet(Units(taken, HoldsOf(w))) /\ IsFiniteSet(Units(owed, HoldsOf(w)))
    BY <1>1 DEF Books, Countable
  <2>2. /\ h \in HoldsOf(w) /\ taken[h] \in Nat /\ owed[h] \in Nat
        /\ taken'[h] = taken[h] + n /\ owed'[h] = owed[h] + share
        /\ \A g \in HoldsOf(w) \ {h} : taken'[g] = taken[g]
        /\ \A g \in HoldsOf(w) \ {h} : owed'[g] = owed[g]
    BY <1>1, <1>2, <1>4, <1>5 DEF HoldsOf
  <2>3. /\ IsFiniteSet(Units(taken', HoldsOf(w)))
        /\ Total(taken', HoldsOf(w)) = Total(taken, HoldsOf(w)) + n
    BY ONLY n \in Nat, <2>1, <2>2, TotalGrows
  <2>4. /\ IsFiniteSet(Units(owed', HoldsOf(w)))
        /\ Total(owed', HoldsOf(w)) = Total(owed, HoldsOf(w)) + share
    BY ONLY <1>4, <2>1, <2>2, TotalGrows
  <2>5. Telescoped(w) /\ UsedUp(w) /\ Balances(w)
    BY <1>1 DEF Books
  <2>6. /\ remaining'[w] = left /\ closed'[w] = closed[w]
        /\ vstate'[w] = IF left = 0 THEN "redeemed" ELSE "active"
    BY <1>1, <1>5
  <2>7. /\ Total(owed, HoldsOf(w)) \in Nat /\ Total(taken, HoldsOf(w)) \in Nat
        /\ remaining[w] \in Nat
    BY <1>1, <2>1, FS_CardinalityType DEF Total
  <2>8. Telescoped(w)'
    <3> DEFINE before == CeilShare(w, Face[w] - remaining[w])
               after  == CeilShare(w, Face[w] - left)
    <3>1. /\ closed[w] = 0 /\ before <= Total(owed, HoldsOf(w)) + 0
          /\ Total(owed, HoldsOf(w)) + 0 <= before + Rebookable(w)
      BY <1>2, <2>5 DEF Telescoped, Booked, ShareDrawn
    <3>2. before \in Nat /\ after \in Nat
      <4>1. Face[w] - remaining[w] \in Nat /\ Face[w] - left \in Nat
        BY <1>1, <1>3, <2>7
      <4> QED BY <1>1, <4>1, ShareGrows
    <3>3. Rebookable(w)' = Rebookable(w) /\ Rebookable(w) \in Nat
      BY <1>1, <1>5, SharesStay, Sums
    <3>4. after = before + share
      BY <1>4, <1>7, <3>2
    <3>5. vstate'[w] # "expired" /\ closed'[w] = 0
      BY <2>6, <3>1
    <3>6. ShareDrawn(w)' = after /\ Booked(w)' = Total(owed', HoldsOf(w)) + 0
      BY <2>6, <3>5 DEF ShareDrawn, Booked, CeilShare
    <3> HIDE DEF before, after
    <3>7. /\ after <= Total(owed', HoldsOf(w)) + 0
          /\ Total(owed', HoldsOf(w)) + 0 <= after + Rebookable(w)
      BY <1>4, <2>4, <2>7, <3>1, <3>2, <3>3, <3>4
    <3> QED BY <3>3, <3>5, <3>6, <3>7 DEF Telescoped
  <2>9. UsedUp(w)'
    BY <2>6 DEF UsedUp
  <2>10. Balances(w)'
    <3>1. SUFFICES ASSUME w \in Carrying
                   PROVE  left + Total(taken', HoldsOf(w)) = Face[w] + Total(Returned, HoldsOf(w))
      BY <1>6, <2>6 DEF Balances
    <3>2. remaining[w] + Total(taken, HoldsOf(w)) = Face[w] + Total(Returned, HoldsOf(w))
      BY <2>5, <3>1 DEF Balances
    <3>3. left + (Total(taken, HoldsOf(w)) + n) = remaining[w] + Total(taken, HoldsOf(w))
      BY <1>2, <1>3, <2>7, <3>1
    <3> QED BY <2>3, <3>2, <3>3
  <2> QED BY <2>3, <2>4, <2>8, <2>9, <2>10
<1>11. Countable'
  <2>1. \A g \in Holds : /\ IsFiniteSet(Units(refunded'[g], Refs))
                         /\ IsFiniteSet(Units(ShareOf(g)', Refs))
    BY <1>5, SharesStay DEF Books, Countable
  <2>2. \A v \in Vouchers : /\ IsFiniteSet(Units(Returned', HoldsOf(v)))
                            /\ IsFiniteSet(Units(Restored', HoldsOf(v)))
    BY <1>5, <1>6, SharesStay DEF Books, Countable
  <2> QED BY <1>9, <1>10, <2>1, <2>2 DEF Countable
<1> QED BY <1>8, <1>9, <1>10, <1>11 DEF Books

(* A refund restores what it returns and books nothing back: the share that is *)
(* drawn falls by at most the refund's own share.                              *)
LEMMA RefundKeepsBooks ==
    ASSUME IInv, Books, NEW h \in Holds, NEW r \in Refs, NEW n \in Nat, Refund(h, r, n)
    PROVE  Books'
<1> DEFINE w == HoldOn[h]
<1>1. /\ remaining \in [Vouchers -> Nat] /\ taken \in [Holds -> Nat]
      /\ refunded \in [Holds -> [Refs -> Nat]] /\ w \in Vouchers /\ h \in HoldsOf(w)
  BY RedemptionAssumption DEF IInv, TypeOK, RedemptionAssumption, HoldsOf
<1>2. /\ vstate[w] = "active" /\ refunded[h][r] = 0 /\ n > 0
      /\ refunded'  = [refunded EXCEPT ![h][r] = n]
      /\ remaining' = [remaining EXCEPT ![w] = @ + n]
      /\ UNCHANGED <<vstate, auth, taken, owed, closed>>
  BY DEF Refund
<1>3. /\ IsFiniteSet(Units(refunded'[h], Refs))
      /\ Total(refunded'[h], Refs) = Total(refunded[h], Refs) + n
  <2>1. IsFiniteSet(Units(refunded[h], Refs))
    BY DEF Books, Countable
  <2>2. refunded[h][r] \in Nat /\ refunded'[h][r] = refunded[h][r] + n
    BY <1>1, <1>2
  <2>3. \A q \in Refs \ {r} : refunded'[h][q] = refunded[h][q]
    BY <1>1, <1>2
  <2> QED BY ONLY n \in Nat, r \in Refs, <2>1, <2>2, <2>3, TotalGrows
<1>4. Total(refunded[h], Refs) \in Nat
  BY FS_CardinalityType DEF Books, Countable, Total
<1>5. Returned'[h] = Returned[h] + n /\ \A g \in Holds \ {h} : Returned'[g] = Returned[g]
  <2>1. \A g \in Holds \ {h} : refunded'[g] = refunded[g]
    BY <1>1, <1>2
  <2> QED BY <1>3, <2>1 DEF Returned
<1> DEFINE part == CeilShare(w, n)
<1>10. part \in Nat
  BY <1>1, ShareGrows
<1>11. /\ IsFiniteSet(Units(ShareOf(h)', Refs))
       /\ Restored[h] \in Nat /\ Restored'[h] = Restored[h] + part
  <2>1. IsFiniteSet(Units(ShareOf(h), Refs))
    BY DEF Books, Countable
  <2>2. ShareOf(h)[r] = 0 /\ ShareOf(h)'[r] = part
    BY <1>1, <1>2, ShareEnds DEF ShareOf, CeilShare
  <2>3. \A q \in Refs \ {r} : ShareOf(h)'[q] = ShareOf(h)[q]
    BY <1>1, <1>2 DEF ShareOf, CeilShare
  <2>4. /\ IsFiniteSet(Units(ShareOf(h)', Refs))
        /\ Total(ShareOf(h)', Refs) = Total(ShareOf(h), Refs) + part
    <3>1. ShareOf(h)[r] \in Nat /\ ShareOf(h)'[r] = ShareOf(h)[r] + part
      BY <1>10, <2>2
    <3> HIDE DEF part
    <3> QED BY ONLY <1>10, r \in Refs, <2>1, <2>3, <3>1, TotalGrows
  <2>5. Total(ShareOf(h), Refs) \in Nat
    BY <2>1, FS_CardinalityType DEF Total
  <2>6. Restored[h] = Total(ShareOf(h), Refs) /\ Restored'[h] = Total(ShareOf(h)', Refs)
    BY DEF Restored, RefundShares, ShareOf
  <2> HIDE DEF part
  <2> QED BY <2>4, <2>5, <2>6
<1>12. \A g \in Holds \ {h} : ShareOf(g)' = ShareOf(g) /\ Restored'[g] = Restored[g]
  <2> SUFFICES ASSUME NEW g \in Holds \ {h}
               PROVE  ShareOf(g)' = ShareOf(g) /\ Restored'[g] = Restored[g]
    OBVIOUS
  <2>1. refunded'[g] = refunded[g]
    BY <1>1, <1>2
  <2>2. ShareOf(g)' = ShareOf(g)
    BY <2>1 DEF ShareOf, CeilShare
  <2> QED BY <2>2 DEF Restored, RefundShares, ShareOf
<1> HIDE DEF w, part
<1>6. ASSUME NEW v \in Vouchers, v # w
      PROVE  /\ (Telescoped(v) /\ UsedUp(v) /\ Balances(v))'
             /\ IsFiniteSet(Units(Returned', HoldsOf(v)))
             /\ IsFiniteSet(Units(Restored', HoldsOf(v)))
  <2>1. h \notin HoldsOf(v) /\ HoldsOf(v) \subseteq Holds
    BY <1>6 DEF HoldsOf, w
  <2>2. \A g \in HoldsOf(v) : Returned'[g] = Returned[g] /\ refunded'[g] = refunded[g]
    BY <1>1, <1>2, <1>5, <2>1
  <2>3. /\ Units(Returned', HoldsOf(v)) = Units(Returned, HoldsOf(v))
        /\ Total(Returned', HoldsOf(v)) = Total(Returned, HoldsOf(v))
    BY <2>2, TotalSame
  <2>4. vstate'[v] = vstate[v] /\ remaining'[v] = remaining[v] /\ closed'[v] = closed[v]
    BY <1>1, <1>2, <1>6
  <2>5. /\ Units(Restored', HoldsOf(v)) = Units(Restored, HoldsOf(v))
        /\ Rebookable(v)' = Rebookable(v)
    <3>1. \A g \in HoldsOf(v) : Restored'[g] = Restored[g]
      BY <1>12, <2>1
    <3> QED BY <3>1, TotalSame DEF Rebookable, Restored
  <2>6. /\ Telescoped(v) /\ UsedUp(v) /\ Balances(v)
        /\ IsFiniteSet(Units(Returned, HoldsOf(v))) /\ IsFiniteSet(Units(Restored, HoldsOf(v)))
    BY DEF Books, Countable
  <2>7. Telescoped(v)'
    <3>1. ShareDrawn(v)' = ShareDrawn(v) /\ Booked(v)' = Booked(v)
      BY <1>2, <2>4 DEF ShareDrawn, Booked, CeilShare
    <3> QED BY <2>4, <2>5, <2>6, <3>1 DEF Telescoped
  <2>8. UsedUp(v)' /\ Balances(v)'
    BY <1>2, <2>3, <2>4, <2>6 DEF UsedUp, Balances
  <2> QED BY <2>3, <2>5, <2>6, <2>7, <2>8
<1>7. /\ (Telescoped(w) /\ UsedUp(w) /\ Balances(w))'
      /\ IsFiniteSet(Units(Returned', HoldsOf(w)))
      /\ IsFiniteSet(Units(Restored', HoldsOf(w)))
  <2>1. /\ IsFiniteSet(Units(Restored', HoldsOf(w)))
        /\ Rebookable(w)' = Rebookable(w) + part
    <3>1. IsFiniteSet(Units(Restored, HoldsOf(w)))
      BY <1>1 DEF Books, Countable
    <3>2. \A g \in HoldsOf(w) \ {h} : Restored'[g] = Restored[g]
      BY <1>12 DEF HoldsOf
    <3>3. h \in HoldsOf(w) /\ Restored[h] \in Nat /\ Restored'[h] = Restored[h] + part
      BY <1>1, <1>11
    <3>4. /\ IsFiniteSet(Units(Restored', HoldsOf(w)))
          /\ Total(Restored', HoldsOf(w)) = Total(Restored, HoldsOf(w)) + part
      BY ONLY <1>10, <3>1, <3>2, <3>3, TotalGrows
    <3> QED BY <3>4 DEF Rebookable, Restored
  <2>2. Telescoped(w)' /\ UsedUp(w)'
    <3> DEFINE drawn == Face[w] - remaining[w]
               left  == drawn - n
    <3>1. left \in Nat /\ drawn = left + n /\ left <= drawn /\ drawn \in Nat
      BY <1>1, RedemptionAssumption DEF Refund, w, RedemptionAssumption
    <3>2. /\ CeilShare(w, left) \in Nat /\ CeilShare(w, drawn) \in Nat
          /\ CeilShare(w, left) <= CeilShare(w, drawn)
          /\ CeilShare(w, drawn) <= CeilShare(w, left) + part
      <4> HIDE DEF drawn, left
      <4>1. w \in Vouchers
        BY <1>1
      <4>2. CeilShare(w, left) \in Nat /\ CeilShare(w, left) <= CeilShare(w, drawn)
        BY <3>1, <4>1, ShareGrows
      <4>3. drawn <= drawn
        BY <3>1
      <4>4. CeilShare(w, drawn) \in Nat
        BY <3>1, <4>1, <4>3, ShareGrows
      <4>5. CeilShare(w, left + n) <= CeilShare(w, left) + part
        BY <3>1, <4>1, ShareSplits DEF part
      <4> QED BY <3>1, <4>2, <4>4, <4>5
    <3>3. /\ closed[w] = 0 /\ CeilShare(w, drawn) <= Booked(w)
          /\ Booked(w) <= CeilShare(w, drawn) + Rebookable(w)
      BY <1>1, <1>2 DEF Books, Telescoped, ShareDrawn
    <3>4. Booked(w) \in Nat /\ Rebookable(w) \in Nat
      BY <1>1, <3>3, Sums DEF Booked
    <3>5. Booked(w)' = Booked(w) /\ vstate'[w] = "active" /\ closed'[w] = 0
      BY <1>2, <3>3 DEF Booked
    <3>6. ShareDrawn(w)' = CeilShare(w, left)
      <4>1. Face[w] - remaining'[w] = left
        <5>1. remaining'[w] = remaining[w] + n
          BY <1>1, <1>2
        <5>2. remaining[w] \in Nat /\ Face[w] \in Nat
          BY <1>1, RedemptionAssumption DEF RedemptionAssumption
        <5> QED BY <5>1, <5>2
      <4> QED BY <3>5, <4>1 DEF ShareDrawn, CeilShare
    <3> HIDE DEF drawn, left
    <3>7. Booked(w) <= CeilShare(w, left) + (Rebookable(w) + part)
      BY <1>10, <3>2, <3>3, <3>4
    <3>8. Telescoped(w)'
      BY <2>1, <3>2, <3>3, <3>4, <3>5, <3>6, <3>7 DEF Telescoped
    <3> QED BY <3>5, <3>8 DEF UsedUp
  <2>3. /\ IsFiniteSet(Units(Returned', HoldsOf(w)))
        /\ Total(Returned', HoldsOf(w)) = Total(Returned, HoldsOf(w)) + n
    <3>1. IsFiniteSet(Units(Returned, HoldsOf(w)))
      BY <1>1 DEF Books, Countable
    <3>2. Returned[h] \in Nat /\ Returned'[h] = Returned[h] + n
      BY <1>4, <1>5 DEF Returned
    <3>3. \A g \in HoldsOf(w) \ {h} : Returned'[g] = Returned[g]
      BY <1>5 DEF HoldsOf
    <3> QED BY ONLY n \in Nat, <1>1, <3>1, <3>2, <3>3, TotalGrows
  <2>4. Balances(w)'
    <3>1. SUFFICES ASSUME w \in Carrying
                   PROVE  remaining[w] + n + Total(taken, HoldsOf(w))
                            = Face[w] + Total(Returned', HoldsOf(w))
      BY <1>1, <1>2 DEF Balances
    <3>2. remaining[w] + Total(taken, HoldsOf(w)) = Face[w] + Total(Returned, HoldsOf(w))
      BY <1>1, <3>1 DEF Books, Balances
    <3>3. /\ Total(taken, HoldsOf(w)) \in Nat /\ Total(Returned, HoldsOf(w)) \in Nat
          /\ remaining[w] \in Nat /\ Face[w] \in Nat
      BY <1>1, FS_CardinalityType, RedemptionAssumption
         DEF Books, Countable, Total, RedemptionAssumption
    <3> QED BY <2>3, <3>2, <3>3
  <2> QED BY <2>1, <2>2, <2>3, <2>4
<1>8. Countable'
  <2>1. ASSUME NEW g \in Holds
        PROVE  IsFiniteSet(Units(refunded'[g], Refs)) /\ IsFiniteSet(Units(ShareOf(g)', Refs))
    BY <1>1, <1>2, <1>3, <1>11, <1>12 DEF Books, Countable
  <2>2. ASSUME NEW v \in Vouchers
        PROVE  /\ IsFiniteSet(Units(Returned', HoldsOf(v)))
               /\ IsFiniteSet(Units(Restored', HoldsOf(v)))
    BY <1>6, <1>7
  <2> QED BY <1>2, <2>1, <2>2 DEF Books, Countable
<1>9. CapturesPay'
  BY <1>2 DEF Books, CapturesPay
<1> QED BY <1>6, <1>7, <1>8, <1>9 DEF Books

LEMMA InitBooks == ASSUME Init PROVE Books
<1>1. ASSUME NEW h \in Holds
      PROVE  /\ IsFiniteSet(Units(refunded[h], Refs)) /\ Total(refunded[h], Refs) = 0
             /\ IsFiniteSet(Units(ShareOf(h), Refs)) /\ RefundShares(h) = 0
  <2>1. \A r \in Refs : refunded[h][r] = 0
    BY DEF Init
  <2>2. \A r \in Refs : ShareOf(h)[r] = 0
    BY <2>1, ShareEnds, RedemptionAssumption DEF ShareOf, RedemptionAssumption
  <2> QED BY <2>1, <2>2, TotalOfZeros DEF RefundShares, ShareOf
<1>2. ASSUME NEW v \in Vouchers
      PROVE  /\ IsFiniteSet(Units(taken, HoldsOf(v))) /\ Total(taken, HoldsOf(v)) = 0
             /\ IsFiniteSet(Units(owed, HoldsOf(v))) /\ Total(owed, HoldsOf(v)) = 0
             /\ IsFiniteSet(Units(Returned, HoldsOf(v))) /\ Total(Returned, HoldsOf(v)) = 0
             /\ IsFiniteSet(Units(Restored, HoldsOf(v))) /\ Rebookable(v) = 0
  <2>1. \A h \in HoldsOf(v) : taken[h] = 0 /\ owed[h] = 0 /\ Returned[h] = 0 /\ Restored[h] = 0
    BY <1>1 DEF Init, Returned, Restored, HoldsOf
  <2> QED BY <2>1, TotalOfZeros DEF Rebookable, Restored
<1>3. Countable
  BY <1>1, <1>2 DEF Countable
<1>4. CapturesPay
  BY DEF Init, CapturesPay
<1>5. ASSUME NEW v \in Vouchers PROVE Telescoped(v) /\ UsedUp(v) /\ Balances(v)
  <2>1. /\ vstate[v] = "active" /\ remaining[v] = Face[v] /\ closed[v] = 0
        /\ Face[v] \in Nat
    BY RedemptionAssumption DEF Init, RedemptionAssumption
  <2>2. CeilShare(v, Face[v] - remaining[v]) = 0
    <3>1. Face[v] - remaining[v] = 0
      BY <2>1
    <3> QED BY <3>1, ShareEnds
  <2>3. ShareDrawn(v) = 0 /\ Booked(v) = 0
    BY <1>2, <2>1, <2>2 DEF ShareDrawn, Booked
  <2> QED BY <1>2, <2>1, <2>3 DEF Telescoped, UsedUp, Balances
<1> QED BY <1>3, <1>4, <1>5 DEF Books

LEMMA BooksStayRight == Spec => []Books
<1>1. Init => Books
  BY InitBooks
<1>2. IInv /\ Books /\ [Next]_vars => Books'
  <2> SUFFICES ASSUME IInv, Books, [Next]_vars PROVE Books'
    OBVIOUS
  <2> USE DEF IInv, TypeOK
  <2>1. ASSUME NEW h \in Holds, NEW n \in 1..Face[HoldOn[h]], Authorize(h, n) \/ Capture(h, n)
        PROVE  Books'
    <3>1. n \in Nat
      BY RedemptionAssumption DEF RedemptionAssumption
    <3>2. CASE Authorize(h, n)
      BY <3>2, StateOnlyKeepsBooks DEF Authorize
    <3> QED BY <2>1, <3>1, <3>2, CaptureKeepsBooks
  <2>2. ASSUME NEW h \in Holds, NEW n \in 1..Face[HoldOn[h]], NEW r \in Refs, Refund(h, r, n)
        PROVE  Books'
    <3>1. n \in Nat
      BY RedemptionAssumption DEF RedemptionAssumption
    <3> QED BY <2>2, <3>1, RefundKeepsBooks
  <2>3. ASSUME NEW h \in Holds, Void(h) \/ ReleaseSwept(h) \/ HoldTimesOut(h) PROVE Books'
    BY <2>3, StateOnlyKeepsBooks DEF Void, ReleaseSwept, HoldTimesOut
  <2>4. ASSUME NEW v \in Vouchers, VoidVoucher(v) \/ VoucherFallsDue(v) PROVE Books'
    BY <2>4, StateOnlyKeepsBooks DEF VoidVoucher, VoucherFallsDue
  <2>5. ASSUME NEW v \in Vouchers, ExpireListed(v) PROVE Books'
    BY <2>5, ExpiryKeepsBooks
  <2>6. CASE SweepHolds
    BY <2>6, StateOnlyKeepsBooks DEF SweepHolds, Stale
  <2>7. CASE ListDue \/ Crash \/ ToggleKill \/ UNCHANGED vars
    BY <2>7, StateOnlyKeepsBooks DEF ListDue, Crash, ToggleKill, vars
  <2> QED BY <2>1, <2>2, <2>3, <2>4, <2>5, <2>6, <2>7 DEF Next
<1> QED BY <1>1, <1>2, Invariance, PTL DEF Spec

(* A voucher that was redeemed or expired has booked its settlement value,     *)
(* whatever partial captures drew it down and however their shares were        *)
(* rounded: exactly S without refunds, else at most the refunds' shares more.  *)
THEOREM BooksCloseAtS == Spec => []EndsAtS
<1>1. IInv /\ Books => EndsAtS
  <2> SUFFICES ASSUME IInv, Books, NEW v \in Vouchers, vstate[v] \in {"redeemed", "expired"}
               PROVE  Booked(v) \in S[v] .. S[v] + Rebookable(v)
    BY DEF EndsAtS
  <2>1. Telescoped(v) /\ UsedUp(v)
    BY DEF Books
  <2>2. ShareDrawn(v) = S[v]
    <3>1. CASE vstate[v] = "expired"
      BY <3>1 DEF ShareDrawn
    <3>2. CASE vstate[v] = "redeemed"
      <4>1. Face[v] - remaining[v] = Face[v]
        BY <2>1, <3>2, RedemptionAssumption DEF UsedUp, RedemptionAssumption
      <4> QED BY <3>2, <4>1, ShareEnds DEF ShareDrawn
    <3> QED BY <3>1, <3>2
  <2>3. Booked(v) \in Nat /\ S[v] \in Nat /\ Rebookable(v) \in Nat
    BY Sums, RedemptionAssumption DEF Booked, IInv, TypeOK, RedemptionAssumption
  <2> QED BY <2>1, <2>2, <2>3 DEF Telescoped
<1> QED BY <1>1, Invariance, BooksStayRight, PTL

(* On a balance-carrying voucher no draw or refund is lost or counted twice.   *)
THEOREM ValueIsConserved == Spec => []ValueConserved
<1>1. Books => ValueConserved
  <2> SUFFICES ASSUME Books, NEW v \in Carrying
               PROVE  remaining[v] + Total(taken, HoldsOf(v)) = Face[v] + Total(Returned, HoldsOf(v))
    BY DEF ValueConserved, Returned
  <2> QED BY RedemptionAssumption DEF Books, Balances, RedemptionAssumption
<1> QED BY <1>1, BooksStayRight, PTL

-------------------------------------------------------------------------------
(* What captures owe goes through Outbox. *)

(* Passes and late requests are of rows that exist. *)
Queued ==
    /\ outbox \in Seq(Captures) /\ posted \subseteq Captures /\ late \subseteq Captures
    /\ bookings \in [Captures -> Nat]
    /\ pass \in [Posters -> [at : {"idle", "post", "mark"}, rows : SUBSET Nat]]
    /\ \A p \in Posters : pass[p].rows \subseteq DOMAIN outbox

(* A poster that is about to mark a row was told that its capture is booked.   *)
Confirmed ==
    \A p \in Posters, n \in Nat :
        pass[p].at = "mark" /\ At(p, n) => IsBooked(outbox[n])

Delivery == Queued /\ BookedOnce /\ MarkedIsBooked /\ Confirmed

(* The ledger books a capture at most once and forgets none. *)
LEMMA BookKeeps ==
  ASSUME NEW c \in Captures, bookings \in [Captures -> Nat], BookedOnce, Book(c)
  PROVE  /\ bookings' \in [Captures -> Nat]
         /\ BookedOnce'
         /\ \A d \in Captures : IsBooked(d) => IsBooked(d)'
         /\ IsBooked(c) \/ ~Refuses(c) => IsBooked(c)'
BY DEF Book, IsBooked, BookedOnce

(* Each step of a poster keeps what posters were told. *)
LEMMA PostKeeps ==
  ASSUME Delivery, NEW p \in Posters, Post(p)
  PROVE  Delivery'
<1> USE DEF Delivery, Queued
<1>1. PICK n \in DOMAIN outbox :
        /\ pass[p].at = "post" /\ At(p, n)
        /\ \/ /\ Book(outbox[n]) /\ UNCHANGED late
              /\ pass' = [pass EXCEPT ![p] =
                    IF ~IsBooked(outbox[n]) /\ Refuses(outbox[n])
                    THEN Continue(@.rows \ {n}) ELSE [@ EXCEPT !.at = "mark"]]
           \/ /\ UNCHANGED bookings /\ late' \in {late, late \cup {outbox[n]}}
              /\ pass' = [pass EXCEPT ![p] = Idle]
        /\ UNCHANGED <<outbox, posted>>
  BY DEF Post
<1>2. outbox[n] \in Captures
  BY <1>1
<1>3. /\ bookings' \in [Captures -> Nat] /\ BookedOnce'
      /\ \A d \in Captures : IsBooked(d) => IsBooked(d)'
  <2>1. CASE UNCHANGED bookings
    BY <2>1 DEF BookedOnce, IsBooked
  <2> QED BY <1>1, <1>2, <2>1, BookKeeps
<1>4. /\ late' \subseteq Captures
      /\ pass' \in [Posters -> [at : {"idle", "post", "mark"}, rows : SUBSET Nat]]
      /\ \A q \in Posters : pass'[q].rows \subseteq DOMAIN outbox
  <2>1. CASE UNCHANGED late /\ pass' = [pass EXCEPT ![p].at = "mark"]
    BY <2>1
  <2>2. CASE UNCHANGED late /\ pass' = [pass EXCEPT ![p] = Continue(@.rows \ {n})]
    BY <2>2 DEF Continue, Idle
  <2>3. CASE late' \in {late, late \cup {outbox[n]}} /\ pass' = [pass EXCEPT ![p] = Idle]
    BY <1>2, <2>3 DEF Idle
  <2> QED BY <1>1, <2>1, <2>2, <2>3
<1>5. MarkedIsBooked'
  BY <1>1, <1>3 DEF MarkedIsBooked
<1>6. ASSUME NEW q \in Posters, NEW m \in Nat, pass'[q].at = "mark", At(q, m)'
      PROVE  IsBooked(outbox[m])'
  <2>1. CASE q # p
    <3>1. pass'[q] = pass[q]
      BY <1>1, <2>1
    <3>2. At(q, m) /\ pass[q].at = "mark"
      BY <1>6, <3>1 DEF At
    <3>3. IsBooked(outbox[m]) /\ outbox[m] \in Captures
      BY <3>2 DEF Confirmed, At
    <3> QED BY <1>1, <1>3, <3>3
  <2>2. CASE q = p
    <3>1. Book(outbox[n]) /\ (IsBooked(outbox[n]) \/ ~Refuses(outbox[n]))
          /\ pass'[p].rows = pass[p].rows
      BY <1>1, <1>6, <2>2 DEF Continue, Idle
    <3>2. m = n
      BY <1>1, <1>6, <2>2, <3>1 DEF At
    <3> QED BY <1>1, <1>2, <3>1, <3>2, BookKeeps
  <2> QED BY <2>1, <2>2
<1> QED BY <1>1, <1>3, <1>4, <1>5, <1>6 DEF Confirmed

(* Reading a batch, marking a row and dying leave the ledger alone. *)
LEMMA PassKeeps ==
  ASSUME Delivery, NEW p \in Posters, ReadBatch(p) \/ Mark(p) \/ Die(p)
  PROVE  Delivery'
<1> USE DEF Delivery, Queued
<1>1. UNCHANGED <<outbox, bookings, late>>
  BY DEF ReadBatch, Mark, Die
<1>2. PICK left \in SUBSET DOMAIN outbox :
        pass' = [pass EXCEPT ![p] = IF left = {} THEN Idle ELSE [at |-> "post", rows |-> left]]
  <2>1. CASE ReadBatch(p)
    BY <2>1 DEF ReadBatch, Continue, Batch, Unposted
  <2>2. CASE Mark(p)
    BY <2>2 DEF Mark, Continue
  <2>3. CASE Die(p)
    BY <2>3 DEF Die
  <2> QED BY <2>1, <2>2, <2>3
<1>3. /\ pass' \in [Posters -> [at : {"idle", "post", "mark"}, rows : SUBSET Nat]]
      /\ \A q \in Posters : pass'[q].rows \subseteq DOMAIN outbox
      /\ \A q \in Posters : pass'[q].at = "mark" => pass'[q] = pass[q]
  BY <1>2 DEF Idle
<1>4. posted' \subseteq Captures /\ \A c \in posted' : IsBooked(c)
  <2>1. CASE Mark(p)
    <3>1. PICK n \in DOMAIN outbox : /\ pass[p].at = "mark" /\ At(p, n)
                                    /\ posted' = posted \cup {outbox[n]}
      BY <2>1 DEF Mark
    <3>2. n \in Nat /\ outbox[n] \in Captures
      OBVIOUS
    <3>3. IsBooked(outbox[n])
      BY <3>1, <3>2 DEF Confirmed
    <3> QED BY <3>1, <3>2, <3>3 DEF MarkedIsBooked
  <2>2. CASE UNCHANGED posted
    BY <2>2 DEF MarkedIsBooked
  <2> QED BY <2>1, <2>2 DEF ReadBatch, Die
<1>5. MarkedIsBooked'
  BY <1>1, <1>4 DEF MarkedIsBooked, IsBooked
<1>6. Confirmed' /\ BookedOnce'
  BY <1>1, <1>3 DEF Confirmed, At, IsBooked, BookedOnce
<1> QED BY <1>1, <1>3, <1>4, <1>5, <1>6

(* Neither a new row nor a late request takes anything back. *)
LEMMA LedgerKeeps ==
  ASSUME Delivery, NEW c \in Captures, Owe(c) \/ Carry(c)
  PROVE  Delivery'
<1> USE DEF Delivery, Queued
<1>1. CASE Owe(c)
  <2>1. /\ outbox' \in Seq(Captures) /\ DOMAIN outbox \subseteq DOMAIN outbox'
        /\ \A n \in DOMAIN outbox : outbox'[n] = outbox[n]
    BY <1>1 DEF Owe
  <2> QED BY <1>1, <2>1 DEF Owe, BookedOnce, MarkedIsBooked, Confirmed,
                            At, IsBooked
<1>2. CASE Carry(c)
  <2>1. Book(c) /\ late' \subseteq Captures /\ UNCHANGED <<outbox, posted, pass>>
    BY <1>2 DEF Carry
  <2>2. /\ bookings' \in [Captures -> Nat] /\ BookedOnce'
        /\ \A d \in Captures : IsBooked(d) => IsBooked(d)'
    BY <2>1, BookKeeps
  <2>3. MarkedIsBooked'
    BY <2>1, <2>2 DEF MarkedIsBooked
  <2>4. Confirmed'
    BY <2>1, <2>2 DEF Confirmed, At
  <2> QED BY <2>1, <2>2, <2>3, <2>4
<1> QED BY <1>1, <1>2

(* What is posted, marked and confirmed stays right. *)
LEMMA DeliveryInvariance == OutboxSpec => []Delivery
<1>1. OutboxInit => Delivery
  BY DEF OutboxInit, Idle, Delivery, Queued, Confirmed, BookedOnce,
         MarkedIsBooked
<1>2. Delivery /\ [OutboxNext]_outboxVars => Delivery'
  <2> SUFFICES ASSUME Delivery, [OutboxNext]_outboxVars PROVE Delivery'
    OBVIOUS
  <2>1. CASE UNCHANGED outboxVars
    BY <2>1 DEF outboxVars, Delivery, Queued, Confirmed, BookedOnce,
                MarkedIsBooked, At, IsBooked
  <2> QED BY <2>1, LedgerKeeps, PassKeeps, PostKeeps DEF OutboxNext, Step
<1> QED BY <1>1, <1>2, PTL DEF OutboxSpec

(* A capture is booked at most once, however many instances post its row, pass   *)
(* after pass, and whatever becomes of requests that were given up.             *)
THEOREM CapturesAreBookedOnce == OutboxSpec => []BookedOnce
BY DeliveryInvariance, PTL DEF Delivery

(* A row is marked only once the ledger has booked its capture, and the booking *)
(* stays.                                                                       *)
THEOREM MarkedRowsAreBooked == OutboxSpec => []MarkedIsBooked
BY DeliveryInvariance, PTL DEF Delivery

===============================================================================

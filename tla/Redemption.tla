------------------------------ MODULE Redemption ------------------------------
(***************************************************************************)
(* The redemption network of services/voucher: a till holds a voucher,      *)
(* captures part or all of the hold, voids it or refunds a capture, while   *)
(* two sweeps of the service expire abandoned holds and overdue vouchers    *)
(* and a dispute, a gift or staff may void the voucher under a hold.        *)
(*                                                                          *)
(* A call that moves a voucher is one READ COMMITTED transaction that moves *)
(* it by a compare-and-set on its version and rolls back when that fails,   *)
(* so it is one step; the sweeps take one step for the statement that finds *)
(* their work and one for each item.                                        *)
(***************************************************************************)
EXTENDS Naturals, FiniteSets

CONSTANTS
    Vouchers,   \* vouchers that reached a wallet
    Holds,      \* authorizations, one per merchant order
    Refs,       \* a merchant's refund references
    HoldOn,     \* [Holds -> Vouchers]
    Device,     \* holds placed and captured by a counter device
    Face,       \* [Vouchers -> Nat], face value
    S,          \* [Vouchers -> Nat], settlement value of the voucher's batch
    Carrying,   \* vouchers whose policy is balance_carrying
    MaxCrashes  \* bound on passes of a sweep that stop half-way

ASSUME RedemptionAssumption ==
    /\ HoldOn \in [Holds -> Vouchers]
    /\ Device \subseteq Holds /\ Carrying \subseteq Vouchers
    /\ Face \in [Vouchers -> Nat \ {0}] /\ S \in [Vouchers -> Nat]
    /\ MaxCrashes \in Nat

VARIABLES
    \* voucher.vouchers
    vstate,     \* [Vouchers -> VoucherState]
    remaining,  \* [Vouchers -> Nat], remaining_value_minor
    overdue,    \* vouchers past expires_at
    \* voucher.authorization, voucher.capture, voucher.refund
    auth,       \* [Holds -> HoldState]
    amount,     \* [Holds -> Nat], the amount held
    timedOut,   \* holds past their expires_at
    taken,      \* [Holds -> Nat], the amount captured; 0: no capture
    refunded,   \* [Holds -> [Refs -> Nat]], refunds of the capture
    \* what the ledger is asked to book, at the settlement share
    owed,       \* [Holds -> Nat], capture_outbox
    closed,     \* [Vouchers -> Nat], expiry_outbox
    \* the service
    killed,     \* is a kill switch that covers the merchant on?
    swept,      \* expired holds whose vouchers the hold sweep has yet to release
    listed,     \* vouchers the expiry sweep listed and has not reached
    crashes

voucher == <<vstate, remaining>>
time    == <<overdue, timedOut>>
hold    == <<auth, amount>>
settled == <<taken, refunded, owed, closed>>
sweeps  == <<swept, listed>>
vars    == <<voucher, time, hold, settled, killed, sweeps, crashes>>

VoucherState == {"active", "held", "redeemed", "expired", "voided"}
HoldState    == {"none", "held", "captured", "voided", "expired"}

HoldsOf(v) == {h \in Holds : HoldOn[h] = v}

(* The sum of f over a set, by counting: f[x] units of each x. *)
Units(f, set) == UNION {{x} \X (1 .. f[x]) : x \in set}
Total(f, set) == Cardinality(Units(f, set))

(* ceilShare and PayableShare: the part of S that belongs to a draw-down from *)
(* `before` to `after` of the face value, rounded up and telescoped.          *)
CeilShare(v, drawn) == (S[v] * drawn + Face[v] - 1) \div Face[v]

(* A seeded bug, as are the other operators named ..Bug: no definition of the   *)
(* specification uses them.  Here each draw-down is rounded up on its own.      *)
PayableShareBug(v, before, after) == CeilShare(v, after - before)

PayableShare(v, before, after) == CeilShare(v, after) - CeilShare(v, before)

-------------------------------------------------------------------------------
Init ==
    /\ vstate = [v \in Vouchers |-> "active"] /\ remaining = Face /\ overdue = {}
    /\ auth = [h \in Holds |-> "none"] /\ amount = [h \in Holds |-> 0] /\ timedOut = {}
    /\ taken = [h \in Holds |-> 0] /\ refunded = [h \in Holds |-> [r \in Refs |-> 0]]
    /\ owed = [h \in Holds |-> 0] /\ closed = [v \in Vouchers |-> 0]
    /\ killed = FALSE /\ swept = {} /\ listed = {} /\ crashes = 0

(* A second hold may be placed on a held voucher. *)
AuthorizeBug(h, held) ==
    LET v == HoldOn[h] IN
    /\ auth[h] = "none" /\ ~ killed
    /\ vstate[v] \in {"active", "held"}
    /\ h \notin Device => v \notin overdue
    /\ held \in 1..remaining[v]
    /\ auth'   = [auth EXCEPT ![h] = "held"]
    /\ amount' = [amount EXCEPT ![h] = held]
    /\ vstate' = [vstate EXCEPT ![v] = "held"]
    /\ UNCHANGED <<remaining, time, settled, killed, sweeps, crashes>>

(* Authorize and authorizeAsDevice: the unique index allows one live hold, the *)
(* lifecycle only active -> held.  The device path does not ask for the date.  *)
Authorize(h, held) ==
    LET v == HoldOn[h] IN
    /\ auth[h] = "none" /\ ~ killed
    /\ vstate[v] = "active" /\ \A g \in HoldsOf(v) : auth[g] # "held"
    /\ h \notin Device => v \notin overdue
    /\ held \in 1..remaining[v]
    /\ auth'   = [auth EXCEPT ![h] = "held"]
    /\ amount' = [amount EXCEPT ![h] = held]
    /\ vstate' = [vstate EXCEPT ![v] = "held"]
    /\ UNCHANGED <<remaining, time, settled, killed, sweeps, crashes>>

(* Every capture consumes the voucher. *)
LeftAfterBug(v, drawn) == 0

(* afterCapture: a balance-carrying voucher keeps the rest, any other is consumed. *)
LeftAfter(v, drawn) == IF v \in Carrying THEN remaining[v] - drawn ELSE 0

(* Capture and captureAsDevice: the device takes the whole hold and does not   *)
(* read the kill switch.                                                       *)
Capture(h, drawn) ==
    LET v == HoldOn[h]
        left == LeftAfter(v, drawn)
    IN
    /\ auth[h] = "held" /\ h \notin timedOut
    /\ vstate[v] = "held"
    /\ drawn \in 1..amount[h]
    /\ IF h \in Device THEN drawn = amount[h] ELSE ~ killed
    /\ auth'      = [auth EXCEPT ![h] = "captured"]
    /\ taken'     = [taken EXCEPT ![h] = drawn]
    /\ remaining' = [remaining EXCEPT ![v] = left]
    /\ vstate'    = [vstate EXCEPT ![v] = IF left = 0 THEN "redeemed" ELSE "active"]
    /\ owed'      = [owed EXCEPT ![h] = PayableShare(v, Face[v] - remaining[v], Face[v] - left)]
    /\ UNCHANGED <<amount, time, refunded, closed, killed, sweeps, crashes>>

(* Void: a live hold of a held voucher ends with nothing taken. *)
Void(h) ==
    LET v == HoldOn[h] IN
    /\ auth[h] = "held" /\ h \notin timedOut
    /\ vstate[v] = "held"
    /\ auth'   = [auth EXCEPT ![h] = "voided"]
    /\ vstate' = [vstate EXCEPT ![v] = "active"]
    /\ UNCHANGED <<remaining, amount, time, settled, killed, sweeps, crashes>>

(* Refund: once per reference, up to the capture and the face value, and only  *)
(* to an active voucher.  It books nothing with the ledger.                    *)
Refund(h, r, back) ==
    LET v == HoldOn[h] IN
    /\ vstate[v] = "active"
    /\ refunded[h][r] = 0 /\ back > 0
    /\ Total(refunded[h], Refs) + back <= taken[h]
    /\ remaining[v] + back <= Face[v]
    /\ refunded'  = [refunded EXCEPT ![h][r] = back]
    /\ remaining' = [remaining EXCEPT ![v] = @ + back]
    /\ UNCHANGED <<vstate, hold, time, taken, owed, closed, killed, sweeps, crashes>>

(* minter.Void: a dispute, a gift's remint or staff kill the voucher; the      *)
(* lifecycle allows it under a hold, which stays as it is.                     *)
VoidVoucher(v) ==
    /\ vstate[v] \in {"active", "held"}
    /\ vstate' = [vstate EXCEPT ![v] = "voided"]
    /\ UNCHANGED <<remaining, hold, time, settled, killed, sweeps, crashes>>

-------------------------------------------------------------------------------
Stale == {h \in Holds : auth[h] = "held" /\ h \in timedOut}

(* SweepExpiredHolds: one statement expires every stale hold ...              *)
SweepHolds ==
    /\ swept = {} /\ Stale # {}
    /\ auth'  = [h \in Holds |-> IF h \in Stale THEN "expired" ELSE auth[h]]
    /\ swept' = Stale
    /\ UNCHANGED <<voucher, amount, time, settled, killed, listed, crashes>>

(* ... then each voucher is released, unless it moved meanwhile.              *)
ReleaseSwept(h) ==
    LET v == HoldOn[h] IN
    /\ h \in swept
    /\ swept'  = swept \ {h}
    /\ vstate' = [vstate EXCEPT ![v] = IF @ = "held" THEN "active" ELSE @]
    /\ UNCHANGED <<remaining, hold, time, settled, killed, listed, crashes>>

(* Only vouchers nothing was taken from are listed. *)
ListDueBug ==
    /\ listed = {}
    /\ listed' = {v \in overdue : vstate[v] = "active" /\ remaining[v] = Face[v]}
    /\ listed' # {}
    /\ UNCHANGED <<voucher, hold, time, settled, killed, swept, crashes>>

(* SweepDue lists the active vouchers past their date ...                     *)
ListDue ==
    /\ listed = {}
    /\ listed' = {v \in overdue : vstate[v] = "active"}
    /\ listed' # {}
    /\ UNCHANGED <<voucher, hold, time, settled, killed, swept, crashes>>

(* The listing is trusted. *)
ExpireListedBug(v) ==
    /\ v \in listed
    /\ listed' = listed \ {v}
    /\ vstate' = [vstate EXCEPT ![v] = "expired"]
    /\ closed' = [closed EXCEPT ![v] = PayableShare(v, Face[v] - remaining[v], Face[v])]
    /\ UNCHANGED <<remaining, hold, time, taken, refunded, owed, killed, swept, crashes>>

(* ... and expires each that is still active, releasing to the ledger the     *)
(* settlement share of what was not redeemed.                                 *)
ExpireListed(v) ==
    /\ v \in listed
    /\ listed' = listed \ {v}
    /\ IF vstate[v] = "active"
       THEN /\ vstate' = [vstate EXCEPT ![v] = "expired"]
            /\ closed' = [closed EXCEPT ![v] = PayableShare(v, Face[v] - remaining[v], Face[v])]
       ELSE UNCHANGED <<vstate, closed>>
    /\ UNCHANGED <<remaining, hold, time, taken, refunded, owed, killed, swept, crashes>>

(* A transaction of a pass fails or the service restarts: the pass is over.   *)
Crash ==
    /\ crashes < MaxCrashes
    /\ swept # {} \/ listed # {}
    /\ crashes' = crashes + 1
    /\ swept' = {} /\ listed' = {}
    /\ UNCHANGED <<voucher, hold, time, settled, killed>>

(* A kill switch is enabled or lifted. *)
ToggleKill ==
    /\ killed' = ~ killed
    /\ UNCHANGED <<voucher, hold, time, settled, sweeps, crashes>>

HoldTimesOut(h) ==
    /\ auth[h] = "held" /\ h \notin timedOut
    /\ timedOut' = timedOut \cup {h}
    /\ UNCHANGED <<voucher, hold, overdue, settled, killed, sweeps, crashes>>

VoucherFallsDue(v) ==
    /\ v \notin overdue
    /\ overdue' = overdue \cup {v}
    /\ UNCHANGED <<voucher, hold, timedOut, settled, killed, sweeps, crashes>>

Next ==
    \/ \E h \in Holds :
          \/ \E n \in 1..Face[HoldOn[h]] : Authorize(h, n) \/ Capture(h, n)
          \/ \E n \in 1..Face[HoldOn[h]], r \in Refs : Refund(h, r, n)
          \/ Void(h) \/ ReleaseSwept(h) \/ HoldTimesOut(h)
    \/ \E v \in Vouchers : VoidVoucher(v) \/ ExpireListed(v) \/ VoucherFallsDue(v)
    \/ SweepHolds \/ ListDue \/ Crash \/ ToggleKill

Spec == Init /\ [][Next]_vars

(* Both sweeps run on a timer of the service and reach every item of a pass;   *)
(* a hold's time to live passes.  No till promises anything.                   *)
FairSpec ==
    /\ Spec
    /\ WF_vars(SweepHolds) /\ WF_vars(ListDue)
    /\ \A h \in Holds : WF_vars(HoldTimesOut(h)) /\ WF_vars(ReleaseSwept(h))
    /\ \A v \in Vouchers : WF_vars(ExpireListed(v))

-------------------------------------------------------------------------------
(* Every variable stays in the set it is declared over. *)
TypeOK ==
    /\ vstate \in [Vouchers -> VoucherState] /\ remaining \in [Vouchers -> Nat]
    /\ auth \in [Holds -> HoldState] /\ amount \in [Holds -> Nat]
    /\ overdue \subseteq Vouchers /\ timedOut \subseteq Holds
    /\ taken \in [Holds -> Nat] /\ refunded \in [Holds -> [Refs -> Nat]]
    /\ owed \in [Holds -> Nat] /\ closed \in [Vouchers -> Nat]
    /\ killed \in BOOLEAN /\ swept \subseteq Holds /\ listed \subseteq Vouchers
    /\ crashes \in Nat

(* A live hold has its voucher to itself: whatever captures, voids, sweeps and *)
(* disputes do to other holds, the voucher stays held (or voided for good)     *)
(* until this hold is resolved.                                                *)
HoldOwnsItsVoucher ==
    \A h \in Holds : auth[h] = "held" =>
        /\ vstate[HoldOn[h]] \in {"held", "voided"}
        /\ \A g \in HoldsOf(HoldOn[h]) \ {h} : auth[g] # "held" /\ g \notin swept

(* A voucher is held only for somebody: a live hold, or one the hold sweep is  *)
(* about to release it for; only a pass that stopped half-way leaves it held   *)
(* for nobody.                                                                 *)
HeldForAHold ==
    \A v \in Vouchers : vstate[v] = "held" =>
        crashes > 0 \/ \E h \in HoldsOf(v) : auth[h] = "held" \/ h \in swept

(* Holds and vouchers agree, both ways. *)
HoldsAgree == HoldOwnsItsVoucher /\ HeldForAHold

Booked(v) == Total(owed, HoldsOf(v)) + closed[v]

(* The shares of all refunds on a voucher, each rounded up. *)
RefundShares(h) == Total([r \in Refs |-> CeilShare(HoldOn[h], refunded[h][r])], Refs)
Rebookable(v)   == Total([h \in Holds |-> RefundShares(h)], HoldsOf(v))

(* A voucher that ended has booked its settlement value, however many partial  *)
(* captures were rounded before: S exactly without refunds.  A refund books     *)
(* nothing, so later captures book the refunded part again; never more than     *)
(* its share.                                                                   *)
EndsAtS ==
    \A v \in Vouchers : vstate[v] \in {"redeemed", "expired"} =>
        Booked(v) \in S[v] .. S[v] + Rebookable(v)

(* Draws, net of refunds, and what is left always add up to the face value of  *)
(* a balance-carrying voucher.                                                 *)
ValueConserved ==
    \A v \in Carrying :
        remaining[v] + Total(taken, HoldsOf(v))
            = Face[v] + Total([h \in Holds |-> Total(refunded[h], Refs)], HoldsOf(v))

(* lifecycle.Transitions has one way back, from expired to active in a grace    *)
(* window, to undo an expiry that a wrong clock made.  It would be an operation  *)
(* of its own; no program calls it, so none is modelled.                        *)
UndoesExpiry(v) ==
    /\ vstate[v] = "expired" /\ vstate' = [vstate EXCEPT ![v] = "active"]
    /\ UNCHANGED <<remaining, hold, taken, refunded, owed, killed, sweeps, crashes>>

(* Nothing but such an undoing moves a voucher that ended: no late capture,    *)
(* refund, release or sweep revives it, restores value to it or books anything *)
(* more on it.  Redeemed and voided are final.                                 *)
EndedStaysEnded ==
    [][\A v \in Vouchers : vstate[v] \in {"redeemed", "expired", "voided"} =>
          \/ UndoesExpiry(v)
          \/ /\ UNCHANGED <<vstate[v], remaining[v], closed[v]>>
             /\ \A h \in HoldsOf(v) : owed'[h] = owed[h]]_vars

(* A voucher past its date leaves the wallet's spendable state. *)
OverdueExpires ==
    \A v \in Vouchers : (vstate[v] = "active" /\ v \in overdue) ~> vstate[v] # "active"

(* An abandoned cart cannot lock a voucher forever. *)
AbandonedCartLetsGo ==
    \A v \in Vouchers : vstate[v] = "held" ~> vstate[v] # "held"

(* What the ledger is asked to pay out on a voucher never exceeds S. *)
BookedWithinS == \A v \in Vouchers : Booked(v) <= S[v]
===============================================================================

-------------------------- MODULE UserPointsProofs ----------------------------
(***************************************************************************)
(* For any users, grants, escrows, prices and windows: breakage is never    *)
(* recognised on a user who is active or has points in escrow, and no       *)
(* holdback ends under an escrow, although both loops act on listings that  *)
(* are out of date.                                                         *)
(*                                                                          *)
(* A pass of the sweep keeps the cutoff it started with while the clock     *)
(* runs on; what makes its re-read under the lock enough is that the cutoff *)
(* of a running pass only gets older (Window).                              *)
(*                                                                          *)
(* The second part proves the balances: no account is overdrawn, what a     *)
(* user waits for is what the unreleased grants owe, and no point is        *)
(* created or lost.  Books is the inductive invariant: to the two balances  *)
(* it adds the third account, escrow, which must cover every hold for a     *)
(* release to go through.                                                   *)
(***************************************************************************)
EXTENDS UserPoints, FiniteSetTheorems, TLAPS

USE DEF balances, tables, time, loops

(* The cutoff of a running pass is a full window ago. *)
Window ==
    /\ clock \in Nat /\ cutoff \in Nat /\ activity \in [Users -> Nat]
    /\ sweeping => cutoff + Inactivity <= clock

(* Each user has a breakage account and each grant a row. *)
Rows == DOMAIN breakage = Users /\ DOMAIN grant = Grants

IInv == Window /\ Rows

LEMMA Invariance == Spec => []IInv
<1>1. Init => IInv
  BY DEF Init, IInv, Window, Rows
<1>2. IInv /\ [Next]_vars => IInv'
  <2> SUFFICES ASSUME IInv, [Next]_vars PROVE IInv'
    OBVIOUS
  <2>1. Inactivity \in Nat
    BY UserPointsAssumption DEF UserPointsAssumption
  <2> USE <2>1 DEF IInv, Window, Rows
  <2>2. ASSUME NEW g \in Grants, Grant(g) \/ ReleaseListed(g) PROVE IInv'
    BY <2>2 DEF Grant, Touch, ReleaseListed
  <2>3. ASSUME NEW e \in Escrows, HoldEscrow(e) \/ ReleaseEscrow(e) PROVE IInv'
    BY <2>3 DEF HoldEscrow, ReleaseEscrow
  <2>4. ASSUME NEW s \in Sagas, Burn(s) \/ Reinstate(s) PROVE IInv'
    BY <2>4 DEF Burn, Touch, Reinstate
  <2>5. ASSUME NEW u \in Users, ExpireOne(u) PROVE IInv'
    BY <2>5 DEF ExpireOne
  <2>6. CASE StartSweep
    BY <2>6 DEF StartSweep
  <2>7. CASE ListDue \/ FinishSweep \/ Restart \/ Tick
    BY <2>7 DEF ListDue, FinishSweep, Restart, Tick
  <2>8. CASE UNCHANGED vars
    BY <2>8 DEF vars
  <2> QED BY <2>2, <2>3, <2>4, <2>5, <2>6, <2>7, <2>8 DEF Next
<1> QED BY <1>1, <1>2, PTL DEF Spec

(* Points that expire had been quiet for longer than the window and were not   *)
(* in escrow at that very step, whatever came after the sweep listed them.     *)
THEOREM ActivityProtects == Spec => NothingExpiresWhileActive
<1> DEFINE Quiet == \A u \in Users : breakage'[u] # breakage[u] =>
                        clock - activity[u] > Inactivity /\ ~ HasHeldEscrow(u)
<1>1. IInv /\ [Next]_vars => [Quiet]_vars
  <2> SUFFICES ASSUME IInv, Next PROVE Quiet
    OBVIOUS
  <2>1. Inactivity \in Nat
    BY UserPointsAssumption DEF UserPointsAssumption
  <2>2. ASSUME NEW w \in Users, ExpireOne(w) PROVE Quiet
    <3> SUFFICES ASSUME NEW u \in Users, breakage'[u] # breakage[u]
                 PROVE  clock - activity[u] > Inactivity /\ ~ HasHeldEscrow(u)
      OBVIOUS
    <3>1. ExpiresNow(w) /\ sweeping /\ u = w
      BY <2>2 DEF ExpireOne, IInv, Rows
    <3>2. activity[u] \in Nat /\ activity[u] < cutoff /\ ~ HasHeldEscrow(u)
      BY <3>1 DEF ExpiresNow, IInv, Window
    <3> QED BY <2>1, <3>1, <3>2 DEF IInv, Window
  <2>3. (\E u \in Users : ExpireOne(u)) \/ UNCHANGED breakage
    BY DEF Next, Grant, ReleaseListed, HoldEscrow, ReleaseEscrow, Burn, Reinstate, ListDue,
           StartSweep, FinishSweep, Restart, Tick
  <2> QED BY <2>2, <2>3
<1> QED BY <1>1, Invariance, PTL DEF Spec, NothingExpiresWhileActive

(* Only the releaser's turn ends a holdback, and it looks at escrow again.     *)
THEOREM EscrowProtects == Spec => NoReleaseUnderEscrow
<1> DEFINE Kept == \A g \in Grants : grant[g] = "pending" /\ grant'[g] = "released"
                        => ~ HasHeldEscrow(GrantTo[g])
<1>1. IInv /\ [Next]_vars => [Kept]_vars
  <2> SUFFICES ASSUME Rows, Next PROVE Kept
    BY DEF IInv
  <2>1. ASSUME NEW g \in Grants, Grant(g) PROVE Kept
    BY <2>1 DEF Grant, Rows
  <2>2. ASSUME NEW g \in Grants, ReleaseListed(g) PROVE Kept
    BY <2>2 DEF ReleaseListed, Rows
  <2>3. CASE UNCHANGED grant
    BY <2>3
  <2>4. (\E g \in Grants : Grant(g) \/ ReleaseListed(g)) \/ UNCHANGED grant
    BY DEF Next, HoldEscrow, ReleaseEscrow, Burn, Reinstate, ExpireOne, ListDue, StartSweep,
           FinishSweep, Restart, Tick
  <2> QED BY <2>1, <2>2, <2>3, <2>4
<1> QED BY <1>1, Invariance, PTL DEF Spec, NoReleaseUnderEscrow
-------------------------------------------------------------------------------
(* Sums over finite sets, by counting: what one more element adds. *)

LEMMA Interval ==
    ASSUME NEW n \in Nat
    PROVE  IsFiniteSet(1 .. n) /\ Cardinality(1 .. n) = n
<1>1. 1 \in Int /\ n \in Int
  OBVIOUS
<1>2. IsFiniteSet(1 .. n) /\ Cardinality(1 .. n) = IF 1 > n THEN 0 ELSE n - 1 + 1
  BY <1>1, FS_Interval
<1> QED BY <1>2

LEMMA UnitsAreFinite ==
    ASSUME NEW S, IsFiniteSet(S), NEW f, \A x \in S : f[x] \in Nat
    PROVE  IsFiniteSet(Units(f, S)) /\ Total(f, S) \in Nat
<1> DEFINE each == [x \in S |-> {x} \X (1 .. f[x])]
           all  == {each[x] : x \in S}
<1>1. each \in Surjection(S, all)
  BY DEF Surjection
<1>2. IsFiniteSet(all)
  <2> HIDE DEF each, all
  <2> QED BY <1>1, FS_Surjection
<1>3. ASSUME NEW U \in all PROVE IsFiniteSet(U)
  <2>1. PICK x \in S : U = {x} \X (1 .. f[x])
    BY <1>3
  <2>2. IsFiniteSet({x}) /\ IsFiniteSet(1 .. f[x])
    BY FS_Singleton, Interval
  <2> QED BY <2>1, <2>2, FS_Product
<1>4. Units(f, S) = UNION all
  BY DEF Units
<1>5. IsFiniteSet(Units(f, S))
  <2> HIDE DEF all
  <2> QED BY <1>2, <1>3, <1>4, FS_UNION
<1> QED BY <1>5, FS_CardinalityType DEF Total

LEMMA TotalOfNone == ASSUME NEW f PROVE Total(f, {}) = 0
<1>1. Units(f, {}) = {}
  BY DEF Units
<1> QED BY <1>1, FS_EmptySet DEF Total

LEMMA TotalAdds ==
    ASSUME NEW S, IsFiniteSet(S), NEW f, \A x \in S : f[x] \in Nat,
           NEW y, y \notin S, f[y] \in Nat
    PROVE  Total(f, S \cup {y}) = Total(f, S) + f[y]
<1> DEFINE new == {y} \X (1 .. f[y])
<1>1. Units(f, S \cup {y}) = Units(f, S) \cup new
  BY DEF Units
<1>2. Units(f, S) \cap new = {}
  BY DEF Units
<1>3. IsFiniteSet(Units(f, S)) /\ Cardinality(Units(f, S)) \in Nat
  BY UnitsAreFinite DEF Total
<1>4. IsFiniteSet(new) /\ Cardinality(new) = f[y]
  <2>1. IsFiniteSet({y}) /\ Cardinality({y}) = 1
    BY FS_Singleton
  <2>2. IsFiniteSet(1 .. f[y]) /\ Cardinality(1 .. f[y]) = f[y]
    BY Interval
  <2>3. IsFiniteSet(new) /\ Cardinality(new) = Cardinality({y}) * Cardinality(1 .. f[y])
    BY <2>1, <2>2, FS_Product
  <2>4. 1 * f[y] = f[y]
    OBVIOUS
  <2> QED BY <2>1, <2>2, <2>3, <2>4
<1> HIDE DEF new
<1>5. Cardinality(Units(f, S) \cup new)
        = Cardinality(Units(f, S)) + Cardinality(new) - Cardinality(Units(f, S) \cap new)
  BY <1>3, <1>4, FS_Union
<1>6. Cardinality(Units(f, S) \cap new) = 0
  BY <1>2, FS_EmptySet
<1>7. Cardinality(Units(f, S)) + Cardinality(new) - 0 = Cardinality(Units(f, S)) + f[y]
  <2>1. \A a, b \in Nat : a + b - 0 = a + b
    OBVIOUS
  <2> QED BY <1>3, <1>4, <2>1
<1>8. Cardinality(Units(f, S \cup {y})) = Cardinality(Units(f, S)) + f[y]
  BY ONLY <1>1, <1>5, <1>6, <1>7
<1> QED BY <1>8 DEF Total

LEMMA TotalRemoves ==
    ASSUME NEW S, IsFiniteSet(S), NEW f, \A x \in S : f[x] \in Nat, NEW y \in S
    PROVE  Total(f, S) = Total(f, S \ {y}) + f[y]
<1>1. IsFiniteSet(S \ {y})
  BY FS_RemoveElement
<1>2. Total(f, (S \ {y}) \cup {y}) = Total(f, S \ {y}) + f[y]
  BY <1>1, TotalAdds
<1>3. (S \ {y}) \cup {y} = S
  OBVIOUS
<1> QED BY <1>2, <1>3

LEMMA TotalSame ==
    ASSUME NEW S, NEW f, NEW g, \A x \in S : f[x] = g[x]
    PROVE  Total(f, S) = Total(g, S)
<1>1. Units(f, S) = Units(g, S)
  BY DEF Units
<1> QED BY <1>1 DEF Total

-------------------------------------------------------------------------------
(* The books of one user.  The sets are finite because each starts empty and   *)
(* grows by one operation at a time; Grants, Escrows and Sagas need not be.    *)
Granted(u) == GrantsOf(u, "pending") \cup GrantsOf(u, "released")

Listed(u) == IsFiniteSet(Granted(u)) /\ IsFiniteSet(HeldOf(u)) /\ IsFiniteSet(BurnedBy(u))

PendingBalances(u) ==
    pending[u] + Total(fromPending, HeldOf(u)) = Total(GrantPoints, GrantsOf(u, "pending"))

EscrowBalances(u) == escrowed[u] = Total(EscrowPoints, HeldOf(u))

PointsBalance(u) ==
    Total(GrantPoints, Granted(u))
        = pending[u] + available[u] + escrowed[u] + breakage[u] + Total(Price, BurnedBy(u))

Account(u) == Listed(u) /\ PendingBalances(u) /\ EscrowBalances(u) /\ PointsBalance(u)

(* A hold takes no more from pending than it holds, so its release never gives *)
(* available less than nothing; and escrow holds at least each of its holds.   *)
Books ==
    /\ TypeOK
    /\ \A e \in Escrows : fromPending[e] <= EscrowPoints[e]
    /\ \A u \in Users : Account(u)

(* What every step below uses of the state: finite sets, natural numbers.      *)
LEMMA Amounts ==
    ASSUME Books, NEW u \in Users
    PROVE  /\ pending[u] \in Nat /\ available[u] \in Nat
           /\ escrowed[u] \in Nat /\ breakage[u] \in Nat
           /\ IsFiniteSet(GrantsOf(u, "pending")) /\ IsFiniteSet(Granted(u))
           /\ IsFiniteSet(HeldOf(u)) /\ IsFiniteSet(BurnedBy(u))
           /\ Total(GrantPoints, GrantsOf(u, "pending")) \in Nat
           /\ Total(GrantPoints, Granted(u)) \in Nat
           /\ Total(fromPending, HeldOf(u)) \in Nat
           /\ Total(EscrowPoints, HeldOf(u)) \in Nat
           /\ Total(Price, BurnedBy(u)) \in Nat
<1>1. /\ pending \in [Users -> Nat] /\ available \in [Users -> Nat]
      /\ escrowed \in [Users -> Nat] /\ breakage \in [Users -> Nat]
      /\ fromPending \in [Escrows -> Nat]
  BY DEF Books, TypeOK
<1>2. IsFiniteSet(Granted(u)) /\ IsFiniteSet(HeldOf(u)) /\ IsFiniteSet(BurnedBy(u))
  BY DEF Books, Account, Listed
<1>3. IsFiniteSet(GrantsOf(u, "pending"))
  BY <1>2, FS_Subset DEF Granted
<1>4. /\ \A g \in Granted(u) : GrantPoints[g] \in Nat
      /\ \A g \in GrantsOf(u, "pending") : GrantPoints[g] \in Nat
      /\ \A e \in HeldOf(u) : EscrowPoints[e] \in Nat /\ fromPending[e] \in Nat
      /\ \A s \in BurnedBy(u) : Price[s] \in Nat
  BY <1>1, UserPointsAssumption DEF UserPointsAssumption, Granted, GrantsOf, HeldOf, BurnedBy
<1>5. Total(GrantPoints, GrantsOf(u, "pending")) \in Nat
  BY <1>3, <1>4, UnitsAreFinite
<1>6. Total(GrantPoints, Granted(u)) \in Nat
  BY <1>2, <1>4, UnitsAreFinite
<1>7. Total(fromPending, HeldOf(u)) \in Nat
  BY <1>2, <1>4, UnitsAreFinite
<1>8. Total(EscrowPoints, HeldOf(u)) \in Nat
  BY <1>2, <1>4, UnitsAreFinite
<1>9. Total(Price, BurnedBy(u)) \in Nat
  BY <1>2, <1>4, UnitsAreFinite
<1> QED BY <1>1, <1>2, <1>3, <1>5, <1>6, <1>7, <1>8, <1>9

(* Nothing of user u's changes. *)
SameBalances(u) ==
    /\ pending'[u] = pending[u] /\ available'[u] = available[u]
    /\ escrowed'[u] = escrowed[u] /\ breakage'[u] = breakage[u]

SameGrants(u) ==
    /\ GrantsOf(u, "pending")' = GrantsOf(u, "pending")
    /\ GrantsOf(u, "released")' = GrantsOf(u, "released")

SameHolds(u) ==
    HeldOf(u)' = HeldOf(u) /\ \A e \in HeldOf(u) : fromPending'[e] = fromPending[e]

SameBurns(u) == BurnedBy(u)' = BurnedBy(u)

LEMMA Untouched ==
    ASSUME NEW u, Account(u), SameBalances(u), SameGrants(u), SameHolds(u), SameBurns(u)
    PROVE  Account(u)'
<1>1. Granted(u)' = Granted(u)
  BY DEF SameGrants, Granted
<1>2. Total(fromPending, HeldOf(u))' = Total(fromPending, HeldOf(u))
  <2>1. Total(fromPending', HeldOf(u)) = Total(fromPending, HeldOf(u))
    BY TotalSame DEF SameHolds
  <2> QED BY <2>1 DEF SameHolds
<1>3. Total(EscrowPoints, HeldOf(u))' = Total(EscrowPoints, HeldOf(u))
  BY DEF SameHolds
<1>4. Total(GrantPoints, GrantsOf(u, "pending"))' = Total(GrantPoints, GrantsOf(u, "pending"))
  BY DEF SameGrants
<1>5. Total(Price, BurnedBy(u))' = Total(Price, BurnedBy(u))
  BY DEF SameBurns
<1>6. Total(GrantPoints, Granted(u))' = Total(GrantPoints, Granted(u))
  BY <1>1
<1>7. Listed(u)'
  BY <1>1 DEF Account, Listed, SameHolds, SameBurns
<1> QED BY <1>2, <1>3, <1>4, <1>5, <1>6, <1>7
        DEF Account, PendingBalances, EscrowBalances, PointsBalance, SameBalances

(* The account of user u after each of the steps that move its points.         *)
LEMMA GrantKeepsBooks ==
    ASSUME Books, NEW g \in Grants, Grant(g), NEW u \in Users
    PROVE  Account(u)'
<1>1. /\ pending \in [Users -> Nat] /\ available \in [Users -> Nat]
      /\ grant \in [Grants -> {"none", "pending", "released"}]
      /\ GrantPoints[g] \in Nat /\ GrantTo[g] \in Users
  BY UserPointsAssumption DEF Books, TypeOK, UserPointsAssumption
<1>2. Account(u)
  BY DEF Books
<1>3. SameHolds(u) /\ SameBurns(u) /\ escrowed' = escrowed /\ breakage' = breakage
  BY DEF Grant, SameHolds, SameBurns, HeldOf, BurnedBy
<1>4. CASE GrantTo[g] # u
  <2>1. SameBalances(u)
    BY <1>1, <1>3, <1>4 DEF Grant, SameBalances
  <2>2. SameGrants(u)
    BY <1>1, <1>4 DEF Grant, SameGrants, GrantsOf
  <2> QED BY <1>2, <1>3, <2>1, <2>2, Untouched
<1>5. CASE GrantTo[g] = u
  <2>1. /\ IsFiniteSet(Granted(u)) /\ IsFiniteSet(GrantsOf(u, "pending"))
        /\ g \notin Granted(u) /\ g \notin GrantsOf(u, "pending")
        /\ \A x \in Granted(u) : GrantPoints[x] \in Nat
        /\ \A x \in GrantsOf(u, "pending") : GrantPoints[x] \in Nat
    BY Amounts, UserPointsAssumption DEF Grant, Granted, GrantsOf, UserPointsAssumption
  <2>2. Granted(u)' = Granted(u) \cup {g}
    BY <1>1, <1>5 DEF Grant, Granted, GrantsOf
  <2>3. Total(GrantPoints, Granted(u))' = Total(GrantPoints, Granted(u)) + GrantPoints[g]
    <3>1. Total(GrantPoints, Granted(u) \cup {g}) = Total(GrantPoints, Granted(u)) + GrantPoints[g]
      BY <1>1, <2>1, TotalAdds
    <3> QED BY <2>2, <3>1
  <2>4. Listed(u)'
    BY <1>2, <1>3, <2>1, <2>2, FS_AddElement DEF Account, Listed, SameHolds, SameBurns
  <2>5. /\ Total(fromPending, HeldOf(u))' = Total(fromPending, HeldOf(u))
        /\ Total(EscrowPoints, HeldOf(u))' = Total(EscrowPoints, HeldOf(u))
        /\ Total(Price, BurnedBy(u))' = Total(Price, BurnedBy(u))
    BY DEF Grant, HeldOf, BurnedBy
  <2>6. CASE g \in NoHoldback
    <3>1. GrantsOf(u, "pending")' = GrantsOf(u, "pending")
      BY <1>1, <1>5, <2>6 DEF Grant, GrantsOf
    <3>2. pending' = pending /\ available'[u] = available[u] + GrantPoints[g]
      BY <1>1, <1>5, <2>6 DEF Grant
    <3> QED BY <1>1, <1>2, <1>3, <2>3, <2>4, <2>5, <3>1, <3>2, Amounts
            DEF Account, PendingBalances, EscrowBalances, PointsBalance
  <2>7. CASE g \notin NoHoldback
    <3>1. GrantsOf(u, "pending")' = GrantsOf(u, "pending") \cup {g}
      BY <1>1, <1>5, <2>7 DEF Grant, GrantsOf
    <3>2. available' = available /\ pending'[u] = pending[u] + GrantPoints[g]
      BY <1>1, <1>5, <2>7 DEF Grant
    <3>3. Total(GrantPoints, GrantsOf(u, "pending"))'
            = Total(GrantPoints, GrantsOf(u, "pending")) + GrantPoints[g]
      <4>1. Total(GrantPoints, GrantsOf(u, "pending") \cup {g})
              = Total(GrantPoints, GrantsOf(u, "pending")) + GrantPoints[g]
        BY <1>1, <2>1, TotalAdds
      <4> QED BY <3>1, <4>1
    <3> QED BY <1>1, <1>2, <1>3, <2>3, <2>4, <2>5, <3>2, <3>3, Amounts
            DEF Account, PendingBalances, EscrowBalances, PointsBalance
  <2> QED BY <2>6, <2>7
<1> QED BY <1>4, <1>5

(* A release, by the releaser's turn.                                          *)
LEMMA ReleaseKeepsBooks ==
    ASSUME Books, NEW g \in Grants, ReleaseListed(g), NEW u \in Users
    PROVE  Account(u)'
<1>1. /\ pending \in [Users -> Nat] /\ available \in [Users -> Nat]
      /\ grant \in [Grants -> {"none", "pending", "released"}]
      /\ GrantPoints[g] \in Nat /\ GrantTo[g] \in Users
  BY UserPointsAssumption DEF Books, TypeOK, UserPointsAssumption
<1>2. Account(u)
  BY DEF Books
<1>3. SameHolds(u) /\ SameBurns(u) /\ escrowed' = escrowed /\ breakage' = breakage
  BY DEF ReleaseListed, SameHolds, SameBurns, HeldOf, BurnedBy
<1>4. CASE UNCHANGED <<grant, pending, available>>
  BY <1>2, <1>3, <1>4, Untouched DEF SameBalances, SameGrants, GrantsOf
<1>5. CASE ~ UNCHANGED <<grant, pending, available>> /\ GrantTo[g] # u
  <2>1. SameBalances(u)
    BY <1>1, <1>3, <1>5 DEF ReleaseListed, SameBalances
  <2>2. SameGrants(u)
    BY <1>1, <1>5 DEF ReleaseListed, SameGrants, GrantsOf
  <2> QED BY <1>2, <1>3, <2>1, <2>2, Untouched
<1>6. CASE ~ UNCHANGED <<grant, pending, available>> /\ GrantTo[g] = u
  <2>1. /\ grant[g] = "pending" /\ pending[u] >= GrantPoints[g]
        /\ grant'    = [grant EXCEPT ![g] = "released"]
        /\ pending'[u] = pending[u] - GrantPoints[g]
        /\ available'[u] = available[u] + GrantPoints[g]
    BY <1>1, <1>6 DEF ReleaseListed
  <2>2. Granted(u)' = Granted(u)
    BY <1>1, <1>6, <2>1 DEF Granted, GrantsOf
  <2>3. GrantsOf(u, "pending")' = GrantsOf(u, "pending") \ {g} /\ g \in GrantsOf(u, "pending")
    BY <1>1, <1>6, <2>1 DEF GrantsOf
  <2>4. /\ \A x \in GrantsOf(u, "pending") : GrantPoints[x] \in Nat
        /\ IsFiniteSet(GrantsOf(u, "pending")) /\ IsFiniteSet(GrantsOf(u, "pending") \ {g})
    BY Amounts, UserPointsAssumption, FS_RemoveElement DEF GrantsOf, UserPointsAssumption
  <2>5. /\ Total(GrantPoints, GrantsOf(u, "pending"))
             = Total(GrantPoints, GrantsOf(u, "pending"))' + GrantPoints[g]
        /\ Total(GrantPoints, GrantsOf(u, "pending"))' \in Nat
    <3>1. Total(GrantPoints, GrantsOf(u, "pending"))
            = Total(GrantPoints, GrantsOf(u, "pending") \ {g}) + GrantPoints[g]
      BY <2>3, <2>4, TotalRemoves
    <3>2. Total(GrantPoints, GrantsOf(u, "pending") \ {g}) \in Nat
      BY <2>4, UnitsAreFinite
    <3> QED BY <2>3, <3>1, <3>2
  <2>6. /\ Total(GrantPoints, Granted(u))' = Total(GrantPoints, Granted(u))
        /\ Total(fromPending, HeldOf(u))' = Total(fromPending, HeldOf(u))
        /\ Total(EscrowPoints, HeldOf(u))' = Total(EscrowPoints, HeldOf(u))
        /\ Total(Price, BurnedBy(u))' = Total(Price, BurnedBy(u))
    BY <2>2 DEF ReleaseListed, HeldOf, BurnedBy
  <2>7. Listed(u)'
    BY <1>2, <1>3, <2>2 DEF Account, Listed, SameHolds, SameBurns
  <2> QED BY <1>1, <1>2, <1>3, <2>1, <2>5, <2>6, <2>7, Amounts
          DEF Account, PendingBalances, EscrowBalances, PointsBalance
<1> QED BY <1>4, <1>5, <1>6

LEMMA HoldKeepsBooks ==
    ASSUME Books, NEW e \in Escrows, HoldEscrow(e), NEW u \in Users
    PROVE  Account(u)' /\ fromPending'[e] \in Nat /\ fromPending'[e] <= EscrowPoints[e]
<1> DEFINE owner == EscrowOf[e]
           a == Smaller(EscrowPoints[e], available[owner])
           p == EscrowPoints[e] - a
<1>1. /\ pending \in [Users -> Nat] /\ available \in [Users -> Nat]
      /\ escrowed \in [Users -> Nat] /\ fromPending \in [Escrows -> Nat]
      /\ escrow \in [Escrows -> {"none", "held", "released"}]
      /\ EscrowPoints[e] \in Nat /\ owner \in Users
  BY UserPointsAssumption DEF Books, TypeOK, UserPointsAssumption
<1>2. /\ a \in Nat /\ a <= EscrowPoints[e] /\ a <= available[owner]
      /\ p \in Nat /\ p <= EscrowPoints[e] /\ a + p = EscrowPoints[e]
  <2>1. available[owner] \in Nat
    BY <1>1
  <2> QED BY <1>1, <2>1 DEF Smaller
<1> HIDE DEF owner, a, p
<1>3. /\ escrow[e] = "none" /\ p <= pending[owner]
      /\ escrow'      = [escrow EXCEPT ![e] = "held"]
      /\ fromPending' = [fromPending EXCEPT ![e] = p]
      /\ available'   = [available EXCEPT ![owner] = @ - a]
      /\ pending'     = [pending EXCEPT ![owner] = @ - p]
      /\ escrowed'    = [escrowed EXCEPT ![owner] = @ + EscrowPoints[e]]
      /\ breakage' = breakage /\ grant' = grant /\ burn' = burn
  BY DEF HoldEscrow, owner, a, p
<1>4. fromPending'[e] \in Nat /\ fromPending'[e] <= EscrowPoints[e]
  BY <1>1, <1>2, <1>3
<1>5. Account(u)
  BY DEF Books
<1>6. SameGrants(u) /\ SameBurns(u)
  BY <1>3 DEF SameGrants, SameBurns, GrantsOf, BurnedBy
<1>7. CASE owner # u
  <2>1. SameBalances(u)
    BY <1>1, <1>3, <1>7 DEF SameBalances
  <2>2. SameHolds(u)
    BY <1>1, <1>3, <1>7 DEF SameHolds, HeldOf, owner
  <2> QED BY <1>4, <1>5, <1>6, <2>1, <2>2, Untouched
<1>8. CASE owner = u
  <2>1. HeldOf(u)' = HeldOf(u) \cup {e} /\ e \notin HeldOf(u)
    BY <1>1, <1>3, <1>8 DEF HeldOf, owner
  <2>2. /\ IsFiniteSet(HeldOf(u))
        /\ \A x \in HeldOf(u) : /\ fromPending'[x] = fromPending[x]
                                /\ fromPending[x] \in Nat /\ EscrowPoints[x] \in Nat
    BY <1>1, <1>3, <2>1, Amounts, UserPointsAssumption DEF HeldOf, UserPointsAssumption
  <2>3. Total(fromPending, HeldOf(u))' = Total(fromPending, HeldOf(u)) + p
    <3>1. Total(fromPending', HeldOf(u)) = Total(fromPending, HeldOf(u))
      BY <2>2, TotalSame
    <3>2. fromPending'[e] = p /\ \A x \in HeldOf(u) : fromPending'[x] \in Nat
      BY <1>1, <1>3, <2>2
    <3>3. Total(fromPending', HeldOf(u) \cup {e}) = Total(fromPending', HeldOf(u)) + fromPending'[e]
      BY <1>4, <2>1, <2>2, <3>2, TotalAdds
    <3> QED BY <2>1, <3>1, <3>2, <3>3
  <2>4. Total(EscrowPoints, HeldOf(u))' = Total(EscrowPoints, HeldOf(u)) + EscrowPoints[e]
    <3>1. Total(EscrowPoints, HeldOf(u) \cup {e}) = Total(EscrowPoints, HeldOf(u)) + EscrowPoints[e]
      BY <1>1, <2>1, <2>2, TotalAdds
    <3> QED BY <2>1, <3>1
  <2>5. Listed(u)'
    <3>1. IsFiniteSet(HeldOf(u))'
      BY <2>1, <2>2, FS_AddElement
    <3> QED BY <1>5, <1>6, <3>1 DEF Account, Listed, SameGrants, SameBurns, Granted
  <2>6. /\ Total(GrantPoints, Granted(u))' = Total(GrantPoints, Granted(u))
        /\ Total(GrantPoints, GrantsOf(u, "pending"))' = Total(GrantPoints, GrantsOf(u, "pending"))
        /\ Total(Price, BurnedBy(u))' = Total(Price, BurnedBy(u))
    BY <1>3 DEF Granted, GrantsOf, BurnedBy
  <2>7. /\ pending'[u] = pending[u] - p /\ available'[u] = available[u] - a
        /\ escrowed'[u] = escrowed[u] + EscrowPoints[e] /\ breakage'[u] = breakage[u]
    BY <1>1, <1>3, <1>8
  <2>8. Account(u)'
    BY <1>1, <1>2, <1>5, <2>3, <2>4, <2>5, <2>6, <2>7, Amounts
       DEF Account, PendingBalances, EscrowBalances, PointsBalance
  <2> QED BY <1>4, <2>8
<1> QED BY <1>7, <1>8

(* A hold is released only while it is held, so escrow covers it.              *)
LEMMA HoldIsCovered ==
    ASSUME Books, NEW e \in Escrows, escrow[e] = "held", NEW u \in Users, EscrowOf[e] = u
    PROVE  /\ Total(EscrowPoints, HeldOf(u)) = Total(EscrowPoints, HeldOf(u) \ {e}) + EscrowPoints[e]
           /\ Total(fromPending, HeldOf(u)) = Total(fromPending, HeldOf(u) \ {e}) + fromPending[e]
           /\ Total(EscrowPoints, HeldOf(u) \ {e}) \in Nat
           /\ Total(fromPending, HeldOf(u) \ {e}) \in Nat
           /\ IsFiniteSet(HeldOf(u) \ {e})
<1>1. e \in HeldOf(u) /\ IsFiniteSet(HeldOf(u))
  BY Amounts DEF HeldOf
<1>2. \A x \in HeldOf(u) : fromPending[x] \in Nat /\ EscrowPoints[x] \in Nat
  <2>1. fromPending \in [Escrows -> Nat]
    BY DEF Books, TypeOK
  <2> QED BY <2>1, UserPointsAssumption DEF HeldOf, UserPointsAssumption
<1>3. IsFiniteSet(HeldOf(u) \ {e})
  BY <1>1, FS_RemoveElement
<1>4. Total(EscrowPoints, HeldOf(u)) = Total(EscrowPoints, HeldOf(u) \ {e}) + EscrowPoints[e]
  BY <1>1, <1>2, TotalRemoves
<1>5. Total(fromPending, HeldOf(u)) = Total(fromPending, HeldOf(u) \ {e}) + fromPending[e]
  BY <1>1, <1>2, TotalRemoves
<1>6. Total(EscrowPoints, HeldOf(u) \ {e}) \in Nat
  BY <1>2, <1>3, UnitsAreFinite
<1>7. Total(fromPending, HeldOf(u) \ {e}) \in Nat
  BY <1>2, <1>3, UnitsAreFinite
<1> QED BY <1>3, <1>4, <1>5, <1>6, <1>7

LEMMA ReversalKeepsBooks ==
    ASSUME Books, NEW e \in Escrows, ReleaseEscrow(e), NEW u \in Users
    PROVE  Account(u)'
<1>1. /\ pending \in [Users -> Nat] /\ available \in [Users -> Nat]
      /\ escrowed \in [Users -> Nat] /\ fromPending \in [Escrows -> Nat]
      /\ escrow \in [Escrows -> {"none", "held", "released"}]
      /\ EscrowPoints[e] \in Nat /\ EscrowOf[e] \in Users
  BY UserPointsAssumption DEF Books, TypeOK, UserPointsAssumption
<1>2. Account(u) /\ fromPending[e] \in Nat /\ fromPending[e] <= EscrowPoints[e]
  BY <1>1 DEF Books
<1>3. /\ SameGrants(u) /\ SameBurns(u) /\ breakage' = breakage /\ fromPending' = fromPending
  BY DEF ReleaseEscrow, SameGrants, SameBurns, GrantsOf, BurnedBy
<1>4. CASE EscrowOf[e] # u
  <2>1. SameBalances(u)
    BY <1>1, <1>3, <1>4 DEF ReleaseEscrow, SameBalances
  <2>2. SameHolds(u)
    BY <1>1, <1>3, <1>4 DEF ReleaseEscrow, SameHolds, HeldOf
  <2> QED BY <1>2, <1>3, <2>1, <2>2, Untouched
<1>5. CASE EscrowOf[e] = u
  <2>1. HeldOf(u)' = HeldOf(u) \ {e} /\ escrow[e] = "held"
    BY <1>1, <1>5 DEF ReleaseEscrow, HeldOf
  <2>2. /\ Total(EscrowPoints, HeldOf(u)) = Total(EscrowPoints, HeldOf(u))' + EscrowPoints[e]
        /\ Total(fromPending, HeldOf(u)) = Total(fromPending, HeldOf(u))' + fromPending[e]
        /\ Total(EscrowPoints, HeldOf(u))' \in Nat /\ Total(fromPending, HeldOf(u))' \in Nat
        /\ IsFiniteSet(HeldOf(u))'
    BY <1>3, <1>5, <2>1, HoldIsCovered
  <2>3. Listed(u)'
    BY <1>2, <1>3, <2>2 DEF Account, Listed, SameGrants, SameBurns, Granted
  <2>4. /\ Total(GrantPoints, Granted(u))' = Total(GrantPoints, Granted(u))
        /\ Total(GrantPoints, GrantsOf(u, "pending"))' = Total(GrantPoints, GrantsOf(u, "pending"))
        /\ Total(Price, BurnedBy(u))' = Total(Price, BurnedBy(u))
    BY DEF ReleaseEscrow, Granted, GrantsOf, BurnedBy
  <2>5. /\ pending'[u] = pending[u] + fromPending[e]
        /\ available'[u] = available[u] + (EscrowPoints[e] - fromPending[e])
        /\ escrowed'[u] = escrowed[u] - EscrowPoints[e] /\ breakage'[u] = breakage[u]
    BY <1>1, <1>3, <1>5 DEF ReleaseEscrow
  <2> QED BY <1>1, <1>2, <2>2, <2>3, <2>4, <2>5, Amounts
          DEF Account, PendingBalances, EscrowBalances, PointsBalance
<1> QED BY <1>4, <1>5

LEMMA BurnKeepsBooks ==
    ASSUME Books, NEW s \in Sagas, Burn(s), NEW u \in Users
    PROVE  Account(u)'
<1>1. /\ available \in [Users -> Nat] /\ burn \in [Sagas -> {"none", "burned", "reinstated"}]
      /\ Price[s] \in Nat /\ Buyer[s] \in Users
  BY UserPointsAssumption DEF Books, TypeOK, UserPointsAssumption
<1>2. Account(u)
  BY DEF Books
<1>3. /\ SameGrants(u) /\ SameHolds(u)
      /\ pending' = pending /\ escrowed' = escrowed /\ breakage' = breakage
  BY DEF Burn, SameGrants, SameHolds, GrantsOf, HeldOf
<1>4. CASE Buyer[s] # u
  <2>1. SameBalances(u)
    BY <1>1, <1>3, <1>4 DEF Burn, SameBalances
  <2>2. SameBurns(u)
    BY <1>1, <1>4 DEF Burn, SameBurns, BurnedBy
  <2> QED BY <1>2, <1>3, <2>1, <2>2, Untouched
<1>5. CASE Buyer[s] = u
  <2>1. BurnedBy(u)' = BurnedBy(u) \cup {s} /\ s \notin BurnedBy(u)
    BY <1>1, <1>5 DEF Burn, BurnedBy
  <2>2. IsFiniteSet(BurnedBy(u)) /\ \A x \in BurnedBy(u) : Price[x] \in Nat
    BY Amounts, UserPointsAssumption DEF BurnedBy, UserPointsAssumption
  <2>3. Total(Price, BurnedBy(u))' = Total(Price, BurnedBy(u)) + Price[s]
    <3>1. Total(Price, BurnedBy(u) \cup {s}) = Total(Price, BurnedBy(u)) + Price[s]
      BY <1>1, <2>1, <2>2, TotalAdds
    <3> QED BY <2>1, <3>1
  <2>4. Listed(u)'
    <3>1. IsFiniteSet(BurnedBy(u))'
      BY <2>1, <2>2, FS_AddElement
    <3> QED BY <1>2, <1>3, <3>1 DEF Account, Listed, SameGrants, SameHolds, Granted
  <2>5. /\ Total(GrantPoints, Granted(u))' = Total(GrantPoints, Granted(u))
        /\ Total(GrantPoints, GrantsOf(u, "pending"))' = Total(GrantPoints, GrantsOf(u, "pending"))
        /\ Total(fromPending, HeldOf(u))' = Total(fromPending, HeldOf(u))
        /\ Total(EscrowPoints, HeldOf(u))' = Total(EscrowPoints, HeldOf(u))
    BY DEF Burn, Granted, GrantsOf, HeldOf
  <2>6. available'[u] = available[u] - Price[s]
    BY <1>1, <1>5 DEF Burn
  <2> QED BY <1>1, <1>2, <1>3, <2>3, <2>4, <2>5, <2>6, Amounts
          DEF Account, PendingBalances, EscrowBalances, PointsBalance
<1> QED BY <1>4, <1>5

LEMMA ReinstatementKeepsBooks ==
    ASSUME Books, NEW s \in Sagas, Reinstate(s), NEW u \in Users
    PROVE  Account(u)'
<1>1. /\ available \in [Users -> Nat] /\ burn \in [Sagas -> {"none", "burned", "reinstated"}]
      /\ Price[s] \in Nat /\ Buyer[s] \in Users
  BY UserPointsAssumption DEF Books, TypeOK, UserPointsAssumption
<1>2. Account(u)
  BY DEF Books
<1>3. /\ SameGrants(u) /\ SameHolds(u)
      /\ pending' = pending /\ escrowed' = escrowed /\ breakage' = breakage
  BY DEF Reinstate, SameGrants, SameHolds, GrantsOf, HeldOf
<1>4. CASE Buyer[s] # u
  <2>1. SameBalances(u)
    BY <1>1, <1>3, <1>4 DEF Reinstate, SameBalances
  <2>2. SameBurns(u)
    BY <1>1, <1>4 DEF Reinstate, SameBurns, BurnedBy
  <2> QED BY <1>2, <1>3, <2>1, <2>2, Untouched
<1>5. CASE Buyer[s] = u
  <2>1. BurnedBy(u)' = BurnedBy(u) \ {s} /\ s \in BurnedBy(u)
    BY <1>1, <1>5 DEF Reinstate, BurnedBy
  <2>2. /\ IsFiniteSet(BurnedBy(u)) /\ IsFiniteSet(BurnedBy(u) \ {s})
        /\ \A x \in BurnedBy(u) : Price[x] \in Nat
    BY Amounts, UserPointsAssumption, FS_RemoveElement DEF BurnedBy, UserPointsAssumption
  <2>3. /\ Total(Price, BurnedBy(u)) = Total(Price, BurnedBy(u))' + Price[s]
        /\ Total(Price, BurnedBy(u))' \in Nat
    <3>1. Total(Price, BurnedBy(u)) = Total(Price, BurnedBy(u) \ {s}) + Price[s]
      BY <2>1, <2>2, TotalRemoves
    <3>2. Total(Price, BurnedBy(u) \ {s}) \in Nat
      BY <2>2, UnitsAreFinite
    <3> QED BY <2>1, <3>1, <3>2
  <2>4. Listed(u)'
    BY <1>2, <1>3, <2>1, <2>2 DEF Account, Listed, SameGrants, SameHolds, Granted
  <2>5. /\ Total(GrantPoints, Granted(u))' = Total(GrantPoints, Granted(u))
        /\ Total(GrantPoints, GrantsOf(u, "pending"))' = Total(GrantPoints, GrantsOf(u, "pending"))
        /\ Total(fromPending, HeldOf(u))' = Total(fromPending, HeldOf(u))
        /\ Total(EscrowPoints, HeldOf(u))' = Total(EscrowPoints, HeldOf(u))
    BY DEF Reinstate, Granted, GrantsOf, HeldOf
  <2>6. available'[u] = available[u] + Price[s]
    BY <1>1, <1>5 DEF Reinstate
  <2> QED BY <1>1, <1>2, <1>3, <2>3, <2>4, <2>5, <2>6, Amounts
          DEF Account, PendingBalances, EscrowBalances, PointsBalance
<1> QED BY <1>4, <1>5

(* Expiry moves one user's available points to breakage.                       *)
LEMMA ExpiryKeepsBooks ==
    ASSUME Books, NEW w \in Users, ExpireOne(w), NEW u \in Users
    PROVE  Account(u)'
<1>1. available \in [Users -> Nat] /\ breakage \in [Users -> Nat]
  BY DEF Books, TypeOK
<1>2. Account(u)
  BY DEF Books
<1>3. /\ SameGrants(u) /\ SameHolds(u) /\ SameBurns(u)
      /\ pending' = pending /\ escrowed' = escrowed
  BY DEF ExpireOne, SameGrants, SameHolds, SameBurns, GrantsOf, HeldOf, BurnedBy
<1>4. CASE w # u \/ UNCHANGED <<available, breakage>>
  <2>1. SameBalances(u)
    BY <1>1, <1>3, <1>4 DEF ExpireOne, SameBalances
  <2> QED BY <1>2, <1>3, <2>1, Untouched
<1>5. CASE w = u /\ ~ UNCHANGED <<available, breakage>>
  <2>1. available'[u] = 0 /\ breakage'[u] = breakage[u] + available[u]
    BY <1>1, <1>5 DEF ExpireOne
  <2>2. Listed(u)'
    BY <1>2, <1>3 DEF Account, Listed, SameGrants, SameHolds, SameBurns, Granted
  <2>3. /\ Total(GrantPoints, Granted(u))' = Total(GrantPoints, Granted(u))
        /\ Total(GrantPoints, GrantsOf(u, "pending"))' = Total(GrantPoints, GrantsOf(u, "pending"))
        /\ Total(fromPending, HeldOf(u))' = Total(fromPending, HeldOf(u))
        /\ Total(EscrowPoints, HeldOf(u))' = Total(EscrowPoints, HeldOf(u))
        /\ Total(Price, BurnedBy(u))' = Total(Price, BurnedBy(u))
    BY DEF ExpireOne, Granted, GrantsOf, HeldOf, BurnedBy
  <2> QED BY <1>2, <1>3, <2>1, <2>2, <2>3, Amounts
          DEF Account, PendingBalances, EscrowBalances, PointsBalance
<1> QED BY <1>4, <1>5

(* The guards keep every balance a natural number: pending and available by    *)
(* the checks of the step itself, escrow because it covers each hold.          *)
LEMMA StepsKeepTypes == ASSUME Books, [Next]_vars PROVE TypeOK'
<1>1. /\ pending \in [Users -> Nat] /\ available \in [Users -> Nat]
      /\ escrowed \in [Users -> Nat] /\ breakage \in [Users -> Nat]
      /\ grant \in [Grants -> {"none", "pending", "released"}]
      /\ escrow \in [Escrows -> {"none", "held", "released"}]
      /\ fromPending \in [Escrows -> Nat]
      /\ burn \in [Sagas -> {"none", "burned", "reinstated"}]
      /\ posted \in [Users -> [Stamps -> Nat]]
      /\ noticed \subseteq Users \X Stamps
      /\ clock \in 0..MaxClock /\ activity \in [Users -> 0..MaxClock]
      /\ due \subseteq Grants /\ todo \subseteq Users
      /\ sweeping \in BOOLEAN /\ cutoff \in Nat /\ restarts \in Nat
  BY DEF Books, TypeOK
<1>2. /\ \A g \in Grants : GrantPoints[g] \in Nat /\ GrantTo[g] \in Users
      /\ \A e \in Escrows : EscrowPoints[e] \in Nat /\ EscrowOf[e] \in Users
      /\ \A s \in Sagas : Price[s] \in Nat /\ Buyer[s] \in Users
      /\ Inactivity \in Nat /\ MaxClock \in Nat
  BY UserPointsAssumption DEF UserPointsAssumption
<1>3. ASSUME NEW u \in Users, Touch(u)
      PROVE  clock' \in 0..MaxClock /\ activity' \in [Users -> 0..MaxClock]
  BY <1>1, <1>2, <1>3 DEF Touch
<1>4. ASSUME NEW g \in Grants, Grant(g) PROVE TypeOK'
  <2>1. clock' \in 0..MaxClock /\ activity' \in [Users -> 0..MaxClock]
    BY <1>2, <1>3, <1>4 DEF Grant
  <2>2. /\ pending' \in [Users -> Nat] /\ available' \in [Users -> Nat]
        /\ grant' \in [Grants -> {"none", "pending", "released"}]
    <3>1. /\ pending[GrantTo[g]] + GrantPoints[g] \in Nat
          /\ available[GrantTo[g]] + GrantPoints[g] \in Nat
      BY <1>1, <1>2
    <3>2. CASE g \in NoHoldback
      BY <1>1, <1>4, <3>1, <3>2 DEF Grant
    <3>3. CASE g \notin NoHoldback
      BY <1>1, <1>4, <3>1, <3>3 DEF Grant
    <3> QED BY <3>2, <3>3
  <2> QED BY <1>1, <1>4, <2>1, <2>2 DEF Grant, TypeOK
<1>5. ASSUME NEW g \in Grants, ReleaseListed(g) PROVE TypeOK'
  <2>1. /\ pending' \in [Users -> Nat] /\ available' \in [Users -> Nat]
        /\ grant' \in [Grants -> {"none", "pending", "released"}]
    <3>1. available[GrantTo[g]] + GrantPoints[g] \in Nat
      BY <1>1, <1>2
    <3>2. CASE UNCHANGED <<grant, pending, available>>
      BY <1>1, <3>2
    <3>3. CASE ~ UNCHANGED <<grant, pending, available>>
      <4>1. /\ pending[GrantTo[g]] >= GrantPoints[g]
            /\ grant'     = [grant EXCEPT ![g] = "released"]
            /\ pending'   = [pending EXCEPT ![GrantTo[g]] = @ - GrantPoints[g]]
            /\ available' = [available EXCEPT ![GrantTo[g]] = @ + GrantPoints[g]]
        BY <1>5, <3>3 DEF ReleaseListed
      <4>2. pending[GrantTo[g]] - GrantPoints[g] \in Nat
        BY <1>1, <1>2, <4>1
      <4> QED BY <1>1, <3>1, <4>1, <4>2
    <3> QED BY <3>2, <3>3
  <2> QED BY <1>1, <1>5, <2>1 DEF ReleaseListed, TypeOK
<1>6. ASSUME NEW e \in Escrows, HoldEscrow(e) PROVE TypeOK'
  <2>1. fromPending' \in [Escrows -> Nat]
    <3>1. fromPending'[e] \in Nat
      BY <1>2, <1>6, HoldKeepsBooks
    <3> QED BY <1>1, <1>6, <3>1 DEF HoldEscrow
  <2>2. /\ pending' \in [Users -> Nat] /\ available' \in [Users -> Nat]
        /\ escrowed' \in [Users -> Nat]
    <3>1. EscrowOf[e] \in Users /\ EscrowPoints[e] \in Nat /\ available[EscrowOf[e]] \in Nat
          /\ pending[EscrowOf[e]] \in Nat
      BY <1>1, <1>2
    <3> QED BY <1>1, <1>6, <3>1 DEF HoldEscrow, Smaller
  <2>3. escrow' \in [Escrows -> {"none", "held", "released"}]
    BY <1>1, <1>6 DEF HoldEscrow
  <2> QED BY <1>1, <1>6, <2>1, <2>2, <2>3 DEF HoldEscrow, TypeOK
<1>7. ASSUME NEW e \in Escrows, ReleaseEscrow(e) PROVE TypeOK'
  <2>1. fromPending[e] \in Nat /\ fromPending[e] <= EscrowPoints[e]
    BY <1>1 DEF Books
  <2>2. escrowed[EscrowOf[e]] - EscrowPoints[e] \in Nat
    <3>1. escrowed[EscrowOf[e]] = Total(EscrowPoints, HeldOf(EscrowOf[e]))
      BY <1>2 DEF Books, Account, EscrowBalances
    <3>2. PICK rest \in Nat : Total(EscrowPoints, HeldOf(EscrowOf[e])) = rest + EscrowPoints[e]
      BY <1>2, <1>7, HoldIsCovered DEF ReleaseEscrow
    <3> QED BY <1>2, <3>1, <3>2
  <2>3. /\ pending' \in [Users -> Nat] /\ available' \in [Users -> Nat]
        /\ escrowed' \in [Users -> Nat]
    BY <1>1, <1>2, <1>7, <2>1, <2>2 DEF ReleaseEscrow
  <2>4. escrow' \in [Escrows -> {"none", "held", "released"}]
    BY <1>1, <1>7 DEF ReleaseEscrow
  <2> QED BY <1>1, <1>7, <2>3, <2>4 DEF ReleaseEscrow, TypeOK
<1>8. ASSUME NEW s \in Sagas, Burn(s) PROVE TypeOK'
  <2>1. clock' \in 0..MaxClock /\ activity' \in [Users -> 0..MaxClock]
    BY <1>2, <1>3, <1>8 DEF Burn
  <2>2. available' \in [Users -> Nat] /\ burn' \in [Sagas -> {"none", "burned", "reinstated"}]
    BY <1>1, <1>2, <1>8 DEF Burn
  <2> QED BY <1>1, <1>8, <2>1, <2>2 DEF Burn, TypeOK
<1>9. ASSUME NEW s \in Sagas, Reinstate(s) PROVE TypeOK'
  <2>1. available' \in [Users -> Nat] /\ burn' \in [Sagas -> {"none", "burned", "reinstated"}]
    BY <1>1, <1>2, <1>9 DEF Reinstate
  <2> QED BY <1>1, <1>9, <2>1 DEF Reinstate, TypeOK
<1>10. ASSUME NEW u \in Users, ExpireOne(u) PROVE TypeOK'
  <2>1. /\ available' \in [Users -> Nat] /\ breakage' \in [Users -> Nat]
        /\ posted' \in [Users -> [Stamps -> Nat]]
        /\ todo' \subseteq Users /\ sweeping' \in BOOLEAN
    <3>1. /\ todo' \subseteq Users /\ sweeping' \in BOOLEAN
      BY <1>1, <1>10 DEF ExpireOne
    <3>2. CASE UNCHANGED <<available, breakage, posted>>
      BY <1>1, <3>1, <3>2
    <3>3. CASE ~ UNCHANGED <<available, breakage, posted>>
      <4>1. /\ posted'    = [posted EXCEPT ![u][activity[u]] = available[u]]
            /\ breakage'  = [breakage EXCEPT ![u] = @ + available[u]]
            /\ available' = [available EXCEPT ![u] = 0]
        BY <1>10, <3>3 DEF ExpireOne
      <4>2. available[u] \in Nat /\ breakage[u] + available[u] \in Nat
        BY <1>1
      <4>3. posted' \in [Users -> [Stamps -> Nat]]
        <5>1. [posted[u] EXCEPT ![activity[u]] = available[u]] \in [Stamps -> Nat]
          BY <1>1, <4>2
        <5>2. posted' = [posted EXCEPT ![u] = [posted[u] EXCEPT ![activity[u]] = available[u]]]
          BY <4>1
        <5> QED BY <1>1, <5>1, <5>2
      <4> QED BY <1>1, <3>1, <4>1, <4>2, <4>3
    <3> QED BY <3>2, <3>3
  <2>2. UNCHANGED <<pending, escrowed, grant, escrow, fromPending, burn, noticed,
                    clock, activity, due, cutoff, restarts>>
    BY <1>10 DEF ExpireOne
  <2> QED BY <1>1, <2>1, <2>2 DEF TypeOK
<1>11. CASE ListDue
  BY <1>1, <1>11 DEF ListDue, TypeOK
<1>12. CASE StartSweep
  <2>1. cutoff' \in Nat /\ todo' \subseteq Users
    BY <1>1, <1>2, <1>12 DEF StartSweep
  <2> QED BY <1>1, <1>12, <2>1 DEF StartSweep, TypeOK
<1>13. CASE FinishSweep
  <2>1. noticed' \subseteq Users \X Stamps
    BY <1>1, <1>2, <1>13 DEF FinishSweep, Stamps
  <2>2. /\ sweeping' = FALSE
        /\ UNCHANGED <<balances, grant, escrow, fromPending, burn, posted, time, due, cutoff,
                       todo, restarts>>
    BY <1>13 DEF FinishSweep
  <2> QED BY <1>1, <2>1, <2>2 DEF TypeOK
<1>14. CASE Restart
  <2>1. restarts' \in Nat /\ due' = {} /\ todo' = {} /\ sweeping' = FALSE
    BY <1>1, <1>14 DEF Restart
  <2>2. UNCHANGED <<balances, tables, time, cutoff>>
    BY <1>14 DEF Restart
  <2> QED BY <1>1, <2>1, <2>2 DEF TypeOK
<1>15. CASE Tick
  BY <1>1, <1>2, <1>15 DEF Tick, TypeOK
<1>16. CASE UNCHANGED vars
  BY <1>1, <1>16 DEF vars, TypeOK
<1> QED BY <1>4, <1>5, <1>6, <1>7, <1>8, <1>9, <1>10, <1>11, <1>12, <1>13, <1>14, <1>15, <1>16
        DEF Next

LEMMA BooksStayRight == Spec => []Books
<1>1. Init => Books
  <2> SUFFICES ASSUME Init PROVE Books
    OBVIOUS
  <2>1. TypeOK
    <3>1. 0 \in 0..MaxClock /\ 0 \in Nat
      BY UserPointsAssumption DEF UserPointsAssumption
    <3>2. /\ pending \in [Users -> Nat] /\ available \in [Users -> Nat]
          /\ escrowed \in [Users -> Nat] /\ breakage \in [Users -> Nat]
      BY <3>1 DEF Init
    <3>3. /\ fromPending \in [Escrows -> Nat] /\ posted \in [Users -> [Stamps -> Nat]]
          /\ clock \in 0..MaxClock /\ activity \in [Users -> 0..MaxClock]
      BY <3>1 DEF Init
    <3>4. /\ grant \in [Grants -> {"none", "pending", "released"}]
          /\ escrow \in [Escrows -> {"none", "held", "released"}]
          /\ burn \in [Sagas -> {"none", "burned", "reinstated"}]
      BY DEF Init
    <3>5. /\ noticed = {} /\ due = {} /\ todo = {} /\ sweeping = FALSE /\ cutoff = 0
          /\ restarts = 0
      BY DEF Init
    <3> QED BY <3>2, <3>3, <3>4, <3>5 DEF TypeOK
  <2>2. \A e \in Escrows : fromPending[e] <= EscrowPoints[e]
    BY UserPointsAssumption DEF Init, UserPointsAssumption
  <2>3. ASSUME NEW u \in Users PROVE Account(u)
    <3>1. Granted(u) = {} /\ GrantsOf(u, "pending") = {} /\ HeldOf(u) = {} /\ BurnedBy(u) = {}
      BY DEF Init, Granted, GrantsOf, HeldOf, BurnedBy
    <3>2. pending[u] = 0 /\ available[u] = 0 /\ escrowed[u] = 0 /\ breakage[u] = 0
      BY DEF Init
    <3> QED BY <3>1, <3>2, FS_EmptySet, TotalOfNone
            DEF Account, Listed, PendingBalances, EscrowBalances, PointsBalance
  <2> QED BY <2>1, <2>2, <2>3 DEF Books
<1>2. Books /\ [Next]_vars => Books'
  <2> SUFFICES ASSUME Books, [Next]_vars PROVE Books'
    OBVIOUS
  <2>1. TypeOK'
    BY StepsKeepTypes
  <2>2. ASSUME NEW e \in Escrows PROVE fromPending'[e] <= EscrowPoints[e]
    <3>1. CASE HoldEscrow(e) /\ \E u \in Users : u = EscrowOf[e]
      BY <3>1, HoldKeepsBooks
    <3>2. ASSUME NEW d \in Escrows, HoldEscrow(d), d # e PROVE fromPending'[e] = fromPending[e]
      BY <3>2 DEF HoldEscrow, Books, TypeOK
    <3>3. (\E d \in Escrows : HoldEscrow(d)) \/ fromPending' = fromPending
      BY DEF Next, Grant, ReleaseListed, ReleaseEscrow, Burn, Reinstate, ExpireOne, ListDue,
             StartSweep, FinishSweep, Restart, Tick, vars
    <3>4. EscrowOf[e] \in Users /\ fromPending[e] <= EscrowPoints[e]
      BY UserPointsAssumption DEF UserPointsAssumption, Books
    <3> QED BY <3>1, <3>2, <3>3, <3>4
  <2>3. ASSUME NEW u \in Users PROVE Account(u)'
    <3>1. Account(u)
      BY DEF Books
    <3>2. CASE ListDue \/ StartSweep \/ FinishSweep \/ Restart \/ Tick \/ UNCHANGED vars
      <4>1. UNCHANGED <<balances, grant, escrow, fromPending, burn>>
        BY <3>2 DEF ListDue, StartSweep, FinishSweep, Restart, Tick, vars
      <4> QED BY <3>1, <4>1, Untouched DEF SameBalances, SameGrants, SameHolds, SameBurns,
                                           GrantsOf, HeldOf, BurnedBy
    <3> QED BY <3>2, GrantKeepsBooks, ReleaseKeepsBooks, HoldKeepsBooks, ReversalKeepsBooks,
               BurnKeepsBooks, ReinstatementKeepsBooks, ExpiryKeepsBooks DEF Next
  <2> QED BY <2>1, <2>2, <2>3 DEF Books
<1> QED BY <1>1, <1>2, PTL DEF Spec

(* Every balance stays a natural number and every row in its declared states:  *)
(* no sequence of operations overdraws an account.                             *)
THEOREM TypeCorrect == Spec => []TypeOK
<1>1. Books => TypeOK
  BY DEF Books
<1> QED BY <1>1, BooksStayRight, PTL

(* Escrow, releases and new grants never eat into the points a user waits for. *)
THEOREM PendingIsOwed == Spec => []PendingMatchesGrants
<1>1. Books => PendingMatchesGrants
  BY DEF Books, Account, PendingBalances, PendingMatchesGrants
<1> QED BY <1>1, BooksStayRight, PTL

(* What a user was ever granted is in the accounts, in a live burn or in       *)
(* breakage, after any interleaving of the operations and the two loops.       *)
THEOREM NoPointIsLost == Spec => []PointsConserved
<1>1. Books => PointsConserved
  BY DEF Books, Account, PointsBalance, PointsConserved, Granted
<1> QED BY <1>1, BooksStayRight, PTL

===============================================================================

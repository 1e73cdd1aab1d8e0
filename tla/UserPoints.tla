------------------------------ MODULE UserPoints ------------------------------
(***************************************************************************)
(* The points of the users of one region in services/ledger: grants held    *)
(* back and released, escrow, burns and reinstatements, and the inactivity  *)
(* sweep.  Every operation is one serializable transaction, retried until   *)
(* it commits or refuses, so it is one step; the releaser and the sweep     *)
(* first list their work and then take one transaction per item, so other   *)
(* operations run between the listing and the item.                         *)
(***************************************************************************)
EXTENDS Naturals, FiniteSets

CONSTANTS
    Users,
    Grants,     \* rewards, each claimed once (the grant's unique id)
    Escrows,    \* escrow requests, by idempotency key
    Sagas,      \* checkouts that burn
    GrantTo, GrantPoints,     \* [Grants -> Users], [Grants -> Nat]
    NoHoldback,               \* grants whose holdback is zero hours
    EscrowOf, EscrowPoints,   \* [Escrows -> Users], [Escrows -> Nat]
    Buyer, Price,             \* [Sagas -> Users], [Sagas -> Nat]
    Inactivity, \* the region's inactivity window
    NoticeLead, \* how long before the cutoff a user is warned
    MaxClock,   \* bound on the database's clock
    MaxRestarts \* bound on restarts of the ledger process

ASSUME UserPointsAssumption ==
    /\ GrantTo \in [Grants -> Users] /\ GrantPoints \in [Grants -> Nat \ {0}]
    /\ NoHoldback \subseteq Grants
    /\ EscrowOf \in [Escrows -> Users] /\ EscrowPoints \in [Escrows -> Nat \ {0}]
    /\ Buyer \in [Sagas -> Users] /\ Price \in [Sagas -> Nat \ {0}]
    /\ Inactivity \in Nat /\ NoticeLead \in Nat
    /\ MaxClock \in Nat /\ MaxRestarts \in Nat

VARIABLES
    \* account balances, all credits minus all debits of one user's accounts
    pending, available, escrowed,   \* [Users -> Nat]
    breakage,   \* [Users -> Nat], points the region recognised as breakage
    \* the tables that make each operation happen once
    grant,      \* [Grants -> {"none", "pending", "released"}]
    escrow,     \* [Escrows -> {"none", "held", "released"}]
    fromPending,\* [Escrows -> Nat], the part of the hold taken from pending
    burn,       \* [Sagas -> {"none", "burned", "reinstated"}]
    posted,     \* [Users -> [1..MaxClock -> Nat]], transfers expire_<account>_<activity>
    noticed,    \* points_expiry_notice rows, <<account, last activity>>
    \* the database's clock
    clock,      \* Nat
    activity,   \* [Users -> 0..MaxClock], last_activity_at; 0: no account yet
    \* the loops of the ledger process
    due,        \* grants the releaser listed and has not reached
    sweeping, cutoff, todo, \* the sweep: running, its cutoff, candidates left
    restarts    \* restarts so far

balances == <<pending, available, escrowed, breakage>>
tables   == <<grant, escrow, fromPending, burn, posted, noticed>>
time     == <<clock, activity>>
loops    == <<due, sweeping, cutoff, todo>>
vars     == <<balances, tables, time, loops, restarts>>

Stamps == 1..MaxClock

HasHeldEscrow(u) == \E e \in Escrows : EscrowOf[e] = u /\ escrow[e] = "held"

Smaller(a, b) == IF a < b THEN a ELSE b

(* last_activity_at = now(); two transactions never read the same instant. *)
Touch(u) ==
    /\ clock < MaxClock
    /\ clock' = clock + 1
    /\ activity' = [activity EXCEPT ![u] = clock + 1]

-------------------------------------------------------------------------------
Init ==
    /\ pending = [u \in Users |-> 0] /\ available = [u \in Users |-> 0]
    /\ escrowed = [u \in Users |-> 0] /\ breakage = [u \in Users |-> 0]
    /\ grant = [g \in Grants |-> "none"]
    /\ escrow = [e \in Escrows |-> "none"] /\ fromPending = [e \in Escrows |-> 0]
    /\ burn = [s \in Sagas |-> "none"]
    /\ posted = [u \in Users |-> [t \in Stamps |-> 0]] /\ noticed = {}
    /\ clock = 0 /\ activity = [u \in Users |-> 0]
    /\ due = {} /\ sweeping = FALSE /\ cutoff = 0 /\ todo = {}
    /\ restarts = 0

(* issue: a funded reward lands in pending and restarts the inactivity clock;  *)
(* one without a holdback is released in the same transaction.                 *)
Grant(g) ==
    LET u == GrantTo[g] IN
    /\ grant[g] = "none"
    /\ Touch(u)
    /\ IF g \in NoHoldback
       THEN /\ grant'     = [grant EXCEPT ![g] = "released"]
            /\ available' = [available EXCEPT ![u] = @ + GrantPoints[g]]
            /\ UNCHANGED pending
       ELSE /\ grant'   = [grant EXCEPT ![g] = "pending"]
            /\ pending' = [pending EXCEPT ![u] = @ + GrantPoints[g]]
            /\ UNCHANGED available
    /\ UNCHANGED <<escrowed, breakage, escrow, fromPending, burn, posted, noticed, loops, restarts>>

(* ReleaseDue lists grants past their holdback, of users with nothing in       *)
(* escrow.  A holdback may have passed at any time after the grant.            *)
ListDue ==
    /\ due = {}
    /\ \E listed \in SUBSET {g \in Grants : grant[g] = "pending" /\ ~ HasHeldEscrow(GrantTo[g])} :
          listed # {} /\ due' = listed
    /\ UNCHANGED <<balances, tables, time, sweeping, cutoff, todo, restarts>>

(* A seeded bug, as are the other operators named ..Bug: no definition of the  *)
(* specification uses them.  Here the escrow is not looked at again.           *)
ReleaseListedBug(g) ==
    LET u == GrantTo[g] IN
    /\ g \in due
    /\ due' = due \ {g}
    /\ IF grant[g] = "pending" /\ pending[u] >= GrantPoints[g]
       THEN /\ grant'     = [grant EXCEPT ![g] = "released"]
            /\ pending'   = [pending EXCEPT ![u] = @ - GrantPoints[g]]
            /\ available' = [available EXCEPT ![u] = @ + GrantPoints[g]]
       ELSE UNCHANGED <<grant, pending, available>>
    /\ UNCHANGED <<escrowed, breakage, escrow, fromPending, burn, posted, noticed,
                   time, sweeping, cutoff, todo, restarts>>

(* One listed grant: an escrow that landed since the listing wins, a release  *)
(* that another process posted is replayed, and a refusal leaves it due.      *)
ReleaseListed(g) ==
    LET u == GrantTo[g] IN
    /\ g \in due
    /\ due' = due \ {g}
    /\ IF ~ HasHeldEscrow(u) /\ grant[g] = "pending" /\ pending[u] >= GrantPoints[g]
       THEN /\ grant'     = [grant EXCEPT ![g] = "released"]
            /\ pending'   = [pending EXCEPT ![u] = @ - GrantPoints[g]]
            /\ available' = [available EXCEPT ![u] = @ + GrantPoints[g]]
       ELSE UNCHANGED <<grant, pending, available>>
    /\ UNCHANGED <<escrowed, breakage, escrow, fromPending, burn, posted, noticed,
                   time, sweeping, cutoff, todo, restarts>>

(* Hold: from available first, the rest from pending; all of it or nothing. *)
HoldEscrow(e) ==
    LET u == EscrowOf[e]
        a == Smaller(EscrowPoints[e], available[u])
        p == EscrowPoints[e] - a
    IN
    /\ escrow[e] = "none"
    /\ p <= pending[u]
    /\ escrow'      = [escrow EXCEPT ![e] = "held"]
    /\ fromPending' = [fromPending EXCEPT ![e] = p]
    /\ available'   = [available EXCEPT ![u] = @ - a]
    /\ pending'     = [pending EXCEPT ![u] = @ - p]
    /\ escrowed'    = [escrowed EXCEPT ![u] = @ + EscrowPoints[e]]
    /\ UNCHANGED <<breakage, grant, burn, posted, noticed, time, loops, restarts>>

(* Everything held comes back as available, whatever it was taken from. *)
ReleaseEscrowBug(e) ==
    LET u == EscrowOf[e] IN
    /\ escrow[e] = "held"
    /\ escrow'    = [escrow EXCEPT ![e] = "released"]
    /\ available' = [available EXCEPT ![u] = @ + EscrowPoints[e]]
    /\ escrowed'  = [escrowed EXCEPT ![u] = @ - EscrowPoints[e]]
    /\ UNCHANGED <<pending, breakage, grant, fromPending, burn, posted, noticed, time,
                   loops, restarts>>

(* Release: the exact reversal of the hold. *)
ReleaseEscrow(e) ==
    LET u == EscrowOf[e] IN
    /\ escrow[e] = "held"
    /\ escrow'    = [escrow EXCEPT ![e] = "released"]
    /\ available' = [available EXCEPT ![u] = @ + (EscrowPoints[e] - fromPending[e])]
    /\ pending'   = [pending EXCEPT ![u] = @ + fromPending[e]]
    /\ escrowed'  = [escrowed EXCEPT ![u] = @ - EscrowPoints[e]]
    /\ UNCHANGED <<breakage, grant, fromPending, burn, posted, noticed, time, loops, restarts>>

(* Burn: out of available, and the user is active now. *)
Burn(s) ==
    LET u == Buyer[s] IN
    /\ burn[s] = "none"
    /\ activity[u] > 0
    /\ available[u] >= Price[s]
    /\ Touch(u)
    /\ burn'      = [burn EXCEPT ![s] = "burned"]
    /\ available' = [available EXCEPT ![u] = @ - Price[s]]
    /\ UNCHANGED <<pending, escrowed, breakage, grant, escrow, fromPending, posted, noticed,
                   loops, restarts>>

(* A retried reinstatement is not recognised as one. *)
ReinstateBug(s) ==
    LET u == Buyer[s] IN
    /\ burn[s] # "none"
    /\ burn'      = [burn EXCEPT ![s] = "reinstated"]
    /\ available' = [available EXCEPT ![u] = @ + Price[s]]
    /\ UNCHANGED <<pending, escrowed, breakage, grant, escrow, fromPending, posted, noticed,
                   time, loops, restarts>>

(* Reinstate: the exact points come back; last_activity_at is not touched. *)
Reinstate(s) ==
    LET u == Buyer[s] IN
    /\ burn[s] = "burned"
    /\ burn'      = [burn EXCEPT ![s] = "reinstated"]
    /\ available' = [available EXCEPT ![u] = @ + Price[s]]
    /\ UNCHANGED <<pending, escrowed, breakage, grant, escrow, fromPending, posted, noticed,
                   time, loops, restarts>>

-------------------------------------------------------------------------------
(* Run: the accounts quiet since before the cutoff, the longest quiet first. *)
StartSweep ==
    /\ ~ sweeping /\ clock >= Inactivity
    /\ sweeping' = TRUE
    /\ cutoff' = clock - Inactivity
    /\ todo' = {u \in Users : activity[u] > 0 /\ activity[u] < cutoff'}
    /\ UNCHANGED <<balances, tables, time, due, restarts>>

IsNext(u) == u \in todo /\ \A w \in todo : activity[u] <= activity[w]

(* The listing is trusted. *)
ExpiresNowBug(u) == available[u] > 0

ExpiresNow(u) == ~ HasHeldEscrow(u) /\ activity[u] < cutoff /\ available[u] > 0

(* expireOne: re-read everything under the account's lock, then post the whole *)
(* balance under the key <<account, last activity>>.  A key already used with  *)
(* the same amount is a replay that moves nothing; with another amount it is a *)
(* conflict that ends the region's sweep.                                      *)
ExpireOne(u) ==
    LET key == activity[u] IN
    /\ sweeping /\ IsNext(u)
    /\ \/ /\ ~ ExpiresNow(u)
          /\ todo' = todo \ {u}
          /\ UNCHANGED <<available, breakage, posted, sweeping>>
       \/ /\ ExpiresNow(u) /\ posted[u][key] = 0
          /\ posted'    = [posted EXCEPT ![u][key] = available[u]]
          /\ breakage'  = [breakage EXCEPT ![u] = @ + available[u]]
          /\ available' = [available EXCEPT ![u] = 0]
          /\ todo' = todo \ {u}
          /\ UNCHANGED sweeping
       \/ /\ ExpiresNow(u) /\ posted[u][key] = available[u]
          /\ todo' = todo \ {u}
          /\ UNCHANGED <<available, breakage, posted, sweeping>>
       \/ /\ ExpiresNow(u) /\ posted[u][key] \notin {0, available[u]}
          /\ todo' = {} /\ sweeping' = FALSE
          /\ UNCHANGED <<available, breakage, posted>>
    /\ UNCHANGED <<pending, escrowed, grant, escrow, fromPending, burn, noticed,
                   time, due, cutoff, restarts>>

(* noticeApproaching, once the candidates are through. *)
FinishSweep ==
    /\ sweeping /\ todo = {}
    /\ sweeping' = FALSE
    /\ noticed' = noticed \cup
          {<<u, activity[u]>> : u \in {w \in Users : /\ activity[w] > 0
                                                     /\ activity[w] >= cutoff
                                                     /\ activity[w] <= cutoff + NoticeLead}}
    /\ UNCHANGED <<balances, grant, escrow, fromPending, burn, posted, time, due, cutoff, todo, restarts>>

-------------------------------------------------------------------------------
(* The ledger process restarts: both loops forget what they listed. *)
Restart ==
    /\ restarts < MaxRestarts
    /\ sweeping \/ due # {}
    /\ restarts' = restarts + 1
    /\ due' = {} /\ todo' = {} /\ sweeping' = FALSE
    /\ UNCHANGED <<balances, tables, time, cutoff>>

Tick ==
    /\ clock < MaxClock
    /\ clock' = clock + 1
    /\ UNCHANGED <<balances, tables, activity, loops, restarts>>

Next ==
    \/ \E g \in Grants : Grant(g) \/ ReleaseListed(g)
    \/ \E e \in Escrows : HoldEscrow(e) \/ ReleaseEscrow(e)
    \/ \E s \in Sagas : Burn(s) \/ Reinstate(s)
    \/ \E u \in Users : ExpireOne(u)
    \/ ListDue \/ StartSweep \/ FinishSweep \/ Restart \/ Tick

Spec == Init /\ [][Next]_vars

(* RunReleaser runs a pass at once and then on every tick of its timer; a      *)
(* page holds every due grant, so a grant that stays due is listed again.      *)
ListsGrant(g) == ListDue /\ g \in due'

FairSpec ==
    /\ Spec
    /\ \A g \in Grants : SF_vars(ListsGrant(g)) /\ WF_vars(ReleaseListed(g))

-------------------------------------------------------------------------------
(* Every variable stays in the set it is declared over; no balance goes below *)
(* zero, which is what the guarded accounts refuse.                           *)
TypeOK ==
    /\ {pending, available, escrowed, breakage} \subseteq [Users -> Nat]
    /\ grant \in [Grants -> {"none", "pending", "released"}]
    /\ escrow \in [Escrows -> {"none", "held", "released"}]
    /\ fromPending \in [Escrows -> Nat]
    /\ burn \in [Sagas -> {"none", "burned", "reinstated"}]
    /\ posted \in [Users -> [Stamps -> Nat]]
    /\ noticed \subseteq Users \X Stamps
    /\ clock \in 0..MaxClock /\ activity \in [Users -> 0..MaxClock]
    /\ due \subseteq Grants /\ todo \subseteq Users
    /\ sweeping \in BOOLEAN /\ cutoff \in Nat /\ restarts \in Nat

GrantsOf(u, st) == {g \in Grants : GrantTo[g] = u /\ grant[g] = st}
HeldOf(u)       == {e \in Escrows : EscrowOf[e] = u /\ escrow[e] = "held"}
BurnedBy(u)     == {s \in Sagas : Buyer[s] = u /\ burn[s] = "burned"}

(* The sum of f over S, by counting: f[x] units of each x. *)
Units(f, S) == UNION {{x} \X (1 .. f[x]) : x \in S}
Total(f, S) == Cardinality(Units(f, S))

(* What a user still waits for is exactly the unreleased grants less what      *)
(* escrow took from pending, so a grant can always be released once the        *)
(* escrow is: holds, releases and grants never eat into each other.            *)
PendingMatchesGrants ==
    \A u \in Users :
        pending[u] + Total(fromPending, HeldOf(u)) = Total(GrantPoints, GrantsOf(u, "pending"))

(* No operation creates or loses points: what a user was granted is what the   *)
(* accounts hold, what live burns spent and what became breakage.              *)
PointsConserved ==
    \A u \in Users :
        Total(GrantPoints, GrantsOf(u, "pending") \cup GrantsOf(u, "released"))
            = pending[u] + available[u] + escrowed[u] + breakage[u] + Total(Price, BurnedBy(u))

(* A holdback never ends while the user's points are in escrow, even when the  *)
(* escrow lands between the releaser's listing and the grant's turn.           *)
NoReleaseUnderEscrow ==
    [][\A g \in Grants : grant[g] = "pending" /\ grant'[g] = "released"
                            => ~ HasHeldEscrow(GrantTo[g])]_vars

(* Breakage is never recognised on a user who was active within the window or  *)
(* has points in escrow, even when the activity or the hold came after the     *)
(* sweep listed the account.                                                   *)
NothingExpiresWhileActive ==
    [][\A u \in Users : breakage'[u] # breakage[u]
                           => clock - activity[u] > Inactivity /\ ~ HasHeldEscrow(u)]_vars

(* Held-back points arrive: a grant is released unless escrow keeps it. *)
HeldbackPointsArrive ==
    \A g \in Grants : grant[g] = "pending" ~> grant[g] = "released" \/ HasHeldEscrow(GrantTo[g])

(* The sweep pages through every candidate: an account it listed leaves the    *)
(* list only when its turn has come, unless the process restarts.              *)
SweepVisitsEveryCandidate ==
    [][\A u \in todo \ todo' : IsNext(u) \/ restarts' # restarts]_vars
===============================================================================

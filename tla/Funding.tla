-------------------------------- MODULE Funding --------------------------------
(***************************************************************************)
(* The funding of one campaign's rewards in services/ledger: the            *)
(* allocation the business bought, the holds that watch sessions place on    *)
(* it, the campaign's budget and daily cap, and the grants drawn from it.    *)
(*                                                                           *)
(* Each operation is one serializable transaction under the campaign's lock, *)
(* so each is one action; Watch makes the calls.                             *)
(***************************************************************************)
EXTENDS Integers, FiniteSets

CONSTANTS
    Users,        \* viewers whose watch sessions are followed
    Strangers,    \* viewers of whom only the grant is
    Sessions,     \* ids of watch sessions; a session's hold has its id
    Base, Bonus,  \* what the terms pay for a completed watch, and for a perfect score
    Total,        \* points of the allocation
    Budget,       \* max_points_for_campaign
    DailyCap,     \* daily_cap_points
    MaxDay        \* bound on the calendar

ASSUME FundingAssumption ==
    /\ Users \cap Strangers = {}
    /\ Sessions \subseteq Nat \ {0} /\ IsFiniteSet(Sessions)
    /\ {Base, Total, Budget, DailyCap} \subseteq Nat \ {0}
    /\ {Bonus, MaxDay} \subseteq Nat

VARIABLES
    free,       \* ledger.allocation.remaining_points
    hold,       \* ledger.allocation_hold: [Sessions -> [state, live]]
    grants,     \* ledger.grant of this campaign
    day

fundingVars == <<free, hold, grants, day>>

\* A hold is live until its expires_at; of one that is resolved only that matters.
NoHold   == [state |-> "none", live |-> FALSE]
Consumed == [state |-> "consumed", live |-> FALSE]
Released == [state |-> "released", live |-> FALSE]

\* What a session reserves: the base and the most it can earn on top.
HoldPoints == Base + Bonus

\* The holds budgets count, leaving out the caller's own.
LiveHolds(own) ==
    {s \in Sessions \ own : hold[s].state = "held" /\ hold[s].live}
Held(own) == HoldPoints * Cardinality(LiveHolds(own))

\* The sum of the grants' points, by counting: g.points units of each grant g.
Points(granted) == Cardinality(UNION {{g} \X (1 .. g.points) : g \in granted})
GrantedToday == {g \in grants : g.day = day}

\* A seeded bug, as are the other operators named ..Bug: no definition of
\* the specification uses them.  Here the reservation the caller is about to
\* consume is counted against it.
FitsBudgetBug(own, points) ==
    /\ points + Points(grants) + Held({}) <= Budget
    /\ points + Points(GrantedToday) + Held({}) <= DailyCap

\* checkCampaignBudget
FitsBudget(own, points) ==
    /\ points + Points(grants) + Held(own) <= Budget
    /\ points + Points(GrantedToday) + Held(own) <= DailyCap

\* A seeded bug: a hold is admitted by what was granted, not by what other
\* holds reserve.
AdmitsBug(s) ==
    /\ HoldPoints + Points(grants) <= Budget
    /\ HoldPoints + Points(GrantedToday) <= DailyCap
    /\ HoldPoints <= free

\* HoldForCampaign: is there room in the campaign and in the allocation?
Admits(s) == FitsBudget({s}, HoldPoints) /\ HoldPoints <= free

PlaceHold(s) ==
    /\ Admits(s)
    /\ free' = free - HoldPoints
    /\ hold' = [hold EXCEPT ![s] = [state |-> "held", live |-> TRUE]]
    /\ UNCHANGED <<grants, day>>

\* The session's own hold when it is live, else a draw of its own.
DrawsHold(s, held) == held /\ hold[s].state = "held" /\ hold[s].live

CanDraw(s, held, points) == DrawsHold(s, held) \/ points <= free

\* A seeded bug: the part of a hold the grant does not need stays out.
DrawForBug(s, held, points) ==
    IF DrawsHold(s, held)
    THEN /\ hold' = [hold EXCEPT ![s] = Consumed]
         /\ UNCHANGED free
    ELSE free' = free - points /\ UNCHANGED hold

\* drawFor: a consumed hold gives back what the grant does not need.
DrawFor(s, held, points) ==
    IF DrawsHold(s, held)
    THEN /\ hold' = [hold EXCEPT ![s] = Consumed]
         /\ free' = free + HoldPoints - points
    ELSE free' = free - points /\ UNCHANGED hold

\* A seeded bug: a campaign pays a person once per session.
AlreadyPaidBug(u, s) == \E g \in grants : g.user = u /\ g.session = s

\* The unique (user, action, campaign) of ledger.grant.
AlreadyPaid(u, s) == \E g \in grants : g.user = u

HasRoom(s, held, points) ==
    /\ FitsBudget(IF held THEN {s} ELSE {}, points)
    /\ CanDraw(s, held, points)

\* GrantReward, past the checks Watch makes on the session's behalf.
Grant(u, s, held, points) ==
    /\ ~AlreadyPaid(u, s)
    /\ HasRoom(s, held, points)
    /\ DrawFor(s, held, points)
    /\ grants' = grants \cup {[user |-> u, session |-> s, points |-> points, day |-> day]}
    /\ UNCHANGED day

\* A stranger's grant; its session has the number of no session.
StrangerPaid(u) ==
    /\ ~AlreadyPaid(u, 0)
    /\ FitsBudget({}, HoldPoints) /\ HoldPoints <= free
    /\ free' = free - Base
    /\ grants' = grants \cup {[user |-> u, session |-> 0, points |-> Base, day |-> day]}
    /\ UNCHANGED <<hold, day>>

\* allocation_release; nothing when the hold is no longer held.
ReleaseHold(s) ==
    /\ hold[s].state = "held"
    /\ hold' = [hold EXCEPT ![s] = Released]
    /\ free' = free + HoldPoints
    /\ UNCHANGED <<grants, day>>

\* The hold's time to live ends: twice the video and an hour.
HoldExpires(s) ==
    /\ hold[s].state = "held" /\ hold[s].live
    /\ hold' = [hold EXCEPT ![s].live = FALSE]
    /\ UNCHANGED <<free, grants, day>>

Expired == {s \in Sessions : hold[s].state = "held" /\ ~hold[s].live}

\* A seeded bug: the checker looks for the holds that still run.
ReleaseExpiredBug ==
    /\ LiveHolds({}) # {}
    /\ hold' = [s \in Sessions |->
                  IF s \in LiveHolds({}) THEN Released ELSE hold[s]]
    /\ free' = free + Held({})
    /\ UNCHANGED <<grants, day>>

\* allocation_release_expired, on the checker's tick.
ReleaseExpired ==
    /\ Expired # {}
    /\ hold' = [s \in Sessions |->
                  IF s \in Expired THEN Released ELSE hold[s]]
    /\ free' = free + HoldPoints * Cardinality(Expired)
    /\ UNCHANGED <<grants, day>>

\* Midnight on the region's clock.
NextDay ==
    /\ day < MaxDay /\ day' = day + 1
    /\ UNCHANGED <<free, hold, grants>>

FundingInit ==
    /\ free = Total
    /\ hold = [s \in Sessions |-> NoHold]
    /\ grants = {}
    /\ day = 0

GrantRow ==
    [user : Users \cup Strangers, session : Sessions \cup {0}, points : {Base, Base + Bonus}, day : 0..MaxDay]

FundingTypeOK ==
    /\ free \in 0..Total
    /\ hold \in [Sessions -> [state : {"none", "held", "consumed", "released"}, live : BOOLEAN]]
    /\ grants \subseteq GrantRow
    /\ day \in 0..MaxDay

(***************************************************************************)
(* Safety                                                                   *)
(***************************************************************************)

\* Every point of the allocation is free, reserved by a hold that was neither
\* consumed nor released, or granted: what drawFor returns of
\* a hold, what a release and the checker's sweep give back and what a refused
\* grant rolls back add up, in any order.
PointsConserved ==
    Total = free + Points(grants)
            + HoldPoints * Cardinality({s \in Sessions : hold[s].state = "held"})

\* budget.go: "with granted + live holds kept within the cap at every
\* admission, a grant that consumes its own hold always fits".  Live holds and
\* grants together stay within the campaign's budget, and within the cap of
\* every day the holds live into.
AdmittedViewersFit ==
    /\ Points(grants) + Held({}) <= Budget
    /\ Points(GrantedToday) + Held({}) <= DailyCap

\* A campaign pays a person once (EW-10), although apps/api decides from its
\* own sessions' flags, read before the grant and written after it.
PaidOnce == \A g, h \in grants : g.user = h.user => g = h
===============================================================================

--------------------------------- MODULE Watch ---------------------------------
(***************************************************************************)
(* Watch sessions of one campaign (apps/api, modules/watch) on the funding   *)
(* of its rewards (Funding, in services/ledger): a viewer starts or resumes  *)
(* a session, which decides whether it earns and reserves its points, watches *)
(* and answers the questions, and completes it, which asks the ledger for     *)
(* the grant.                                                                 *)
(*                                                                            *)
(* A request runs as a process whose every database transaction and call to   *)
(* the ledger is a step of its own; requests of the same viewer interleave,   *)
(* a call's answer may be lost, and the process may die between two steps.    *)
(***************************************************************************)
EXTENDS Funding

CONSTANTS
    Requests,   \* requests under way at once
    MaxTerms,   \* bound on the terms versions published
    MaxVerdicts,\* bound on the changes of the identity check's verdicts
    MaxFaults,  \* bound on lost answers and on processes that die
    MaxTrouble  \* bound on all of these, other viewers' grants, pauses and midnights together

ASSUME WatchAssumption ==
    /\ MaxTerms \in Nat \ {0} /\ {MaxVerdicts, MaxFaults, MaxTrouble} \subseteq Nat

VARIABLES
    session,   \* watch.session: [Sessions -> Row], NoSession until it is inserted
    request,   \* [Requests -> the process's locals]
    campaign,  \* [live, terms, publishing]
    mayEarn,   \* the identity check's verdict on each viewer
    verdicts,
    faults

vars == <<fundingVars, session, request, campaign, mayEarn, verdicts, faults>>

NoSession == [user |-> "none"]
Exists(s) == session[s] # NoSession
Open      == {"active", "parked"}

\* What the code writes to non_earning_reason; "earning" when it is null.
Pending       == "pending_funding_check"
AlreadyEarned == "already_earned"
NoIdentity    == "identity_check_required"
Refused       == "refused"
Earning       == "earning"

\* One more disturbance is within the bounds.
Quiet == Cardinality({g \in grants : g.user \in Strangers}) + day + verdicts + faults + campaign.terms - 1 < MaxTrouble
Fault == Quiet /\ faults < MaxFaults /\ faults' = faults + 1

Idle == [pc |-> "idle"]
At(r, pc) == request[r].pc = pc
NextIdle == CHOOSE r \in Requests : At(r, "idle")
Sid(r) == request[r].sid
Go(r, next) == request' = [request EXCEPT ![r] = next]

(***************************************************************************)
(* The session repository, one transaction each                              *)
(***************************************************************************)

OpenFor(u, v) == {s \in Sessions : Exists(s) /\ session[s].user = u
                                   /\ session[s].terms = v /\ session[s].state \in Open}
Stale(u, v) == {s \in Sessions : Exists(s) /\ session[s].user = u
                                 /\ session[s].terms # v /\ session[s].state \in Open}
Unused == {s \in Sessions : ~Exists(s)}

Fresh(u, v) ==
    [user |-> u, terms |-> v, state |-> "active", reason |-> Pending, hold |-> FALSE,
     watched |-> FALSE, granted |-> FALSE, refusal |-> "none"]

\* startOrResume without an open row for the terms in force.  Whatever is open
\* under other terms is superseded, the active one included.
Insert(s, u, v) ==
    session' = [[t \in Sessions |-> IF t \in Stale(u, v)
                                   THEN [session[t] EXCEPT !.state = "superseded"]
                                   ELSE session[t]] EXCEPT ![s] = Fresh(u, v)]

\* startOrResume with one: it becomes the viewer's active session.
Reactivate(s) ==
    session' = [session EXCEPT ![s].state = "active"]

(***************************************************************************)
(* start                                                                     *)
(***************************************************************************)

\* The verdict and the terms are read, in transactions of their own, before
\* the session is opened.
Start(r, u) ==
    /\ At(r, "idle") /\ r = NextIdle /\ campaign.live
    /\ Go(r, [pc |-> "open", user |-> u, terms |-> campaign.terms,
              mayEarn |-> mayEarn[u], again |-> FALSE])
    /\ UNCHANGED <<fundingVars, session, campaign, mayEarn, verdicts, faults>>

\* Concurrent transactions that would leave two open rows or two active ones
\* meet the unique indexes of watch.session, so each runs whole or not at all.
OpenSession(r) ==
    LET q == request[r]
        resumable == OpenFor(q.user, q.terms)
    IN /\ At(r, "open")
       /\ \/ \E s \in resumable :
               /\ Reactivate(s)
               /\ Go(r, IF q.mayEarn /\ ~q.again /\ session[s].reason = NoIdentity
                        THEN [pc |-> "supersede", sid |-> s, user |-> q.user, terms |-> q.terms]
                        ELSE Idle)
          \/ /\ resumable = {} /\ Unused # {}
             /\ LET s == CHOOSE t \in Unused : TRUE IN
                  /\ Insert(s, q.user, q.terms)
                  /\ Go(r, IF q.mayEarn THEN [pc |-> "decide", sid |-> s, user |-> q.user]
                           ELSE [pc |-> "finalize", sid |-> s, reason |-> NoIdentity])
       /\ UNCHANGED <<fundingVars, campaign, mayEarn, verdicts, faults>>

\* supersedeNonEarning: the viewer has passed the check since, and starts again.
Supersede(r) ==
    LET q == request[r]
        superseded == session[q.sid].state \in Open /\ session[q.sid].reason = NoIdentity
    IN /\ At(r, "supersede")
       /\ IF superseded
          THEN /\ session' = [session EXCEPT ![q.sid].state = "superseded"]
               /\ Go(r, [pc |-> "open", user |-> q.user, terms |-> q.terms,
                         mayEarn |-> TRUE, again |-> TRUE])
          ELSE Go(r, Idle) /\ UNCHANGED session
       /\ UNCHANGED <<fundingVars, campaign, mayEarn, verdicts, faults>>

\* hasBeenGranted: no ledger call, only the sessions' own flags.
HasBeenGranted(u) ==
    \E s \in Sessions : Exists(s) /\ session[s].user = u /\ session[s].granted

DecideEarning(r) ==
    /\ At(r, "decide")
    /\ Go(r, IF HasBeenGranted(request[r].user)
             THEN [pc |-> "finalize", sid |-> Sid(r), reason |-> AlreadyEarned]
             ELSE [pc |-> "hold", sid |-> Sid(r)])
    /\ UNCHANGED <<fundingVars, session, campaign, mayEarn, verdicts, faults>>

\* The ledger holds the points and the answer arrives or is lost, or it
\* refuses for lack of room.
HoldPlaced(r) ==
    /\ At(r, "hold")
    /\ PlaceHold(Sid(r))
    /\ \/ /\ Go(r, [pc |-> "finalize", sid |-> Sid(r), reason |-> Earning])
          /\ UNCHANGED faults
       \/ /\ Fault
          /\ Go(r, [pc |-> "finalize", sid |-> Sid(r), reason |-> Refused])
    /\ UNCHANGED <<session, campaign, mayEarn, verdicts>>

HoldRefused(r) ==
    /\ At(r, "hold")
    /\ ~Admits(Sid(r))
    /\ Go(r, [pc |-> "finalize", sid |-> Sid(r), reason |-> Refused])
    /\ UNCHANGED <<fundingVars, session, campaign, mayEarn, verdicts, faults>>

\* finalizeEarningOutcome writes whatever the row's state is by now.
Finalize(r) ==
    LET earns == request[r].reason = Earning IN
    /\ At(r, "finalize")
    /\ session' = [session EXCEPT ![Sid(r)].reason = request[r].reason, ![Sid(r)].hold = earns]
    /\ Go(r, Idle)
    /\ UNCHANGED <<fundingVars, campaign, mayEarn, verdicts, faults>>

(***************************************************************************)
(* Watching                                                                  *)
(***************************************************************************)

\* The progress reports that cover the whole video and the answers to every
\* question.
WatchThrough(s) ==
    /\ Exists(s) /\ session[s].state = "active" /\ ~session[s].watched /\ campaign.live
    /\ session' = [session EXCEPT ![s].watched = TRUE]
    /\ UNCHANGED <<fundingVars, request, campaign, mayEarn, verdicts, faults>>

\* The viewer starts a session of another campaign, which parks this one.
WatchElsewhere(s) ==
    /\ Exists(s) /\ session[s].state = "active"
    /\ session' = [session EXCEPT ![s].state = "parked"]
    /\ UNCHANGED <<fundingVars, request, campaign, mayEarn, verdicts, faults>>

(***************************************************************************)
(* complete                                                                  *)
(***************************************************************************)

\* The row is read once; what follows uses this copy of it.
Load(r, s) ==
    /\ At(r, "idle") /\ r = NextIdle
    /\ Exists(s) /\ session[s].state = "active" /\ session[s].watched /\ campaign.live
    /\ Go(r, [pc |-> "mark", sid |-> s, reason |-> session[s].reason,
              hold |-> session[s].hold])
    /\ UNCHANGED <<fundingVars, session, campaign, mayEarn, verdicts, faults>>

\* A seeded bug, as are the other operators named ..Bug: no definition of the
\* specification uses them.  Here markCompleted does not ask for the active state.
MarkCompletedBug(r) ==
    /\ At(r, "mark")
    /\ session' = [session EXCEPT ![Sid(r)].state = "completed"]
    /\ Go(r, IF request[r].reason = Earning THEN [request[r] EXCEPT !.pc = "pay"] ELSE Idle)
    /\ UNCHANGED <<fundingVars, campaign, mayEarn, verdicts, faults>>

\* markCompleted: one request finds the row active; a session that does not
\* earn ends here.
MarkCompleted(r) ==
    /\ At(r, "mark")
    /\ IF session[Sid(r)].state = "active"
       THEN /\ session' = [session EXCEPT ![Sid(r)].state = "completed"]
            /\ Go(r, IF request[r].reason = Earning
                     THEN [request[r] EXCEPT !.pc = "pay"] ELSE Idle)
       ELSE Go(r, Idle) /\ UNCHANGED session
    /\ UNCHANGED <<fundingVars, campaign, mayEarn, verdicts, faults>>

\* The identity check again: a viewer it refuses is not paid, and the hold is
\* released, if that call arrives.
IdentityRefused(r) ==
    /\ At(r, "pay") /\ ~mayEarn[session[Sid(r)].user]
    /\ Go(r, Idle)
    /\ \/ ReleaseHold(Sid(r)) /\ UNCHANGED faults
       \/ hold[Sid(r)].state # "held" /\ UNCHANGED <<fundingVars, faults>>
       \/ Fault /\ UNCHANGED fundingVars
    /\ UNCHANGED <<session, campaign, mayEarn, verdicts>>

\* pointsForCompletion: the bonus is for a perfect score.
PointsFor == {Base, Base + Bonus}

\* The ledger pays, and the answer arrives or is lost.
GrantPaid(r) ==
    /\ At(r, "pay") /\ mayEarn[session[Sid(r)].user] /\ campaign.live
    /\ \E points \in PointsFor :
         Grant(session[Sid(r)].user, Sid(r), request[r].hold, points)
    /\ \/ Go(r, [pc |-> "markGranted", sid |-> Sid(r)]) /\ UNCHANGED faults
       \/ Fault /\ Go(r, Idle)
    /\ UNCHANGED <<session, campaign, mayEarn, verdicts>>

\* The ledger refuses: no room, or the viewer was paid before, the campaign is
\* not live, an earn cap is reached or the risk gate says no.  The session stays
\* completed and unpaid and its hold runs out; which it was is kept in refusal.
Refusals(r) ==
    IF \E points \in PointsFor : ~HasRoom(Sid(r), request[r].hold, points)
    THEN {"no_room", "other"} ELSE {"other"}

GrantRefused(r) ==
    /\ At(r, "pay") /\ mayEarn[session[Sid(r)].user]
    /\ \E why \in Refusals(r) : session' = [session EXCEPT ![Sid(r)].refusal = why]
    /\ Go(r, Idle)
    /\ UNCHANGED <<fundingVars, campaign, mayEarn, verdicts, faults>>

\* markGranted, after the ledger's answer.
MarkGranted(r) ==
    /\ At(r, "markGranted")
    /\ session' = [session EXCEPT ![Sid(r)].granted = TRUE]
    /\ Go(r, Idle)
    /\ UNCHANGED <<fundingVars, campaign, mayEarn, verdicts, faults>>

(***************************************************************************)
(* The campaign, the identity check, time and faults                         *)
(***************************************************************************)

Pause ==
    /\ campaign.live /\ Quiet
    /\ campaign' = [campaign EXCEPT !.live = FALSE]
    /\ UNCHANGED <<fundingVars, session, request, mayEarn, verdicts, faults>>

\* A campaign is live again before its next terms version is inserted.
Resume ==
    /\ ~campaign.live /\ ~campaign.publishing /\ campaign.terms < MaxTerms /\ Quiet
    /\ campaign' = [campaign EXCEPT !.live = TRUE, !.publishing = TRUE]
    /\ UNCHANGED <<fundingVars, session, request, mayEarn, verdicts, faults>>

PublishTerms ==
    /\ campaign.publishing
    /\ campaign' = [campaign EXCEPT !.publishing = FALSE, !.terms = @ + 1]
    /\ UNCHANGED <<fundingVars, session, request, mayEarn, verdicts, faults>>

\* A viewer verifies what was missing, or the check is switched on.
VerdictChanges(u) ==
    /\ Quiet /\ verdicts < MaxVerdicts /\ verdicts' = verdicts + 1
    /\ mayEarn' = [mayEarn EXCEPT ![u] = ~@]
    /\ UNCHANGED <<fundingVars, session, request, campaign, faults>>

\* The process dies; what it wrote and what the ledger did stays.
Dies(r) ==
    /\ ~At(r, "idle") /\ Fault
    /\ Go(r, Idle)
    /\ UNCHANGED <<fundingVars, session, campaign, mayEarn, verdicts>>

Around == UNCHANGED <<session, request, campaign, mayEarn, verdicts, faults>>

HoldRunsOut(s)   == HoldExpires(s) /\ Around
CheckerReleases  == ReleaseExpired /\ Around
OtherViewers(u)  == Quiet /\ StrangerPaid(u) /\ Around
Midnight         == Quiet /\ NextDay /\ Around

RequestSteps(r) ==
    \/ OpenSession(r) \/ Supersede(r) \/ DecideEarning(r)
    \/ HoldPlaced(r) \/ HoldRefused(r) \/ Finalize(r)
    \/ MarkCompleted(r) \/ IdentityRefused(r) \/ GrantPaid(r) \/ GrantRefused(r) \/ MarkGranted(r)

Next ==
    \/ \E r \in Requests :
         \/ \E u \in Users : Start(r, u)
         \/ \E s \in Sessions : Load(r, s)
         \/ RequestSteps(r)
         \/ Dies(r)
    \/ \E s \in Sessions :
         \/ WatchThrough(s)
         \/ WatchElsewhere(s)
         \/ HoldRunsOut(s)
    \/ \E u \in Users : VerdictChanges(u)
    \/ \E u \in Strangers : OtherViewers(u)
    \/ Pause \/ Resume \/ PublishTerms
    \/ CheckerReleases \/ Midnight

Init ==
    /\ FundingInit
    /\ session = [s \in Sessions |-> NoSession]
    /\ request = [r \in Requests |-> Idle]
    /\ campaign = [live |-> TRUE, terms |-> 1, publishing |-> FALSE]
    /\ mayEarn \in [Users -> BOOLEAN]
    /\ verdicts = 0
    /\ faults = 0

Spec == Init /\ [][Next]_vars

\* Time passes, the ledger's checker ticks and a request that is running runs
\* on; nobody has to start, to watch or to complete.
FairSpec ==
    /\ Spec
    /\ \A s \in Sessions : WF_vars(HoldRunsOut(s))
    /\ WF_vars(CheckerReleases)

Reasons == {Pending, AlreadyEarned, NoIdentity, Refused, Earning}

Row ==
    [user : Users, terms : 1..MaxTerms,
     state : {"active", "parked", "completed", "superseded"},
     reason : Reasons, hold : BOOLEAN, watched : BOOLEAN, granted : BOOLEAN,
     refusal : {"none", "no_room", "other"}]

Locals ==
    [pc : {"idle"}]
    \cup [pc : {"open"}, user : Users, terms : 1..MaxTerms, mayEarn : BOOLEAN, again : BOOLEAN]
    \cup [pc : {"supersede"}, sid : Sessions, user : Users, terms : 1..MaxTerms]
    \cup [pc : {"decide"}, sid : Sessions, user : Users]
    \cup [pc : {"hold", "markGranted"}, sid : Sessions]
    \cup [pc : {"finalize"}, sid : Sessions, reason : Reasons]
    \cup [pc : {"mark", "pay"}, sid : Sessions, reason : Reasons, hold : BOOLEAN]

TypeOK ==
    /\ FundingTypeOK
    /\ session \in [Sessions -> Row \cup {NoSession}]
    /\ request \in [Requests -> Locals]
    /\ \A r \in Requests : At(r, "idle") \/ At(r, "open") \/ Exists(Sid(r))
    /\ campaign \in [live : BOOLEAN, terms : 1..MaxTerms, publishing : BOOLEAN]
    /\ mayEarn \in [Users -> BOOLEAN]
    /\ verdicts \in 0..MaxVerdicts /\ faults \in 0..MaxFaults

(***************************************************************************)
(* Safety                                                                   *)
(***************************************************************************)

\* "a viewer told they can earn is paid at the end" (14.2), "the grant at the
\* end cannot be refused for an exhausted allocation" (4.4.e): while its hold
\* is live a session is never refused for want of room, whatever other viewers
\* and other campaigns took since.
LiveHoldIsPaid ==
    [][\A s \in Sessions :
        (/\ Exists(s) /\ session[s].refusal = "none"
         /\ session[s].hold /\ hold[s].state = "held" /\ hold[s].live)
        => ~(session'[s] # NoSession /\ session'[s].refusal = "no_room")]_vars

\* A completed or superseded attempt is over (EW-10): no request that read it
\* while it was open completes it again or brings it back.
ClosedStaysClosed ==
    [][\A s \in Sessions :
        Exists(s) /\ session[s].state \notin Open => session'[s].state = session[s].state]_vars

\* "A placeholder the controller MUST replace via finalizeEarningOutcome before
\* this response reaches anyone": no answer shows a session whose funding is
\* still to be decided.
PlaceholderIsNeverAnswered ==
    [][\A r \in Requests, s \in Sessions :
        (/\ At(r, "open") /\ s \in OpenFor(request[r].user, request[r].terms)
         /\ request'[r] = Idle /\ faults' = faults)
        => session[s].reason # Pending]_vars

(***************************************************************************)
(* Liveness                                                                  *)
(***************************************************************************)

\* Points reserved for a viewer who went away, whose request died or whose
\* grant was refused come back to the business.
HoldsComeBack ==
    \A s \in Sessions : hold[s].state = "held" ~> hold[s].state # "held"
===============================================================================

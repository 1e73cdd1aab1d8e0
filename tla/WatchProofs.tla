------------------------------ MODULE WatchProofs ------------------------------
(***************************************************************************)
(* For any viewers, requests, sessions, rewards, caps and bounds: an        *)
(* attempt that was completed or superseded stays so, a campaign pays a     *)
(* person once, every point of its allocation is accounted for, live holds  *)
(* and grants fit the caps together, and a session is paid while its hold   *)
(* is live.                                                                 *)
(*                                                                          *)
(* A request writes to the session it read steps ago, by its id alone.      *)
(* What makes this safe is that a request only ever has the id of a row     *)
(* that exists (Sited), and that every statement that changes a state asks  *)
(* for the open one.  The funding rests on one request alone opening a      *)
(* session (Openers), so that its hold is placed once, and on a session     *)
(* that was told it earns having one (Told).                                *)
(***************************************************************************)
EXTENDS Watch, FiniteSetTheorems, TLAPS

Rows == session \in [Sessions -> Row \cup {NoSession}]

Processes == request \in [Requests -> Locals]

(* A request that has chosen its session works on one that exists. *)
Sited == \A r \in Requests : At(r, "idle") \/ At(r, "open") \/ Exists(Sid(r))

Campaign ==
    /\ campaign \in [live : BOOLEAN, terms : 1..MaxTerms, publishing : BOOLEAN]
    /\ campaign.publishing => campaign.terms < MaxTerms
    /\ mayEarn \in [Users -> BOOLEAN]

IInv == Rows /\ Processes /\ Sited /\ Campaign /\ PaidOnce

(* What a closed attempt keeps in one step. *)
Closed ==
    \A s \in Sessions :
        Exists(s) /\ session[s].state \notin Open => session'[s].state = session[s].state

(* No row is inserted twice and none disappears. *)
Remain == \A s \in Sessions : Exists(s) => session'[s] # NoSession

LEMMA RowIsRow == ASSUME NEW x \in Row PROVE x # NoSession
BY DEF Row, NoSession

(* A step that changes one existing row into a row keeps the rows. *)
LEMMA OneRowChanges ==
  ASSUME Rows, NEW s \in Sessions, NEW x \in Row, session' = [session EXCEPT ![s] = x]
  PROVE  Rows' /\ Remain
BY RowIsRow DEF Rows, Remain, Exists

(* A request moves on to well-typed locals, on a session that exists by then. *)
LEMMA RequestMoves ==
  ASSUME Processes, Sited, Remain, Rows', NEW r \in Requests, NEW q \in Locals,
         request' = [request EXCEPT ![r] = q],
         q.pc \in {"idle", "open"} \/ session'[q.sid] # NoSession
  PROVE  Processes' /\ Sited'
<1>1. Processes'
  BY DEF Processes
<1>2. Sited'
  <2> SUFFICES ASSUME NEW p \in Requests
               PROVE  request'[p].pc \in {"idle", "open"} \/ session'[request'[p].sid] # NoSession
    BY DEF Sited, At, Exists, Sid
  <2>1. CASE p = r
    BY <2>1 DEF Processes
  <2>2. CASE p # r
    <3>1. request'[p] = request[p]
      BY <2>2 DEF Processes
    <3>2. request[p].pc \in {"idle", "open"} \/ request[p].sid \in Sessions
      BY DEF Processes, Locals
    <3> QED BY <3>1, <3>2 DEF Sited, At, Exists, Sid, Remain
  <2> QED BY <2>1, <2>2
<1> QED BY <1>1, <1>2

LEMMA RequestsStay ==
  ASSUME Processes, Sited, Remain, Rows', UNCHANGED request
  PROVE  Processes' /\ Sited'
<1>1. \A p \in Requests : request[p].pc \in {"idle", "open"} \/ request[p].sid \in Sessions
  BY DEF Processes, Locals
<1> QED BY <1>1 DEF Processes, Sited, At, Exists, Sid, Remain

LEMMA SessionsStay == ASSUME Rows, UNCHANGED session PROVE Rows' /\ Remain /\ Closed
BY DEF Rows, Remain, Closed, Exists

LEMMA CampaignStays == ASSUME Campaign, UNCHANGED <<campaign, mayEarn>> PROVE Campaign'
BY DEF Campaign

LEMMA GrantsStay == ASSUME PaidOnce, UNCHANGED grants PROVE PaidOnce'
BY DEF PaidOnce

USE DEF fundingVars

-------------------------------------------------------------------------------
(* The steps of start. *)
LEMMA StartStep ==
  ASSUME IInv, NEW r \in Requests, NEW u \in Users, Start(r, u)
  PROVE  IInv' /\ Closed
<1> DEFINE q == [pc |-> "open", user |-> u, terms |-> campaign.terms,
                 mayEarn |-> mayEarn[u], again |-> FALSE]
<1>1. Rows' /\ Remain /\ Closed
  BY SessionsStay DEF IInv, Start
<1>2. q \in Locals
  BY DEF IInv, Campaign, Locals
<1>3. Processes' /\ Sited'
  <2>1. request' = [request EXCEPT ![r] = q] /\ q.pc = "open"
    BY DEF Start, Go
  <2> HIDE DEF q
  <2> QED BY <1>1, <1>2, <2>1, RequestMoves DEF IInv
<1> QED BY <1>1, <1>3, CampaignStays, GrantsStay DEF IInv, Start

LEMMA InsertKeeps ==
  ASSUME Rows, NEW u \in Users, NEW v \in 1..MaxTerms,
         NEW s \in Unused, Insert(s, u, v)
  PROVE  Rows' /\ Remain /\ Closed /\ session'[s] # NoSession
<1>1. MaxTerms \in Nat
  BY WatchAssumption DEF WatchAssumption
<1>2. Fresh(u, v) \in Row
  BY <1>1 DEF Fresh, Row, Reasons, Pending
<1>3. \A t \in Sessions : Exists(t) => session[t] \in Row
  BY DEF Rows, Exists
<1>4. \A t \in Stale(u, v) : [session[t] EXCEPT !.state = "superseded"] \in Row
  BY <1>3 DEF Stale, Row
<1>5. s \in Sessions /\ ~Exists(s)
  BY DEF Unused
<1>6. \A t \in Sessions :
         session'[t] = IF t = s THEN Fresh(u, v)
                       ELSE IF t \in Stale(u, v) THEN [session[t] EXCEPT !.state = "superseded"]
                       ELSE session[t]
  BY <1>5 DEF Insert
<1>7. Rows'
  <2>1. \A t \in Sessions : session'[t] \in Row \cup {NoSession}
    BY <1>2, <1>4, <1>6 DEF Rows
  <2>2. session' = [t \in Sessions |-> session'[t]]
    BY DEF Insert
  <2> HIDE DEF Insert
  <2> QED BY <2>1, <2>2 DEF Rows
<1>8. \A t \in Sessions : Exists(t) => session'[t] \in Row
  BY <1>2, <1>3, <1>4, <1>6
<1>9. Remain /\ session'[s] # NoSession
  BY <1>2, <1>5, <1>6, <1>8, RowIsRow DEF Remain
<1>10. Closed
  BY <1>5, <1>6 DEF Closed, Stale
<1> QED BY <1>7, <1>9, <1>10

LEMMA OpenSessionStep ==
  ASSUME IInv, NEW r \in Requests, OpenSession(r)
  PROVE  IInv' /\ Closed
<1> DEFINE q == request[r]
<1>1. q.pc = "open" /\ q.user \in Users /\ q.terms \in 1..MaxTerms
  BY DEF OpenSession, At, IInv, Processes, Locals
<1>2. (Rows /\ Processes /\ Sited)' /\ Closed
  <2>1. ASSUME NEW s \in OpenFor(q.user, q.terms), Reactivate(s),
               Go(r, IF q.mayEarn /\ ~q.again /\ session[s].reason = NoIdentity
                     THEN [pc |-> "supersede", sid |-> s, user |-> q.user, terms |-> q.terms]
                     ELSE Idle)
        PROVE  (Rows /\ Processes /\ Sited)' /\ Closed
    <3>1. s \in Sessions /\ Exists(s) /\ session[s] \in Row /\ session[s].state \in Open
      BY <2>1 DEF OpenFor, IInv, Rows, Exists
    <3>2. [session[s] EXCEPT !.state = "active"] \in Row
      BY <3>1 DEF Row
    <3>3. session' = [session EXCEPT ![s] = [session[s] EXCEPT !.state = "active"]]
      BY <2>1 DEF Reactivate
    <3>4. Rows' /\ Remain
      BY <3>1, <3>2, <3>3, OneRowChanges DEF IInv
    <3>5. Closed
      BY <3>1, <3>3 DEF Closed, IInv, Rows
    <3>6. Processes' /\ Sited'
      <4> DEFINE next == IF q.mayEarn /\ ~q.again /\ session[s].reason = NoIdentity
                     THEN [pc |-> "supersede", sid |-> s, user |-> q.user, terms |-> q.terms]
                     ELSE Idle
      <4>1. next \in Locals
        BY <1>1, <3>1 DEF Locals, Idle
      <4>2. next.pc \in {"idle", "open"} \/ session'[next.sid] # NoSession
        BY <3>1, <3>4 DEF Idle, Remain
      <4>3. request' = [request EXCEPT ![r] = next]
        BY <2>1 DEF Go
      <4> HIDE DEF next
      <4> QED BY <3>4, <4>1, <4>2, <4>3, RequestMoves DEF IInv
    <3> QED BY <3>4, <3>5, <3>6
  <2>2. ASSUME NEW s \in Unused, Insert(s, q.user, q.terms),
               Go(r, IF q.mayEarn THEN [pc |-> "decide", sid |-> s, user |-> q.user]
                     ELSE [pc |-> "finalize", sid |-> s, reason |-> NoIdentity])
        PROVE  (Rows /\ Processes /\ Sited)' /\ Closed
    <3>1. Rows' /\ Remain /\ Closed /\ session'[s] # NoSession
      BY <1>1, <2>2, InsertKeeps DEF IInv
    <3>2. Processes' /\ Sited'
      <4> DEFINE next == IF q.mayEarn THEN [pc |-> "decide", sid |-> s, user |-> q.user]
                         ELSE [pc |-> "finalize", sid |-> s, reason |-> NoIdentity]
      <4>1. next \in Locals
        BY <1>1 DEF Locals, Unused, Reasons
      <4>2. session'[next.sid] # NoSession
        BY <3>1
      <4>3. request' = [request EXCEPT ![r] = next]
        BY <2>2 DEF Go
      <4> HIDE DEF next
      <4> QED BY <3>1, <4>1, <4>2, <4>3, RequestMoves DEF IInv
    <3> QED BY <3>1, <3>2
  <2>3. CASE \E s \in OpenFor(q.user, q.terms) :
               /\ Reactivate(s)
               /\ Go(r, IF q.mayEarn /\ ~q.again /\ session[s].reason = NoIdentity
                        THEN [pc |-> "supersede", sid |-> s, user |-> q.user, terms |-> q.terms]
                        ELSE Idle)
    BY <2>1, <2>3
  <2>4. CASE /\ Unused # {}
             /\ LET s == CHOOSE t \in Unused : TRUE IN
                  /\ Insert(s, q.user, q.terms)
                  /\ Go(r, IF q.mayEarn THEN [pc |-> "decide", sid |-> s, user |-> q.user]
                           ELSE [pc |-> "finalize", sid |-> s, reason |-> NoIdentity])
    <3>1. (CHOOSE t \in Unused : TRUE) \in Unused
      BY <2>4
    <3> QED BY <2>2, <2>4, <3>1
  <2> QED BY <2>3, <2>4 DEF OpenSession
<1>3. Campaign' /\ PaidOnce'
  BY CampaignStays, GrantsStay DEF IInv, OpenSession
<1> QED BY <1>2, <1>3 DEF IInv

-------------------------------------------------------------------------------
(* Two shapes of step: a request moves on, and it writes a row before it does. *)
LEMMA Moves ==
  ASSUME Rows, Processes, Sited, NEW r \in Requests, NEW q \in Locals, Go(r, q),
         q.pc \in {"idle", "open"} \/ (q.sid \in Sessions /\ Exists(q.sid)), UNCHANGED session
  PROVE  (Rows /\ Processes /\ Sited)' /\ Closed
<1>1. Rows' /\ Remain /\ Closed
  BY SessionsStay
<1> QED BY <1>1, RequestMoves DEF Go, Remain

LEMMA Writes ==
  ASSUME Rows, NEW s \in Sessions, Exists(s), NEW x \in Row,
         session' = [session EXCEPT ![s] = x],
         session[s].state \notin Open => x.state = session[s].state
  PROVE  Rows' /\ Remain /\ Closed
<1>1. Rows' /\ Remain
  BY OneRowChanges
<1>2. Closed
  BY DEF Closed, Rows
<1> QED BY <1>1, <1>2

LEMMA WritesAndMoves ==
  ASSUME Rows, Processes, Sited, NEW s \in Sessions, Exists(s), NEW x \in Row,
         session' = [session EXCEPT ![s] = x],
         session[s].state \notin Open => x.state = session[s].state,
         NEW r \in Requests, NEW q \in Locals, Go(r, q),
         q.pc \in {"idle", "open"} \/ (q.sid \in Sessions /\ Exists(q.sid))
  PROVE  (Rows /\ Processes /\ Sited)' /\ Closed
<1>1. Rows' /\ Remain /\ Closed
  BY Writes
<1> QED BY <1>1, RequestMoves DEF Go, Remain

(* What a request that works on a session has in its locals. *)
LEMMA Working ==
  ASSUME IInv, NEW r \in Requests, ~At(r, "idle"), ~At(r, "open")
  PROVE  Sid(r) \in Sessions /\ Exists(Sid(r)) /\ session[Sid(r)] \in Row
<1>1. Sid(r) \in Sessions
  BY DEF IInv, Processes, Locals, At, Sid
<1>2. Exists(Sid(r))
  BY DEF IInv, Sited
<1> QED BY <1>1, <1>2 DEF IInv, Rows, Exists

LEMMA IdleIsLocals == Idle \in Locals /\ Idle.pc = "idle"
BY DEF Idle, Locals

LEMMA SupersedeStep ==
  ASSUME IInv, NEW r \in Requests, Supersede(r)
  PROVE  IInv' /\ Closed
<1> DEFINE q == request[r]
<1>1. At(r, "supersede") /\ ~At(r, "idle") /\ ~At(r, "open")
  BY DEF Supersede, At
<1>2. Sid(r) \in Sessions /\ Exists(Sid(r)) /\ session[Sid(r)] \in Row
  BY <1>1, Working
<1>3. q.user \in Users /\ q.terms \in 1..MaxTerms /\ q.sid = Sid(r)
  BY <1>1 DEF IInv, Processes, Locals, At, Sid
<1>4. CASE session' = session /\ Go(r, Idle)
  BY <1>4, IdleIsLocals, Moves, CampaignStays, GrantsStay DEF IInv, Supersede
<1>5. CASE /\ session[q.sid].state \in Open
           /\ session' = [session EXCEPT ![q.sid].state = "superseded"]
           /\ Go(r, [pc |-> "open", user |-> q.user, terms |-> q.terms,
                     mayEarn |-> TRUE, again |-> TRUE])
  <2> DEFINE x == [session[Sid(r)] EXCEPT !.state = "superseded"]
             next == [pc |-> "open", user |-> q.user, terms |-> q.terms,
                      mayEarn |-> TRUE, again |-> TRUE]
  <2>1. x \in Row /\ session' = [session EXCEPT ![Sid(r)] = x]
    BY <1>2, <1>3, <1>5 DEF Row
  <2>2. next \in Locals /\ next.pc = "open"
    BY <1>3 DEF Locals
  <2>3. session[Sid(r)].state \in Open /\ Go(r, next)
    BY <1>3, <1>5
  <2> HIDE DEF x, next
  <2>4. (Rows /\ Processes /\ Sited)' /\ Closed
    BY <1>2, <2>1, <2>2, <2>3, WritesAndMoves DEF IInv
  <2> QED BY <2>4, CampaignStays, GrantsStay DEF IInv, Supersede
<1> QED BY <1>4, <1>5 DEF Supersede

LEMMA DecideEarningStep ==
  ASSUME IInv, NEW r \in Requests, DecideEarning(r)
  PROVE  IInv' /\ Closed
<1>1. ~At(r, "idle") /\ ~At(r, "open") /\ UNCHANGED session
  BY DEF DecideEarning, At
<1>2. Sid(r) \in Sessions /\ Exists(Sid(r))
  BY <1>1, Working
<1>3. PICK next \in Locals : Go(r, next) /\ next.pc \notin {"idle", "open"} /\ next.sid = Sid(r)
  <2>1. [pc |-> "finalize", sid |-> Sid(r), reason |-> AlreadyEarned] \in Locals
    BY <1>2 DEF Locals, Reasons
  <2>2. [pc |-> "hold", sid |-> Sid(r)] \in Locals
    BY <1>2 DEF Locals
  <2> QED BY <2>1, <2>2 DEF DecideEarning
<1>4. (Rows /\ Processes /\ Sited)' /\ Closed
  BY <1>1, <1>2, <1>3, Moves DEF IInv
<1> QED BY <1>4, CampaignStays, GrantsStay DEF IInv, DecideEarning

LEMMA HoldStep ==
  ASSUME IInv, NEW r \in Requests, HoldPlaced(r) \/ HoldRefused(r)
  PROVE  IInv' /\ Closed
<1>1. ~At(r, "idle") /\ ~At(r, "open") /\ UNCHANGED session
  BY DEF HoldPlaced, HoldRefused, At
<1>2. Sid(r) \in Sessions /\ Exists(Sid(r))
  BY <1>1, Working
<1>3. PICK why \in {Earning, Refused} : Go(r, [pc |-> "finalize", sid |-> Sid(r), reason |-> why])
  BY DEF HoldPlaced, HoldRefused
<1> DEFINE next == [pc |-> "finalize", sid |-> Sid(r), reason |-> why]
<1>4. next \in Locals /\ next.sid = Sid(r) /\ Go(r, next)
  BY <1>2, <1>3 DEF Locals, Reasons
<1>5. (Rows /\ Processes /\ Sited)' /\ Closed
  <2> HIDE DEF next
  <2> QED BY <1>1, <1>2, <1>4, Moves DEF IInv
<1>6. UNCHANGED <<grants, campaign, mayEarn>>
  BY DEF HoldPlaced, HoldRefused, PlaceHold
<1> QED BY <1>5, <1>6, CampaignStays, GrantsStay DEF IInv

LEMMA FinalizeStep ==
  ASSUME IInv, NEW r \in Requests, Finalize(r)
  PROVE  IInv' /\ Closed
<1>1. ~At(r, "idle") /\ ~At(r, "open")
  BY DEF Finalize, At
<1>2. Sid(r) \in Sessions /\ Exists(Sid(r)) /\ session[Sid(r)] \in Row
  BY <1>1, Working
<1>3. request[r].reason \in Reasons
  BY DEF Finalize, IInv, Processes, Locals, At
<1> DEFINE x == [session[Sid(r)] EXCEPT !.reason = request[r].reason,
                                        !.hold = (request[r].reason = Earning)]
<1>4. x \in Row /\ x.state = session[Sid(r)].state
  BY <1>2, <1>3 DEF Row
<1>5. session' = [session EXCEPT ![Sid(r)] = x]
  BY <1>2 DEF Finalize, IInv, Rows
<1>6. (Rows /\ Processes /\ Sited)' /\ Closed
  <2> HIDE DEF x
  <2> QED BY <1>2, <1>4, <1>5, IdleIsLocals, WritesAndMoves DEF IInv, Finalize
<1> QED BY <1>6, CampaignStays, GrantsStay DEF IInv, Finalize

-------------------------------------------------------------------------------
(* The steps of complete. *)
LEMMA LoadStep ==
  ASSUME IInv, NEW r \in Requests, NEW s \in Sessions, Load(r, s)
  PROVE  IInv' /\ Closed
<1> DEFINE next == [pc |-> "mark", sid |-> s, reason |-> session[s].reason,
                    hold |-> session[s].hold]
<1>1. Exists(s) /\ session[s] \in Row
  BY DEF Load, Exists, IInv, Rows
<1>2. next \in Locals /\ next.sid = s
  BY <1>1 DEF Row, Locals
<1>3. Go(r, next) /\ UNCHANGED session
  BY DEF Load
<1>4. (Rows /\ Processes /\ Sited)' /\ Closed
  <2> HIDE DEF next
  <2> QED BY <1>1, <1>2, <1>3, Moves DEF IInv
<1> QED BY <1>4, CampaignStays, GrantsStay DEF IInv, Load

(* Only the open session is completed: the one conjunct ClosedStaysClosed
   rests on. *)
LEMMA MarkCompletedStep ==
  ASSUME IInv, NEW r \in Requests, MarkCompleted(r)
  PROVE  IInv' /\ Closed
<1> DEFINE next == IF request[r].reason = Earning THEN [request[r] EXCEPT !.pc = "pay"] ELSE Idle
<1>1. ~At(r, "idle") /\ ~At(r, "open")
  BY DEF MarkCompleted, At
<1>2. Sid(r) \in Sessions /\ Exists(Sid(r)) /\ session[Sid(r)] \in Row
  BY <1>1, Working
<1>3. /\ next \in Locals
      /\ next.pc = "idle" \/ (next.sid \in Sessions /\ Exists(next.sid))
  <2>1. request[r] \in [pc : {"mark", "pay"}, sid : Sessions, reason : Reasons, hold : BOOLEAN]
    BY DEF MarkCompleted, At, IInv, Processes, Locals
  <2>2. [request[r] EXCEPT !.pc = "pay"] \in Locals
    BY <2>1 DEF Locals
  <2>3. [request[r] EXCEPT !.pc = "pay"].sid = Sid(r)
    BY <2>1 DEF Sid
  <2> QED BY <1>2, <2>2, <2>3, IdleIsLocals
<1>4. CASE UNCHANGED session /\ Go(r, Idle)
  BY <1>4, IdleIsLocals, Moves, CampaignStays, GrantsStay DEF IInv, MarkCompleted
<1>5. CASE /\ session[Sid(r)].state = "active"
           /\ session' = [session EXCEPT ![Sid(r)].state = "completed"]
           /\ Go(r, next)
  <2> DEFINE x == [session[Sid(r)] EXCEPT !.state = "completed"]
  <2>1. x \in Row /\ session' = [session EXCEPT ![Sid(r)] = x] /\ session[Sid(r)].state \in Open
    BY <1>2, <1>5 DEF Row, Open
  <2> HIDE DEF x, next
  <2>2. (Rows /\ Processes /\ Sited)' /\ Closed
    BY <1>2, <1>3, <1>5, <2>1, WritesAndMoves DEF IInv
  <2> QED BY <2>2, CampaignStays, GrantsStay DEF IInv, MarkCompleted
<1> QED BY <1>4, <1>5 DEF MarkCompleted

LEMMA IdentityRefusedStep ==
  ASSUME IInv, NEW r \in Requests, IdentityRefused(r)
  PROVE  IInv' /\ Closed
<1>1. Go(r, Idle) /\ UNCHANGED <<session, grants, campaign, mayEarn>>
  BY DEF IdentityRefused, ReleaseHold
<1> QED BY <1>1, IdleIsLocals, Moves, CampaignStays, GrantsStay DEF IInv

(* The ledger's own uniqueness keeps PaidOnce, whatever the flags say. *)
LEMMA GrantPaidStep ==
  ASSUME IInv, NEW r \in Requests, GrantPaid(r)
  PROVE  IInv' /\ Closed
<1>1. ~At(r, "idle") /\ ~At(r, "open")
  BY DEF GrantPaid, At
<1>2. Sid(r) \in Sessions /\ Exists(Sid(r))
  BY <1>1, Working
<1>3. PICK next \in {Idle, [pc |-> "markGranted", sid |-> Sid(r)]} : Go(r, next)
  BY DEF GrantPaid
<1>4. next \in Locals /\ (next.pc = "idle" \/ next.sid = Sid(r))
  BY <1>2, IdleIsLocals DEF Locals
<1>5. UNCHANGED <<session, campaign, mayEarn>>
  BY DEF GrantPaid
<1>6. (Rows /\ Processes /\ Sited)' /\ Closed
  BY <1>2, <1>3, <1>4, <1>5, Moves DEF IInv
<1>7. PaidOnce'
  <2>1. PICK points \in PointsFor :
          Grant(session[Sid(r)].user, Sid(r), request[r].hold, points)
    BY DEF GrantPaid
  <2> DEFINE u == session[Sid(r)].user
             g == [user |-> u, session |-> Sid(r), points |-> points, day |-> day]
  <2>2. grants' = grants \cup {g} /\ g.user = u /\ \A h \in grants : h.user # u
    BY <2>1 DEF Grant, AlreadyPaid
  <2> HIDE DEF g
  <2> QED BY <2>2 DEF IInv, PaidOnce
<1> QED BY <1>5, <1>6, <1>7, CampaignStays DEF IInv

LEMMA GrantRefusedStep ==
  ASSUME IInv, NEW r \in Requests, GrantRefused(r)
  PROVE  IInv' /\ Closed
<1>1. ~At(r, "idle") /\ ~At(r, "open")
  BY DEF GrantRefused, At
<1>2. Sid(r) \in Sessions /\ Exists(Sid(r)) /\ session[Sid(r)] \in Row
  BY <1>1, Working
<1>3. PICK why \in {"no_room", "other"} : session' = [session EXCEPT ![Sid(r)].refusal = why]
  BY DEF GrantRefused, Refusals
<1> DEFINE x == [session[Sid(r)] EXCEPT !.refusal = why]
<1>4. x \in Row /\ x.state = session[Sid(r)].state /\ session' = [session EXCEPT ![Sid(r)] = x]
  BY <1>2, <1>3 DEF Row
<1>5. (Rows /\ Processes /\ Sited)' /\ Closed
  <2> HIDE DEF x
  <2> QED BY <1>2, <1>4, IdleIsLocals, WritesAndMoves DEF IInv, GrantRefused
<1> QED BY <1>5, CampaignStays, GrantsStay DEF IInv, GrantRefused

LEMMA MarkGrantedStep ==
  ASSUME IInv, NEW r \in Requests, MarkGranted(r)
  PROVE  IInv' /\ Closed
<1>1. ~At(r, "idle") /\ ~At(r, "open")
  BY DEF MarkGranted, At
<1>2. Sid(r) \in Sessions /\ Exists(Sid(r)) /\ session[Sid(r)] \in Row
  BY <1>1, Working
<1> DEFINE x == [session[Sid(r)] EXCEPT !.granted = TRUE]
<1>3. x \in Row /\ x.state = session[Sid(r)].state /\ session' = [session EXCEPT ![Sid(r)] = x]
  BY <1>2 DEF Row, MarkGranted
<1>4. (Rows /\ Processes /\ Sited)' /\ Closed
  <2> HIDE DEF x
  <2> QED BY <1>2, <1>3, IdleIsLocals, WritesAndMoves DEF IInv, MarkGranted
<1> QED BY <1>4, CampaignStays, GrantsStay DEF IInv, MarkGranted

LEMMA DiesStep ==
  ASSUME IInv, NEW r \in Requests, Dies(r)
  PROVE  IInv' /\ Closed
BY IdleIsLocals, Moves, CampaignStays, GrantsStay DEF IInv, Dies

-------------------------------------------------------------------------------
(* What goes on around the requests. *)
LEMMA WatchStep ==
  ASSUME IInv, NEW s \in Sessions, WatchThrough(s) \/ WatchElsewhere(s)
  PROVE  IInv' /\ Closed
<1>1. /\ Exists(s) /\ session[s] \in Row /\ session[s].state = "active"
      /\ UNCHANGED <<fundingVars, request, campaign, mayEarn>>
  BY DEF WatchThrough, WatchElsewhere, Exists, IInv, Rows
<1>2. PICK x \in Row : session' = [session EXCEPT ![s] = x]
  <2>1. CASE WatchThrough(s)
    <3>1. [session[s] EXCEPT !.watched = TRUE] \in Row
      BY <1>1 DEF Row
    <3> QED BY <2>1, <3>1 DEF WatchThrough
  <2>2. CASE WatchElsewhere(s)
    <3>1. [session[s] EXCEPT !.state = "parked"] \in Row
      BY <1>1 DEF Row
    <3> QED BY <2>2, <3>1 DEF WatchElsewhere
  <2> QED BY <2>1, <2>2
<1>3. Rows' /\ Remain /\ Closed
  BY <1>1, <1>2, Writes DEF IInv, Open
<1> QED BY <1>1, <1>3, RequestsStay, CampaignStays, GrantsStay DEF IInv

LEMMA LedgerStep ==
  ASSUME IInv,
         \/ \E s \in Sessions : HoldRunsOut(s)
         \/ CheckerReleases
         \/ Midnight
  PROVE  IInv' /\ Closed
<1>1. UNCHANGED <<grants, session, request, campaign, mayEarn>>
  BY DEF HoldRunsOut, CheckerReleases, Midnight, HoldExpires, ReleaseExpired, NextDay, Around
<1> QED BY <1>1, SessionsStay, RequestsStay, CampaignStays, GrantsStay DEF IInv

LEMMA OtherViewersStep ==
  ASSUME IInv, NEW u \in Strangers, OtherViewers(u)
  PROVE  IInv' /\ Closed
<1>1. UNCHANGED <<session, request, campaign, mayEarn>>
  BY DEF OtherViewers, Around
<1>2. PaidOnce'
  <2> DEFINE g == [user |-> u, session |-> 0, points |-> Base, day |-> day]
  <2>1. grants' = grants \cup {g} /\ g.user = u /\ \A h \in grants : h.user # u
    BY DEF OtherViewers, StrangerPaid, AlreadyPaid
  <2> HIDE DEF g
  <2> QED BY <2>1 DEF IInv, PaidOnce
<1> QED BY <1>1, <1>2, SessionsStay, RequestsStay, CampaignStays DEF IInv

LEMMA CampaignStep ==
  ASSUME IInv, Pause \/ Resume \/ PublishTerms \/ \E u \in Users : VerdictChanges(u)
  PROVE  IInv' /\ Closed
<1>1. UNCHANGED <<grants, session, request>>
  BY DEF Pause, Resume, PublishTerms, VerdictChanges
<1>2. Campaign'
  <2>1. MaxTerms \in Nat
    BY WatchAssumption DEF WatchAssumption
  <2>2. CASE Pause
    BY <2>2 DEF Pause, IInv, Campaign
  <2>3. CASE Resume
    BY <2>1, <2>3 DEF Resume, IInv, Campaign
  <2>4. CASE PublishTerms
    <3>1. campaign.terms + 1 \in 1..MaxTerms
      BY <2>1, <2>4 DEF PublishTerms, IInv, Campaign
    <3> QED BY <2>4, <3>1 DEF PublishTerms, IInv, Campaign
  <2>5. CASE \E u \in Users : VerdictChanges(u)
    BY <2>5 DEF VerdictChanges, IInv, Campaign
  <2> QED BY <2>2, <2>3, <2>4, <2>5
<1> QED BY <1>1, <1>2, SessionsStay, RequestsStay, GrantsStay DEF IInv

-------------------------------------------------------------------------------
LEMMA Initially == Init => IInv
<1> SUFFICES ASSUME Init PROVE IInv
  OBVIOUS
<1>1. Rows
  BY DEF Init, Rows
<1>2. Processes /\ Sited
  BY IdleIsLocals DEF Init, Processes, Sited, At, Idle
<1>3. Campaign
  BY WatchAssumption DEF Init, Campaign, WatchAssumption
<1>4. PaidOnce
  BY DEF Init, FundingInit, PaidOnce
<1> QED BY <1>1, <1>2, <1>3, <1>4 DEF IInv

LEMMA Steps == IInv /\ [Next]_vars => IInv' /\ Closed
<1> SUFFICES ASSUME IInv, [Next]_vars PROVE IInv' /\ Closed
  OBVIOUS
<1>1. ASSUME NEW r \in Requests, RequestSteps(r) PROVE IInv' /\ Closed
  BY <1>1, OpenSessionStep, SupersedeStep, DecideEarningStep, HoldStep, FinalizeStep,
     MarkCompletedStep, IdentityRefusedStep, GrantPaidStep, GrantRefusedStep, MarkGrantedStep
     DEF RequestSteps
<1>2. CASE UNCHANGED vars
  BY <1>2, SessionsStay, RequestsStay, CampaignStays, GrantsStay DEF IInv, vars
<1> QED BY <1>1, <1>2, StartStep, LoadStep, DiesStep, WatchStep, LedgerStep, OtherViewersStep,
           CampaignStep DEF Next

(* IInv holds in every state: the locals of every request are those of its
   step, and the session it works on exists. *)
THEOREM Invariance == Spec => []IInv
<1> QED BY Initially, Steps, PTL DEF Spec

(* A campaign pays a person once, although apps/api asks its own sessions'
   flags first and writes them last: the ledger's unique grant decides. *)
THEOREM PaysOnce == Spec => []PaidOnce
<1>1. IInv => PaidOnce
  BY DEF IInv
<1> QED BY <1>1, Invariance, PTL

(* A completed or superseded attempt is over, whatever requests that read it
   while it was open, lost answers and restarts there are: each statement that
   writes a session by its id either asks for the open state or leaves the
   state alone. *)
THEOREM ClosedIsFinal == Spec => ClosedStaysClosed
<1>1. IInv /\ [Next]_vars => [Closed]_vars
  BY Steps
<1> QED BY <1>1, Invariance, PTL DEF Spec, ClosedStaysClosed, Closed
-------------------------------------------------------------------------------
(* Sums and products. *)
LEMMA Rewards ==
  /\ Base \in Nat \ {0} /\ Bonus \in Nat /\ HoldPoints \in Nat
  /\ Total \in Nat /\ Budget \in Nat /\ DailyCap \in Nat /\ MaxDay \in Nat
  /\ IsFiniteSet(Sessions)
  /\ PointsFor = {Base, HoldPoints}
  /\ \A points \in PointsFor : points \in Nat /\ points <= HoldPoints
BY FundingAssumption DEF FundingAssumption, HoldPoints, PointsFor

LEMMA Products ==
  ASSUME NEW h \in Nat, NEW c \in Nat
  PROVE  h * c \in Nat /\ h * (c + 1) = h * c + h
OBVIOUS

LEMMA ProductsGrow ==
  ASSUME NEW h \in Nat, NEW c \in Nat, NEW d \in Nat, c <= d
  PROVE  h * c <= h * d
<1>1. PICK e \in Nat : d = c + e
  BY d - c \in Nat
<1>2. h * d = h * c + h * e
  BY <1>1
<1>3. h * e \in Nat /\ h * c \in Nat
  OBVIOUS
<1> QED BY <1>2, <1>3

LEMMA Interval ==
  ASSUME NEW n \in Nat
  PROVE  IsFiniteSet(1 .. n) /\ Cardinality(1 .. n) = n
<1>1. 1 \in Int /\ n \in Int
  OBVIOUS
<1>2. IsFiniteSet(1 .. n) /\ Cardinality(1 .. n) = IF 1 > n THEN 0 ELSE n - 1 + 1
  BY <1>1, FS_Interval
<1> QED BY <1>2

(* The points of each grant, as pairs to count. *)
Units(granted) == UNION {{g} \X (1 .. g.points) : g \in granted}

LEMMA UnitsAreFinite ==
  ASSUME NEW G, IsFiniteSet(G), \A g \in G : g.points \in Nat
  PROVE  IsFiniteSet(Units(G)) /\ Points(G) \in Nat
<1> DEFINE each == [g \in G |-> {g} \X (1 .. g.points)]
           all  == {each[g] : g \in G}
<1>1. each \in Surjection(G, all)
  BY DEF Surjection
<1>2. IsFiniteSet(all)
  <2> HIDE DEF each, all
  <2> QED BY <1>1, FS_Surjection
<1>3. ASSUME NEW U \in all PROVE IsFiniteSet(U)
  <2>1. PICK g \in G : U = {g} \X (1 .. g.points)
    BY <1>3
  <2>2. IsFiniteSet({g}) /\ IsFiniteSet(1 .. g.points)
    BY FS_Singleton, Interval
  <2> QED BY <2>1, <2>2, FS_Product
<1>4. Units(G) = UNION all
  BY DEF Units
<1>5. IsFiniteSet(Units(G))
  <2> HIDE DEF all
  <2> QED BY <1>2, <1>3, <1>4, FS_UNION
<1> QED BY <1>5, FS_CardinalityType DEF Points, Units

LEMMA PointsOfNone == Points({}) = 0
<1>1. Units({}) = {}
  BY DEF Units
<1> QED BY <1>1, FS_EmptySet DEF Points, Units

LEMMA PointsAdd ==
  ASSUME NEW G, IsFiniteSet(G), \A g \in G : g.points \in Nat,
         NEW y, y \notin G, y.points \in Nat
  PROVE  Points(G \cup {y}) = Points(G) + y.points
<1> DEFINE new == {y} \X (1 .. y.points)
<1>1. Units(G \cup {y}) = Units(G) \cup new
  BY DEF Units
<1>2. Units(G) \cap new = {}
  BY DEF Units
<1>3. IsFiniteSet(Units(G)) /\ Cardinality(Units(G)) \in Nat
  BY UnitsAreFinite DEF Points, Units
<1>4. IsFiniteSet(new) /\ Cardinality(new) = y.points
  <2>1. IsFiniteSet({y}) /\ Cardinality({y}) = 1
    BY FS_Singleton
  <2>2. IsFiniteSet(1 .. y.points) /\ Cardinality(1 .. y.points) = y.points
    BY Interval
  <2>3. IsFiniteSet(new) /\ Cardinality(new) = Cardinality({y}) * Cardinality(1 .. y.points)
    BY <2>1, <2>2, FS_Product
  <2>4. 1 * y.points = y.points
    OBVIOUS
  <2> QED BY <2>1, <2>2, <2>3, <2>4
<1> HIDE DEF new
<1>5. Cardinality(Units(G) \cup new)
        = Cardinality(Units(G)) + Cardinality(new) - Cardinality(Units(G) \cap new)
  BY <1>3, <1>4, FS_Union
<1>6. Cardinality(Units(G) \cap new) = 0
  BY <1>2, FS_EmptySet
<1>7. Cardinality(Units(G)) + Cardinality(new) - 0 = Cardinality(Units(G)) + y.points
  <2>1. \A a, b \in Nat : a + b - 0 = a + b
    OBVIOUS
  <2> QED BY <1>3, <1>4, <2>1
<1>8. Cardinality(Units(G \cup {y})) = Cardinality(Units(G)) + y.points
  BY ONLY <1>1, <1>5, <1>6, <1>7
<1> QED BY <1>8 DEF Points, Units

-------------------------------------------------------------------------------
(* The allocation of one campaign. *)

HeldSessions == {s \in Sessions : hold[s].state = "held"}

HoldRows ==
    hold \in [Sessions -> [state : {"none", "held", "consumed", "released"}, live : BOOLEAN]]

(* AdmittedViewersFit needs the dates: at midnight the day's grants are none.  *)
GrantRows ==
    /\ grants \subseteq GrantRow /\ IsFiniteSet(grants)
    /\ day \in 0..MaxDay /\ \A g \in grants : g.day <= day

Funds == free \in Nat /\ HoldRows /\ GrantRows /\ PointsConserved /\ AdmittedViewersFit

(* The sums of the state are natural numbers, and a live hold is held.         *)
LEMMA Sums ==
  ASSUME Funds
  PROVE  /\ \A g \in grants : g.points \in Nat
         /\ IsFiniteSet(GrantedToday) /\ \A g \in GrantedToday : g.points \in Nat
         /\ Points(grants) \in Nat /\ Points(GrantedToday) \in Nat
         /\ IsFiniteSet(HeldSessions) /\ Cardinality(HeldSessions) \in Nat
         /\ IsFiniteSet(LiveHolds({})) /\ Cardinality(LiveHolds({})) \in Nat
         /\ Held({}) = HoldPoints * Cardinality(LiveHolds({})) /\ Held({}) \in Nat
<1>1. \A g \in grants : g.points \in Nat
  BY Rewards DEF Funds, GrantRows, GrantRow, HoldPoints
<1>2. GrantedToday \subseteq grants /\ IsFiniteSet(grants)
  BY DEF GrantedToday, Funds, GrantRows
<1>3. IsFiniteSet(GrantedToday) /\ \A g \in GrantedToday : g.points \in Nat
  BY <1>1, <1>2, FS_Subset
<1>4. Points(grants) \in Nat /\ Points(GrantedToday) \in Nat
  BY <1>1, <1>2, <1>3, UnitsAreFinite
<1>5. IsFiniteSet(HeldSessions) /\ IsFiniteSet(LiveHolds({}))
  BY Rewards, FS_Subset DEF HeldSessions, LiveHolds
<1>6. Cardinality(HeldSessions) \in Nat /\ Cardinality(LiveHolds({})) \in Nat
  BY <1>5, FS_CardinalityType
<1>7. Held({}) = HoldPoints * Cardinality(LiveHolds({})) /\ Held({}) \in Nat
  BY <1>6, Rewards, Products DEF Held
<1> QED BY <1>1, <1>3, <1>4, <1>5, <1>6, <1>7

LEMMA CardinalityOfUnion ==
  ASSUME NEW A, IsFiniteSet(A), NEW x, x \notin A
  PROVE  IsFiniteSet(A \cup {x}) /\ Cardinality(A \cup {x}) = Cardinality(A) + 1
BY FS_AddElement

LEMMA CardinalityWithout ==
  ASSUME NEW A, IsFiniteSet(A), NEW x \in A
  PROVE  /\ IsFiniteSet(A \ {x}) /\ Cardinality(A \ {x}) \in Nat
         /\ Cardinality(A) = Cardinality(A \ {x}) + 1
<1>1. IsFiniteSet(A \ {x}) /\ Cardinality(A \ {x}) \in Nat
  BY FS_RemoveElement, FS_CardinalityType
<1>2. Cardinality((A \ {x}) \cup {x}) = Cardinality(A \ {x}) + 1
  BY <1>1, CardinalityOfUnion
<1>3. (A \ {x}) \cup {x} = A
  OBVIOUS
<1> QED BY <1>1, <1>2, <1>3

(* A session's own reservation makes room for its grant.                       *)
LEMMA OwnHoldMakesRoom ==
  ASSUME Funds, NEW s \in Sessions
  PROVE  /\ Held({s}) \in Nat
         /\ s \in LiveHolds({}) => Held({}) = Held({s}) + HoldPoints
         /\ s \notin LiveHolds({}) => Held({}) = Held({s})
<1>1. LiveHolds({s}) = LiveHolds({}) \ {s}
  BY DEF LiveHolds
<1>2. CASE s \in LiveHolds({})
  <2>1. Cardinality(LiveHolds({s})) \in Nat
        /\ Cardinality(LiveHolds({})) = Cardinality(LiveHolds({s})) + 1
    BY <1>1, <1>2, Sums, CardinalityWithout
  <2> QED BY <1>2, <2>1, Rewards, Products DEF Held
<1>3. CASE s \notin LiveHolds({})
  <2>1. LiveHolds({s}) = LiveHolds({})
    BY <1>1, <1>3
  <2> QED BY <1>3, <2>1, Sums DEF Held
<1> QED BY <1>2, <1>3

LEMMA PlaceHoldKeeps ==
  ASSUME Funds, NEW s \in Sessions, hold[s].state # "held", PlaceHold(s)
  PROVE  Funds'
<1>1. /\ HoldPoints + Points(grants) + Held({s}) <= Budget
      /\ HoldPoints + Points(GrantedToday) + Held({s}) <= DailyCap
      /\ HoldPoints <= free /\ free' = free - HoldPoints
      /\ hold' = [hold EXCEPT ![s] = [state |-> "held", live |-> TRUE]]
      /\ grants' = grants /\ day' = day
  BY DEF PlaceHold, Admits, FitsBudget
<1>2. HoldRows' /\ HeldSessions' = HeldSessions \cup {s} /\ s \notin HeldSessions
      /\ LiveHolds({})' = LiveHolds({}) \cup {s} /\ s \notin LiveHolds({})
  BY <1>1 DEF Funds, HoldRows, HeldSessions, LiveHolds
<1>3. Cardinality(HeldSessions') = Cardinality(HeldSessions) + 1
  BY <1>2, Sums, CardinalityOfUnion
<1>4. Held({})' = Held({}) + HoldPoints
  <2>1. Cardinality(LiveHolds({}))' = Cardinality(LiveHolds({})) + 1
    BY <1>2, Sums, CardinalityOfUnion
  <2>2. Held({})' = HoldPoints * (Cardinality(LiveHolds({})) + 1)
    BY <2>1 DEF Held
  <2> QED BY <2>2, Sums, Rewards, Products
<1>5. free' \in Nat /\ GrantRows' /\ GrantedToday' = GrantedToday
  BY <1>1, Rewards DEF Funds, GrantRows, GrantedToday
<1>6. PointsConserved'
  <2>1. Total = free + Points(grants) + HoldPoints * Cardinality(HeldSessions)
    BY DEF Funds, PointsConserved, HeldSessions
  <2>2. HoldPoints * Cardinality(HeldSessions') = HoldPoints * Cardinality(HeldSessions) + HoldPoints
        /\ HoldPoints * Cardinality(HeldSessions) \in Nat
    BY <1>3, Sums, Rewards, Products
  <2>3. Total = free' + Points(grants') + HoldPoints * Cardinality(HeldSessions')
    BY <1>1, <2>1, <2>2, Sums, Rewards DEF Funds
  <2> QED BY <2>3 DEF PointsConserved, HeldSessions
<1>7. AdmittedViewersFit'
  <2>1. Held({s}) = Held({})
    BY <1>2, OwnHoldMakesRoom
  <2>2. /\ Points(grants') + Held({})' <= Budget
        /\ Points(GrantedToday') + Held({})' <= DailyCap
    BY <1>1, <1>4, <1>5, <2>1, Sums, Rewards
  <2> QED BY <2>2 DEF AdmittedViewersFit
<1> QED BY <1>2, <1>5, <1>6, <1>7 DEF Funds

(* One more row in ledger.grant. *)
LEMMA GrantAdds ==
  ASSUME Funds, NEW g \in GrantRow, g.day = day, \A h \in grants : h.user # g.user,
         grants' = grants \cup {g}, day' = day
  PROVE  /\ GrantRows' /\ g.points \in Nat
         /\ Points(grants') = Points(grants) + g.points
         /\ Points(GrantedToday') = Points(GrantedToday) + g.points
<1>1. g \notin grants /\ g \notin GrantedToday /\ g.points \in Nat
  BY Rewards DEF GrantedToday, GrantRow, HoldPoints
<1>2. GrantRows'
  BY Rewards, FS_AddElement DEF Funds, GrantRows, GrantRow
<1>3. Points(grants \cup {g}) = Points(grants) + g.points
  BY <1>1, Sums, PointsAdd DEF Funds, GrantRows
<1>4. GrantedToday' = GrantedToday \cup {g}
  BY DEF GrantedToday
<1>5. Points(GrantedToday \cup {g}) = Points(GrantedToday) + g.points
  BY <1>1, Sums, PointsAdd
<1> QED BY <1>1, <1>2, <1>3, <1>4, <1>5

LEMMA GrantKeeps ==
  ASSUME Funds, NEW u \in Users \cup Strangers, NEW s \in Sessions, NEW held \in BOOLEAN,
         NEW points \in PointsFor, Grant(u, s, held, points)
  PROVE  Funds'
<1> DEFINE g == [user |-> u, session |-> s, points |-> points, day |-> day]
           own == IF held THEN {s} ELSE {}
<1>1. /\ grants' = grants \cup {g} /\ day' = day /\ \A h \in grants : h.user # u
      /\ points + Points(grants) + Held(own) <= Budget
      /\ points + Points(GrantedToday) + Held(own) <= DailyCap
      /\ CanDraw(s, held, points) /\ DrawFor(s, held, points)
  BY DEF Grant, AlreadyPaid, HasRoom, FitsBudget
<1>2. points \in Nat /\ points <= HoldPoints
  BY Rewards
<1>3. g \in GrantRow /\ g.day = day /\ g.user = u /\ g.points = points
  BY Rewards DEF GrantRow, Funds, GrantRows, HoldPoints
<1> HIDE DEF g
<1>4. /\ GrantRows'
      /\ Points(grants') = Points(grants) + points
      /\ Points(GrantedToday') = Points(GrantedToday) + points
  BY <1>1, <1>3, GrantAdds
<1>5. Total = free + Points(grants) + HoldPoints * Cardinality(HeldSessions)
  BY DEF Funds, PointsConserved, HeldSessions
<1>6. CASE DrawsHold(s, held)
  <2>1. /\ hold' = [hold EXCEPT ![s] = Consumed] /\ free' = free + HoldPoints - points
        /\ held /\ s \in HeldSessions /\ s \in LiveHolds({})
    BY <1>1, <1>6 DEF DrawFor, DrawsHold, HeldSessions, LiveHolds
  <2>2. HoldRows' /\ HeldSessions' = HeldSessions \ {s} /\ LiveHolds({})' = LiveHolds({s})
    BY <2>1 DEF Funds, HoldRows, HeldSessions, LiveHolds, Consumed
  <2>3. free' \in Nat
    BY <1>2, <2>1, Rewards DEF Funds
  <2>4. PointsConserved'
    <3>1. /\ Cardinality(HeldSessions') \in Nat
          /\ Cardinality(HeldSessions) = Cardinality(HeldSessions') + 1
      BY <2>1, <2>2, Sums, CardinalityWithout
    <3>2. /\ HoldPoints * Cardinality(HeldSessions) = HoldPoints * Cardinality(HeldSessions') + HoldPoints
          /\ HoldPoints * Cardinality(HeldSessions') \in Nat
      BY <3>1, Rewards, Products
    <3>3. Total = free' + Points(grants') + HoldPoints * Cardinality(HeldSessions')
      BY <1>2, <1>4, <1>5, <2>1, <3>2, Sums, Rewards DEF Funds
    <3> QED BY <3>3 DEF PointsConserved, HeldSessions
  <2>5. AdmittedViewersFit'
    <3>1. Held({})' = Held({s}) /\ own = {s} /\ Held({s}) \in Nat
      BY <2>1, <2>2, OwnHoldMakesRoom DEF Held
    <3> HIDE DEF own
    <3>2. /\ Points(grants') + Held({})' <= Budget
          /\ Points(GrantedToday') + Held({})' <= DailyCap
      BY <1>1, <1>2, <1>4, <3>1, Sums, Rewards
    <3> QED BY <3>2 DEF AdmittedViewersFit
  <2> QED BY <1>4, <2>2, <2>3, <2>4, <2>5 DEF Funds
<1>7. CASE ~ DrawsHold(s, held)
  <2>1. hold' = hold /\ free' = free - points /\ points <= free
    BY <1>1, <1>7 DEF DrawFor, CanDraw
  <2>2. HoldRows' /\ HeldSessions' = HeldSessions /\ Held({})' = Held({}) /\ free' \in Nat
    BY <1>2, <2>1 DEF Funds, HoldRows, HeldSessions, LiveHolds, Held
  <2>3. PointsConserved'
    <3>1. HoldPoints * Cardinality(HeldSessions) \in Nat
      BY Sums, Rewards, Products
    <3>2. Total = free' + Points(grants') + HoldPoints * Cardinality(HeldSessions')
      BY <1>2, <1>4, <1>5, <2>1, <2>2, <3>1, Sums, Rewards DEF Funds
    <3> QED BY <3>2 DEF PointsConserved, HeldSessions
  <2>4. AdmittedViewersFit'
    <3>1. Held(own) = Held({})
      <4>1. CASE held
        <5>1. s \notin LiveHolds({})
          BY <1>7, <4>1 DEF DrawsHold, LiveHolds
        <5> QED BY <4>1, <5>1, OwnHoldMakesRoom
      <4> QED BY <4>1
    <3> HIDE DEF own
    <3>2. /\ Points(grants') + Held({})' <= Budget
          /\ Points(GrantedToday') + Held({})' <= DailyCap
      BY <1>1, <1>2, <1>4, <2>2, <3>1, Sums, Rewards
    <3> QED BY <3>2 DEF AdmittedViewersFit
  <2> QED BY <1>4, <2>2, <2>3, <2>4 DEF Funds
<1> QED BY <1>6, <1>7

LEMMA StrangerPaidKeeps ==
  ASSUME Funds, NEW u \in Strangers, StrangerPaid(u)
  PROVE  Funds'
<1> DEFINE g == [user |-> u, session |-> 0, points |-> Base, day |-> day]
<1>1. /\ grants' = grants \cup {g} /\ day' = day /\ hold' = hold
      /\ \A h \in grants : h.user # u
      /\ HoldPoints + Points(grants) + Held({}) <= Budget
      /\ HoldPoints + Points(GrantedToday) + Held({}) <= DailyCap
      /\ HoldPoints <= free /\ free' = free - Base
  BY DEF StrangerPaid, AlreadyPaid, FitsBudget
<1>2. Base \in Nat /\ Base <= HoldPoints
  BY Rewards
<1>3. g \in GrantRow /\ g.day = day /\ g.user = u /\ g.points = Base
  BY DEF GrantRow, Funds, GrantRows
<1> HIDE DEF g
<1>4. /\ GrantRows'
      /\ Points(grants') = Points(grants) + Base
      /\ Points(GrantedToday') = Points(GrantedToday) + Base
  BY <1>1, <1>3, GrantAdds
<1>5. HoldRows' /\ HeldSessions' = HeldSessions /\ Held({})' = Held({})
  BY <1>1 DEF Funds, HoldRows, HeldSessions, LiveHolds, Held
<1>6. free' \in Nat
  BY <1>1, <1>2, Rewards DEF Funds
<1>7. PointsConserved'
  <2>1. Total = free + Points(grants) + HoldPoints * Cardinality(HeldSessions)
    BY DEF Funds, PointsConserved, HeldSessions
  <2>2. HoldPoints * Cardinality(HeldSessions) \in Nat
    BY Sums, Rewards, Products
  <2>3. Total = free' + Points(grants') + HoldPoints * Cardinality(HeldSessions')
    BY <1>1, <1>2, <1>4, <1>5, <2>1, <2>2, Sums, Rewards DEF Funds
  <2> QED BY <2>3 DEF PointsConserved, HeldSessions
<1>8. AdmittedViewersFit'
  <2>1. /\ Points(grants') + Held({})' <= Budget
        /\ Points(GrantedToday') + Held({})' <= DailyCap
    BY <1>1, <1>2, <1>4, <1>5, Sums, Rewards
  <2> QED BY <2>1 DEF AdmittedViewersFit
<1> QED BY <1>4, <1>5, <1>6, <1>7, <1>8 DEF Funds

(* Fewer live holds only make more room. *)
LEMMA FewerHoldsFit ==
  ASSUME Funds, HoldRows', UNCHANGED <<grants, day>>, LiveHolds({})' \subseteq LiveHolds({})
  PROVE  AdmittedViewersFit' /\ GrantRows'
<1>1. /\ Cardinality(LiveHolds({})') <= Cardinality(LiveHolds({}))
      /\ Cardinality(LiveHolds({})') \in Nat
  BY Sums, FS_Subset, FS_CardinalityType
<1>2. Held({})' <= Held({}) /\ Held({})' \in Nat
  <2>1. PICK c, d \in Nat : c = Cardinality(LiveHolds({})') /\ d = Cardinality(LiveHolds({}))
    BY <1>1, Sums
  <2>2. HoldPoints * c <= HoldPoints * d /\ HoldPoints * c \in Nat
    BY <1>1, <2>1, Rewards, Products, ProductsGrow
  <2> QED BY <2>1, <2>2 DEF Held
<1>3. GrantedToday' = GrantedToday
  BY DEF GrantedToday
<1>4. Points(grants) + Held({}) <= Budget /\ Points(GrantedToday) + Held({}) <= DailyCap
  BY DEF Funds, AdmittedViewersFit
<1>5. Points(grants) + Held({})' <= Budget /\ Points(GrantedToday) + Held({})' <= DailyCap
  BY <1>2, <1>4, Sums, Rewards
<1>6. GrantRows'
  BY DEF Funds, GrantRows
<1> QED BY <1>3, <1>5, <1>6 DEF AdmittedViewersFit

LEMMA ReleaseHoldKeeps ==
  ASSUME Funds, NEW s \in Sessions, ReleaseHold(s)
  PROVE  Funds'
<1>1. /\ s \in HeldSessions /\ hold' = [hold EXCEPT ![s] = Released]
      /\ free' = free + HoldPoints /\ grants' = grants /\ day' = day
  BY DEF ReleaseHold, HeldSessions
<1>2. HoldRows' /\ HeldSessions' = HeldSessions \ {s} /\ LiveHolds({})' \subseteq LiveHolds({})
  BY <1>1 DEF Funds, HoldRows, HeldSessions, LiveHolds, Released
<1>3. AdmittedViewersFit' /\ GrantRows'
  BY <1>1, <1>2, FewerHoldsFit
<1>4. PointsConserved'
  <2>1. Total = free + Points(grants) + HoldPoints * Cardinality(HeldSessions)
    BY DEF Funds, PointsConserved, HeldSessions
  <2>2. /\ Cardinality(HeldSessions') \in Nat
        /\ Cardinality(HeldSessions) = Cardinality(HeldSessions') + 1
    BY <1>1, <1>2, Sums, CardinalityWithout
  <2>3. /\ HoldPoints * Cardinality(HeldSessions) = HoldPoints * Cardinality(HeldSessions') + HoldPoints
        /\ HoldPoints * Cardinality(HeldSessions') \in Nat
    BY <2>2, Rewards, Products
  <2>4. Total = free' + Points(grants') + HoldPoints * Cardinality(HeldSessions')
    BY <1>1, <2>1, <2>3, Sums, Rewards DEF Funds
  <2> QED BY <2>4 DEF PointsConserved, HeldSessions
<1>5. free' \in Nat
  BY <1>1, Rewards DEF Funds
<1> QED BY <1>2, <1>3, <1>4, <1>5 DEF Funds

LEMMA HoldExpiresKeeps ==
  ASSUME Funds, NEW s \in Sessions, HoldExpires(s)
  PROVE  Funds'
<1>1. hold' = [hold EXCEPT ![s].live = FALSE] /\ UNCHANGED <<free, grants, day>>
  BY DEF HoldExpires
<1>2. HoldRows' /\ HeldSessions' = HeldSessions /\ LiveHolds({})' \subseteq LiveHolds({})
  BY <1>1 DEF Funds, HoldRows, HeldSessions, LiveHolds
<1>3. AdmittedViewersFit' /\ GrantRows'
  BY <1>1, <1>2, FewerHoldsFit
<1>4. PointsConserved'
  BY <1>1, <1>2 DEF Funds, PointsConserved, HeldSessions
<1> QED BY <1>1, <1>2, <1>3, <1>4 DEF Funds

LEMMA ReleaseExpiredKeeps ==
  ASSUME Funds, ReleaseExpired
  PROVE  Funds'
<1>1. /\ hold' = [s \in Sessions |-> IF s \in Expired THEN Released ELSE hold[s]]
      /\ free' = free + HoldPoints * Cardinality(Expired) /\ UNCHANGED <<grants, day>>
  BY DEF ReleaseExpired
<1>2. /\ HoldRows' /\ HeldSessions' = HeldSessions \ Expired /\ Expired \subseteq HeldSessions
      /\ LiveHolds({})' \subseteq LiveHolds({})
  BY <1>1 DEF Funds, HoldRows, HeldSessions, LiveHolds, Released, Expired
<1>3. AdmittedViewersFit' /\ GrantRows'
  BY <1>1, <1>2, FewerHoldsFit
<1>4. PICK c, d, e \in Nat :
        /\ c = Cardinality(HeldSessions') /\ d = Cardinality(Expired)
        /\ e = Cardinality(HeldSessions) /\ e = c + d
  <2>1. IsFiniteSet(HeldSessions) /\ IsFiniteSet(Expired) /\ IsFiniteSet(HeldSessions \ Expired)
    BY <1>2, Sums, FS_Subset
  <2>2. Cardinality(HeldSessions \ Expired)
          = Cardinality(HeldSessions) - Cardinality(HeldSessions \cap Expired)
    BY <2>1, FS_Difference
  <2>3. HeldSessions \cap Expired = Expired
    BY <1>2
  <2>4. /\ Cardinality(HeldSessions) \in Nat /\ Cardinality(Expired) \in Nat
        /\ Cardinality(HeldSessions \ Expired) \in Nat
    BY <2>1, FS_CardinalityType
  <2>5. Cardinality(HeldSessions) = Cardinality(HeldSessions \ Expired) + Cardinality(Expired)
    <3>1. \A a, b, x \in Nat : x = a - b => a = x + b
      OBVIOUS
    <3>2. Cardinality(HeldSessions \ Expired) = Cardinality(HeldSessions) - Cardinality(Expired)
      BY ONLY <2>2, <2>3
    <3> QED BY ONLY <2>4, <3>1, <3>2
  <2>6. HeldSessions' = HeldSessions \ Expired
    BY <1>2
  <2> QED BY ONLY <2>4, <2>5, <2>6
<1>5. /\ HoldPoints * e = HoldPoints * c + HoldPoints * d
      /\ HoldPoints * c \in Nat /\ HoldPoints * d \in Nat
  BY <1>4, Rewards
<1>6. free' \in Nat
  BY <1>1, <1>4, <1>5 DEF Funds
<1>7. PointsConserved'
  <2>1. Total = free + Points(grants) + HoldPoints * e
    BY <1>4 DEF Funds, PointsConserved, HeldSessions
  <2>2. Total = free' + Points(grants) + HoldPoints * c
    BY <1>1, <1>4, <1>5, <2>1, Sums, Rewards DEF Funds
  <2> QED BY <1>1, <1>4, <2>2 DEF PointsConserved, HeldSessions
<1> QED BY <1>2, <1>3, <1>6, <1>7 DEF Funds

(* At midnight the day's cap counts nothing but the holds, which fitted under  *)
(* it with the grants of the day before.                                       *)
LEMMA NextDayKeeps ==
  ASSUME Funds, NextDay
  PROVE  Funds'
<1>1. day' = day + 1 /\ day' \in 0..MaxDay /\ UNCHANGED <<free, hold, grants>>
  BY Rewards DEF NextDay, Funds, GrantRows
<1>2. GrantRows' /\ GrantedToday' = {}
  <2>1. \A g \in grants : g.day \in Nat /\ g.day <= day /\ day \in Nat
    BY Rewards DEF Funds, GrantRows, GrantRow
  <2> QED BY <1>1, <2>1 DEF Funds, GrantRows, GrantedToday
<1>3. HoldRows' /\ HeldSessions' = HeldSessions /\ Held({})' = Held({})
  BY <1>1 DEF Funds, HoldRows, HeldSessions, LiveHolds, Held
<1>4. PointsConserved'
  BY <1>1, <1>3 DEF Funds, PointsConserved, HeldSessions
<1>5. AdmittedViewersFit'
  <2>1. Points(GrantedToday) + Held({}) <= DailyCap /\ Points(grants) + Held({}) <= Budget
    BY DEF Funds, AdmittedViewersFit
  <2>2. 0 + Held({}) <= DailyCap
    BY <2>1, Sums, Rewards
  <2>3. Points(GrantedToday') = 0
    BY <1>2, PointsOfNone
  <2> QED BY <1>1, <1>3, <2>1, <2>2, <2>3 DEF AdmittedViewersFit
<1> QED BY <1>1, <1>2, <1>3, <1>4, <1>5 DEF Funds

LEMMA FundsStay == ASSUME Funds, UNCHANGED fundingVars PROVE Funds'
<1>1. HoldRows' /\ GrantRows'
  BY DEF Funds, HoldRows, GrantRows
<1>2. PointsConserved'
  BY DEF Funds, PointsConserved
<1>3. AdmittedViewersFit'
  BY DEF Funds, AdmittedViewersFit, GrantedToday, Held, LiveHolds
<1> QED BY <1>1, <1>2, <1>3 DEF Funds

LEMMA InitFunds == ASSUME Init PROVE Funds
<1>1. /\ free = Total /\ hold = [s \in Sessions |-> NoHold] /\ grants = {} /\ day = 0
  BY DEF Init, FundingInit
<1>2. HoldRows /\ HeldSessions = {} /\ LiveHolds({}) = {} /\ GrantedToday = {}
  BY <1>1 DEF HoldRows, NoHold, HeldSessions, LiveHolds, GrantedToday
<1>3. GrantRows
  BY <1>1, Rewards, FS_EmptySet DEF GrantRows
<1>4. Cardinality({}) = 0 /\ HoldPoints * 0 = 0
  BY Rewards, FS_EmptySet
<1>5. PointsConserved
  <2>1. Total = free + Points(grants) + HoldPoints * Cardinality(HeldSessions)
    BY <1>1, <1>2, <1>4, PointsOfNone, Rewards
  <2> QED BY <2>1 DEF PointsConserved, HeldSessions
<1>6. AdmittedViewersFit
  <2>1. Held({}) = 0
    BY <1>2, <1>4 DEF Held
  <2> QED BY <1>1, <1>2, <2>1, PointsOfNone, Rewards DEF AdmittedViewersFit
<1> QED BY <1>1, <1>2, <1>3, <1>5, <1>6, Rewards DEF Funds

-------------------------------------------------------------------------------
(* Who may place a hold, and what a request knows of its own. *)

(* A session has no hold before the request that inserted it places one.       *)
Opening(r) == request[r].pc \in {"decide", "hold"}

Openers ==
    /\ \A s \in Sessions : ~Exists(s) => hold[s].state = "none"
    /\ \A r \in Requests : Opening(r) =>
         /\ hold[Sid(r)].state = "none"
         /\ \A p \in Requests \ {r} : Opening(p) => Sid(p) # Sid(r)

(* A session told that it earns has a hold, and so does the copy of a request  *)
(* that asks for its grant, whatever finalize writes after the copy was read.  *)
Told ==
    /\ \A s \in Sessions : Exists(s) /\ session[s].reason = Earning => session[s].hold
    /\ \A r \in Requests : request[r].pc \in {"mark", "pay"} =>
         /\ request[r].reason = Earning => request[r].hold
         /\ request[r].pc = "pay" => request[r].reason = Earning

FInv == Funds /\ Openers /\ Told

(* No step but PlaceHold gives a session a hold.                               *)
NoneStays == \A s \in Sessions : hold[s].state = "none" => hold'[s].state = "none"

(* No step but finalize changes what a session was told.                       *)
ToldRows == \A s \in Sessions : session'[s] # NoSession /\ session'[s].reason = Earning
                                     => session'[s].hold

LEMMA OpenersMove ==
  ASSUME Processes, Openers, Remain, NoneStays, NEW r \in Requests, NEW q, Go(r, q),
         q.pc \in {"decide", "hold"} => Opening(r) /\ q.sid = Sid(r)
  PROVE  Openers'
<1>1. \A p \in Requests : Opening(p) => Sid(p) \in Sessions
  BY DEF Processes, Opening, Sid, Locals
<1>2. \A p \in Requests : Opening(p)' => Opening(p) /\ Sid(p)' = Sid(p)
  BY DEF Go, Processes, Opening, Sid
<1>3. \A s \in Sessions : ~Exists(s)' => ~Exists(s)
  BY DEF Remain, Exists
<1> QED BY <1>1, <1>2, <1>3 DEF Openers, NoneStays

LEMMA OpenersStay ==
  ASSUME Processes, Openers, Remain, NoneStays, UNCHANGED request
  PROVE  Openers'
<1>1. \A p \in Requests : Opening(p) => Sid(p) \in Sessions
  BY DEF Processes, Opening, Sid, Locals
<1>2. \A p \in Requests : (Opening(p)' <=> Opening(p)) /\ Sid(p)' = Sid(p)
  BY DEF Opening, Sid
<1>3. \A s \in Sessions : ~Exists(s)' => ~Exists(s)
  BY DEF Remain, Exists
<1> QED BY <1>1, <1>2, <1>3 DEF Openers, NoneStays

LEMMA ToldMoves ==
  ASSUME Processes, Told, ToldRows, NEW r \in Requests, NEW q, Go(r, q),
         q.pc \in {"mark", "pay"} =>
             /\ q.reason = Earning => q.hold
             /\ q.pc = "pay" => q.reason = Earning
  PROVE  Told'
<1>1. \A p \in Requests : request'[p] = IF p = r THEN q ELSE request[p]
  BY DEF Go, Processes
<1> QED BY <1>1 DEF Told, ToldRows, Exists

LEMMA ToldStays == ASSUME Told, ToldRows, UNCHANGED request PROVE Told'
BY DEF Told, ToldRows, Exists

(* Three shapes of step: a request moves on and nothing is written, a row is   *)
(* written with it, and neither.                                               *)
LEMMA FundsMove ==
  ASSUME IInv, FInv, UNCHANGED <<fundingVars, session>>, NEW r \in Requests, NEW q, Go(r, q),
         q.pc \in {"decide", "hold"} => Opening(r) /\ q.sid = Sid(r),
         q.pc \in {"mark", "pay"} =>
             /\ q.reason = Earning => q.hold
             /\ q.pc = "pay" => q.reason = Earning
  PROVE  FInv'
<1>1. NoneStays /\ Remain /\ ToldRows /\ Funds'
  BY SessionsStay, FundsStay DEF NoneStays, ToldRows, FInv, Told, Exists, IInv
<1> QED BY <1>1, OpenersMove, ToldMoves DEF FInv, IInv

LEMMA FundsWrite ==
  ASSUME IInv, FInv, UNCHANGED fundingVars,
         NEW s \in Sessions, Exists(s), NEW x \in Row, session' = [session EXCEPT ![s] = x],
         x.reason = Earning => x.hold
  PROVE  NoneStays /\ Remain /\ ToldRows /\ Funds'
<1>1. NoneStays /\ Funds'
  BY FundsStay DEF NoneStays, FInv
<1>2. Remain
  BY OneRowChanges DEF IInv
<1>3. ToldRows
  BY DEF ToldRows, FInv, Told, Exists, IInv, Rows
<1> QED BY <1>1, <1>2, <1>3

LEMMA FundsWriteAndMove ==
  ASSUME IInv, FInv, UNCHANGED fundingVars,
         NEW s \in Sessions, Exists(s), NEW x \in Row, session' = [session EXCEPT ![s] = x],
         x.reason = Earning => x.hold,
         NEW r \in Requests, NEW q, Go(r, q),
         q.pc \notin {"decide", "hold"},
         q.pc \in {"mark", "pay"} =>
             /\ q.reason = Earning => q.hold
             /\ q.pc = "pay" => q.reason = Earning
  PROVE  FInv'
<1>1. NoneStays /\ Remain /\ ToldRows /\ Funds'
  BY FundsWrite
<1> QED BY <1>1, OpenersMove, ToldMoves DEF FInv, IInv

LEMMA RowsTold ==
  ASSUME FInv, NEW s \in Sessions, Exists(s), session[s] \in Row
  PROVE  session[s].reason = Earning => session[s].hold
BY DEF FInv, Told

LEMMA StartFunds ==
  ASSUME IInv, FInv, NEW r \in Requests, NEW u \in Users, Start(r, u)
  PROVE  FInv'
<1> DEFINE q == [pc |-> "open", user |-> u, terms |-> campaign.terms,
                 mayEarn |-> mayEarn[u], again |-> FALSE]
<1>1. Go(r, q) /\ q.pc = "open" /\ UNCHANGED <<fundingVars, session>>
  BY DEF Start
<1> HIDE DEF q
<1> QED BY <1>1, FundsMove

(* A session that is inserted was nobody's before, so no request is opening it. *)
LEMMA InsertFunds ==
  ASSUME IInv, FInv, UNCHANGED fundingVars, NEW u \in Users, NEW v \in 1..MaxTerms,
         NEW s \in Unused, Insert(s, u, v), NEW r \in Requests, At(r, "open"),
         NEW q, Go(r, q), q.pc \in {"decide", "finalize"}, q.sid = s
  PROVE  FInv'
<1>1. s \in Sessions /\ ~Exists(s) /\ hold[s].state = "none"
  BY DEF Unused, FInv, Openers
<1>2. Remain /\ Funds' /\ NoneStays
  BY InsertKeeps, FundsStay DEF IInv, FInv, NoneStays
<1>3. ToldRows
  <2>1. Fresh(u, v).reason # Earning
    BY DEF Fresh, Pending, Earning
  <2>2. \A t \in Stale(u, v) : /\ session[t] \in Row /\ Exists(t)
                             /\ [session[t] EXCEPT !.state = "superseded"].reason = session[t].reason
                             /\ [session[t] EXCEPT !.state = "superseded"].hold = session[t].hold
    BY DEF Stale, Exists, IInv, Rows, Row
  <2>3. \A t \in Sessions :
         session'[t] = IF t = s THEN Fresh(u, v)
                       ELSE IF t \in Stale(u, v) THEN [session[t] EXCEPT !.state = "superseded"]
                       ELSE session[t]
    BY <1>1 DEF Insert
  <2> QED BY <2>1, <2>2, <2>3 DEF ToldRows, FInv, Told, Exists
<1>4. Told'
  BY <1>3, ToldMoves DEF IInv, FInv
<1>5. Openers'
  <2>1. \A p \in Requests : request'[p] = IF p = r THEN q ELSE request[p]
    BY DEF Go, IInv, Processes
  <2>2. \A p \in Requests : Opening(p) => Sid(p) \in Sessions /\ Exists(Sid(p))
    BY DEF IInv, Processes, Sited, Opening, Sid, Locals, At
  <2>3. ASSUME NEW p \in Requests, p # r
        PROVE  /\ (Opening(p)' <=> Opening(p)) /\ Sid(p)' = Sid(p)
               /\ Opening(p) => Sid(p) # s
    BY <1>1, <2>1, <2>2, <2>3 DEF Opening, Sid
  <2>4. Sid(r)' = s
    BY <2>1 DEF Sid
  <2>5. ASSUME NEW p \in Requests, Opening(p)'
        PROVE  /\ hold'[Sid(p)'].state = "none"
               /\ \A o \in Requests \ {p} : Opening(o)' => Sid(o)' # Sid(p)'
    <3> USE DEF Opening, Sid
    <3>1. CASE p = r
      BY <1>1, <1>2, <2>3, <2>4, <3>1 DEF NoneStays
    <3>2. CASE p # r
      <4>1. Opening(p) /\ Sid(p)' = Sid(p) /\ Sid(p) \in Sessions /\ Sid(p) # s
        BY <2>2, <2>3, <2>5, <3>2
      <4>2. hold'[Sid(p)].state = "none"
        BY <1>2, <4>1 DEF FInv, Openers, NoneStays
      <4>3. ASSUME NEW o \in Requests \ {p}, Opening(o)' PROVE Sid(o)' # Sid(p)
        <5>1. CASE o = r
          BY <2>4, <4>1, <5>1
        <5>2. CASE o # r
          BY <2>3, <4>1, <4>3, <5>2 DEF FInv, Openers
        <5> QED BY <5>1, <5>2
      <4> QED BY <4>1, <4>2, <4>3
    <3> QED BY <3>1, <3>2
  <2>6. \A t \in Sessions : ~Exists(t)' => hold'[t].state = "none"
    BY <1>2 DEF FInv, Openers, Remain, NoneStays, Exists
  <2> QED BY <2>5, <2>6 DEF Openers
<1> QED BY <1>2, <1>4, <1>5 DEF FInv

LEMMA OpenSessionFunds ==
  ASSUME IInv, FInv, NEW r \in Requests, OpenSession(r)
  PROVE  FInv'
<1> DEFINE q == request[r]
<1>1. q.pc = "open" /\ q.user \in Users /\ q.terms \in 1..MaxTerms /\ At(r, "open")
  BY DEF OpenSession, At, IInv, Processes, Locals
<1>2. UNCHANGED fundingVars
  BY DEF OpenSession
<1>3. ASSUME NEW s \in OpenFor(q.user, q.terms), Reactivate(s),
             Go(r, IF q.mayEarn /\ ~q.again /\ session[s].reason = NoIdentity
                   THEN [pc |-> "supersede", sid |-> s, user |-> q.user, terms |-> q.terms]
                   ELSE Idle)
      PROVE  FInv'
  <2> DEFINE x == [session[s] EXCEPT !.state = "active"]
             next == IF q.mayEarn /\ ~q.again /\ session[s].reason = NoIdentity
                     THEN [pc |-> "supersede", sid |-> s, user |-> q.user, terms |-> q.terms]
                     ELSE Idle
  <2>1. s \in Sessions /\ Exists(s) /\ session[s] \in Row
    BY <1>3 DEF OpenFor, IInv, Rows, Exists
  <2>2. x \in Row /\ x.reason = session[s].reason /\ x.hold = session[s].hold
    BY <2>1 DEF Row
  <2>3. session' = [session EXCEPT ![s] = x]
    BY <1>3 DEF Reactivate
  <2>4. x.reason = Earning => x.hold
    BY <2>1, <2>2, RowsTold
  <2>5. next.pc \in {"supersede", "idle"} /\ Go(r, next)
    BY <1>3 DEF Idle
  <2> HIDE DEF x, next
  <2> QED BY <1>2, <2>1, <2>2, <2>3, <2>4, <2>5, FundsWriteAndMove
<1>4. ASSUME NEW s \in Unused, Insert(s, q.user, q.terms),
             Go(r, IF q.mayEarn THEN [pc |-> "decide", sid |-> s, user |-> q.user]
                   ELSE [pc |-> "finalize", sid |-> s, reason |-> NoIdentity])
      PROVE  FInv'
  <2> DEFINE next == IF q.mayEarn THEN [pc |-> "decide", sid |-> s, user |-> q.user]
                     ELSE [pc |-> "finalize", sid |-> s, reason |-> NoIdentity]
  <2>1. next.pc \in {"decide", "finalize"} /\ next.sid = s /\ Go(r, next)
    BY <1>4
  <2> HIDE DEF next
  <2> QED BY <1>1, <1>2, <1>4, <2>1, InsertFunds
<1>5. CASE \E s \in OpenFor(q.user, q.terms) :
             /\ Reactivate(s)
             /\ Go(r, IF q.mayEarn /\ ~q.again /\ session[s].reason = NoIdentity
                      THEN [pc |-> "supersede", sid |-> s, user |-> q.user, terms |-> q.terms]
                      ELSE Idle)
  BY <1>3, <1>5
<1>6. CASE /\ Unused # {}
           /\ LET s == CHOOSE t \in Unused : TRUE IN
                /\ Insert(s, q.user, q.terms)
                /\ Go(r, IF q.mayEarn THEN [pc |-> "decide", sid |-> s, user |-> q.user]
                         ELSE [pc |-> "finalize", sid |-> s, reason |-> NoIdentity])
  <2>1. (CHOOSE t \in Unused : TRUE) \in Unused
    BY <1>6
  <2> QED BY <1>4, <1>6, <2>1
<1> QED BY <1>5, <1>6 DEF OpenSession

LEMMA SupersedeFunds ==
  ASSUME IInv, FInv, NEW r \in Requests, Supersede(r)
  PROVE  FInv'
<1> DEFINE q == request[r]
           x == [session[Sid(r)] EXCEPT !.state = "superseded"]
           next == [pc |-> "open", user |-> q.user, terms |-> q.terms,
                    mayEarn |-> TRUE, again |-> TRUE]
<1>1. ~At(r, "idle") /\ ~At(r, "open") /\ UNCHANGED fundingVars
  BY DEF Supersede, At
<1>2. Sid(r) \in Sessions /\ Exists(Sid(r)) /\ session[Sid(r)] \in Row
  BY <1>1, Working
<1>3. CASE session' = session /\ Go(r, Idle)
  BY <1>1, <1>3, FundsMove DEF Idle
<1>4. CASE session' = [session EXCEPT ![q.sid].state = "superseded"] /\ Go(r, next)
  <2>1. x \in Row /\ x.reason = session[Sid(r)].reason /\ x.hold = session[Sid(r)].hold
    BY <1>2 DEF Row
  <2>2. session' = [session EXCEPT ![Sid(r)] = x]
    BY <1>2, <1>4 DEF Sid
  <2>3. x.reason = Earning => x.hold
    BY <1>2, <2>1, RowsTold
  <2>4. next.pc = "open"
    OBVIOUS
  <2> HIDE DEF x, next
  <2> QED BY <1>1, <1>2, <1>4, <2>1, <2>2, <2>3, <2>4, FundsWriteAndMove
<1> QED BY <1>3, <1>4 DEF Supersede

LEMMA DecideEarningFunds ==
  ASSUME IInv, FInv, NEW r \in Requests, DecideEarning(r)
  PROVE  FInv'
<1>1. UNCHANGED <<fundingVars, session>> /\ Opening(r)
  BY DEF DecideEarning, At, Opening
<1>2. CASE Go(r, [pc |-> "finalize", sid |-> Sid(r), reason |-> AlreadyEarned])
  BY <1>1, <1>2, FundsMove
<1>3. CASE Go(r, [pc |-> "hold", sid |-> Sid(r)])
  BY <1>1, <1>3, FundsMove
<1> QED BY <1>2, <1>3 DEF DecideEarning

(* The ledger takes the hold once per session, because one request opens it.   *)
LEMMA HoldFunds ==
  ASSUME IInv, FInv, NEW r \in Requests, HoldPlaced(r) \/ HoldRefused(r)
  PROVE  FInv'
<1>1. ~At(r, "idle") /\ ~At(r, "open") /\ Opening(r) /\ UNCHANGED session
  BY DEF HoldPlaced, HoldRefused, At, Opening
<1>2. Sid(r) \in Sessions /\ Exists(Sid(r)) /\ hold[Sid(r)].state = "none"
  BY <1>1, Working DEF FInv, Openers
<1>3. PICK why \in {Earning, Refused} : Go(r, [pc |-> "finalize", sid |-> Sid(r), reason |-> why])
  BY DEF HoldPlaced, HoldRefused
<1> DEFINE next == [pc |-> "finalize", sid |-> Sid(r), reason |-> why]
<1>4. next.pc = "finalize" /\ Go(r, next)
  BY <1>3
<1> HIDE DEF next
<1>5. CASE UNCHANGED fundingVars
  BY <1>1, <1>4, <1>5, FundsMove
<1>6. CASE PlaceHold(Sid(r))
  <2>1. Funds'
    BY <1>2, <1>6, PlaceHoldKeeps DEF FInv
  <2>2. Told'
    BY <1>1, <1>4, ToldMoves DEF FInv, IInv, ToldRows, Told, Exists
  <2>3. \A s \in Sessions \ {Sid(r)} : hold'[s] = hold[s]
    BY <1>6 DEF PlaceHold, FInv, Funds, HoldRows
  <2>4. \A p \in Requests : Opening(p) => Sid(p) \in Sessions
    BY DEF IInv, Processes, Opening, Sid, Locals
  <2>5. \A p \in Requests : Opening(p)' => Opening(p) /\ Sid(p)' = Sid(p) /\ p # r
    BY <1>4 DEF Go, IInv, Processes, Opening, Sid
  <2>6. ASSUME NEW p \in Requests, Opening(p)'
        PROVE  /\ hold'[Sid(p)'].state = "none"
               /\ \A o \in Requests \ {p} : Opening(o)' => Sid(o)' # Sid(p)'
    <3>1. Opening(p) /\ Sid(p)' = Sid(p) /\ p # r /\ Sid(p) \in Sessions
      BY <2>4, <2>5, <2>6
    <3>2. Sid(p) # Sid(r) /\ hold[Sid(p)].state = "none"
      BY <1>1, <3>1 DEF FInv, Openers
    <3>3. \A o \in Requests \ {p} : Opening(o)' => Sid(o)' # Sid(p)
      BY <2>5, <3>1 DEF FInv, Openers
    <3> QED BY <2>3, <3>1, <3>2, <3>3
  <2>7. \A s \in Sessions : ~Exists(s)' => hold'[s].state = "none"
    BY <1>1, <1>2, <2>3 DEF FInv, Openers, Exists
  <2>8. Openers'
    BY <2>6, <2>7 DEF Openers
  <2> QED BY <2>1, <2>2, <2>8 DEF FInv
<1> QED BY <1>5, <1>6 DEF HoldPlaced, HoldRefused

LEMMA FinalizeFunds ==
  ASSUME IInv, FInv, NEW r \in Requests, Finalize(r)
  PROVE  FInv'
<1>1. ~At(r, "idle") /\ ~At(r, "open") /\ Go(r, Idle) /\ UNCHANGED fundingVars
  BY DEF Finalize, At
<1>2. Sid(r) \in Sessions /\ Exists(Sid(r)) /\ session[Sid(r)] \in Row
  BY <1>1, Working
<1>3. request[r].reason \in Reasons
  BY DEF Finalize, IInv, Processes, Locals, At
<1> DEFINE x == [session[Sid(r)] EXCEPT !.reason = request[r].reason,
                                        !.hold = (request[r].reason = Earning)]
<1>4. x \in Row /\ (x.reason = Earning => x.hold)
  BY <1>2, <1>3 DEF Row
<1>5. session' = [session EXCEPT ![Sid(r)] = x]
  BY <1>2 DEF Finalize, IInv, Rows
<1> HIDE DEF x
<1>6. Idle.pc = "idle"
  BY DEF Idle
<1> QED BY <1>1, <1>2, <1>4, <1>5, <1>6, FundsWriteAndMove

LEMMA LoadFunds ==
  ASSUME IInv, FInv, NEW r \in Requests, NEW s \in Sessions, Load(r, s)
  PROVE  FInv'
<1> DEFINE next == [pc |-> "mark", sid |-> s, reason |-> session[s].reason,
                    hold |-> session[s].hold]
<1>1. Exists(s) /\ session[s] \in Row /\ Go(r, next) /\ UNCHANGED <<fundingVars, session>>
  BY DEF Load, Exists, IInv, Rows
<1>2. next.pc = "mark" /\ (next.reason = Earning => next.hold)
  BY <1>1, RowsTold
<1> HIDE DEF next
<1> QED BY <1>1, <1>2, FundsMove

LEMMA MarkCompletedFunds ==
  ASSUME IInv, FInv, NEW r \in Requests, MarkCompleted(r)
  PROVE  FInv'
<1> DEFINE next == IF request[r].reason = Earning THEN [request[r] EXCEPT !.pc = "pay"] ELSE Idle
           x == [session[Sid(r)] EXCEPT !.state = "completed"]
<1>1. ~At(r, "idle") /\ ~At(r, "open") /\ UNCHANGED fundingVars
  BY DEF MarkCompleted, At
<1>2. Sid(r) \in Sessions /\ Exists(Sid(r)) /\ session[Sid(r)] \in Row
  BY <1>1, Working
<1>3. /\ next.pc \in {"pay", "idle"}
      /\ next.pc = "pay" => next.reason = Earning /\ next.hold
  <2>1. /\ request[r] \in [pc : {"mark", "pay"}, sid : Sessions, reason : Reasons, hold : BOOLEAN]
        /\ request[r].pc = "mark"
    BY DEF MarkCompleted, At, IInv, Processes, Locals
  <2>2. request[r].reason = Earning => request[r].hold
    BY <2>1 DEF FInv, Told
  <2> QED BY <2>1, <2>2 DEF Idle
<1>4. CASE UNCHANGED session /\ Go(r, Idle)
  BY <1>1, <1>4, FundsMove DEF Idle
<1>5. CASE session' = [session EXCEPT ![Sid(r)].state = "completed"] /\ Go(r, next)
  <2>1. x \in Row /\ x.reason = session[Sid(r)].reason /\ x.hold = session[Sid(r)].hold
    BY <1>2 DEF Row
  <2>2. session' = [session EXCEPT ![Sid(r)] = x]
    BY <1>2, <1>5
  <2>3. x.reason = Earning => x.hold
    BY <1>2, <2>1, RowsTold
  <2> HIDE DEF x, next
  <2> QED BY <1>1, <1>2, <1>3, <1>5, <2>1, <2>2, <2>3, FundsWriteAndMove
<1> QED BY <1>4, <1>5 DEF MarkCompleted

LEMMA IdentityRefusedFunds ==
  ASSUME IInv, FInv, NEW r \in Requests, IdentityRefused(r)
  PROVE  FInv'
<1>1. ~At(r, "idle") /\ ~At(r, "open") /\ Go(r, Idle) /\ UNCHANGED session /\ Idle.pc = "idle"
  BY DEF IdentityRefused, At, Idle
<1>2. Sid(r) \in Sessions
  BY <1>1, Working
<1>3. CASE UNCHANGED fundingVars
  BY <1>1, <1>3, FundsMove
<1>4. CASE ReleaseHold(Sid(r))
  <2>1. Funds'
    BY <1>2, <1>4, ReleaseHoldKeeps DEF FInv
  <2>2. NoneStays
    BY <1>2, <1>4 DEF NoneStays, ReleaseHold, FInv, Funds, HoldRows
  <2>3. Remain /\ ToldRows
    BY <1>1, SessionsStay DEF ToldRows, FInv, Told, Exists, IInv
  <2> QED BY <1>1, <2>1, <2>2, <2>3, OpenersMove, ToldMoves DEF FInv, IInv
<1> QED BY <1>3, <1>4 DEF IdentityRefused

LEMMA GrantPaidFunds ==
  ASSUME IInv, FInv, NEW r \in Requests, GrantPaid(r)
  PROVE  FInv'
<1>1. ~At(r, "idle") /\ ~At(r, "open") /\ UNCHANGED session
  BY DEF GrantPaid, At
<1>2. Sid(r) \in Sessions /\ Exists(Sid(r)) /\ session[Sid(r)] \in Row
  BY <1>1, Working
<1>3. PICK next \in {Idle, [pc |-> "markGranted", sid |-> Sid(r)]} : Go(r, next)
  BY DEF GrantPaid
<1>4. next.pc \in {"idle", "markGranted"}
  BY DEF Idle
<1>5. PICK points \in PointsFor : Grant(session[Sid(r)].user, Sid(r), request[r].hold, points)
  BY DEF GrantPaid
<1>6. session[Sid(r)].user \in Users \cup Strangers /\ request[r].hold \in BOOLEAN
  BY <1>2 DEF Row, GrantPaid, At, IInv, Processes, Locals
<1>7. Funds'
  BY <1>2, <1>5, <1>6, GrantKeeps DEF FInv
<1>8. NoneStays
  BY <1>2, <1>5 DEF Grant, DrawFor, DrawsHold, NoneStays, FInv, Funds, HoldRows
<1>9. Remain /\ ToldRows
  BY <1>1, SessionsStay DEF ToldRows, FInv, Told, Exists, IInv
<1> QED BY <1>3, <1>4, <1>7, <1>8, <1>9, OpenersMove, ToldMoves DEF FInv, IInv

LEMMA GrantRefusedFunds ==
  ASSUME IInv, FInv, NEW r \in Requests, GrantRefused(r)
  PROVE  FInv'
<1>1. ~At(r, "idle") /\ ~At(r, "open") /\ Go(r, Idle) /\ UNCHANGED fundingVars /\ Idle.pc = "idle"
  BY DEF GrantRefused, At, Idle
<1>2. Sid(r) \in Sessions /\ Exists(Sid(r)) /\ session[Sid(r)] \in Row
  BY <1>1, Working
<1>3. PICK why \in {"no_room", "other"} : session' = [session EXCEPT ![Sid(r)].refusal = why]
  BY DEF GrantRefused, Refusals
<1> DEFINE x == [session[Sid(r)] EXCEPT !.refusal = why]
<1>4. /\ x \in Row /\ x.reason = session[Sid(r)].reason /\ x.hold = session[Sid(r)].hold
      /\ session' = [session EXCEPT ![Sid(r)] = x]
  BY <1>2, <1>3 DEF Row
<1>5. x.reason = Earning => x.hold
  BY <1>2, <1>4, RowsTold
<1> HIDE DEF x
<1> QED BY <1>1, <1>2, <1>4, <1>5, FundsWriteAndMove

LEMMA MarkGrantedFunds ==
  ASSUME IInv, FInv, NEW r \in Requests, MarkGranted(r)
  PROVE  FInv'
<1>1. ~At(r, "idle") /\ ~At(r, "open") /\ Go(r, Idle) /\ UNCHANGED fundingVars /\ Idle.pc = "idle"
  BY DEF MarkGranted, At, Idle
<1>2. Sid(r) \in Sessions /\ Exists(Sid(r)) /\ session[Sid(r)] \in Row
  BY <1>1, Working
<1> DEFINE x == [session[Sid(r)] EXCEPT !.granted = TRUE]
<1>3. /\ x \in Row /\ x.reason = session[Sid(r)].reason /\ x.hold = session[Sid(r)].hold
      /\ session' = [session EXCEPT ![Sid(r)] = x]
  BY <1>2 DEF Row, MarkGranted
<1>4. x.reason = Earning => x.hold
  BY <1>2, <1>3, RowsTold
<1> HIDE DEF x
<1> QED BY <1>1, <1>2, <1>3, <1>4, FundsWriteAndMove

LEMMA DiesFunds ==
  ASSUME IInv, FInv, NEW r \in Requests, Dies(r)
  PROVE  FInv'
BY FundsMove DEF Dies, Idle

LEMMA WatchFunds ==
  ASSUME IInv, FInv, NEW s \in Sessions, WatchThrough(s) \/ WatchElsewhere(s)
  PROVE  FInv'
<1>1. /\ Exists(s) /\ session[s] \in Row /\ UNCHANGED <<fundingVars, request>>
  BY DEF WatchThrough, WatchElsewhere, Exists, IInv, Rows
<1>2. PICK x \in Row : /\ session' = [session EXCEPT ![s] = x]
                        /\ x.reason = session[s].reason /\ x.hold = session[s].hold
  <2>1. CASE WatchThrough(s)
    <3> DEFINE x == [session[s] EXCEPT !.watched = TRUE]
    <3>1. x \in Row /\ x.reason = session[s].reason /\ x.hold = session[s].hold
      BY <1>1 DEF Row
    <3> QED BY <2>1, <3>1 DEF WatchThrough
  <2>2. CASE WatchElsewhere(s)
    <3> DEFINE x == [session[s] EXCEPT !.state = "parked"]
    <3>1. x \in Row /\ x.reason = session[s].reason /\ x.hold = session[s].hold
      BY <1>1 DEF Row
    <3> QED BY <2>2, <3>1 DEF WatchElsewhere
  <2> QED BY <2>1, <2>2
<1>3. x.reason = Earning => x.hold
  BY <1>1, <1>2, RowsTold
<1>4. NoneStays /\ Remain /\ ToldRows /\ Funds'
  BY <1>1, <1>2, <1>3, FundsWrite
<1> QED BY <1>1, <1>4, OpenersStay, ToldStays DEF FInv, IInv

LEMMA AroundFunds ==
  ASSUME IInv, FInv, UNCHANGED <<session, request>>, NoneStays, Funds'
  PROVE  FInv'
<1>1. Remain /\ ToldRows
  BY SessionsStay DEF ToldRows, FInv, Told, Exists, IInv
<1> QED BY <1>1, OpenersStay, ToldStays DEF FInv, IInv

LEMMA LedgerFunds ==
  ASSUME IInv, FInv,
         \/ \E s \in Sessions : HoldRunsOut(s)
         \/ CheckerReleases
         \/ Midnight
         \/ \E u \in Strangers : OtherViewers(u)
         \/ UNCHANGED <<fundingVars, session, request>>
  PROVE  FInv'
<1> USE DEF NoneStays, FInv, Funds, HoldRows
<1>1. ASSUME NEW s \in Sessions, HoldRunsOut(s) PROVE FInv'
  <2>1. Funds'
    BY <1>1, HoldExpiresKeeps DEF HoldRunsOut
  <2>2. NoneStays
    BY <1>1 DEF HoldRunsOut, HoldExpires
  <2> QED BY <1>1, <2>1, <2>2, AroundFunds DEF HoldRunsOut, Around
<1>2. CASE CheckerReleases
  <2>1. Funds'
    BY <1>2, ReleaseExpiredKeeps DEF CheckerReleases
  <2>2. NoneStays
    BY <1>2 DEF CheckerReleases, ReleaseExpired, Expired
  <2> QED BY <1>2, <2>1, <2>2, AroundFunds DEF CheckerReleases, Around
<1>3. CASE Midnight
  <2>1. Funds'
    BY <1>3, NextDayKeeps DEF Midnight
  <2>2. NoneStays
    BY <1>3 DEF Midnight, NextDay
  <2> QED BY <1>3, <2>1, <2>2, AroundFunds DEF Midnight, Around
<1>4. ASSUME NEW u \in Strangers, OtherViewers(u) PROVE FInv'
  <2>1. Funds'
    BY <1>4, StrangerPaidKeeps DEF OtherViewers
  <2>2. NoneStays
    BY <1>4 DEF OtherViewers, StrangerPaid
  <2> QED BY <1>4, <2>1, <2>2, AroundFunds DEF OtherViewers, Around
<1>5. CASE UNCHANGED <<fundingVars, session, request>>
  BY <1>5, FundsStay, AroundFunds
<1> QED BY <1>1, <1>2, <1>3, <1>4, <1>5

LEMMA InitiallyFunded == ASSUME Init PROVE FInv
<1>1. Openers
  BY DEF Init, FundingInit, NoHold, Openers, Opening, Idle
<1>2. Told
  BY DEF Init, Told, Exists, Idle
<1> QED BY <1>1, <1>2, InitFunds DEF FInv

LEMMA FundsSteps == IInv /\ FInv /\ [Next]_vars => FInv'
<1> SUFFICES ASSUME IInv, FInv, [Next]_vars PROVE FInv'
  OBVIOUS
<1>1. ASSUME NEW r \in Requests, RequestSteps(r) PROVE FInv'
  BY <1>1, OpenSessionFunds, SupersedeFunds, DecideEarningFunds, HoldFunds, FinalizeFunds,
     MarkCompletedFunds, IdentityRefusedFunds, GrantPaidFunds, GrantRefusedFunds,
     MarkGrantedFunds DEF RequestSteps
<1>2. CASE UNCHANGED vars
  BY <1>2, LedgerFunds DEF vars
<1>3. CASE Pause \/ Resume \/ PublishTerms \/ \E u \in Users : VerdictChanges(u)
  <2>1. UNCHANGED <<fundingVars, session, request>>
    BY <1>3 DEF Pause, Resume, PublishTerms, VerdictChanges
  <2> QED BY <2>1, LedgerFunds
<1> QED BY <1>1, <1>2, <1>3, StartFunds, LoadFunds, DiesFunds, WatchFunds, LedgerFunds DEF Next

(* The state of the funding: the sums add up, a hold is placed for a session
   once, and a session that was told it earns has a hold. *)
LEMMA FundsInvariance == Spec => []FInv
<1> QED BY InitiallyFunded, FundsSteps, Invariance, PTL DEF Spec

(* Every point the business bought is free, held or granted, in whatever order
   requests, releases, the checker's sweeps, lost answers and midnights come. *)
THEOREM AllocationConserved == Spec => []PointsConserved
<1>1. FInv => PointsConserved
  BY DEF FInv, Funds
<1> QED BY <1>1, FundsInvariance, PTL

(* Live holds and grants fit the campaign's budget and the day's cap together. *)
THEOREM AdmittedFit == Spec => []AdmittedViewersFit
<1>1. FInv => AdmittedViewersFit
  BY DEF FInv, Funds
<1> QED BY <1>1, FundsInvariance, PTL

-------------------------------------------------------------------------------
(* A live hold is paid: refusal is written by a refused grant alone, and the    *)
(* ledger has room for the grant of a session whose hold is live.               *)
Unrefused == \A s \in Sessions : Exists(s) => session'[s].refusal = session[s].refusal

LivePaid ==
    \A s \in Sessions :
        (/\ Exists(s) /\ session[s].refusal = "none"
         /\ session[s].hold /\ hold[s].state = "held" /\ hold[s].live)
        => ~(session'[s] # NoSession /\ session'[s].refusal = "no_room")

LEMMA UnrefusedIsPaid == ASSUME Unrefused PROVE LivePaid
BY DEF Unrefused, LivePaid

LEMMA InsertRefusesNobody ==
  ASSUME Rows, NEW u, NEW v, NEW s \in Unused, Insert(s, u, v)
  PROVE  Unrefused
<1>1. \A t \in Sessions : Exists(t) =>
        t # s /\ session[t] \in Row
        /\ [session[t] EXCEPT !.state = "superseded"].refusal = session[t].refusal
  BY DEF Unused, Exists, Rows, Row
<1>2. \A t \in Sessions \ {s} :
        session'[t] = IF t \in Stale(u, v) THEN [session[t] EXCEPT !.state = "superseded"]
                      ELSE session[t]
  BY DEF Insert
<1> QED BY <1>1, <1>2 DEF Unrefused

LEMMA RequestsRefuseNobody ==
  ASSUME IInv, NEW r \in Requests,
         \/ OpenSession(r) \/ Supersede(r) \/ DecideEarning(r) \/ HoldPlaced(r) \/ HoldRefused(r)
         \/ Finalize(r) \/ MarkCompleted(r) \/ IdentityRefused(r) \/ GrantPaid(r) \/ MarkGranted(r)
  PROVE  Unrefused
<1>1. CASE UNCHANGED session
  BY <1>1 DEF Unrefused
<1>2. ASSUME NEW s \in Sessions, session[s] \in Row,
             \/ \E x \in {"active", "superseded", "completed"} :
                  session' = [session EXCEPT ![s].state = x]
             \/ session' = [session EXCEPT ![s].granted = TRUE]
             \/ \E x, y : session' = [session EXCEPT ![s].reason = x, ![s].hold = y]
      PROVE  Unrefused
  <2>1. session'[s].refusal = session[s].refusal
    <3>1. CASE \E x \in {"active", "superseded", "completed"} :
                 session' = [session EXCEPT ![s].state = x]
      BY <1>2, <3>1 DEF IInv, Rows, Row
    <3>2. CASE session' = [session EXCEPT ![s].granted = TRUE]
      BY <1>2, <3>2 DEF IInv, Rows, Row
    <3>3. ASSUME NEW x, NEW y, session' = [session EXCEPT ![s].reason = x, ![s].hold = y]
          PROVE  session'[s].refusal = session[s].refusal
      <4>1. session'[s] = [[session[s] EXCEPT !.reason = x] EXCEPT !.hold = y]
        BY <3>3 DEF IInv, Rows
      <4> QED BY <1>2, <4>1 DEF Row
    <3> QED BY <1>2, <3>1, <3>2, <3>3
  <2>2. \A t \in Sessions \ {s} : session'[t] = session[t]
    BY <1>2 DEF IInv, Rows
  <2> QED BY <2>1, <2>2 DEF Unrefused
<1>3. ~At(r, "idle") /\ ~At(r, "open") => Sid(r) \in Sessions /\ session[Sid(r)] \in Row
  BY Working
<1>4. CASE OpenSession(r)
  <2>1. ASSUME NEW s \in OpenFor(request[r].user, request[r].terms), Reactivate(s)
        PROVE  Unrefused
    BY <1>2, <2>1 DEF OpenFor, Exists, Reactivate, IInv, Rows
  <2>2. ASSUME NEW s \in Unused, Insert(s, request[r].user, request[r].terms)
        PROVE  Unrefused
    <3>1. PICK u, v : u = request[r].user /\ v = request[r].terms
      OBVIOUS
    <3> QED BY <2>2, <3>1, InsertRefusesNobody DEF IInv
  <2>3. Unused # {} => (CHOOSE t \in Unused : TRUE) \in Unused
    OBVIOUS
  <2> QED BY <1>4, <2>1, <2>2, <2>3 DEF OpenSession
<1>5. CASE Supersede(r)
  BY <1>1, <1>2, <1>3, <1>5 DEF Supersede, At, Sid
<1>6. CASE Finalize(r)
  BY <1>2, <1>3, <1>6 DEF Finalize, At
<1>7. CASE MarkCompleted(r)
  BY <1>1, <1>2, <1>3, <1>7 DEF MarkCompleted, At
<1>8. CASE MarkGranted(r)
  BY <1>2, <1>3, <1>8 DEF MarkGranted, At
<1>9. CASE DecideEarning(r) \/ HoldPlaced(r) \/ HoldRefused(r) \/ IdentityRefused(r) \/ GrantPaid(r)
  BY <1>1, <1>9 DEF DecideEarning, HoldPlaced, HoldRefused, IdentityRefused, GrantPaid
<1> QED BY <1>4, <1>5, <1>6, <1>7, <1>8, <1>9

(* The session's own reservation, at least the grant's points, is left out of
   what the budgets count. *)
LEMMA LiveHoldHasRoom ==
  ASSUME FInv, NEW s \in Sessions, s \in LiveHolds({}), NEW points \in PointsFor
  PROVE  HasRoom(s, TRUE, points)
<1>1. /\ Points(grants) + Held({}) <= Budget
      /\ Points(GrantedToday) + Held({}) <= DailyCap
      /\ Held({}) = Held({s}) + HoldPoints /\ Held({s}) \in Nat
      /\ Points(grants) \in Nat /\ Points(GrantedToday) \in Nat
  BY Sums, OwnHoldMakesRoom DEF FInv, Funds, AdmittedViewersFit
<1>2. points \in Nat /\ points <= HoldPoints
  BY Rewards
<1>3. FitsBudget({s}, points)
  BY <1>1, <1>2, Rewards DEF FitsBudget
<1>4. CanDraw(s, TRUE, points)
  BY DEF CanDraw, DrawsHold, LiveHolds
<1> QED BY <1>3, <1>4 DEF HasRoom

LEMMA RefusedGrantsHaveNoHold ==
  ASSUME IInv, FInv, NEW r \in Requests, GrantRefused(r)
  PROVE  LivePaid
<1>1. ~At(r, "idle") /\ ~At(r, "open")
  BY DEF GrantRefused, At
<1>2. Sid(r) \in Sessions /\ session[Sid(r)] \in Row
  BY <1>1, Working
<1>3. request[r].hold = TRUE
  BY DEF GrantRefused, At, FInv, Told, IInv, Processes, Locals
<1>4. PICK why \in Refusals(r) : session' = [session EXCEPT ![Sid(r)].refusal = why]
  BY DEF GrantRefused
<1>5. Sid(r) \in LiveHolds({}) => why = "other"
  BY <1>2, <1>3, <1>4, LiveHoldHasRoom DEF Refusals
<1>6. \A s \in Sessions : s # Sid(r) => session'[s] = session[s]
  BY <1>4 DEF IInv, Rows
<1>7. session'[Sid(r)].refusal = why
  BY <1>2, <1>4 DEF IInv, Rows, Row
<1> QED BY <1>5, <1>6, <1>7 DEF LivePaid, LiveHolds

LEMMA StepsPay == IInv /\ FInv /\ [Next]_vars => LivePaid
<1> SUFFICES ASSUME IInv, FInv, [Next]_vars PROVE LivePaid
  OBVIOUS
<1>1. CASE UNCHANGED session
  BY <1>1, UnrefusedIsPaid DEF Unrefused
<1>2. ASSUME NEW r \in Requests, RequestSteps(r) PROVE LivePaid
  BY <1>2, RequestsRefuseNobody, UnrefusedIsPaid, RefusedGrantsHaveNoHold DEF RequestSteps
<1>3. ASSUME NEW r \in Requests,
             \/ \E u \in Users : Start(r, u)
             \/ \E s \in Sessions : Load(r, s)
             \/ Dies(r)
      PROVE  UNCHANGED session
  BY <1>3 DEF Start, Load, Dies
<1>4. ASSUME NEW s \in Sessions, WatchThrough(s) \/ WatchElsewhere(s) PROVE LivePaid
  <2>1. session[s] \in Row
    BY <1>4 DEF WatchThrough, WatchElsewhere, Exists, IInv, Rows
  <2>2. Unrefused
    BY <1>4, <2>1 DEF WatchThrough, WatchElsewhere, Unrefused, IInv, Rows, Row
  <2> QED BY <2>2, UnrefusedIsPaid
<1>5. ASSUME \/ \E s \in Sessions : HoldRunsOut(s)
             \/ \E u \in Users : VerdictChanges(u)
             \/ \E u \in Strangers : OtherViewers(u)
             \/ Pause \/ Resume \/ PublishTerms \/ CheckerReleases \/ Midnight
      PROVE  UNCHANGED session
  BY <1>5 DEF HoldRunsOut, VerdictChanges, OtherViewers, Pause, Resume, PublishTerms,
              CheckerReleases, Midnight, Around
<1>6. CASE UNCHANGED vars
  BY <1>1, <1>6 DEF vars
<1> QED BY <1>1, <1>2, <1>3, <1>4, <1>5, <1>6 DEF Next

(* A viewer who was told that the session earns is paid while its hold is live:
   the ledger does not refuse it for want of room, whatever other viewers took. *)
THEOREM LiveHoldPays == Spec => LiveHoldIsPaid
<1>1. IInv /\ FInv /\ [Next]_vars => [LivePaid]_vars
  BY StepsPay
<1> QED BY <1>1, Invariance, FundsInvariance, PTL DEF Spec, LiveHoldIsPaid, LivePaid

-------------------------------------------------------------------------------
Counters == verdicts \in 0..MaxVerdicts /\ faults \in 0..MaxFaults

LEMMA CountersStay ==
  ASSUME Counters, verdicts' = verdicts, faults' = faults \/ Fault
  PROVE  Counters'
<1>1. MaxFaults \in Nat
  BY WatchAssumption DEF WatchAssumption
<1> QED BY <1>1 DEF Counters, Fault

LEMMA CountersSteps == Counters /\ [Next]_vars => Counters'
<1> SUFFICES ASSUME Counters, [Next]_vars PROVE Counters'
  OBVIOUS
<1>1. ASSUME NEW r \in Requests, RequestSteps(r)
      PROVE  verdicts' = verdicts /\ (faults' = faults \/ Fault)
  BY <1>1 DEF RequestSteps, OpenSession, Supersede, DecideEarning, HoldPlaced, HoldRefused,
              Finalize, MarkCompleted, IdentityRefused, GrantPaid, GrantRefused, MarkGranted
<1>2. ASSUME NEW r \in Requests,
             \/ \E u \in Users : Start(r, u)
             \/ \E s \in Sessions : Load(r, s)
             \/ Dies(r)
      PROVE  verdicts' = verdicts /\ (faults' = faults \/ Fault)
  BY <1>2 DEF Start, Load, Dies
<1>3. ASSUME \/ \E s \in Sessions : WatchThrough(s) \/ WatchElsewhere(s) \/ HoldRunsOut(s)
             \/ \E u \in Strangers : OtherViewers(u)
             \/ Pause \/ Resume \/ PublishTerms \/ CheckerReleases \/ Midnight
             \/ UNCHANGED vars
      PROVE  verdicts' = verdicts /\ faults' = faults
  BY <1>3 DEF WatchThrough, WatchElsewhere, HoldRunsOut, OtherViewers, Pause, Resume,
              PublishTerms, CheckerReleases, Midnight, Around, vars
<1>4. ASSUME NEW u \in Users, VerdictChanges(u) PROVE Counters'
  <2>1. MaxVerdicts \in Nat
    BY WatchAssumption DEF WatchAssumption
  <2> QED BY <1>4, <2>1 DEF VerdictChanges, Counters
<1> QED BY <1>1, <1>2, <1>3, <1>4, CountersStay DEF Next

(* The types of the rows, the processes and the funding; that no more of the
   allocation is free than was bought follows from its conservation. *)
THEOREM TypeCorrect == Spec => []TypeOK
<1>1. Init => Counters
  BY WatchAssumption DEF Init, Counters, WatchAssumption
<1>2. IInv /\ FInv /\ Counters => TypeOK
  <2> SUFFICES ASSUME IInv, FInv, Counters PROVE TypeOK
    OBVIOUS
  <2>1. free \in 0..Total
    <3>1. /\ free \in Nat /\ Points(grants) \in Nat
          /\ HoldPoints * Cardinality(HeldSessions) \in Nat
      BY Sums, Rewards, Products DEF FInv, Funds
    <3>2. Total = free + Points(grants) + HoldPoints * Cardinality(HeldSessions)
      BY DEF FInv, Funds, PointsConserved, HeldSessions
    <3> QED BY <3>1, <3>2, Rewards
  <2>2. FundingTypeOK
    BY <2>1 DEF FundingTypeOK, FInv, Funds, HoldRows, GrantRows
  <2> QED BY <2>2 DEF TypeOK, IInv, Rows, Processes, Sited, Campaign, Counters
<1> QED BY <1>1, <1>2, CountersSteps, Invariance, FundsInvariance, PTL DEF Spec

===============================================================================

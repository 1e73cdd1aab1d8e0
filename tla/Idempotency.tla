----------------------------- MODULE Idempotency -------------------------------
(***************************************************************************)
(* One key of platform.idempotency and those that use it: requests of a     *)
(* route marked @Idempotent (the interceptor of apps/api), or the job rows  *)
(* of a queue (idempotentWorker of packages/queue).  Keys and scopes share  *)
(* nothing, so one of each kind is the whole system.                        *)
(*                                                                          *)
(* A record is claimed before the work and completed, or abandoned, after   *)
(* it; each statement on the table is a step, so claims, answers, retries,  *)
(* deaths and the end of the retention come in every order.                 *)
(***************************************************************************)
EXTENDS Naturals, FiniteSets

CONSTANTS
    Attempts,    \* executions of the wrapper, a bound on deliveries
    Requests,    \* requests of a client, or rows of a queue, under this key
    Body,        \* [Requests -> bodies]: what the fingerprint tells apart
    RetryLimit,  \* of the queue
    MaxFaults,   \* bound on deaths, failing statements and leases that run out
    MaxExpiries  \* bound on ends of the retention

Kinds  == {"http", "job"}
NoBody == "none"

Bodies == {Body[r] : r \in Requests}

ASSUME IdempotencyAssumption ==
    /\ NoBody \notin Bodies
    /\ {RetryLimit, MaxFaults, MaxExpiries} \subseteq Nat

VARIABLES
    kind,      \* who uses the key
    record,    \* the row: [state, body, response, expired]
    at,        \* [Attempts -> where the attempt is]
    req,       \* [Attempts -> Requests]
    answer,    \* [Attempts -> Answers]: what the caller was told
    row,       \* [Requests -> RowState], of the queue
    tries,     \* [Requests -> Nat], deliveries of a row
    \* history
    effects,   \* [Bodies -> Nat], how often the work was done
    ran,       \* attempts that ran the handler
    faults, expiries

callers == <<at, req, answer>>
queue   == <<row, tries>>
vars    == <<kind, record, callers, queue, effects, ran, faults, expiries>>

RowState == {"queued", "active", "completed", "dead"}
Answers  == {"none", "ok", "refused", "failed", "reused", "busy", "error"}

NoRecord == [state |-> "none", body |-> NoBody, response |-> "none", expired |-> FALSE]
Claimed(b) == [state |-> "in_progress", body |-> b, response |-> "none", expired |-> FALSE]

Live == record.state # "none" /\ ~record.expired
BodyOf(a) == Body[req[a]]

RunsNow(a) == at[a] \in {"run", "settle", "abandon"}
Fault == faults < MaxFaults /\ faults' = faults + 1

Init ==
    /\ kind \in Kinds /\ record = NoRecord
    /\ at = [a \in Attempts |-> "idle"] /\ req \in [Attempts -> Requests]
    /\ answer = [a \in Attempts |-> "none"]
    /\ row = [r \in Requests |-> "queued"] /\ tries = [r \in Requests |-> 0]
    /\ effects = [b \in Bodies |-> 0] /\ ran = {}
    /\ faults = 0 /\ expiries = 0

-------------------------------------------------------------------------------
(* The client sends a request, for the first time or again. *)
Send(a) ==
    /\ kind = "http" /\ at[a] = "idle" /\ at' = [at EXCEPT ![a] = "claim"]
    /\ UNCHANGED <<kind, record, req, answer, queue, effects, ran, faults, expiries>>

(* pg-boss hands a queued row to a worker. *)
Deliver(a) ==
    /\ kind = "job" /\ at[a] = "idle" /\ row[req[a]] = "queued"
    /\ at' = [at EXCEPT ![a] = "claim"]
    /\ row' = [row EXCEPT ![req[a]] = "active"]
    /\ tries' = [tries EXCEPT ![req[a]] = @ + 1]
    /\ UNCHANGED <<kind, record, req, answer, effects, ran, faults, expiries>>

(* The attempt ends: a client is told the answer, a row is completed or fails.  *)
(* A row whose lease ran out in the meantime is no longer this attempt's.       *)
Ends(a, ans) ==
    /\ at' = [at EXCEPT ![a] = "done"] /\ answer' = [answer EXCEPT ![a] = ans]
    /\ IF kind = "http" \/ row[req[a]] # "active" THEN UNCHANGED row
       ELSE row' = [row EXCEPT ![req[a]] =
                IF ans \in {"ok", "failed", "busy"} THEN "completed"
                ELSE IF tries[req[a]] <= RetryLimit THEN "queued" ELSE "dead"]

(* A seeded bug, as are the other operators named ..Bug: no definition of the   *)
(* specification uses them.  A record in progress does not stop a second claim. *)
ClaimBug(a) ==
    /\ at[a] = "claim"
    /\ IF Live /\ record.state = "completed"
       THEN at' = [at EXCEPT ![a] = "read"] /\ UNCHANGED <<record, ran>>
       ELSE /\ record' = Claimed(BodyOf(a)) /\ ran' = ran \cup {a}
            /\ at' = [at EXCEPT ![a] = "run"]
    /\ UNCHANGED <<kind, req, answer, queue, effects, faults, expiries>>

(* putIfAbsent: one upsert takes a key that is free or expired. *)
Claim(a) ==
    /\ at[a] = "claim"
    /\ IF Live THEN at' = [at EXCEPT ![a] = "read"] /\ UNCHANGED <<record, ran>>
       ELSE /\ record' = Claimed(BodyOf(a)) /\ ran' = ran \cup {a}
            /\ at' = [at EXCEPT ![a] = "run"]
    /\ UNCHANGED <<kind, req, answer, queue, effects, faults, expiries>>

(* A seeded bug: the state is looked at before the fingerprint. *)
OutcomeBug(a) ==
    IF record.state = "none" THEN "error"
    ELSE IF record.state = "completed" THEN record.response
    ELSE IF record.body # BodyOf(a) THEN "reused" ELSE "busy"

(* What begin makes of the row that it reads when it did not claim: an error    *)
(* when the holder is gone, else a mismatch, a conflict or a replay.            *)
Outcome(a) ==
    IF record.state = "none" THEN "error"
    ELSE IF record.body # BodyOf(a) THEN "reused"
    ELSE IF record.state = "in_progress" THEN "busy" ELSE record.response

ReadHolder(a) ==
    /\ at[a] = "read" /\ Ends(a, Outcome(a))
    /\ UNCHANGED <<kind, record, req, tries, effects, ran, faults, expiries>>

-------------------------------------------------------------------------------
(* A seeded bug: the error path of a route forgets the record. *)
HandleBug(a) ==
    LET b == BodyOf(a)
        goes(next, ans) == /\ at' = [at EXCEPT ![a] = next]
                           /\ answer' = [answer EXCEPT ![a] = ans]
    IN /\ at[a] = "run"
       /\ \/ goes("settle", "ok") /\ effects' = [effects EXCEPT ![b] = @ + 1]
          \/ goes("abandon", "refused") /\ UNCHANGED effects
          \/ kind = "http" /\ goes("done", "failed") /\ UNCHANGED effects
       /\ UNCHANGED <<kind, record, req, queue, ran, faults, expiries>>

(* The handler does its work, or is refused before it does (a 4xx, which        *)
(* releases the key), or fails, and a route may fail after the work was done (a *)
(* 5xx, which is stored); a job that throws releases the key.  The client is    *)
(* answered before the record is settled.                                       *)
Handle(a) ==
    LET b == BodyOf(a)
        goes(next, ans) == /\ at' = [at EXCEPT ![a] = next]
                           /\ answer' = [answer EXCEPT ![a] = ans]
    IN /\ at[a] = "run"
       /\ \/ goes("settle", "ok") /\ effects' = [effects EXCEPT ![b] = @ + 1]
          \/ goes("abandon", "refused") /\ UNCHANGED effects
          \/ /\ kind = "http" /\ goes("settle", "failed")
             /\ \/ effects' = [effects EXCEPT ![b] = @ + 1]
                \/ UNCHANGED effects
       /\ UNCHANGED <<kind, record, req, queue, ran, faults, expiries>>

(* A seeded bug: a 5xx releases the key as a 4xx does. *)
SettleBug(a) ==
    /\ at[a] = "settle" /\ Ends(a, answer[a])
    /\ record' = IF answer[a] = "failed" THEN NoRecord
                 ELSE [record EXCEPT !.state = "completed", !.response = answer[a]]
    /\ UNCHANGED <<kind, req, tries, effects, ran, faults, expiries>>

(* complete: whoever holds the key now.  When the statement fails, a route has  *)
(* long answered and the record stays as it is; a job releases the key, throws  *)
(* and is tried again, though its work is done.                                 *)
Settle(a) ==
    /\ at[a] = "settle"
    /\ LET stored == [record EXCEPT !.state = "completed", !.response = answer[a]]
       IN \/ /\ record.state # "none" /\ record' = stored
             /\ Ends(a, answer[a]) /\ UNCHANGED faults
          \/ /\ record.state = "none" \/ Fault
             /\ record.state = "none" => UNCHANGED faults
             /\ record' = record
             /\ IF kind = "http" THEN Ends(a, answer[a])
                ELSE /\ at' = [at EXCEPT ![a] = "abandon"]
                     /\ answer' = [answer EXCEPT ![a] = "error"] /\ UNCHANGED row
    /\ UNCHANGED <<kind, req, tries, effects, ran, expiries>>

(* abandon deletes the row, whoever's it is. *)
Abandon(a) ==
    /\ at[a] = "abandon" /\ Ends(a, answer[a])
    /\ \/ record' = NoRecord /\ UNCHANGED faults
       \/ UNCHANGED record /\ Fault
    /\ UNCHANGED <<kind, req, tries, effects, ran, expiries>>

-------------------------------------------------------------------------------
(* The process dies: a row it was working is found by its lease. *)
Crash(a) ==
    /\ at[a] \notin {"idle", "done"} /\ Fault /\ at' = [at EXCEPT ![a] = "done"]
    /\ UNCHANGED <<kind, record, req, answer, queue, effects, ran, expiries>>

(* The lease of a row runs out: nobody works it any more, or a handler is still *)
(* running past expireInSeconds.                                                *)
LeaseEnds(r) ==
    /\ kind = "job" /\ row[r] = "active"
    /\ IF \E a \in Attempts : req[a] = r /\ at[a] \notin {"idle", "done"}
       THEN Fault ELSE UNCHANGED faults
    /\ row' = [row EXCEPT ![r] = IF tries[r] <= RetryLimit THEN "queued" ELSE "dead"]
    /\ UNCHANGED <<kind, record, callers, tries, effects, ran, expiries>>

(* The retention is a day or more, far longer than any handler runs. *)
Expire ==
    /\ Live /\ expiries < MaxExpiries /\ \A a \in Attempts : ~RunsNow(a)
    /\ record' = [record EXCEPT !.expired = TRUE] /\ expiries' = expiries + 1
    /\ UNCHANGED <<kind, callers, queue, effects, ran, faults>>

Prune ==
    /\ record.expired /\ record' = NoRecord
    /\ UNCHANGED <<kind, callers, queue, effects, ran, faults, expiries>>

Wrapper(a) == Claim(a) \/ ReadHolder(a) \/ Handle(a) \/ Settle(a) \/ Abandon(a)

Next ==
    \/ \E a \in Attempts : Send(a) \/ Deliver(a) \/ Wrapper(a) \/ Crash(a)
    \/ \E r \in Requests : LeaseEnds(r)
    \/ Expire \/ Prune

Spec == Init /\ [][Next]_vars

(* What began runs on, pg-boss delivers what is queued and looks for leases. *)
Fairness ==
    /\ \A a \in Attempts : WF_vars(Wrapper(a)) /\ WF_vars(Deliver(a))
    /\ \A r \in Requests : WF_vars(LeaseEnds(r) /\ UNCHANGED faults)

FairSpec == Spec /\ Fairness

-------------------------------------------------------------------------------
(* How often the work was done for any body: effects[b] units of each b. *)
Works == Cardinality(UNION {{b} \X (1 .. effects[b]) : b \in Bodies})

Record ==
    [state : {"none", "in_progress", "completed"}, body : Bodies \cup {NoBody},
     response : {"none", "ok", "failed"}, expired : BOOLEAN]

TypeOK ==
    /\ kind \in Kinds /\ record \in Record
    /\ at \in [Attempts -> {"idle", "claim", "read", "run", "settle", "abandon", "done"}]
    /\ req \in [Attempts -> Requests] /\ answer \in [Attempts -> Answers]
    /\ row \in [Requests -> RowState] /\ tries \in [Requests -> 0 .. RetryLimit + 1]
    /\ effects \in [Bodies -> Nat] /\ ran \subseteq Attempts
    /\ faults \in 0 .. MaxFaults /\ expiries \in 0 .. MaxExpiries

(* Two handlers never work under one key at the same time, whatever died, was   *)
(* redelivered or ran out before.                                               *)
OneAtATime == \A a, b \in Attempts : RunsNow(a) /\ RunsNow(b) => a = b

(* The work of a key is done once until its retention ends: no retry, race or   *)
(* 5xx repeats it, nor a death after it was done.  A job's is repeated when the *)
(* statement that stores its result fails.                                      *)
WorksOnce == Works <= 1 + expiries + (IF kind = "job" THEN faults ELSE 0)

(* A replay answers the request that was made: what one of the attempts with    *)
(* the same body came to.                                                       *)
ReplayAnswersTheRequest ==
    \A a \in Attempts \ ran : answer[a] \in {"ok", "failed"} =>
        \E b \in ran : BodyOf(b) = BodyOf(a) /\ answer[b] = answer[a]

(* A job row that is completed stands for work that is done, or being done, or  *)
(* still to be tried under another row.  The code does not keep it: a row that  *)
(* meets the claim of a process that died is completed without work.            *)
CompletedMeansDone ==
    \A r \in Requests : row[r] = "completed" =>
        \/ effects[Body[r]] > 0
        \/ \E a \in Attempts : RunsNow(a) /\ BodyOf(a) = Body[r]
        \/ \E s \in Requests : Body[s] = Body[r] /\ row[s] # "completed"

(* Without a fault every claim is completed or released by its own attempt, so  *)
(* a client that is told to come back later can.                                *)
ClaimsAreSettled ==
    (record.state = "in_progress" /\ faults = 0) ~> (record.state # "in_progress" \/ faults > 0)
===============================================================================

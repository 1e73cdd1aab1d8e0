-------------------------- MODULE IdempotencyProofs ---------------------------
(***************************************************************************)
(* For any number of attempts, requests and bodies, any retry limit and any *)
(* number of faults: two handlers never work under one key at once, the     *)
(* work is done once for a retention, and a replay answers the request that *)
(* was made.                                                                *)
(*                                                                          *)
(* A statement that settles or releases a record names only the key, never  *)
(* who claimed it.  That is safe because a running attempt is the holder    *)
(* of a record that is live and in progress (HolderRuns): nothing but the   *)
(* attempt itself takes its record away, the retention included.  So while  *)
(* the work may still be done, one is left of those allowed (Account).      *)
(***************************************************************************)
EXTENDS Idempotency, FiniteSetTheorems, TLAPS

(* The attempt that runs holds the record. *)
HolderRuns ==
    \A a \in Attempts : RunsNow(a) =>
        /\ Live /\ record.state = "in_progress"
        /\ record.body = BodyOf(a) /\ a \in ran

(* What an attempt is about to store is what its handler came to. *)
SettlesItsAnswer ==
    \A a \in Attempts : at[a] = "settle" => answer[a] \in {"ok", "failed"}

(* A queued row may be tried once more. *)
TriesLeft == \A r \in Requests : row[r] = "queued" => tries[r] <= RetryLimit

(* b has run for the body and came to the answer, and changes it no more. *)
Stands(b, body, ans) == at[b] = "done" /\ BodyOf(b) = body /\ answer[b] = ans

RecordStands ==
    record.state = "completed" =>
        \E b \in ran : Stands(b, record.body, record.response)

ReplayStands ==
    \A a \in Attempts \ ran : answer[a] \in {"ok", "failed"} =>
        \E b \in ran : Stands(b, BodyOf(a), answer[a])

IInv ==
    /\ TypeOK /\ OneAtATime /\ HolderRuns /\ SettlesItsAnswer /\ TriesLeft
    /\ RecordStands /\ ReplayStands

LEMMA InitIInv == ASSUME IdempotencyAssumption, Init PROVE IInv
<1>1. TypeOK
  BY DEF IdempotencyAssumption, Init, TypeOK, NoRecord, Kinds, Answers, RowState, Record, Bodies
<1>2. OneAtATime /\ HolderRuns /\ SettlesItsAnswer /\ TriesLeft
  BY DEF IdempotencyAssumption, Init, OneAtATime, HolderRuns, SettlesItsAnswer, TriesLeft,
         RunsNow
<1>3. RecordStands /\ ReplayStands
  BY DEF Init, RecordStands, ReplayStands, NoRecord
<1> QED BY <1>1, <1>2, <1>3 DEF IInv

(* An attempt that ends leaves its own variables and its row well typed. *)
LEMMA EndsType ==
  ASSUME TypeOK, NEW a \in Attempts, NEW ans \in Answers, Ends(a, ans)
  PROVE  /\ at' \in [Attempts -> {"idle", "claim", "read", "run", "settle", "abandon", "done"}]
         /\ answer' \in [Attempts -> Answers]
         /\ row' \in [Requests -> RowState]
BY DEF Ends, TypeOK, RowState

LEMMA SendKeeps ==
  ASSUME IdempotencyAssumption, IInv, NEW a \in Attempts, Send(a)
  PROVE  IInv'
<1> USE DEF callers, queue
<1>0. TypeOK /\ OneAtATime /\ HolderRuns /\ SettlesItsAnswer /\ TriesLeft /\ RecordStands /\ ReplayStands
  BY DEF IInv
<1>1. TypeOK'
  BY <1>0 DEF Send, IdempotencyAssumption, TypeOK, HolderRuns, SettlesItsAnswer, TriesLeft, RunsNow, Answers,
         RowState, Record, Bodies, BodyOf
<1>2. OneAtATime' /\ HolderRuns'
  BY <1>0 DEF Send, TypeOK, OneAtATime, HolderRuns, RunsNow, Live, BodyOf
<1>3. SettlesItsAnswer' /\ TriesLeft'
  BY <1>0 DEF Send, IdempotencyAssumption, TypeOK, SettlesItsAnswer, TriesLeft
<1>4. RecordStands'
  BY <1>0 DEF Send, TypeOK, HolderRuns, SettlesItsAnswer, RecordStands, Stands, RunsNow, BodyOf
<1>5. ReplayStands'
  BY <1>0 DEF Send, TypeOK, HolderRuns, RecordStands, ReplayStands, Stands, RunsNow, BodyOf, Answers
<1> QED BY <1>1, <1>2, <1>3, <1>4, <1>5 DEF IInv

LEMMA DeliverKeeps ==
  ASSUME IdempotencyAssumption, IInv, NEW a \in Attempts, Deliver(a)
  PROVE  IInv'
<1> USE DEF callers, queue
<1>0. TypeOK /\ OneAtATime /\ HolderRuns /\ SettlesItsAnswer /\ TriesLeft /\ RecordStands /\ ReplayStands
  BY DEF IInv
<1>1. TypeOK'
  BY <1>0 DEF Deliver, IdempotencyAssumption, TypeOK, HolderRuns, SettlesItsAnswer, TriesLeft, RunsNow, Answers,
         RowState, Record, Bodies, BodyOf
<1>2. OneAtATime' /\ HolderRuns'
  BY <1>0 DEF Deliver, TypeOK, OneAtATime, HolderRuns, RunsNow, Live, BodyOf
<1>3. SettlesItsAnswer' /\ TriesLeft'
  BY <1>0 DEF Deliver, IdempotencyAssumption, TypeOK, SettlesItsAnswer, TriesLeft
<1>4. RecordStands'
  BY <1>0 DEF Deliver, TypeOK, HolderRuns, SettlesItsAnswer, RecordStands, Stands, RunsNow, BodyOf
<1>5. ReplayStands'
  BY <1>0 DEF Deliver, TypeOK, HolderRuns, RecordStands, ReplayStands, Stands, RunsNow, BodyOf, Answers
<1> QED BY <1>1, <1>2, <1>3, <1>4, <1>5 DEF IInv

LEMMA ClaimKeeps ==
  ASSUME IdempotencyAssumption, IInv, NEW a \in Attempts, Claim(a)
  PROVE  IInv'
<1> USE DEF callers, queue
<1>0. TypeOK /\ OneAtATime /\ HolderRuns /\ SettlesItsAnswer /\ TriesLeft /\ RecordStands /\ ReplayStands
  BY DEF IInv
<1>1. TypeOK'
  <2>1. record' \in Record
    <3>1. BodyOf(a) \in Bodies
      BY <1>0 DEF TypeOK, BodyOf, Bodies
    <3>2. Claimed(BodyOf(a)) \in Record
      BY <3>1 DEF Claimed, Record
    <3> QED BY <1>0, <3>2 DEF Claim, TypeOK
  <2>2. QED
    BY <1>0, <2>1 DEF Claim, IdempotencyAssumption, TypeOK, TriesLeft, Answers, RowState
<1>2. OneAtATime' /\ HolderRuns'
  BY <1>0 DEF Claim, Claimed, TypeOK, OneAtATime, HolderRuns, RunsNow, Live, BodyOf
<1>3. SettlesItsAnswer' /\ TriesLeft'
  BY <1>0 DEF Claim, Claimed, IdempotencyAssumption, TypeOK, SettlesItsAnswer, TriesLeft
<1>4. RecordStands'
  BY <1>0 DEF Claim, Claimed, TypeOK, HolderRuns, SettlesItsAnswer, RecordStands, Stands, RunsNow, BodyOf
<1>5. ReplayStands'
  BY <1>0 DEF Claim, Claimed, TypeOK, HolderRuns, RecordStands, ReplayStands, Stands, RunsNow, BodyOf, Answers
<1> QED BY <1>1, <1>2, <1>3, <1>4, <1>5 DEF IInv

LEMMA ReadHolderKeeps ==
  ASSUME IdempotencyAssumption, IInv, NEW a \in Attempts, ReadHolder(a)
  PROVE  IInv'
<1> USE DEF callers, queue
<1>0. TypeOK /\ OneAtATime /\ HolderRuns /\ SettlesItsAnswer /\ TriesLeft /\ RecordStands /\ ReplayStands
  BY DEF IInv
<1>1. TypeOK'
  <2>1. Outcome(a) \in Answers
    BY <1>0 DEF Outcome, TypeOK, Record, Answers
  <2> QED BY <1>0, <2>1, EndsType DEF ReadHolder, TypeOK
<1>2. OneAtATime' /\ HolderRuns'
  BY <1>0 DEF ReadHolder, Ends, Outcome, TypeOK, OneAtATime, HolderRuns, RunsNow, Live, BodyOf
<1>3. SettlesItsAnswer' /\ TriesLeft'
  BY <1>0 DEF ReadHolder, Ends, Outcome, IdempotencyAssumption, TypeOK, SettlesItsAnswer, TriesLeft
<1>4. RecordStands'
  BY <1>0 DEF ReadHolder, Ends, Outcome, TypeOK, HolderRuns, SettlesItsAnswer, RecordStands, Stands, RunsNow, BodyOf
<1>5. ReplayStands'
  <2> SUFFICES ASSUME NEW x \in Attempts \ ran, answer'[x] \in {"ok", "failed"}
               PROVE  \E b \in ran : at'[b] = "done" /\ BodyOf(b) = BodyOf(x)
                                    /\ answer'[b] = answer'[x]
    BY DEF ReplayStands, ReadHolder, Stands, BodyOf
  <2>1. \A b \in Attempts : at[b] = "done" => at'[b] = "done" /\ answer'[b] = answer[b]
    BY <1>0 DEF ReadHolder, Ends, TypeOK
  <2>2. \E b \in ran : Stands(b, BodyOf(x), answer'[x])
    <3>1. CASE x = a
      <4>1. answer'[a] = Outcome(a)
        BY <1>0 DEF ReadHolder, Ends, TypeOK
      <4>2. record.state = "completed" /\ record.body = BodyOf(a) /\ record.response = answer'[a]
        BY <1>0, <3>1, <4>1 DEF Outcome, TypeOK, Record
      <4> QED BY <1>0, <3>1, <4>2 DEF RecordStands
    <3>2. CASE x # a
      <4>1. answer'[x] = answer[x]
        BY <1>0, <3>2 DEF ReadHolder, Ends, TypeOK
      <4> QED BY <1>0, <4>1 DEF ReplayStands
    <3> QED BY <3>1, <3>2
  <2> QED
    BY <1>0, <2>1, <2>2 DEF Stands, TypeOK
<1> QED BY <1>1, <1>2, <1>3, <1>4, <1>5 DEF IInv

LEMMA HandleKeeps ==
  ASSUME IdempotencyAssumption, IInv, NEW a \in Attempts, Handle(a)
  PROVE  IInv'
<1> USE DEF callers, queue
<1>0. TypeOK /\ OneAtATime /\ HolderRuns /\ SettlesItsAnswer /\ TriesLeft /\ RecordStands /\ ReplayStands
  BY DEF IInv
<1>1. TypeOK'
  BY <1>0 DEF Handle, IdempotencyAssumption, TypeOK, HolderRuns, SettlesItsAnswer, TriesLeft, RunsNow, Answers,
         RowState, Record, Bodies, BodyOf
<1>2. OneAtATime' /\ HolderRuns'
  BY <1>0 DEF Handle, TypeOK, OneAtATime, HolderRuns, RunsNow, Live, BodyOf
<1>3. SettlesItsAnswer' /\ TriesLeft'
  BY <1>0 DEF Handle, IdempotencyAssumption, TypeOK, SettlesItsAnswer, TriesLeft
<1>4. RecordStands'
  BY <1>0 DEF Handle, TypeOK, HolderRuns, SettlesItsAnswer, RecordStands, Stands, RunsNow, BodyOf
<1>5. ReplayStands'
  BY <1>0 DEF Handle, TypeOK, HolderRuns, RecordStands, ReplayStands, Stands, RunsNow, BodyOf, Answers
<1> QED BY <1>1, <1>2, <1>3, <1>4, <1>5 DEF IInv

LEMMA SettleKeeps ==
  ASSUME IdempotencyAssumption, IInv, NEW a \in Attempts, Settle(a)
  PROVE  IInv'
<1> USE DEF callers, queue
<1>0. TypeOK /\ OneAtATime /\ HolderRuns /\ SettlesItsAnswer /\ TriesLeft /\ RecordStands /\ ReplayStands
  BY DEF IInv
<1>1. TypeOK'
  <2>1. record' \in Record
    <3> DEFINE stored == [state |-> "completed", body |-> record.body,
                          response |-> answer[a], expired |-> record.expired]
    <3>1. record' = record \/ record' = stored
      BY <1>0 DEF Settle, TypeOK, Record
    <3>2. at[a] = "settle"
      BY DEF Settle
    <3>3. stored \in Record
      BY <1>0, <3>2 DEF TypeOK, Record, SettlesItsAnswer
    <3> QED BY <1>0, <3>1, <3>3 DEF TypeOK
  <2>2. QED
    BY <1>0, <2>1 DEF Settle, Ends, Fault, IdempotencyAssumption, TypeOK, TriesLeft, Answers, RowState
<1>2. OneAtATime' /\ HolderRuns'
  BY <1>0 DEF Settle, Ends, Fault, TypeOK, OneAtATime, HolderRuns, RunsNow, Live, BodyOf
<1>3. SettlesItsAnswer' /\ TriesLeft'
  BY <1>0 DEF Settle, Ends, Fault, IdempotencyAssumption, TypeOK, SettlesItsAnswer, TriesLeft
<1>4. RecordStands'
  <2>1. at[a] = "settle" /\ RunsNow(a) /\ record.state = "in_progress"
    BY <1>0 DEF Settle, HolderRuns, RunsNow
  <2>2. CASE record' = record
    BY <1>0, <2>1, <2>2 DEF RecordStands
  <2>3. CASE record' = [record EXCEPT !.state = "completed", !.response = answer[a]]
                /\ Ends(a, answer[a])
    <3>1. record'.body = BodyOf(a) /\ record'.response = answer[a]
      BY <1>0, <2>1, <2>3 DEF TypeOK, Record, HolderRuns
    <3>2. a \in ran' /\ at'[a] = "done" /\ answer'[a] = answer[a] /\ req' = req
      BY <1>0, <2>1, <2>3 DEF Settle, Ends, TypeOK, HolderRuns
    <3> QED BY <3>1, <3>2 DEF RecordStands, Stands, BodyOf
  <2> QED BY <2>1, <2>2, <2>3 DEF Settle
<1>5. ReplayStands'
  BY <1>0 DEF Settle, Ends, Fault, TypeOK, HolderRuns, RecordStands, ReplayStands, Stands, RunsNow, BodyOf, Answers
<1> QED BY <1>1, <1>2, <1>3, <1>4, <1>5 DEF IInv

LEMMA AbandonKeeps ==
  ASSUME IdempotencyAssumption, IInv, NEW a \in Attempts, Abandon(a)
  PROVE  IInv'
<1> USE DEF callers, queue
<1>0. TypeOK /\ OneAtATime /\ HolderRuns /\ SettlesItsAnswer /\ TriesLeft /\ RecordStands /\ ReplayStands
  BY DEF IInv
<1>1. TypeOK'
  <2>1. record' \in Record
    <3>1. NoRecord \in Record
      BY DEF NoRecord, Record
    <3>2. record \in Record
      BY <1>0 DEF TypeOK
    <3> QED BY <3>1, <3>2 DEF Abandon
  <2>2. answer[a] \in Answers
    BY <1>0 DEF TypeOK
  <2>3. faults' \in 0 .. MaxFaults
    BY <1>0 DEF Abandon, Fault, TypeOK, IdempotencyAssumption
  <2> QED BY <1>0, <2>1, <2>2, <2>3, EndsType DEF Abandon, TypeOK
<1>2. OneAtATime' /\ HolderRuns'
  BY <1>0 DEF Abandon, Ends, Fault, NoRecord, TypeOK, OneAtATime, HolderRuns, RunsNow, Live, BodyOf
<1>3. SettlesItsAnswer' /\ TriesLeft'
  BY <1>0 DEF Abandon, Ends, Fault, NoRecord, IdempotencyAssumption, TypeOK, SettlesItsAnswer, TriesLeft
<1>4. RecordStands'
  BY <1>0 DEF Abandon, Ends, Fault, NoRecord, TypeOK, HolderRuns, SettlesItsAnswer, RecordStands, Stands, RunsNow, BodyOf
<1>5. ReplayStands'
  BY <1>0 DEF Abandon, Ends, Fault, NoRecord, TypeOK, HolderRuns, RecordStands, ReplayStands, Stands, RunsNow, BodyOf, Answers
<1> QED BY <1>1, <1>2, <1>3, <1>4, <1>5 DEF IInv

LEMMA CrashKeeps ==
  ASSUME IdempotencyAssumption, IInv, NEW a \in Attempts, Crash(a)
  PROVE  IInv'
<1> USE DEF callers, queue
<1>0. TypeOK /\ OneAtATime /\ HolderRuns /\ SettlesItsAnswer /\ TriesLeft /\ RecordStands /\ ReplayStands
  BY DEF IInv
<1>1. TypeOK'
  BY <1>0 DEF Crash, Fault, IdempotencyAssumption, TypeOK, HolderRuns, SettlesItsAnswer, TriesLeft, RunsNow, Answers,
         RowState, Record, Bodies, BodyOf
<1>2. OneAtATime' /\ HolderRuns'
  BY <1>0 DEF Crash, Fault, TypeOK, OneAtATime, HolderRuns, RunsNow, Live, BodyOf
<1>3. SettlesItsAnswer' /\ TriesLeft'
  BY <1>0 DEF Crash, Fault, IdempotencyAssumption, TypeOK, SettlesItsAnswer, TriesLeft
<1>4. RecordStands'
  BY <1>0 DEF Crash, Fault, TypeOK, HolderRuns, SettlesItsAnswer, RecordStands, Stands, RunsNow, BodyOf
<1>5. ReplayStands'
  BY <1>0 DEF Crash, Fault, TypeOK, HolderRuns, RecordStands, ReplayStands, Stands, RunsNow, BodyOf, Answers
<1> QED BY <1>1, <1>2, <1>3, <1>4, <1>5 DEF IInv

LEMMA LeaseEndsKeeps ==
  ASSUME IdempotencyAssumption, IInv, NEW r \in Requests, LeaseEnds(r)
  PROVE  IInv'
<1> USE DEF callers, queue
<1>0. TypeOK /\ OneAtATime /\ HolderRuns /\ SettlesItsAnswer /\ TriesLeft /\ RecordStands /\ ReplayStands
  BY DEF IInv
<1>1. TypeOK'
  BY <1>0 DEF LeaseEnds, Fault, IdempotencyAssumption, TypeOK, HolderRuns, SettlesItsAnswer, TriesLeft, RunsNow, Answers,
         RowState, Record, Bodies, BodyOf
<1>2. OneAtATime' /\ HolderRuns'
  BY <1>0 DEF LeaseEnds, Fault, TypeOK, OneAtATime, HolderRuns, RunsNow, Live, BodyOf
<1>3. SettlesItsAnswer' /\ TriesLeft'
  BY <1>0 DEF LeaseEnds, Fault, IdempotencyAssumption, TypeOK, SettlesItsAnswer, TriesLeft
<1>4. RecordStands'
  BY <1>0 DEF LeaseEnds, Fault, TypeOK, HolderRuns, SettlesItsAnswer, RecordStands, Stands, RunsNow, BodyOf
<1>5. ReplayStands'
  BY <1>0 DEF LeaseEnds, Fault, TypeOK, HolderRuns, RecordStands, ReplayStands, Stands, RunsNow, BodyOf, Answers
<1> QED BY <1>1, <1>2, <1>3, <1>4, <1>5 DEF IInv

LEMMA ExpireKeeps ==
  ASSUME IdempotencyAssumption, IInv, Expire
  PROVE  IInv'
<1> USE DEF callers, queue
<1>0. TypeOK /\ OneAtATime /\ HolderRuns /\ SettlesItsAnswer /\ TriesLeft /\ RecordStands /\ ReplayStands
  BY DEF IInv
<1>1. TypeOK'
  <2>1. record' \in Record
    <3> DEFINE same == [state |-> record.state, body |-> record.body,
                        response |-> record.response, expired |-> TRUE]
    <3>1. record' = same
      BY <1>0 DEF Expire, TypeOK, Record
    <3>2. same \in Record
      BY <1>0 DEF TypeOK, Record
    <3> QED BY <3>1, <3>2
  <2>2. QED
    BY <1>0, <2>1 DEF Expire, IdempotencyAssumption, TypeOK, TriesLeft, Answers, RowState
<1>2. OneAtATime' /\ HolderRuns'
  BY <1>0 DEF Expire, TypeOK, OneAtATime, HolderRuns, RunsNow, Live, BodyOf
<1>3. SettlesItsAnswer' /\ TriesLeft'
  BY <1>0 DEF Expire, IdempotencyAssumption, TypeOK, SettlesItsAnswer, TriesLeft
<1>4. RecordStands'
  BY <1>0 DEF Expire, TypeOK, HolderRuns, SettlesItsAnswer, RecordStands, Stands, RunsNow, BodyOf
<1>5. ReplayStands'
  BY <1>0 DEF Expire, TypeOK, HolderRuns, RecordStands, ReplayStands, Stands, RunsNow, BodyOf, Answers
<1> QED BY <1>1, <1>2, <1>3, <1>4, <1>5 DEF IInv

LEMMA PruneKeeps ==
  ASSUME IdempotencyAssumption, IInv, Prune
  PROVE  IInv'
<1> USE DEF callers, queue
<1>0. TypeOK /\ OneAtATime /\ HolderRuns /\ SettlesItsAnswer /\ TriesLeft /\ RecordStands /\ ReplayStands
  BY DEF IInv
<1>1. TypeOK'
  BY <1>0 DEF Prune, NoRecord, IdempotencyAssumption, TypeOK, HolderRuns, SettlesItsAnswer, TriesLeft, RunsNow, Answers,
         RowState, Record, Bodies, BodyOf
<1>2. OneAtATime' /\ HolderRuns'
  BY <1>0 DEF Prune, NoRecord, TypeOK, OneAtATime, HolderRuns, RunsNow, Live, BodyOf
<1>3. SettlesItsAnswer' /\ TriesLeft'
  BY <1>0 DEF Prune, NoRecord, IdempotencyAssumption, TypeOK, SettlesItsAnswer, TriesLeft
<1>4. RecordStands'
  BY <1>0 DEF Prune, NoRecord, TypeOK, HolderRuns, SettlesItsAnswer, RecordStands, Stands, RunsNow, BodyOf
<1>5. ReplayStands'
  BY <1>0 DEF Prune, NoRecord, TypeOK, HolderRuns, RecordStands, ReplayStands, Stands, RunsNow, BodyOf, Answers
<1> QED BY <1>1, <1>2, <1>3, <1>4, <1>5 DEF IInv

LEMMA StutterKeeps == ASSUME IInv, UNCHANGED vars PROVE IInv'
<1> USE DEF vars, callers, queue
<1>1. TypeOK' /\ OneAtATime' /\ HolderRuns'
  BY DEF IInv, TypeOK, OneAtATime, HolderRuns, RunsNow, Live, BodyOf
<1>2. SettlesItsAnswer' /\ TriesLeft' /\ RecordStands' /\ ReplayStands'
  BY DEF IInv, SettlesItsAnswer, TriesLeft, RecordStands, ReplayStands, Stands, BodyOf
<1> QED BY <1>1, <1>2 DEF IInv

LEMMA Steps == IInv /\ [Next]_vars => IInv'
<1> SUFFICES ASSUME IInv, [Next]_vars PROVE IInv'
  OBVIOUS
<1>1. ASSUME NEW a \in Attempts, Send(a) \/ Deliver(a) \/ Wrapper(a) \/ Crash(a)
      PROVE  IInv'
  BY <1>1, SendKeeps, DeliverKeeps, ClaimKeeps, ReadHolderKeeps, HandleKeeps, SettleKeeps,
     AbandonKeeps, CrashKeeps, IdempotencyAssumption DEF Wrapper
<1>2. ASSUME NEW r \in Requests, LeaseEnds(r) PROVE IInv'
  BY <1>2, LeaseEndsKeeps, IdempotencyAssumption
<1>3. CASE Expire \/ Prune
  BY <1>3, ExpireKeeps, PruneKeeps, IdempotencyAssumption
<1>4. CASE UNCHANGED vars
  BY <1>4, StutterKeeps
<1> QED BY <1>1, <1>2, <1>3, <1>4 DEF Next

(* The invariant holds whatever attempts race, die, are redelivered or outlive *)
(* their lease, for every bound on them.                                       *)
THEOREM Invariance == Spec => []IInv
<1>1. Init => IInv
  BY InitIInv, IdempotencyAssumption
<1> QED BY <1>1, Steps, PTL DEF Spec

(* Every variable keeps its type; in particular a row is tried at most once    *)
(* more than the queue's retry limit.                                          *)
THEOREM TypeCorrect == Spec => []TypeOK
<1>1. IInv => TypeOK
  BY DEF IInv
<1> QED BY <1>1, Invariance, PTL

(* Two handlers never work under one key at the same time.                     *)
THEOREM HandlersExclude == Spec => []OneAtATime
<1>1. IInv => OneAtATime
  BY DEF IInv
<1> QED BY <1>1, Invariance, PTL

(* What a retry is told is what an attempt with the same body came to.         *)
THEOREM ReplaysAreTrue == Spec => []ReplayAnswersTheRequest
<1>1. IInv => ReplayAnswersTheRequest
  BY DEF IInv, ReplayStands, ReplayAnswersTheRequest, Stands
<1> QED BY <1>1, Invariance, PTL
-------------------------------------------------------------------------------
(* The work of a key, counted.                                                 *)
Done == UNION {{b} \X (1 .. effects[b]) : b \in Bodies}

Allowed == 1 + expiries + (IF kind = "job" THEN faults ELSE 0)

(* The work may still be done, or be released to be done, without another end  *)
(* of the retention or another fault: then what is allowed is not used up.     *)
MayWork == ~Live \/ \E a \in Attempts : at[a] \in {"run", "abandon"}

Account ==
    /\ IsFiniteSet(Done) /\ Works \in Nat /\ Works <= Allowed
    /\ MayWork => Works + 1 <= Allowed

LEMMA AllowedIsNat == ASSUME TypeOK PROVE Allowed \in Nat
<1>1. expiries \in Nat /\ faults \in Nat
  BY IdempotencyAssumption DEF TypeOK, IdempotencyAssumption
<1> QED BY <1>1 DEF Allowed

LEMMA InitAccount == ASSUME Init PROVE Account
<1>1. Done = {}
  <2>1. \A b \in Bodies : 1 .. effects[b] = {}
    BY DEF Init
  <2> QED BY <2>1 DEF Done
<1>2. IsFiniteSet(Done) /\ Works = 0
  BY <1>1, FS_EmptySet DEF Works, Done
<1>3. Allowed = 1
  BY DEF Init, Allowed
<1> QED BY <1>2, <1>3 DEF Account

(* The work done once more. *)
LEMMA WorkedOnce ==
  ASSUME TypeOK, Account, NEW b \in Bodies, effects' = [effects EXCEPT ![b] = @ + 1]
  PROVE  IsFiniteSet(Done') /\ Works' = Works + 1
<1>1. PICK n \in Nat : n = effects[b]
  BY DEF TypeOK
<1>2. Done' = Done \cup {<<b, n + 1>>}
  <2>1. \A c \in Bodies : effects'[c] = IF c = b THEN n + 1 ELSE effects[c]
    BY <1>1 DEF TypeOK
  <2>2. 1 .. (n + 1) = (1 .. n) \cup {n + 1}
    OBVIOUS
  <2>3. \A c \in Bodies : {c} \X (1 .. effects'[c])
                          = ({c} \X (1 .. effects[c])) \cup (IF c = b THEN {<<b, n + 1>>} ELSE {})
    BY <1>1, <2>1, <2>2
  <2> QED BY <2>3 DEF Done
<1>3. <<b, n + 1>> \notin Done
  BY <1>1 DEF Done
<1>4. IsFiniteSet(Done \cup {<<b, n + 1>>})
      /\ Cardinality(Done \cup {<<b, n + 1>>}) = Cardinality(Done) + 1
  BY <1>3, FS_AddElement DEF Account
<1> QED BY <1>2, <1>4 DEF Works, Done

LEMMA NothingWorked ==
  ASSUME TypeOK, TypeOK', Account, UNCHANGED effects,
         Allowed <= Allowed', MayWork' => MayWork \/ Allowed + 1 <= Allowed'
  PROVE  Account'
<1>1. Done' = Done /\ Works' = Works
  BY DEF Done, Works
<1>2. Allowed \in Nat /\ Allowed' \in Nat
  <2>1. Allowed \in Nat
    BY AllowedIsNat
  <2>2. expiries' \in Nat /\ faults' \in Nat
    BY IdempotencyAssumption DEF TypeOK, IdempotencyAssumption
  <2>3. (IF kind' = "job" THEN faults' ELSE 0) \in Nat
    BY <2>2
  <2>4. Allowed' = 1 + expiries' + (IF kind' = "job" THEN faults' ELSE 0)
    BY DEF Allowed
  <2>5. \A e, f \in Nat : 1 + e + f \in Nat
    OBVIOUS
  <2> QED BY ONLY <2>1, <2>2, <2>3, <2>4, <2>5
<1> QED BY <1>1, <1>2 DEF Account

LEMMA AccountSteps == IInv /\ Account /\ [Next]_vars => Account'
<1> SUFFICES ASSUME IInv, Account, [Next]_vars, IInv' PROVE Account'
  BY Steps
<1>0. TypeOK /\ TypeOK' /\ OneAtATime /\ HolderRuns
  BY DEF IInv
<1>1. /\ expiries \in Nat /\ faults \in Nat /\ Allowed \in Nat
      /\ at \in [Attempts -> {"idle", "claim", "read", "run", "settle", "abandon", "done"}]
  BY <1>0, AllowedIsNat, IdempotencyAssumption DEF TypeOK, IdempotencyAssumption
<1>2. ASSUME NEW a \in Attempts, Send(a) \/ Deliver(a) PROVE Account'
  <2>1. UNCHANGED effects /\ Allowed' = Allowed /\ record' = record
    BY <1>2 DEF Send, Deliver, Allowed
  <2>2. at' = [at EXCEPT ![a] = "claim"]
    BY <1>2 DEF Send, Deliver
  <2>3. MayWork' => MayWork
    BY <1>1, <2>1, <2>2 DEF MayWork, Live
  <2> QED BY <1>0, <1>1, <2>1, <2>3, NothingWorked
<1>3. ASSUME NEW a \in Attempts, Claim(a) PROVE Account'
  <2>1. UNCHANGED effects /\ Allowed' = Allowed
    BY <1>3 DEF Claim, queue, Allowed
  <2>2. CASE Live
    <3>1. at' = [at EXCEPT ![a] = "read"] /\ record' = record
      BY <1>3, <2>2 DEF Claim
    <3>2. MayWork' => MayWork
      BY <1>1, <3>1 DEF MayWork, Live
    <3> QED BY <1>0, <1>1, <2>1, <3>2, NothingWorked
  <2>3. CASE ~Live
    BY <1>0, <1>1, <2>1, <2>3, NothingWorked DEF MayWork
  <2> QED BY <2>2, <2>3
<1>4. ASSUME NEW a \in Attempts, ReadHolder(a) PROVE Account'
  <2>1. /\ UNCHANGED effects /\ Allowed' = Allowed /\ record' = record
        /\ at' = [at EXCEPT ![a] = "done"]
    BY <1>4 DEF ReadHolder, Ends, Allowed
  <2>2. MayWork' => MayWork
    BY <1>1, <2>1 DEF MayWork, Live
  <2> QED BY <1>0, <1>1, <2>1, <2>2, NothingWorked
<1>5. ASSUME NEW a \in Attempts, Handle(a) PROVE Account'
  <2>1. /\ at[a] = "run" /\ record' = record /\ Allowed' = Allowed /\ MayWork
        /\ BodyOf(a) \in Bodies
    BY <1>0, <1>5 DEF Handle, Allowed, MayWork, TypeOK, BodyOf, Bodies
  <2>2. CASE UNCHANGED effects
    BY <1>0, <1>1, <2>1, <2>2, NothingWorked
  <2>3. CASE /\ effects' = [effects EXCEPT ![BodyOf(a)] = @ + 1]
             /\ at' = [at EXCEPT ![a] = "settle"]
    <3>1. IsFiniteSet(Done') /\ Works' = Works + 1
      <4>1. PICK b \in Bodies : b = BodyOf(a)
        BY <2>1
      <4> QED BY <1>0, <2>3, <4>1, WorkedOnce
    <3>2. ~MayWork'
      <4>1. Live' /\ \A b \in Attempts : b # a => at[b] \notin {"run", "abandon"}
        BY <1>0, <2>1 DEF HolderRuns, OneAtATime, RunsNow, Live
      <4> QED BY <1>1, <2>3, <4>1 DEF MayWork
    <3> QED BY <1>1, <2>1, <3>1, <3>2 DEF Account
  <2> QED BY <1>5, <2>2, <2>3 DEF Handle
<1>6. ASSUME NEW a \in Attempts, Settle(a) PROVE Account'
  <2>1. /\ at[a] = "settle" /\ record.state = "in_progress" /\ Live /\ UNCHANGED effects
        /\ kind' = kind /\ expiries' = expiries
    BY <1>0, <1>6 DEF Settle, HolderRuns, RunsNow
  <2>2. CASE at' = [at EXCEPT ![a] = "done"] /\ (UNCHANGED faults \/ Fault)
    <3>1. Live'
      BY <1>0, <1>6, <2>1 DEF Settle, Live, TypeOK, Record
    <3>2. MayWork' => MayWork
      BY <1>1, <2>2, <3>1 DEF MayWork
    <3>3. Allowed <= Allowed'
      BY <1>1, <2>1, <2>2 DEF Allowed, Fault
    <3> QED BY <1>0, <2>1, <3>2, <3>3, NothingWorked
  <2>3. CASE kind # "http" /\ Fault
    <3>1. kind = "job"
      BY <1>0, <2>3 DEF TypeOK, Kinds
    <3>2. Allowed' = Allowed + 1
      BY <1>1, <2>1, <2>3, <3>1 DEF Allowed, Fault
    <3> QED BY <1>0, <1>1, <2>1, <3>2, NothingWorked
  <2> QED BY <1>6, <2>1, <2>2, <2>3 DEF Settle, Ends
<1>7. ASSUME NEW a \in Attempts, Abandon(a) PROVE Account'
  <2>1. MayWork /\ UNCHANGED effects /\ kind' = kind /\ expiries' = expiries
    BY <1>7 DEF Abandon, MayWork
  <2>2. Allowed <= Allowed'
    BY <1>1, <1>7, <2>1 DEF Abandon, Allowed, Fault
  <2> QED BY <1>0, <2>1, <2>2, NothingWorked
<1>8. ASSUME NEW a \in Attempts, Crash(a) PROVE Account'
  <2>1. /\ UNCHANGED <<effects, kind, expiries, record>> /\ at' = [at EXCEPT ![a] = "done"]
        /\ faults' = faults + 1
    BY <1>8 DEF Crash, Fault
  <2>2. Allowed <= Allowed' /\ (MayWork' => MayWork)
    BY <1>1, <2>1 DEF Allowed, MayWork, Live
  <2> QED BY <1>0, <2>1, <2>2, NothingWorked
<1>9. ASSUME NEW r \in Requests, LeaseEnds(r) PROVE Account'
  <2>1. UNCHANGED <<effects, kind, expiries, record, at>> /\ faults' \in {faults, faults + 1}
    BY <1>9 DEF LeaseEnds, Fault, callers
  <2>2. Allowed <= Allowed'
    <3>1. CASE kind = "job"
      <4>1. Allowed = 1 + expiries + faults /\ Allowed' = 1 + expiries + faults'
        BY <2>1, <3>1 DEF Allowed
      <4>2. CASE faults' = faults
        BY <1>1, <4>1, <4>2
      <4>3. CASE faults' = faults + 1
        BY <1>1, <4>1, <4>3
      <4> QED BY <2>1, <4>2, <4>3
    <3>2. CASE kind # "job"
      BY <1>1, <2>1, <3>2 DEF Allowed
    <3> QED BY <3>1, <3>2
  <2>3. MayWork' => MayWork
    BY <2>1 DEF MayWork, Live
  <2> QED BY <1>0, <2>1, <2>2, <2>3, NothingWorked
<1>10. CASE Expire
  <2>1. UNCHANGED effects /\ Allowed' = Allowed + 1
    BY <1>1, <1>10 DEF Expire, Allowed
  <2> QED BY <1>0, <1>1, <2>1, NothingWorked
<1>11. CASE Prune
  <2>1. UNCHANGED effects /\ Allowed' = Allowed /\ MayWork
    BY <1>11 DEF Prune, Allowed, MayWork, Live
  <2> QED BY <1>0, <1>1, <2>1, NothingWorked
<1>12. CASE UNCHANGED vars
  <2>1. UNCHANGED effects /\ Allowed' = Allowed /\ (MayWork' => MayWork)
    BY <1>12 DEF vars, callers, queue, Allowed, MayWork, Live
  <2> QED BY <1>0, <1>1, <2>1, NothingWorked
<1> QED BY <1>2, <1>3, <1>4, <1>5, <1>6, <1>7, <1>8, <1>9, <1>10, <1>11, <1>12 DEF Next, Wrapper

(* The work of a key is done once for every retention, and a job's once more    *)
(* for every fault, however many attempts race, retry, fail or die: an attempt  *)
(* has the record to itself from its claim until the work is stored, released   *)
(* undone or, for a job, forgotten by a failing statement.                      *)
THEOREM WorksOnlyOnce == Spec => []WorksOnce
<1>1. Init => Account
  BY InitAccount
<1>2. Account => WorksOnce
  BY DEF Account, WorksOnce, Allowed
<1> QED BY <1>1, <1>2, AccountSteps, Invariance, PTL DEF Spec

===============================================================================

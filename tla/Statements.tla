------------------------------ MODULE Statements ------------------------------
(***************************************************************************)
(* What the platform owes one merchant in one region, and the weekly        *)
(* statements that claim it: captures and recoveries move the merchant's    *)
(* payable in services/ledger, the worker's hourly job generates a          *)
(* statement per closed week, the business may dispute it, and staff pay    *)
(* it out after its dispute window.                                         *)
(*                                                                           *)
(* An entry bears the time at which its transaction began and is seen once   *)
(* it has committed, so a week's entries may still arrive when the week is   *)
(* over.  Time is cut into three instants a week: its first hour, the days   *)
(* after it, its last hour.  No transaction lasts an hour: requests end      *)
(* after ten seconds.  Every capture is worth one unit.                      *)
(***************************************************************************)
EXTENDS Integers, FiniteSets

CONSTANTS
    Captures,    \* captures of the merchant's vouchers, as ledgerpost posts them
    LongWeeks,   \* weeks of 169 hours
    ShortWeeks,  \* weeks of 167 hours
    WeeksBack,   \* closed weeks a run of the job looks at
    Outlives,    \* may a request be worked on after its caller has given it up?
    MaxWeek,     \* bound on the calendar
    MaxOpen,     \* bound on transactions under way at once
    MaxFaults    \* bound on disputes, lost requests and runs of the job that die

ASSUME StatementsAssumption ==
    /\ IsFiniteSet(Captures)
    /\ {WeeksBack, MaxWeek} \subseteq Nat \ {0}
    /\ {MaxOpen, MaxFaults} \subseteq Nat
    /\ Outlives \in BOOLEAN
    /\ LongWeeks \cap ShortWeeks = {}

VARIABLES
    now,        \* the instant
    captured,   \* ledger.capture: when each was posted, or Never
    recovered,  \* ledger.capture_recovery, likewise
    open,       \* transactions of the ledger under way
    statement,  \* ledger.statement by the week it is for
    asks,       \* generate requests in the ledger that have read the entries
    job,        \* the run of settlement-statements under way: [at, week, last]
    faults

books == <<captured, recovered>>
vars  == <<now, books, open, statement, asks, job, faults>>

Never  == -1
Weeks  == 0 .. MaxWeek
From(week) == 3 * week
To(week)   == 3 * (week + 1)
Times  == 0 .. From(MaxWeek) + 1
Dates  == Times \cup {Never}

Figures == [opening : Int, captures : Nat, recoveries : Nat, closing : Int]
Absent  == [status |-> "absent"]
NewStatement(figures) ==
    [status |-> "open", figures |-> figures, disputed |-> FALSE,
     resolved |-> FALSE, paidAt |-> Never]
Statement == [status : {"open", "disputed", "paid"}, figures : Figures,
              disputed : BOOLEAN, resolved : BOOLEAN, paidAt : Dates]

Exists(week)  == statement[week] # Absent
Closing(week) == statement[week].figures.closing
Idle == [at |-> "idle", week |-> 0, last |-> 0]

Init ==
    /\ now = 0
    /\ captured = [c \in Captures |-> Never]
    /\ recovered = [c \in Captures |-> Never]
    /\ open = {}
    /\ statement = [week \in Weeks |-> Absent]
    /\ asks = {}
    /\ job = Idle
    /\ faults = 0

Fault   == faults < MaxFaults /\ faults' = faults + 1

Tick ==
    /\ now + 1 \in Times
    /\ \A t \in open : t.at = now
    /\ now' = now + 1
    /\ UNCHANGED <<books, open, statement, asks, job, faults>>

-------------------------------------------------------------------------------
(* The merchant's payable, as its entries tell it. *)

\* Statements' closing payables, each with its week.  Nothing but what is owed
\* is paid out or carried, so counting its units adds them up.
Amounts(weeks)  == {<<w, Closing(w)>> : w \in weeks}
Total(amounts)  == Cardinality(UNION {{a} \X (1 .. a[2]) : a \in amounts})

\* Weeks whose payout was posted in a stretch of time.
PaidOut(first, end) ==
    {w \in Weeks : Exists(w) /\ statement[w].paidAt # Never
                             /\ first <= statement[w].paidAt /\ statement[w].paidAt < end}

CapturesIn(first, end)   == {c \in Captures : first <= captured[c] /\ captured[c] < end}
RecoveriesIn(first, end) == {c \in Captures : first <= recovered[c] /\ recovered[c] < end}

Net(first, end) ==
    Cardinality(CapturesIn(first, end)) - Cardinality(RecoveriesIn(first, end))
        - Total(Amounts(PaidOut(first, end)))

BalanceBefore(time) == Net(0, time)
Payable == BalanceBefore(To(MaxWeek))

\* A seeded bug, as are the other operators named ..Bug: no definition of the
\* model uses them.  What was paid by now is not carried, whenever it was paid.
CarriedBug(week) ==
    {w \in Weeks : w < week /\ Exists(w) /\ Closing(w) > 0 /\ statement[w].paidAt = Never}

\* StatementCarryNotYetPaid: what earlier statements claim and the account
\* still holds when this one's period ends.
Carried(week) ==
    {w \in Weeks : w < week /\ Exists(w) /\ Closing(w) > 0
                   /\ (statement[w].paidAt = Never \/ statement[w].paidAt >= To(week))}

Compute(week) ==
    LET opening == BalanceBefore(From(week)) - Total(Amounts(Carried(week))) IN
    [opening    |-> opening,
     captures   |-> Cardinality(CapturesIn(From(week), To(week))),
     recoveries |-> Cardinality(RecoveriesIn(From(week), To(week))),
     closing    |-> opening + Net(From(week), To(week))]

-------------------------------------------------------------------------------
(* Transactions that post entries.  One that is refused, times out or loses a  *)
(* serialization conflict leaves no trace; begun again it bears a new time.    *)

Transaction ==
    [kind : {"capture", "recovery"}, of : Captures, at : Times]
        \cup [kind : {"payout"}, of : Weeks, at : Times]

Begin(kind, of) ==
    /\ Cardinality(open) < MaxOpen
    /\ open' = open \cup {[kind |-> kind, of |-> of, at |-> now]}
    /\ UNCHANGED <<now, books, statement, asks, job, faults>>

\* The outbox delivers a capture at least once.
PostCapture(c) == captured[c] = Never /\ Begin("capture", c)

PostRecovery(c) == captured[c] # Never /\ recovered[c] = Never /\ Begin("recovery", c)

\* Seven days after the week, whose successor may last an hour more or less.
WindowEnds(week) ==
    From(week + 2) + (IF week + 1 \in ShortWeeks THEN 1 ELSE 0)
                   - (IF week + 1 \in LongWeeks THEN 1 ELSE 0)

ApprovePayout(week) ==
    /\ Exists(week) /\ statement[week].status = "open"
    /\ now >= WindowEnds(week)
    /\ Begin("payout", week)

CommitCapture(t) ==
    /\ t.kind = "capture"
    /\ captured' = IF captured[t.of] = Never THEN [captured EXCEPT ![t.of] = t.at] ELSE captured
    /\ UNCHANGED <<recovered, statement>>

\* The payable never goes below zero.
CommitRecovery(t) ==
    /\ t.kind = "recovery"
    /\ recovered[t.of] = Never /\ Payable > 0
    /\ recovered' = [recovered EXCEPT ![t.of] = t.at]
    /\ UNCHANGED <<captured, statement>>

\* A seeded bug: the statement is marked whatever it has become since it was read.
CommitPayoutBug(t) ==
    /\ t.kind = "payout"
    /\ Closing(t.of) > 0 => Payable >= Closing(t.of)
    /\ statement' = [statement EXCEPT ![t.of].status = "paid",
                                      ![t.of].paidAt = IF Closing(t.of) > 0 THEN t.at ELSE Never]
    /\ UNCHANGED books

\* Nothing owed is marked paid with no transfer.
CommitPayout(t) ==
    /\ t.kind = "payout"
    /\ statement[t.of].status = "open"
    /\ Closing(t.of) > 0 => Payable >= Closing(t.of)
    /\ statement' = [statement EXCEPT ![t.of].status = "paid",
                                      ![t.of].paidAt = IF Closing(t.of) > 0 THEN t.at ELSE Never]
    /\ UNCHANGED books

Commit(t) ==
    /\ CommitCapture(t) \/ CommitRecovery(t) \/ CommitPayout(t)
    /\ open' = open \ {t}
    /\ UNCHANGED <<now, asks, job, faults>>

Abort(t) ==
    /\ open' = open \ {t}
    /\ UNCHANGED <<now, books, statement, asks, job, faults>>

-------------------------------------------------------------------------------
(* The dispute of a statement. *)

\* A check of the table ledger.statement.
Permitted(row) == (row.status = "disputed") <=> (row.disputed /\ ~row.resolved)

Disputed(row) == [row EXCEPT !.status = "disputed", !.disputed = TRUE]

Dispute(week) ==
    /\ Exists(week) /\ statement[week].status = "open"
    /\ Permitted(Disputed(statement[week]))
    /\ Fault
    /\ statement' = [statement EXCEPT ![week] = Disputed(@)]
    /\ UNCHANGED <<now, books, open, asks, job>>

Resolve(week) ==
    /\ Exists(week) /\ statement[week].status = "disputed"
    /\ statement' = [statement EXCEPT ![week].status = "open", ![week].resolved = TRUE]
    /\ UNCHANGED <<now, books, open, asks, job, faults>>

-------------------------------------------------------------------------------
(* The job. *)

\* A seeded bug: a week is closed as soon as it is over.
LastClosedBug == (now \div 3) - 1

\* The last week that ended an hour ago or more.
LastClosed == ((now - 1) \div 3) - 1

StartRun ==
    /\ job.at = "idle" /\ LastClosed >= 0
    /\ LET first == LastClosed - WeeksBack + 1 IN
       job' = [at |-> "due", week |-> IF first > 0 THEN first ELSE 0, last |-> LastClosed]
    /\ UNCHANGED <<now, books, open, statement, asks, faults>>

NextWeek == IF job.week < job.last
            THEN [job EXCEPT !.at = "due", !.week = @ + 1] ELSE Idle

Moved(week) ==
    \/ CapturesIn(From(week), To(week)) # {}
    \/ RecoveriesIn(From(week), To(week)) # {}
    \/ PaidOut(From(week), To(week)) # {}

NoneYet == \A w \in Weeks : ~Exists(w)

Due(week) ==
    /\ \A w \in Weeks : Exists(w) => w < week
    /\ Moved(week) \/ (NoneYet /\ BalanceBefore(To(week)) # 0)

AskDue ==
    /\ job.at = "due"
    /\ job' = IF Due(job.week) THEN [job EXCEPT !.at = "generate"] ELSE NextWeek
    /\ UNCHANGED <<now, books, open, statement, asks, faults>>

\* GenerateOrGet up to its insert.
Generate ==
    /\ job.at = "generate"
    /\ IF Exists(job.week) THEN job' = NextWeek /\ UNCHANGED asks
       ELSE /\ job' = [job EXCEPT !.at = "waiting"]
            /\ asks' = asks \cup {[week |-> job.week, figures |-> Compute(job.week)]}
    /\ UNCHANGED <<now, books, open, statement, faults>>

\* One statement per period: the first insert is the answer.
Insert(ask) ==
    /\ asks' = asks \ {ask}
    /\ statement' = IF Exists(ask.week) THEN statement
                    ELSE [statement EXCEPT ![ask.week] = NewStatement(ask.figures)]
    /\ UNCHANGED <<now, books, open, job, faults>>

Answered ==
    /\ job.at = "waiting" /\ \A ask \in asks : ask.week # job.week
    /\ job' = NextWeek
    /\ UNCHANGED <<now, books, open, statement, asks, faults>>

\* The ledger stops working on a request when its connection goes.
Abandoned == IF Outlives THEN asks ELSE {}

\* One business's failure does not hold the next week back.
GenerateFails ==
    /\ job.at \in {"generate", "waiting"} /\ Fault
    /\ job' = NextWeek /\ asks' = Abandoned
    /\ UNCHANGED <<now, books, open, statement>>

Dies ==
    /\ job.at # "idle" /\ Fault
    /\ job' = Idle /\ asks' = Abandoned
    /\ UNCHANGED <<now, books, open, statement>>

-------------------------------------------------------------------------------
JobSteps == StartRun \/ AskDue \/ Generate \/ Answered

Next ==
    \/ Tick
    \/ \E c \in Captures : PostCapture(c) \/ PostRecovery(c)
    \/ \E week \in Weeks : ApprovePayout(week) \/ Dispute(week) \/ Resolve(week)
    \/ \E t \in open : Commit(t) \/ Abort(t)
    \/ \E ask \in asks : Insert(ask)
    \/ JobSteps \/ GenerateFails \/ Dies

Spec == Init /\ [][Next]_vars

\* Time passes, transactions end, the job is run every hour and its requests
\* are answered.
FairSpec ==
    /\ Spec
    /\ WF_vars(Tick) /\ WF_vars(JobSteps)
    /\ WF_vars(\E t \in open : t.at < now /\ (Commit(t) \/ Abort(t)))
    /\ WF_vars(\E ask \in asks : Insert(ask))

-------------------------------------------------------------------------------
(* The variables have their types. *)
TypeOK ==
    /\ now \in Times
    /\ captured \in [Captures -> Dates] /\ recovered \in [Captures -> Dates]
    /\ open \subseteq Transaction
    /\ statement \in [Weeks -> Statement \cup {Absent}]
    /\ asks \subseteq [week : Weeks, figures : Figures]
    /\ job \in [at : {"idle", "due", "generate", "waiting"}, week : Weeks, last : Weeks]
    /\ faults \in 0 .. MaxFaults

Latest(week) == Exists(week) /\ \A w \in Weeks : Exists(w) => w <= week

Claiming(week) == {w \in Weeks : w < week /\ Exists(w) /\ Closing(w) > 0}

(* Every cent the merchant has earned by the end of the latest statement is    *)
(* claimed by one statement and by one only, also when weeks were skipped,     *)
(* statements were generated late or paid in between, and captures recovered   *)
(* after they were claimed (a negative closing is set off against the next).   *)
EachCentClaimedOnce ==
    \A week \in Weeks : Latest(week) =>
        Total(Amounts(Claiming(week))) + Closing(week) =
            Cardinality(CapturesIn(0, To(week))) - Cardinality(RecoveriesIn(0, To(week)))

(* A stored statement is what a recomputation from the entries answers, at any *)
(* later time: nothing arrives in a period once its statement was computed.    *)
RecomputationMatches ==
    \A week \in Weeks : Exists(week) => statement[week].figures = Compute(week)

(* A payout takes effect only on a statement that is open at that moment: a    *)
(* dispute raised while the payout was being approved holds it, and a          *)
(* statement is paid once.                                                     *)
DisputeHoldsPayout ==
    [][\A week \in Weeks :
           Exists(week) =>
               \/ statement'[week] = statement[week]
               \/ statement[week].status = "open"
               \/ statement[week].status = "disputed" /\ statement'[week].status = "open"]_vars

(* What was captured in a week that closes within the calendar is in the end   *)
(* covered by a statement, whatever requests were lost and runs died.          *)
PostedIsClaimed ==
    \A c \in Captures :
        captured[c] # Never /\ captured[c] < From(MaxWeek) ~>
            \E week \in Weeks : Exists(week) /\ captured[c] < To(week)

(* The lines of a statement add up to its closing payable: opening, plus       *)
(* captures, minus recoveries.                                                 *)
FiguresAddUp ==
    \A week \in Weeks : Exists(week) =>
        LET f == statement[week].figures IN f.closing = f.opening + f.captures - f.recoveries

(* An open statement can be disputed.                                          *)
OpenIsDisputable ==
    \A week \in Weeks : Exists(week) /\ statement[week].status = "open" =>
        Permitted(Disputed(statement[week]))
===============================================================================

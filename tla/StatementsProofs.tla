--------------------------- MODULE StatementsProofs ---------------------------
(***************************************************************************)
(* A stored statement stays what a recomputation answers, as long as a       *)
(* request that was given up is not carried out later: no entry of a period  *)
(* is missing when its statement is computed, and statements come in order.  *)
(* So every cent is claimed once: what earlier statements claim was paid      *)
(* before the week, was paid in it or is carried.  And no payout takes       *)
(* effect on a statement that is not open.                                   *)
(***************************************************************************)
EXTENDS Statements, FiniteSetTheorems, TLAPS

USE StatementsAssumption

-------------------------------------------------------------------------------
(* The inductive invariant. *)

(* Rows of the ledger; what the figures are is left open. *)
Row(F) == [status : {"open", "disputed", "paid"}, figures : F, disputed : BOOLEAN,
           resolved : BOOLEAN, paidAt : Dates]
IsRow(row) == \E F : row \in Row(F)

(* Only a paid statement has a payout. *)
Rows ==
    /\ statement = [w \in Weeks |-> statement[w]]
    /\ \A w \in Weeks : Exists(w) =>
           IsRow(statement[w]) /\ (statement[w].status # "paid" => statement[w].paidAt = Never)

Typed ==
    /\ now \in Times
    /\ captured \in [Captures -> Dates] /\ recovered \in [Captures -> Dates]
    /\ open \subseteq Transaction
    /\ \A a \in asks : a = [week |-> a.week, figures |-> a.figures] /\ a.week \in Weeks
    /\ job \in [at : {"idle", "due", "generate", "waiting"}, week : Weeks, last : Weeks]

(* No transaction outlives two instants, and a payout is of a statement. *)
Recent == \A t \in open : now - 1 <= t.at /\ (t.kind = "payout" => Exists(t.of))

(* Only weeks that ended an hour ago are looked at. *)
Over(week) == To(week) < now
OnlyClosed ==
    /\ \A w \in Weeks : Exists(w) => Over(w)
    /\ job.at # "idle" => Over(job.last) /\ job.week <= job.last

(* The request under way is the one the job waits for, and no statement is     *)
(* for a later week.                                                           *)
InOrder ==
    /\ \A a \in asks : job.at = "waiting" /\ a.week = job.week
    /\ job.at \in {"generate", "waiting"} => \A w \in Weeks : Exists(w) => w <= job.week

Asked == \A a \in asks : a.figures = Compute(a.week)

IInv == Typed /\ Rows /\ Recent /\ OnlyClosed /\ InOrder /\ Asked /\ RecomputationMatches

-------------------------------------------------------------------------------
(* What a step may do without disturbing the figures of a week: post entries   *)
(* dated after it, and store statements that are for no earlier week.          *)
KeepsDates(dates, new, week) ==
    \A c \in Captures : new[c] = dates[c] \/ (dates[c] = Never /\ new[c] \in Nat /\ new[c] >= To(week))

KeepsRows(week) ==
    \A w \in Weeks :
        /\ Exists(w) => /\ Exists(w)' /\ Closing(w)' = Closing(w)
                        /\ \/ statement'[w].paidAt = statement[w].paidAt
                           \/ /\ statement[w].paidAt = Never
                              /\ statement'[w].paidAt \in Nat /\ statement'[w].paidAt >= To(week)
        /\ ~Exists(w) /\ Exists(w)' => week <= w /\ statement'[w].paidAt = Never

LEMMA Instants ==
    /\ \A w \in Weeks : /\ From(w) \in Nat /\ To(w) \in Nat /\ From(w) < To(w)
                        /\ w \in Nat /\ 0 <= From(w)
    /\ \A t \in Times : t \in Nat
    /\ Dates \subseteq Int /\ \A d \in Dates : d = Never \/ 0 <= d
    /\ Never \in Dates /\ Never < 0
BY DEF Weeks, From, To, Times, Dates, Never

(* The sets the figures are made of. *)
LEMMA SameDates ==
    ASSUME NEW week \in Weeks, Typed, KeepsDates(captured, captured', week),
           KeepsDates(recovered, recovered', week),
           NEW first \in Nat, NEW end \in Nat, end <= To(week)
    PROVE  /\ CapturesIn(first, end)' = CapturesIn(first, end)
           /\ RecoveriesIn(first, end)' = RecoveriesIn(first, end)
<1>1. To(week) \in Nat /\ \A c \in Captures : captured[c] \in Int /\ recovered[c] \in Int
  BY Instants DEF Typed
<1>2. ASSUME NEW c \in Captures
      PROVE  /\ (first <= captured[c] /\ captured[c] < end)' <=> first <= captured[c] /\ captured[c] < end
             /\ (first <= recovered[c] /\ recovered[c] < end)' <=> first <= recovered[c] /\ recovered[c] < end
  BY <1>1 DEF KeepsDates, Never
<1> QED BY <1>2 DEF CapturesIn, RecoveriesIn

LEMMA SamePaid ==
    ASSUME NEW week \in Weeks, Rows, KeepsRows(week),
           NEW first \in Nat, NEW end \in Nat, end <= To(week)
    PROVE  Amounts(PaidOut(first, end))' = Amounts(PaidOut(first, end))
<1>1. ASSUME NEW w \in Weeks PROVE (w \in PaidOut(first, end))' <=> w \in PaidOut(first, end)
  <2>1. Exists(w) => statement[w].paidAt \in Int
    BY Instants DEF Rows, IsRow, Row
  <2>2. To(week) \in Nat
    BY Instants
  <2>3. CASE Exists(w)
    <3>1. PICK p \in Int : p = statement[w].paidAt
      BY <2>1, <2>3
    <3>2. CASE statement'[w].paidAt = p
      BY <2>3, <3>1, <3>2 DEF KeepsRows, PaidOut
    <3>3. CASE p = Never /\ statement'[w].paidAt \in Nat /\ statement'[w].paidAt >= To(week)
      BY <2>2, <2>3, <3>1, <3>3 DEF KeepsRows, PaidOut
    <3> QED BY <2>3, <3>1, <3>2, <3>3 DEF KeepsRows
  <2>4. CASE ~Exists(w)
    BY <2>4 DEF KeepsRows, PaidOut
  <2> QED BY <2>3, <2>4
<1>2. PaidOut(first, end)' = PaidOut(first, end)
  BY <1>1 DEF PaidOut
<1>3. \A w \in PaidOut(first, end) : Closing(w)' = Closing(w)
  BY DEF KeepsRows, PaidOut
<1> QED BY <1>2, <1>3 DEF Amounts

LEMMA SameCarried ==
    ASSUME NEW week \in Weeks, Rows, KeepsRows(week)
    PROVE  Amounts(Carried(week))' = Amounts(Carried(week))
<1>1. ASSUME NEW w \in Weeks PROVE (w \in Carried(week))' <=> w \in Carried(week)
  <2>1. Exists(w) => statement[w].paidAt \in Int
    BY Instants DEF Rows, IsRow, Row
  <2>2. To(week) \in Nat /\ week \in Nat /\ w \in Nat
    BY Instants
  <2>3. CASE Exists(w)
    <3>1. PICK p \in Int : p = statement[w].paidAt
      BY <2>1, <2>3
    <3>2. CASE statement'[w].paidAt = p
      BY <2>3, <3>1, <3>2 DEF KeepsRows, Carried
    <3>3. CASE p = Never /\ statement'[w].paidAt \in Nat /\ statement'[w].paidAt >= To(week)
      BY <2>2, <2>3, <3>1, <3>3 DEF KeepsRows, Carried
    <3> QED BY <2>3, <3>1, <3>2, <3>3 DEF KeepsRows
  <2>4. CASE ~Exists(w)
    BY <2>2, <2>4 DEF KeepsRows, Carried
  <2> QED BY <2>3, <2>4
<1>2. Carried(week)' = Carried(week)
  BY <1>1 DEF Carried
<1>3. \A w \in Carried(week) : Closing(w)' = Closing(w)
  BY DEF KeepsRows, Carried
<1> QED BY <1>2, <1>3 DEF Amounts

LEMMA SameFigures ==
    ASSUME NEW week \in Weeks, Typed, Rows, KeepsRows(week),
           KeepsDates(captured, captured', week), KeepsDates(recovered, recovered', week)
    PROVE  Compute(week)' = Compute(week)
<1>1. From(week) \in Nat /\ To(week) \in Nat /\ From(week) <= To(week)
  BY Instants
<1>2. /\ CapturesIn(0, From(week))' = CapturesIn(0, From(week))
      /\ RecoveriesIn(0, From(week))' = RecoveriesIn(0, From(week))
      /\ CapturesIn(From(week), To(week))' = CapturesIn(From(week), To(week))
      /\ RecoveriesIn(From(week), To(week))' = RecoveriesIn(From(week), To(week))
  BY <1>1, SameDates
<1>3. /\ Amounts(PaidOut(0, From(week)))' = Amounts(PaidOut(0, From(week)))
      /\ Amounts(PaidOut(From(week), To(week)))' = Amounts(PaidOut(From(week), To(week)))
  BY <1>1, SamePaid
<1>4. Amounts(Carried(week))' = Amounts(Carried(week))
  BY SameCarried
<1> QED BY <1>2, <1>3, <1>4, Zenon DEF Compute, BalanceBefore, Net

-------------------------------------------------------------------------------
(* What is stored or asked stays what is computed, if no step disturbs a week  *)
(* that is over.                                                               *)
LEMMA AskedIsOver == IInv => \A a \in asks : a.week \in Weeks /\ Over(a.week)
BY Instants DEF IInv, Typed, OnlyClosed, InOrder, Over, To, Weeks

LEMMA Kept ==
    ASSUME IInv, asks' \subseteq asks,
           \A w \in Weeks : Over(w) =>
               /\ KeepsDates(captured, captured', w) /\ KeepsDates(recovered, recovered', w)
               /\ KeepsRows(w),
           \A w \in Weeks : Exists(w)' =>
               Exists(w) /\ statement'[w].figures = statement[w].figures
    PROVE  RecomputationMatches' /\ Asked'
<1>1. \A w \in Weeks : Over(w) => Compute(w)' = Compute(w)
  BY SameFigures DEF IInv
<1>2. RecomputationMatches'
  BY <1>1 DEF IInv, OnlyClosed, RecomputationMatches
<1>3. Asked'
  BY <1>1, AskedIsOver DEF IInv, Asked
<1> QED BY <1>2, <1>3

LEMMA SameBooks ==
    ASSUME IInv, UNCHANGED books
    PROVE  \A w \in Weeks : KeepsDates(captured, captured', w) /\ KeepsDates(recovered, recovered', w)
BY DEF KeepsDates, books

LEMMA SameRows ==
    ASSUME IInv, UNCHANGED statement
    PROVE  /\ Rows' /\ \A w \in Weeks : KeepsRows(w)
           /\ \A w \in Weeks : Exists(w)' => Exists(w) /\ statement'[w].figures = statement[w].figures
BY DEF IInv, Rows, IsRow, KeepsRows, Exists, Closing

(* A step that neither posts entries nor writes statements. *)
LEMMA Frame ==
    ASSUME IInv, UNCHANGED <<books, statement>>
    PROVE  /\ Rows' /\ RecomputationMatches'
           /\ \A w \in Weeks : Exists(w)' = Exists(w)
           /\ \A w \in Weeks : Over(w) => Compute(w)' = Compute(w)
           /\ asks' \subseteq asks => Asked'
<1>1. \A w \in Weeks : Over(w) => Compute(w)' = Compute(w)
  BY SameFigures, SameBooks, SameRows DEF IInv
<1>2. RecomputationMatches'
  BY <1>1, SameRows DEF IInv, OnlyClosed, RecomputationMatches
<1>3. asks' \subseteq asks => Asked'
  BY <1>1, AskedIsOver DEF IInv, Asked
<1> QED BY <1>1, <1>2, <1>3, SameRows DEF Exists

-------------------------------------------------------------------------------
LEMMA Initially == Init => IInv
BY Instants DEF Init, IInv, Typed, Rows, Recent, OnlyClosed, InOrder, Asked,
                RecomputationMatches, Exists, Absent, Idle, Times, Weeks, From, To, Dates

LEMMA Ticks == ASSUME IInv, Tick PROVE IInv'
<1>1. Rows' /\ RecomputationMatches' /\ Asked'
  BY Frame DEF Tick
<1>2. Typed'
  BY DEF IInv, Typed, Tick, books
<1>3. now \in Int /\ now' = now + 1
  BY Instants DEF IInv, Typed, Tick
<1>4. Recent'
  BY <1>3 DEF IInv, Recent, Tick, Exists
<1>5. OnlyClosed'
  BY <1>3, Instants DEF IInv, Typed, OnlyClosed, Over, Tick, Exists, To
<1>6. InOrder'
  BY DEF IInv, InOrder, Tick, Exists
<1> QED BY <1>1, <1>2, <1>4, <1>5, <1>6 DEF IInv

LEMMA Begins ==
    ASSUME IInv, NEW kind, NEW of, Begin(kind, of),
           \/ kind \in {"capture", "recovery"} /\ of \in Captures
           \/ kind = "payout" /\ of \in Weeks /\ Exists(of)
    PROVE  IInv'
<1>1. Rows' /\ RecomputationMatches' /\ Asked'
  BY Frame DEF Begin
<1>2. [kind |-> kind, of |-> of, at |-> now] \in Transaction
  BY DEF Transaction, IInv, Typed
<1>3. Typed'
  BY <1>2 DEF IInv, Typed, Begin, books
<1>4. Recent'
  BY Instants DEF IInv, Typed, Recent, Begin, Exists
<1>5. OnlyClosed' /\ InOrder'
  BY DEF IInv, OnlyClosed, InOrder, Over, Begin, Exists
<1> QED BY <1>1, <1>3, <1>4, <1>5 DEF IInv

LEMMA Ends == ASSUME IInv, NEW t \in open, Abort(t) PROVE IInv'
<1>1. Rows' /\ RecomputationMatches' /\ Asked'
  BY Frame DEF Abort
<1>2. Typed'
  BY DEF IInv, Typed, Abort, books
<1>3. Recent' /\ OnlyClosed' /\ InOrder'
  BY DEF IInv, Recent, OnlyClosed, InOrder, Over, Abort, Exists
<1> QED BY <1>1, <1>2, <1>3 DEF IInv

(* An entry that commits now is dated after every week that is over. *)
LEMMA Late ==
    ASSUME IInv, NEW t \in open
    PROVE  t.at \in Nat /\ t.at \in Dates /\ \A w \in Weeks : Over(w) => t.at >= To(w)
<1>1. t.at \in Times /\ now \in Int /\ now - 1 <= t.at
  BY Instants DEF IInv, Typed, Recent, Transaction
<1> QED BY <1>1, Instants DEF Over, Dates

LEMMA CommitsCapture ==
    ASSUME IInv, NEW t \in open, Commit(t), CommitCapture(t)
    PROVE  IInv'
<1>1. t.of \in Captures
  BY DEF IInv, Typed, Transaction, CommitCapture
<1>2. \A w \in Weeks : Over(w) => KeepsDates(captured, captured', w)
  BY <1>1, Late DEF IInv, Typed, CommitCapture, KeepsDates
<1>3. \A w \in Weeks : KeepsDates(recovered, recovered', w)
  BY DEF KeepsDates, CommitCapture
<1>4. RecomputationMatches' /\ Asked' /\ Rows'
  BY <1>2, <1>3, SameRows, Kept DEF CommitCapture, Commit
<1>5. Typed'
  BY <1>1, Late DEF IInv, Typed, Commit, CommitCapture
<1>6. Recent' /\ OnlyClosed' /\ InOrder'
  BY DEF IInv, Recent, OnlyClosed, InOrder, Over, Commit, CommitCapture, Exists
<1> QED BY <1>4, <1>5, <1>6 DEF IInv

LEMMA CommitsRecovery ==
    ASSUME IInv, NEW t \in open, Commit(t), CommitRecovery(t)
    PROVE  IInv'
<1>1. t.of \in Captures
  BY DEF IInv, Typed, Transaction, CommitRecovery
<1>2. \A w \in Weeks : Over(w) => KeepsDates(recovered, recovered', w)
  BY <1>1, Late DEF IInv, Typed, CommitRecovery, KeepsDates
<1>3. \A w \in Weeks : KeepsDates(captured, captured', w)
  BY DEF KeepsDates, CommitRecovery
<1>4. RecomputationMatches' /\ Asked' /\ Rows'
  BY <1>2, <1>3, SameRows, Kept DEF CommitRecovery, Commit
<1>5. Typed'
  BY <1>1, Late DEF IInv, Typed, Commit, CommitRecovery
<1>6. Recent' /\ OnlyClosed' /\ InOrder'
  BY DEF IInv, Recent, OnlyClosed, InOrder, Over, Commit, CommitRecovery, Exists
<1> QED BY <1>4, <1>5, <1>6 DEF IInv

(* Writing to a row leaves the others alone, and its figures. *)
Rewrites(week, row) ==
    /\ statement' = [statement EXCEPT ![week] = row]
    /\ IsRow(row) /\ (row.status # "paid" => row.paidAt = Never)
    /\ row.figures = statement[week].figures

LEMMA Rewritten ==
    ASSUME IInv, NEW week \in Weeks, NEW row, Exists(week), Rewrites(week, row)
    PROVE  /\ Rows' /\ \A w \in Weeks : Exists(w)' = Exists(w)
           /\ \A w \in Weeks : Closing(w)' = Closing(w)
           /\ \A w \in Weeks : statement'[w].figures = statement[w].figures
           /\ statement'[week] = row
           /\ \A w \in Weeks \ {week} : statement'[w] = statement[w]
<1>1. row # Absent
  BY DEF Rewrites, IsRow, Row, Absent
<1>2. statement'[week] = row /\ \A w \in Weeks \ {week} : statement'[w] = statement[w]
  BY DEF IInv, Rows, Rewrites
<1>3. \A w \in Weeks : statement'[w].figures = statement[w].figures
  BY <1>2 DEF Rewrites
<1>4. \A w \in Weeks : Exists(w)' = Exists(w)
  BY <1>1, <1>2 DEF Exists
<1>5. statement' = [w \in Weeks |-> statement'[w]]
  BY DEF IInv, Rows, Rewrites
<1>6. Rows'
  BY <1>2, <1>4, <1>5 DEF IInv, Rows, Rewrites, Exists, IsRow
<1> QED BY <1>2, <1>3, <1>4, <1>6 DEF Closing

(* A row with two of its fields overwritten. *)
Like(row, x, status, paidAt) ==
    IsRow(row) /\ row.figures = x.figures /\ row.status = status /\ row.paidAt = paidAt

LEMMA Overwritten ==
    ASSUME NEW x, IsRow(x), NEW d \in Dates
    PROVE  /\ Like([x EXCEPT !.status = "paid", !.paidAt = d], x, "paid", d)
           /\ Like([x EXCEPT !.status = "disputed", !.disputed = TRUE], x, "disputed", x.paidAt)
           /\ Like([x EXCEPT !.status = "open", !.resolved = TRUE], x, "open", x.paidAt)
<1>1. PICK F : x \in Row(F)
  BY DEF IsRow
<1>2. Like([x EXCEPT !.status = "paid", !.paidAt = d], x, "paid", d)
  <2>1. PICK z \in Row(F) : z = [x EXCEPT !.status = "paid"]
    BY <1>1 DEF Row
  <2>2. z.figures = x.figures /\ z.status = "paid" /\ z.paidAt = x.paidAt
    BY <1>1, <2>1 DEF Row
  <2>3. PICK u \in Row(F) : u = [z EXCEPT !.paidAt = d]
    BY <2>1 DEF Row
  <2>4. u.figures = z.figures /\ u.status = z.status /\ u.paidAt = d
    BY <2>1, <2>3 DEF Row
  <2>5. u = [x EXCEPT !.status = "paid", !.paidAt = d]
    BY <2>1, <2>3, Zenon
  <2>6. Like(u, x, "paid", d)
    BY <2>2, <2>3, <2>4 DEF Like, IsRow
  <2> QED BY <2>5, <2>6, Zenon
<1>3. Like([x EXCEPT !.status = "disputed", !.disputed = TRUE], x, "disputed", x.paidAt)
  <2>1. PICK z \in Row(F) : z = [x EXCEPT !.status = "disputed"]
    BY <1>1 DEF Row
  <2>2. z.figures = x.figures /\ z.status = "disputed" /\ z.paidAt = x.paidAt
    BY <1>1, <2>1 DEF Row
  <2>3. PICK u \in Row(F) : u = [z EXCEPT !.disputed = TRUE]
    BY <2>1 DEF Row
  <2>4. u.figures = z.figures /\ u.status = z.status /\ u.paidAt = z.paidAt
    BY <2>1, <2>3 DEF Row
  <2>5. u = [x EXCEPT !.status = "disputed", !.disputed = TRUE]
    BY <2>1, <2>3, Zenon
  <2>6. Like(u, x, "disputed", x.paidAt)
    BY <2>2, <2>3, <2>4 DEF Like, IsRow
  <2> QED BY <2>5, <2>6, Zenon
<1>4. Like([x EXCEPT !.status = "open", !.resolved = TRUE], x, "open", x.paidAt)
  <2>1. PICK z \in Row(F) : z = [x EXCEPT !.status = "open"]
    BY <1>1 DEF Row
  <2>2. z.figures = x.figures /\ z.status = "open" /\ z.paidAt = x.paidAt
    BY <1>1, <2>1 DEF Row
  <2>3. PICK u \in Row(F) : u = [z EXCEPT !.resolved = TRUE]
    BY <2>1 DEF Row
  <2>4. u.figures = z.figures /\ u.status = z.status /\ u.paidAt = z.paidAt
    BY <2>1, <2>3 DEF Row
  <2>5. u = [x EXCEPT !.status = "open", !.resolved = TRUE]
    BY <2>1, <2>3, Zenon
  <2>6. Like(u, x, "open", x.paidAt)
    BY <2>2, <2>3, <2>4 DEF Like, IsRow
  <2> QED BY <2>5, <2>6, Zenon
<1> QED BY <1>2, <1>3, <1>4

LEMMA CommitsPayout ==
    ASSUME IInv, NEW t \in open, Commit(t), CommitPayout(t)
    PROVE  IInv'
<1> DEFINE week == t.of
           row  == [statement[week] EXCEPT
                       !.status = "paid",
                       !.paidAt = IF Closing(week) > 0 THEN t.at ELSE Never]
<1>1. week \in Weeks /\ Exists(week)
  BY DEF IInv, Typed, Recent, Transaction, CommitPayout
<1>2. IsRow(statement[week]) /\ statement[week].paidAt = Never
  BY <1>1 DEF IInv, Rows, CommitPayout
<1>3. Rewrites(week, row)
  <2>1. t.at \in Dates /\ Never \in Dates
    BY Late, Instants
  <2>2. PICK p \in Dates : p = IF Closing(week) > 0 THEN t.at ELSE Never
    BY <2>1
  <2>3. row = [statement[week] EXCEPT !.status = "paid", !.paidAt = p]
    BY <2>2
  <2> HIDE DEF row, week
  <2>4. IsRow(row) /\ row.status = "paid" /\ row.figures = statement[week].figures
    <3>1. PICK x : x = statement[week]
      OBVIOUS
    <3>2. PICK r : r = [x EXCEPT !.status = "paid", !.paidAt = p]
      OBVIOUS
    <3>3. p \in Dates /\ IsRow(x)
      BY <1>2, <2>2, <3>1
    <3>4. IsRow(r) /\ r.status = "paid" /\ r.figures = x.figures
      <4>1. Like([x EXCEPT !.status = "paid", !.paidAt = p], x, "paid", p)
        BY <3>3, Overwritten, Zenon
      <4>2. Like(r, x, "paid", p)
        BY <3>2, <4>1, Zenon
      <4> QED BY <4>2 DEF Like
    <3>5. r = row
      BY <2>3, <3>1, <3>2, Zenon
    <3> QED BY <3>1, <3>4, <3>5
  <2>5. statement' = [statement EXCEPT ![week] = row]
    <3>1. statement' = [statement EXCEPT
                           ![week].status = "paid",
                           ![week].paidAt = IF Closing(week) > 0 THEN t.at ELSE Never]
      BY DEF CommitPayout, week
    <3>2. \A w \in Weeks : statement'[w] = IF w = week THEN row ELSE statement[w]
      BY <1>1, <3>1 DEF IInv, Rows, row
    <3>3. DOMAIN statement = Weeks
      BY DEF IInv, Rows
    <3> QED BY <1>1, <3>1, <3>2, <3>3
  <2> QED BY <2>4, <2>5 DEF Rewrites
<1>4. \A w \in Weeks : Over(w) => KeepsRows(w)
  <2>1. row.paidAt = Never \/ row.paidAt = t.at
    BY <1>2 DEF IsRow
  <2> HIDE DEF row
  <2> QED BY <1>1, <1>2, <1>3, <2>1, Late, Rewritten DEF KeepsRows
<1>5. \A w \in Weeks : KeepsDates(captured, captured', w) /\ KeepsDates(recovered, recovered', w)
  BY SameBooks DEF CommitPayout
<1>6. RecomputationMatches' /\ Asked'
  BY <1>1, <1>3, <1>4, <1>5, Kept, Rewritten DEF Commit
<1>7. Rows' /\ \A w \in Weeks : Exists(w)' = Exists(w)
  BY <1>1, <1>3, Rewritten
<1>8. Typed'
  BY DEF IInv, Typed, Commit, CommitPayout, books
<1>9. Recent' /\ OnlyClosed' /\ InOrder'
  <2>1. \A u \in open : u.kind = "payout" => u.of \in Weeks
    BY DEF IInv, Typed, Transaction
  <2> QED BY <1>7, <2>1 DEF IInv, Recent, OnlyClosed, InOrder, Over, Commit
<1> QED BY <1>6, <1>7, <1>8, <1>9 DEF IInv

LEMMA Disputes ==
    ASSUME IInv, NEW week \in Weeks, Dispute(week) \/ Resolve(week)
    PROVE  IInv'
<1>1. PICK row : Rewrites(week, row) /\ row.paidAt = statement[week].paidAt
  <2>1. Exists(week) /\ IsRow(statement[week]) /\ statement[week].paidAt = Never
    BY DEF IInv, Rows, Dispute, Resolve
  <2>2. Never \in Dates
    BY Instants
  <2>3. CASE Dispute(week)
    <3> DEFINE row == Disputed(statement[week])
    <3>1. /\ IsRow(row) /\ row.figures = statement[week].figures
          /\ row.status = "disputed" /\ row.paidAt = statement[week].paidAt
      BY <2>1, <2>2, Overwritten DEF Disputed, Like
    <3>2. statement' = [statement EXCEPT ![week] = row]
      BY <2>3 DEF Dispute
    <3> HIDE DEF row
    <3>3. Rewrites(week, row) /\ row.paidAt = statement[week].paidAt
      BY <2>1, <3>1, <3>2 DEF Rewrites
    <3> QED BY <3>3
  <2>4. CASE Resolve(week)
    <3> DEFINE row == [statement[week] EXCEPT !.status = "open", !.resolved = TRUE]
    <3>1. /\ IsRow(row) /\ row.figures = statement[week].figures
          /\ row.status = "open" /\ row.paidAt = statement[week].paidAt
      BY <2>1, <2>2, Overwritten DEF Like
    <3>2. statement' = [statement EXCEPT ![week] = row]
      BY <2>4 DEF IInv, Rows, Resolve
    <3> HIDE DEF row
    <3>3. Rewrites(week, row) /\ row.paidAt = statement[week].paidAt
      BY <2>1, <3>1, <3>2 DEF Rewrites
    <3> QED BY <3>3
  <2> QED BY <2>3, <2>4
<1>2. Exists(week) /\ UNCHANGED <<now, books, open, asks, job>>
  BY DEF Dispute, Resolve
<1>3. \A w \in Weeks : KeepsRows(w)
  BY <1>1, <1>2, Rewritten DEF KeepsRows
<1>4. RecomputationMatches' /\ Asked'
  BY <1>1, <1>2, <1>3, SameBooks, Kept, Rewritten
<1>5. Rows' /\ \A w \in Weeks : Exists(w)' = Exists(w)
  BY <1>1, <1>2, Rewritten
<1>6. Typed'
  BY <1>2 DEF IInv, Typed, books
<1>7. Recent' /\ OnlyClosed' /\ InOrder'
  <2>1. \A u \in open : u.kind = "payout" => u.of \in Weeks
    BY DEF IInv, Typed, Transaction
  <2> QED BY <1>2, <1>5, <2>1 DEF IInv, Recent, OnlyClosed, InOrder, Over
<1> QED BY <1>4, <1>5, <1>6, <1>7 DEF IInv
-------------------------------------------------------------------------------
(* The job. *)

(* The job, having asked for all it waited for, is set to a place that asks     *)
(* nothing yet.                                                                *)
LEMMA MovesOn ==
    ASSUME IInv, UNCHANGED <<now, books, open, statement>>, asks' = {},
           job' \in [at : {"idle", "due", "generate", "waiting"}, week : Weeks, last : Weeks],
           job'.at # "idle" => Over(job'.last) /\ job'.week <= job'.last,
           job'.at \in {"generate", "waiting"} => \A w \in Weeks : Exists(w) => w <= job'.week
    PROVE  IInv'
<1>1. Rows' /\ RecomputationMatches' /\ Asked'
  BY Frame
<1>2. Typed'
  BY DEF IInv, Typed, books
<1>3. Recent'
  BY DEF IInv, Recent, Exists
<1>4. OnlyClosed'
  BY DEF IInv, OnlyClosed, Over, Exists
<1>5. InOrder'
  BY DEF InOrder, Exists
<1> QED BY <1>1, <1>2, <1>3, <1>4, <1>5 DEF IInv

LEMMA ToNextWeek ==
    ASSUME IInv, job.at # "idle", job' = NextWeek, asks' = {},
           UNCHANGED <<now, books, open, statement>>
    PROVE  IInv'
<1>1. /\ job \in [at : {"idle", "due", "generate", "waiting"}, week : Weeks, last : Weeks]
      /\ Over(job.last) /\ job.week <= job.last
  BY DEF IInv, Typed, OnlyClosed
<1>2. CASE job.week < job.last
  <2>1. job' = [at |-> "due", week |-> job.week + 1, last |-> job.last]
    BY <1>1, <1>2 DEF NextWeek
  <2>2. job.week + 1 \in Weeks /\ job.week + 1 <= job.last
    BY <1>1, <1>2 DEF Weeks
  <2> QED BY <1>1, <2>1, <2>2, MovesOn
<1>3. CASE ~(job.week < job.last)
  <2>1. job' = Idle
    BY <1>3 DEF NextWeek
  <2>2. 0 \in Weeks
    BY DEF Weeks
  <2> QED BY <2>1, <2>2, MovesOn DEF Idle
<1> QED BY <1>2, <1>3

LEMMA Starts == ASSUME IInv, StartRun PROVE IInv'
<1>1. now \in Int /\ now <= From(MaxWeek) + 1
  BY DEF IInv, Typed, Times, From
<1>2. LastClosed \in Weeks /\ Over(LastClosed)
  BY <1>1 DEF StartRun, LastClosed, Weeks, Over, From, To
<1>3. asks' = {}
  BY DEF IInv, InOrder, StartRun
<1>4. PICK first \in Weeks : job' = [at |-> "due", week |-> first, last |-> LastClosed]
                             /\ first <= LastClosed
  <2> DEFINE f == LastClosed - WeeksBack + 1
  <2>1. f \in Int /\ f <= LastClosed
    BY <1>2 DEF Weeks
  <2>2. (IF f > 0 THEN f ELSE 0) \in Weeks /\ (IF f > 0 THEN f ELSE 0) <= LastClosed
    BY <1>2, <2>1 DEF Weeks
  <2> QED BY <2>2 DEF StartRun
<1>5. UNCHANGED <<now, books, open, statement>>
  BY DEF StartRun
<1> QED BY <1>2, <1>3, <1>4, <1>5, MovesOn

LEMMA AsksDue == ASSUME IInv, AskDue PROVE IInv'
<1>1. asks' = {} /\ UNCHANGED <<now, books, open, statement>> /\ job.at = "due"
  BY DEF IInv, InOrder, AskDue
<1>2. CASE Due(job.week)
  <2>1. /\ job \in [at : {"idle", "due", "generate", "waiting"}, week : Weeks, last : Weeks]
        /\ Over(job.last) /\ job.week <= job.last
    BY <1>1 DEF IInv, Typed, OnlyClosed
  <2>2. job' = [at |-> "generate", week |-> job.week, last |-> job.last]
    BY <1>2, <2>1 DEF AskDue
  <2>3. \A w \in Weeks : Exists(w) => w <= job.week
    BY <1>2, <2>1 DEF Due, Weeks
  <2> QED BY <1>1, <2>1, <2>2, <2>3, MovesOn
<1>3. CASE ~Due(job.week)
  BY <1>1, <1>3, ToNextWeek DEF AskDue
<1> QED BY <1>2, <1>3

(* The request reads the entries of a week that is over. *)
LEMMA Generates == ASSUME IInv, Generate PROVE IInv'
<1>1. asks = {} /\ UNCHANGED <<now, books, open, statement>> /\ job.at = "generate"
  BY DEF IInv, InOrder, Generate
<1>2. CASE Exists(job.week)
  BY <1>1, <1>2, ToNextWeek DEF Generate
<1>3. CASE ~Exists(job.week)
  <2>1. /\ job \in [at : {"idle", "due", "generate", "waiting"}, week : Weeks, last : Weeks]
        /\ Over(job.last) /\ job.week <= job.last
        /\ \A w \in Weeks : Exists(w) => w <= job.week
    BY <1>1 DEF IInv, Typed, OnlyClosed, InOrder
  <2>2. job' = [at |-> "waiting", week |-> job.week, last |-> job.last]
    BY <1>3, <2>1 DEF Generate
  <2>3. PICK figures : figures = Compute(job.week)
    OBVIOUS
  <2>4. asks' = {[week |-> job.week, figures |-> figures]}
    BY <1>1, <1>3, <2>3 DEF Generate
  <2>5. Over(job.week)
    BY <1>1, <2>1, Instants DEF Over, To, IInv, Typed, Weeks
  <2>6. Compute(job.week)' = figures
    <3>1. \A w \in Weeks : Over(w) => Compute(w)' = Compute(w)
      BY <1>1, Frame
    <3> QED BY <1>1, <2>1, <2>2, <2>3, <2>5, <3>1
  <2>7. Rows' /\ RecomputationMatches'
    BY <1>1, Frame
  <2>8. Asked'
    BY <2>1, <2>2, <2>4, <2>6 DEF Asked
  <2>9. Typed'
    BY <1>1, <2>1, <2>2, <2>4 DEF IInv, Typed, books
  <2>10. Recent'
    BY <1>1 DEF IInv, Recent, Exists
  <2>11. OnlyClosed' /\ InOrder'
    BY <1>1, <2>1, <2>2, <2>4 DEF IInv, OnlyClosed, InOrder, Over, Exists
  <2> QED BY <2>7, <2>8, <2>9, <2>10, <2>11 DEF IInv
<1> QED BY <1>2, <1>3

LEMMA Inserts == ASSUME IInv, NEW ask \in asks, Insert(ask) PROVE IInv'
<1> DEFINE week == ask.week
<1>1. /\ week \in Weeks /\ week = job.week /\ job.at = "waiting" /\ Over(week)
      /\ \A w \in Weeks : Exists(w) => w <= week
      /\ \A a \in asks : a.week = week
      /\ ask.figures = Compute(week)
  BY AskedIsOver DEF IInv, Typed, InOrder, Asked
<1>2. UNCHANGED <<now, books, open, job>> /\ asks' \subseteq asks
  BY DEF Insert
<1>3. CASE Exists(week)
  <2>1. UNCHANGED statement
    BY <1>3 DEF Insert
  <2>2. Rows' /\ RecomputationMatches' /\ Asked'
    BY <1>2, <2>1, Frame
  <2>3. Typed'
    BY <1>2 DEF IInv, Typed, books
  <2>4. Recent' /\ OnlyClosed' /\ InOrder'
    BY <1>2, <2>1 DEF IInv, Recent, OnlyClosed, InOrder, Over, Exists
  <2> QED BY <2>2, <2>3, <2>4 DEF IInv
<1>4. CASE ~Exists(week)
  <2> DEFINE row == NewStatement(ask.figures)
  <2>1. IsRow(row) /\ row # Absent /\ row.paidAt = Never /\ row.figures = ask.figures
    BY Instants DEF IsRow, Row, NewStatement, Absent
  <2>2. statement' = [statement EXCEPT ![week] = row]
    BY <1>4 DEF Insert
  <2> HIDE DEF row
  <2>3. statement'[week] = row /\ \A w \in Weeks \ {week} : statement'[w] = statement[w]
    BY <1>1, <2>2 DEF IInv, Rows
  <2>4. \A w \in Weeks : Exists(w)' <=> Exists(w) \/ w = week
    BY <2>1, <2>3 DEF Exists
  <2>5. statement' = [w \in Weeks |-> statement'[w]]
    BY <1>1, <2>2 DEF IInv, Rows
  <2>6. Rows'
    BY <2>1, <2>3, <2>4, <2>5 DEF IInv, Rows, Exists
  <2>7. \A w \in Weeks : w <= week => KeepsRows(w)
    <3> SUFFICES ASSUME NEW v \in Weeks, v <= week PROVE KeepsRows(v)
      OBVIOUS
    <3>1. ASSUME NEW w \in Weeks, Exists(w)
          PROVE  statement'[w] = statement[w] /\ Exists(w)'
      BY <1>4, <2>3, <2>4, <3>1
    <3>2. ASSUME NEW w \in Weeks, ~Exists(w), Exists(w)'
          PROVE  v <= w /\ statement'[w].paidAt = Never
      BY <2>1, <2>3, <2>4, <3>2
    <3> QED BY <3>1, <3>2 DEF KeepsRows, Closing
  <2>8. \A w \in Weeks : w <= week => Compute(w)' = Compute(w)
    BY <1>2, <2>7, SameBooks, SameFigures DEF IInv
  <2>9. RecomputationMatches'
    <3>1. ASSUME NEW w \in Weeks, Exists(w)' PROVE statement'[w].figures = Compute(w)
      BY <1>1, <2>1, <2>3, <2>4, <3>1 DEF IInv, RecomputationMatches
    <3>2. \A w \in Weeks : Exists(w)' => w <= week
      BY <1>1, <2>4 DEF Weeks
    <3> QED BY <2>8, <3>1, <3>2 DEF RecomputationMatches
  <2>10. Asked'
    <3>1. week <= week
      BY <1>1 DEF Weeks
    <3> QED BY <1>1, <1>2, <2>8, <3>1 DEF IInv, Asked
  <2>11. Typed'
    BY <1>2 DEF IInv, Typed, books
  <2>12. Recent'
    <3>1. \A u \in open : u.kind = "payout" => u.of \in Weeks
      BY DEF IInv, Typed, Transaction
    <3> QED BY <1>2, <2>4, <3>1 DEF IInv, Recent
  <2>13. OnlyClosed'
    BY <1>1, <1>2, <2>4 DEF IInv, OnlyClosed, Over
  <2>14. InOrder'
    BY <1>1, <1>2, <2>4 DEF IInv, InOrder, Weeks
  <2> QED BY <2>6, <2>9, <2>10, <2>11, <2>12, <2>13, <2>14 DEF IInv
<1> QED BY <1>3, <1>4

(* A request that was given up is worked on no further. *)
LEMMA GivesUp == ASSUME ~Outlives, IInv, GenerateFails \/ Dies PROVE IInv'
<1>1. asks' = {} /\ UNCHANGED <<now, books, open, statement>>
  BY DEF GenerateFails, Dies, Abandoned
<1>2. CASE GenerateFails
  BY <1>1, <1>2, ToNextWeek DEF GenerateFails
<1>3. CASE Dies
  <2>1. 0 \in Weeks
    BY DEF Weeks
  <2> QED BY <1>1, <1>3, <2>1, MovesOn DEF Dies, Idle
<1> QED BY <1>2, <1>3

-------------------------------------------------------------------------------
LEMMA Step == ASSUME ~Outlives, IInv, [Next]_vars PROVE IInv'
<1>1. CASE Tick
  BY <1>1, Ticks
<1>2. ASSUME NEW c \in Captures, PostCapture(c) \/ PostRecovery(c) PROVE IInv'
  BY <1>2, Begins DEF PostCapture, PostRecovery
<1>3. ASSUME NEW week \in Weeks, ApprovePayout(week) \/ Dispute(week) \/ Resolve(week)
      PROVE  IInv'
  BY <1>3, Begins, Disputes DEF ApprovePayout
<1>4. ASSUME NEW t \in open, Commit(t) \/ Abort(t) PROVE IInv'
  BY <1>4, CommitsCapture, CommitsRecovery, CommitsPayout, Ends DEF Commit
<1>5. ASSUME NEW ask \in asks, Insert(ask) PROVE IInv'
  BY <1>5, Inserts
<1>6. CASE StartRun \/ AskDue \/ Generate
  BY <1>6, Starts, AsksDue, Generates
<1>7. CASE Answered
  <2>1. asks' = {}
    BY <1>7 DEF IInv, InOrder, Answered
  <2> QED BY <1>7, <2>1, ToNextWeek DEF Answered
<1>8. CASE GenerateFails \/ Dies
  BY <1>8, GivesUp
<1>9. CASE UNCHANGED vars
  <2>1. Rows' /\ RecomputationMatches' /\ Asked'
    BY <1>9, Frame DEF vars
  <2>2. Typed'
    BY <1>9 DEF IInv, Typed, vars, books
  <2>3. Recent' /\ OnlyClosed' /\ InOrder'
    BY <1>9 DEF IInv, Recent, OnlyClosed, InOrder, Over, vars, Exists
  <2> QED BY <2>1, <2>2, <2>3 DEF IInv
<1> QED BY <1>1, <1>2, <1>3, <1>4, <1>5, <1>6, <1>7, <1>8, <1>9 DEF Next, JobSteps

(* A stored statement is what a recomputation from the entries answers, at any *)
(* later time, as long as the ledger stops working on a request whose caller   *)
(* has given it up.                                                            *)
THEOREM Recomputes == ASSUME ~Outlives PROVE Spec => []RecomputationMatches
<1>1. IInv /\ [Next]_vars => IInv'
  BY Step
<1>2. IInv => RecomputationMatches
  BY DEF IInv
<1> QED BY <1>1, <1>2, Initially, PTL DEF Spec
LEMMA Holds ==
    ASSUME IInv, Next, NEW week \in Weeks, Exists(week)
    PROVE  \/ statement'[week] = statement[week]
           \/ statement[week].status = "open"
           \/ statement[week].status = "disputed" /\ statement'[week].status = "open"
<1>1. statement = [w \in Weeks |-> statement[w]] /\ IsRow(statement[week])
  BY DEF IInv, Rows
<1>2. ASSUME NEW t \in open, CommitPayout(t), t.of # week PROVE statement'[week] = statement[week]
  BY <1>1, <1>2 DEF CommitPayout
<1>3. ASSUME NEW w \in Weeks, Dispute(w) \/ Resolve(w), w # week
      PROVE  statement'[week] = statement[week]
  BY <1>1, <1>3 DEF Dispute, Resolve
<1>4. CASE Resolve(week)
  <2> DEFINE row == [statement[week] EXCEPT !.status = "open", !.resolved = TRUE]
  <2>1. row.status = "open"
    BY <1>1, Overwritten, Instants DEF Like
  <2>2. statement'[week] = row
    BY <1>1, <1>4 DEF Resolve
  <2> QED BY <1>4, <2>1, <2>2 DEF Resolve
<1>5. ASSUME NEW ask \in asks, Insert(ask) PROVE statement'[week] = statement[week]
  BY <1>1, <1>5 DEF Insert
<1>6. CASE UNCHANGED statement
  BY <1>6
<1> QED
  <2>1. CASE \E t \in open : Commit(t)
    BY <1>2, <2>1 DEF Commit, CommitCapture, CommitRecovery, CommitPayout
  <2>2. CASE \E w \in Weeks : Dispute(w) \/ Resolve(w)
    BY <1>3, <1>4, <2>2 DEF Dispute
  <2>3. CASE \E ask \in asks : Insert(ask)
    BY <1>5, <2>3
  <2> QED BY <1>6, <2>1, <2>2, <2>3
          DEF Next, JobSteps, Tick, PostCapture, PostRecovery, ApprovePayout, Begin, Abort,
              StartRun, AskDue, Generate, Answered, GenerateFails, Dies

(* A payout takes effect only on a statement that is open at that moment: a    *)
(* dispute raised while the payout was being approved holds it, and a          *)
(* statement is paid once.                                                     *)
THEOREM PayoutHeld == ASSUME ~Outlives PROVE Spec => DisputeHoldsPayout
<1>1. IInv /\ [Next]_vars => IInv'
  BY Step
<1>2. IInv /\ [Next]_vars =>
          [\A week \in Weeks :
              Exists(week) =>
                  \/ statement'[week] = statement[week]
                  \/ statement[week].status = "open"
                  \/ statement[week].status = "disputed" /\ statement'[week].status = "open"]_vars
  BY Holds
<1> QED BY <1>1, <1>2, Initially, PTL DEF Spec, DisputeHoldsPayout
-------------------------------------------------------------------------------
(* Closing payables, added up by counting. *)
Units(a) == {a} \X (1 .. a[2])

Owed(weeks) ==
    /\ weeks \subseteq Weeks
    /\ \A w \in weeks : Closing(w) \in Int /\ Closing(w) > 0

LEMMA WeeksAreFinite == IsFiniteSet(Weeks)
<1>1. 0 \in Int /\ MaxWeek \in Int
  OBVIOUS
<1> QED BY <1>1, FS_Interval DEF Weeks

LEMMA UnitsAreFinite ==
    ASSUME NEW weeks, Owed(weeks)
    PROVE  IsFiniteSet(UNION {Units(a) : a \in Amounts(weeks)})
<1> DEFINE each == [w \in weeks |-> Units(<<w, Closing(w)>>)]
           all  == {each[w] : w \in weeks}
<1>1. IsFiniteSet(weeks)
  BY WeeksAreFinite, FS_Subset DEF Owed
<1>2. each \in Surjection(weeks, all)
  BY DEF Surjection
<1>3. IsFiniteSet(all)
  <2> HIDE DEF each, all
  <2> QED BY <1>1, <1>2, FS_Surjection
<1>4. ASSUME NEW U \in all PROVE IsFiniteSet(U)
  <2>1. PICK w \in weeks : U = {<<w, Closing(w)>>} \X (1 .. Closing(w))
    BY <1>4 DEF Units
  <2>2. IsFiniteSet(1 .. Closing(w))
    <3>1. 1 \in Int /\ Closing(w) \in Int
      BY DEF Owed
    <3> QED BY <3>1, FS_Interval
  <2>3. IsFiniteSet({<<w, Closing(w)>>})
    BY FS_Singleton
  <2> QED BY <2>1, <2>2, <2>3, FS_Product
<1>5. UNION {Units(a) : a \in Amounts(weeks)} = UNION all
  BY DEF Amounts
<1>6. IsFiniteSet(UNION all)
  <2> HIDE DEF all
  <2> QED BY <1>3, <1>4, FS_UNION
<1> QED BY <1>5, <1>6

LEMMA TotalIsNat == ASSUME NEW weeks, Owed(weeks) PROVE Total(Amounts(weeks)) \in Nat
<1>1. Total(Amounts(weeks)) = Cardinality(UNION {Units(a) : a \in Amounts(weeks)})
  BY DEF Total, Units
<1> QED BY <1>1, UnitsAreFinite, FS_CardinalityType

LEMMA CountsAdd ==
    ASSUME NEW S, NEW T, IsFiniteSet(S), IsFiniteSet(T), S \cap T = {}
    PROVE  /\ Cardinality(S) \in Nat /\ Cardinality(T) \in Nat
           /\ Cardinality(S \cup T) = Cardinality(S) + Cardinality(T)
<1>1. Cardinality(S \cup T) = Cardinality(S) + Cardinality(T) - Cardinality({})
  BY FS_Union
<1>2. Cardinality({}) = 0 /\ Cardinality(S) \in Nat /\ Cardinality(T) \in Nat
  BY FS_EmptySet, FS_CardinalityType
<1> QED BY <1>1, <1>2

LEMMA TotalsAdd ==
    ASSUME NEW S, NEW T, Owed(S), Owed(T), S \cap T = {}
    PROVE  Total(Amounts(S \cup T)) = Total(Amounts(S)) + Total(Amounts(T))
<1> DEFINE units(weeks) == UNION {Units(a) : a \in Amounts(weeks)}
<1>1. \A weeks : Total(Amounts(weeks)) = Cardinality(units(weeks))
  BY DEF Total, Units
<1>2. units(S \cup T) = units(S) \cup units(T)
  BY DEF Amounts
<1>3. units(S) \cap units(T) = {}
  <2> SUFFICES ASSUME NEW x \in units(S), x \in units(T) PROVE FALSE
    OBVIOUS
  <2>1. PICK v \in S : x \in Units(<<v, Closing(v)>>)
    BY DEF Amounts
  <2>2. PICK w \in T : x \in Units(<<w, Closing(w)>>)
    BY DEF Amounts
  <2>3. x[1] = <<v, Closing(v)>> /\ x[1] = <<w, Closing(w)>>
    BY <2>1, <2>2 DEF Units
  <2>4. v = w
    BY <2>3
  <2> QED BY <2>4
<1>4. IsFiniteSet(units(S)) /\ IsFiniteSet(units(T))
  BY UnitsAreFinite
<1> HIDE DEF units
<1> QED BY <1>1, <1>2, <1>3, <1>4, CountsAdd

-------------------------------------------------------------------------------
(* Closing payables are whole numbers, and a payout is of something owed and    *)
(* later than the week it is for.                                              *)
Figured ==
    /\ \A w \in Weeks : Exists(w) => Closing(w) \in Int
    /\ \A a \in asks : a.figures.closing \in Int

PaidLate ==
    /\ \A w \in Weeks : Exists(w) /\ statement[w].paidAt # Never =>
           statement[w].paidAt >= To(w) /\ Closing(w) > 0
    /\ \A t \in open : t.kind = "payout" => t.at >= To(t.of)

CInv == Figured /\ PaidLate

LEMMA PaidOwed ==
    ASSUME IInv, CInv, NEW week \in Weeks, NEW first \in Nat, NEW end \in Nat
    PROVE  Owed(PaidOut(first, end)) /\ Owed(Carried(week)) /\ Owed(Claiming(week))
BY DEF Owed, PaidOut, Carried, Claiming, CInv, Figured, PaidLate

LEMMA PostedAreFinite ==
    ASSUME NEW first, NEW end
    PROVE  /\ IsFiniteSet(CapturesIn(first, end)) /\ IsFiniteSet(RecoveriesIn(first, end))
           /\ Cardinality(CapturesIn(first, end)) \in Nat
           /\ Cardinality(RecoveriesIn(first, end)) \in Nat
<1>1. IsFiniteSet(CapturesIn(first, end)) /\ IsFiniteSet(RecoveriesIn(first, end))
  BY FS_Subset DEF CapturesIn, RecoveriesIn
<1> QED BY <1>1, FS_CardinalityType

LEMMA NetIsInt ==
    ASSUME IInv, CInv, NEW first \in Nat, NEW end \in Nat
    PROVE  Net(first, end) \in Int
<1>1. 0 \in Weeks
  BY DEF Weeks
<1>2. Total(Amounts(PaidOut(first, end))) \in Nat
  BY <1>1, PaidOwed, TotalIsNat
<1> QED BY <1>2, PostedAreFinite DEF Net

LEMMA ComputedIsInt ==
    ASSUME IInv, CInv, NEW week \in Weeks
    PROVE  Compute(week).closing \in Int
<1>1. From(week) \in Nat /\ To(week) \in Nat /\ 0 \in Nat
  BY Instants
<1>2. Net(0, From(week)) \in Int /\ Net(From(week), To(week)) \in Int
  BY <1>1, NetIsInt
<1>3. Total(Amounts(Carried(week))) \in Nat
  BY <1>1, PaidOwed, TotalIsNat
<1>4. Compute(week).closing = Net(0, From(week)) - Total(Amounts(Carried(week)))
                              + Net(From(week), To(week))
  BY DEF Compute, BalanceBefore
<1> QED BY <1>2, <1>3, <1>4

(* A step that begins no payout and writes no closing payable nor payout. *)
LEMMA Unpaid ==
    ASSUME CInv, asks' \subseteq asks, \A t \in open' : t \in open \/ t.kind # "payout",
           \A w \in Weeks : Exists(w)' =>
               /\ Exists(w) /\ Closing(w)' = Closing(w)
               /\ statement'[w].paidAt = statement[w].paidAt
    PROVE  CInv'
BY DEF CInv, Figured, PaidLate

LEMMA CSteps == IInv /\ CInv /\ [Next]_vars => CInv'
<1> SUFFICES ASSUME IInv, CInv, [Next]_vars PROVE CInv'
  OBVIOUS
<1>1. ASSUME UNCHANGED statement, asks' \subseteq asks,
             \A t \in open' : t \in open \/ t.kind # "payout"
      PROVE  CInv'
  BY <1>1, Unpaid DEF Exists, Closing
<1>2. ASSUME NEW c \in Captures, PostCapture(c) \/ PostRecovery(c) PROVE CInv'
  BY <1>1, <1>2 DEF PostCapture, PostRecovery, Begin
<1>3. ASSUME NEW week \in Weeks, ApprovePayout(week) PROVE CInv'
  <2>1. PICK t : /\ t = [kind |-> "payout", of |-> week, at |-> now]
                 /\ open' = open \cup {t}
    BY <1>3 DEF ApprovePayout, Begin
  <2>2. now >= To(week)
    BY <1>3 DEF ApprovePayout, WindowEnds, From, To, IInv, Typed, Times, Weeks
  <2>3. UNCHANGED <<statement, asks>>
    BY <1>3 DEF ApprovePayout, Begin
  <2> QED BY <2>1, <2>2, <2>3 DEF CInv, Figured, PaidLate, Exists, Closing, To
<1>4. ASSUME NEW week \in Weeks, Dispute(week) \/ Resolve(week) PROVE CInv'
  <2>1. Exists(week) /\ IsRow(statement[week])
    BY <1>4 DEF Dispute, Resolve, IInv, Rows
  <2>2. /\ statement'[week].figures = statement[week].figures
        /\ statement'[week].paidAt = statement[week].paidAt
        /\ \A w \in Weeks \ {week} : statement'[w] = statement[w]
    <3>1. PICK x : x = statement[week] /\ IsRow(x) /\ Never \in Dates
      BY <2>1, Instants
    <3>2. CASE Dispute(week)
      <4>1. statement'[week] = [x EXCEPT !.status = "disputed", !.disputed = TRUE]
        BY <3>1, <3>2 DEF Dispute, Disputed, IInv, Rows
      <4>2. \A w \in Weeks \ {week} : statement'[w] = statement[w]
        BY <3>2 DEF Dispute, IInv, Rows
      <4>3. Like([x EXCEPT !.status = "disputed", !.disputed = TRUE], x, "disputed", x.paidAt)
        BY <3>1, Overwritten, Zenon
      <4> QED BY <3>1, <4>1, <4>2, <4>3 DEF Like
    <3>3. CASE Resolve(week)
      <4>1. statement'[week] = [x EXCEPT !.status = "open", !.resolved = TRUE]
        BY <3>1, <3>3 DEF Resolve, IInv, Rows
      <4>2. \A w \in Weeks \ {week} : statement'[w] = statement[w]
        BY <3>3 DEF Resolve, IInv, Rows
      <4>3. Like([x EXCEPT !.status = "open", !.resolved = TRUE], x, "open", x.paidAt)
        BY <3>1, Overwritten, Zenon
      <4> QED BY <3>1, <4>1, <4>2, <4>3 DEF Like
    <3> QED BY <1>4, <3>2, <3>3
  <2>3. UNCHANGED <<open, asks>>
    BY <1>4 DEF Dispute, Resolve
  <2> QED BY <2>1, <2>2, <2>3, Unpaid DEF Exists, Closing
<1>5. ASSUME NEW t \in open, Commit(t) PROVE CInv'
  <2>1. open' \subseteq open /\ asks' = asks
    BY <1>5 DEF Commit
  <2>2. CASE UNCHANGED statement
    BY <1>1, <2>1, <2>2
  <2>3. CASE CommitPayout(t)
    <3> DEFINE week == t.of
    <3>1. week \in Weeks /\ Exists(week) /\ t.at \in Nat /\ t.at >= To(week)
      BY <2>3, Late DEF IInv, Typed, Recent, Transaction, CommitPayout, CInv, PaidLate, Times
    <3>2. IsRow(statement[week])
      BY <3>1 DEF IInv, Rows
    <3>3. PICK p \in Dates : p = IF Closing(week) > 0 THEN t.at ELSE Never
      BY Late, Instants
    <3>4. \A w \in Weeks : statement'[w] =
             IF w = week THEN [statement[week] EXCEPT !.status = "paid", !.paidAt = p]
             ELSE statement[w]
      BY <2>3, <3>1, <3>3 DEF CommitPayout, IInv, Rows
    <3>5. statement'[week].figures = statement[week].figures /\ statement'[week].paidAt = p
      <4>1. PICK x : x = statement[week] /\ IsRow(x)
        BY <3>2
      <4>2. statement'[week] = [x EXCEPT !.status = "paid", !.paidAt = p]
        BY <3>1, <3>4, <4>1
      <4>3. Like([x EXCEPT !.status = "paid", !.paidAt = p], x, "paid", p)
        BY <3>3, <4>1, Overwritten, Zenon
      <4> QED BY <4>1, <4>2, <4>3 DEF Like
    <3>6. \A w \in Weeks : Exists(w)' => Exists(w) /\ Closing(w)' = Closing(w)
      BY <3>1, <3>4, <3>5 DEF Exists, Closing
    <3>7. ASSUME NEW w \in Weeks, Exists(w)', statement'[w].paidAt # Never
          PROVE  statement'[w].paidAt >= To(w) /\ Closing(w)' > 0
      <4>1. CASE w = week
        BY <3>1, <3>3, <3>5, <3>6, <3>7, <4>1
      <4>2. CASE w # week
        BY <3>4, <3>6, <3>7, <4>2 DEF CInv, PaidLate
      <4> QED BY <4>1, <4>2
    <3>8. Figured'
      BY <2>1, <3>6 DEF CInv, Figured
    <3>9. PaidLate'
      BY <2>1, <3>7 DEF CInv, PaidLate, To
    <3> QED BY <3>8, <3>9 DEF CInv
  <2> QED BY <1>5, <2>2, <2>3 DEF Commit, CommitCapture, CommitRecovery
<1>6. CASE Generate
  <2>1. UNCHANGED <<open, statement>>
    BY <1>6 DEF Generate
  <2>2. CASE UNCHANGED asks
    BY <1>1, <2>1, <2>2
  <2>3. ASSUME asks' = asks \cup {[week |-> job.week, figures |-> Compute(job.week)]}
        PROVE  CInv'
    <3>1. job.week \in Weeks
      BY DEF IInv, Typed
    <3>2. Compute(job.week).closing \in Int
      BY <3>1, ComputedIsInt
    <3> QED BY <2>1, <2>3, <3>2 DEF CInv, Figured, PaidLate, Exists, Closing
  <2> QED BY <1>6, <2>2, <2>3 DEF Generate
<1>7. ASSUME NEW ask \in asks, Insert(ask) PROVE CInv'
  <2>1. ask.week \in Weeks /\ ask.figures.closing \in Int
    BY DEF IInv, Typed, CInv, Figured
  <2>2. asks' \subseteq asks /\ open' = open
    BY <1>7 DEF Insert
  <2>3. CASE UNCHANGED statement
    BY <1>1, <2>2, <2>3
  <2>4. CASE statement' = [statement EXCEPT ![ask.week] = NewStatement(ask.figures)]
    <3>1. \A w \in Weeks : statement'[w] =
             IF w = ask.week THEN NewStatement(ask.figures) ELSE statement[w]
      BY <2>1, <2>4 DEF IInv, Rows
    <3>2. /\ NewStatement(ask.figures).figures = ask.figures
          /\ NewStatement(ask.figures).paidAt = Never
      BY DEF NewStatement
    <3> QED BY <2>1, <2>2, <3>1, <3>2 DEF CInv, Figured, PaidLate, Exists, Closing
  <2> QED BY <1>7, <2>3, <2>4 DEF Insert
<1>8. ASSUME NEW t \in open, Abort(t) PROVE CInv'
  BY <1>1, <1>8 DEF Abort
<1>9. CASE Tick \/ StartRun \/ AskDue \/ Answered \/ UNCHANGED vars
  <2>1. UNCHANGED <<open, statement, asks>>
    BY <1>9 DEF Tick, StartRun, AskDue, Answered, vars
  <2> QED BY <1>1, <2>1
<1>10. CASE GenerateFails \/ Dies
  <2>1. UNCHANGED <<open, statement>> /\ asks' \subseteq asks
    BY <1>10 DEF GenerateFails, Dies, Abandoned
  <2> QED BY <1>1, <2>1
<1> QED BY <1>2, <1>3, <1>4, <1>5, <1>6, <1>7, <1>8, <1>9, <1>10 DEF Next, JobSteps

-------------------------------------------------------------------------------
(* What earlier statements claim was paid before the week, in it or is carried. *)
LEMMA ClaimsSplit ==
    ASSUME IInv, CInv, NEW week \in Weeks, Latest(week)
    PROVE  /\ Claiming(week) = PaidOut(0, From(week)) \cup PaidOut(From(week), To(week))
                                   \cup Carried(week)
           /\ PaidOut(0, From(week)) \cap PaidOut(From(week), To(week)) = {}
           /\ (PaidOut(0, From(week)) \cup PaidOut(From(week), To(week))) \cap Carried(week) = {}
<1>1. From(week) \in Nat /\ To(week) \in Nat /\ From(week) < To(week)
  BY Instants
<1>2. ASSUME NEW w \in Weeks, Exists(w)
      PROVE  /\ w \in Claiming(week) <=> \/ w \in PaidOut(0, From(week))
                                         \/ w \in PaidOut(From(week), To(week))
                                         \/ w \in Carried(week)
             /\ w \in PaidOut(0, From(week)) => w \notin PaidOut(From(week), To(week))
             /\ w \in Carried(week) => w \notin PaidOut(0, From(week))
                                       /\ w \notin PaidOut(From(week), To(week))
  <2>1. PICK p \in Dates : p = statement[w].paidAt
    BY <1>2 DEF IInv, Rows, IsRow, Row
  <2>2. p = Never \/ (p \in Nat /\ p >= To(w) /\ Closing(w) > 0)
    BY <1>2, <2>1, Instants DEF CInv, PaidLate
  <2>3. To(w) < To(week) => w < week
    BY DEF To, Weeks
  <2>4. To(w) \in Nat
    BY Instants
  <2>5. CASE p = Never
    BY <1>2, <2>1, <2>5 DEF Claiming, PaidOut, Carried
  <2>6. CASE p \in Nat /\ p >= To(w) /\ Closing(w) > 0
    <3>1. p # Never
      BY <2>6 DEF Never
    <3>2. /\ w \in Claiming(week) <=> w < week
          /\ w \in PaidOut(0, From(week)) <=> p < From(week)
          /\ w \in PaidOut(From(week), To(week)) <=> From(week) <= p /\ p < To(week)
          /\ w \in Carried(week) <=> w < week /\ p >= To(week)
      BY <1>2, <2>1, <2>6, <3>1 DEF Claiming, PaidOut, Carried
    <3> QED BY <1>1, <2>3, <2>4, <2>6, <3>2
  <2> QED BY <2>2, <2>5, <2>6
<1>3. \A w : w \in Claiming(week) \cup PaidOut(0, From(week))
                  \cup PaidOut(From(week), To(week)) \cup Carried(week)
             => w \in Weeks /\ Exists(w)
  BY DEF Claiming, PaidOut, Carried
<1> QED BY <1>2, <1>3

LEMMA Claimed ==
    ASSUME IInv, CInv, NEW week \in Weeks, Latest(week)
    PROVE  Total(Amounts(Claiming(week))) + Closing(week) =
               Cardinality(CapturesIn(0, To(week))) - Cardinality(RecoveriesIn(0, To(week)))
<1> DEFINE before == PaidOut(0, From(week))
           during == PaidOut(From(week), To(week))
           rest   == Carried(week)
<1>1. From(week) \in Nat /\ To(week) \in Nat /\ From(week) < To(week) /\ 0 \in Nat
  BY Instants
<1>2. Owed(before) /\ Owed(during) /\ Owed(rest) /\ Owed(before \cup during)
  BY <1>1, PaidOwed DEF Owed
<1>3. /\ Total(Amounts(Claiming(week))) = Total(Amounts(before)) + Total(Amounts(during))
                                              + Total(Amounts(rest))
      /\ Total(Amounts(before)) \in Nat /\ Total(Amounts(during)) \in Nat
      /\ Total(Amounts(rest)) \in Nat
  <2>1. /\ Claiming(week) = (before \cup during) \cup rest
        /\ before \cap during = {} /\ (before \cup during) \cap rest = {}
    BY ClaimsSplit
  <2> HIDE DEF before, during, rest
  <2> QED BY <1>2, <2>1, TotalsAdd, TotalIsNat
<1>4. /\ Cardinality(CapturesIn(0, To(week))) = Cardinality(CapturesIn(0, From(week)))
             + Cardinality(CapturesIn(From(week), To(week)))
      /\ Cardinality(RecoveriesIn(0, To(week))) = Cardinality(RecoveriesIn(0, From(week)))
             + Cardinality(RecoveriesIn(From(week), To(week)))
  <2>1. \A c \in Captures : captured[c] \in Int /\ recovered[c] \in Int
    BY Instants DEF IInv, Typed
  <2>2. /\ CapturesIn(0, To(week)) = CapturesIn(0, From(week)) \cup CapturesIn(From(week), To(week))
        /\ CapturesIn(0, From(week)) \cap CapturesIn(From(week), To(week)) = {}
    BY <1>1, <2>1 DEF CapturesIn
  <2>3. /\ RecoveriesIn(0, To(week)) =
               RecoveriesIn(0, From(week)) \cup RecoveriesIn(From(week), To(week))
        /\ RecoveriesIn(0, From(week)) \cap RecoveriesIn(From(week), To(week)) = {}
    BY <1>1, <2>1 DEF RecoveriesIn
  <2> QED BY <2>2, <2>3, PostedAreFinite, CountsAdd
<1>5. Closing(week) = Compute(week).closing
  BY DEF Latest, IInv, RecomputationMatches, Closing
<1>6. Compute(week).closing =
          (Cardinality(CapturesIn(0, From(week))) - Cardinality(RecoveriesIn(0, From(week)))
               - Total(Amounts(before)))
          - Total(Amounts(rest))
          + (Cardinality(CapturesIn(From(week), To(week)))
               - Cardinality(RecoveriesIn(From(week), To(week))) - Total(Amounts(during)))
  BY DEF Compute, BalanceBefore, Net
<1> HIDE DEF before, during, rest
<1> QED BY <1>3, <1>4, <1>5, <1>6, PostedAreFinite

(* Every cent earned by the end of the latest statement is claimed by one       *)
(* statement and by one only, whatever weeks were skipped, runs died and        *)
(* payouts and recoveries came in between, as long as the ledger stops working  *)
(* on a request whose caller has given it up.                                  *)
THEOREM ClaimedOnce == ASSUME ~Outlives PROVE Spec => []EachCentClaimedOnce
<1>1. Init => CInv
  BY DEF Init, CInv, Figured, PaidLate, Exists
<1>2. IInv /\ [Next]_vars => IInv'
  BY Step
<1>3. IInv /\ CInv => EachCentClaimedOnce
  BY Claimed DEF EachCentClaimedOnce
<1> QED BY <1>1, <1>2, <1>3, Initially, CSteps, PTL DEF Spec

===============================================================================

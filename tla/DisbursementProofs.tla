-------------------------- MODULE DisbursementProofs --------------------------
(***************************************************************************)
(* What a payout's row says is true and a paid row is final, for any number *)
(* of runs of the job at once, attempts, days, faults and account updates,  *)
(* and also when the provider refuses requests it has answered before.      *)
(*                                                                          *)
(* Neither is inductive: a row becomes paid or failed by what a run or a    *)
(* member of staff holds in hand.  IInv says that what they hold was true   *)
(* when it was read, and that the provider's outcomes are final.            *)
(*                                                                          *)
(* The second part proves that the money moves once, when one run works at  *)
(* a time and the provider looks at a key before it refuses (Money).        *)
(***************************************************************************)
EXTENDS Disbursement, SequenceTheorems, TLAPS

Progress == {"pending", "paid", "failed"}

PayoutRow == [attempt : Nat, said : Progress, status : Progress]

AnyRow == [status : {"queued", "awaiting_account", "transferred", "paid", "failed"},
           attempt : Nat, transferred : BOOLEAN, payout : Nat,
           transferAsked : Asked, payoutAsked : Asked, code : Codes]

Places == {"idle", "listed", "await", "transfer", "sendTransfer", "transferRefused",
           "saveTransfer", "payout", "sendPayout", "payoutRefused", "savePayout",
           "readBack", "settle"}

AnyRun == [at : Places, row : AnyRow \cup {Absent}, ready : BOOLEAN, changed : BOOLEAN,
           seen : Nat]

Ended(ps, p, outcome) == p \in DOMAIN ps /\ ps[p].status = outcome

(* A payout that is answered as ended has ended. *)
Answered(ps) == /\ ps \in Seq(PayoutRow)
                /\ \A p \in DOMAIN ps : ps[p].said # "pending" => ps[p].status = ps[p].said

RowTrue(r, ps) ==
    /\ r \in AnyRow /\ r.attempt # 0
    /\ r.payout # NoPayout => r.payout \in DOMAIN ps
    /\ r.status \in {"transferred", "paid"} => r.transferred
    /\ r.status = "paid" => r.payout # NoPayout /\ Ended(ps, r.payout, "paid")
    /\ r.code = "payout_failed" => Ended(ps, r.payout, "failed")
    /\ r.status = "failed" <=> r.code # "none"

RunTrue(x, ps) ==
    /\ x \in AnyRun
    /\ x.at \notin {"idle", "readBack"} => x.row \in AnyRow
    /\ x.at = "savePayout" => x.seen \in DOMAIN ps
    /\ x.at = "settle" => x.seen \in DOMAIN ps /\ ps[x.seen].status # "pending"

CheckTrue(c, ps) ==
    c = Nothing \/ /\ c \in [attempt : Nat \ {0}, seen : Nat, status : Progress \cup {"made"}]
                   /\ c.status # "made" => c.seen \in DOMAIN ps
                   /\ c.status \in {"paid", "failed"} => Ended(ps, c.seen, c.status)

(* Whoever has something in hand has a row. *)
Sited == ~Exists => check = Nothing /\ retry = Nothing /\ \A w \in Runners : run[w].at = "idle"

RowStands == Exists => RowTrue(row, payouts)

RunsStand == run \in [Runners -> AnyRun] /\ \A w \in Runners : RunTrue(run[w], payouts)

Account == account \in [ready : BOOLEAN, changed : BOOLEAN]

IInv == /\ RowStands /\ Answered(payouts) /\ RunsStand /\ CheckTrue(check, payouts)
        /\ Sited /\ Account

(* What a step leaves of a paid row. *)
Kept == Exists /\ row.status = "paid" => row'.status = "paid" /\ row'.payout = row.payout

-------------------------------------------------------------------------------
(* The provider only adds payouts and ends pending ones. *)
Grows(ps, qs) ==
    /\ DOMAIN ps \subseteq DOMAIN qs
    /\ \A p \in DOMAIN ps : ps[p].status # "pending" => qs[p] = ps[p]

LEMMA TruthGrows ==
    ASSUME NEW ps, NEW qs, Grows(ps, qs)
    PROVE  /\ \A r : RowTrue(r, ps) => RowTrue(r, qs)
           /\ \A x : RunTrue(x, ps) => RunTrue(x, qs)
           /\ \A c : CheckTrue(c, ps) => CheckTrue(c, qs)
<1>1. \A p, o : o # "pending" /\ Ended(ps, p, o) => Ended(qs, p, o)
  BY DEF Grows, Ended
<1>2. ASSUME NEW r, RowTrue(r, ps) PROVE RowTrue(r, qs)
  BY <1>1, <1>2 DEF Grows, RowTrue
<1>3. ASSUME NEW x, RunTrue(x, ps) PROVE RunTrue(x, qs)
  BY <1>3 DEF Grows, RunTrue
<1>4. ASSUME NEW c, CheckTrue(c, ps) PROVE CheckTrue(c, qs)
  <2>1. CASE c = Nothing
    BY <2>1 DEF CheckTrue
  <2>2. CASE c # Nothing
    <3>1. c.status \in {"paid", "failed"} => Ended(qs, c.seen, c.status)
      BY <1>1, <1>4, <2>2 DEF CheckTrue
    <3> QED BY <1>4, <2>2, <3>1 DEF CheckTrue, Grows
  <2> QED BY <2>1, <2>2
<1> QED BY <1>2, <1>3, <1>4

LEMMA Numbered ==
    ASSUME NEW ps, Answered(ps)
    PROVE  /\ DOMAIN ps = 1 .. Len(ps) /\ Len(ps) \in Nat /\ NoPayout \notin DOMAIN ps
           /\ \A p \in DOMAIN ps : ps[p] \in PayoutRow
BY LenProperties DEF Answered, NoPayout

LEMMA Making ==
    ASSUME NEW attempt \in Nat, MakePayout(attempt), Answered(payouts)
    PROVE  Answered(payouts') /\ Grows(payouts, payouts')
<1>1. CASE payouts' = payouts
  BY <1>1 DEF Grows
<1>2. CASE \E said \in Progress :
              payouts' = Append(payouts, [attempt |-> attempt, said |-> said, status |-> said])
  <2> PICK said \in Progress :
              payouts' = Append(payouts, [attempt |-> attempt, said |-> said, status |-> said])
    BY <1>2
  <2> DEFINE p == [attempt |-> attempt, said |-> said, status |-> said]
  <2>1. p \in PayoutRow /\ p.status = p.said
    BY DEF PayoutRow
  <2>2. payouts \in Seq(PayoutRow)
    BY DEF Answered
  <2> HIDE DEF p
  <2>3. /\ payouts' \in Seq(PayoutRow) /\ DOMAIN payouts' = 1 .. Len(payouts) + 1
        /\ \A i \in 1 .. Len(payouts) : payouts'[i] = payouts[i]
        /\ payouts'[Len(payouts) + 1] = p /\ Len(payouts) \in Nat
        /\ DOMAIN payouts = 1 .. Len(payouts)
    BY <2>1, <2>2 DEF p
  <2> QED BY <2>1, <2>3 DEF Answered, Grows
<1> QED BY <1>1, <1>2 DEF MakePayout, Progress

LEMMA Settling ==
    ASSUME Answered(payouts), NEW p \in DOMAIN payouts, SettlePayout(p)
    PROVE  Answered(payouts') /\ Grows(payouts, payouts')
<1> PICK outcome \in {"paid", "failed"} : payouts' = [payouts EXCEPT ![p].status = outcome]
  BY DEF SettlePayout
<1> DEFINE q == [payouts[p] EXCEPT !.status = outcome]
<1>1. payouts \in Seq(PayoutRow) /\ p \in 1 .. Len(payouts) /\ payouts[p] \in PayoutRow
  BY Numbered DEF Answered
<1>2. q \in PayoutRow /\ q.said = payouts[p].said /\ q.status # "pending"
  BY <1>1 DEF PayoutRow, Progress
<1>3. payouts[p].status = "pending" /\ payouts[p].said = "pending"
  BY <1>1 DEF SettlePayout, Answered, PayoutRow, Progress
<1>4. payouts' = [payouts EXCEPT ![p] = q]
  OBVIOUS
<1> HIDE DEF q
<1>5. /\ payouts' \in Seq(PayoutRow) /\ Len(payouts') = Len(payouts)
      /\ \A j \in 1 .. Len(payouts) : payouts'[j] = IF j = p THEN q ELSE payouts[j]
  BY <1>1, <1>2, <1>4, ExceptSeq
<1>6. DOMAIN payouts' = 1 .. Len(payouts) /\ DOMAIN payouts = 1 .. Len(payouts)
  BY <1>1, <1>5, LenProperties
<1> QED BY <1>2, <1>3, <1>5, <1>6 DEF Answered, Grows

-------------------------------------------------------------------------------
(* Where a run of the job goes. *)
LEMMA IdleRun ==
    ASSUME NEW ps, NEW place \in {"idle", "readBack"}
    PROVE  RunTrue([Idle EXCEPT !.at = place], ps)
<1>1. Idle \in AnyRun
  BY DEF AnyRun, Idle, NoPayout, Places
<1>2. [Idle EXCEPT !.at = place] \in AnyRun
  BY <1>1 DEF AnyRun, Places
<1> QED BY <1>2 DEF RunTrue, AnyRun, Idle

LEMMA Moves ==
    ASSUME NEW ps, NEW w \in Runners, run \in [Runners -> AnyRun],
           \A v \in Runners : RunTrue(run[v], ps),
           NEW x, RunTrue(x, ps), run' = [run EXCEPT ![w] = x]
    PROVE  run' \in [Runners -> AnyRun] /\ \A v \in Runners : RunTrue(run'[v], ps)
BY DEF RunTrue

LEMMA Going ==
    ASSUME NEW ps, NEW w \in Runners, run \in [Runners -> AnyRun],
           \A v \in Runners : RunTrue(run[v], ps),
           NEW place \in Places, Goto(w, place), place \notin {"savePayout", "settle"},
           place \notin {"idle", "readBack"} => run[w].row \in AnyRow
    PROVE  run' \in [Runners -> AnyRun] /\ \A v \in Runners : RunTrue(run'[v], ps)
<1>1. CASE place \in {"idle", "readBack"}
  BY <1>1, IdleRun, Moves DEF Goto
<1>2. CASE place \notin {"idle", "readBack"}
  <2> DEFINE x == [run[w] EXCEPT !.at = place]
  <2>1. run' = [run EXCEPT ![w] = x]
    BY <1>2 DEF Goto
  <2>2. x \in AnyRun /\ x.at = place /\ x.row = run[w].row
    BY DEF AnyRun
  <2> HIDE DEF x
  <2>3. RunTrue(x, ps)
    BY <1>2, <2>2 DEF RunTrue
  <2> QED BY <2>1, <2>3, Moves
<1> QED BY <1>1, <1>2

-------------------------------------------------------------------------------
(* What a statement on the row leaves of it. *)
LEMMA Fails ==
    ASSUME NEW r, NEW ps, RowTrue(r, ps), r.status # "paid",
           NEW code \in Codes \ {"none", "payout_failed"}, NEW ta \in Asked, NEW pa \in Asked
    PROVE  RowTrue([Failing(r, code) EXCEPT !.transferAsked = ta, !.payoutAsked = pa], ps)
BY DEF RowTrue, AnyRow, Failing

LEMMA Settles ==
    ASSUME IInv, Exists, row.status = "transferred", NEW p \in DOMAIN payouts,
           payouts[p].status # "pending", Outcome(p)
    PROVE  RowTrue(row', payouts) /\ Account'
<1>1. RowTrue(row, payouts) /\ p \in Nat /\ p # NoPayout /\ payouts[p] \in PayoutRow
  BY Numbered DEF IInv, RowStands, NoPayout
<1>2. CASE payouts[p].status = "paid"
  <2>1. row' = [row EXCEPT !.status = "paid", !.payout = p] /\ account' = account
    BY <1>2 DEF Outcome
  <2> QED BY <1>1, <1>2, <2>1 DEF RowTrue, AnyRow, Ended, IInv, Account
<1>3. CASE payouts[p].status = "failed"
  <2>1. /\ row' = [row EXCEPT !.status = "failed", !.code = "payout_failed", !.payout = p]
        /\ account' = [account EXCEPT !.changed = FALSE]
    BY <1>3 DEF Outcome, Failing
  <2>2. RowTrue(row', payouts)
    BY <1>1, <1>3, <2>1 DEF RowTrue, AnyRow, Ended, Codes
  <2> QED BY <2>1, <2>2 DEF IInv, Account
<1> QED BY <1>1, <1>2, <1>3 DEF PayoutRow, Progress

LEMMA Retries ==
    ASSUME NEW r, NEW ps, RowTrue(r, ps), r.status = "failed"
    PROVE  RowTrue(Retried(r), ps)
<1>1. r \in AnyRow /\ r.attempt + 1 \in Nat \ {0}
  BY DEF RowTrue, AnyRow
<1>2. CASE r.transferred
  <2> DEFINE x == [r EXCEPT !.status = "transferred", !.attempt = r.attempt + 1,
                            !.payout = NoPayout, !.payoutAsked = "never", !.code = "none"]
  <2>1. x \in AnyRow /\ x.attempt = r.attempt + 1 /\ x.payout = NoPayout /\ x.transferred
        /\ x.status = "transferred" /\ x.code = "none"
    BY <1>1, <1>2 DEF AnyRow, Asked, Codes, NoPayout
  <2>2. Retried(r) = x
    BY <1>2 DEF Retried
  <2> HIDE DEF x
  <2> QED BY <1>1, <2>1, <2>2 DEF RowTrue
<1>3. CASE ~r.transferred
  <2> DEFINE x == [r EXCEPT !.status = "queued", !.payoutAsked = "never", !.code = "none"]
  <2>1. x \in AnyRow /\ x.attempt = r.attempt /\ x.payout = r.payout
        /\ x.status = "queued" /\ x.code = "none"
    BY <1>1 DEF AnyRow, Asked, Codes
  <2>2. Retried(r) = x
    BY <1>3 DEF Retried
  <2> HIDE DEF x
  <2> QED BY <2>1, <2>2 DEF RowTrue
<1> QED BY <1>2, <1>3

(* A step of a run that writes the row and goes on. *)
LEMMA Wrote ==
    ASSUME IInv, UNCHANGED <<payouts, check>>, RowTrue(row', payouts), row' # Absent,
           RunsStand', Account'
    PROVE  IInv'
BY DEF IInv, RowStands, Sited, Exists

LEMMA RowIsThere == ASSUME NEW r, NEW ps, RowTrue(r, ps) PROVE r # Absent
BY DEF RowTrue, AnyRow, Absent

LEMMA OnTheWay ==
    ASSUME IInv, NEW w \in Runners, ~At(w, "idle")
    PROVE  /\ Exists /\ RowTrue(row, payouts) /\ RunTrue(run[w], payouts) /\ run[w] \in AnyRun
           /\ run \in [Runners -> AnyRun] /\ \A v \in Runners : RunTrue(run[v], payouts)
BY DEF IInv, Sited, At, RowStands, RunsStand

-------------------------------------------------------------------------------
(* The job, step by step. *)
LEMMA StartKeeps ==
    ASSUME IInv, NEW w \in Runners, Start(w)
    PROVE  IInv' /\ Kept
<1>1. RowTrue(row', payouts) /\ (Exists => row' = row)
  <2>1. CASE Exists
    BY <2>1 DEF Start, IInv, RowStands
  <2>2. CASE ~Exists
    BY <2>2 DEF Start, RowTrue, AnyRow, NewRow, NoPayout, Asked, Codes
  <2> QED BY <2>1, <2>2
<1>2. row' \in AnyRow /\ run \in [Runners -> AnyRun] /\ \A v \in Runners : RunTrue(run[v], payouts)
  BY <1>1 DEF RowTrue, IInv, RunsStand
<1>3. RunsStand'
  <2> DEFINE x == [at |-> "listed", row |-> row', ready |-> account.ready,
                   changed |-> account.changed, seen |-> NoPayout]
  <2>1. CASE Open(row')
    <3>1. x \in AnyRun /\ RunTrue(x, payouts)
      BY <1>2 DEF AnyRun, RunTrue, Places, NoPayout, IInv, Account
    <3>2. run' = [run EXCEPT ![w] = x] /\ payouts' = payouts
      BY <2>1 DEF Start, provider
    <3> QED BY <1>2, <3>1, <3>2, Moves DEF RunsStand
  <2>2. CASE ~Open(row')
    <3>1. run' = [run EXCEPT ![w] = [Idle EXCEPT !.at = "readBack"]] /\ payouts' = payouts
      BY <2>2 DEF Start, provider
    <3> QED BY <1>2, <3>1, IdleRun, Moves DEF RunsStand
  <2> QED BY <2>1, <2>2
<1> QED BY <1>1, <1>3, RowIsThere, Wrote DEF Start, staff, provider, Account, IInv, Kept

LEMMA BeginKeeps ==
    ASSUME IInv, NEW w \in Runners, Begin(w)
    PROVE  IInv' /\ Kept
<1>1. /\ Exists /\ RowTrue(row, payouts) /\ RunTrue(run[w], payouts) /\ run[w] \in AnyRun
      /\ run \in [Runners -> AnyRun] /\ \A v \in Runners : RunTrue(run[v], payouts)
      /\ run[w].row \in AnyRow
  BY OnTheWay DEF Begin, At, RunTrue
<1>2. UNCHANGED <<payouts, check, account>>
  BY DEF Begin, staff, provider
<1>3. CASE run[w].row.status # "failed"
  <2>1. UNCHANGED row /\ Goto(w, NextCall(run[w].row, run[w].ready))
    BY <1>3 DEF Begin
  <2>2. NextCall(run[w].row, run[w].ready) \in {"payout", "transfer", "await"}
    BY <1>1 DEF NextCall, AnyRun, AnyRow
  <2>3. RunsStand'
    BY <1>1, <1>2, <2>1, <2>2, Going DEF RunsStand, Places
  <2> QED BY <1>1, <1>2, <2>1, <2>3, Wrote DEF Account, IInv, Kept, Exists
<1>4. CASE /\ run[w].row.status = "failed"
           /\ run[w].ready /\ run[w].changed /\ row.status = "failed"
           /\ row.attempt = run[w].row.attempt
  <2> DEFINE rw == [run[w].row EXCEPT !.attempt = row'.attempt, !.status = row'.status,
                                     !.payoutAsked = "never"]
             x == [run[w] EXCEPT !.at = NextCall(run[w].row, TRUE), !.row = rw]
  <2>1. row' = Retried(row) /\ run' = [run EXCEPT ![w] = x]
    <3>1. row' = Retried(row)
      BY <1>4 DEF Begin
    <3>2. run' = [run EXCEPT ![w] = x]
      BY <1>4, Zenon DEF Begin
    <3> QED BY <3>1, <3>2
  <2>2. RowTrue(row', payouts) /\ row' # Absent /\ row' \in AnyRow
    BY <1>1, <1>4, <2>1, Retries, RowIsThere DEF RowTrue
  <2>3. rw \in AnyRow
    BY <1>1, <2>2 DEF AnyRow, Asked
  <2>4. NextCall(run[w].row, TRUE) \in {"payout", "transfer", "await"}
    BY <1>1 DEF NextCall, AnyRow
  <2>5. x \in AnyRun /\ x.row = rw /\ x.at \in {"payout", "transfer", "await"}
    <3> HIDE DEF rw
    <3> QED BY <1>1, <2>3, <2>4 DEF AnyRun, Places
  <2> HIDE DEF x, rw
  <2>6. RunTrue(x, payouts)
    BY <2>3, <2>5 DEF RunTrue
  <2>7. RunsStand'
    BY <1>1, <1>2, <2>1, <2>6, Moves DEF RunsStand
  <2> QED BY <1>2, <1>4, <2>2, <2>7, Wrote DEF Account, IInv, Kept
<1>5. CASE run[w].row.status = "failed" /\ ~(/\ run[w].ready /\ run[w].changed
                                             /\ row.status = "failed"
                                             /\ row.attempt = run[w].row.attempt)
  <2>1. UNCHANGED row /\ Goto(w, "readBack")
    BY <1>5 DEF Begin
  <2>2. RunsStand'
    BY <1>1, <1>2, <2>1, Going DEF RunsStand, Places
  <2> QED BY <1>1, <1>2, <2>1, <2>2, Wrote DEF Account, IInv, Kept, Exists
<1> QED BY <1>3, <1>4, <1>5

LEMMA AwaitKeeps ==
    ASSUME IInv, NEW w \in Runners, AwaitAccount(w)
    PROVE  IInv' /\ Kept
<1>1. /\ Exists /\ RowTrue(row, payouts)
      /\ run \in [Runners -> AnyRun] /\ \A v \in Runners : RunTrue(run[v], payouts)
  BY OnTheWay DEF AwaitAccount, At
<1>2. RowTrue(row', payouts) /\ Kept
  <2>1. CASE row' = row
    BY <1>1, <2>1 DEF Kept
  <2>2. CASE row' = [row EXCEPT !.status = "awaiting_account"] /\ row.status = "queued"
    BY <1>1, <2>2 DEF RowTrue, AnyRow, Kept
  <2> QED BY <2>1, <2>2 DEF AwaitAccount
<1>3. UNCHANGED <<payouts, check, account>>
  BY DEF AwaitAccount, staff, provider
<1>4. RunsStand'
  BY <1>1, <1>3, Going DEF AwaitAccount, RunsStand, Places
<1> QED BY <1>2, <1>3, <1>4, RowIsThere, Wrote DEF Account, IInv

LEMMA FailKeeps ==
    ASSUME IInv, NEW w \in Runners, ~At(w, "idle"),
           NEW code \in Codes \ {"none", "payout_failed"}, Fail(w, code)
    PROVE  IInv' /\ Kept
<1>1. /\ Exists /\ RowTrue(row, payouts)
      /\ run \in [Runners -> AnyRun] /\ \A v \in Runners : RunTrue(run[v], payouts)
  BY OnTheWay
<1>2. UNCHANGED <<payouts, check>> /\ Goto(w, "readBack")
  BY DEF Fail, staff, provider
<1>3. RunsStand'
  BY <1>1, <1>2, Going DEF RunsStand, Places
<1>4. RowTrue(row', payouts) /\ Kept /\ Account'
  <2>1. CASE row.status = "paid"
    BY <1>1, <2>1 DEF Fail, Kept, Account, IInv
  <2>2. CASE row.status # "paid"
    <3> DEFINE ta == IF code = "transfer_declined" THEN "never" ELSE row.transferAsked
               pa == IF code = "payout_declined" THEN "never" ELSE row.payoutAsked
    <3>1. /\ row' = [Failing(row, code) EXCEPT !.transferAsked = ta, !.payoutAsked = pa]
          /\ account' = [account EXCEPT !.changed = FALSE]
      BY <1>1, <2>2 DEF Fail, Failing, RowTrue, AnyRow
    <3>2. ta \in Asked /\ pa \in Asked
      BY <1>1 DEF RowTrue, AnyRow, Asked
    <3> HIDE DEF ta, pa
    <3>3. RowTrue(row', payouts)
      BY <1>1, <2>2, <3>1, <3>2, Fails
    <3> QED BY <2>2, <3>1, <3>3 DEF Kept, Account, IInv
  <2> QED BY <2>1, <2>2
<1> QED BY <1>2, <1>3, <1>4, RowIsThere, Wrote

LEMMA GivingUpKeeps ==
    ASSUME IInv, NEW w \in Runners,
           GiveUpTransfer(w) \/ GiveUpPayout(w) \/ TransferRefused(w) \/ PayoutRefused(w)
    PROVE  IInv' /\ Kept
<1>1. PICK code \in Codes \ {"none", "payout_failed"} : Fail(w, code)
  BY DEF GiveUpTransfer, GiveUpPayout, TransferRefused, PayoutRefused, Codes
<1>2. ~At(w, "idle")
  BY DEF GiveUpTransfer, GiveUpPayout, TransferRefused, PayoutRefused, At
<1> QED BY <1>1, <1>2, FailKeeps

LEMMA WriteTransferKeeps ==
    ASSUME IInv, NEW w \in Runners, WriteTransfer(w)
    PROVE  IInv' /\ Kept
<1>1. /\ Exists /\ RowTrue(row, payouts) /\ run[w].row \in AnyRow
      /\ run \in [Runners -> AnyRun] /\ \A v \in Runners : RunTrue(run[v], payouts)
  BY OnTheWay DEF WriteTransfer, At, RunTrue
<1>2. UNCHANGED <<payouts, check, account>>
  BY DEF WriteTransfer, staff, provider
<1>3. RunsStand'
  <2>1. PICK place \in {"sendTransfer", "idle"} : Goto(w, place)
    BY DEF WriteTransfer
  <2> QED BY <1>1, <1>2, <2>1, Going DEF RunsStand, Places
<1>4. RowTrue(row', payouts) /\ Kept
  <2>1. CASE row' = row
    BY <1>1, <2>1 DEF Kept
  <2>2. CASE row' # row
    <3>1. /\ ~row.transferred /\ row.status # "failed"
          /\ row' = [row EXCEPT !.status = "queued", !.transferAsked = FirstAsk(row.transferAsked)]
      BY <2>2 DEF WriteTransfer, RowRefuses
    <3>2. FirstAsk(row.transferAsked) \in Asked
      BY <1>1 DEF RowTrue, AnyRow, FirstAsk, Asked
    <3> QED BY <1>1, <3>1, <3>2 DEF RowTrue, AnyRow, Kept
  <2> QED BY <2>1, <2>2
<1> QED BY <1>2, <1>3, <1>4, RowIsThere, Wrote DEF Account, IInv

LEMMA SendTransferKeeps ==
    ASSUME IInv, NEW w \in Runners, SendTransfer(w)
    PROVE  IInv' /\ Kept
<1>1. /\ Exists /\ RowTrue(row, payouts) /\ run[w].row \in AnyRow
      /\ run \in [Runners -> AnyRun] /\ \A v \in Runners : RunTrue(run[v], payouts)
  BY OnTheWay DEF SendTransfer, At, RunTrue
<1>2. UNCHANGED <<row, payouts, check, account>>
  BY DEF SendTransfer, MakeTransfer, staff, provider
<1>3. RunsStand'
  <2>1. PICK place \in {"saveTransfer", "readBack", "transferRefused"} : Goto(w, place)
    BY DEF SendTransfer
  <2> QED BY <1>1, <1>2, <2>1, Going DEF RunsStand, Places
<1> QED BY <1>1, <1>2, <1>3, Wrote DEF Account, IInv, Exists, Kept

LEMMA SaveTransferKeeps ==
    ASSUME IInv, NEW w \in Runners, SaveTransfer(w)
    PROVE  IInv' /\ Kept
<1>1. /\ Exists /\ RowTrue(row, payouts) /\ run[w].row \in AnyRow /\ run[w] \in AnyRun
      /\ run \in [Runners -> AnyRun] /\ \A v \in Runners : RunTrue(run[v], payouts)
  BY OnTheWay DEF SaveTransfer, At, RunTrue
<1>2. UNCHANGED <<payouts, check, account>>
  BY DEF SaveTransfer, staff, provider
<1>3. CASE ~row.transferred /\ RowRefuses
  <2>1. UNCHANGED row /\ Goto(w, "idle")
    BY <1>3 DEF SaveTransfer
  <2>2. RunsStand'
    BY <1>1, <1>2, <2>1, Going DEF RunsStand, Places
  <2> QED BY <1>1, <1>2, <2>1, <2>2, Wrote DEF Account, IInv, Exists, Kept
<1>4. CASE ~(~row.transferred /\ RowRefuses)
  <2>1. RowTrue(row', payouts) /\ Kept
    <3>1. CASE row.transferred
      BY <1>1, <1>4, <3>1 DEF SaveTransfer, Kept
    <3>2. CASE ~row.transferred
      <4>1. row' = [row EXCEPT !.transferred = TRUE, !.status = "transferred"]
        BY <1>4, <3>2 DEF SaveTransfer
      <4> QED BY <1>1, <1>4, <3>2, <4>1 DEF RowTrue, AnyRow, RowRefuses, Kept
    <3> QED BY <3>1, <3>2
  <2> DEFINE unasked == [run[w].row EXCEPT !.payoutAsked = "never"]
             x == [run[w] EXCEPT !.at = "payout", !.row = unasked]
  <2>2. run' = [run EXCEPT ![w] = x]
    BY <1>4 DEF SaveTransfer
  <2>3. unasked \in AnyRow
    BY <1>1 DEF AnyRow, Asked
  <2> HIDE DEF unasked
  <2>4. x \in AnyRun /\ x.at = "payout" /\ x.row = unasked
    BY <1>1, <2>3 DEF AnyRun, Places
  <2> HIDE DEF x
  <2>5. RunsStand'
    BY <1>1, <1>2, <2>2, <2>3, <2>4, Moves DEF RunsStand, RunTrue
  <2> QED BY <1>2, <2>1, <2>5, RowIsThere, Wrote DEF Account, IInv
<1> QED BY <1>3, <1>4

LEMMA WritePayoutKeeps ==
    ASSUME IInv, NEW w \in Runners, WritePayout(w)
    PROVE  IInv' /\ Kept
<1>1. /\ Exists /\ RowTrue(row, payouts) /\ run[w].row \in AnyRow
      /\ run \in [Runners -> AnyRun] /\ \A v \in Runners : RunTrue(run[v], payouts)
  BY OnTheWay DEF WritePayout, At, RunTrue
<1>2. UNCHANGED <<payouts, check, account>>
  BY DEF WritePayout, staff, provider
<1>3. RunsStand'
  BY <1>1, <1>2, Going DEF WritePayout, RunsStand, Places
<1>4. RowTrue(row', payouts) /\ Kept
  <2>1. CASE row' = row
    BY <1>1, <2>1 DEF Kept
  <2>2. CASE row' = [row EXCEPT !.payoutAsked = FirstAsk(row.payoutAsked)]
    <3>1. FirstAsk(row.payoutAsked) \in Asked
      BY <1>1 DEF RowTrue, AnyRow, FirstAsk, Asked
    <3> QED BY <1>1, <2>2, <3>1 DEF RowTrue, AnyRow, Kept
  <2> QED BY <2>1, <2>2 DEF WritePayout
<1> QED BY <1>2, <1>3, <1>4, RowIsThere, Wrote DEF Account, IInv

(* The provider's payouts change under the row and those who hold something. *)
LEMMA Moved ==
    ASSUME IInv, Grows(payouts, payouts'), Answered(payouts'), UNCHANGED <<row, check, account>>,
           RunsStand', Exists \/ UNCHANGED <<run, retry>>
    PROVE  IInv' /\ Kept
<1>1. RowStands' /\ CheckTrue(check', payouts')
  BY TruthGrows DEF IInv, RowStands, Exists
<1>2. Sited'
  BY DEF IInv, Sited, Exists
<1> QED BY <1>1, <1>2 DEF IInv, Account, Kept

LEMMA SendPayoutKeeps ==
    ASSUME IInv, NEW w \in Runners, SendPayout(w)
    PROVE  IInv' /\ Kept
<1>1. /\ Exists /\ run[w].row \in AnyRow /\ run[w] \in AnyRun
      /\ run \in [Runners -> AnyRun] /\ \A v \in Runners : RunTrue(run[v], payouts)
  BY OnTheWay DEF SendPayout, At, RunTrue
<1>2. UNCHANGED <<row, check, account>>
  BY DEF SendPayout, staff
<1>3. Answered(payouts') /\ Grows(payouts, payouts')
  <2>1. run[w].row.attempt \in Nat /\ Answered(payouts)
    BY <1>1 DEF AnyRow, IInv
  <2>2. CASE MakePayout(run[w].row.attempt)
    BY <2>1, <2>2, Making
  <2>3. CASE UNCHANGED provider
    BY <2>1, <2>3 DEF provider, Grows
  <2> QED BY <2>2, <2>3 DEF SendPayout
<1>4. \A v \in Runners : RunTrue(run[v], payouts')
  BY <1>1, <1>3, TruthGrows
<1>5. RunsStand'
  <2>1. CASE \E place \in {"payoutRefused", "readBack"} : Goto(w, place)
    BY <1>1, <1>4, <2>1, Going DEF RunsStand, Places
  <2>2. CASE \E p \in Latest(payouts', run[w].row.attempt) :
                 run' = [run EXCEPT ![w] = [run[w] EXCEPT !.at = "savePayout", !.seen = p]]
    <3> PICK p \in Latest(payouts', run[w].row.attempt) :
                 run' = [run EXCEPT ![w] = [run[w] EXCEPT !.at = "savePayout", !.seen = p]]
      BY <2>2
    <3> DEFINE x == [run[w] EXCEPT !.at = "savePayout", !.seen = p]
    <3>1. p \in DOMAIN payouts' /\ p \in Nat
      BY <1>3, Numbered DEF Latest, MadeWith
    <3>2. x \in AnyRun /\ x.at = "savePayout" /\ x.seen = p /\ x.row = run[w].row
      BY <1>1, <3>1 DEF AnyRun, Places
    <3>3. run' = [run EXCEPT ![w] = x]
      OBVIOUS
    <3> HIDE DEF x
    <3>4. RunTrue(x, payouts')
      BY <1>1, <3>1, <3>2 DEF RunTrue
    <3> QED BY <1>1, <1>4, <3>3, <3>4, Moves DEF RunsStand
  <2> QED BY <2>1, <2>2 DEF SendPayout
<1> QED BY <1>1, <1>2, <1>3, <1>5, Moved

LEMMA SavePayoutKeeps ==
    ASSUME IInv, NEW w \in Runners, SavePayout(w)
    PROVE  IInv' /\ Kept
<1>1. /\ Exists /\ RowTrue(row, payouts) /\ run[w].seen \in DOMAIN payouts
      /\ run \in [Runners -> AnyRun] /\ \A v \in Runners : RunTrue(run[v], payouts)
  BY OnTheWay DEF SavePayout, At, RunTrue
<1>2. UNCHANGED <<payouts, check, account>>
  BY DEF SavePayout, staff, provider
<1>3. RunsStand'
  BY <1>1, <1>2, Going DEF SavePayout, RunsStand, Places
<1>4. RowTrue(row', payouts) /\ Kept
  <2> DEFINE p == run[w].seen
             status == IF payouts[p].said = "paid" THEN "paid" ELSE row.status
  <2>1. CASE row' = row
    BY <1>1, <2>1 DEF Kept
  <2>2. CASE row.status = "transferred" /\ row' = [row EXCEPT !.payout = p, !.status = status]
    <3>1. p \in Nat /\ p # NoPayout /\ p \in DOMAIN payouts
      BY <1>1, Numbered DEF IInv, NoPayout
    <3>2. status = "transferred" \/ (status = "paid" /\ Ended(payouts, p, "paid"))
      <4>1. payouts[p].said = "paid" => payouts[p].status = "paid"
        BY <3>1 DEF IInv, Answered
      <4> QED BY <2>2, <3>1, <4>1 DEF Ended
    <3> HIDE DEF p, status
    <3> QED BY <1>1, <2>2, <3>1, <3>2 DEF RowTrue, AnyRow, Kept
  <2> QED BY <2>1, <2>2 DEF SavePayout
<1> QED BY <1>2, <1>3, <1>4, RowIsThere, Wrote DEF Account, IInv

LEMMA ReadBackKeeps ==
    ASSUME IInv, NEW w \in Runners, ReadBack(w)
    PROVE  IInv' /\ Kept
<1>1. /\ Exists /\ RowTrue(row, payouts) /\ run[w] \in AnyRun
      /\ run \in [Runners -> AnyRun] /\ \A v \in Runners : RunTrue(run[v], payouts)
  BY OnTheWay DEF ReadBack, At, RunTrue
<1>2. UNCHANGED <<row, payouts, check, account>>
  BY DEF ReadBack, staff, provider
<1>3. RunsStand'
  <2> DEFINE x == [run[w] EXCEPT !.at = "settle", !.row = row, !.seen = row.payout]
  <2>1. CASE Goto(w, "idle")
    BY <1>1, <1>2, <2>1, Going DEF RunsStand, Places
  <2>2. CASE /\ Silent(row) /\ payouts[row.payout].status # "pending"
             /\ run' = [run EXCEPT ![w] = x]
    <3>1. x \in AnyRun /\ x.at = "settle" /\ x.seen = row.payout /\ x.row = row /\ row \in AnyRow
      BY <1>1 DEF AnyRun, AnyRow, Places, RowTrue
    <3>2. row.payout \in DOMAIN payouts
      BY <1>1, <2>2 DEF RowTrue, Silent
    <3> HIDE DEF x
    <3>3. RunTrue(x, payouts)
      BY <2>2, <3>1, <3>2 DEF RunTrue
    <3> QED BY <1>1, <1>2, <2>2, <3>3, Moves DEF RunsStand
  <2> QED BY <2>1, <2>2 DEF ReadBack
<1> QED BY <1>1, <1>2, <1>3, Wrote DEF Account, IInv, Exists, Kept

LEMMA SettleKeeps ==
    ASSUME IInv, NEW w \in Runners, Settle(w)
    PROVE  IInv' /\ Kept
<1>1. /\ Exists /\ RowTrue(row, payouts)
      /\ run[w].seen \in DOMAIN payouts /\ payouts[run[w].seen].status # "pending"
      /\ run \in [Runners -> AnyRun] /\ \A v \in Runners : RunTrue(run[v], payouts)
  BY OnTheWay DEF Settle, At, RunTrue
<1>2. UNCHANGED <<payouts, check>>
  BY DEF Settle, staff, provider
<1>3. RunsStand'
  BY <1>1, <1>2, Going DEF Settle, RunsStand, Places
<1>4. RowTrue(row', payouts) /\ Account' /\ Kept
  <2>1. CASE row.status = "transferred" /\ row.payout = run[w].seen /\ Outcome(row.payout)
    BY <1>1, <2>1, Settles DEF Kept
  <2>2. CASE UNCHANGED <<row, account>>
    BY <1>1, <2>2 DEF IInv, Account, Kept
  <2> QED BY <2>1, <2>2 DEF Settle
<1> QED BY <1>2, <1>3, <1>4, RowIsThere, Wrote

LEMMA DieKeeps ==
    ASSUME IInv, NEW w \in Runners, Die(w)
    PROVE  IInv' /\ Kept
<1>1. /\ Exists /\ RowTrue(row, payouts)
      /\ run \in [Runners -> AnyRun] /\ \A v \in Runners : RunTrue(run[v], payouts)
  BY OnTheWay DEF Die
<1>2. UNCHANGED <<row, payouts, check, account>>
  BY DEF Die, staff, provider
<1>3. RunsStand'
  BY <1>1, <1>2, Going DEF Die, RunsStand, Places
<1> QED BY <1>1, <1>2, <1>3, Wrote DEF Account, IInv, Exists, Kept

LEMMA StepKeeps ==
    ASSUME IInv, NEW w \in Runners, Step(w)
    PROVE  IInv' /\ Kept
BY StartKeeps, BeginKeeps, AwaitKeeps, GivingUpKeeps, WriteTransferKeeps, SendTransferKeeps,
   SaveTransferKeeps, WritePayoutKeeps, SendPayoutKeeps, SavePayoutKeeps, ReadBackKeeps,
   SettleKeeps DEF Step

-------------------------------------------------------------------------------
(* The provider and its webhooks, staff and time. *)
LEMMA SettlePayoutKeeps ==
    ASSUME IInv, NEW p \in DOMAIN payouts, SettlePayout(p)
    PROVE  IInv' /\ Kept
<1>1. Answered(payouts') /\ Grows(payouts, payouts')
  BY Settling DEF IInv
<1>2. UNCHANGED <<row, check, account, run, retry>>
  BY DEF SettlePayout, staff
<1>3. RunsStand'
  BY <1>1, <1>2, TruthGrows DEF IInv, RunsStand
<1> QED BY <1>1, <1>2, <1>3, Moved

LEMMA WebhookKeeps ==
    ASSUME IInv, NEW p \in DOMAIN payouts, Webhook(p)
    PROVE  IInv' /\ Kept
<1>1. RowTrue(row', payouts) /\ Account'
  BY Settles DEF Webhook
<1>2. UNCHANGED <<payouts, check, run>> /\ Kept
  BY DEF Webhook, staff, provider, Kept
<1> QED BY <1>1, <1>2, RowIsThere, Wrote DEF IInv, RunsStand

(* Steps that change no row, payout, run or check. *)
LEMMA AsideKeeps ==
    ASSUME IInv, UNCHANGED <<row, payouts, run, check>>, Account', Exists \/ UNCHANGED retry
    PROVE  IInv' /\ Kept
BY DEF IInv, RowStands, RunsStand, Sited, Exists, Kept

LEMMA StaffAsideKeeps ==
    ASSUME IInv, ApprovePayout \/ RecordApproval \/ AccountUpdated \/ ProposeRetry \/ LookAgain
                 \/ RejectRetry
    PROVE  IInv' /\ Kept
<1>0. Account
  BY DEF IInv
<1>1. CASE ApprovePayout \/ RecordApproval
  <2>1. UNCHANGED <<row, payouts, run, check, account, retry>>
    BY <1>1 DEF ApprovePayout, RecordApproval, provider
  <2> QED BY <1>0, <2>1, AsideKeeps DEF Account
<1>2. CASE AccountUpdated
  <2>1. UNCHANGED <<row, payouts, run, check, retry>>
    BY <1>2 DEF AccountUpdated, staff, provider
  <2>2. Account'
    BY <1>2 DEF AccountUpdated, Account
  <2> QED BY <2>1, <2>2, AsideKeeps
<1>3. CASE ProposeRetry \/ LookAgain \/ RejectRetry
  <2>1. UNCHANGED <<row, payouts, run, check, account>>
    BY <1>3 DEF ProposeRetry, LookAgain, RejectRetry, provider
  <2>2. Exists
    BY <1>3 DEF ProposeRetry, LookAgain, RejectRetry, NeedsStaff, Exists, IInv, Sited
  <2> QED BY <1>0, <2>1, <2>2, AsideKeeps DEF Account
<1> QED BY <1>1, <1>2, <1>3

LEMMA CheckKeeps ==
    ASSUME IInv, Check
    PROVE  IInv' /\ Kept
<1>1. Exists /\ RowTrue(row, payouts)
  BY DEF Check, NeedsStaff, IInv, RowStands, Exists
<1>2. UNCHANGED <<row, payouts, run, account>>
  BY DEF Check, provider
<1>3. PICK seen \in Shows(row) :
           check' = [attempt |-> row.attempt, seen |-> seen,
                     status |-> IF row.transferred THEN payouts[seen].status ELSE "made"]
  BY DEF Check
<1>4. CheckTrue(check', payouts)
  <2>1. CASE row.transferred
    <3>1. seen \in DOMAIN payouts /\ seen \in Nat /\ payouts[seen] \in PayoutRow
      BY <1>1, <2>1, Numbered DEF Shows, MadeWith, RowTrue, IInv
    <3> QED BY <1>1, <1>3, <2>1, <3>1 DEF CheckTrue, PayoutRow, Progress, RowTrue, AnyRow, Ended
  <2>2. CASE ~row.transferred
    <3>1. seen \in Nat
      BY <1>1, <2>2 DEF Shows, TransferKey, RowTrue, AnyRow
    <3> QED BY <1>1, <1>3, <2>2, <3>1 DEF CheckTrue, RowTrue, AnyRow
  <2> QED BY <1>1, <2>1, <2>2 DEF RowTrue, AnyRow
<1> QED BY <1>1, <1>2, <1>4 DEF IInv, RowStands, RunsStand, Sited, Exists, Account, Kept

(* Staff write a row that stands on what they saw. *)
LEMMA StaffWrote ==
    ASSUME IInv, Exists, UNCHANGED <<payouts, run>>, RowTrue(row', payouts), Account',
           check' = check \/ check' = Nothing
    PROVE  IInv'
<1>1. row' # Absent
  BY RowIsThere
<1> QED BY <1>1 DEF IInv, RowStands, RunsStand, Sited, Exists, CheckTrue

LEMMA AdoptTransferKeeps ==
    ASSUME IInv, AdoptTransfer
    PROVE  IInv' /\ Kept
<1>1. Exists /\ RowTrue(row, payouts)
  BY DEF AdoptTransfer, IInv, Sited, RowStands
<1>2. UNCHANGED <<payouts, run, account>> /\ check' = Nothing
  BY DEF AdoptTransfer, provider
<1>3. RowTrue(row', payouts) /\ Kept
  <2>1. CASE row' = row
    BY <1>1, <2>1 DEF Kept
  <2>2. CASE /\ row.status = "failed"
             /\ row' = [row EXCEPT !.transferred = TRUE, !.status = "transferred",
                                   !.payoutAsked = "never", !.code = "none"]
    BY <1>1, <2>2 DEF RowTrue, AnyRow, Asked, Codes, Kept
  <2> QED BY <2>1, <2>2 DEF AdoptTransfer
<1> QED BY <1>1, <1>2, <1>3, StaffWrote DEF IInv, Account

LEMMA AdoptPayoutKeeps ==
    ASSUME IInv, AdoptPayout
    PROVE  IInv' /\ Kept
<1>1. /\ Exists /\ RowTrue(row, payouts) /\ check \in [attempt : Nat \ {0}, seen : Nat,
                                                      status : Progress \cup {"made"}]
      /\ check.status # "made" /\ check.seen \in DOMAIN payouts /\ check.seen # NoPayout
      /\ check.status \in {"paid", "failed"} => Ended(payouts, check.seen, check.status)
  BY Numbered DEF AdoptPayout, IInv, Sited, RowStands, CheckTrue
<1>2. UNCHANGED <<payouts, run>> /\ check' = Nothing
  BY DEF AdoptPayout, provider
<1>3. RowTrue(row', payouts) /\ Kept /\ Account'
  <2>1. CASE UNCHANGED <<row, account>>
    BY <1>1, <2>1 DEF Kept, Account, IInv
  <2>2. CASE row.status = "failed" /\ row.transferred /\ ~UNCHANGED <<row, account>>
    <3>1. check.status \in Progress
      BY <1>1 DEF Progress
    <3>2. CASE check.status = "paid"
      <4>1. row' = [row EXCEPT !.payout = check.seen, !.status = "paid", !.code = "none"]
            /\ UNCHANGED account
        BY <2>2, <3>2 DEF AdoptPayout
      <4> QED BY <1>1, <2>2, <3>2, <4>1 DEF RowTrue, AnyRow, Codes, Kept, Account, IInv
    <3>3. CASE check.status = "pending"
      <4>1. row' = [row EXCEPT !.payout = check.seen, !.status = "transferred", !.code = "none"]
            /\ UNCHANGED account
        BY <2>2, <3>3 DEF AdoptPayout
      <4> QED BY <1>1, <2>2, <4>1 DEF RowTrue, AnyRow, Codes, Kept, Account, IInv
    <3>4. CASE check.status = "failed"
      <4>1. row' = [row EXCEPT !.payout = check.seen, !.status = "failed", !.code = "payout_failed"]
            /\ account' = [account EXCEPT !.changed = FALSE]
        BY <2>2, <3>4 DEF AdoptPayout, Failing
      <4>2. RowTrue(row', payouts) /\ Kept
        BY <1>1, <2>2, <3>4, <4>1 DEF RowTrue, AnyRow, Codes, Kept
      <4> QED BY <4>1, <4>2 DEF Account, IInv
    <3> QED BY <3>1, <3>2, <3>3, <3>4 DEF Progress
  <2> QED BY <2>1, <2>2 DEF AdoptPayout
<1> QED BY <1>1, <1>2, <1>3, StaffWrote

LEMMA ApproveRetryKeeps ==
    ASSUME IInv, ApproveRetry
    PROVE  IInv' /\ Kept
<1>1. Exists /\ RowTrue(row, payouts)
  BY DEF ApproveRetry, IInv, Sited, RowStands
<1>2. UNCHANGED <<payouts, run, account, check>>
  BY DEF ApproveRetry, provider
<1>3. RowTrue(row', payouts) /\ Kept
  <2>1. CASE row' = row
    BY <1>1, <2>1 DEF Kept
  <2>2. CASE row.status = "failed" /\ row' = Retried(row)
    BY <1>1, <2>2, Retries DEF Kept
  <2>3. CASE /\ row.status = "failed"
             /\ row' = [row EXCEPT !.status = "queued", !.code = "none", !.transferAsked = "never"]
    BY <1>1, <2>3 DEF RowTrue, AnyRow, Asked, Codes, Kept
  <2> QED BY <2>1, <2>2, <2>3 DEF ApproveRetry, AsProposed
<1> QED BY <1>1, <1>2, <1>3, StaffWrote DEF IInv, Account

LEMMA DayPassesKeeps ==
    ASSUME IInv, DayPasses
    PROVE  IInv' /\ Kept
<1>1. UNCHANGED <<staff, account, payouts, run>>
  BY DEF DayPasses
<1>2. CASE Exists
  <2> DEFINE Older(asked) == IF asked = "today" THEN "earlier" ELSE asked
  <2>1. RowTrue(row, payouts)
    BY <1>2 DEF IInv, RowStands
  <2>2. row' = [row EXCEPT !.transferAsked = Older(row.transferAsked),
                           !.payoutAsked = Older(row.payoutAsked)]
    BY <1>2 DEF DayPasses
  <2>3. Older(row.transferAsked) \in Asked /\ Older(row.payoutAsked) \in Asked
    BY <2>1 DEF RowTrue, AnyRow, Asked
  <2> HIDE DEF Older
  <2>4. RowTrue(row', payouts) /\ Kept
    BY <2>1, <2>2, <2>3 DEF RowTrue, AnyRow, Kept
  <2> QED BY <1>1, <1>2, <2>4, StaffWrote DEF staff, IInv, Account
<1>3. CASE ~Exists
  <2>1. UNCHANGED <<row, retry, check>>
    BY <1>1, <1>3 DEF DayPasses, staff
  <2> QED BY <1>1, <2>1, AsideKeeps DEF IInv, Account
<1> QED BY <1>2, <1>3

-------------------------------------------------------------------------------
LEMMA Initially == Init => IInv
<1> SUFFICES ASSUME Init PROVE IInv
  OBVIOUS
<1>1. RowStands /\ Sited /\ Account
  BY DEF Init, RowStands, Sited, Account, Exists, Idle
<1>2. Answered(payouts) /\ CheckTrue(check, payouts)
  BY DEF Init, Answered, CheckTrue
<1>3. Idle \in AnyRun /\ RunTrue(Idle, payouts)
  BY DEF Idle, AnyRun, RunTrue, Places, NoPayout
<1>4. RunsStand
  BY <1>3 DEF Init, RunsStand
<1> QED BY <1>1, <1>2, <1>4 DEF IInv

(* No step undoes what the provider has done. *)
LEMMA GrowsAlways ==
    ASSUME IInv, [Next]_vars
    PROVE  Grows(payouts, payouts')
<1>1. CASE UNCHANGED payouts
  BY <1>1 DEF Grows
<1>2. ASSUME NEW w \in Runners, SendPayout(w) PROVE Grows(payouts, payouts')
  <2>1. run[w].row.attempt \in Nat
    BY <1>2, OnTheWay DEF SendPayout, At, RunTrue, AnyRow
  <2>2. CASE MakePayout(run[w].row.attempt)
    BY <2>1, <2>2, Making DEF IInv
  <2>3. CASE UNCHANGED provider
    BY <2>3, <1>1 DEF provider
  <2> QED BY <1>2, <2>2, <2>3 DEF SendPayout
<1>3. ASSUME NEW p \in DOMAIN payouts, SettlePayout(p) PROVE Grows(payouts, payouts')
  BY <1>3, Settling DEF IInv
<1>4. UNCHANGED payouts \/ (\E w \in Runners : SendPayout(w))
                        \/ \E p \in DOMAIN payouts : SettlePayout(p)
  BY DEF Next, vars, provider, Step, Start, Begin, AwaitAccount, GiveUpTransfer, GiveUpPayout,
         TransferRefused, PayoutRefused, Fail, WriteTransfer, SendTransfer, MakeTransfer,
         SaveTransfer, WritePayout, SavePayout, ReadBack, Settle, Die, Webhook, ApprovePayout,
         RecordApproval, AccountUpdated, Check, AdoptTransfer, AdoptPayout, ProposeRetry,
         LookAgain, ApproveRetry, RejectRetry, DayPasses
<1> QED BY <1>1, <1>2, <1>3, <1>4

LEMMA NextKeeps ==
    ASSUME IInv, [Next]_vars
    PROVE  IInv' /\ Kept
<1>1. CASE UNCHANGED vars
  BY <1>1, AsideKeeps DEF vars, staff, provider, IInv, Account
<1>2. CASE Next
  BY <1>2, StepKeeps, DieKeeps, SettlePayoutKeeps, WebhookKeeps, StaffAsideKeeps, CheckKeeps,
     AdoptTransferKeeps, AdoptPayoutKeeps, ApproveRetryKeeps, DayPassesKeeps DEF Next
<1> QED BY <1>1, <1>2

(* The invariant holds for every number of runs, attempts, days, faults and    *)
(* account updates, and also when the provider refuses before it looks at keys. *)
THEOREM Invariance == Spec => []IInv
<1> QED BY Initially, NextKeeps, PTL DEF Spec

(* The row never claims that a payout was paid, or failed at the bank, unless  *)
(* it was, whoever wrote it last and however late.                              *)
THEOREM RowIsTrue == Spec => []RowTellsTheTruth
<1>1. IInv => RowTellsTheTruth
  BY DEF IInv, RowStands, RowTrue, Ended, RowTellsTheTruth
<1> QED BY <1>1, Invariance, PTL

(* No late webhook, failure, retry or click of staff undoes a paid row, and the *)
(* payout it names stays as it is.                                              *)
THEOREM PaidIsFinal == Spec => PaidStaysPaid
<1>1. IInv /\ [Next]_vars => (Exists /\ row.status = "paid" =>
           /\ row'.status = "paid" /\ row'.payout = row.payout
           /\ payouts'[row'.payout] = payouts[row.payout])
  <2> SUFFICES ASSUME IInv, [Next]_vars, Exists, row.status = "paid"
               PROVE  /\ row'.status = "paid" /\ row'.payout = row.payout
                      /\ payouts'[row'.payout] = payouts[row.payout]
    OBVIOUS
  <2>1. row'.status = "paid" /\ row'.payout = row.payout
    BY NextKeeps DEF Kept
  <2>2. row.payout \in DOMAIN payouts /\ payouts[row.payout].status = "paid"
    BY DEF IInv, RowStands, RowTrue, Ended
  <2>3. Grows(payouts, payouts')
    BY GrowsAlways
  <2> QED BY <2>1, <2>2, <2>3 DEF Grows
<1> QED BY <1>1, Invariance, PTL DEF Spec, PaidStaysPaid

-------------------------------------------------------------------------------
(***************************************************************************)
(* A statement is transferred once and paid out once, for any number of     *)
(* attempts, days, lost answers, refusals, account updates and retries,     *)
(* when one run of the job works at a time and the provider looks at a key  *)
(* before it refuses a request.                                             *)
(*                                                                          *)
(* The row decides what is sent again.  Money makes it safe: where money    *)
(* may have moved, the row knows that it asked, and while the key would     *)
(* still be sent the provider still remembers it; a refusal, and a look of  *)
(* staff at the provider that found nothing, mean that nothing moved, and   *)
(* the row cannot leave that state before the retry they allow.             *)
(***************************************************************************)

Made(attempt) == MadeWith(payouts, attempt)
Unasked       == payouts = <<>>

TransferCodes == {"transfer_declined", "transfer_unconfirmed"}
PayoutCodes   == {"payout_declined", "payout_unconfirmed", "payout_failed"}

(* The row tells which money has moved and which may have. *)
RowKnows ==
    /\ row.status \in {"queued", "awaiting_account"} => ~row.transferred
    /\ row.code \in TransferCodes => ~row.transferred
    /\ row.code \in PayoutCodes => row.transferred
    /\ ~row.transferred => Unasked
    /\ transfers # 0 /\ ~row.transferred =>
           /\ row.transferAsked # "never"
           /\ row.transferAsked = "today" => TransferKey \in known
    /\ row.status = "transferred" /\ row.payout = NoPayout /\ Made(row.attempt) # {} =>
           /\ row.payoutAsked # "never"
           /\ row.payoutAsked = "today" => row.attempt \in known
    /\ row.payout # NoPayout => payouts[row.payout].attempt = row.attempt

(* After a refusal, or a payout that failed at the bank, no money is out. *)
Refused ==
    /\ row.code = "transfer_declined" => transfers = 0
    /\ row.code \in {"payout_declined", "payout_failed"} => Unfailed = {}

(* An attempt has one payout, and only the row's may not have failed. *)
OnePayout ==
    /\ transfers \in 0 .. 1
    /\ \A p \in DOMAIN payouts : payouts[p].attempt <= row.attempt
    /\ \A p, q \in DOMAIN payouts : payouts[p].attempt = payouts[q].attempt => p = q
    /\ \A p \in Unfailed : payouts[p].attempt = row.attempt

(* What a run of the job sends, and what it read, is still in order. *)
Sending == {"transfer", "sendTransfer", "transferRefused", "saveTransfer"}
Paying  == {"payout", "sendPayout", "payoutRefused", "savePayout"}

TransferSafe == transfers = 0 \/ TransferKey \in known
PayoutSafe(attempt) == Made(attempt) = {} \/ attempt \in known

Listed(x) ==
    /\ x.row.transferred = row.transferred
    /\ row.code \notin Unconfirmed
    /\ x.row.status # "failed" =>
           /\ row.attempt = x.row.attempt
           /\ row.code \in {"none", "payout_failed"}
           /\ x.row.transferred => x.row.status = "transferred"
    /\ ~x.row.transferred /\ x.row.transferAsked # "earlier" => TransferSafe
    /\ x.row.status = "transferred" /\ x.row.payoutAsked # "earlier" => PayoutSafe(x.row.attempt)

Sends(x) ==
    /\ ~row.transferred /\ row.attempt = x.row.attempt /\ row.code = "none"
    /\ x.at = "transfer" /\ x.row.transferAsked # "earlier" => TransferSafe
    /\ x.at = "sendTransfer" => TransferSafe /\ row.transferAsked # "never"
    /\ x.at = "transferRefused" => transfers = 0

Pays(x) ==
    /\ row.transferred /\ row.attempt = x.row.attempt /\ row.code \in {"none", "payout_failed"}
    /\ x.at = "payout" /\ x.row.payoutAsked # "earlier" => PayoutSafe(x.row.attempt)
    /\ x.at = "sendPayout" =>
           /\ PayoutSafe(x.row.attempt)
           /\ row.status = "transferred" /\ row.payout = NoPayout => row.payoutAsked # "never"
    /\ x.at = "payoutRefused" => Unfailed = {}
    /\ x.at = "savePayout" => payouts[x.seen].attempt = x.row.attempt

RunSafe(x) == /\ x.at = "listed" => Listed(x)
              /\ x.at \in Sending => Sends(x)
              /\ x.at \in Paying => Pays(x)

(* What staff saw at the provider. *)
CheckSafe ==
    check # Nothing => /\ check.status = "made" => transfers # 0
                       /\ check.status # "made" => payouts[check.seen].attempt = check.attempt

(* Nothing moves where the second person saw that nothing had. *)
RetrySafe ==
    retry # Nothing => /\ retry.code \in StaffCodes
                       /\ retry.looked /\ retry.code \in Unconfirmed =>
                              AsProposed /\ NothingMoved(row)

Money ==
    /\ ~Exists => transfers = 0 /\ Unasked
    /\ Exists => RowKnows /\ Refused
    /\ OnePayout
    /\ \A w \in Runners : RunSafe(run[w])
    /\ CheckSafe
    /\ RetrySafe

(* One run of the job at a time, and a provider that looks at the key first. *)
OneRun == \A v, w \in Runners : v = w

-------------------------------------------------------------------------------
(* What stays as it is. *)
LEMMA RetryStays ==
    ASSUME RetrySafe, UNCHANGED <<row, retry, payouts, transfers>>
    PROVE  RetrySafe'
BY DEF RetrySafe, AsProposed, NothingMoved, Shows, MadeWith

(* A row that staff may not have looked at moves without them. *)
LEMMA RetryElsewhere ==
    ASSUME RetrySafe, UNCHANGED retry, row.code \notin Unconfirmed
    PROVE  RetrySafe'
BY DEF RetrySafe, AsProposed

LEMMA CheckStays ==
    ASSUME CheckSafe, UNCHANGED <<check, payouts, transfers>>
    PROVE  CheckSafe'
BY DEF CheckSafe

LEMMA PayoutsStay ==
    ASSUME OnePayout, UNCHANGED <<payouts, transfers>>, row'.attempt = row.attempt
    PROVE  OnePayout'
BY DEF OnePayout, Unfailed

(* A run that has nothing to send. *)
LEMMA Quiet ==
    ASSUME NEW w \in Runners, run'[w].at \in {"idle", "readBack", "settle", "await"}
    PROVE  RunSafe(run[w])'
BY DEF RunSafe, Sending, Paying

LEMMA GoesTo ==
    ASSUME NEW w \in Runners, run \in [Runners -> AnyRun], NEW place \in Places, Goto(w, place)
    PROVE  /\ run'[w].at = place
           /\ place \notin {"idle", "readBack"} =>
                  run'[w].row = run[w].row /\ run'[w].seen = run[w].seen
<1>1. CASE place \in {"idle", "readBack"}
  <2>1. run' = [run EXCEPT ![w] = [Idle EXCEPT !.at = place]]
    BY <1>1 DEF Goto
  <2> QED BY <1>1, <2>1 DEF Idle
<1>2. CASE place \notin {"idle", "readBack"}
  <2>1. run' = [run EXCEPT ![w] = [run[w] EXCEPT !.at = place]] /\ run[w] \in AnyRun
    BY <1>2 DEF Goto
  <2> QED BY <1>2, <2>1 DEF AnyRun
<1> QED BY <1>1, <1>2

(* A run on its way has a row. *)
LEMMA OnTheRow ==
    ASSUME IInv, Money, NEW w \in Runners, ~At(w, "idle")
    PROVE  /\ Exists /\ RowTrue(row, payouts) /\ row \in AnyRow /\ RowKnows /\ Refused
           /\ RunSafe(run[w]) /\ run[w] \in AnyRun /\ run \in [Runners -> AnyRun]
           /\ run[w].at \notin {"idle", "readBack"} => run[w].row \in AnyRow
BY OnTheWay DEF Money, RowTrue, RunTrue

(* A step of the one run that leaves the row and the provider alone. *)
LEMMA RunMoved ==
    ASSUME IInv, Money, OneRun, NEW w \in Runners, ~At(w, "idle"),
           UNCHANGED <<row, payouts, transfers, known, check, retry>>, RunSafe(run[w])'
    PROVE  Money'
<1>1. RetrySafe' /\ CheckSafe' /\ OnePayout'
  BY RetryStays, CheckStays, PayoutsStay DEF Money
<1>2. RowKnows' /\ Refused' /\ Exists'
  BY OnTheRow DEF Exists, RowKnows, Refused, Made, MadeWith, Unasked, Unfailed
<1>3. \A v \in Runners : RunSafe(run[v])'
  BY DEF OneRun
<1> QED BY <1>1, <1>2, <1>3 DEF Money

(* A step of the one run that writes the row. *)
LEMMA RunWrote ==
    ASSUME IInv, Money, OneRun, NEW w \in Runners, ~At(w, "idle"),
           row.code \notin Unconfirmed, row' # Absent,
           UNCHANGED <<payouts, transfers, known, check, retry>>, RunSafe(run[w])',
           RowKnows', Refused', OnePayout'
    PROVE  Money'
<1>1. RetrySafe' /\ CheckSafe'
  BY RetryElsewhere, CheckStays DEF Money
<1>2. \A v \in Runners : RunSafe(run[v])'
  BY DEF OneRun
<1> QED BY <1>1, <1>2 DEF Money, Exists

USE DEF provider, staff

-------------------------------------------------------------------------------
LEMMA StartMoney ==
    ASSUME IInv, Money, OneRun, NEW w \in Runners, Start(w)
    PROVE  Money'
<1>0. run \in [Runners -> AnyRun] /\ UNCHANGED <<payouts, transfers, known, check, retry>>
  BY DEF IInv, RunsStand, Start
<1>1. RowKnows' /\ Refused' /\ OnePayout' /\ RetrySafe' /\ Exists' /\ row' \in AnyRow
      /\ (row'.status = "failed" <=> row'.code # "none")
  <2>1. CASE Exists
    <3>1. row' = row /\ RowTrue(row, payouts)
      BY <2>1 DEF Start, IInv, RowStands
    <3> QED BY <1>0, <2>1, <3>1, RetryStays, PayoutsStay DEF Money, RowKnows, Refused, Made,
               MadeWith, Unasked, Unfailed, Exists, RowTrue
  <2>2. CASE ~Exists
    <3>1. row' = NewRow /\ transfers = 0 /\ payouts = <<>> /\ retry = Nothing
      BY <2>2 DEF Start, Money, IInv, Sited, Unasked
    <3>2. row' \in AnyRow /\ row' # Absent
      BY <3>1 DEF NewRow, AnyRow, NoPayout, Asked, Codes, Absent
    <3>3. RowKnows' /\ Refused'
      BY <1>0, <3>1 DEF NewRow, RowKnows, Refused, Made, MadeWith, Unasked, Unfailed,
                        TransferCodes, PayoutCodes
    <3>4. OnePayout' /\ RetrySafe'
      BY <1>0, <3>1 DEF OnePayout, Unfailed, RetrySafe
    <3> QED BY <3>1, <3>2, <3>3, <3>4 DEF Exists, NewRow
  <2> QED BY <2>1, <2>2
<1>2. RunSafe(run[w])'
  <2>1. CASE ~Open(row')
    <3>1. run'[w].at = "readBack"
      BY <1>0, <2>1 DEF Start, Idle
    <3> QED BY <3>1, Quiet
  <2>2. CASE Open(row')
    <3>1. run'[w].at = "listed" /\ run'[w].row = row'
      BY <1>0, <2>2 DEF Start
    <3>2. Listed(run[w])'
      BY <1>1, <2>2, <3>1 DEF Listed, RowKnows, Open, TransferSafe, PayoutSafe, AnyRow, Asked,
                             Unconfirmed
    <3> QED BY <3>1, <3>2 DEF RunSafe, Sending, Paying
  <2> QED BY <2>1, <2>2
<1>3. CheckSafe' /\ \A v \in Runners : RunSafe(run[v])'
  BY <1>0, <1>2, CheckStays DEF Money, OneRun
<1> QED BY <1>1, <1>3 DEF Money

(* The next attempt at a row that failed with nothing out. *)
LEMMA RetriedMoney ==
    ASSUME IInv, Money, Exists, row.status = "failed", row' = Retried(row),
           row.transferred => Unfailed = {}, UNCHANGED <<payouts, transfers, known>>
    PROVE  /\ RowKnows' /\ Refused' /\ OnePayout'
           /\ row'.transferred = row.transferred /\ row'.code = "none"
           /\ row'.status = IF row.transferred THEN "transferred" ELSE "queued"
           /\ row'.transferAsked = row.transferAsked
           /\ row.transferred => Made(row.attempt)' = {}
<1>1. row \in AnyRow /\ row.attempt \in Nat /\ RowKnows /\ OnePayout /\ RowTrue(row, payouts)
  BY DEF Money, IInv, RowStands, RowTrue, AnyRow
<1>2. CASE row.transferred
  <2>1. /\ row'.transferred /\ row'.attempt = row.attempt + 1 /\ row'.payout = NoPayout
        /\ row'.payoutAsked = "never" /\ row'.code = "none" /\ row'.status = "transferred"
        /\ row'.transferAsked = row.transferAsked
    BY <1>1, <1>2 DEF Retried, AnyRow
  <2>2. \A p \in DOMAIN payouts : payouts[p].attempt \in Nat
    BY Numbered DEF IInv, PayoutRow
  <2>3. Made(row.attempt)' = {}
    BY <1>1, <2>1, <2>2 DEF Made, MadeWith, OnePayout
  <2>4. OnePayout'
    BY <1>1, <1>2, <2>1, <2>2 DEF OnePayout, Unfailed
  <2>5. RowKnows' /\ Refused'
    BY <1>2, <2>1, <2>3 DEF RowKnows, Refused, TransferCodes, PayoutCodes
  <2> QED BY <1>2, <2>1, <2>3, <2>4, <2>5
<1>3. CASE ~row.transferred
  <2>1. /\ ~row'.transferred /\ row'.attempt = row.attempt /\ row'.payout = row.payout
        /\ row'.code = "none" /\ row'.status = "queued" /\ row'.transferAsked = row.transferAsked
    BY <1>1, <1>3 DEF Retried, AnyRow
  <2>2. RowKnows' /\ Refused'
    BY <1>1, <1>3, <2>1 DEF RowKnows, Refused, TransferCodes, PayoutCodes, Unasked
  <2>3. row'.transferred = row.transferred
    BY <1>1, <1>3, <2>1 DEF Retried, AnyRow
  <2> QED BY <1>1, <1>3, <2>1, <2>2, <2>3, PayoutsStay
<1> QED BY <1>2, <1>3

LEMMA BeginMoney ==
    ASSUME IInv, Money, OneRun, NEW w \in Runners, Begin(w)
    PROVE  Money'
<1>0. /\ ~At(w, "idle") /\ run[w].at = "listed" /\ run[w].row \in AnyRow
      /\ UNCHANGED <<payouts, transfers, known, check, retry>>
  BY OnTheRow DEF Begin, At
<1>1. /\ Exists /\ RowTrue(row, payouts) /\ row \in AnyRow /\ RowKnows /\ Refused
      /\ Listed(run[w]) /\ run[w] \in AnyRun /\ run \in [Runners -> AnyRun]
  BY <1>0, OnTheRow DEF RunSafe
<1>2. CASE run[w].row.status # "failed"
  <2>1. UNCHANGED row /\ Goto(w, NextCall(run[w].row, run[w].ready))
    BY <1>2 DEF Begin
  <2>2. PICK place \in {"payout", "transfer", "await"} :
            /\ Goto(w, place)
            /\ place = "payout" => run[w].row.transferred
            /\ place = "transfer" => ~run[w].row.transferred
    BY <1>1, <2>1 DEF NextCall, AnyRun, AnyRow
  <2>3. run'[w].at = place /\ run'[w].row = run[w].row
    BY <1>1, <2>2, GoesTo DEF Places
  <2>4. RunSafe(run[w])'
    <3>1. CASE place = "payout"
      BY <1>0, <1>1, <1>2, <2>1, <2>2, <2>3, <3>1
         DEF RunSafe, Pays, Listed, Sending, Paying, PayoutSafe, Made, MadeWith
    <3>2. CASE place = "transfer"
      BY <1>0, <1>1, <1>2, <2>1, <2>2, <2>3, <3>2
         DEF RunSafe, Sends, Listed, Sending, Paying, TransferSafe, RowKnows, PayoutCodes
    <3>3. CASE place = "await"
      BY <2>3, <3>3, Quiet
    <3> QED BY <3>1, <3>2, <3>3
  <2> QED BY <1>0, <2>1, <2>4, RunMoved
<1>3. CASE /\ run[w].row.status = "failed"
           /\ run[w].ready /\ run[w].changed /\ row.status = "failed"
           /\ row.attempt = run[w].row.attempt
  <2> DEFINE rw == [run[w].row EXCEPT !.attempt = row'.attempt, !.status = row'.status,
                                     !.payoutAsked = "never"]
             x == [run[w] EXCEPT !.at = NextCall(run[w].row, TRUE), !.row = rw]
  <2>1. row' = Retried(row) /\ run' = [run EXCEPT ![w] = x]
    <3>1. row' = Retried(row)
      BY <1>3 DEF Begin
    <3>2. run' = [run EXCEPT ![w] = x]
      BY <1>3, Zenon DEF Begin
    <3> QED BY <3>1, <3>2
  <2>2. row.transferred => Unfailed = {}
    BY <1>1, <1>3 DEF Refused, RowKnows, Listed, RowTrue, AnyRow, Codes, Unconfirmed,
                     TransferCodes, PayoutCodes
  <2>3. /\ RowKnows' /\ Refused' /\ OnePayout'
        /\ row'.transferred = row.transferred /\ row'.code = "none"
        /\ row.transferred => Made(row.attempt)' = {}
    BY <1>0, <1>1, <1>3, <2>1, <2>2, RetriedMoney
  <2>4. /\ run'[w].at = NextCall(run[w].row, TRUE) /\ run'[w].row = rw
        /\ rw.attempt = row'.attempt /\ rw.transferAsked = run[w].row.transferAsked
    BY <1>0, <1>1, <2>1 DEF AnyRun, AnyRow
  <2> HIDE DEF rw, x
  <2>5. RunSafe(run[w])'
    <3>1. CASE run[w].row.transferred
      <4>1. run'[w].at = "payout" /\ row.transferred
        BY <1>1, <2>4, <3>1 DEF NextCall, Listed
      <4> QED BY <2>3, <2>4, <4>1
                 DEF RunSafe, Pays, Sending, Paying, PayoutSafe, Made, MadeWith
    <3>2. CASE ~run[w].row.transferred
      <4>1. run'[w].at = "transfer" /\ ~row.transferred
        BY <1>1, <2>4, <3>2 DEF NextCall, Listed
      <4> QED BY <1>0, <1>1, <2>3, <2>4, <3>2, <4>1
                 DEF RunSafe, Sends, Listed, Sending, Paying, TransferSafe
    <3> QED BY <3>1, <3>2
  <2>6. row' # Absent
    BY <1>1, <1>3, <2>1, Retries, RowIsThere
  <2> QED BY <1>0, <1>1, <2>3, <2>5, <2>6, RunWrote DEF Listed
<1>4. CASE run[w].row.status = "failed" /\ ~(/\ run[w].ready /\ run[w].changed
                                             /\ row.status = "failed"
                                             /\ row.attempt = run[w].row.attempt)
  <2>1. UNCHANGED row /\ Goto(w, "readBack")
    BY <1>4 DEF Begin
  <2>2. RunSafe(run[w])'
    BY <1>1, <2>1, GoesTo, Quiet DEF Places
  <2> QED BY <1>0, <2>1, <2>2, RunMoved
<1> QED BY <1>2, <1>3, <1>4

LEMMA AwaitMoney ==
    ASSUME IInv, Money, OneRun, NEW w \in Runners, AwaitAccount(w)
    PROVE  Money'
<1>0. ~At(w, "idle") /\ UNCHANGED <<payouts, transfers, known, check, retry>>
  BY DEF AwaitAccount, At
<1>1. RowTrue(row, payouts) /\ row \in AnyRow /\ RowKnows /\ Refused /\ row # Absent
  BY <1>0, OnTheRow DEF Exists
<1>2. RunSafe(run[w])'
  BY <1>0, OnTheRow, GoesTo, Quiet DEF AwaitAccount, Places
<1>3. CASE UNCHANGED row
  BY <1>0, <1>2, <1>3, RunMoved
<1>4. CASE row.status = "queued" /\ row' = [row EXCEPT !.status = "awaiting_account"]
  <2>1. /\ row.code = "none" /\ row' \in AnyRow /\ row'.status = "awaiting_account"
        /\ row'.transferred = row.transferred /\ row'.code = row.code
        /\ row'.transferAsked = row.transferAsked /\ row'.attempt = row.attempt
        /\ row'.payout = row.payout
    BY <1>1, <1>4 DEF AnyRow, RowTrue
  <2>2. RowKnows' /\ Refused'
    BY <1>0, <1>1, <1>4, <2>1 DEF RowKnows, Refused, TransferCodes, PayoutCodes, Unasked
  <2>3. OnePayout' /\ row' # Absent
    BY <1>0, <2>1, PayoutsStay DEF Money, AnyRow, Absent
  <2> QED BY <1>0, <1>2, <2>1, <2>2, <2>3, RunWrote DEF Unconfirmed
<1> QED BY <1>3, <1>4 DEF AwaitAccount

(* A failure is written with what it says. *)
LEMMA FailMoney ==
    ASSUME IInv, Money, OneRun, NEW w \in Runners, ~At(w, "idle"), NEW code \in StaffCodes,
           Fail(w, code), row.code \notin Unconfirmed,
           code \in TransferCodes => ~row.transferred, code \in PayoutCodes => row.transferred,
           code = "transfer_declined" => transfers = 0,
           code = "payout_declined" => Unfailed = {}
    PROVE  Money'
<1>0. UNCHANGED <<payouts, transfers, known, check, retry>>
  BY DEF Fail
<1>1. RowTrue(row, payouts) /\ row \in AnyRow /\ RowKnows /\ Refused /\ row # Absent
  BY OnTheRow DEF Exists
<1>2. RunSafe(run[w])'
  BY OnTheRow, GoesTo, Quiet DEF Fail, Places
<1>3. CASE row.status = "paid"
  BY <1>0, <1>2, <1>3, RunMoved DEF Fail
<1>4. CASE row.status # "paid"
  <2> DEFINE ta == IF code = "transfer_declined" THEN "never" ELSE row.transferAsked
             pa == IF code = "payout_declined" THEN "never" ELSE row.payoutAsked
  <2>1. row' = [Failing(row, code) EXCEPT !.transferAsked = ta, !.payoutAsked = pa]
    BY <1>1, <1>4 DEF Fail, Failing, AnyRow
  <2>2. /\ row'.status = "failed" /\ row'.code = code /\ row'.attempt = row.attempt
        /\ row'.transferred = row.transferred /\ row'.payout = row.payout
        /\ row'.transferAsked = ta
    BY <1>1, <2>1 DEF Failing, AnyRow
  <2>3. row' # Absent
    BY <2>2 DEF Absent
  <2>4. RowKnows' /\ Refused'
    BY <1>0, <1>1, <2>2 DEF RowKnows, Refused, Unasked, Unfailed, StaffCodes
  <2> QED BY <1>0, <1>2, <2>2, <2>3, <2>4, PayoutsStay, RunWrote DEF Money
<1> QED BY <1>3, <1>4

LEMMA GivingUpMoney ==
    ASSUME IInv, Money, OneRun, NEW w \in Runners,
           GiveUpTransfer(w) \/ GiveUpPayout(w) \/ TransferRefused(w) \/ PayoutRefused(w)
    PROVE  Money'
<1>1. ~At(w, "idle")
  BY DEF GiveUpTransfer, GiveUpPayout, TransferRefused, PayoutRefused, At
<1>2. RunSafe(run[w])
  BY <1>1, OnTheRow
<1>3. CASE GiveUpTransfer(w)
  <2>1. ~row.transferred /\ row.code = "none" /\ Fail(w, "transfer_unconfirmed")
    BY <1>2, <1>3 DEF GiveUpTransfer, At, RunSafe, Sending, Sends
  <2> QED BY <1>1, <2>1, FailMoney DEF StaffCodes, Codes, Unconfirmed, TransferCodes, PayoutCodes
<1>4. CASE GiveUpPayout(w)
  <2>1. row.transferred /\ row.code \in {"none", "payout_failed"} /\ Fail(w, "payout_unconfirmed")
    BY <1>2, <1>4 DEF GiveUpPayout, At, RunSafe, Paying, Pays
  <2> QED BY <1>1, <2>1, FailMoney DEF StaffCodes, Codes, Unconfirmed, TransferCodes, PayoutCodes
<1>5. CASE TransferRefused(w)
  <2>1. /\ ~row.transferred /\ row.code = "none" /\ transfers = 0
        /\ Fail(w, "transfer_declined")
    BY <1>2, <1>5 DEF TransferRefused, At, RunSafe, Sending, Sends
  <2> QED BY <1>1, <2>1, FailMoney DEF StaffCodes, Codes, Unconfirmed, TransferCodes, PayoutCodes
<1>6. CASE PayoutRefused(w)
  <2>1. /\ row.transferred /\ row.code \in {"none", "payout_failed"} /\ Unfailed = {}
        /\ Fail(w, "payout_declined")
    BY <1>2, <1>6 DEF PayoutRefused, At, RunSafe, Paying, Pays
  <2> QED BY <1>1, <2>1, FailMoney DEF StaffCodes, Codes, Unconfirmed, TransferCodes, PayoutCodes
<1> QED BY <1>3, <1>4, <1>5, <1>6

LEMMA WriteTransferMoney ==
    ASSUME IInv, Money, OneRun, NEW w \in Runners, WriteTransfer(w)
    PROVE  Money'
<1>0. /\ ~At(w, "idle") /\ run[w].at = "transfer" /\ run[w].row.transferAsked # "earlier"
      /\ UNCHANGED <<payouts, transfers, known, check, retry>>
  BY DEF WriteTransfer, At, Stale
<1>1. /\ RowTrue(row, payouts) /\ row \in AnyRow /\ RowKnows /\ Refused /\ Sends(run[w])
      /\ run \in [Runners -> AnyRun]
  BY <1>0, OnTheRow DEF RunSafe, Sending
<1>2. ~row.transferred /\ row.code = "none" /\ TransferSafe /\ row.attempt = run[w].row.attempt
  BY <1>0, <1>1 DEF Sends
<1>3. ~RowRefuses
  BY <1>1, <1>2 DEF RowRefuses, RowTrue
<1>4. /\ row' = [row EXCEPT !.status = "queued", !.transferAsked = FirstAsk(row.transferAsked)]
      /\ Goto(w, "sendTransfer")
  BY <1>2, <1>3 DEF WriteTransfer
<1>5. /\ row'.status = "queued" /\ row'.transferAsked = FirstAsk(row.transferAsked)
      /\ row'.attempt = row.attempt /\ row'.transferred = row.transferred
      /\ row'.payout = row.payout /\ row'.code = row.code
  BY <1>1, <1>4 DEF AnyRow
<1>6. RowKnows' /\ Refused' /\ row' # Absent
  BY <1>0, <1>1, <1>2, <1>5
     DEF RowKnows, Refused, FirstAsk, TransferCodes, PayoutCodes, Unasked, Absent
<1>7. run'[w].at = "sendTransfer" /\ run'[w].row = run[w].row
  BY <1>1, <1>4, GoesTo DEF Places
<1>8. RunSafe(run[w])'
  BY <1>0, <1>1, <1>2, <1>5, <1>7
     DEF RunSafe, Sends, Sending, Paying, TransferSafe, FirstAsk, Asked, AnyRow
<1> QED BY <1>0, <1>2, <1>5, <1>6, <1>8, PayoutsStay, RunWrote DEF Money, Unconfirmed

LEMMA SendTransferMoney ==
    ASSUME IInv, Money, OneRun, ~WrongKey, NEW w \in Runners, SendTransfer(w)
    PROVE  Money'
<1>0. /\ ~At(w, "idle") /\ run[w].at = "sendTransfer"
      /\ UNCHANGED <<row, payouts, check, retry>>
  BY DEF SendTransfer, At, MakeTransfer
<1>1. /\ RowTrue(row, payouts) /\ RowKnows /\ Refused /\ Sends(run[w]) /\ Exists
      /\ run \in [Runners -> AnyRun]
  BY <1>0, OnTheRow DEF RunSafe, Sending
<1>2. /\ ~row.transferred /\ row.code = "none" /\ TransferSafe
      /\ row.attempt = run[w].row.attempt /\ row.transferAsked # "never"
  BY <1>0, <1>1 DEF Sends
<1>3. PICK place \in {"saveTransfer", "readBack", "transferRefused"} :
          /\ Goto(w, place)
          /\ MakeTransfer \/ UNCHANGED provider
          /\ place = "saveTransfer" => MakeTransfer
          /\ place = "transferRefused" => UNCHANGED provider /\ Refuses(TransferKey)
  BY DEF SendTransfer
<1>4. run'[w].at = place /\ (place # "readBack" => run'[w].row = run[w].row)
  BY <1>1, <1>3, GoesTo DEF Places
<1>5. CASE UNCHANGED provider
  <2>1. place = "transferRefused" => transfers = 0
    BY <1>2, <1>3 DEF Refuses, TransferSafe
  <2>2. RunSafe(run[w])'
    BY <1>0, <1>2, <1>4, <1>5, <2>1, Quiet DEF RunSafe, Sends, Sending, Paying
  <2> QED BY <1>0, <1>5, <2>2, RunMoved
<1>6. CASE MakeTransfer /\ TransferKey \notin known
  <2>1. transfers = 0 /\ transfers' = 1 /\ known' = known \cup {TransferKey}
    BY <1>2, <1>6 DEF MakeTransfer, TransferSafe
  <2>2. RowKnows' /\ Refused'
    BY <1>0, <1>1, <1>2, <2>1 DEF RowKnows, Refused, Made, MadeWith, Unasked, Unfailed
  <2>3. OnePayout' /\ CheckSafe' /\ RetrySafe'
    BY <1>0, <1>2, <2>1, RetryElsewhere DEF Money, OnePayout, CheckSafe, Unfailed, Unconfirmed
  <2>4. RunSafe(run[w])'
    BY <1>0, <1>2, <1>3, <1>4, <2>1, Quiet DEF RunSafe, Sends, Sending, Paying, Refuses
  <2>5. \A v \in Runners : RunSafe(run[v])'
    BY <2>4 DEF OneRun
  <2> QED BY <1>0, <1>1, <2>2, <2>3, <2>5 DEF Money, Exists
<1>7. CASE MakeTransfer /\ TransferKey \in known
  BY <1>3, <1>5, <1>7 DEF MakeTransfer
<1> QED BY <1>3, <1>5, <1>6, <1>7

LEMMA SaveTransferMoney ==
    ASSUME IInv, Money, OneRun, NEW w \in Runners, SaveTransfer(w)
    PROVE  Money'
<1>0. /\ ~At(w, "idle") /\ run[w].at = "saveTransfer"
      /\ UNCHANGED <<payouts, transfers, known, check, retry>>
  BY DEF SaveTransfer, At
<1>1. /\ RowTrue(row, payouts) /\ row \in AnyRow /\ RowKnows /\ Refused /\ Sends(run[w])
      /\ run \in [Runners -> AnyRun] /\ run[w] \in AnyRun /\ run[w].row \in AnyRow
  BY <1>0, OnTheRow DEF RunSafe, Sending
<1>2. ~row.transferred /\ row.code = "none" /\ row.attempt = run[w].row.attempt /\ Unasked
  BY <1>0, <1>1 DEF Sends, RowKnows
<1>3. ~RowRefuses
  BY <1>1, <1>2 DEF RowRefuses, RowTrue
<1> DEFINE unasked == [run[w].row EXCEPT !.payoutAsked = "never"]
           x == [run[w] EXCEPT !.at = "payout", !.row = unasked]
<1>4. row' = [row EXCEPT !.transferred = TRUE, !.status = "transferred"]
  BY <1>2, <1>3 DEF SaveTransfer
<1>5. run' = [run EXCEPT ![w] = x]
  BY <1>2, <1>3, Zenon DEF SaveTransfer
<1>6. /\ row'.status = "transferred" /\ row'.transferred /\ row'.attempt = row.attempt
      /\ row'.payout = row.payout /\ row'.code = row.code
  BY <1>1, <1>4 DEF AnyRow
<1>7. run'[w].at = "payout" /\ run'[w].row.attempt = run[w].row.attempt
  BY <1>1, <1>5 DEF AnyRun, AnyRow
<1> HIDE DEF unasked, x
<1>8. Made(row.attempt)' = {} /\ Made(run[w].row.attempt)' = {}
  BY <1>0, <1>2 DEF Made, MadeWith, Unasked
<1>9. RowKnows' /\ Refused' /\ row' # Absent
  BY <1>0, <1>1, <1>2, <1>6, <1>8
     DEF RowKnows, Refused, TransferCodes, PayoutCodes, Absent
<1>10. RunSafe(run[w])'
  BY <1>2, <1>6, <1>7, <1>8 DEF RunSafe, Pays, Sending, Paying, PayoutSafe
<1> QED BY <1>0, <1>2, <1>6, <1>9, <1>10, PayoutsStay, RunWrote DEF Money, Unconfirmed

LEMMA WritePayoutMoney ==
    ASSUME IInv, Money, OneRun, NEW w \in Runners, WritePayout(w)
    PROVE  Money'
<1>0. /\ ~At(w, "idle") /\ run[w].at = "payout" /\ run[w].row.payoutAsked # "earlier"
      /\ UNCHANGED <<payouts, transfers, known, check, retry>>
  BY DEF WritePayout, At, Stale
<1>1. /\ RowTrue(row, payouts) /\ row \in AnyRow /\ RowKnows /\ Refused /\ Pays(run[w])
      /\ run \in [Runners -> AnyRun]
  BY <1>0, OnTheRow DEF RunSafe, Paying
<1>2. /\ row.transferred /\ row.code \in {"none", "payout_failed"}
      /\ row.attempt = run[w].row.attempt /\ PayoutSafe(run[w].row.attempt)
  BY <1>0, <1>1 DEF Pays
<1>3. run'[w].at = "sendPayout" /\ run'[w].row = run[w].row
  BY <1>1, GoesTo DEF WritePayout, Places
<1>4. /\ row' \in AnyRow /\ row'.status = row.status /\ row'.attempt = row.attempt
      /\ row'.transferred = row.transferred /\ row'.payout = row.payout
      /\ row'.code = row.code /\ row'.transferAsked = row.transferAsked
      /\ row'.payoutAsked = IF InHand(w) THEN FirstAsk(row.payoutAsked) ELSE row.payoutAsked
  BY <1>1 DEF WritePayout, AnyRow, FirstAsk, Asked
<1>5. RowKnows' /\ Refused' /\ row' # Absent
  BY <1>0, <1>1, <1>2, <1>4
     DEF RowKnows, Refused, FirstAsk, Unasked, Unfailed, Made, MadeWith, AnyRow, Absent
<1>6. RunSafe(run[w])'
  BY <1>0, <1>2, <1>3, <1>4
     DEF RunSafe, Pays, Sending, Paying, PayoutSafe, Made, MadeWith, InHand, FirstAsk
<1> QED BY <1>0, <1>2, <1>4, <1>5, <1>6, PayoutsStay, RunWrote DEF Money, Unconfirmed

(* The new payout of an attempt that had none. *)
LEMMA NewPayout ==
    ASSUME Answered(payouts), NEW attempt \in Nat, MakePayout(attempt), attempt \notin known
    PROVE  \E p : /\ DOMAIN payouts' = DOMAIN payouts \cup {p} /\ p \notin DOMAIN payouts
                  /\ \A q \in DOMAIN payouts : payouts'[q] = payouts[q]
                  /\ payouts'[p].attempt = attempt /\ known' = known \cup {attempt}
<1> PICK said \in Progress :
            payouts' = Append(payouts, [attempt |-> attempt, said |-> said, status |-> said])
  BY DEF MakePayout, Progress
<1> DEFINE new == [attempt |-> attempt, said |-> said, status |-> said]
<1>1. new \in PayoutRow /\ new.attempt = attempt /\ payouts \in Seq(PayoutRow)
  BY DEF PayoutRow, Answered
<1> HIDE DEF new
<1>2. /\ DOMAIN payouts' = 1 .. Len(payouts) + 1 /\ DOMAIN payouts = 1 .. Len(payouts)
      /\ \A i \in 1 .. Len(payouts) : payouts'[i] = payouts[i]
      /\ payouts'[Len(payouts) + 1] = new /\ Len(payouts) \in Nat
  BY <1>1 DEF new
<1>3. known' = known \cup {attempt}
  BY DEF MakePayout
<1>4. DOMAIN payouts' = DOMAIN payouts \cup {Len(payouts) + 1} /\ Len(payouts) + 1 \notin DOMAIN payouts
  BY <1>2
<1> QED BY <1>1, <1>2, <1>3, <1>4

(* Without a payout for the row's attempt, or with one that failed, none is out. *)
LEMMA NoneOut ==
    ASSUME OnePayout, \A p \in Made(row.attempt) : payouts[p].status = "failed"
    PROVE  Unfailed = {}
BY DEF OnePayout, Made, MadeWith, Unfailed

LEMMA SendPayoutMoney ==
    ASSUME IInv, Money, OneRun, ~WrongKey, NEW w \in Runners, SendPayout(w)
    PROVE  Money'
<1> DEFINE attempt == run[w].row.attempt
<1>0. ~At(w, "idle") /\ run[w].at = "sendPayout" /\ UNCHANGED <<row, transfers, check, retry>>
  BY DEF SendPayout, At, MakePayout
<1>1. /\ RowTrue(row, payouts) /\ row \in AnyRow /\ RowKnows /\ Refused /\ Pays(run[w]) /\ Exists
      /\ run \in [Runners -> AnyRun] /\ run[w] \in AnyRun /\ OnePayout /\ Answered(payouts)
  BY <1>0, OnTheRow DEF RunSafe, Sending, Paying, Money, IInv
<1>2. /\ row.transferred /\ row.code \in {"none", "payout_failed"}
      /\ row.attempt = attempt /\ PayoutSafe(attempt) /\ attempt \in Nat
      /\ row.status = "transferred" /\ row.payout = NoPayout => row.payoutAsked # "never"
  BY <1>0, <1>1 DEF Pays, AnyRow
<1> HIDE DEF attempt
<1>3. attempt \notin known => Unfailed = {}
  BY <1>1, <1>2, NoneOut DEF PayoutSafe
<1>4. /\ MakePayout(attempt) \/ UNCHANGED provider
      /\ \/ \E place \in {"readBack", "payoutRefused"} : Goto(w, place)
         \/ \E p \in Latest(payouts', attempt) :
                run' = [run EXCEPT ![w] = [run[w] EXCEPT !.at = "savePayout", !.seen = p]]
      /\ Goto(w, "payoutRefused") =>
             \/ UNCHANGED provider /\ attempt \notin known
             \/ \E p \in Latest(payouts', attempt) : payouts'[p].said = "failed"
             \/ Goto(w, "readBack")
             \/ \E p \in Latest(payouts', attempt) :
                run' = [run EXCEPT ![w] = [run[w] EXCEPT !.at = "savePayout", !.seen = p]]
  BY DEF SendPayout, Refuses, attempt
<1>5. \/ run'[w].at = "readBack"
      \/ /\ run'[w].at = "payoutRefused" /\ run'[w].row = run[w].row
         /\ \/ UNCHANGED provider /\ attempt \notin known
            \/ \E p \in Latest(payouts', attempt) : payouts'[p].said = "failed"
      \/ /\ run'[w].at = "savePayout" /\ run'[w].row = run[w].row
         /\ run'[w].seen \in Latest(payouts', attempt)
  <2>1. CASE \E p \in Latest(payouts', attempt) :
                run' = [run EXCEPT ![w] = [run[w] EXCEPT !.at = "savePayout", !.seen = p]]
    BY <1>1, <2>1 DEF AnyRun
  <2>2. CASE Goto(w, "readBack")
    BY <1>1, <2>2, GoesTo DEF Places
  <2>3. CASE Goto(w, "payoutRefused")
    <3>1. run'[w].at = "payoutRefused" /\ run'[w].row = run[w].row
      BY <1>1, <2>3, GoesTo DEF Places
    <3> QED BY <1>4, <2>1, <2>2, <2>3, <3>1
  <2> QED BY <1>4, <2>1, <2>2, <2>3
<1>6. OnePayout' /\ RowKnows' /\ Refused' /\ CheckSafe' /\ RetrySafe'
  <2>1. RetrySafe'
    BY <1>0, <1>2, RetryElsewhere DEF Money, Unconfirmed
  <2>2. CASE UNCHANGED <<payouts, known>>
    BY <1>0, <1>1, <2>1, <2>2, PayoutsStay, CheckStays
       DEF Money, RowKnows, Refused, Made, MadeWith, Unasked, Unfailed
  <2>3. CASE MakePayout(attempt) /\ attempt \notin known
    <3>1. PICK p : /\ DOMAIN payouts' = DOMAIN payouts \cup {p} /\ p \notin DOMAIN payouts
                   /\ \A q \in DOMAIN payouts : payouts'[q] = payouts[q]
                   /\ payouts'[p].attempt = attempt /\ known' = known \cup {attempt}
      BY <1>1, <1>2, <2>3, NewPayout
    <3>2. Made(attempt) = {}
      BY <1>2, <2>3 DEF PayoutSafe
    <3>3. \A q \in DOMAIN payouts : payouts[q].attempt # attempt
      BY <3>2 DEF Made, MadeWith
    <3>4. OnePayout'
      BY <1>0, <1>1, <1>2, <1>3, <2>3, <3>1, <3>3 DEF OnePayout, Unfailed
    <3>5. row.payout = NoPayout /\ row.code = "none"
      BY <1>1, <1>2, <3>3, Numbered DEF RowKnows, RowTrue, Ended
    <3>6. RowKnows' /\ Refused'
      BY <1>0, <1>1, <1>2, <3>1, <3>5 DEF RowKnows, Refused
    <3>7. CheckSafe'
      BY <1>0, <3>1 DEF Money, CheckSafe, IInv, CheckTrue
    <3> QED BY <2>1, <3>4, <3>6, <3>7
  <2> QED BY <1>4, <2>2, <2>3 DEF MakePayout
<1>7. RunSafe(run[w])'
  <2>0. Answered(payouts') /\ OnePayout'
    BY <1>1, <1>2, <1>4, <1>6, Making
  <2>1. CASE run'[w].at = "readBack"
    BY <2>1, Quiet
  <2>2. CASE run'[w].at = "payoutRefused" /\ run'[w].row = run[w].row
    <3>1. Unfailed' = {}
      <4>1. CASE UNCHANGED provider /\ attempt \notin known
        BY <1>3, <4>1 DEF Unfailed
      <4>2. CASE \E p \in Latest(payouts', attempt) : payouts'[p].said = "failed"
        <5>1. PICK p \in Latest(payouts', attempt) : payouts'[p].said = "failed"
          BY <4>2
        <5>2. /\ p \in DOMAIN payouts' /\ payouts'[p].attempt = row'.attempt
              /\ payouts'[p].status = "failed"
          BY <1>0, <1>2, <2>0, <5>1 DEF Latest, MadeWith, Answered
        <5>3. \A q \in Made(row.attempt)' : payouts'[q].status = "failed"
          BY <1>0, <2>0, <5>2 DEF Made, MadeWith, OnePayout
        <5> QED BY <2>0, <5>3 DEF OnePayout, Made, MadeWith, Unfailed
      <4> QED BY <1>5, <2>2, <4>1, <4>2
    <3> QED BY <1>0, <1>2, <2>2, <3>1 DEF RunSafe, Pays, Sending, Paying, attempt
  <2>3. CASE /\ run'[w].at = "savePayout" /\ run'[w].row = run[w].row
             /\ run'[w].seen \in Latest(payouts', attempt)
    BY <1>0, <1>2, <2>3 DEF RunSafe, Pays, Sending, Paying, Latest, MadeWith, attempt
  <2> QED BY <1>5, <2>1, <2>2, <2>3
<1>8. \A v \in Runners : RunSafe(run[v])'
  BY <1>7 DEF OneRun
<1> QED BY <1>0, <1>1, <1>6, <1>8 DEF Money, Exists

LEMMA SavePayoutMoney ==
    ASSUME IInv, Money, OneRun, NEW w \in Runners, SavePayout(w)
    PROVE  Money'
<1>0. /\ ~At(w, "idle") /\ run[w].at = "savePayout"
      /\ UNCHANGED <<payouts, transfers, known, check, retry>>
  BY DEF SavePayout, At
<1>1. /\ RowTrue(row, payouts) /\ row \in AnyRow /\ RowKnows /\ Refused /\ Pays(run[w])
      /\ run \in [Runners -> AnyRun]
  BY <1>0, OnTheRow DEF RunSafe, Paying
<1>2. RunSafe(run[w])'
  BY <1>1, GoesTo, Quiet DEF SavePayout, Places
<1>3. CASE UNCHANGED row
  BY <1>0, <1>2, <1>3, RunMoved
<1>4. CASE InHand(w) /\ row.status = "transferred" /\ ~UNCHANGED row
  <2>1. /\ row'.status \in {"transferred", "paid"} /\ row'.payout = run[w].seen
        /\ row'.attempt = row.attempt /\ row'.transferred = row.transferred
        /\ row'.code = row.code /\ row'.transferAsked = row.transferAsked
    BY <1>1, <1>4 DEF SavePayout, AnyRow
  <2>2. row.code = "none" /\ row.transferred /\ run[w].seen # NoPayout
        /\ payouts[run[w].seen].attempt = row.attempt
    BY <1>0, <1>1, <1>4, Numbered, OnTheWay DEF RowTrue, Pays, RunTrue, IInv
  <2>3. RowKnows' /\ Refused' /\ row' # Absent
    BY <1>0, <1>1, <2>1, <2>2 DEF RowKnows, Refused, TransferCodes, PayoutCodes, Absent
  <2> QED BY <1>0, <1>2, <2>1, <2>2, <2>3, PayoutsStay, RunWrote DEF Money, Unconfirmed
<1> QED BY <1>3, <1>4 DEF SavePayout

LEMMA ReadBackMoney ==
    ASSUME IInv, Money, OneRun, NEW w \in Runners, ReadBack(w)
    PROVE  Money'
<1>1. ~At(w, "idle") /\ UNCHANGED <<row, payouts, transfers, known, check, retry>>
  BY DEF ReadBack, At
<1>2. run'[w].at \in {"idle", "settle"}
  <2> DEFINE x == [run[w] EXCEPT !.at = "settle", !.row = row, !.seen = row.payout]
  <2>1. CASE Goto(w, "idle")
    BY <1>1, <2>1, OnTheRow, GoesTo DEF Places
  <2>2. CASE run' = [run EXCEPT ![w] = x]
    <3>1. x.at = "settle" /\ w \in DOMAIN run
      BY <1>1, OnTheRow DEF AnyRun
    <3> HIDE DEF x
    <3> QED BY <2>2, <3>1
  <2>3. Goto(w, "idle") \/ run' = [run EXCEPT ![w] = x]
    BY Zenon DEF ReadBack
  <2> QED BY <2>1, <2>2, <2>3
<1> QED BY <1>1, <1>2, Quiet, RunMoved

(* The outcome of the row's own payout. *)
LEMMA OutcomeMoney ==
    ASSUME IInv, Money, Exists, row.status = "transferred", NEW p \in DOMAIN payouts,
           payouts[p].status # "pending", payouts[p].attempt = row.attempt, Outcome(p),
           UNCHANGED <<payouts, transfers, known>>
    PROVE  /\ RowKnows' /\ Refused' /\ OnePayout' /\ row' # Absent
           /\ row.code = "none" /\ row.transferred /\ row'.transferred
           /\ row'.attempt = row.attempt /\ row'.status # "transferred"
           /\ row'.code \in {"none", "payout_failed"}
<1>1. /\ row \in AnyRow /\ RowTrue(row, payouts) /\ RowKnows /\ Refused /\ OnePayout
      /\ p # NoPayout /\ payouts[p] \in PayoutRow
  BY Numbered DEF Money, IInv, RowStands, RowTrue
<1>2. row.code = "none" /\ row.transferred
  BY <1>1 DEF RowTrue
<1>3. /\ row'.attempt = row.attempt /\ row'.transferred = row.transferred /\ row'.payout = p
      /\ row'.transferAsked = row.transferAsked
      /\ \/ row'.status = "paid" /\ row'.code = "none"
         \/ /\ row'.status = "failed" /\ row'.code = "payout_failed"
            /\ payouts[p].status = "failed"
  BY <1>1, <1>2 DEF Outcome, Failing, AnyRow, PayoutRow, Progress
<1>4. payouts[p].status = "failed" => Unfailed = {}
  BY <1>1 DEF OnePayout, Unfailed
<1>5. Refused'
  BY <1>3, <1>4 DEF Refused, Unfailed
<1>6. RowKnows' /\ row' # Absent
  BY <1>1, <1>2, <1>3 DEF RowKnows, TransferCodes, PayoutCodes, Absent
<1> QED BY <1>1, <1>2, <1>3, <1>5, <1>6, PayoutsStay

LEMMA SettleMoney ==
    ASSUME IInv, Money, OneRun, NEW w \in Runners, Settle(w)
    PROVE  Money'
<1>0. ~At(w, "idle") /\ UNCHANGED <<payouts, transfers, known, check, retry>>
  BY DEF Settle, At
<1>1. /\ RowTrue(row, payouts) /\ RowKnows /\ Exists /\ RunTrue(run[w], payouts)
      /\ run[w].at = "settle"
  BY <1>0, OnTheRow, OnTheWay DEF Settle, At
<1>2. RunSafe(run[w])'
  BY <1>0, OnTheRow, GoesTo, Quiet DEF Settle, Places
<1>3. CASE UNCHANGED row
  BY <1>0, <1>2, <1>3, RunMoved
<1>4. CASE row.status = "transferred" /\ row.payout = run[w].seen /\ Outcome(row.payout)
  <2>1. /\ row.payout \in DOMAIN payouts /\ payouts[row.payout].status # "pending"
        /\ payouts[row.payout].attempt = row.attempt
    BY <1>1, <1>4, Numbered DEF RunTrue, RowKnows, IInv
  <2>2. /\ RowKnows' /\ Refused' /\ OnePayout' /\ row' # Absent /\ row.code = "none"
    BY <1>0, <1>1, <1>4, <2>1, OutcomeMoney
  <2> QED BY <1>0, <1>2, <2>2, RunWrote DEF Unconfirmed
<1> QED BY <1>3, <1>4 DEF Settle

LEMMA DieMoney ==
    ASSUME IInv, Money, OneRun, NEW w \in Runners, Die(w)
    PROVE  Money'
<1>1. ~At(w, "idle") /\ UNCHANGED <<row, payouts, transfers, known, check, retry>>
  BY DEF Die
<1>2. RunSafe(run[w])'
  BY <1>1, OnTheRow, GoesTo, Quiet DEF Die, Places
<1> QED BY <1>1, <1>2, RunMoved

LEMMA StepMoney ==
    ASSUME IInv, Money, OneRun, ~WrongKey, NEW w \in Runners, Step(w)
    PROVE  Money'
BY StartMoney, BeginMoney, AwaitMoney, GivingUpMoney, WriteTransferMoney, SendTransferMoney,
   SaveTransferMoney, WritePayoutMoney, SendPayoutMoney, SavePayoutMoney, ReadBackMoney,
   SettleMoney DEF Step

-------------------------------------------------------------------------------
(* The others act while a run is on its way: what it holds stays in order when  *)
(* a transferred row gets the outcome of its payout.                            *)
LEMMA RunsStay ==
    ASSUME Money, Exists, UNCHANGED <<run, payouts, transfers, known>>,
           row.transferred, row'.transferred, row'.attempt = row.attempt,
           row'.code \in {"none", "payout_failed"},
           row'.status = "transferred" => row'.payout # NoPayout
    PROVE  \A w \in Runners : RunSafe(run[w])'
<1> SUFFICES ASSUME NEW w \in Runners PROVE RunSafe(run[w])'
  OBVIOUS
<1>1. RunSafe(run[w])
  BY DEF Money
<1>2. run[w].at = "listed" => Listed(run[w])'
  BY <1>1 DEF RunSafe, Listed, TransferSafe, PayoutSafe, Made, MadeWith, Unconfirmed
<1>3. run[w].at \notin Sending
  BY <1>1 DEF RunSafe, Sends
<1>4. run[w].at \in Paying => Pays(run[w])'
  BY <1>1 DEF RunSafe, Pays, PayoutSafe, Made, MadeWith, Unfailed
<1> QED BY <1>2, <1>3, <1>4 DEF RunSafe, Sending, Paying

LEMMA WebhookMoney ==
    ASSUME IInv, Money, NEW p \in DOMAIN payouts, Webhook(p)
    PROVE  Money'
<1>0. /\ UNCHANGED <<payouts, transfers, known, check, retry, run>>
      /\ Exists /\ row.status = "transferred" /\ payouts[p].status # "pending" /\ Outcome(p)
  BY DEF Webhook
<1>1. payouts[p].attempt = row.attempt
  BY <1>0, Numbered DEF Webhook, Money, RowKnows, IInv
<1>2. /\ RowKnows' /\ Refused' /\ OnePayout' /\ row' # Absent
      /\ row.code = "none" /\ row.transferred /\ row'.transferred
      /\ row'.attempt = row.attempt /\ row'.status # "transferred"
      /\ row'.code \in {"none", "payout_failed"}
  BY <1>0, <1>1, OutcomeMoney
<1>3. RetrySafe' /\ CheckSafe'
  BY <1>0, <1>2, RetryElsewhere, CheckStays DEF Money, Unconfirmed
<1> QED BY <1>0, <1>2, <1>3, RunsStay DEF Money, Exists

(* The bank, staff and the calendar. *)
LEMMA Aside ==
    ASSUME Money, UNCHANGED <<row, payouts, transfers, known, run>>, CheckSafe', RetrySafe'
    PROVE  Money'
BY DEF Money, Exists, RowKnows, Refused, OnePayout, RunSafe, Sends, Pays, Listed, TransferSafe,
       PayoutSafe, Made, MadeWith, Unasked, Unfailed

LEMMA SettlePayoutMoney ==
    ASSUME IInv, Money, NEW p \in DOMAIN payouts, SettlePayout(p)
    PROVE  Money'
<1>0. UNCHANGED <<row, transfers, known, run, check, retry>> /\ payouts[p].status = "pending"
  BY DEF SettlePayout
<1> PICK outcome \in {"paid", "failed"} : payouts' = [payouts EXCEPT ![p].status = outcome]
  BY DEF SettlePayout
<1> DEFINE q == [payouts[p] EXCEPT !.status = outcome]
<1>1. payouts' = [payouts EXCEPT ![p] = q]
  OBVIOUS
<1>2. payouts[p] \in PayoutRow /\ DOMAIN payouts = 1 .. Len(payouts)
  BY Numbered DEF IInv
<1>3. q.attempt = payouts[p].attempt
  BY <1>2 DEF PayoutRow
<1> HIDE DEF q
<1>4. /\ DOMAIN payouts' = DOMAIN payouts
      /\ \A i \in DOMAIN payouts : payouts'[i].attempt = payouts[i].attempt
      /\ \A i \in DOMAIN payouts : i # p => payouts'[i] = payouts[i]
  BY <1>1, <1>2, <1>3
<1>5. Unfailed' \subseteq Unfailed /\ \A a : MadeWith(payouts', a) = MadeWith(payouts, a)
  BY <1>0, <1>4 DEF Unfailed, MadeWith
<1>6. Exists => RowKnows' /\ Refused'
  <2> SUFFICES ASSUME Exists PROVE RowKnows' /\ Refused'
    OBVIOUS
  <2>1. row.payout # NoPayout => row.payout \in DOMAIN payouts
    BY DEF IInv, RowStands, RowTrue
  <2>2. (payouts = <<>>) => payouts' = <<>>
    BY <1>2
  <2>3. RowKnows'
    BY <1>0, <1>4, <1>5, <2>1, <2>2 DEF Money, RowKnows, Made, Unasked
  <2> QED BY <1>0, <1>5, <2>3 DEF Money, Refused
<1>7. OnePayout'
  BY <1>0, <1>4, <1>5 DEF Money, OnePayout
<1>8. CheckSafe' /\ RetrySafe'
  BY <1>0, <1>4, <1>5
     DEF Money, CheckSafe, RetrySafe, AsProposed, NothingMoved, Shows, IInv, CheckTrue
<1>9. \A w \in Runners : RunSafe(run[w])'
  <2> SUFFICES ASSUME NEW w \in Runners PROVE RunSafe(run[w])'
    OBVIOUS
  <2>1. RunSafe(run[w]) /\ (run[w].at = "savePayout" => run[w].seen \in DOMAIN payouts)
    BY DEF Money, IInv, RunsStand, RunTrue
  <2>2. run[w].at = "listed" => Listed(run[w])'
    BY <1>0, <1>5, <2>1 DEF RunSafe, Listed, TransferSafe, PayoutSafe, Made
  <2>3. run[w].at \in Sending => Sends(run[w])'
    BY <1>0, <2>1 DEF RunSafe, Sends, TransferSafe
  <2>4. run[w].at \in Paying => Pays(run[w])'
    BY <1>0, <1>4, <1>5, <2>1 DEF RunSafe, Pays, PayoutSafe, Made
  <2> QED BY <1>0, <2>2, <2>3, <2>4 DEF RunSafe, Sending, Paying
<1>10. ~Exists => payouts' = <<>>
  BY <1>2 DEF Money, Unasked
<1> QED BY <1>0, <1>6, <1>7, <1>8, <1>9, <1>10 DEF Money, Exists, Unasked

LEMMA StaffAsideMoney ==
    ASSUME IInv, Money, ApprovePayout \/ RecordApproval \/ AccountUpdated \/ ProposeRetry
                        \/ LookAgain \/ RejectRetry
    PROVE  Money'
<1>1. UNCHANGED <<row, payouts, transfers, known, run, check>>
  BY DEF ApprovePayout, RecordApproval, AccountUpdated, ProposeRetry, LookAgain, RejectRetry
<1>2. CheckSafe'
  BY <1>1, CheckStays DEF Money
<1>3. RetrySafe'
  <2>1. CASE UNCHANGED retry
    BY <1>1, <2>1, RetryStays DEF Money
  <2>2. CASE ProposeRetry
    BY <2>2 DEF ProposeRetry, NeedsStaff, RetrySafe
  <2>3. CASE LookAgain
    <3>1. retry.code \in StaffCodes /\ row.code = retry.code
      BY <2>3 DEF LookAgain, AsProposed, Money, RetrySafe
    <3> QED BY <1>1, <2>3, <3>1
               DEF LookAgain, RetrySafe, AsProposed, NothingMoved, Shows, MadeWith, Money
  <2>4. CASE RejectRetry
    BY <2>4 DEF RejectRetry, RetrySafe
  <2> QED BY <2>1, <2>2, <2>3, <2>4
          DEF ApprovePayout, RecordApproval, AccountUpdated
<1> QED BY <1>1, <1>2, <1>3, Aside

LEMMA CheckMoney ==
    ASSUME IInv, Money, Check
    PROVE  Money'
<1>1. UNCHANGED <<row, payouts, transfers, known, run, retry>> /\ Exists
  BY DEF Check, NeedsStaff, Exists
<1>2. RowKnows /\ RowTrue(row, payouts) /\ OnePayout
  BY <1>1 DEF Money, IInv, RowStands
<1>3. PICK seen \in Shows(row) :
          check' = [attempt |-> row.attempt, seen |-> seen,
                    status |-> IF row.transferred THEN payouts[seen].status ELSE "made"]
  BY DEF Check
<1>4. row.transferred => payouts[seen].attempt = row.attempt /\ payouts[seen].status # "made"
  <2> SUFFICES ASSUME row.transferred
               PROVE  payouts[seen].attempt = row.attempt /\ payouts[seen].status # "made"
    OBVIOUS
  <2>1. payouts[seen].attempt = row.attempt
    BY <1>2, <1>3 DEF Shows, RowKnows, MadeWith
  <2>2. seen \in DOMAIN payouts
    BY <1>2, <1>3 DEF Shows, RowTrue, MadeWith
  <2>3. payouts[seen] \in PayoutRow
    BY <2>2, Numbered DEF IInv
  <2> QED BY <2>1, <2>3 DEF PayoutRow, Progress
<1>5. ~row.transferred => transfers # 0
  <2> SUFFICES ASSUME ~row.transferred PROVE transfers # 0
    OBVIOUS
  <2>1. row.payout = NoPayout
    BY <1>2 DEF RowKnows, RowTrue, Unasked
  <2> QED BY <1>3, <2>1 DEF Shows
<1>6. CheckSafe'
  BY <1>1, <1>3, <1>4, <1>5 DEF CheckSafe
<1> QED BY <1>1, <1>6, Aside, RetryStays DEF Money

LEMMA AdoptTransferMoney ==
    ASSUME IInv, Money, AdoptTransfer
    PROVE  Money'
<1>0. /\ UNCHANGED <<payouts, transfers, known, run, retry>> /\ check' = Nothing /\ CheckSafe'
      /\ transfers # 0
  BY DEF AdoptTransfer, CheckSafe, Money
<1>1. CASE UNCHANGED row
  BY <1>0, <1>1, Aside, RetryStays DEF Money
<1>2. CASE /\ row.status = "failed" /\ ~row.transferred
           /\ row' = [row EXCEPT !.transferred = TRUE, !.status = "transferred",
                                 !.payoutAsked = "never", !.code = "none"]
  <2>1. /\ Exists /\ row \in AnyRow /\ RowTrue(row, payouts) /\ RowKnows /\ Refused
    BY DEF AdoptTransfer, IInv, Sited, RowStands, RowTrue, Money
  <2>2. /\ row'.status = "transferred" /\ row'.transferred /\ row'.code = "none"
        /\ row'.attempt = row.attempt /\ row'.payout = row.payout
    BY <1>2, <2>1 DEF AnyRow
  <2>3. row.code = "transfer_unconfirmed" /\ Unasked
    BY <1>0, <1>2, <2>1 DEF RowKnows, Refused, RowTrue, AnyRow, Codes, PayoutCodes
  <2>4. RowKnows' /\ Refused' /\ row' # Absent
    BY <1>0, <2>1, <2>2, <2>3
       DEF RowKnows, Refused, TransferCodes, PayoutCodes, Unasked, Made, MadeWith, Absent
  <2>5. RetrySafe'
    <3>1. ~NothingMoved(row)
      BY <1>0, <1>2 DEF NothingMoved, Shows, Money, OnePayout
    <3> QED BY <1>0, <3>1 DEF Money, RetrySafe
  <2>6. \A w \in Runners : run[w].at \notin Sending \cup Paying \cup {"listed"}
    BY <1>2, <2>3 DEF Money, RunSafe, Listed, Sends, Pays, Unconfirmed
  <2>7. \A w \in Runners : RunSafe(run[w])'
    BY <1>0, <2>6 DEF RunSafe, Sending, Paying
  <2> QED BY <1>0, <2>2, <2>4, <2>5, <2>7, PayoutsStay DEF Money, Exists
<1> QED BY <1>1, <1>2 DEF AdoptTransfer

LEMMA AdoptPayoutMoney ==
    ASSUME IInv, Money, AdoptPayout
    PROVE  Money'
<1>0. /\ UNCHANGED <<payouts, transfers, known, run, retry>> /\ CheckSafe'
      /\ check # Nothing /\ check.status # "made"
  BY DEF AdoptPayout, CheckSafe
<1>1. CASE UNCHANGED row
  BY <1>0, <1>1, Aside, RetryStays DEF Money
<1>2. CASE /\ row.status = "failed" /\ row.attempt = check.attempt
           /\ row.transferred /\ row.payout \in {NoPayout, check.seen}
           /\ ~UNCHANGED row
  <2>1. /\ Exists /\ row \in AnyRow /\ RowTrue(row, payouts) /\ RowKnows /\ Refused /\ OnePayout
        /\ check.seen \in DOMAIN payouts /\ check.seen # NoPayout /\ check.seen \in Nat
        /\ payouts[check.seen].attempt = row.attempt
        /\ check.status \in Progress /\ (check.status = "failed" => Ended(payouts, check.seen, "failed"))
    BY <1>0, <1>2, Numbered DEF IInv, Sited, RowStands, RowTrue, Money, CheckTrue, CheckSafe
  <2> DEFINE found == [row EXCEPT !.payout = check.seen]
  <2>2. /\ found.attempt = row.attempt /\ found.transferred /\ found.payout = check.seen
        /\ found \in AnyRow
    BY <1>2, <2>1 DEF AnyRow
  <2>3. \/ check.status = "paid" /\ row' = [found EXCEPT !.status = "paid", !.code = "none"]
        \/ check.status = "pending" /\ row' = [found EXCEPT !.status = "transferred", !.code = "none"]
        \/ check.status = "failed" /\ row' = Failing(found, "payout_failed")
    BY <1>2, <2>1, Zenon DEF AdoptPayout, Progress
  <2> HIDE DEF found
  <2>4. /\ row'.attempt = row.attempt /\ row'.transferred /\ row'.payout = check.seen
        /\ row'.status \in {"paid", "transferred", "failed"}
        /\ row'.code \in {"none", "payout_failed"}
        /\ row'.code = "payout_failed" => Ended(payouts, check.seen, "failed")
    BY <2>1, <2>2, <2>3 DEF AnyRow, Failing
  <2>5. row'.code = "payout_failed" => Unfailed = {}
    BY <2>1, <2>4 DEF Ended, OnePayout, Unfailed
  <2>6. RowKnows' /\ Refused' /\ row' # Absent
    BY <1>0, <2>1, <2>4, <2>5
       DEF RowKnows, Refused, TransferCodes, PayoutCodes, Unfailed, Absent
  <2>7. RetrySafe'
    <3>1. ~NothingMoved(row)
      BY <1>2, <2>1 DEF NothingMoved, Shows, MadeWith
    <3> QED BY <1>0, <3>1 DEF Money, RetrySafe
  <2> QED BY <1>0, <1>2, <2>1, <2>4, <2>6, <2>7, PayoutsStay, RunsStay DEF Money, Exists
<1> QED BY <1>1, <1>2 DEF AdoptPayout

(* A retry approved by the second person follows a look that found nothing, or *)
(* a refusal.                                                                   *)
LEMMA ApproveRetryMoney ==
    ASSUME IInv, Money, ApproveRetry
    PROVE  Money'
<1>0. /\ UNCHANGED <<payouts, transfers, known, run, check>> /\ CheckSafe'
      /\ retry # Nothing /\ retry.looked /\ retry.code \in StaffCodes /\ Exists
  BY DEF ApproveRetry, CheckSafe, Money, RetrySafe, IInv, Sited
<1>1. CASE ~AsProposed
  <2>1. UNCHANGED row /\ retry' = [retry EXCEPT !.looked = FALSE]
    BY <1>1 DEF ApproveRetry
  <2>2. RetrySafe'
    BY <1>0, <2>1 DEF RetrySafe
  <2> QED BY <1>0, <2>1, <2>2, Aside
<1>2. CASE AsProposed
  <2>1. /\ row \in AnyRow /\ RowTrue(row, payouts) /\ RowKnows /\ Refused /\ OnePayout
        /\ row.status = "failed" /\ row.code = retry.code /\ row.attempt \in Nat
    BY <1>0, <1>2 DEF AsProposed, IInv, RowStands, RowTrue, Money, AnyRow
  <2>2. row.code \in Unconfirmed => NothingMoved(row)
    BY <1>0, <2>1 DEF Money, RetrySafe
  <2>3. row.transferred => Unfailed = {}
    <3>1. CASE row.code \in Unconfirmed /\ row.transferred
      <4>1. Made(row.attempt) = {}
        BY <2>2, <3>1 DEF NothingMoved, Shows, Made
      <4> QED BY <2>1, <4>1, NoneOut
    <3>2. CASE row.code \notin Unconfirmed /\ row.transferred
      BY <1>0, <2>1, <3>2
         DEF StaffCodes, Codes, Unconfirmed, RowKnows, Refused, TransferCodes
    <3> QED BY <3>1, <3>2
  <2>4. ~row.transferred => transfers = 0
    <3>1. CASE row.code \in Unconfirmed /\ ~row.transferred
      BY <2>1, <2>2, <3>1 DEF NothingMoved, Shows, OnePayout
    <3>2. CASE row.code \notin Unconfirmed /\ ~row.transferred
      BY <1>0, <2>1, <3>2
         DEF StaffCodes, Codes, Unconfirmed, RowKnows, Refused, PayoutCodes
    <3> QED BY <3>1, <3>2
  <2>5. retry' = Nothing /\ RetrySafe'
    BY <1>2 DEF ApproveRetry, RetrySafe
  <2>6. /\ RowKnows' /\ Refused' /\ OnePayout' /\ row' # Absent
        /\ row'.transferred = row.transferred /\ row'.code = "none"
    <3>1. CASE row.transferred
      <4>1. row' = Retried(row)
        BY <1>2, <3>1 DEF ApproveRetry
      <4> QED BY <1>0, <2>1, <2>3, <4>1, RetriedMoney, Retries, RowIsThere
    <3>2. CASE ~row.transferred
      <4>1. row' = [row EXCEPT !.status = "queued", !.code = "none", !.transferAsked = "never"]
        BY <1>2, <3>2 DEF ApproveRetry
      <4>2. /\ row'.status = "queued" /\ row'.code = "none" /\ row'.attempt = row.attempt
            /\ row'.transferred = row.transferred /\ row'.payout = row.payout
        BY <2>1, <4>1 DEF AnyRow
      <4>3. RowKnows' /\ Refused' /\ row' # Absent
        BY <1>0, <2>1, <2>4, <3>2, <4>2
           DEF RowKnows, Refused, TransferCodes, PayoutCodes, Unasked, Absent
      <4> QED BY <1>0, <2>1, <4>2, <4>3, PayoutsStay
    <3> QED BY <3>1, <3>2
  <2>7. ASSUME NEW w \in Runners PROVE RunSafe(run[w])'
    <3>1. RunSafe(run[w])
      BY DEF Money
    <3>2. run[w].at \notin Sending \cup Paying
      BY <1>0, <2>1, <3>1 DEF RunSafe, Sends, Pays, StaffCodes
    <3>3. run[w].at = "listed" => Listed(run[w])'
      BY <1>0, <2>1, <2>6, <3>1
         DEF RunSafe, Listed, StaffCodes, TransferSafe, Unconfirmed
    <3> QED BY <1>0, <3>2, <3>3 DEF RunSafe, Sending, Paying
  <2> QED BY <1>0, <2>5, <2>6, <2>7 DEF Money, Exists
<1> QED BY <1>1, <1>2

LEMMA DayPassesMoney ==
    ASSUME IInv, Money, DayPasses
    PROVE  Money'
<1> DEFINE Older(asked) == IF asked = "today" THEN "earlier" ELSE asked
<1>0. /\ UNCHANGED <<payouts, transfers, run, check, retry>>
      /\ \A w \in Runners : run[w].at = "idle"
      /\ retry # Nothing => ~retry.looked
  BY DEF DayPasses, At
<1>1. CheckSafe' /\ RetrySafe' /\ \A w \in Runners : RunSafe(run[w])'
  BY <1>0 DEF Money, CheckSafe, RetrySafe, RunSafe, Sending, Paying
<1>2. CASE Exists
  <2>1. row \in AnyRow /\ RowTrue(row, payouts) /\ RowKnows /\ Refused
    BY <1>2 DEF IInv, RowStands, RowTrue, Money
  <2>2. row' = [row EXCEPT !.transferAsked = Older(row.transferAsked),
                           !.payoutAsked = Older(row.payoutAsked)]
    BY <1>2 DEF DayPasses
  <2>3. /\ row'.transferAsked = Older(row.transferAsked)
        /\ row'.payoutAsked = Older(row.payoutAsked) /\ row'.status = row.status
        /\ row'.attempt = row.attempt /\ row'.transferred = row.transferred
        /\ row'.payout = row.payout /\ row'.code = row.code
    BY <2>1, <2>2 DEF AnyRow
  <2>4. Refused' /\ row' # Absent
    BY <1>0, <2>1, <2>3 DEF AnyRow, Refused, Unfailed, Absent
  <2>5. RowKnows'
    <3>1. /\ row'.transferAsked # "today" /\ (row.transferAsked # "never" => row'.transferAsked # "never")
          /\ row'.payoutAsked # "today" /\ (row.payoutAsked # "never" => row'.payoutAsked # "never")
      BY <2>3
    <3> QED BY <1>0, <2>1, <2>3, <3>1 DEF RowKnows, Unasked, Made, MadeWith
  <2> QED BY <1>0, <1>1, <2>3, <2>4, <2>5, PayoutsStay DEF Money, Exists
<1>3. CASE ~Exists
  BY <1>0, <1>1, <1>3 DEF DayPasses, Money, Exists, OnePayout, Unasked, Unfailed
<1> QED BY <1>2, <1>3

-------------------------------------------------------------------------------
LEMMA MoneyInitially == Init => Money
<1> SUFFICES ASSUME Init PROVE Money
  OBVIOUS
<1>1. ~Exists /\ transfers = 0 /\ payouts = <<>> /\ check = Nothing /\ retry = Nothing
  BY DEF Init, Exists
<1>2. \A w \in Runners : RunSafe(run[w])
  BY DEF Init, Idle, RunSafe, Sending, Paying
<1>3. OnePayout
  BY <1>1 DEF OnePayout, Unfailed
<1> QED BY <1>1, <1>2, <1>3 DEF Money, CheckSafe, RetrySafe, Unasked

LEMMA NextMoney ==
    ASSUME IInv, Money, OneRun, ~WrongKey, [Next]_vars
    PROVE  Money'
<1>1. CASE UNCHANGED vars
  <2>1. UNCHANGED <<row, payouts, transfers, known, run, check, retry>>
    BY <1>1 DEF vars
  <2> QED BY <2>1, Aside, RetryStays, CheckStays DEF Money
<1>2. CASE Next
  BY <1>2, StepMoney, DieMoney, SettlePayoutMoney, WebhookMoney, StaffAsideMoney, CheckMoney,
     AdoptTransferMoney, AdoptPayoutMoney, ApproveRetryMoney, DayPassesMoney DEF Next
<1> QED BY <1>1, <1>2

(* No crash, lost answer, refusal, late webhook, day or retry makes a second    *)
(* transfer or leaves two payouts that reached, or may reach, the bank.         *)
THEOREM MovesOnce ==
    ASSUME OneRun, ~WrongKey
    PROVE  Spec => []MoneyMovesOnce
<1>1. IInv /\ Money /\ [Next]_vars => Money'
  BY NextMoney
<1>2. Money => MoneyMovesOnce
  BY DEF Money, OnePayout, Unfailed, MoneyMovesOnce
<1> QED BY <1>1, <1>2, Invariance, MoneyInitially, PTL DEF Spec

===============================================================================

----------------------------- MODULE Disbursement -----------------------------
(***************************************************************************)
(* The payout of one approved statement to a merchant in Australia.  Staff  *)
(* approve it; the worker's job (every five minutes) transfers the money to *)
(* the brand's account at the provider and pays it out to the brand's bank; *)
(* the provider's webhooks, the job's read-back and staff record what       *)
(* became of it.                                                            *)
(*                                                                          *)
(* Every statement of the job and every call to the provider is a step.     *)
(* Time is cut into days: an answer unknown since an earlier day is stale   *)
(* (23 hours), and the provider has forgotten an earlier day's keys (24     *)
(* hours).  A run of the job ends within its day.                           *)
(***************************************************************************)
EXTENDS Integers, Sequences, FiniteSets

CONSTANTS
    Runners,     \* processes that run the job
    Banked,      \* payouts' worth of other statements in the brand's account
    WrongKey,    \* may the provider refuse a request before it looks at its key?
    MaxAttempts, \* bound on payout attempts
    MaxPayouts,  \* bound on payouts the provider makes
    MaxUpdates,  \* bound on account updates
    MaxDays,     \* bound on days that pass
    MaxFaults    \* bound on lost answers, lost requests and processes that die

ASSUME DisbursementAssumption ==
    /\ {Banked, MaxUpdates, MaxDays, MaxFaults} \subseteq Nat
    /\ {MaxAttempts, MaxPayouts} \subseteq Nat \ {0}
    /\ WrongKey \in BOOLEAN

VARIABLES
    \* the ledger's statement and staff's approve_payout proposal
    statement,   \* "open" or "paid"
    proposal,    \* "pending", "answered" (the ledger's answer is in hand) or "approved"
    \* payment.disbursement and payment.connected_account
    row,         \* Absent or a Row
    account,     \* [ready, changed]: changed since the row failed
    \* staff's "check again" and the two-person retry
    check,       \* Nothing or [attempt, seen]
    retry,       \* Nothing or [attempt, code, looked]
    \* the provider
    transfers,   \* transfers made for the statement
    payouts,     \* <<[attempt, said, status], ...>>
    known,       \* idempotency keys it remembers: TransferKey or an attempt
    \* the runs of the job under way
    run,         \* [Runners -> [at, row, ready, changed, seen]]
    spent        \* [updates, days, faults]

staff    == <<statement, proposal, check, retry>>
provider == <<transfers, payouts, known>>
vars     == <<staff, row, account, provider, run, spent>>

Absent      == [status |-> "absent"]
Nothing     == [attempt |-> 0]
NoPayout    == 0
TransferKey == 0
Attempts    == 1 .. MaxAttempts
Asked       == {"never", "today", "earlier"}
Codes       == {"none", "transfer_declined", "transfer_unconfirmed",
                "payout_declined", "payout_unconfirmed", "payout_failed"}
StaffCodes  == Codes \ {"none", "payout_failed"}
Unconfirmed == {"transfer_unconfirmed", "payout_unconfirmed"}

Row == [status : {"queued", "awaiting_account", "transferred", "paid", "failed"},
        attempt : Attempts, transferred : BOOLEAN, payout : 0 .. MaxPayouts,
        transferAsked : Asked, payoutAsked : Asked, code : Codes]

NewRow == [status |-> "queued", attempt |-> 1, transferred |-> FALSE,
           payout |-> NoPayout, transferAsked |-> "never",
           payoutAsked |-> "never", code |-> "none"]

Idle == [at |-> "idle", row |-> Absent, ready |-> FALSE, changed |-> FALSE,
         seen |-> NoPayout]

Init ==
    /\ statement = "open" /\ proposal = "pending"
    /\ row = Absent
    /\ account \in [ready : BOOLEAN, changed : {FALSE}]
    /\ check = Nothing /\ retry = Nothing
    /\ transfers = 0 /\ payouts = <<>> /\ known = {}
    /\ run = [w \in Runners |-> Idle]
    /\ spent = [updates |-> 0, days |-> 0, faults |-> 0]

Exists  == row # Absent
Fault   == spent.faults < MaxFaults /\ spent' = [spent EXCEPT !.faults = @ + 1]
NoFault == UNCHANGED spent

Stale(asked)   == asked = "earlier"
FirstAsk(asked) == IF asked = "never" THEN "today" ELSE asked

(* A row the job will not move by itself. *)
NeedsStaff(r) == r # Absent /\ r.status = "failed" /\ r.code \in StaffCodes

(* A seeded bug, as are the other operators named ..Bug: no definition of the   *)
(* model uses them.  A row left unconfirmed is retried like any other.          *)
OpenBug(r) ==
    \/ r.status \in {"queued", "awaiting_account", "failed"}
    \/ r.status = "transferred" /\ r.payout = NoPayout

(* What openRows selects. *)
Open(r) ==
    \/ r.status \in {"queued", "awaiting_account"}
    \/ r.status = "transferred" /\ r.payout = NoPayout
    \/ r.status = "failed" /\ r.code \notin Unconfirmed

(* failure_code and failed_at; updated_at of the account is older than that.   *)
Failing(r, code) == [r EXCEPT !.status = "failed", !.code = code]

-------------------------------------------------------------------------------
(* The approval: the ledger first, then the proposal. *)

ApprovePayout ==
    /\ statement = "open" /\ proposal = "pending"
    /\ statement' = "paid"
    /\ \/ proposal' = "answered" /\ NoFault
       \/ proposal' = "pending" /\ Fault
    /\ UNCHANGED <<row, account, check, retry, provider, run>>

(* Asked again, the ledger refuses: the statement is not open any more. *)
RecordApproval ==
    /\ proposal = "answered"
    /\ \/ proposal' = "approved" /\ NoFault
       \/ proposal' = "pending" /\ Fault
    /\ UNCHANGED <<statement, row, account, check, retry, provider, run>>

-------------------------------------------------------------------------------
(* The provider.  A refusal leaves no trace, not even the key. *)

MadeWith(ps, attempt) == {p \in DOMAIN ps : ps[p].attempt = attempt}
Latest(ps, attempt)   == {p \in MadeWith(ps, attempt) :
                             \A q \in MadeWith(ps, attempt) : q <= p}
Unfailed          == {p \in DOMAIN payouts : payouts[p].status # "failed"}
Balance           == Banked + transfers - Cardinality(Unfailed)

MakeTransfer ==
    /\ IF TransferKey \in known THEN UNCHANGED <<transfers, known>>
       ELSE transfers' = transfers + 1 /\ known' = known \cup {TransferKey}
    /\ UNCHANGED payouts

(* A remembered key is answered with what was said the first time. *)
MakePayout(attempt) ==
    /\ IF attempt \in known THEN UNCHANGED <<payouts, known>>
       ELSE /\ Balance > 0 /\ Len(payouts) < MaxPayouts
            /\ \E said \in {"pending", "paid", "failed"} :
                   payouts' = Append(payouts, [attempt |-> attempt, said |-> said,
                                               status |-> said])
            /\ known' = known \cup {attempt}
    /\ UNCHANGED transfers

Refuses(key) == key \notin known \/ WrongKey

SettlePayout(p) ==
    /\ payouts[p].status = "pending"
    /\ \E outcome \in {"paid", "failed"} :
           payouts' = [payouts EXCEPT ![p].status = outcome]
    /\ UNCHANGED <<staff, row, account, transfers, known, run, spent>>

-------------------------------------------------------------------------------
(* The job. *)

At(w, place) == run[w].at = place
Goto(w, place) ==
    run' = [run EXCEPT ![w] = IF place \in {"idle", "readBack"} THEN [Idle EXCEPT !.at = place]
                              ELSE [@ EXCEPT !.at = place]]

(* queueApproved, then openRows and the account it joins. *)
Start(w) ==
    /\ At(w, "idle") /\ proposal = "approved"
    /\ row' = IF Exists THEN row ELSE NewRow
    /\ run' = [run EXCEPT ![w] =
                  IF Open(row') THEN [at |-> "listed", row |-> row', ready |-> account.ready,
                                      changed |-> account.changed, seen |-> NoPayout]
                  ELSE [Idle EXCEPT !.at = "readBack"]]
    /\ UNCHANGED <<staff, account, provider, spent>>

(* What follows the listing, and a retry, for this row. *)
NextCall(r, ready) ==
    CASE r.transferred                     -> "payout"
      [] ~r.transferred /\ ready           -> "transfer"
      [] OTHER                             -> "await"

Retried(r) ==
    IF r.transferred
    THEN [r EXCEPT !.status = "transferred", !.attempt = @ + 1, !.payout = NoPayout,
                   !.payoutAsked = "never", !.code = "none"]
    ELSE [r EXCEPT !.status = "queued", !.payoutAsked = "never", !.code = "none"]

(* retryAfterFailure, only once the account changed after the failure. *)
Begin(w) ==
    /\ At(w, "listed")
    /\ LET mine  == run[w]
           again == [mine.row EXCEPT !.attempt = row'.attempt, !.status = row'.status,
                                     !.payoutAsked = "never"] IN
       IF mine.row.status # "failed"
       THEN Goto(w, NextCall(mine.row, mine.ready)) /\ UNCHANGED row
       ELSE IF mine.ready /\ mine.changed /\ row.status = "failed"
                          /\ row.attempt = mine.row.attempt
       THEN /\ row' = Retried(row)
            /\ run' = [run EXCEPT ![w] = [mine EXCEPT !.at = NextCall(mine.row, TRUE),
                                                     !.row = again]]
       ELSE Goto(w, "readBack") /\ UNCHANGED row
    /\ UNCHANGED <<staff, account, provider, spent>>

AwaitAccount(w) ==
    /\ At(w, "await")
    /\ row' = IF row.status = "queued" /\ ~row.transferred
              THEN [row EXCEPT !.status = "awaiting_account"] ELSE row
    /\ Goto(w, "readBack")
    /\ UNCHANGED <<staff, account, provider, spent>>

(* A seeded bug: a paid row is failed too. *)
FailBug(w, code) ==
    /\ row' = Failing(row, code)
    /\ account' = [account EXCEPT !.changed = FALSE]
    /\ Goto(w, "readBack")
    /\ UNCHANGED <<staff, provider, spent>>

(* fail: whatever the row has become, unless it is paid.  A refused request    *)
(* moved nothing, so its key may be sent afresh.                                *)
Fail(w, code) ==
    /\ IF row.status = "paid" THEN UNCHANGED <<row, account>>
       ELSE /\ row' = [Failing(row, code) EXCEPT
                          !.transferAsked = IF code = "transfer_declined" THEN "never" ELSE @,
                          !.payoutAsked = IF code = "payout_declined" THEN "never" ELSE @]
            /\ account' = [account EXCEPT !.changed = FALSE]
    /\ Goto(w, "readBack")
    /\ UNCHANGED <<staff, provider, spent>>

GiveUpTransfer(w) == At(w, "transfer") /\ Stale(run[w].row.transferAsked) /\ Fail(w, "transfer_unconfirmed")
GiveUpPayout(w)   == At(w, "payout") /\ Stale(run[w].row.payoutAsked) /\ Fail(w, "payout_unconfirmed")
TransferRefused(w) == At(w, "transferRefused") /\ Fail(w, "transfer_declined")
PayoutRefused(w)   == At(w, "payoutRefused") /\ Fail(w, "payout_declined")

(* The table refuses a failure code on a row that is not failed: the run dies. *)
RowRefuses == row.status = "failed"

(* Written before the call: when this key was first sent. *)
WriteTransfer(w) ==
    /\ At(w, "transfer") /\ ~Stale(run[w].row.transferAsked)
    /\ IF row.transferred THEN Goto(w, "sendTransfer") /\ UNCHANGED row
       ELSE IF RowRefuses THEN Goto(w, "idle") /\ UNCHANGED row
       ELSE /\ row' = [row EXCEPT !.status = "queued", !.transferAsked = FirstAsk(@)]
            /\ Goto(w, "sendTransfer")
    /\ UNCHANGED <<staff, account, provider, spent>>

SendTransfer(w) ==
    /\ At(w, "sendTransfer")
    /\ \/ MakeTransfer /\ Goto(w, "saveTransfer") /\ NoFault
       \/ MakeTransfer /\ Goto(w, "readBack") /\ Fault
       \/ UNCHANGED provider /\ Goto(w, "readBack") /\ Fault
       \/ Refuses(TransferKey) /\ UNCHANGED provider /\ Goto(w, "transferRefused") /\ NoFault
    /\ UNCHANGED <<staff, row, account>>

SaveTransfer(w) ==
    /\ At(w, "saveTransfer")
    /\ IF ~row.transferred /\ RowRefuses THEN Goto(w, "idle") /\ UNCHANGED row
       ELSE /\ row' = IF row.transferred THEN row
                      ELSE [row EXCEPT !.transferred = TRUE, !.status = "transferred"]
            /\ LET unasked == [run[w].row EXCEPT !.payoutAsked = "never"] IN
               run' = [run EXCEPT ![w] = [@ EXCEPT !.at = "payout", !.row = unasked]]
    /\ UNCHANGED <<staff, account, provider, spent>>

InHand(w) == row.attempt = run[w].row.attempt /\ row.payout = NoPayout

WritePayout(w) ==
    /\ At(w, "payout") /\ ~Stale(run[w].row.payoutAsked)
    /\ row' = IF InHand(w) THEN [row EXCEPT !.payoutAsked = FirstAsk(@)] ELSE row
    /\ Goto(w, "sendPayout")
    /\ UNCHANGED <<staff, account, provider, spent>>

(* A payout that has failed at once is answered as declined. *)
SendPayout(w) ==
    LET attempt == run[w].row.attempt IN
    /\ At(w, "sendPayout")
    /\ \/ /\ MakePayout(attempt) /\ NoFault
          /\ \E p \in Latest(payouts', attempt) :
                 IF payouts'[p].said = "failed" THEN Goto(w, "payoutRefused")
                 ELSE run' = [run EXCEPT ![w] = [@ EXCEPT !.at = "savePayout", !.seen = p]]
       \/ MakePayout(attempt) /\ Goto(w, "readBack") /\ Fault
       \/ UNCHANGED provider /\ Goto(w, "readBack") /\ Fault
       \/ Refuses(attempt) /\ UNCHANGED provider /\ Goto(w, "payoutRefused") /\ NoFault
    /\ UNCHANGED <<staff, row, account>>

(* A seeded bug: a payout that was made is taken to be paid. *)
SavePayoutBug(w) ==
    /\ At(w, "savePayout")
    /\ row' = IF InHand(w) /\ row.status = "transferred"
              THEN [row EXCEPT !.payout = run[w].seen, !.status = "paid"] ELSE row
    /\ Goto(w, "readBack")
    /\ UNCHANGED <<staff, account, provider, spent>>

(* The webhook may have recorded the outcome first; never undo it. *)
SavePayout(w) ==
    /\ At(w, "savePayout")
    /\ row' = IF InHand(w) /\ row.status = "transferred"
              THEN [row EXCEPT !.payout = run[w].seen,
                               !.status = IF payouts[run[w].seen].said = "paid"
                                          THEN "paid" ELSE @]
              ELSE row
    /\ Goto(w, "readBack")
    /\ UNCHANGED <<staff, account, provider, spent>>

(* Applied once: to the payout in hand, while it is in flight. *)
Outcome(p) ==
    IF payouts[p].status = "paid"
    THEN row' = [row EXCEPT !.status = "paid", !.payout = p] /\ UNCHANGED account
    ELSE /\ row' = [Failing(row, "payout_failed") EXCEPT !.payout = p]
         /\ account' = [account EXCEPT !.changed = FALSE]

(* A seeded bug: only a payout asked for within the day is read back. *)
SilentBug(r) == r # Absent /\ r.status = "transferred" /\ r.payoutAsked = "today"
                            /\ r.payout # NoPayout

Silent(r) == r # Absent /\ r.status = "transferred" /\ r.payout # NoPayout

(* The provider's answer is in hand, the row not yet written. *)
ReadBack(w) ==
    /\ At(w, "readBack")
    /\ IF Silent(row) /\ payouts[row.payout].status # "pending"
       THEN run' = [run EXCEPT ![w] = [@ EXCEPT !.at = "settle", !.row = row, !.seen = row.payout]]
       ELSE Goto(w, "idle")
    /\ UNCHANGED <<staff, row, account, provider, spent>>

Settle(w) ==
    /\ At(w, "settle")
    /\ IF row.status = "transferred" /\ row.attempt = run[w].row.attempt /\ row.payout = run[w].seen
       THEN Outcome(row.payout) ELSE UNCHANGED <<row, account>>
    /\ Goto(w, "idle")
    /\ UNCHANGED <<staff, provider, spent>>

Die(w) ==
    /\ ~At(w, "idle")
    /\ Goto(w, "idle") /\ Fault
    /\ UNCHANGED <<staff, row, account, provider>>

Step(w) ==
    \/ Start(w) \/ Begin(w) \/ AwaitAccount(w)
    \/ GiveUpTransfer(w) \/ WriteTransfer(w) \/ SendTransfer(w) \/ TransferRefused(w)
    \/ SaveTransfer(w) \/ GiveUpPayout(w) \/ WritePayout(w) \/ SendPayout(w)
    \/ PayoutRefused(w) \/ SavePayout(w) \/ ReadBack(w) \/ Settle(w)

-------------------------------------------------------------------------------
(* The webhooks: payout.paid and payout.failed, late, repeated, in any order or *)
(* never; account.updated, which moves updated_at whatever it says.             *)

Webhook(p) ==
    /\ payouts[p].status # "pending"
    /\ Exists /\ row.status = "transferred"
    /\ \/ row.payout = p
       \/ row.payout = NoPayout /\ row.attempt = payouts[p].attempt
    /\ Outcome(p)
    /\ UNCHANGED <<staff, provider, run, spent>>

AccountUpdated ==
    /\ spent.updates < MaxUpdates
    /\ Exists => row.attempt < MaxAttempts
    /\ account' \in [ready : BOOLEAN, changed : {TRUE}]
    /\ spent' = [spent EXCEPT !.updates = @ + 1]
    /\ UNCHANGED <<staff, row, provider, run>>

-------------------------------------------------------------------------------
(* Staff.  They read the row and then the provider; what they write is          *)
(* conditional on the row being where they saw it, so the two reads are a step. *)

(* What the provider shows of r: its payout by id or reference, or its transfer. *)
Shows(r) ==
    IF r.payout # NoPayout THEN {r.payout}
    ELSE IF r.transferred THEN MadeWith(payouts, r.attempt)
    ELSE IF transfers > 0 THEN {TransferKey} ELSE {}

Check ==
    /\ check = Nothing /\ NeedsStaff(row)
    /\ \E seen \in Shows(row) :
           check' = [attempt |-> row.attempt, seen |-> seen,
                     status |-> IF row.transferred THEN payouts[seen].status ELSE "made"]
    /\ UNCHANGED <<statement, proposal, row, account, retry, provider, run, spent>>

AdoptTransfer ==
    /\ check # Nothing /\ check.status = "made"
    /\ row' = IF row.status = "failed" /\ row.attempt = check.attempt /\ ~row.transferred
              THEN [row EXCEPT !.transferred = TRUE, !.status = "transferred",
                               !.payoutAsked = "never", !.code = "none"]
              ELSE row
    /\ check' = Nothing
    /\ UNCHANGED <<statement, proposal, account, retry, provider, run, spent>>

AdoptPayout ==
    /\ check # Nothing /\ check.status # "made"
    /\ IF /\ row.status = "failed" /\ row.attempt = check.attempt
          /\ row.transferred /\ row.payout \in {NoPayout, check.seen}
       THEN LET found == [row EXCEPT !.payout = check.seen] IN
            CASE check.status = "paid" ->
                     row' = [found EXCEPT !.status = "paid", !.code = "none"] /\ UNCHANGED account
              [] check.status = "pending" ->
                     row' = [found EXCEPT !.status = "transferred", !.code = "none"] /\ UNCHANGED account
              [] check.status = "failed" ->
                     /\ row' = Failing(found, "payout_failed")
                     /\ account' = [account EXCEPT !.changed = FALSE]
       ELSE UNCHANGED <<row, account>>
    /\ check' = Nothing
    /\ UNCHANGED <<statement, proposal, retry, provider, run, spent>>

NothingMoved(r) == Shows(r) = {}

(* One open proposal per disbursement, once the provider shows nothing moved. *)
ProposeRetry ==
    /\ retry = Nothing /\ NeedsStaff(row) /\ NothingMoved(row)
    /\ row.attempt < MaxAttempts
    /\ retry' = [attempt |-> row.attempt, code |-> row.code, looked |-> FALSE]
    /\ UNCHANGED <<statement, proposal, row, account, check, provider, run, spent>>

AsProposed == /\ row.status = "failed" /\ row.attempt = retry.attempt
              /\ row.code = retry.code

(* The second person's approval asks the provider again, then writes. *)
LookAgain ==
    /\ retry # Nothing /\ ~retry.looked
    /\ AsProposed /\ NothingMoved(row)
    /\ retry' = [retry EXCEPT !.looked = TRUE]
    /\ UNCHANGED <<statement, proposal, row, account, check, provider, run, spent>>

ApproveRetry ==
    /\ retry # Nothing /\ retry.looked
    /\ IF AsProposed
       THEN /\ row' = IF row.transferred THEN Retried(row)
                      ELSE [row EXCEPT !.status = "queued", !.code = "none",
                                       !.transferAsked = "never"]
            /\ retry' = Nothing
       ELSE retry' = [retry EXCEPT !.looked = FALSE] /\ UNCHANGED row
    /\ UNCHANGED <<statement, proposal, account, check, provider, run, spent>>

RejectRetry ==
    /\ retry # Nothing /\ ~retry.looked
    /\ retry' = Nothing
    /\ UNCHANGED <<statement, proposal, row, account, check, provider, run, spent>>

-------------------------------------------------------------------------------
DayPasses ==
    /\ spent.days < MaxDays
    /\ \A w \in Runners : At(w, "idle")
    /\ check = Nothing /\ (retry # Nothing => ~retry.looked)
    /\ LET Older(asked) == IF asked = "today" THEN "earlier" ELSE asked IN
       row' = IF Exists THEN [row EXCEPT !.transferAsked = Older(@), !.payoutAsked = Older(@)]
              ELSE row
    /\ known' = {}
    /\ spent' = [spent EXCEPT !.days = @ + 1]
    /\ UNCHANGED <<staff, account, transfers, payouts, run>>

Next ==
    \/ ApprovePayout \/ RecordApproval
    \/ \E w \in Runners : Step(w) \/ Die(w)
    \/ \E p \in DOMAIN payouts : SettlePayout(p) \/ Webhook(p)
    \/ AccountUpdated \/ DayPasses
    \/ Check \/ AdoptTransfer \/ AdoptPayout
    \/ ProposeRetry \/ LookAgain \/ ApproveRetry \/ RejectRetry

Spec == Init /\ [][Next]_vars

(* pg-boss runs the job at every tick and redelivers a run that died; staff who *)
(* have asked for an approval see its answer.                                   *)
FairSpec == /\ Spec
            /\ \A w \in Runners : WF_vars(Step(w))
            /\ WF_vars(ApprovePayout) /\ WF_vars(RecordApproval)

-------------------------------------------------------------------------------
(* Every variable keeps its type. *)
TypeOK ==
    /\ statement \in {"open", "paid"} /\ proposal \in {"pending", "answered", "approved"}
    /\ row \in Row \cup {Absent}
    /\ account \in [ready : BOOLEAN, changed : BOOLEAN]
    /\ transfers \in Nat /\ known \subseteq Attempts \cup {TransferKey}
    /\ payouts \in Seq([attempt : Attempts, said : {"pending", "paid", "failed"},
                        status : {"pending", "paid", "failed"}])
    /\ check = Nothing \/ check \in [attempt : Attempts, seen : 0 .. MaxPayouts,
                                     status : {"made", "pending", "paid", "failed"}]
    /\ retry = Nothing \/ retry \in [attempt : Attempts, code : StaffCodes, looked : BOOLEAN]
    /\ \A w \in Runners : run[w].row \in Row \cup {Absent} /\ run[w].seen \in 0 .. MaxPayouts

(* A statement is transferred to the brand once, ever, and at most one payout   *)
(* of it has reached the bank or still may, that of the row's attempt: over     *)
(* lost answers, declined requests, days that pass and retries of the job's and *)
(* of staff's.                                                                  *)
MoneyMovesOnce ==
    /\ transfers <= 1
    /\ \A p, q \in Unfailed : p = q /\ payouts[p].attempt = row.attempt

(* The row says what happened to the payout it names: paid means it is paid,    *)
(* payout_failed that it failed.                                                *)
RowTellsTheTruth ==
    Exists => /\ row.status = "paid" => payouts[row.payout].status = "paid"
              /\ row.code = "payout_failed" => payouts[row.payout].status = "failed"

(* A paid row is final: no late webhook, run or click of staff undoes it.       *)
PaidStaysPaid ==
    [][Exists /\ row.status = "paid" =>
           /\ row'.status = "paid" /\ row'.payout = row.payout
           /\ payouts'[row'.payout] = payouts[row.payout]]_vars

InFlight == /\ Exists /\ row.status = "transferred"
            /\ \E p \in MadeWith(payouts, row.attempt) : payouts[p].status # "pending"

(* A payout is never in flight unseen: with every webhook lost, and its answer  *)
(* too, the row of a payout that has ended leaves "transferred".                *)
NeverUnseen == InFlight ~> (row.status # "transferred")

(* What staff approved is paid out: once the ledger has taken the statement's   *)
(* money for the merchant there is a row for the job.                           *)
ApprovedIsDisbursed == (statement = "paid") ~> Exists
===============================================================================

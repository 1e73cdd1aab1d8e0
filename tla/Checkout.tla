------------------------------- MODULE Checkout -------------------------------
(***************************************************************************)
(* The checkout saga of apps/api: a viewer confirms a quoted checkout, the  *)
(* voucher service reserves a voucher out of stock, the ledger burns the    *)
(* points, the voucher service activates the voucher.  Several requests may *)
(* run the saga of one checkout at once, a request may die at any point,    *)
(* and a recovery job picks up the rows it left behind.  A buyer may later  *)
(* dispute the voucher and get the points back.                             *)
(*                                                                          *)
(* A process is one request or the recovery job.  It takes one step per     *)
(* call it awaits, so that other processes may run between two calls.  A    *)
(* request that is slow stands also for a call still in flight after its    *)
(* caller died.                                                             *)
(***************************************************************************)
EXTENDS Naturals, FiniteSets

CONSTANTS
    Sagas,      \* checkouts, one row of checkout.saga each
    Users,      \* buyers
    Vouchers,   \* the minted vouchers of the one listing the checkouts are for
    Requests,   \* requests that confirm or dispute a checkout
    Recovery,   \* the recovery job; an advisory lock lets one instance run it
    Buyer,      \* [Sagas -> Users], the user of a saga row
    Price,      \* [Sagas -> Nat], the points of a saga row
    Funds,      \* [Users -> Nat], the available points a user starts with
    None,       \* no voucher, no saga
    MayRefuseActivation, \* may activate be answered by a code of the closed set?
    MaxCrashes  \* bound on the calls that fail or processes that die

Procs == Requests \cup {Recovery}

ASSUME CheckoutAssumption ==
    /\ Recovery \notin Requests
    /\ None \notin Sagas
    /\ None \notin Vouchers
    /\ Buyer \in [Sagas -> Users]
    /\ Price \in [Sagas -> Nat \ {0}]
    /\ Funds \in [Users -> Nat]
    /\ MayRefuseActivation \in BOOLEAN
    /\ MaxCrashes \in Nat

VARIABLES
    \* checkout.saga in the database of apps/api
    state,      \* [Sagas -> SagaState]
    voucherOf,  \* [Sagas -> Vouchers \cup {None}], column voucher_id
    lapsed,     \* sagas whose reserved_until has passed
    quoteOver,  \* sagas whose quote_expires_at has passed
    \* voucher.vouchers in the voucher service
    vstate,     \* [Vouchers -> VoucherState]
    vsaga,      \* [Vouchers -> Sagas \cup {None}], column saga_id, never cleared
    \* ledger.burn and the available balances in the ledger
    burn,       \* [Sagas -> BurnState]
    points,     \* [Users -> Nat]
    \* the processes
    pc,         \* [Procs -> Place], the call a process makes next
    at,         \* [Procs -> Sagas \cup {None}], the saga it runs
    got,        \* [Procs -> Vouchers \cup {None}], what reserve answered
    crashes     \* calls that failed and processes that died so far

row      == <<state, voucherOf>>
clocks   == <<lapsed, quoteOver>>
vouchers == <<vstate, vsaga>>
ledger   == <<burn, points>>
procs    == <<pc, at, got>>
vars     == <<row, clocks, vouchers, ledger, procs, crashes>>

SagaState    == {"quoted", "reserved", "burned", "done", "released", "voided"}
\* "taken" is held, redeemed or expired: with the merchant or past its date.
VoucherState == {"minted", "allocated", "active", "taken", "voided"}
BurnState    == {"none", "burned", "reinstated"}
Place == {"idle", "check_balance", "reserve", "claim", "advance_reserved", "burn", "advance_burned",
          "activate", "advance_done", "release", "advance_released",
          "take_back", "advance_taken_back", "reinstate_unusable",
          "advance_unusable", "ask", "void", "void_active", "reinstate", "advance_voided"}

-------------------------------------------------------------------------------
(* The voucher service's view of a saga, and the owner it wrote on activation. *)

Reserved(s)  == {v \in Vouchers : vsaga[v] = s /\ vstate[v] = "allocated"}
Activated(s) == {v \in Vouchers : vsaga[v] = s /\ vstate[v] = "active"}
OwnedBy(v, u) ==
    /\ vstate[v] \in {"active", "taken", "voided"}
    /\ vsaga[v] \in Sagas
    /\ Buyer[vsaga[v]] = u

(* A seeded bug, as are the other operators named ..Bug: no definition of the   *)
(* specification uses them.  Here a reserved row is activated before it is paid.*)
BranchBug(st) == CASE st = "quoted"                 -> "check_balance"
                   [] st \in {"reserved", "burned"} -> "activate"
                   [] OTHER                         -> "idle"

(* Where runSaga goes on from a row in the given state. *)
Branch(st) == CASE st = "quoted"   -> "check_balance"
                [] st = "reserved" -> "burn"
                [] st = "burned"   -> "activate"
                [] OTHER           -> "idle"

GoTo(p, place) ==
    /\ pc'  = [pc EXCEPT ![p] = place]
    /\ at'  = IF place = "idle" THEN [at EXCEPT ![p] = None] ELSE at
    /\ got' = IF place = "idle" THEN [got EXCEPT ![p] = None] ELSE got

Return(p) == GoTo(p, "idle")

StartAt(p, s, place) ==
    /\ pc[p] = "idle"
    /\ pc' = [pc EXCEPT ![p] = place]
    /\ at' = [at EXCEPT ![p] = s]
    /\ UNCHANGED got

(* PostgresSagaRepository.advance: a compare-and-set on the state column; a  *)
(* caller that loses continues with the row as it now is.                    *)
Advance(s, from, to) ==
    state' = [state EXCEPT ![s] = IF @ = from THEN to ELSE @]

-------------------------------------------------------------------------------
Init ==
    /\ state     = [s \in Sagas |-> "quoted"]
    /\ voucherOf = [s \in Sagas |-> None]
    /\ lapsed = {} /\ quoteOver = {}
    /\ vstate = [v \in Vouchers |-> "minted"]
    /\ vsaga  = [v \in Vouchers |-> None]
    /\ burn   = [s \in Sagas |-> "none"]
    /\ points = Funds
    /\ pc  = [p \in Procs |-> "idle"]
    /\ at  = [p \in Procs |-> None]
    /\ got = [p \in Procs |-> None]
    /\ crashes = 0

(* confirm, and runSaga up to its first call: the row is read and a lapsed    *)
(* quote is refused.                                                          *)
Confirm(p, s) ==
    /\ state[s] \in {"quoted", "reserved", "burned"}
    /\ state[s] = "quoted" => s \notin quoteOver
    /\ StartAt(p, s, Branch(state[s]))
    /\ UNCHANGED <<row, clocks, vouchers, ledger, crashes>>

(* The pre-check: a short balance is refused with no side effect. *)
CheckBalance(p) ==
    /\ pc[p] = "check_balance"
    /\ IF points[Buyer[at[p]]] >= Price[at[p]] THEN GoTo(p, "reserve") ELSE Return(p)
    /\ UNCHANGED <<row, clocks, vouchers, ledger, crashes>>

(* The reservation a retried call already has is not looked for. *)
ReserveLooksBug(p) ==
    /\ pc[p] = "reserve"
    /\ GoTo(p, "claim")
    /\ UNCHANGED <<row, clocks, vouchers, ledger, crashes>>

(* Reserve, first statement: a live reservation of the saga is returned. *)
ReserveLooks(p) ==
    /\ pc[p] = "reserve"
    /\ \/ \E v \in Reserved(at[p]) :
             /\ pc'  = [pc EXCEPT ![p] = "advance_reserved"]
             /\ got' = [got EXCEPT ![p] = v]
             /\ UNCHANGED at
       \/ /\ Reserved(at[p]) = {}
          /\ GoTo(p, "claim")
    /\ UNCHANGED <<row, clocks, vouchers, ledger, crashes>>

(* Reserve, second statement, in the same READ COMMITTED transaction: any     *)
(* minted voucher no other transaction has locked; none is a sold_out answer. *)
ReserveClaims(p) ==
    /\ pc[p] = "claim"
    /\ \/ \E v \in Vouchers :
             /\ vstate[v] = "minted"
             /\ vstate' = [vstate EXCEPT ![v] = "allocated"]
             /\ vsaga'  = [vsaga EXCEPT ![v] = at[p]]
             /\ pc'  = [pc EXCEPT ![p] = "advance_reserved"]
             /\ got' = [got EXCEPT ![p] = v]
             /\ UNCHANGED at
       \/ /\ \A v \in Vouchers : vstate[v] # "minted"
          /\ Return(p)
          /\ UNCHANGED vouchers
    /\ UNCHANGED <<row, clocks, ledger, crashes>>

AdvanceReserved(p) ==
    LET s == at[p] IN
    /\ pc[p] = "advance_reserved"
    /\ Advance(s, "quoted", "reserved")
    /\ voucherOf' = IF state[s] = "quoted" THEN [voucherOf EXCEPT ![s] = got[p]] ELSE voucherOf
    /\ GoTo(p, Branch(state'[s]))
    /\ UNCHANGED <<clocks, vouchers, ledger, crashes>>

(* The balance is checked only before the reservation. *)
BurnBug(p) ==
    LET s == at[p] IN
    /\ pc[p] = "burn"
    /\ IF burn[s] = "none"
       THEN /\ burn'   = [burn EXCEPT ![s] = "burned"]
            /\ points' = [points EXCEPT ![Buyer[s]] = @ - Price[s]]
       ELSE UNCHANGED ledger
    /\ GoTo(p, "advance_burned")
    /\ UNCHANGED <<row, clocks, vouchers, crashes>>

(* burnForVoucher: an earlier burn of the saga is replayed even when its quote *)
(* has lapsed; a new one needs a live locked quote and the points.             *)
Burn(p) ==
    LET s == at[p] IN
    /\ pc[p] = "burn"
    /\ \/ /\ burn[s] # "none"
          /\ GoTo(p, "advance_burned")
          /\ UNCHANGED ledger
       \/ /\ burn[s] = "none" /\ s \notin quoteOver /\ points[Buyer[s]] >= Price[s]
          /\ burn'   = [burn EXCEPT ![s] = "burned"]
          /\ points' = [points EXCEPT ![Buyer[s]] = @ - Price[s]]
          /\ GoTo(p, "advance_burned")
       \/ /\ burn[s] = "none" /\ (s \in quoteOver \/ points[Buyer[s]] < Price[s])
          /\ GoTo(p, "release")
          /\ UNCHANGED ledger
    /\ UNCHANGED <<row, clocks, vouchers, crashes>>

AdvanceBurned(p) ==
    /\ pc[p] = "advance_burned"
    /\ Advance(at[p], "reserved", "burned")
    /\ GoTo(p, Branch(state'[at[p]]))
    /\ UNCHANGED <<voucherOf, clocks, vouchers, ledger, crashes>>

(* activate: the saga's allocated voucher goes to its buyer; else, of the      *)
(* vouchers that carry the saga id, the one with the highest version (here:    *)
(* any) is a replay when it is active.  Anything else is a 404, which the      *)
(* client throws and runSaga answers by leaving the row burned for recovery.   *)
Activate(p) ==
    LET s == at[p] IN
    /\ pc[p] = "activate"
    /\ \/ \E v \in Reserved(s) :
             /\ vstate' = [vstate EXCEPT ![v] = "active"]
             /\ GoTo(p, "advance_done")
       \/ /\ Reserved(s) = {} /\ Activated(s) # {}
          /\ GoTo(p, "advance_done")
          /\ UNCHANGED vstate
       \/ /\ Reserved(s) = {}
          /\ \A v \in Activated(s) : \E w \in Vouchers \ Activated(s) : vsaga[w] = s
          /\ Return(p)
          /\ UNCHANGED vstate
       \/ /\ MayRefuseActivation
          /\ GoTo(p, "take_back")
          /\ UNCHANGED vstate
    /\ UNCHANGED <<row, clocks, vsaga, ledger, crashes>>

AdvanceDone(p) ==
    /\ pc[p] = "advance_done"
    /\ Advance(at[p], "burned", "done")
    /\ Return(p)
    /\ UNCHANGED <<voucherOf, clocks, vouchers, ledger, crashes>>

(* releaseReservation: allocated back to minted, the saga id left in place; a *)
(* saga that holds nothing is a 404, which the client throws.                 *)
ReleaseThen(p, from, place) ==
    /\ pc[p] = from
    /\ \/ \E v \in Reserved(at[p]) :
             /\ vstate' = [vstate EXCEPT ![v] = "minted"]
             /\ GoTo(p, place)
       \/ /\ Reserved(at[p]) = {}
          /\ Return(p)
          /\ UNCHANGED vstate
    /\ UNCHANGED <<row, clocks, vsaga, ledger, crashes>>

(* The burn was refused, or recovery found no burn: the voucher goes back. *)
Release(p) == ReleaseThen(p, "release", "advance_released")

AdvanceReleased(p) ==
    /\ pc[p] = "advance_released"
    /\ Advance(at[p], "reserved", "released")
    /\ Return(p)
    /\ UNCHANGED <<voucherOf, clocks, vouchers, ledger, crashes>>

(* The voucher can never be activated: release it, then return the points. *)
TakeBack(p) == ReleaseThen(p, "take_back", "advance_taken_back")

AdvanceTakenBack(p) ==
    /\ pc[p] = "advance_taken_back"
    /\ Advance(at[p], "burned", "released")
    /\ GoTo(p, "reinstate_unusable")
    /\ UNCHANGED <<voucherOf, clocks, vouchers, ledger, crashes>>

(* A second reinstatement is not recognised as one. *)
ReinstateThenBug(p, from, place) ==
    LET s == at[p] IN
    /\ pc[p] = from
    /\ IF burn[s] = "none"
       THEN Return(p) /\ UNCHANGED ledger
       ELSE /\ burn'   = [burn EXCEPT ![s] = "reinstated"]
            /\ points' = [points EXCEPT ![Buyer[s]] = @ + Price[s]]
            /\ GoTo(p, place)
    /\ UNCHANGED <<row, clocks, vouchers, crashes>>

(* reinstateBurn: the exact points return once; a second call is a no-op and *)
(* a saga that never burned is refused.                                      *)
ReinstateThen(p, from, place) ==
    LET s == at[p] IN
    /\ pc[p] = from
    /\ \/ /\ burn[s] = "burned"
          /\ burn'   = [burn EXCEPT ![s] = "reinstated"]
          /\ points' = [points EXCEPT ![Buyer[s]] = @ + Price[s]]
          /\ GoTo(p, place)
       \/ /\ burn[s] = "reinstated"
          /\ GoTo(p, place)
          /\ UNCHANGED ledger
       \/ /\ burn[s] = "none"
          /\ Return(p)
          /\ UNCHANGED ledger
    /\ UNCHANGED <<row, clocks, vouchers, crashes>>

ReinstateUnusable(p) == ReinstateThen(p, "reinstate_unusable", "advance_unusable")

AdvanceUnusable(p) ==
    /\ pc[p] = "advance_unusable"
    /\ Advance(at[p], "released", "voided")
    /\ Return(p)
    /\ UNCHANGED <<voucherOf, clocks, vouchers, ledger, crashes>>

-------------------------------------------------------------------------------
(* The job lists only rows whose reservation lapsed, not the burned ones. *)
RecoverBug(s) ==
    /\ state[s] = "reserved" /\ s \in lapsed
    /\ StartAt(Recovery, s, "ask")
    /\ UNCHANGED <<row, clocks, vouchers, ledger, crashes>>

(* recoverSagas: the rows listUnfinished returns, one at a time.  The row is   *)
(* read when the sweep starts and used when its turn comes.                    *)
Recover(s) ==
    /\ \/ state[s] = "reserved" /\ s \in lapsed /\ StartAt(Recovery, s, "ask")
       \/ state[s] = "burned" /\ StartAt(Recovery, s, "activate")
    /\ UNCHANGED <<row, clocks, vouchers, ledger, crashes>>

(* getBurn decides: a live burn carries the saga forward, anything else lets   *)
(* the voucher go.  A ledger that cannot answer is a Crash of this process.    *)
AskLedger(p) ==
    /\ pc[p] = "ask"
    /\ GoTo(p, IF burn[at[p]] = "burned" THEN "advance_burned" ELSE "release")
    /\ UNCHANGED <<row, clocks, vouchers, ledger, crashes>>

-------------------------------------------------------------------------------
(* disputeVoucher: the merchant would not honour the voucher of a finished    *)
(* checkout.                                                                  *)
Dispute(p, s) ==
    /\ voucherOf[s] # None
    /\ \/ state[s] = "done" /\ StartAt(p, s, "void")
       \/ state[s] = "voided" /\ StartAt(p, s, "reinstate")
    /\ UNCHANGED <<row, clocks, vouchers, ledger, crashes>>

(* A voucher already at the merchant is answered like one that was voided. *)
VoidVoucherBug(p) ==
    LET v == voucherOf[at[p]] IN
    /\ pc[p] = "void"
    /\ IF OwnedBy(v, Buyer[at[p]])
       THEN GoTo(p, IF vstate[v] = "active" THEN "void_active" ELSE "reinstate")
       ELSE Return(p)
    /\ UNCHANGED <<row, clocks, vouchers, ledger, crashes>>

(* voidVoucher reads the voucher: only its owner may void it, only while it is  *)
(* active; one already voided is a replay, one at the merchant queues the       *)
(* dispute for staff.                                                           *)
VoidVoucher(p) ==
    LET v == voucherOf[at[p]] IN
    /\ pc[p] = "void"
    /\ \/ OwnedBy(v, Buyer[at[p]]) /\ vstate[v] = "active" /\ GoTo(p, "void_active")
       \/ OwnedBy(v, Buyer[at[p]]) /\ vstate[v] = "voided" /\ GoTo(p, "reinstate")
       \/ ~ OwnedBy(v, Buyer[at[p]]) /\ Return(p)
       \/ vstate[v] = "taken" /\ Return(p)
    /\ UNCHANGED <<row, clocks, vouchers, ledger, crashes>>

(* minter.Void, a transaction of its own: it reads the voucher again, and the   *)
(* lifecycle also lets a hold be voided; redeemed, expired and voided are final.*)
VoidActive(p) ==
    LET v == voucherOf[at[p]] IN
    /\ pc[p] = "void_active"
    /\ \/ /\ vstate[v] \in {"active", "taken"}
          /\ vstate' = [vstate EXCEPT ![v] = "voided"]
          /\ GoTo(p, "reinstate")
       \/ /\ vstate[v] \in {"taken", "voided"}
          /\ Return(p)
          /\ UNCHANGED vstate
    /\ UNCHANGED <<row, clocks, vsaga, ledger, crashes>>

ReinstateDisputed(p) == ReinstateThen(p, "reinstate", "advance_voided")

AdvanceVoided(p) ==
    /\ pc[p] = "advance_voided"
    /\ Advance(at[p], "done", "voided")
    /\ Return(p)
    /\ UNCHANGED <<voucherOf, clocks, vouchers, ledger, crashes>>

-------------------------------------------------------------------------------
(* A call fails, its answer is lost, or the process dies: runSaga and the job *)
(* forget where they were.                                                    *)
Crash(p) ==
    /\ crashes < MaxCrashes
    /\ pc[p] # "idle"
    /\ Return(p)
    /\ crashes' = crashes + 1
    /\ UNCHANGED <<row, clocks, vouchers, ledger>>

QuoteLapses(s) ==
    /\ s \notin quoteOver
    /\ quoteOver' = quoteOver \cup {s}
    /\ UNCHANGED <<row, lapsed, vouchers, ledger, procs, crashes>>

ReservationLapses(s) ==
    /\ state[s] = "reserved" /\ s \notin lapsed
    /\ lapsed' = lapsed \cup {s}
    /\ UNCHANGED <<row, quoteOver, vouchers, ledger, procs, crashes>>

(* The merchant holds or redeems a voucher, or gives a hold or a refund back. *)
AtMerchant(v) ==
    /\ \/ vstate[v] = "active" /\ vstate' = [vstate EXCEPT ![v] = "taken"]
       \/ vstate[v] = "taken"  /\ vstate' = [vstate EXCEPT ![v] = "active"]
    /\ UNCHANGED <<row, clocks, vsaga, ledger, procs, crashes>>

RunSaga(p) ==
    \/ CheckBalance(p) \/ ReserveLooks(p) \/ ReserveClaims(p) \/ AdvanceReserved(p)
    \/ Burn(p) \/ AdvanceBurned(p)
    \/ Activate(p) \/ AdvanceDone(p)
    \/ Release(p) \/ AdvanceReleased(p)
    \/ TakeBack(p) \/ AdvanceTakenBack(p) \/ ReinstateUnusable(p) \/ AdvanceUnusable(p)

SettleDispute(p) ==
    VoidVoucher(p) \/ VoidActive(p) \/ ReinstateDisputed(p) \/ AdvanceVoided(p)

Next ==
    \/ \E p \in Procs : RunSaga(p) \/ SettleDispute(p) \/ AskLedger(p) \/ Crash(p)
    \/ \E p \in Requests, s \in Sagas : Confirm(p, s) \/ Dispute(p, s)
    \/ \E s \in Sagas : Recover(s) \/ QuoteLapses(s) \/ ReservationLapses(s)
    \/ \E v \in Vouchers : AtMerchant(v)

Spec == Init /\ [][Next]_vars

(* The job ticks every minute and its loop reaches every row of the list; time *)
(* passes.  Requests promise nothing: a client may never come back.            *)
Fairness ==
    /\ WF_vars(RunSaga(Recovery) \/ AskLedger(Recovery))
    /\ \A s \in Sagas : SF_vars(Recover(s)) /\ WF_vars(ReservationLapses(s))

FairSpec == Spec /\ Fairness

(* Every request also gets the answers it awaits, unless it dies. *)
LiveSpec ==
    /\ FairSpec
    /\ \A p \in Requests : WF_vars(RunSaga(p)) /\ WF_vars(SettleDispute(p))

-------------------------------------------------------------------------------
(* Every variable stays in the set it is declared over. *)
TypeOK ==
    /\ state \in [Sagas -> SagaState]
    /\ voucherOf \in [Sagas -> Vouchers \cup {None}]
    /\ lapsed \subseteq Sagas /\ quoteOver \subseteq Sagas
    /\ vstate \in [Vouchers -> VoucherState]
    /\ vsaga \in [Vouchers -> Sagas \cup {None}]
    /\ burn \in [Sagas -> BurnState]
    /\ points \in [Users -> Nat]
    /\ pc \in [Procs -> Place]
    /\ at \in [Procs -> Sagas \cup {None}]
    /\ got \in [Procs -> Vouchers \cup {None}]
    /\ crashes \in Nat

-------------------------------------------------------------------------------
(* The checkout as its buyer sees it: what the ledger burned, what reached the *)
(* wallet under the saga.                                                      *)
HasIssued(s) == \E v \in Vouchers :
                    vsaga[v] = s /\ vstate[v] \in {"active", "taken", "voided"}

Phase == [s \in Sagas |->
             CASE burn[s] = "none"       -> "open"
               [] burn[s] = "reinstated" -> "returned"
               [] OTHER                  -> IF HasIssued(s) THEN "delivered" ELSE "paid"]

Promise == INSTANCE CheckoutPromise
             WITH MayGiveUp <- MayRefuseActivation, phase <- Phase, balance <- points

(* Whatever requests, recovery, disputes and crashes do, every step of the    *)
(* saga is a step of the promise or is invisible to the buyer.                *)
KeepsPromise == Promise!Spec

(* A voucher that left stock for a wallet was paid for: whatever the order in *)
(* which requests, recovery and crashes run, activate follows the burn.       *)
NoFreeVoucher ==
    \A v \in Vouchers : vstate[v] \in {"active", "taken", "voided"} =>
        vsaga[v] \in Sagas /\ burn[vsaga[v]] # "none"

(* The saga row never runs ahead of the ledger: a burned or done row has a    *)
(* burn, a voided row has returned its points.                                *)
RowFollowsLedger ==
    \A s \in Sagas :
        /\ state[s] \in {"burned", "done"} => burn[s] # "none"
        /\ state[s] = "voided" => burn[s] = "reinstated"

(* What the proofs need besides: a process that is not idle runs a saga, and  *)
(* its place tells what the ledger and the wallet already hold for that saga. *)
Located == \A p \in Procs : pc[p] # "idle" => at[p] \in Sagas

StockIsTagged == \A v \in Vouchers : vstate[v] # "minted" => vsaga[v] \in Sagas

AfterBurn == {"advance_burned", "activate", "advance_done", "take_back",
              "advance_taken_back", "reinstate_unusable"}

PlaceFollowsLedger ==
    \A p \in Procs :
        /\ pc[p] \in AfterBurn => burn[at[p]] # "none"
        /\ pc[p] \in {"advance_unusable", "advance_voided"} => burn[at[p]] = "reinstated"

DeliveredFirst ==
    /\ \A s \in Sagas : state[s] = "done" => HasIssued(s)
    /\ \A p \in Procs :
          /\ pc[p] = "advance_done" => HasIssued(at[p])
          /\ pc[p] \in {"void", "void_active", "reinstate"} =>
                HasIssued(at[p]) \/ burn[at[p]] = "reinstated"
          /\ pc[p] \in {"take_back", "advance_taken_back", "reinstate_unusable"} =>
                MayRefuseActivation

IInv ==
    /\ TypeOK /\ Located /\ StockIsTagged
    /\ NoFreeVoucher /\ RowFollowsLedger
    /\ PlaceFollowsLedger /\ DeliveredFirst

(* Points never come back while the checkout's own voucher can still be spent: *)
(* reinstateBurn runs only after that voucher was voided for good.             *)
ReturnedOnlyAfterVoid ==
    \A s \in Sagas : burn[s] = "reinstated" =>
        voucherOf[s] # None /\ vstate[voucherOf[s]] = "voided"

(* One burn buys at most one voucher: a saga id is never written on two       *)
(* vouchers that both reached the buyer's wallet.                             *)
OneVoucherPerBurn ==
    \A v, w \in Vouchers :
        /\ {vstate[v], vstate[w]} \subseteq {"active", "taken", "voided"}
        /\ vsaga[v] = vsaga[w]
        => v = w

(* A voucher whose points were spent is never put back in stock. *)
NeverFreesAPaidVoucher ==
    [][\A v \in Vouchers : vstate[v] = "allocated" /\ vstate'[v] = "minted"
                            => burn[vsaga[v]] # "burned"]_vars

(* Recovery finishes every paid checkout whose voucher is still reserved. *)
PaidIsDelivered ==
    \A s \in Sagas : (state[s] = "burned" /\ Reserved(s) # {})
                        ~> (state[s] = "done" \/ Reserved(s) = {})

(* A reservation is settled one way or the other by recovery. *)
ReservationSettles ==
    \A s \in Sagas : state[s] = "reserved" ~> state[s] # "reserved"
===============================================================================

-------------------------------- MODULE Auction --------------------------------
(***************************************************************************)
(* One charity auction of apps/api: the seller's voucher goes into the      *)
(* voucher service's escrow, bidders' cards are held at the payment         *)
(* provider, and the 30-second sweep (or a read past the end) captures the  *)
(* highest hold and hands the voucher over; staff may cancel instead.       *)
(*                                                                          *)
(* A bid or a close is one database transaction under the auction's row     *)
(* lock.  What it writes shows only when it commits and is gone when it     *)
(* fails, but the provider and the voucher service keep what its calls      *)
(* already did, so each outside call is a step of its own.                  *)
(***************************************************************************)
EXTENDS Integers, FiniteSets, FiniteSetsExt

CONSTANTS
    Bidders,       \* verified adults of the region, none of them the seller
    Bids,          \* bid numbers, a bound on the holds placed
    Amounts,       \* what a bidder may offer
    FaceValue,     \* of the voucher
    Step,          \* the least increment: one major unit
    Lasting,       \* how long the auction is open
    Window,        \* AUCTION_EXTENSION_SECONDS
    MaxExtensions,
    MaxNow,        \* bound on the clock
    MaxFaults      \* bound on outside calls that fail or are never answered, on
                   \* failing writes and on processes that die in a transaction

Sweep    == "sweep"
Staff    == "staff"
Closers  == {Sweep, Staff}
Callers  == Bidders \cup Closers
Seller   == "seller"
Charity  == "charity"
Escrow   == "escrow"
NoBid    == 0

ASSUME AuctionAssumption ==
    /\ Bids \subseteq Nat \ {NoBid} /\ IsFiniteSet(Bids)
    /\ Amounts \subseteq Nat \ {0}
    /\ {FaceValue, Step, Lasting, Window} \subseteq Nat \ {0}
    /\ {MaxExtensions, MaxNow, MaxFaults} \subseteq Nat
    /\ Bidders \cap {Sweep, Staff, Seller, Charity, Escrow} = {}

VARIABLES
    \* auction.auction and auction.settlement
    auction,    \* [state, ends, extensions, current, leader, outcome, winner]
    \* auction.bid
    bid,        \* [Bids -> BidRow]
    \* the payment provider
    intent,     \* [Bids -> IntentState]
    \* the voucher service
    owner,      \* who has the voucher: the seller, the escrow or who won it
    \* the transactions under way
    tx,         \* [Callers -> Transaction]
    listing,    \* has the seller's request taken escrow and not yet inserted the row?
    now,
    unheard,    \* bids whose capture was answered by an error, done or not
    faults

outside == <<intent, owner>>
vars    == <<auction, bid, intent, owner, tx, listing, now, unheard, faults>>

NoRow   == [bidder |-> Seller, amount |-> 0, state |-> "none"]
Idle    == [at |-> "idle", began |-> 0, now |-> 0, amount |-> 0, bid |-> NoBid,
            rest |-> {}, freed |-> {}, failed |-> {}, winner |-> NoBid]
BidRow  == [bidder : Bidders \cup {Seller}, amount : Amounts \cup {0},
            state : {"none", "held", "released", "captured", "capture_failed"}]

(* "refusing" is held too, but its capture was declined: the provider repeats   *)
(* that answer to the same idempotency key.                                     *)
IntentState == {"none", "held", "refusing", "captured", "canceled"}

Reserve == (FaceValue + 1) \div 2

HigherOf(a, b) == IF a > b THEN a ELSE b

(* The reserve, then 5% more rounded up and at least one major unit. *)
MinimumNextBid(current) ==
    IF current = 0 THEN Reserve ELSE current + HigherOf(Step, (current * 5 + 99) \div 100)

Open  == auction.state = "open"
Ended == auction.ends <= now

(* The bids with a hold on record, and the one that is captured next. *)
Held    == {i \in Bids : bid[i].state = "held"}
HeldBy(b) == {i \in Held : bid[i].bidder = b}

(* A seeded bug, as are the other operators named ..Bug: no definition of the   *)
(* specification uses them.  Here bids are ordered the wrong way.               *)
HighestBug(set) == CHOOSE i \in set : \A j \in set : bid[i].amount <= bid[j].amount

Highest(set) == CHOOSE i \in set : \A j \in set : bid[i].amount >= bid[j].amount

(* Nobody else is inside the auction's row lock. *)
Unlocked == \A c \in Callers : tx[c].at \in {"idle", "lock"}

(* The bid rows a transaction has written and not yet committed. *)
Written(c) == tx[c].freed \cup tx[c].failed \cup ({tx[c].winner} \ {NoBid})

Goes(c, t) == tx' = [tx EXCEPT ![c] = t]
RollsBack(c) == Goes(c, Idle)

Fault == faults < MaxFaults /\ faults' = faults + 1

-------------------------------------------------------------------------------
Init ==
    /\ auction = [state |-> "none", ends |-> 0, extensions |-> 0, current |-> 0,
                  leader |-> NoBid, outcome |-> "none", winner |-> NoBid]
    /\ bid = [i \in Bids |-> NoRow] /\ intent = [i \in Bids |-> "none"]
    /\ owner = Seller /\ listing = FALSE
    /\ tx = [c \in Callers |-> Idle]
    /\ now = 0 /\ unheard = {} /\ faults = 0

(* The voucher service voids the seller's voucher and mints it into escrow,     *)
(* then the row is stored.  A refused call changes nothing.                     *)
ListVoucher ==
    /\ auction.state = "none" /\ ~listing /\ owner = Seller
    /\ owner' = Escrow /\ listing' = TRUE
    /\ UNCHANGED <<auction, bid, intent, tx, now, unheard, faults>>

InsertAuction ==
    /\ listing /\ listing' = FALSE
    /\ auction' = [auction EXCEPT !.state = "open", !.ends = now + Lasting]
    /\ UNCHANGED <<bid, outside, tx, now, unheard, faults>>

-------------------------------------------------------------------------------
(* placeBid: the transaction begins, and the database's now() with it, before   *)
(* it waits for the lock.  Its amount is chosen when it is looked at.           *)
BeginBid(b) ==
    /\ tx[b].at = "idle" /\ Open
    /\ Goes(b, [Idle EXCEPT !.at = "lock", !.began = now])
    /\ UNCHANGED <<auction, bid, outside, listing, now, unheard, faults>>

CheckBid(b) ==
    /\ tx[b].at = "lock" /\ Unlocked
    /\ \/ \E amount \in Amounts :
            /\ Open /\ ~Ended /\ amount >= MinimumNextBid(auction.current)
            /\ Goes(b, [tx[b] EXCEPT !.at = "hold", !.now = now, !.amount = amount])
       \/ RollsBack(b)
    /\ UNCHANGED <<auction, bid, outside, listing, now, unheard, faults>>

(* The hold is placed, declined, or placed without our hearing of it. *)
PlaceHold(b) ==
    /\ tx[b].at = "hold"
    /\ {i \in Bids : intent[i] = "none"} # {}
    /\ LET i == Min({j \in Bids : intent[j] = "none"}) IN
        /\ intent' = [intent EXCEPT ![i] = "held"]
        /\ \/ /\ Goes(b, [tx[b] EXCEPT !.at = "record", !.bid = i, !.rest = HeldBy(b)])
              /\ UNCHANGED faults
           \/ Fault /\ RollsBack(b)
    /\ UNCHANGED <<auction, bid, owner, listing, now, unheard>>

HoldDeclined(b) ==
    /\ tx[b].at = "hold" /\ RollsBack(b)
    /\ UNCHANGED <<auction, bid, outside, listing, now, unheard, faults>>

(* A call to release hold i, and whether it answered that the hold is gone.  A  *)
(* hold already cancelled is a success and a captured one is refused; a call    *)
(* that was not answered may have happened or not.                              *)
Release(i, heard) ==
    LET cancels == intent' = [intent EXCEPT ![i] = "canceled"]
    IN \/ intent[i] = "captured" /\ ~heard /\ UNCHANGED <<intent, faults>>
       \/ intent[i] # "captured" /\ heard /\ cancels /\ UNCHANGED faults
       \/ intent[i] # "captured" /\ ~heard /\ (cancels \/ UNCHANGED intent) /\ Fault

(* recordBid first lets the bidder's own earlier holds go. *)
ReleaseEarlier(b) ==
    /\ tx[b].at = "record" /\ tx[b].rest # {}
    /\ LET i == Highest(tx[b].rest)
           t == [tx[b] EXCEPT !.rest = @ \ {i}]
       IN \E heard \in BOOLEAN :
            /\ Release(i, heard)
            /\ Goes(b, IF heard THEN [t EXCEPT !.freed = @ \cup {i}] ELSE t)
    /\ UNCHANGED <<auction, bid, owner, listing, now, unheard>>

(* What setBidState left on the rows of a transaction that now commits. *)
Commits(c, row) ==
    [i \in Bids |-> IF i = tx[c].winner THEN [row[i] EXCEPT !.state = "captured"]
                    ELSE IF i \in tx[c].failed THEN [row[i] EXCEPT !.state = "capture_failed"]
                    ELSE IF i \in tx[c].freed THEN [row[i] EXCEPT !.state = "released"]
                    ELSE row[i]]

RecordBid(b) ==
    /\ tx[b].at = "record" /\ tx[b].rest = {}
    /\ LET i == tx[b].bid
           extend == auction.ends - tx[b].now < Window /\ auction.extensions < MaxExtensions
       IN /\ bid' = [Commits(b, bid) EXCEPT
                       ![i] = [bidder |-> b, amount |-> tx[b].amount, state |-> "held"]]
          /\ auction' = [auction EXCEPT
                           !.current = tx[b].amount, !.leader = i,
                           !.ends = IF extend THEN tx[b].began + Window ELSE @,
                           !.extensions = IF extend THEN @ + 1 ELSE @]
    /\ Goes(b, Idle)
    /\ UNCHANGED <<outside, listing, now, unheard, faults>>

(* A write of recordBid fails: the new hold is released, as far as that works,  *)
(* and the transaction rolls back.                                              *)
UndoBid(b) ==
    /\ tx[b].at = "record" /\ Fault /\ RollsBack(b)
    /\ \/ intent' = [intent EXCEPT ![tx[b].bid] = "canceled"]
       \/ UNCHANGED intent
    /\ UNCHANGED <<auction, bid, owner, listing, now, unheard>>

-------------------------------------------------------------------------------
(* settleAuction, by the sweep once the auction ended or by staff at any time.  *)
BeginClose(c) ==
    /\ tx[c].at = "idle" /\ Unlocked /\ Open /\ (c = Staff \/ Ended)
    /\ Goes(c, [Idle EXCEPT !.at = IF c = Sweep THEN "capture" ELSE "release", !.rest = Held])
    /\ UNCHANGED <<auction, bid, outside, listing, now, unheard, faults>>

(* A seeded bug: a retried capture carries a fresh idempotency key, and a hold  *)
(* captured before is refused.                                                  *)
CaptureNextBug(c) ==
    LET t == tx[c]
        i == Highest(t.rest \ t.failed)
    IN /\ t.at = "capture" /\ t.rest \ t.failed # {}
       /\ IF intent[i] = "held"
          THEN /\ Goes(c, [t EXCEPT !.winner = i, !.at = "release"])
               /\ intent' = [intent EXCEPT ![i] = "captured"]
          ELSE Goes(c, [t EXCEPT !.failed = @ \cup {i}]) /\ UNCHANGED intent
       /\ UNCHANGED <<auction, bid, owner, listing, now, unheard, faults>>

(* The highest hold not yet tried is captured, and the loop stops; or the       *)
(* capture is declined, or not answered, and the next bid is tried.  A bid that *)
(* was tried before answers the same again, as the idempotency key is its own.  *)
CaptureNext(c) ==
    LET t == tx[c]
        i == Highest(t.rest \ t.failed)
        wins  == Goes(c, [t EXCEPT !.winner = i, !.at = "release"])
        fails == Goes(c, [t EXCEPT !.failed = @ \cup {i}])
    IN /\ t.at = "capture" /\ t.rest \ t.failed # {}
       /\ \/ /\ intent[i] \in {"held", "captured"} /\ wins
             /\ intent' = [intent EXCEPT ![i] = "captured"] /\ UNCHANGED <<unheard, faults>>
          \/ /\ intent[i] # "captured" /\ fails
             /\ intent' = [intent EXCEPT ![i] = IF @ = "held" THEN "refusing" ELSE @]
             /\ UNCHANGED <<unheard, faults>>
          \/ /\ fails /\ Fault
             /\ \/ UNCHANGED intent
                \/ intent[i] = "held" /\ intent' = [intent EXCEPT ![i] = "captured"]
             /\ unheard' = unheard \cup {i}
       /\ UNCHANGED <<auction, bid, owner, listing, now>>

NoMoreBids(c) ==
    /\ tx[c].at = "capture" /\ tx[c].rest = tx[c].failed
    /\ Goes(c, [tx[c] EXCEPT !.at = "release"])
    /\ UNCHANGED <<auction, bid, outside, listing, now, unheard, faults>>

(* A seeded bug: the hold of a failed capture is taken to be gone. *)
ReleaseNextBug(c) ==
    LET t == tx[c]
        i == Highest(t.rest \ {t.winner})
    IN /\ t.at = "release" /\ t.rest \ {t.winner} # {}
       /\ IF i \in t.failed
          THEN Goes(c, [t EXCEPT !.rest = @ \ {i}]) /\ UNCHANGED <<intent, faults>>
          ELSE \E heard \in BOOLEAN :
                 /\ Release(i, heard)
                 /\ Goes(c, [t EXCEPT !.rest = @ \ {i},
                                      !.freed = IF heard THEN @ \cup {i} ELSE @])
       /\ UNCHANGED <<auction, bid, owner, listing, now, unheard>>

(* Every other hold is let go, a failed capture's too. *)
ReleaseNext(c) ==
    LET t == tx[c]
        i == Highest(t.rest \ {t.winner})
    IN /\ t.at = "release" /\ t.rest \ {t.winner} # {}
       /\ \E heard \in BOOLEAN :
            /\ Release(i, heard)
            /\ Goes(c, [t EXCEPT !.rest = @ \ {i},
                                 !.freed = IF heard /\ i \notin t.failed THEN @ \cup {i} ELSE @])
       /\ UNCHANGED <<auction, bid, owner, listing, now, unheard>>

(* The winner, the seller on a cancel, the charity when nobody could be charged. *)
NewOwner(c) ==
    IF tx[c].winner # NoBid THEN bid[tx[c].winner].bidder
    ELSE IF c = Staff THEN Seller ELSE Charity

(* A seeded bug: the voucher service refuses a second release to anyone. *)
HandOverBug(c) ==
    /\ tx[c].at = "release" /\ tx[c].rest \subseteq {tx[c].winner}
    /\ IF owner = Escrow
       THEN \/ owner' = NewOwner(c) /\ Goes(c, [tx[c] EXCEPT !.at = "write"]) /\ UNCHANGED faults
            \/ owner' \in {owner, NewOwner(c)} /\ RollsBack(c) /\ Fault
       ELSE RollsBack(c) /\ UNCHANGED <<owner, faults>>
    /\ UNCHANGED <<auction, bid, intent, listing, now, unheard>>

(* escrowRelease hands over once: the same owner again is a no-op, another one  *)
(* is refused, and a call that fails or is not answered rolls everything back.  *)
HandOver(c) ==
    /\ tx[c].at = "release" /\ tx[c].rest \subseteq {tx[c].winner}
    /\ IF owner \in {Escrow, NewOwner(c)}
       THEN \/ owner' = NewOwner(c) /\ Goes(c, [tx[c] EXCEPT !.at = "write"]) /\ UNCHANGED faults
            \/ owner' \in {owner, NewOwner(c)} /\ RollsBack(c) /\ Fault
       ELSE RollsBack(c) /\ UNCHANGED <<owner, faults>>
    /\ UNCHANGED <<auction, bid, intent, listing, now, unheard>>

CommitClose(c) ==
    /\ tx[c].at = "write"
    /\ bid' = Commits(c, bid)
    /\ auction' = [auction EXCEPT
                     !.state = IF c = Staff THEN "cancelled" ELSE "settled",
                     !.outcome = IF c = Staff THEN "cancelled"
                                 ELSE IF tx[c].winner # NoBid THEN "sold" ELSE "unsold",
                     !.winner = tx[c].winner]
    /\ Goes(c, Idle)
    /\ UNCHANGED <<outside, listing, now, unheard, faults>>

-------------------------------------------------------------------------------
(* The provider cancels a hold by itself (its 7-day sweep). *)
ProviderCancels(i) ==
    /\ intent[i] \in {"held", "refusing"} /\ Fault /\ intent' = [intent EXCEPT ![i] = "canceled"]
    /\ UNCHANGED <<auction, bid, owner, tx, listing, now, unheard>>

(* payment.canceled: the row of the bid is marked without the auction's lock,   *)
(* but waits for a transaction that wrote it.                                   *)
MarkHoldCanceled(i) ==
    /\ intent[i] = "canceled" /\ bid[i].state = "held"
    /\ \A c \in Callers : i \notin Written(c)
    /\ bid' = [bid EXCEPT ![i].state = "released"]
    /\ UNCHANGED <<auction, outside, tx, listing, now, unheard, faults>>

Crash ==
    /\ Fault
    /\ \/ \E c \in Callers : tx[c].at # "idle" /\ RollsBack(c) /\ UNCHANGED listing
       \/ listing /\ listing' = FALSE /\ UNCHANGED tx
    /\ UNCHANGED <<auction, bid, outside, now, unheard>>

Tick ==
    /\ auction.state # "none" /\ now < MaxNow /\ now' = now + 1
    /\ UNCHANGED <<auction, bid, outside, tx, listing, unheard, faults>>

-------------------------------------------------------------------------------
PlaceBid(b) ==
    \/ BeginBid(b) \/ CheckBid(b) \/ PlaceHold(b) \/ HoldDeclined(b) \/ ReleaseEarlier(b)
    \/ RecordBid(b) \/ UndoBid(b)

SettleAuction(c) ==
    \/ BeginClose(c) \/ CaptureNext(c) \/ NoMoreBids(c) \/ ReleaseNext(c)
    \/ HandOver(c) \/ CommitClose(c)

Next ==
    \/ ListVoucher \/ InsertAuction \/ Crash \/ Tick
    \/ \E b \in Bidders : PlaceBid(b)
    \/ \E c \in Closers : SettleAuction(c)
    \/ \E i \in Bids : ProviderCancels(i) \/ MarkHoldCanceled(i)

Spec == Init /\ [][Next]_vars

(* The sweep runs every 30 seconds and waits its turn for the row, a request    *)
(* that began runs on, and time goes by; nothing obliges staff to cancel.       *)
Fairness ==
    /\ WF_vars(Tick)
    /\ SF_vars(SettleAuction(Sweep))
    /\ WF_vars(tx[Staff].at # "idle" /\ SettleAuction(Staff))
    /\ \A b \in Bidders : WF_vars(tx[b].at # "idle" /\ PlaceBid(b))

FairSpec == Spec /\ Fairness

-------------------------------------------------------------------------------
Captured == {i \in Bids : intent[i] = "captured"}
Recorded == {i \in Bids : bid[i].state # "none"}
Closed   == auction.state \in {"settled", "cancelled"}

TypeOK ==
    /\ auction.state \in {"none", "open", "settled", "cancelled"}
    /\ auction.outcome \in {"none", "sold", "unsold", "cancelled"}
    /\ auction.ends \in Nat /\ auction.extensions \in 0 .. MaxExtensions
    /\ auction.current \in Amounts \cup {0} /\ {auction.leader, auction.winner} \subseteq Bids \cup {NoBid}
    /\ bid \in [Bids -> BidRow]
    /\ intent \in [Bids -> IntentState]
    /\ owner \in Bidders \cup {Seller, Charity, Escrow}
    /\ \A c \in Callers :
        /\ tx[c].at \in {"idle", "lock", "hold", "record", "capture", "release", "write"}
        /\ tx[c].bid \in Bids \cup {NoBid} /\ tx[c].winner \in Bids \cup {NoBid}
        /\ Written(c) \cup tx[c].rest \subseteq Bids
    /\ listing \in BOOLEAN
    /\ now \in 0 .. MaxNow /\ unheard \subseteq Bids
    /\ faults \in 0 .. MaxFaults

(* A sold auction charged the bidder who now has the voucher, an unsold one     *)
(* went to the charity, whatever died, raced or was retried on the way.  Nobody *)
(* else was charged, except by a capture that was answered by an error; or, if  *)
(* it was the winner's own capture that was, in a close before that is undone.  *)
SettledFairly ==
    auction.state = "settled" =>
        /\ auction.winner \notin unheard => Captured \subseteq {auction.winner} \cup unheard
        /\ IF auction.outcome = "sold"
           THEN intent[auction.winner] = "captured" /\ owner = bid[auction.winner].bidder
           ELSE owner = Charity

(* The winner made the highest bid of those that could still be charged: each   *)
(* higher bid on record lost its hold or failed to be captured.                 *)
HighestWins ==
    auction.outcome = "sold" =>
        \A i \in Recorded : bid[i].amount > bid[auction.winner].amount =>
                                bid[i].state \in {"released", "capture_failed"}

(* When every call was answered and nothing died, a closed auction leaves no    *)
(* card held.                                                                   *)
ClosedHoldsNothing ==
    Closed /\ faults = 0 => \A i \in Bids : intent[i] \notin {"held", "refusing"}

(* An open auction is closed, through lost answers and deaths, unless a cancel  *)
(* that rolled back gave the voucher to the seller.                             *)
EventuallyCloses == Open ~> (~Open \/ owner = Seller)

(* "Exactly one winner, one capture": the cards charged by a closed auction are *)
(* the winner's.  The code does not keep it.                                    *)
OneWinnerOneCapture == Closed => Captured = {auction.winner} \ {NoBid}
===============================================================================

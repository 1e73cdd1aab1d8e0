----------------------------- MODULE AuctionProofs -----------------------------
(***************************************************************************)
(* For any bidders, amounts, faults and clock: a settled auction charged    *)
(* the bidder who has the voucher and the highest bid that could be charged *)
(* won, although a close may be undone after the provider has captured and  *)
(* the voucher service has handed over; and without a fault a closed        *)
(* auction holds no card.                                                   *)
(***************************************************************************)
EXTENDS Auction, FiniteSetTheorems, TLAPS

USE DEF Goes, RollsBack

(* Whether a caller is inside the auction's row lock. *)
Inside(c) == tx[c].at \notin {"idle", "lock"}

Transaction ==
    [at : {"idle", "lock", "hold", "record", "capture", "release", "write"},
     began : Nat, now : Nat, amount : Nat, bid : Bids \cup {NoBid}, rest : SUBSET Bids,
     freed : SUBSET Bids, failed : SUBSET Bids, winner : Bids \cup {NoBid}]

Row == [state : {"none", "open", "settled", "cancelled"}, ends : Nat, extensions : Nat,
        current : Nat, leader : Bids \cup {NoBid},
        outcome : {"none", "sold", "unsold", "cancelled"}, winner : Bids \cup {NoBid}]

Stored ==
    /\ auction \in Row
    /\ bid \in [Bids -> BidRow]
    /\ intent \in [Bids -> IntentState]
    /\ now \in Nat /\ unheard \subseteq Bids /\ faults \in Nat /\ listing \in BOOLEAN

(* Before the auction is listed there is nothing, an open one has no outcome and *)
(* one that was sold a winner.                                                  *)
Fresh ==
    /\ listing => auction.state = "none"
    /\ auction.state = "none" => Recorded = {} /\ \A i \in Bids : intent[i] = "none"
    /\ ~Closed => auction.outcome = "none"
    /\ auction.outcome = "sold" => auction.winner \in Bids

(* Recorded bids have a hold, rise, and are marked released when it is gone. *)
Rising ==
    /\ \A i \in Recorded : bid[i].amount <= auction.current /\ intent[i] # "none"
    /\ \A i, j \in Recorded : bid[i].amount = bid[j].amount => i = j
    /\ \A i \in Bids : bid[i].state = "released" => intent[i] = "canceled"
    /\ \A i \in Bids : bid[i].state \in {"captured", "capture_failed"} => Closed

(* A bid that cannot be charged, or may have been. *)
Doubtful(i) == i \in unheard \/ intent[i] \in {"refusing", "canceled"}

(* Nothing is charged before the auction has ended.  A bid that was charged and *)
(* is known to be is still held until the auction closes, and those that outbid *)
(* it cannot be charged, or may have been.                                      *)
Charged ==
    /\ Captured # {} => auction.state # "none" /\ (Open => Ended)
    /\ Open => \A i \in Captured \ unheard :
                  i \in Held /\ \A j \in Held : bid[j].amount > bid[i].amount => Doubtful(j)

(* A bid beats the last one recorded; what it has freed is gone. *)
Bidding(t) ==
    /\ t.at \in {"idle", "lock", "hold", "record"}
    /\ t.failed = {} /\ t.winner = NoBid
    /\ t.at \in {"hold", "record"} =>
         t.amount \in Amounts /\ t.amount > auction.current /\ Captured = {}
    /\ t.at = "record" => t.bid \in Bids \ Recorded /\ intent[t.bid] # "none"

(* While the sweep looks for a bid to charge, those it has tried outbid the     *)
(* rest, and every hold on record is there to be tried.                         *)
Trying(t) ==
    t.at = "capture" =>
        /\ t.winner = NoBid /\ t.freed = {}
        /\ Held \subseteq t.rest /\ t.failed \subseteq t.rest
        /\ \A f \in t.failed, i \in t.rest \ t.failed : bid[f].amount > bid[i].amount

(* What a close has chosen is charged, and held or was outbid only by bids that *)
(* were tried.                                                                  *)
Chosen(t) ==
    t.at \in {"release", "write"} =>
        /\ t.winner # NoBid => /\ intent[t.winner] = "captured" /\ t.winner \in Held
                               /\ t.winner \notin t.failed \cup t.freed
        /\ \A i \in Held :
              \/ i = t.winner \/ i \in t.failed
              \/ t.winner # NoBid /\ bid[i].amount < bid[t.winner].amount

Sweeping(t) ==
    /\ t.at \in {"idle", "capture", "release", "write"}
    /\ t.at # "idle" => Ended
    /\ Trying(t) /\ Chosen(t)
    /\ t.at = "write" =>
         owner = IF t.winner # NoBid THEN bid[t.winner].bidder ELSE Charity

Cancelling(t) ==
    /\ t.at \in {"idle", "release", "write"} /\ t.winner = NoBid /\ t.failed = {}
    /\ t.at = "write" => owner = Seller

(* What transaction t of caller c may be in this state. *)
Fits(c, t) ==
    /\ t \in Transaction /\ t.rest \cup t.freed \cup t.failed \subseteq Recorded
    /\ t.at \in {"idle", "lock"} => t.rest = {} /\ t.freed = {} /\ t.failed = {} /\ t.winner = NoBid
    /\ t.at # "idle" => auction.state # "none"
    /\ t.at \notin {"idle", "lock"} => Open
    /\ \A i \in t.freed : intent[i] = "canceled"
    /\ \A i \in t.failed : Doubtful(i)
    /\ c \in Bidders => Bidding(t)
    /\ c = Sweep => Sweeping(t)
    /\ c = Staff => Cancelling(t)

(* Every caller's transaction fits, and one caller at a time is inside. *)
Serial ==
    /\ tx \in [Callers -> Transaction]
    /\ \A c \in Callers : Fits(c, tx[c])
    /\ \A c, d \in Callers : Inside(c) /\ Inside(d) => c = d

IInv == Stored /\ Fresh /\ Rising /\ Charged /\ Serial /\ SettledFairly /\ HighestWins

(* Without a fault, a card is held only for a bid on record or being recorded,  *)
(* or one a close has still to let go.                                          *)
Alive == {i \in Bids : intent[i] \in {"held", "refusing"}}

Recording(i) == \E b \in Bidders : tx[b].at = "record" /\ tx[b].bid = i

NoStray ==
    /\ \A i \in Alive : (i \in Held \/ Recording(i)) /\ ~Closed
    /\ \A c \in Closers : tx[c].at \in {"release", "write"} =>
          \A i \in Alive : i \in tx[c].rest /\ i # tx[c].winner
    /\ \A c \in Closers : tx[c].at = "write" => tx[c].rest \subseteq {tx[c].winner}

NoStrayHold == faults = 0 => NoStray

-------------------------------------------------------------------------------
(* Least and highest. *)

LEMMA Constants ==
    /\ Bids \subseteq Nat \ {NoBid} /\ NoBid = 0 /\ Amounts \subseteq Nat \ {0}
    /\ FaceValue \in Nat \ {0} /\ Step \in Nat \ {0} /\ Lasting \in Nat /\ Window \in Nat
    /\ Sweep \notin Bidders /\ Staff \notin Bidders /\ Sweep # Staff
    /\ Seller \notin Bidders /\ Charity \notin Bidders /\ Escrow \notin Bidders
    /\ Callers = Bidders \cup {Sweep, Staff} /\ Closers = {Sweep, Staff}
BY AuctionAssumption DEF AuctionAssumption, NoBid, Sweep, Staff, Seller, Charity, Escrow,
                         Callers, Closers

LEMMA Least ==
    ASSUME NEW S \in SUBSET Nat, S # {}
    PROVE  \E m \in S : \A n \in S : m <= n
<1> DEFINE less == {pair \in Nat \X Nat : pair[1] < pair[2]}
<1>1. IsWellFoundedOn(less, Nat)
  BY NatLessThanWellFounded DEF OpToRel
<1>2. PICK m \in S : \A n \in S : <<n, m>> \notin less
  BY <1>1, WFMin
<1>3. ASSUME NEW n \in S PROVE m <= n
  <2>1. <<n, m>> \in Nat \X Nat /\ <<n, m>>[1] = n /\ <<n, m>>[2] = m
    OBVIOUS
  <2> QED BY <1>2, <2>1
<1> QED BY <1>3

LEMMA MinIsIn ==
    ASSUME NEW S \in SUBSET Nat, S # {}
    PROVE  Min(S) \in S
BY Least DEF Min

LEMMA AmountsAreNat ==
    ASSUME Stored, NEW i \in Bids
    PROVE  bid[i].amount \in Nat
<1>1. bid[i].amount \in Amounts \cup {0}
  BY DEF Stored, BidRow
<1>2. \A a \in Amounts \cup {0} : a \in Nat
  BY Constants
<1> QED BY <1>1, <1>2

LEMMA HighestIs ==
    ASSUME Stored, NEW S \in SUBSET Bids, S # {},
           \A i \in S : bid[i].amount <= auction.current
    PROVE  Highest(S) \in S /\ \A j \in S : bid[Highest(S)].amount >= bid[j].amount
<1>1. (\A i \in S : bid[i].amount \in Nat) /\ auction.current \in Nat
  <2>1. \A a \in Amounts \cup {0} : a \in Nat
    BY Constants
  <2>2. \A i \in S : bid[i] \in BidRow
    BY DEF Stored
  <2>3. \A i \in S : bid[i].amount \in Amounts \cup {0}
    BY <2>2 DEF BidRow
  <2>4. auction.current \in Nat
    BY DEF Stored, Row
  <2>5. \A i \in S : bid[i].amount \in Nat
    BY <2>1, <2>3
  <2> QED BY <2>4, <2>5
<1> DEFINE gaps == {auction.current - bid[i].amount : i \in S}
<1>2. gaps \in SUBSET Nat /\ gaps # {}
  BY <1>1
<1>3. PICK m \in gaps : \A n \in gaps : m <= n
  BY <1>2, Least
<1>4. PICK i \in S : m = auction.current - bid[i].amount
  BY <1>3
<1>5. ASSUME NEW j \in S PROVE bid[i].amount >= bid[j].amount
  <2>1. m <= auction.current - bid[j].amount
    BY <1>3
  <2> QED BY <1>1, <1>4, <2>1
<1> QED BY <1>5 DEF Highest

LEMMA Raises ==
    ASSUME NEW current \in Nat, NEW amount \in Nat, amount >= MinimumNextBid(current)
    PROVE  amount > current
<1>1. Reserve >= 1
  BY Constants DEF Reserve
<1>2. (current * 5 + 99) \div 100 \in Int
  OBVIOUS
<1>3. HigherOf(Step, (current * 5 + 99) \div 100) >= 1
  BY <1>2, Constants DEF HigherOf
<1> QED BY <1>1, <1>3, <1>2, Constants DEF MinimumNextBid, HigherOf, Reserve

-------------------------------------------------------------------------------
(* What steps share. *)

(* A transaction that is over fits anywhere. *)
LEMMA IdleFits ==
    ASSUME NEW c \in Callers
    PROVE  Fits(c, Idle)
<1>1. Idle \in Transaction
  BY DEF Idle, Transaction
<1> QED BY <1>1 DEF Fits, Idle, Bidding, Sweeping, Cancelling, Trying, Chosen

(* A transaction waiting for the lock fits whatever the one inside does. *)
LEMMA Waits ==
    ASSUME NEW c \in Callers, NEW t, Fits(c, t), t.at \in {"idle", "lock"},
           t.at # "idle" => auction'.state # "none"
    PROVE  Fits(c, t)'
BY DEF Fits, Bidding, Sweeping, Cancelling, Trying, Chosen

(* Only a transaction changes. *)
LEMMA Moves ==
    ASSUME IInv, NEW c \in Callers, NEW t, Goes(c, t), Fits(c, t), faults' \in Nat,
           t.at \in {"idle", "lock"} \/ Inside(c) \/ Unlocked,
           UNCHANGED <<auction, bid, outside, listing, now, unheard>>
    PROVE  IInv'
<1> USE DEF outside
<1>1. Stored' /\ Fresh' /\ Rising' /\ Charged' /\ SettledFairly' /\ HighestWins'
  BY DEF IInv, Stored, Fresh, Rising, Charged, SettledFairly, HighestWins, Recorded, Closed,
         Captured, Open, Ended, Held, Doubtful
<1>2. tx' \in [Callers -> Transaction]
  BY DEF IInv, Serial, Fits
<1>3. ASSUME NEW d \in Callers PROVE Fits(d, tx[d])'
  <2>1. Fits(d, tx'[d])
    BY DEF IInv, Serial
  <2>2. ASSUME NEW u, Fits(d, u) PROVE Fits(d, u)'
    BY <2>2 DEF Fits, Recorded, Open, Ended, Held, Captured, Bidding, Sweeping, Cancelling, Trying,
                Chosen, Doubtful
  <2> QED BY <2>1, <2>2
<1>4. ASSUME NEW d \in Callers, NEW e \in Callers, Inside(d)', Inside(e)' PROVE d = e
  <2>1. \A f \in Callers \ {c} : tx'[f] = tx[f]
    BY DEF IInv, Serial
  <2>2. tx'[c] = t
    BY DEF IInv, Serial
  <2> QED BY <1>4, <2>1, <2>2 DEF IInv, Serial, Inside, Unlocked
<1> QED BY <1>1, <1>2, <1>3, <1>4 DEF IInv, Serial

(* The one inside moves, and changes more than its transaction. *)
LEMMA Alone ==
    ASSUME IInv, NEW c \in Callers, Inside(c), NEW t, Goes(c, t), Fits(c, t)',
           auction'.state # "none"
    PROVE  Serial'
<1>1. tx' \in [Callers -> Transaction]
  BY DEF IInv, Serial, Fits
<1>2. ASSUME NEW d \in Callers \ {c}
      PROVE  tx'[d] = tx[d] /\ tx'[d].at \in {"idle", "lock"} /\ Fits(d, tx[d])'
  <2>1. tx'[d] = tx[d] /\ tx[d].at \in {"idle", "lock"}
    BY DEF IInv, Serial, Inside
  <2> QED BY <2>1, Waits DEF IInv, Serial
<1>3. tx'[c] = t
  BY DEF IInv, Serial
<1>4. ASSUME NEW d \in Callers PROVE Fits(d, tx[d])'
  BY <1>2, <1>3
<1> QED BY <1>1, <1>2, <1>3, <1>4 DEF Serial, Inside

LEMMA BeginBidStep == ASSUME IInv, NEW b \in Bidders, BeginBid(b) PROVE IInv'
<1> DEFINE t == [Idle EXCEPT !.at = "lock", !.began = now]
<1>1. b \in Callers /\ b # Sweep /\ b # Staff
  BY Constants
<1>2. t \in Transaction
  BY DEF t, Idle, Transaction, IInv, Stored
<1>3. Fits(b, t)
  BY <1>1, <1>2 DEF BeginBid, Fits, Idle, Bidding, Open
<1> QED BY <1>1, <1>3, Moves DEF BeginBid, IInv, Stored, Idle

LEMMA RollsBackStep ==
    ASSUME IInv, NEW c \in Callers, RollsBack(c), faults' \in Nat,
           UNCHANGED <<auction, bid, outside, listing, now, unheard>>
    PROVE  IInv'
<1>1. Idle.at = "idle"
  BY DEF Idle
<1> QED BY <1>1, IdleFits, Moves

LEMMA CheckBidStep == ASSUME IInv, NEW b \in Bidders, CheckBid(b) PROVE IInv'
<1>1. b \in Callers /\ b # Sweep /\ b # Staff
  BY Constants
<1>2. CASE RollsBack(b)
  BY <1>1, <1>2, RollsBackStep DEF CheckBid, IInv, Stored
<1>3. CASE \E amount \in Amounts :
            /\ Open /\ ~Ended /\ amount >= MinimumNextBid(auction.current)
            /\ Goes(b, [tx[b] EXCEPT !.at = "hold", !.now = now, !.amount = amount])
  <2>1. PICK amount \in Amounts :
            /\ Open /\ ~Ended /\ amount >= MinimumNextBid(auction.current)
            /\ Goes(b, [tx[b] EXCEPT !.at = "hold", !.now = now, !.amount = amount])
    BY <1>3
  <2> DEFINE t == [tx[b] EXCEPT !.at = "hold", !.now = now, !.amount = amount]
  <2>2. amount \in Nat /\ auction.current \in Nat
    BY Constants DEF IInv, Stored, Row
  <2>3. amount > auction.current
    BY <2>1, <2>2, Raises
  <2>4. Fits(b, tx[b]) /\ tx[b].at = "lock" /\ tx[b] \in Transaction
    BY <1>1 DEF CheckBid, IInv, Serial
  <2>5. t \in Transaction /\ t.at = "hold" /\ t.amount = amount /\ t.rest = tx[b].rest
        /\ t.freed = tx[b].freed /\ t.failed = tx[b].failed /\ t.winner = tx[b].winner
    BY <2>2, <2>4 DEF Transaction, IInv, Stored
  <2>6. Captured = {}
    BY <2>1 DEF IInv, Charged
  <2>7. Fits(b, t)
    BY <1>1, <2>1, <2>3, <2>4, <2>5, <2>6 DEF Fits, Bidding, Open
  <2> QED BY <1>1, <2>1, <2>7, Moves DEF CheckBid, IInv, Stored
<1> QED BY <1>2, <1>3 DEF CheckBid

LEMMA BeginCloseStep == ASSUME IInv, NEW c \in Closers, BeginClose(c) PROVE IInv'
<1> DEFINE t == [Idle EXCEPT !.at = IF c = Sweep THEN "capture" ELSE "release", !.rest = Held]
<1>1. c \in Callers /\ c \notin Bidders /\ c \in {Sweep, Staff} /\ Sweep # Staff
  BY Constants
<1>2. t \in Transaction /\ t.rest = Held /\ t.freed = {} /\ t.failed = {} /\ t.winner = NoBid
      /\ t.at = IF c = Sweep THEN "capture" ELSE "release"
  BY DEF t, Idle, Transaction, Held
<1>3. Held \subseteq Recorded
  BY DEF Held, Recorded
<1>4. Fits(c, t)
  BY <1>1, <1>2, <1>3 DEF BeginClose, Fits, Sweeping, Cancelling, Trying, Chosen, Open
<1> QED BY <1>1, <1>4, Moves DEF BeginClose, IInv, Stored

LEMMA NoMoreBidsStep == ASSUME IInv, NEW c \in Closers, NoMoreBids(c) PROVE IInv'
<1> DEFINE t == [tx[c] EXCEPT !.at = "release"]
<1>1. c \in Callers /\ c \notin Bidders /\ c \in {Sweep, Staff} /\ Sweep # Staff
  BY Constants
<1>2. Fits(c, tx[c]) /\ tx[c] \in Transaction /\ tx[c].at = "capture"
  BY <1>1 DEF NoMoreBids, IInv, Serial
<1>3. t \in Transaction /\ t.rest = tx[c].rest /\ t.freed = tx[c].freed /\ t.failed = tx[c].failed
      /\ t.winner = tx[c].winner /\ t.at = "release"
  BY <1>2 DEF t, Transaction
<1>4. c = Sweep /\ Held \subseteq tx[c].failed
  BY <1>1, <1>2 DEF NoMoreBids, Fits, Sweeping, Cancelling, Trying
<1>5. Fits(c, t)
  BY <1>1, <1>2, <1>3, <1>4 DEF Fits, Sweeping, Trying, Chosen
<1> QED BY <1>1, <1>2, <1>5, Moves DEF NoMoreBids, IInv, Stored, Inside

LEMMA FaultIsCounted == ASSUME IInv, Fault PROVE faults' \in Nat /\ faults' > 0
BY DEF IInv, Stored, Fault

(* A hold is placed or lost, and nothing else is stored. *)
LEMMA Fades ==
    ASSUME IInv, auction.state # "none", intent' \in [Bids -> IntentState], faults' \in Nat,
           \A i \in Bids : \/ intent'[i] = intent[i]
                           \/ intent[i] \in {"held", "refusing"} /\ intent'[i] = "canceled"
                           \/ intent[i] = "none" /\ intent'[i] = "held",
           UNCHANGED <<auction, bid, owner, listing, now, unheard>>
    PROVE  /\ Stored' /\ Fresh' /\ Rising' /\ Charged' /\ SettledFairly' /\ HighestWins'
           /\ \A c \in Callers : \A t : Fits(c, t) => Fits(c, t)'
<1>1. Stored' /\ Fresh' /\ HighestWins'
  BY DEF IInv, Stored, Fresh, HighestWins, Recorded, Closed
<1>2. Rising'
  BY DEF IInv, Rising, Recorded, Closed
<1>3. Captured' = Captured /\ \A i \in Bids : Doubtful(i) => Doubtful(i)'
  BY DEF Captured, Doubtful
<1>4. Charged'
  BY <1>3 DEF IInv, Charged, Open, Ended, Held, Stored
<1>5. SettledFairly'
  <2>1. auction.winner # NoBid => auction.winner \in Bids
    BY DEF IInv, Stored, Row
  <2>2. intent[auction.winner] = "captured" /\ auction.winner \in Bids
          => intent'[auction.winner] = "captured"
    OBVIOUS
  <2>3. auction.state = "settled" /\ auction.outcome = "sold" => auction.winner \in Bids
    BY <2>1 DEF IInv, Fresh, SettledFairly
  <2> QED BY <1>3, <2>2, <2>3 DEF IInv, SettledFairly
<1>6. ASSUME NEW c \in Callers, NEW t, Fits(c, t) PROVE Fits(c, t)'
  <2>1. t.freed \subseteq Bids /\ t.failed \subseteq Bids /\ t.winner \in Bids \cup {NoBid}
    BY <1>6 DEF Fits, Transaction
  <2>2. (\A i \in t.freed : intent'[i] = "canceled") /\ \A i \in t.failed : Doubtful(i)'
    BY <1>3, <1>6, <2>1 DEF Fits, IntentState
  <2>3. Bidding(t) => Bidding(t)'
    BY <1>3 DEF Bidding, Recorded
  <2>4. Sweeping(t) => Sweeping(t)'
    BY <2>1 DEF Sweeping, Trying, Chosen, Ended, Held
  <2> QED BY <1>6, <2>2, <2>3, <2>4 DEF Fits, Recorded, Open, Cancelling
<1> QED BY <1>1, <1>2, <1>4, <1>5, <1>6

LEMMA ReleaseFades ==
    ASSUME IInv, NEW c \in Callers, NEW i \in tx[c].rest, NEW heard \in BOOLEAN, Release(i, heard)
    PROVE  /\ i \in Bids /\ intent' \in [Bids -> IntentState] /\ faults' \in Nat
           /\ \A j \in Bids : \/ intent'[j] = intent[j]
                              \/ intent[j] \in {"held", "refusing"} /\ intent'[j] = "canceled"
           /\ i \in Recorded /\ (heard => intent'[i] = "canceled")
<1>1. i \in Recorded /\ i \in Bids /\ intent[i] # "none" /\ intent[i] \in IntentState
  BY DEF IInv, Serial, Fits, Rising, Recorded, Stored
<1>2. faults' \in Nat
  BY DEF Release, Fault, IInv, Stored
<1>3. \/ intent' = intent
      \/ intent[i] # "captured" /\ intent' = [intent EXCEPT ![i] = "canceled"]
  BY DEF Release
<1>4. intent' \in [Bids -> IntentState]
  BY <1>1, <1>3 DEF IInv, Stored, IntentState
<1>5. heard => intent'[i] = "canceled"
  BY <1>1 DEF Release, IInv, Stored
<1>6. \A j \in Bids : \/ intent'[j] = intent[j]
                      \/ intent[j] \in {"held", "refusing"} /\ intent'[j] = "canceled"
  BY <1>1, <1>3 DEF IInv, Stored, IntentState
<1> QED BY <1>1, <1>2, <1>4, <1>5, <1>6

LEMMA ReleaseEarlierStep == ASSUME IInv, NEW b \in Bidders, ReleaseEarlier(b) PROVE IInv'
<1>1. b \in Callers /\ b # Sweep /\ b # Staff
  BY Constants
<1>2. tx[b].at = "record" /\ tx[b].rest # {} /\ Fits(b, tx[b]) /\ Inside(b)
  BY <1>1 DEF ReleaseEarlier, IInv, Serial, Inside
<1> DEFINE i == Highest(tx[b].rest)
<1>3. i \in tx[b].rest
  BY <1>2, HighestIs DEF IInv, Fits, Rising, Recorded
<1>4. PICK heard \in BOOLEAN :
        /\ Release(i, heard)
        /\ Goes(b, IF heard THEN [[tx[b] EXCEPT !.rest = @ \ {i}] EXCEPT !.freed = @ \cup {i}]
                   ELSE [tx[b] EXCEPT !.rest = @ \ {i}])
  BY DEF ReleaseEarlier
<1> HIDE DEF i
<1> PICK u : u = tx[b]
  OBVIOUS
<1> PICK t : t = IF heard THEN [[u EXCEPT !.rest = @ \ {i}] EXCEPT !.freed = @ \cup {i}]
                 ELSE [u EXCEPT !.rest = @ \ {i}]
  OBVIOUS
<1>5. /\ i \in Bids /\ intent' \in [Bids -> IntentState] /\ faults' \in Nat
      /\ \A j \in Bids : \/ intent'[j] = intent[j]
                         \/ intent[j] \in {"held", "refusing"} /\ intent'[j] = "canceled"
      /\ i \in Recorded /\ (heard => intent'[i] = "canceled")
  BY <1>1, <1>3, <1>4, ReleaseFades
<1>6. UNCHANGED <<auction, bid, owner, listing, now, unheard>> /\ auction.state # "none"
  BY <1>2 DEF ReleaseEarlier, Fits
<1>7. /\ Stored' /\ Fresh' /\ Rising' /\ Charged' /\ SettledFairly' /\ HighestWins'
      /\ \A c \in Callers : \A v : Fits(c, v) => Fits(c, v)'
  BY <1>5, <1>6, Fades
<1>8. Fits(b, t)'
  <2>1. Fits(b, u)'
    BY <1>1, <1>2, <1>7
  <2>2. u \in Transaction /\ u.rest \subseteq Bids
    BY <1>2 DEF Fits, Transaction
  <2>3. t \in Transaction /\ t.at = u.at /\ t.failed = u.failed /\ t.winner = u.winner
        /\ t.amount = u.amount /\ t.bid = u.bid /\ t.rest \subseteq u.rest
    BY <1>5, <2>2 DEF Transaction
  <2>4. \A j \in t.freed : j \in u.freed \/ (heard /\ j = i)
    BY <2>2 DEF Transaction
  <2>7. Recorded' = Recorded /\ t.rest \cup t.freed \cup t.failed \subseteq Recorded
    BY <1>2, <1>5, <1>6, <2>3, <2>4 DEF Fits, Recorded
  <2>5. Bidding(t)'
    BY <1>1, <2>1, <2>3 DEF Fits, Bidding
  <2> QED BY <1>1, <1>2, <1>5, <2>1, <2>3, <2>4, <2>5, <2>7 DEF Fits
<1> QED BY <1>1, <1>2, <1>4, <1>6, <1>7, <1>8, Alone DEF IInv

LEMMA UndoBidStep == ASSUME IInv, NEW b \in Bidders, UndoBid(b) PROVE IInv'
<1>1. b \in Callers /\ b # Sweep /\ b # Staff
  BY Constants
<1>2. tx[b].at = "record" /\ Fits(b, tx[b]) /\ Inside(b)
  BY <1>1 DEF UndoBid, IInv, Serial, Inside
<1>3. tx[b].bid \in Bids /\ intent[tx[b].bid] \notin {"none", "captured"} /\ auction.state # "none"
  BY <1>1, <1>2 DEF Fits, Bidding, Captured
<1>4. faults' \in Nat
  BY FaultIsCounted DEF UndoBid
<1>5. /\ intent' \in [Bids -> IntentState]
      /\ \A j \in Bids : \/ intent'[j] = intent[j]
                         \/ intent[j] \in {"held", "refusing"} /\ intent'[j] = "canceled"
  BY <1>3 DEF UndoBid, IInv, Stored, IntentState
<1>6. UNCHANGED <<auction, bid, owner, listing, now, unheard>> /\ Goes(b, Idle)
  BY DEF UndoBid
<1>7. /\ Stored' /\ Fresh' /\ Rising' /\ Charged' /\ SettledFairly' /\ HighestWins'
      /\ \A c \in Callers : \A v : Fits(c, v) => Fits(c, v)'
  BY <1>3, <1>4, <1>5, <1>6, Fades
<1>8. Fits(b, Idle)'
  BY <1>1, <1>7, IdleFits
<1> QED BY <1>1, <1>2, <1>3, <1>6, <1>7, <1>8, Alone DEF IInv

LEMMA PlaceHoldStep == ASSUME IInv, NEW b \in Bidders, PlaceHold(b) PROVE IInv'
<1>1. b \in Callers /\ b # Sweep /\ b # Staff
  BY Constants
<1>2. tx[b].at = "hold" /\ Fits(b, tx[b]) /\ Inside(b) /\ auction.state # "none"
  BY <1>1 DEF PlaceHold, IInv, Serial, Inside, Fits
<1> DEFINE S == {j \in Bids : intent[j] = "none"}
<1>3. Min(S) \in S
  <2>1. S # {} /\ S \in SUBSET Nat
    BY Constants DEF PlaceHold
  <2> HIDE DEF S
  <2> QED BY <2>1, MinIsIn
<1> PICK i : i = Min(S)
  OBVIOUS
<1>4. i \in Bids \ Recorded /\ intent[i] = "none"
  BY <1>3 DEF IInv, Rising
<1> PICK u : u = tx[b]
  OBVIOUS
<1> PICK t : t = [u EXCEPT !.at = "record", !.bid = i, !.rest = HeldBy(b)]
  OBVIOUS
<1>5. intent' = [intent EXCEPT ![i] = "held"]
  BY DEF PlaceHold
<1>6. /\ intent' \in [Bids -> IntentState]
      /\ \A j \in Bids : \/ intent'[j] = intent[j]
                         \/ intent[j] = "none" /\ intent'[j] = "held"
      /\ intent'[i] = "held"
  BY <1>4, <1>5 DEF IInv, Stored, IntentState
<1>7. UNCHANGED <<auction, bid, owner, listing, now, unheard>> /\ faults' \in Nat
      /\ (Goes(b, Idle) \/ Goes(b, t))
  BY FaultIsCounted DEF PlaceHold, IInv, Stored
<1>8. /\ Stored' /\ Fresh' /\ Rising' /\ Charged' /\ SettledFairly' /\ HighestWins'
      /\ \A c \in Callers : \A v : Fits(c, v) => Fits(c, v)'
  BY <1>2, <1>6, <1>7, Fades
<1>9. CASE Goes(b, Idle)
  <2>1. Fits(b, Idle)'
    BY <1>1, <1>8, IdleFits
  <2> QED BY <1>1, <1>2, <1>7, <1>8, <1>9, <2>1, Alone DEF IInv
<1>10. CASE Goes(b, t)
  <2>1. Fits(b, u)'
    BY <1>1, <1>2, <1>8
  <2>2. HeldBy(b) \subseteq Recorded /\ HeldBy(b) \subseteq Bids
    BY DEF HeldBy, Held, Recorded
  <2>3. u \in Transaction
    BY <1>2 DEF Fits
  <2>4. t \in Transaction /\ t.at = "record" /\ t.failed = u.failed /\ t.winner = u.winner
        /\ t.amount = u.amount /\ t.bid = i /\ t.rest = HeldBy(b) /\ t.freed = u.freed
    BY <1>4, <2>2, <2>3 DEF Transaction
  <2>5. Recorded' = Recorded
    BY <1>7 DEF Recorded
  <2>6. Bidding(t)'
    BY <1>1, <1>2, <1>4, <1>6, <2>1, <2>4, <2>5 DEF Fits, Bidding
  <2>7. Fits(b, t)'
    BY <1>1, <1>2, <2>1, <2>2, <2>4, <2>5, <2>6 DEF Fits
  <2> QED BY <1>1, <1>2, <1>7, <1>8, <1>10, <2>7, Alone DEF IInv
<1> QED BY <1>7, <1>9, <1>10

LEMMA ProviderCancelsStep == ASSUME IInv, NEW i \in Bids, ProviderCancels(i) PROVE IInv'
<1>1. auction.state # "none"
  BY DEF ProviderCancels, IInv, Fresh
<1>2. /\ intent' \in [Bids -> IntentState]
      /\ \A j \in Bids : \/ intent'[j] = intent[j]
                         \/ intent[j] \in {"held", "refusing"} /\ intent'[j] = "canceled"
  BY DEF ProviderCancels, IInv, Stored, IntentState
<1>3. UNCHANGED <<auction, bid, owner, listing, now, unheard, tx>> /\ faults' \in Nat
  BY FaultIsCounted DEF ProviderCancels
<1>4. /\ Stored' /\ Fresh' /\ Rising' /\ Charged' /\ SettledFairly' /\ HighestWins'
      /\ \A c \in Callers : \A v : Fits(c, v) => Fits(c, v)'
  BY <1>1, <1>2, <1>3, Fades
<1>5. \A c \in Callers : Fits(c, tx[c])'
  BY <1>3, <1>4 DEF IInv, Serial
<1>6. Serial'
  BY <1>3, <1>5 DEF IInv, Serial, Inside
<1> QED BY <1>4, <1>6 DEF IInv

LEMMA ReleaseNextStep == ASSUME IInv, NEW c \in Closers, ReleaseNext(c) PROVE IInv'
<1>1. c \in Callers /\ c \notin Bidders /\ c \in {Sweep, Staff} /\ Sweep # Staff
  BY Constants
<1>2. tx[c].at = "release" /\ Fits(c, tx[c]) /\ Inside(c)
  BY <1>1 DEF ReleaseNext, IInv, Serial, Inside
<1> PICK u : u = tx[c]
  OBVIOUS
<1>3. u.rest \ {u.winner} # {} /\ u.rest \ {u.winner} \in SUBSET Bids
      /\ \A j \in u.rest \ {u.winner} : bid[j].amount <= auction.current
  BY <1>2 DEF ReleaseNext, Fits, Recorded, IInv, Rising
<1> PICK i : i = Highest(u.rest \ {u.winner})
  OBVIOUS
<1>4. i \in u.rest \ {u.winner}
  BY <1>3, HighestIs DEF IInv
<1>5. PICK heard \in BOOLEAN :
        /\ Release(i, heard)
        /\ Goes(c, [u EXCEPT !.rest = @ \ {i},
                             !.freed = IF heard /\ i \notin u.failed THEN @ \cup {i} ELSE @])
  BY DEF ReleaseNext
<1> PICK t : t = [u EXCEPT !.rest = @ \ {i},
                           !.freed = IF heard /\ i \notin u.failed THEN @ \cup {i} ELSE @]
  OBVIOUS
<1>6. /\ i \in Bids /\ intent' \in [Bids -> IntentState] /\ faults' \in Nat
      /\ \A j \in Bids : \/ intent'[j] = intent[j]
                         \/ intent[j] \in {"held", "refusing"} /\ intent'[j] = "canceled"
      /\ i \in Recorded /\ (heard => intent'[i] = "canceled")
  BY <1>1, <1>4, <1>5, ReleaseFades
<1>7. UNCHANGED <<auction, bid, owner, listing, now, unheard>> /\ auction.state # "none"
  BY <1>2 DEF ReleaseNext, Fits
<1>8. /\ Stored' /\ Fresh' /\ Rising' /\ Charged' /\ SettledFairly' /\ HighestWins'
      /\ \A d \in Callers : \A v : Fits(d, v) => Fits(d, v)'
  BY <1>6, <1>7, Fades
<1>9. Fits(c, t)'
  <2>1. Fits(c, u)'
    BY <1>1, <1>2, <1>8
  <2>2. u \in Transaction /\ u.rest \subseteq Bids /\ u.freed \subseteq Bids
    BY <1>2 DEF Fits, Transaction
  <2>3. t \in Transaction /\ t.at = u.at /\ t.failed = u.failed /\ t.winner = u.winner
        /\ t.rest \subseteq u.rest /\ t.at = "release"
    BY <1>2, <1>6, <2>2 DEF Transaction
  <2>4. \A j \in t.freed : j \in u.freed \/ (heard /\ j = i)
    BY <2>2 DEF Transaction
  <2>7. Recorded' = Recorded /\ t.rest \cup t.freed \cup t.failed \subseteq Recorded
    BY <1>2, <1>6, <1>7, <2>3, <2>4 DEF Fits, Recorded
  <2>5. c = Sweep => Sweeping(t)'
    BY <1>4, <2>1, <2>3, <2>4 DEF Fits, Sweeping, Trying, Chosen
  <2>6. c = Staff => Cancelling(t)'
    BY <2>1, <2>3 DEF Fits, Cancelling
  <2> QED BY <1>1, <1>6, <2>1, <2>3, <2>4, <2>5, <2>6, <2>7 DEF Fits
<1> QED BY <1>1, <1>2, <1>5, <1>7, <1>8, <1>9, Alone DEF IInv

LEMMA ListVoucherStep == ASSUME IInv, ListVoucher PROVE IInv'
<1>1. UNCHANGED <<auction, bid, intent, tx, now, unheard, faults>> /\ listing' = TRUE
      /\ auction.state = "none"
  BY DEF ListVoucher
<1>2. Stored' /\ Fresh' /\ Rising' /\ Charged' /\ SettledFairly' /\ HighestWins'
  BY <1>1 DEF IInv, Stored, Fresh, Rising, Charged, SettledFairly, HighestWins, Recorded, Closed,
              Captured, Open, Ended, Held, Doubtful
<1>3. ASSUME NEW c \in Callers PROVE Fits(c, tx[c])'
  <2>1. Fits(c, tx[c]) /\ tx[c].at = "idle"
    BY <1>1 DEF IInv, Serial, Fits
  <2> QED BY <1>1, <2>1, Waits
<1> QED BY <1>1, <1>2, <1>3 DEF IInv, Serial, Inside

LEMMA InsertAuctionStep == ASSUME IInv, InsertAuction PROVE IInv'
<1>1. UNCHANGED <<bid, intent, owner, tx, now, unheard, faults>> /\ listing' = FALSE
      /\ auction.state = "none" /\ auction \in Row
  BY DEF InsertAuction, outside, IInv, Fresh, Stored
<1>2. auction' \in Row /\ auction'.state = "open" /\ auction'.outcome = auction.outcome
      /\ auction'.current = auction.current
  <2>1. now + Lasting \in Nat
    BY Constants DEF IInv, Stored
  <2> QED BY <1>1, <2>1 DEF InsertAuction, Row
<1>3. Captured' = {} /\ Recorded' = {} /\ \A i \in Bids : intent[i] = "none"
  BY <1>1 DEF IInv, Fresh, Captured, Recorded
<1>4. Stored' /\ Fresh' /\ Rising' /\ Charged' /\ SettledFairly' /\ HighestWins'
  BY <1>1, <1>2, <1>3 DEF IInv, Stored, Fresh, Rising, Charged, SettledFairly, HighestWins, Closed,
                          Open, Recorded
<1>5. ASSUME NEW c \in Callers PROVE Fits(c, tx[c])'
  <2>1. Fits(c, tx[c]) /\ tx[c].at = "idle"
    BY <1>1 DEF IInv, Serial, Fits
  <2> QED BY <1>1, <2>1, Waits
<1> QED BY <1>1, <1>4, <1>5 DEF IInv, Serial, Inside

LEMMA TickStep == ASSUME IInv, Tick PROVE IInv'
<1>1. UNCHANGED <<auction, bid, intent, owner, tx, listing, unheard, faults>> /\ now' = now + 1
      /\ now \in Nat /\ auction.ends \in Nat
  BY DEF Tick, outside, IInv, Stored, Row
<1>2. Ended => Ended'
  BY <1>1 DEF Ended
<1>3. Stored' /\ Fresh' /\ Rising' /\ Charged' /\ SettledFairly' /\ HighestWins'
  BY <1>1, <1>2 DEF IInv, Stored, Fresh, Rising, Charged, SettledFairly, HighestWins, Recorded,
                    Closed, Captured, Open, Held, Doubtful
<1>4. ASSUME NEW c \in Callers, NEW t, Fits(c, t) PROVE Fits(c, t)'
  BY <1>1, <1>2, <1>4 DEF Fits, Recorded, Open, Held, Captured, Bidding, Sweeping, Cancelling,
                          Trying, Chosen, Doubtful
<1> QED BY <1>1, <1>3, <1>4 DEF IInv, Serial, Inside

LEMMA CrashStep == ASSUME IInv, Crash PROVE IInv'
<1>1. UNCHANGED <<auction, bid, intent, owner, now, unheard>> /\ faults' \in Nat
  BY FaultIsCounted DEF Crash, outside
<1>2. CASE \E c \in Callers : RollsBack(c) /\ UNCHANGED listing
  BY <1>1, <1>2, RollsBackStep DEF outside
<1>3. CASE listing /\ listing' = FALSE /\ UNCHANGED tx
  <2>1. Stored' /\ Fresh' /\ Rising' /\ Charged' /\ SettledFairly' /\ HighestWins'
    BY <1>1, <1>3 DEF IInv, Stored, Fresh, Rising, Charged, SettledFairly, HighestWins, Recorded,
                      Closed, Captured, Open, Ended, Held, Doubtful
  <2>2. ASSUME NEW c \in Callers, NEW t, Fits(c, t) PROVE Fits(c, t)'
    BY <1>1, <2>2 DEF Fits, Recorded, Open, Ended, Held, Captured, Bidding, Sweeping, Cancelling,
                      Trying, Chosen, Doubtful
  <2> QED BY <1>3, <2>1, <2>2 DEF IInv, Serial, Inside
<1> QED BY <1>2, <1>3 DEF Crash

LEMMA HandOverStep == ASSUME IInv, NEW c \in Closers, HandOver(c) PROVE IInv'
<1>1. c \in Callers /\ c \notin Bidders /\ c \in {Sweep, Staff} /\ Sweep # Staff
  BY Constants
<1>2. tx[c].at = "release" /\ Fits(c, tx[c]) /\ Inside(c) /\ Open
  BY <1>1 DEF HandOver, IInv, Serial, Inside, Fits
<1>3. UNCHANGED <<auction, bid, intent, listing, now, unheard>> /\ faults' \in Nat
  BY FaultIsCounted DEF HandOver, IInv, Stored
<1>4. Stored' /\ Fresh' /\ Rising' /\ Charged' /\ SettledFairly' /\ HighestWins'
  BY <1>2, <1>3 DEF IInv, Stored, Fresh, Rising, Charged, SettledFairly, HighestWins, Recorded,
                    Closed, Captured, Open, Ended, Held, Doubtful
<1>5. CASE RollsBack(c)
  <2>1. Idle.at = "idle"
    BY DEF Idle
  <2>2. Fits(c, Idle)'
    BY <1>1, <2>1, IdleFits, Waits
  <2> QED BY <1>1, <1>2, <1>3, <1>4, <1>5, <2>2, Alone DEF IInv, Open
<1> PICK u : u = tx[c]
  OBVIOUS
<1> PICK t : t = [u EXCEPT !.at = "write"]
  OBVIOUS
<1>6. CASE owner' = NewOwner(c) /\ Goes(c, t)
  <2>1. u \in Transaction
    BY <1>2 DEF Fits
  <2>2. t \in Transaction /\ t.at = "write" /\ t.failed = u.failed /\ t.winner = u.winner
        /\ t.rest = u.rest /\ t.freed = u.freed
    BY <2>1 DEF Transaction
  <2>3. c = Sweep => Sweeping(t)'
    BY <1>1, <1>2, <1>3, <1>6, <2>2
       DEF Fits, Sweeping, Trying, Chosen, NewOwner, Ended, Held
  <2>4. c = Staff => Cancelling(t)'
    BY <1>1, <1>2, <1>3, <1>6, <2>2 DEF Fits, Cancelling, NewOwner
  <2>5. Fits(c, t)'
    BY <1>1, <1>2, <1>3, <2>2, <2>3, <2>4 DEF Fits, Recorded, Doubtful, Open
  <2> QED BY <1>1, <1>2, <1>3, <1>4, <1>6, <2>5, Alone DEF IInv, Open
<1>7. RollsBack(c) \/ (owner' = NewOwner(c) /\ Goes(c, t))
  BY DEF HandOver
<1> QED BY <1>5, <1>6, <1>7

LEMMA MarkHoldCanceledStep == ASSUME IInv, NEW i \in Bids, MarkHoldCanceled(i) PROVE IInv'
<1>1. UNCHANGED <<auction, intent, owner, tx, listing, now, unheard, faults>>
      /\ intent[i] = "canceled" /\ i \in Held /\ bid \in [Bids -> BidRow]
      /\ \A c \in Callers : i \notin Written(c)
  BY DEF MarkHoldCanceled, outside, Held, IInv, Stored
<1>2. /\ bid' \in [Bids -> BidRow]
      /\ \A j \in Bids : bid'[j].amount = bid[j].amount /\ bid'[j].bidder = bid[j].bidder
      /\ \A j \in Bids \ {i} : bid'[j] = bid[j]
      /\ bid'[i].state = "released" /\ bid[i].state = "held"
  BY <1>1 DEF MarkHoldCanceled, BidRow
<1>3. Held' = Held \ {i} /\ Recorded' = Recorded
  BY <1>2 DEF Held, Recorded
<1>4. Stored' /\ Fresh' /\ Rising'
  BY <1>1, <1>2, <1>3 DEF IInv, Stored, Fresh, Rising, Closed, Held, Recorded
<1>5. Charged'
  <2>1. Held \subseteq Bids
    BY DEF Held
  <2> QED BY <1>1, <1>2, <1>3, <2>1 DEF IInv, Charged, Captured, Open, Ended, Doubtful
<1>6. SettledFairly' /\ HighestWins'
  <2>1. auction.outcome = "sold" => auction.winner \in Bids
    BY DEF IInv, Fresh
  <2>2. SettledFairly'
    BY <1>1, <1>2, <2>1 DEF IInv, SettledFairly, Captured
  <2>3. HighestWins'
    BY <1>1, <1>2, <1>3, <2>1 DEF IInv, HighestWins, Recorded
  <2> QED BY <2>2, <2>3
<1>7. ASSUME NEW c \in Callers PROVE Fits(c, tx[c])'
  <2> PICK t : t = tx[c]
    OBVIOUS
  <2>1. Fits(c, t) /\ i \notin t.freed \cup t.failed \cup ({t.winner} \ {NoBid})
    BY <1>1 DEF IInv, Serial, Written
  <2>2. t.rest \subseteq Bids /\ t.failed \subseteq Bids /\ t.winner \in Bids \cup {NoBid}
    BY <2>1 DEF Fits, Transaction
  <2>3. Bidding(t) => Bidding(t)'
    BY <1>1, <1>3 DEF Bidding, Captured
  <2>4. Sweeping(t) => Sweeping(t)'
    <3>1. Trying(t) => Trying(t)'
      BY <1>2, <1>3, <2>2 DEF Trying
    <3>2. Chosen(t) => Chosen(t)'
      <4>1. i # t.winner
        BY <2>1, Constants
      <4>2. Held \subseteq Bids
        BY DEF Held
      <4> QED BY <1>1, <1>2, <1>3, <2>2, <4>1, <4>2 DEF Chosen
    <3> QED BY <1>1, <1>2, <2>2, <3>1, <3>2 DEF Sweeping, Ended
  <2>5. Fits(c, t)'
    BY <1>1, <1>3, <2>1, <2>3, <2>4 DEF Fits, Open, Cancelling, Doubtful
  <2> QED BY <1>1, <2>5
<1> QED BY <1>1, <1>4, <1>5, <1>6, <1>7 DEF IInv, Serial, Inside

LEMMA RecordBidStep == ASSUME IInv, NEW b \in Bidders, RecordBid(b) PROVE IInv'
<1>1. b \in Callers /\ b # Sweep /\ b # Staff
  BY Constants
<1> PICK u : u = tx[b]
  OBVIOUS
<1>2. /\ u.at = "record" /\ Fits(b, u) /\ Inside(b) /\ Open /\ Captured = {} /\ u \in Transaction
      /\ u.failed = {} /\ u.winner = NoBid /\ u.amount \in Amounts /\ u.amount > auction.current
      /\ u.bid \in Bids \ Recorded /\ intent[u.bid] # "none"
  BY <1>1 DEF RecordBid, IInv, Serial, Inside, Fits, Bidding
<1> PICK i : i = u.bid
  OBVIOUS
<1>3. UNCHANGED <<intent, owner, listing, now, unheard, faults>> /\ Goes(b, Idle)
  BY DEF RecordBid, outside
<1>4. /\ auction' \in Row /\ auction'.state = auction.state /\ auction'.outcome = auction.outcome
      /\ auction'.winner = auction.winner /\ auction'.current = u.amount
  <2>1. u.amount \in Nat /\ u.began + Window \in Nat
    BY <1>2, Constants DEF Transaction
  <2>2. auction \in Row
    BY DEF IInv, Stored
  <2> DEFINE extend == auction.ends - u.now < Window /\ auction.extensions < MaxExtensions
  <2> PICK ends : ends = IF extend THEN u.began + Window ELSE auction.ends
    OBVIOUS
  <2> PICK extensions : extensions = IF extend THEN auction.extensions + 1 ELSE auction.extensions
    OBVIOUS
  <2>3. auction' = [auction EXCEPT !.current = u.amount, !.leader = i, !.ends = ends,
                                   !.extensions = extensions]
    BY DEF RecordBid
  <2> HIDE DEF extend
  <2>5. ends \in Nat /\ extensions \in Nat
    BY <2>1, <2>2 DEF Row
  <2>4. i \in Bids
    BY <1>2
  <2> QED BY <2>1, <2>2, <2>3, <2>4, <2>5 DEF Row
<1>5. /\ bid' \in [Bids -> BidRow]
      /\ \A j \in Bids \ {i} :
           /\ bid'[j].amount = bid[j].amount /\ bid'[j].bidder = bid[j].bidder
           /\ j \in u.freed => bid'[j].state = "released"
           /\ j \notin u.freed => bid'[j].state = bid[j].state
      /\ bid'[i].amount = u.amount /\ bid'[i].state = "held"
  <2>1. bid \in [Bids -> BidRow]
    BY DEF IInv, Stored
  <2>2. \A j \in Bids : Commits(b, bid)[j] = IF j \in u.freed THEN [bid[j] EXCEPT !.state = "released"]
                                             ELSE bid[j]
    BY <1>2, Constants DEF Commits
  <2>3. bid' = [Commits(b, bid) EXCEPT ![i] = [bidder |-> b, amount |-> u.amount, state |-> "held"]]
    BY DEF RecordBid
  <2>4. \A j \in Bids : bid'[j] = IF j = i THEN [bidder |-> b, amount |-> u.amount, state |-> "held"]
                                  ELSE Commits(b, bid)[j]
    BY <1>2, <2>3 DEF Commits
  <2>5. DOMAIN bid' = Bids /\ bid' = [j \in Bids |-> bid'[j]]
    BY <2>3 DEF Commits
  <2>6. ASSUME NEW j \in Bids \ {i}
        PROVE  /\ bid'[j] \in BidRow
               /\ bid'[j].amount = bid[j].amount /\ bid'[j].bidder = bid[j].bidder
               /\ j \in u.freed => bid'[j].state = "released"
               /\ j \notin u.freed => bid'[j].state = bid[j].state
    <3>1. bid[j] \in BidRow
      BY <2>1
    <3>2. CASE j \in u.freed
      <4>1. bid'[j] = [bid[j] EXCEPT !.state = "released"]
        BY <2>2, <2>4, <3>2
      <4> QED BY <3>1, <3>2, <4>1 DEF BidRow
    <3>3. CASE j \notin u.freed
      <4>1. bid'[j] = bid[j]
        BY <2>2, <2>4, <3>3
      <4> QED BY <3>1, <3>3, <4>1
    <3> QED BY <3>2, <3>3
  <2>9. bid'[i] \in BidRow /\ i \in Bids /\ bid'[i].amount = u.amount /\ bid'[i].state = "held"
    BY <1>2, <2>4 DEF BidRow
  <2>7. bid' \in [Bids -> BidRow]
    <3>1. \A j \in Bids : bid'[j] \in BidRow
      BY <2>6, <2>9
    <3> QED BY <2>5, <3>1
  <2> QED BY <2>6, <2>7, <2>9
<1>6. Stored' /\ Fresh'
  BY <1>2, <1>3, <1>4, <1>5 DEF IInv, Stored, Fresh, Closed, Open
<1>7. u.freed \subseteq Recorded /\ (\A j \in u.freed : intent[j] = "canceled")
      /\ (\A j \in u.freed : bid'[j].state = "released")
  <2>1. u.freed \subseteq Recorded /\ \A j \in u.freed : intent[j] = "canceled"
    BY <1>2 DEF Fits
  <2>2. Recorded \subseteq Bids /\ i \notin Recorded
    BY <1>2 DEF Recorded
  <2> QED BY <1>5, <2>1, <2>2
<1>8. Recorded' = Recorded \cup {i} /\ Recorded \subseteq Bids /\ i \in Bids \ Recorded
  BY <1>2, <1>5, <1>7 DEF Recorded
<1>9. Rising'
  <2>1. u.amount \in Nat /\ auction.current \in Nat
    BY <1>2, Constants DEF IInv, Stored, Row
  <2>2. \A j \in Recorded : bid[j].amount \in Nat /\ bid[j].amount < u.amount
    <3>1. \A j \in Recorded : bid[j].amount \in Nat
      BY <1>8, AmountsAreNat DEF IInv
    <3>2. \A j \in Recorded : bid[j].amount <= auction.current
      BY DEF IInv, Rising
    <3> QED BY <1>2, <2>1, <3>1, <3>2
  <2>3. \A j \in Recorded' : bid'[j].amount <= auction'.current /\ intent'[j] # "none"
    BY <1>2, <1>3, <1>4, <1>5, <1>8, <2>1, <2>2 DEF IInv, Rising
  <2>4. \A j, k \in Recorded' : bid'[j].amount = bid'[k].amount => j = k
    BY <1>5, <1>8, <2>1, <2>2 DEF IInv, Rising
  <2>5. \A j \in Bids : bid'[j].state = "released" => intent'[j] = "canceled"
    BY <1>3, <1>5, <1>7 DEF IInv, Rising
  <2>6. \A j \in Bids : bid'[j].state \in {"captured", "capture_failed"} => Closed'
    BY <1>2, <1>4, <1>5, <1>7 DEF IInv, Rising, Closed, Open
  <2> QED BY <2>3, <2>4, <2>5, <2>6 DEF Rising
<1>10. Charged' /\ SettledFairly' /\ HighestWins'
  <2>1. Captured' = {} /\ auction'.state = "open" /\ auction'.outcome = "none"
    BY <1>2, <1>3, <1>4, <1>6 DEF Captured, Open, Fresh, Closed
  <2> QED BY <2>1 DEF Charged, SettledFairly, HighestWins
<1>11. Fits(b, Idle)'
  <2>1. Idle \in Transaction /\ Idle.at = "idle" /\ Idle.rest = {} /\ Idle.freed = {}
        /\ Idle.failed = {} /\ Idle.winner = NoBid
    BY DEF Idle, Transaction
  <2> QED BY <1>1, <2>1 DEF Fits, Bidding
<1> QED BY <1>1, <1>2, <1>3, <1>4, <1>6, <1>9, <1>10, <1>11, Alone DEF IInv, Open

LEMMA CommitCloseStep == ASSUME IInv, NEW c \in Closers, CommitClose(c) PROVE IInv'
<1>1. c \in Callers /\ c \notin Bidders /\ c \in {Sweep, Staff} /\ Sweep # Staff
  BY Constants
<1> PICK u : u = tx[c]
  OBVIOUS
<1>2. u.at = "write" /\ Fits(c, u) /\ Inside(c) /\ Open /\ u \in Transaction
  BY <1>1 DEF CommitClose, IInv, Serial, Inside, Fits
<1> PICK w : w = u.winner
  OBVIOUS
<1>3. /\ w \in Bids \cup {NoBid} /\ NoBid \notin Bids
      /\ u.freed \cup u.failed \subseteq Recorded /\ Recorded \subseteq Bids
      /\ \A j \in u.freed : intent[j] = "canceled"
      /\ \A j \in u.failed : Doubtful(j)
  BY <1>2, Constants DEF Fits, Transaction, Recorded
<1>4. UNCHANGED <<intent, owner, listing, now, unheard, faults>> /\ Goes(c, Idle)
  BY DEF CommitClose, outside
<1>5. /\ auction' \in Row /\ auction'.current = auction.current /\ auction'.winner = w
      /\ auction'.state = IF c = Staff THEN "cancelled" ELSE "settled"
      /\ auction'.outcome = IF c = Staff THEN "cancelled"
                            ELSE IF w # NoBid THEN "sold" ELSE "unsold"
      /\ Closed'
  <2>1. auction \in Row
    BY DEF IInv, Stored
  <2> QED BY <1>3, <2>1 DEF CommitClose, Row, Closed
<1>6. /\ bid' \in [Bids -> BidRow]
      /\ \A j \in Bids :
           /\ bid'[j].amount = bid[j].amount /\ bid'[j].bidder = bid[j].bidder
           /\ bid'[j].state = IF j = w THEN "captured"
                              ELSE IF j \in u.failed THEN "capture_failed"
                              ELSE IF j \in u.freed THEN "released" ELSE bid[j].state
  <2>1. \A j \in Bids : bid[j] \in BidRow
    BY DEF IInv, Stored
  <2>2. bid' = [j \in Bids |-> IF j = w THEN [bid[j] EXCEPT !.state = "captured"]
                    ELSE IF j \in u.failed THEN [bid[j] EXCEPT !.state = "capture_failed"]
                    ELSE IF j \in u.freed THEN [bid[j] EXCEPT !.state = "released"]
                    ELSE bid[j]]
    BY DEF CommitClose, Commits
  <2> QED BY <2>1, <2>2 DEF BidRow
<1>7. c = Staff => w = NoBid
  BY <1>1, <1>2 DEF Fits, Cancelling
<1>8. w # NoBid => w \in Held /\ intent[w] = "captured" /\ w \notin u.failed \cup u.freed
  BY <1>1, <1>2, <1>7 DEF Fits, Sweeping, Chosen
<1>9. Recorded' = Recorded
  BY <1>3, <1>6, <1>8 DEF Recorded, Held
<1>10. Stored' /\ Fresh'
  <2>1. Stored'
    BY <1>4, <1>5, <1>6 DEF IInv, Stored
  <2>2. listing = FALSE
    BY <1>2 DEF IInv, Fresh, Stored, Open
  <2> QED BY <1>3, <1>4, <1>5, <2>1, <2>2 DEF Fresh
<1>11. Rising'
  BY <1>3, <1>4, <1>5, <1>6, <1>9 DEF IInv, Rising
<1>12. Charged'
  BY <1>4, <1>5 DEF IInv, Charged, Captured, Open, Closed
<1>13. ASSUME auction'.state = "settled"
       PROVE  /\ c = Sweep
              /\ owner = IF w # NoBid THEN bid[w].bidder ELSE Charity
              /\ \A i \in Held : \/ i = w \/ i \in u.failed
                                 \/ (w # NoBid /\ bid[i].amount < bid[w].amount)
  <2>1. c = Sweep
    BY <1>1, <1>5, <1>13
  <2> QED BY <1>2, <2>1 DEF Fits, Sweeping, Chosen
<1>14. SettledFairly'
  <2> SUFFICES ASSUME auction'.state = "settled" PROVE SettledFairly'
    BY DEF SettledFairly
  <2>1. ASSUME w \notin unheard, NEW j \in Captured \ unheard PROVE j = w
    <3> SUFFICES ASSUME j # w PROVE FALSE
      OBVIOUS
    <3>1. /\ j \in Held /\ \A k \in Held : bid[k].amount > bid[j].amount => Doubtful(k)
          /\ j \in Bids /\ intent[j] = "captured" /\ ~Doubtful(j)
      BY <1>2, <2>1 DEF IInv, Charged, Captured, Doubtful
    <3>2. w # NoBid /\ bid[j].amount < bid[w].amount
      BY <1>3, <1>13, <3>1
    <3>3. bid[j].amount \in Nat /\ bid[w].amount \in Nat
      BY <1>3, <3>1, <3>2, AmountsAreNat DEF IInv
    <3>4. Doubtful(w)
      BY <1>8, <3>1, <3>2, <3>3
    <3> QED BY <1>8, <2>1, <3>2, <3>4 DEF Doubtful
  <2>2. w \notin unheard => Captured \subseteq {w} \cup unheard
    BY <2>1
  <2>3. Captured' = Captured
    BY <1>4 DEF Captured
  <2>4. IF w # NoBid THEN intent[w] = "captured" /\ owner = bid'[w].bidder ELSE owner = Charity
    BY <1>3, <1>6, <1>8, <1>13
  <2> QED BY <1>1, <1>4, <1>5, <1>13, <2>2, <2>3, <2>4 DEF SettledFairly
<1>15. HighestWins'
  <2> SUFFICES ASSUME auction'.outcome = "sold", NEW i \in Recorded,
                      bid'[i].amount > bid'[w].amount
               PROVE  bid'[i].state \in {"released", "capture_failed"}
    BY <1>5, <1>9 DEF HighestWins
  <2>1. w # NoBid /\ auction'.state = "settled" /\ w \in Bids /\ i \in Bids
    BY <1>3, <1>5
  <2>2. bid[i].amount \in Nat /\ bid[w].amount \in Nat
    BY <2>1, AmountsAreNat DEF IInv
  <2>3. bid[i].amount > bid[w].amount /\ i # w
    BY <1>6, <2>1, <2>2
  <2>4. i \in Held => i \in u.failed
    BY <1>13, <2>1, <2>2, <2>3
  <2>5. bid[i].state \in {"held", "released"}
    <3>1. bid[i] \in BidRow /\ ~Closed
      BY <1>2, <2>1 DEF IInv, Stored, Open, Closed
    <3> QED BY <2>1, <3>1 DEF IInv, Rising, Recorded, BidRow
  <2> QED BY <1>6, <2>1, <2>3, <2>4, <2>5 DEF Held
<1>16. Fits(c, Idle)'
  <2>1. Idle \in Transaction /\ Idle.at = "idle" /\ Idle.rest = {} /\ Idle.freed = {}
        /\ Idle.failed = {} /\ Idle.winner = NoBid
    BY DEF Idle, Transaction
  <2> QED BY <1>1, <2>1 DEF Fits, Sweeping, Cancelling, Trying, Chosen
<1>17. auction'.state # "none"
  BY <1>5
<1> QED BY <1>1, <1>2, <1>4, <1>10, <1>11, <1>12, <1>14, <1>15, <1>16, <1>17, Alone DEF IInv

LEMMA CaptureNextStep == ASSUME IInv, NEW c \in Closers, CaptureNext(c) PROVE IInv'
<1>1. c \in Callers /\ c \notin Bidders /\ c \in {Sweep, Staff} /\ Sweep # Staff
  BY Constants
<1> PICK u : u = tx[c]
  OBVIOUS
<1>2. u.at = "capture" /\ Fits(c, u) /\ Inside(c) /\ Open /\ u \in Transaction /\ auction.state # "none"
  BY <1>1 DEF CaptureNext, IInv, Serial, Inside, Fits
<1>3. /\ c = Sweep /\ Ended /\ u.winner = NoBid /\ u.freed = {}
      /\ Held \subseteq u.rest /\ u.failed \subseteq u.rest
      /\ \A f \in u.failed, j \in u.rest \ u.failed : bid[f].amount > bid[j].amount
  BY <1>1, <1>2 DEF Fits, Sweeping, Cancelling, Trying
<1>4. /\ u.rest \subseteq Recorded /\ Recorded \subseteq Bids /\ NoBid \notin Bids
      /\ \A j \in u.failed : Doubtful(j)
      /\ \A j \in Recorded : bid[j].amount <= auction.current
  BY <1>2, Constants DEF Fits, Recorded, IInv, Rising
<1>5. \A j \in Bids : bid[j].amount \in Nat
  BY AmountsAreNat DEF IInv
<1> PICK S : S = u.rest \ u.failed
  OBVIOUS
<1> PICK i : i = Highest(S)
  OBVIOUS
<1>6. i \in S /\ \A j \in S : bid[i].amount >= bid[j].amount
  <2>1. S \in SUBSET Bids /\ S # {} /\ \A j \in S : bid[j].amount <= auction.current
    BY <1>4 DEF CaptureNext
  <2> QED BY <2>1, HighestIs DEF IInv
<1>7. i \in Recorded /\ i \in Bids /\ intent[i] \in {"held", "refusing", "captured", "canceled"}
      /\ i \in u.rest /\ i \notin u.failed
  <2>1. i \in Recorded /\ i \in Bids
    BY <1>4, <1>6
  <2>2. intent[i] \in IntentState /\ intent[i] # "none"
    BY <2>1 DEF IInv, Stored, Rising
  <2> QED BY <1>6, <2>1, <2>2 DEF IntentState
<1>8. \A j \in S \ {i} : bid[i].amount > bid[j].amount
  <2> TAKE j \in S \ {i}
  <2>1. bid[i].amount >= bid[j].amount /\ j \in Recorded /\ j # i
    BY <1>4, <1>6
  <2>2. bid[i].amount # bid[j].amount
    BY <1>7, <2>1 DEF IInv, Rising
  <2> QED BY <1>4, <1>5, <1>7, <2>1, <2>2
<1>9. UNCHANGED <<auction, bid, owner, listing, now>>
  BY DEF CaptureNext
<1>10. Held' = Held /\ Recorded' = Recorded /\ Ended' /\ Open'
  BY <1>2, <1>3, <1>9 DEF Held, Recorded, Ended, Open
<1>11. CASE /\ intent[i] \in {"held", "captured"}
            /\ Goes(c, [u EXCEPT !.winner = i, !.at = "release"])
            /\ intent' = [intent EXCEPT ![i] = "captured"] /\ UNCHANGED <<unheard, faults>>
  <2>1. /\ intent' \in [Bids -> IntentState] /\ intent'[i] = "captured"
        /\ \A j \in Bids \ {i} : intent'[j] = intent[j]
    BY <1>7, <1>11 DEF IInv, Stored, IntentState
  <2>2. \A j \in Bids : Doubtful(j) => Doubtful(j)'
    BY <1>11, <2>1 DEF Doubtful
  <2>3. i \in Held
    <3>1. bid[i] \in BidRow /\ ~Closed
      BY <1>2, <1>7 DEF IInv, Stored, Open, Closed
    <3> QED BY <1>7, <1>11, <3>1 DEF IInv, Rising, Recorded, Held, BidRow
  <2>4. Stored' /\ Fresh' /\ Rising'
    <3>1. Stored'
      BY <1>9, <1>11, <2>1 DEF IInv, Stored
    <3>2. Fresh'
      BY <1>2, <1>9 DEF IInv, Fresh, Closed
    <3>3. \A j \in Bids : (intent[j] = "canceled" => intent'[j] = "canceled")
                          /\ (intent[j] # "none" => intent'[j] # "none")
      BY <1>7, <1>11, <2>1
    <3> QED BY <1>4, <1>9, <1>10, <3>1, <3>2, <3>3 DEF IInv, Rising, Closed
  <2>0. \A j \in Held : j = i \/ j \in u.failed \/ bid[j].amount < bid[i].amount
    <3> TAKE j \in Held
    <3>1. j \in u.failed \/ j = i \/ j \in S \ {i}
      BY <1>3
    <3>2. j \in Bids
      BY DEF Held
    <3>3. CASE j \in S \ {i}
      <4>1. bid[i].amount > bid[j].amount
        BY <1>8, <3>3
      <4> QED BY <1>5, <1>7, <3>2, <4>1
    <3> QED BY <3>1, <3>3
  <2>5. \A j \in Held : bid[j].amount > bid[i].amount => j \in u.failed
    <3> TAKE j \in Held
    <3>1. bid[j].amount \in Nat /\ bid[i].amount \in Nat
      BY <1>5, <1>7 DEF Held
    <3>2. bid[j].amount < bid[i].amount => ~(bid[j].amount > bid[i].amount)
      BY <3>1
    <3>3. j = i => ~(bid[j].amount > bid[i].amount)
      BY <3>1
    <3> QED BY <2>0, <3>2, <3>3
  <2>6. Charged'
    <3>1. \A k \in Captured' \ unheard' :
             k \in Held /\ \A j \in Held : bid[j].amount > bid[k].amount => Doubtful(j)'
      <4> TAKE k \in Captured' \ unheard'
      <4>0. Held \subseteq Bids
        BY DEF Held
      <4>1. CASE k = i
        <5>1. \A j \in Held : bid[j].amount > bid[i].amount => Doubtful(j)
          BY <1>4, <2>5
        <5> QED BY <2>2, <2>3, <4>0, <4>1, <5>1
      <4>2. CASE k # i
        <5>1. k \in Captured \ unheard
          BY <1>11, <2>1, <4>2 DEF Captured
        <5>2. k \in Held /\ \A j \in Held : bid[j].amount > bid[k].amount => Doubtful(j)
          BY <1>2, <5>1 DEF IInv, Charged
        <5> QED BY <2>2, <4>0, <5>2
      <4> QED BY <4>1, <4>2
    <3> QED BY <1>2, <1>3, <1>9, <1>10, <3>1 DEF Charged, Open
  <2>7. SettledFairly' /\ HighestWins'
    BY <1>2, <1>9 DEF IInv, SettledFairly, HighestWins, Open, Fresh, Closed
  <2> PICK t : t = [u EXCEPT !.winner = i, !.at = "release"]
    OBVIOUS
  <2>8. t \in Transaction /\ t.at = "release" /\ t.failed = u.failed /\ t.winner = i
        /\ t.rest = u.rest /\ t.freed = u.freed
    BY <1>2, <1>7 DEF Transaction
  <2>9. Chosen(t)'
    <3>1. i # NoBid /\ i \notin u.failed \cup u.freed
      BY <1>3, <1>4, <1>7
    <3>2. \A j \in Held' : \/ j = i \/ j \in u.failed
                           \/ i # NoBid /\ bid'[j].amount < bid'[i].amount
      BY <1>9, <1>10, <2>0, <3>1
    <3>3. \A j \in Held' : \/ j = t.winner \/ j \in t.failed
                           \/ t.winner # NoBid /\ bid'[j].amount < bid'[t.winner].amount
      BY <2>8, <3>2
    <3>4. intent'[t.winner] = "captured" /\ t.winner \in Held' /\ t.winner \notin t.failed \cup t.freed
      BY <1>10, <2>1, <2>3, <2>8, <3>1
    <3> QED BY <3>3, <3>4 DEF Chosen
  <2>10. Sweeping(t)'
    BY <1>10, <2>8, <2>9 DEF Sweeping, Trying
  <2>11. Fits(c, t)'
    BY <1>1, <1>2, <1>3, <1>4, <1>9, <1>10, <2>2, <2>8, <2>10 DEF Fits
  <2> QED BY <1>1, <1>2, <1>9, <1>11, <2>4, <2>6, <2>7, <2>11, Alone DEF IInv
<1>12. CASE /\ Goes(c, [u EXCEPT !.failed = @ \cup {i}])
            /\ \/ /\ intent[i] # "captured"
                  /\ intent' = [intent EXCEPT ![i] = IF @ = "held" THEN "refusing" ELSE @]
                  /\ UNCHANGED <<unheard, faults>>
               \/ /\ Fault /\ unheard' = unheard \cup {i}
                  /\ \/ UNCHANGED intent
                     \/ intent[i] = "held" /\ intent' = [intent EXCEPT ![i] = "captured"]
  <2>1. /\ faults' \in Nat /\ unheard' \in {unheard, unheard \cup {i}}
        /\ intent' \in [Bids -> IntentState]
        /\ \A j \in Bids \ {i} : intent'[j] = intent[j]
        /\ \/ unheard' = unheard /\ intent[i] # "captured" /\ intent'[i] \in {"refusing", "canceled"}
              /\ (intent[i] = "canceled" => intent'[i] = "canceled")
           \/ unheard' = unheard \cup {i} /\ intent'[i] \in {intent[i], "captured"}
              /\ (intent'[i] # intent[i] => intent[i] = "held")
    <3>1. CASE /\ intent[i] # "captured"
               /\ intent' = [intent EXCEPT ![i] = IF @ = "held" THEN "refusing" ELSE @]
               /\ UNCHANGED <<unheard, faults>>
      BY <1>7, <3>1 DEF IInv, Stored, IntentState
    <3>2. CASE /\ Fault /\ unheard' = unheard \cup {i}
               /\ \/ UNCHANGED intent
                  \/ intent[i] = "held" /\ intent' = [intent EXCEPT ![i] = "captured"]
      BY <1>7, <3>2, FaultIsCounted DEF IInv, Stored, IntentState
    <3> QED BY <1>12, <3>1, <3>2
  <2>2. Doubtful(i)' /\ \A j \in Bids : Doubtful(j) => Doubtful(j)'
    BY <1>7, <2>1 DEF Doubtful
  <2>3. Captured' \ unheard' \subseteq Captured \ unheard
    BY <1>7, <2>1 DEF Captured
  <2>4. Stored' /\ Fresh' /\ Rising'
    <3>1. Stored'
      BY <1>7, <1>9, <2>1 DEF IInv, Stored
    <3>2. Fresh'
      BY <1>2, <1>9 DEF IInv, Fresh, Closed
    <3>3. \A j \in Bids : (intent[j] = "canceled" => intent'[j] = "canceled")
                          /\ (intent[j] # "none" => intent'[j] # "none")
      BY <1>7, <2>1
    <3> QED BY <1>4, <1>9, <1>10, <3>1, <3>2, <3>3 DEF IInv, Rising, Closed
  <2>5. Charged'
    <3>1. \A k \in Captured' \ unheard' :
             k \in Held /\ \A j \in Held : bid[j].amount > bid[k].amount => Doubtful(j)'
      <4> TAKE k \in Captured' \ unheard'
      <4>1. k \in Held /\ \A j \in Held : bid[j].amount > bid[k].amount => Doubtful(j)
        BY <1>2, <2>3 DEF IInv, Charged
      <4> QED BY <2>2, <4>1 DEF Held
    <3> QED BY <1>2, <1>3, <1>9, <1>10, <3>1 DEF Charged, Open
  <2>6. SettledFairly' /\ HighestWins'
    BY <1>2, <1>9 DEF IInv, SettledFairly, HighestWins, Open, Fresh, Closed
  <2> PICK t : t = [u EXCEPT !.failed = @ \cup {i}]
    OBVIOUS
  <2>7. t \in Transaction /\ t.at = "capture" /\ t.failed = u.failed \cup {i} /\ t.winner = u.winner
        /\ t.rest = u.rest /\ t.freed = u.freed
    BY <1>2, <1>7 DEF Transaction
  <2>8. Trying(t)'
    <3>1. \A f \in t.failed, j \in t.rest \ t.failed : bid[f].amount > bid[j].amount
      BY <1>3, <1>8, <2>7
    <3> QED BY <1>3, <1>7, <1>9, <1>10, <2>7, <3>1 DEF Trying
  <2>9. Sweeping(t)'
    BY <1>10, <2>7, <2>8 DEF Sweeping, Chosen
  <2>10. Fits(c, t)'
    BY <1>1, <1>2, <1>3, <1>4, <1>7, <1>9, <1>10, <2>2, <2>7, <2>9 DEF Fits
  <2> QED BY <1>1, <1>2, <1>9, <1>12, <2>4, <2>5, <2>6, <2>10, Alone DEF IInv
<1> QED BY <1>11, <1>12 DEF CaptureNext

-------------------------------------------------------------------------------
(* The theorems. *)

THEOREM Invariance == Spec => []IInv
<1>1. Init => IInv
  <2> SUFFICES ASSUME Init PROVE IInv
    OBVIOUS
  <2>1. Stored
    BY DEF Init, Stored, Row, BidRow, NoRow, IntentState
  <2>2. Captured = {} /\ Recorded = {} /\ auction.state = "none" /\ auction.outcome = "none"
    BY DEF Init, Captured, Recorded, NoRow
  <2>3. Fresh /\ Rising /\ Charged /\ SettledFairly /\ HighestWins
    BY <2>2 DEF Init, Fresh, Rising, Charged, SettledFairly, HighestWins, Closed, Open, NoRow, Recorded
  <2>4. \A c \in Callers : tx[c] = Idle
    BY DEF Init
  <2>5. Idle \in Transaction /\ Idle.at = "idle"
    BY DEF Idle, Transaction
  <2>6. Serial
    BY <2>4, <2>5, IdleFits DEF Serial, Inside, Init
  <2> QED BY <2>1, <2>3, <2>6 DEF IInv
<1>2. IInv /\ [Next]_vars => IInv'
  <2> SUFFICES ASSUME IInv, [Next]_vars PROVE IInv'
    OBVIOUS
  <2>1. CASE ListVoucher
    BY <2>1, ListVoucherStep
  <2>2. CASE InsertAuction
    BY <2>2, InsertAuctionStep
  <2>3. CASE Crash
    BY <2>3, CrashStep
  <2>4. CASE Tick
    BY <2>4, TickStep
  <2>5. CASE \E b \in Bidders : PlaceBid(b)
    <3>1. PICK b \in Bidders : PlaceBid(b)
      BY <2>5
    <3>2. b \in Callers
      BY Constants
    <3>3. CASE HoldDeclined(b)
      BY <3>2, <3>3, RollsBackStep DEF HoldDeclined, IInv, Stored
    <3> QED
      BY <3>1, <3>3, BeginBidStep, CheckBidStep, PlaceHoldStep, ReleaseEarlierStep, RecordBidStep,
         UndoBidStep DEF PlaceBid
  <2>6. CASE \E c \in Closers : SettleAuction(c)
    BY <2>6, BeginCloseStep, CaptureNextStep, NoMoreBidsStep, ReleaseNextStep, HandOverStep,
       CommitCloseStep DEF SettleAuction
  <2>7. CASE \E i \in Bids : ProviderCancels(i) \/ MarkHoldCanceled(i)
    BY <2>7, ProviderCancelsStep, MarkHoldCanceledStep
  <2>8. CASE UNCHANGED vars
    BY <2>8 DEF vars, outside, IInv, Stored, Fresh, Rising, Charged, Serial, SettledFairly, HighestWins,
                Fits, Inside, Recorded, Closed, Open, Ended, Held, Captured, Bidding, Sweeping,
                Cancelling, Trying, Chosen, Doubtful
  <2> QED BY <2>1, <2>2, <2>3, <2>4, <2>5, <2>6, <2>7, <2>8 DEF Next
<1> QED BY <1>1, <1>2, PTL DEF Spec

THEOREM SettlesFairly == Spec => []SettledFairly
BY Invariance, PTL DEF IInv

THEOREM HighestBidWins == Spec => []HighestWins
BY Invariance, PTL DEF IInv

(* What does not fail was never begun with a fault. *)
LEMMA Faultless == ASSUME IInv, [Next]_vars, faults' = 0 PROVE faults = 0 /\ ~Fault
<1>1. ~Fault
  BY DEF Fault, IInv, Stored
<1> QED
  BY <1>1 DEF Next, vars, ListVoucher, InsertAuction, Crash, Tick, PlaceBid, BeginBid, CheckBid,
              PlaceHold, HoldDeclined, ReleaseEarlier, RecordBid, UndoBid, SettleAuction, BeginClose,
              CaptureNext, NoMoreBids, ReleaseNext, HandOver, CommitClose, ProviderCancels,
              MarkHoldCanceled, Release

(* A bidder's step: a card that is now held is on record or being recorded. *)
LEMMA NoStrayBid ==
    ASSUME IInv, NoStray, NEW b \in Bidders, NEW t, Goes(b, t), Closed' => Closed,
           \A i \in Alive' : \/ i \in Alive
                             \/ Inside(b) /\ t.at = "record" /\ t.bid = i,
           Held \cap Alive' \subseteq Held',
           tx[b].at = "record" => \/ t.at = "record" /\ t.bid = tx[b].bid
                                  \/ tx[b].bid \in Held'
    PROVE  NoStray'
<1>1. tx \in [Callers -> Transaction] /\ b \in Callers /\ Closers \subseteq Callers \ {b}
  BY Constants DEF IInv, Serial
<1>2. tx'[b] = t /\ \A c \in Callers \ {b} : tx'[c] = tx[c]
  BY <1>1
<1>3. ASSUME NEW i \in Alive' PROVE (i \in Held' \/ Recording(i)') /\ ~Closed'
  <2>1. ~Closed'
    BY <1>1 DEF NoStray, IInv, Serial, Fits, Open, Closed, Inside
  <2>2. CASE i \in Alive
    <3>1. CASE \E d \in Bidders \ {b} : tx[d].at = "record" /\ tx[d].bid = i
      <4>1. Recording(i)'
        BY <1>1, <1>2, <3>1, Constants DEF Recording
      <4> QED BY <2>1, <4>1
    <3>2. CASE i \in Held \/ (tx[b].at = "record" /\ tx[b].bid = i)
      <4>1. i \in Held' \/ Recording(i)'
        BY <1>2, <1>3, <3>2 DEF Recording
      <4> QED BY <2>1, <4>1
    <3> QED BY <2>1, <2>2, <3>1, <3>2 DEF NoStray, Recording
  <2>3. CASE t.at = "record" /\ t.bid = i
    BY <1>2, <2>1, <2>3 DEF Recording
  <2> QED BY <2>2, <2>3
<1>4. ASSUME NEW c \in Closers
      PROVE  /\ tx'[c] = tx[c]
             /\ tx[c].at \in {"release", "write"} => Alive' \subseteq Alive
  <2>1. tx'[c] = tx[c] /\ c # b /\ c \in Callers
    BY <1>1, <1>2
  <2>2. ~(Inside(c) /\ Inside(b))
    BY <1>1, <2>1 DEF IInv, Serial
  <2> QED BY <2>1, <2>2 DEF Inside
<1> QED BY <1>3, <1>4 DEF NoStray

LEMMA NoStrayPlaceBid ==
    ASSUME IInv, NoStray, NEW b \in Bidders, PlaceBid(b), ~Fault
    PROVE  NoStray'
<1>1. b \in Callers /\ tx \in [Callers -> Transaction] /\ b # Sweep /\ b # Staff
  BY Constants DEF IInv, Serial
<1>2. ASSUME NEW t, Goes(b, t), tx[b].at # "record", UNCHANGED <<auction, bid, intent>>
      PROVE  NoStray'
  <2>1. Alive' = Alive /\ Held' = Held /\ Closed' = Closed
    BY <1>2 DEF Alive, Held, Closed
  <2> QED BY <1>2, <2>1, NoStrayBid
<1>3. CASE BeginBid(b) \/ CheckBid(b) \/ HoldDeclined(b)
  BY <1>2, <1>3 DEF BeginBid, CheckBid, HoldDeclined, outside
<1>4. CASE PlaceHold(b)
  <2> PICK i : i = Min({j \in Bids : intent[j] = "none"})
    OBVIOUS
  <2>1. /\ intent' = [intent EXCEPT ![i] = "held"] /\ tx[b].at = "hold"
        /\ Goes(b, [tx[b] EXCEPT !.at = "record", !.bid = i, !.rest = HeldBy(b)])
        /\ UNCHANGED <<auction, bid>>
    BY <1>4 DEF PlaceHold
  <2> PICK t : t = [tx[b] EXCEPT !.at = "record", !.bid = i, !.rest = HeldBy(b)]
    OBVIOUS
  <2>2. t.at = "record" /\ t.bid = i
    BY <1>1 DEF Transaction
  <2>3. Alive' \subseteq Alive \cup {i} /\ Held' = Held /\ Closed' = Closed
    BY <2>1 DEF Alive, Held, Closed, IInv, Stored
  <2>4. Inside(b)
    BY <2>1 DEF Inside
  <2> QED BY <2>1, <2>2, <2>3, <2>4, NoStrayBid
<1>5. CASE ReleaseEarlier(b)
  <2> PICK i : i = Highest(tx[b].rest)
    OBVIOUS
  <2>0. i \in tx[b].rest
    BY <1>1, <1>5, HighestIs DEF ReleaseEarlier, IInv, Serial, Fits, Rising, Recorded
  <2>1. PICK heard \in BOOLEAN :
          /\ Release(i, heard)
          /\ Goes(b, IF heard THEN [[tx[b] EXCEPT !.rest = @ \ {i}] EXCEPT !.freed = @ \cup {i}]
                     ELSE [tx[b] EXCEPT !.rest = @ \ {i}])
    BY <1>5 DEF ReleaseEarlier
  <2> PICK t : t = IF heard THEN [[tx[b] EXCEPT !.rest = @ \ {i}] EXCEPT !.freed = @ \cup {i}]
                   ELSE [tx[b] EXCEPT !.rest = @ \ {i}]
    OBVIOUS
  <2>2. t.at = tx[b].at /\ t.bid = tx[b].bid /\ tx[b].at = "record"
    BY <1>1, <1>5 DEF Transaction, ReleaseEarlier
  <2>3. Alive' \subseteq Alive
    BY <1>1, <2>0, <2>1, ReleaseFades DEF Alive
  <2>4. Held' = Held /\ Closed' = Closed
    BY <1>5 DEF ReleaseEarlier, Held, Closed
  <2> QED BY <2>1, <2>2, <2>3, <2>4, NoStrayBid
<1>6. CASE RecordBid(b)
  <2> PICK u : u = tx[b]
    OBVIOUS
  <2>1. u.at = "record" /\ u.bid \in Bids /\ u.failed = {} /\ u.winner = NoBid
        /\ auction \in Row /\ \A j \in u.freed : intent[j] = "canceled"
    BY <1>1, <1>6 DEF RecordBid, IInv, Serial, Fits, Bidding, Stored
  <2>2. Alive' = Alive /\ Goes(b, Idle)
    BY <1>6 DEF RecordBid, outside, Alive
  <2>3. auction'.state = auction.state
    BY <1>6, <2>1 DEF RecordBid, Row
  <2>4. \A j \in Bids \ u.freed : j \in Held \/ j = u.bid => j \in Held'
    <3> SUFFICES ASSUME NEW j \in Bids \ u.freed, j \in Held \/ j = u.bid PROVE j \in Held'
      OBVIOUS
    <3>1. bid' = [Commits(b, bid) EXCEPT
                    ![u.bid] = [bidder |-> b, amount |-> u.amount, state |-> "held"]]
      BY <1>6 DEF RecordBid
    <3>2. CASE j = u.bid
      BY <2>1, <3>1, <3>2 DEF Commits, Held
    <3>3. CASE j # u.bid /\ j \in Held
      <4>1. Commits(b, bid)[j] = bid[j]
        BY <2>1, Constants DEF Commits
      <4>2. bid'[j] = bid[j]
        BY <3>1, <3>3, <4>1 DEF Commits
      <4> QED BY <3>3, <4>2 DEF Held
    <3> QED BY <3>2, <3>3
  <2>5. Held \cap Alive' \subseteq Held'
    BY <2>1, <2>2, <2>4 DEF Alive
  <2>6. CASE u.bid \notin u.freed
    BY <2>1, <2>2, <2>3, <2>4, <2>5, <2>6, NoStrayBid DEF Closed
  <2>7. u.bid \notin u.freed
    BY <1>1, <2>1 DEF IInv, Serial, Fits, Bidding
  <2> QED BY <2>6, <2>7
<1> QED BY <1>3, <1>4, <1>5, <1>6 DEF PlaceBid, UndoBid

(* A close's step. *)
LEMMA NoStraySettle ==
    ASSUME IInv, NoStray, NEW c \in Closers, SettleAuction(c), ~Fault
    PROVE  NoStray'
<1>1. c \in Callers /\ tx \in [Callers -> Transaction] /\ c \notin Bidders /\ c \in {Sweep, Staff}
      /\ Sweep # Staff /\ Closers \subseteq Callers /\ Bidders \subseteq Callers
  BY Constants DEF IInv, Serial
<1> PICK u : u = tx[c]
  OBVIOUS
(* It is alone, and bidders wait. *)
<1>2. ASSUME NEW t, Goes(c, t), Inside(c) \/ Unlocked, Open, Closed' => Alive = {},
             Alive' \subseteq Alive, Closed' \/ Held' = Held,
             t.at \in {"release", "write"} => \A i \in Alive' : i \in t.rest /\ i # t.winner,
             t.at = "write" => t.rest \subseteq {t.winner}
      PROVE  NoStray'
  <2>1. tx'[c] = t /\ \A d \in Callers \ {c} : tx'[d] = tx[d] /\ tx[d].at \in {"idle", "lock"}
    BY <1>1, <1>2 DEF IInv, Serial, Inside, Unlocked
  <2>2. \A b \in Bidders : tx[b].at \in {"idle", "lock"}
    BY <1>1, <2>1
  <2>3. \A i \in Alive' : i \in Held' /\ ~Closed'
    BY <1>2, <2>2 DEF NoStray, Recording
  <2>4. \A d \in Closers : d # c => tx'[d].at \in {"idle", "lock"}
    BY <1>1, <2>1
  <2> QED BY <1>2, <2>1, <2>3, <2>4 DEF NoStray
<1>3. tx[c].at # "idle" => Inside(c) /\ Open /\ ~Closed
  BY <1>1 DEF IInv, Serial, Fits, Sweeping, Cancelling, Inside, Open, Closed
<1>4. CASE BeginClose(c)
  <2> PICK t : t = [Idle EXCEPT !.at = IF c = Sweep THEN "capture" ELSE "release", !.rest = Held]
    OBVIOUS
  <2>1. /\ Goes(c, t) /\ Unlocked /\ Open /\ ~Closed /\ Alive' = Alive /\ Held' = Held
        /\ ~Closed' /\ t.at # "write" /\ t.rest = Held /\ t.winner = NoBid
    BY <1>4 DEF BeginClose, outside, Alive, Held, Open, Closed, Idle
  <2>2. \A i \in Alive : i \in Held /\ i # NoBid
    BY <1>1, <2>1, Constants DEF NoStray, Recording, Unlocked, Alive
  <2> QED BY <1>2, <2>1, <2>2
<1>5. CASE CaptureNext(c)
  <2>0. u.at = "capture" /\ Fits(c, u) /\ Inside(c) /\ Open /\ ~Closed /\ u \in Transaction
    BY <1>1, <1>5, <1>3 DEF CaptureNext, IInv, Serial, Fits
  <2>1. c = Sweep /\ Held \subseteq u.rest
    BY <1>1, <2>0 DEF Fits, Cancelling, Sweeping, Trying
  <2>2. \A i \in Alive : i \in Held
    BY <1>1, <2>0 DEF NoStray, Recording, IInv, Serial, Inside
  <2> PICK i : i = Highest(u.rest \ u.failed)
    OBVIOUS
  <2>3. Held' = Held /\ Closed' = Closed
    BY <1>5 DEF CaptureNext, Held, Closed
  <2>4. CASE /\ intent[i] \in {"held", "captured"}
             /\ Goes(c, [u EXCEPT !.winner = i, !.at = "release"])
             /\ intent' = [intent EXCEPT ![i] = "captured"]
    <3> PICK t : t = [u EXCEPT !.winner = i, !.at = "release"]
      OBVIOUS
    <3>1. t.at = "release" /\ t.rest = u.rest /\ t.winner = i
      BY <2>0 DEF Transaction
    <3>2. Alive' \subseteq Alive \ {i}
      BY <2>4 DEF Alive, IInv, Stored
    <3> QED BY <1>2, <2>0, <2>1, <2>2, <2>3, <2>4, <3>1, <3>2
  <2>5. CASE /\ intent[i] # "captured"
             /\ Goes(c, [u EXCEPT !.failed = @ \cup {i}])
             /\ intent' = [intent EXCEPT ![i] = IF @ = "held" THEN "refusing" ELSE @]
    <3> PICK t : t = [u EXCEPT !.failed = @ \cup {i}]
      OBVIOUS
    <3>1. t.at = "capture"
      BY <2>0 DEF Transaction
    <3>2. Alive' \subseteq Alive
      BY <2>5 DEF Alive, IInv, Stored
    <3> QED BY <1>2, <2>0, <2>3, <2>5, <3>1, <3>2
  <2> QED BY <1>5, <2>4, <2>5 DEF CaptureNext
<1>6. CASE NoMoreBids(c)
  <2>0. u.at = "capture" /\ Fits(c, u) /\ Inside(c) /\ Open /\ ~Closed /\ u \in Transaction
    BY <1>1, <1>3, <1>6 DEF NoMoreBids, IInv, Serial, Fits
  <2>1. c = Sweep /\ Held \subseteq u.rest /\ u.winner = NoBid
    BY <1>1, <2>0 DEF Fits, Cancelling, Sweeping, Trying
  <2>2. \A i \in Alive : i \in Held /\ i # NoBid
    BY <1>1, <2>0, Constants DEF NoStray, Recording, IInv, Serial, Inside, Alive
  <2> PICK t : t = [u EXCEPT !.at = "release"]
    OBVIOUS
  <2>3. t.at = "release" /\ t.rest = u.rest /\ t.winner = NoBid
    BY <2>0, <2>1 DEF Transaction
  <2>4. Alive' = Alive /\ Held' = Held /\ Closed' = Closed /\ Goes(c, t)
    BY <1>6 DEF NoMoreBids, outside, Alive, Held, Closed
  <2> QED BY <1>2, <2>0, <2>1, <2>2, <2>3, <2>4
<1>7. CASE ReleaseNext(c)
  <2>0. u.at = "release" /\ Fits(c, u) /\ Inside(c) /\ Open /\ ~Closed /\ u \in Transaction
    BY <1>1, <1>3, <1>7 DEF ReleaseNext, IInv, Serial, Fits
  <2>1. u.rest \ {u.winner} # {} /\ u.rest \ {u.winner} \in SUBSET Bids
        /\ \A j \in u.rest \ {u.winner} : bid[j].amount <= auction.current
    BY <1>7, <2>0 DEF ReleaseNext, Fits, Recorded, IInv, Rising
  <2> PICK i : i = Highest(u.rest \ {u.winner})
    OBVIOUS
  <2>2. i \in u.rest \ {u.winner}
    BY <2>1, HighestIs DEF IInv
  <2>3. PICK heard \in BOOLEAN :
          /\ Release(i, heard)
          /\ Goes(c, [u EXCEPT !.rest = @ \ {i},
                               !.freed = IF heard /\ i \notin u.failed THEN @ \cup {i} ELSE @])
    BY <1>7 DEF ReleaseNext
  <2> PICK t : t = [u EXCEPT !.rest = @ \ {i},
                             !.freed = IF heard /\ i \notin u.failed THEN @ \cup {i} ELSE @]
    OBVIOUS
  <2>4. t.at = "release" /\ t.rest = u.rest \ {i} /\ t.winner = u.winner
    BY <2>0 DEF Transaction
  <2>5. Alive' \subseteq Alive
    BY <1>1, <2>2, <2>3, ReleaseFades DEF Alive
  <2>6. i \notin Alive'
    <3>1. heard => intent'[i] = "canceled"
      BY <1>1, <2>2, <2>3, ReleaseFades
    <3>2. ~heard => intent[i] = "captured" /\ intent' = intent
      BY <2>3 DEF Release
    <3> QED BY <3>1, <3>2 DEF Alive
  <2>7. Held' = Held /\ Closed' = Closed
    BY <1>7 DEF ReleaseNext, Held, Closed
  <2>8. \A j \in Alive : j \in u.rest /\ j # u.winner
    BY <2>0 DEF NoStray
  <2>9. Goes(c, t)
    BY <2>3
  <2>10. (\A j \in Alive' : j \in t.rest /\ j # t.winner) /\ t.at # "write"
    BY <2>4, <2>5, <2>6, <2>8
  <2> HIDE DEF Goes
  <2> QED BY <1>2, <2>0, <2>5, <2>7, <2>9, <2>10
<1>8. CASE HandOver(c)
  <2>0. u.at = "release" /\ Inside(c) /\ Open /\ ~Closed /\ u \in Transaction
        /\ u.rest \subseteq {u.winner}
    BY <1>1, <1>3, <1>8 DEF HandOver, IInv, Serial, Fits
  <2>1. Alive' = Alive /\ Held' = Held /\ Closed' = Closed
    BY <1>8 DEF HandOver, Alive, Held, Closed
  <2>2. \A j \in Alive : j \in u.rest /\ j # u.winner
    BY <2>0 DEF NoStray
  <2>3. CASE Goes(c, [u EXCEPT !.at = "write"])
    <3> PICK t : t = [u EXCEPT !.at = "write"]
      OBVIOUS
    <3>1. t.at = "write" /\ t.rest = u.rest /\ t.winner = u.winner
      BY <2>0 DEF Transaction
    <3> QED BY <1>2, <2>0, <2>1, <2>2, <2>3, <3>1
  <2>4. CASE RollsBack(c)
    <3>1. Idle.at = "idle"
      BY DEF Idle
    <3> QED BY <1>2, <2>0, <2>1, <2>4, <3>1
  <2> QED BY <1>8, <2>3, <2>4 DEF HandOver
<1>9. CASE CommitClose(c)
  <2>0. u.at = "write" /\ Inside(c) /\ Open /\ auction \in Row
    BY <1>1, <1>3, <1>9 DEF CommitClose, IInv, Stored
  <2>1. Alive = {}
    BY <2>0 DEF NoStray
  <2>2. Alive' = {} /\ Goes(c, Idle) /\ Idle.at = "idle"
    BY <1>9, <2>1 DEF CommitClose, outside, Alive, Idle
  <2>3. Closed'
    BY <1>9, <2>0 DEF CommitClose, Row, Closed
  <2> QED BY <1>2, <2>0, <2>1, <2>2, <2>3
<1> QED BY <1>4, <1>5, <1>6, <1>7, <1>8, <1>9 DEF SettleAuction

(* While nothing fails, no step leaves a stray hold. *)
LEMMA NoStrayStep ==
    ASSUME IInv, NoStrayHold, [Next]_vars
    PROVE  NoStrayHold'
<1> SUFFICES ASSUME faults' = 0 PROVE NoStray'
  BY DEF NoStrayHold
<1>1. ~Fault /\ NoStray
  BY Faultless DEF NoStrayHold
<1>2. CASE ListVoucher \/ Tick \/ UNCHANGED vars
  <2>1. UNCHANGED <<auction, bid, intent, tx>>
    BY <1>2 DEF ListVoucher, Tick, vars, outside
  <2> QED BY <1>1, <2>1 DEF Held, Closed, NoStray, Alive, Recording
<1>3. CASE InsertAuction
  <2>1. UNCHANGED <<bid, intent, tx>> /\ auction \in Row
    BY <1>3 DEF InsertAuction, outside, IInv, Stored
  <2>2. ~Closed'
    BY <1>3, <2>1 DEF InsertAuction, Row, Closed
  <2> QED BY <1>1, <2>1, <2>2 DEF Held, NoStray, Alive, Recording
<1>4. CASE \E b \in Bidders : PlaceBid(b)
  BY <1>1, <1>4, NoStrayPlaceBid
<1>5. CASE \E c \in Closers : SettleAuction(c)
  BY <1>1, <1>5, NoStraySettle
<1>6. ASSUME NEW i \in Bids, MarkHoldCanceled(i) PROVE NoStray'
  <2>1. UNCHANGED <<auction, intent, tx>> /\ i \notin Alive /\ bid \in [Bids -> BidRow]
    BY <1>6 DEF MarkHoldCanceled, outside, IInv, Stored, Alive
  <2>2. \A j \in Bids \ {i} : bid'[j] = bid[j]
    BY <1>6, <2>1 DEF MarkHoldCanceled
  <2>3. \A j \in Alive : j \in Held => j \in Held'
    BY <2>1, <2>2 DEF Held, Alive
  <2>4. Alive' = Alive /\ Closed' = Closed /\ \A j \in Bids : Recording(j)' <=> Recording(j)
    BY <2>1 DEF Alive, Closed, Recording
  <2>5. \A j \in Alive : (j \in Held' \/ Recording(j)') /\ ~Closed'
    BY <1>1, <2>3, <2>4 DEF NoStray, Alive
  <2> QED BY <1>1, <2>1, <2>4, <2>5 DEF NoStray
<1> QED
  BY <1>1, <1>2, <1>3, <1>4, <1>5, <1>6 DEF Next, Crash, ProviderCancels

(* When every call was answered and nothing died, a closed auction leaves no *)
(* card held (ClosedHoldsNothing).                                           *)
THEOREM NoCardHeld == Spec => []ClosedHoldsNothing
<1>1. Init => NoStrayHold
  BY Constants DEF Init, NoStrayHold, NoStray, Alive, Idle
<1>2. IInv /\ NoStrayHold /\ [Next]_vars => NoStrayHold'
  BY NoStrayStep
<1>3. NoStrayHold => ClosedHoldsNothing
  BY DEF NoStrayHold, NoStray, Alive, ClosedHoldsNothing
<1> QED BY <1>1, <1>2, <1>3, Invariance, PTL DEF Spec

====

-------------------------------- MODULE Outbox --------------------------------
(***************************************************************************)
(* How a merchant's captures reach services/ledger.  Each capture writes a   *)
(* row to voucher.capture_outbox; the poster of each running instance of     *)
(* services/voucher reads a batch of unposted rows, posts one after the      *)
(* other and marks a row when the ledger has confirmed it.  The outbox of    *)
(* expired vouchers is drained the same way.                                 *)
(*                                                                           *)
(* Every statement of a poster and the ledger's transaction is a step; an    *)
(* answer may be lost, also of a request that is then still carried out.     *)
(* Names that Redemption has too bear this module's, so that both can be      *)
(* extended together.                                                         *)
(***************************************************************************)
EXTENDS Integers, Sequences, FiniteSets

CONSTANTS
    Captures,   \* captures of one merchant's vouchers
    Foreign,    \* those of vouchers of the other region
    Posters,    \* instances of services/voucher
    BatchSize,  \* rows a pass reads
    MaxFaults   \* bound on lost requests, lost answers and posters that die

ASSUME OutboxAssumption ==
    /\ Foreign \subseteq Captures
    /\ BatchSize \in Nat \ {0}
    /\ MaxFaults \in Nat

VARIABLES
    outbox,     \* the rows, by created_at
    posted,     \* rows with a posted_at
    bookings,   \* postings of each capture in the ledger
    late,       \* captures of requests given up that the ledger may still carry out
    pass,       \* each poster's pass: [at, rows], rows by their place in outbox
    faults

outboxVars == <<outbox, posted, bookings, late, pass, faults>>

Idle == [at |-> "idle", rows |-> {}]
Rows == {outbox[n] : n \in DOMAIN outbox}

OutboxInit ==
    /\ outbox = <<>> /\ posted = {}
    /\ bookings = [c \in Captures |-> 0] /\ late = {}
    /\ pass = [p \in Posters |-> Idle]
    /\ faults = 0

Fault   == faults < MaxFaults /\ faults' = faults + 1
NoFault == UNCHANGED faults

(* The capture's own transaction writes the row. *)
Owe(c) ==
    /\ c \notin Rows
    /\ outbox' = Append(outbox, c)
    /\ UNCHANGED <<posted, bookings, late, pass, faults>>

-------------------------------------------------------------------------------
(* The ledger.  The first capture it books opens the merchant's payable, and a *)
(* merchant has one in one region only.                                        *)

IsBooked(c)  == bookings[c] > 0
Refuses(c) == \E d \in Captures : IsBooked(d) /\ (d \in Foreign) # (c \in Foreign)

\* A seeded bug, as are the other operators named ..Bug: no definition of the
\* model uses them.  A capture sent again is posted again.
BookBug(c) ==
    IF Refuses(c) THEN UNCHANGED bookings ELSE bookings' = [bookings EXCEPT ![c] = @ + 1]

\* A capture that was booked is answered with that booking.
Book(c) ==
    IF IsBooked(c) \/ Refuses(c) THEN UNCHANGED bookings
    ELSE bookings' = [bookings EXCEPT ![c] = @ + 1]

-------------------------------------------------------------------------------
(* A pass. *)

Unposted == {n \in DOMAIN outbox : outbox[n] \notin posted}
Batch    == {n \in Unposted : Cardinality({m \in Unposted : m < n}) < BatchSize}

\* Row n is the one a pass is at, and what is left of the pass after it.
At(p, n)       == n \in pass[p].rows /\ \A m \in pass[p].rows : n <= m
Continue(rows) == IF rows = {} THEN Idle ELSE [at |-> "post", rows |-> rows]

ReadBatch(p) ==
    /\ pass[p].at = "idle" /\ Unposted # {}
    /\ pass' = [pass EXCEPT ![p] = Continue(Batch)]
    /\ UNCHANGED <<outbox, posted, bookings, late, faults>>

\* A seeded bug: whatever the ledger answered, the row is marked.
PostBug(p) ==
    \E n \in DOMAIN outbox :
        /\ pass[p].at = "post" /\ At(p, n)
        /\ Book(outbox[n]) /\ NoFault
        /\ pass' = [pass EXCEPT ![p].at = "mark"]
        /\ UNCHANGED <<outbox, posted, late>>

\* A seeded bug: a refused row ends the pass.
PostStopBug(p) ==
    \E n \in DOMAIN outbox :
        /\ pass[p].at = "post" /\ At(p, n)
        /\ Book(outbox[n]) /\ NoFault
        /\ pass' = [pass EXCEPT ![p] = IF Refuses(outbox[n]) THEN Idle ELSE [@ EXCEPT !.at = "mark"]]
        /\ UNCHANGED <<outbox, posted, late>>

\* A 4xx leaves the row to a later pass; without an answer, or with a 5xx, the
\* pass ends, whether or not the ledger has booked the capture.
Post(p) ==
    \E n \in DOMAIN outbox :
        LET c == outbox[n] IN
        /\ pass[p].at = "post" /\ At(p, n)
        /\ \/ /\ Book(c) /\ NoFault /\ UNCHANGED late
              /\ pass' = [pass EXCEPT ![p] = IF ~IsBooked(c) /\ Refuses(c)
                                             THEN Continue(@.rows \ {n})
                                             ELSE [@ EXCEPT !.at = "mark"]]
           \/ /\ Fault /\ UNCHANGED bookings /\ late' \in {late, late \cup {c}}
              /\ pass' = [pass EXCEPT ![p] = Idle]
        /\ UNCHANGED <<outbox, posted>>

Carry(c) ==
    /\ c \in late
    /\ Book(c) /\ late' = late \ {c}
    /\ UNCHANGED <<outbox, posted, pass, faults>>

Mark(p) ==
    \E n \in DOMAIN outbox :
        /\ pass[p].at = "mark" /\ At(p, n)
        /\ posted' = posted \cup {outbox[n]}
        /\ pass' = [pass EXCEPT ![p] = Continue(@.rows \ {n})]
        /\ UNCHANGED <<outbox, bookings, late, faults>>

Die(p) ==
    /\ pass[p].at # "idle" /\ Fault
    /\ pass' = [pass EXCEPT ![p] = Idle]
    /\ UNCHANGED <<outbox, posted, bookings, late>>

-------------------------------------------------------------------------------
Step(p) == ReadBatch(p) \/ Post(p) \/ Mark(p)

OutboxNext ==
    \/ \E c \in Captures : Owe(c) \/ Carry(c)
    \/ \E p \in Posters : Step(p) \/ Die(p)

OutboxSpec == OutboxInit /\ [][OutboxNext]_outboxVars

\* Each poster runs a pass every few seconds for as long as its instance lives.
FairOutboxSpec == OutboxSpec /\ \A p \in Posters : WF_outboxVars(Step(p))

-------------------------------------------------------------------------------
(* The variables have their types. *)
OutboxTypeOK ==
    /\ outbox \in Seq(Captures) /\ posted \subseteq Captures /\ late \subseteq Captures
    /\ bookings \in [Captures -> Nat]
    /\ pass \in [Posters -> [at : {"idle", "post", "mark"}, rows : SUBSET DOMAIN outbox]]
    /\ \A p \in Posters : pass[p].at # "idle" => pass[p].rows # {}
    /\ faults \in 0 .. MaxFaults

(* The outbox delivers at least once; a capture is booked once and no more,    *)
(* whoever posts it again: a second instance, a later pass after a lost        *)
(* answer, or a request that was given up.                                     *)
BookedOnce == \A c \in Captures : bookings[c] <= 1

(* No row counts as posted unless the ledger has booked its capture: a capture *)
(* never drops out of the outbox unpaid.                                       *)
MarkedIsBooked == \A c \in posted : IsBooked(c)

Refused   == {c \in Rows : Refuses(c) /\ ~IsBooked(c)}
Before(c) == {outbox[m] : m \in {m \in DOMAIN outbox :
                                   \E n \in DOMAIN outbox : outbox[n] = c /\ m < n}}
Hidden(c) == Cardinality(Refused \cap Before(c)) >= BatchSize

(* A row is posted in the end or is refused itself, through lost answers, late  *)
(* requests and posters that die, unless refused rows before it fill a batch:   *)
(* fewer of them stay at the head of every batch but hold nothing up.           *)
EveryRowIsPosted ==
    \A c \in Captures : c \in Rows ~> c \in posted \cup Refused \/ Hidden(c)

(* Refused rows never hold up the rows behind them.  The code does not keep it: *)
(* a pass reads only the oldest rows, so a batch of refused ones hides the rest.*)
NoRowIsHidden == \A c \in Captures : c \in Rows ~> c \in posted \cup Refused
===============================================================================

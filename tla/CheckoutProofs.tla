--------------------------- MODULE CheckoutProofs ---------------------------
(***************************************************************************)
(* IInv of Checkout is inductive; hence, for every set of checkouts,        *)
(* buyers, vouchers and requests, no voucher reaches a wallet unpaid, the   *)
(* saga row never runs ahead of the ledger, and every step of the detailed  *)
(* saga is a step of CheckoutPromise or invisible to the buyer.  Points      *)
(* come back only after the voucher was voided, unless activation may be    *)
(* refused, and a burn buys one voucher, unless two requests confirm at once.*)
(***************************************************************************)
EXTENDS Checkout, TLAPS

USE DEF row, clocks, vouchers, ledger, procs

(* A step of runSaga, whoever runs it. *)
LEMMA RunSagaStep ==
  ASSUME CheckoutAssumption, IInv, NEW p \in Procs, RunSaga(p)
  PROVE  IInv'
<1> SUFFICES ASSUME TypeOK, Located, StockIsTagged, NoFreeVoucher,
                     RowFollowsLedger, PlaceFollowsLedger, DeliveredFirst
             PROVE  IInv'
  BY DEF IInv
<1>1. CASE ReserveLooks(p)
  <2> USE <1>1
  <2>1. TypeOK' /\ Located'
    BY DEF ReserveLooks, GoTo, Reserved, TypeOK, Located, SagaState, VoucherState,
           BurnState, Place, Procs, CheckoutAssumption
  <2>2. StockIsTagged' /\ NoFreeVoucher'
    BY DEF ReserveLooks, GoTo, Reserved, StockIsTagged, NoFreeVoucher,
           PlaceFollowsLedger, AfterBurn, TypeOK, Located
  <2>3. RowFollowsLedger' /\ PlaceFollowsLedger'
    BY DEF ReserveLooks, GoTo, Reserved, RowFollowsLedger, PlaceFollowsLedger,
           AfterBurn, TypeOK, Located, Procs
  <2>4. DeliveredFirst'
    BY DEF ReserveLooks, GoTo, Reserved, DeliveredFirst, HasIssued, RowFollowsLedger,
           TypeOK, Located, Procs
  <2> QED BY <2>1, <2>2, <2>3, <2>4 DEF IInv
<1>2. CASE ReserveClaims(p)
  <2> USE <1>2
  <2>1. TypeOK' /\ Located'
    BY DEF ReserveClaims, Return, GoTo, TypeOK, Located, SagaState, VoucherState,
           BurnState, Place, Procs, CheckoutAssumption
  <2>2. StockIsTagged' /\ NoFreeVoucher'
    BY DEF ReserveClaims, Return, GoTo, StockIsTagged, NoFreeVoucher,
           PlaceFollowsLedger, AfterBurn, TypeOK, Located
  <2>3. RowFollowsLedger' /\ PlaceFollowsLedger'
    BY DEF ReserveClaims, Return, GoTo, RowFollowsLedger, PlaceFollowsLedger,
           AfterBurn, TypeOK, Located, Procs
  <2>4. DeliveredFirst'
    BY DEF ReserveClaims, Return, GoTo, DeliveredFirst, HasIssued, RowFollowsLedger,
           TypeOK, Located, Procs
  <2> QED BY <2>1, <2>2, <2>3, <2>4 DEF IInv
<1>3. CASE AdvanceReserved(p)
  <2> USE <1>3
  <2>1. TypeOK' /\ Located'
    BY DEF AdvanceReserved, Advance, GoTo, Branch, TypeOK, Located, SagaState,
           VoucherState, BurnState, Place, Procs, CheckoutAssumption
  <2>2. StockIsTagged' /\ NoFreeVoucher'
    BY DEF AdvanceReserved, Advance, GoTo, Branch, StockIsTagged, NoFreeVoucher,
           PlaceFollowsLedger, AfterBurn, TypeOK, Located
  <2>3. RowFollowsLedger' /\ PlaceFollowsLedger'
    BY DEF AdvanceReserved, Advance, GoTo, Branch, RowFollowsLedger,
           PlaceFollowsLedger, AfterBurn, TypeOK, Located, Procs
  <2>4. DeliveredFirst'
    BY DEF AdvanceReserved, Advance, GoTo, Branch, DeliveredFirst, HasIssued,
           RowFollowsLedger, TypeOK, Located, Procs
  <2> QED BY <2>1, <2>2, <2>3, <2>4 DEF IInv
<1>4. CASE Burn(p)
  <2> USE <1>4
  <2>1. TypeOK' /\ Located'
    BY DEF Burn, GoTo, TypeOK, Located, SagaState, VoucherState, BurnState, Place,
           Procs, CheckoutAssumption
  <2>2. StockIsTagged' /\ NoFreeVoucher'
    BY DEF Burn, GoTo, StockIsTagged, NoFreeVoucher, PlaceFollowsLedger, AfterBurn,
           TypeOK, Located
  <2>3. RowFollowsLedger' /\ PlaceFollowsLedger'
    BY DEF Burn, GoTo, RowFollowsLedger, PlaceFollowsLedger, AfterBurn, TypeOK,
           Located, Procs
  <2>4. DeliveredFirst'
    BY DEF Burn, GoTo, DeliveredFirst, HasIssued, RowFollowsLedger, TypeOK, Located,
           Procs
  <2> QED BY <2>1, <2>2, <2>3, <2>4 DEF IInv
<1>5. CASE AdvanceBurned(p)
  <2> USE <1>5
  <2>1. TypeOK' /\ Located'
    BY DEF AdvanceBurned, Advance, GoTo, Branch, TypeOK, Located, SagaState,
           VoucherState, BurnState, Place, Procs, CheckoutAssumption
  <2>2. StockIsTagged' /\ NoFreeVoucher'
    BY DEF AdvanceBurned, Advance, GoTo, Branch, StockIsTagged, NoFreeVoucher,
           PlaceFollowsLedger, AfterBurn, TypeOK, Located
  <2>3. RowFollowsLedger' /\ PlaceFollowsLedger'
    BY DEF AdvanceBurned, Advance, GoTo, Branch, RowFollowsLedger,
           PlaceFollowsLedger, AfterBurn, TypeOK, Located, Procs
  <2>4. DeliveredFirst'
    BY DEF AdvanceBurned, Advance, GoTo, Branch, DeliveredFirst, HasIssued,
           RowFollowsLedger, TypeOK, Located, Procs
  <2> QED BY <2>1, <2>2, <2>3, <2>4 DEF IInv
<1>6. CASE Activate(p)
  <2> USE <1>6
  <2>1. TypeOK' /\ Located'
    BY DEF Activate, GoTo, Return, Reserved, Activated, TypeOK, Located, SagaState,
           VoucherState, BurnState, Place, Procs, CheckoutAssumption
  <2>2. StockIsTagged' /\ NoFreeVoucher'
    BY DEF Activate, GoTo, Return, Reserved, Activated, StockIsTagged, NoFreeVoucher,
           PlaceFollowsLedger, AfterBurn, TypeOK, Located
  <2>3. RowFollowsLedger' /\ PlaceFollowsLedger'
    BY DEF Activate, GoTo, Return, Reserved, Activated, RowFollowsLedger,
           PlaceFollowsLedger, AfterBurn, TypeOK, Located, Procs
  <2>4. DeliveredFirst'
    BY DEF Activate, GoTo, Return, Reserved, Activated, DeliveredFirst, HasIssued,
           RowFollowsLedger, TypeOK, Located, Procs
  <2> QED BY <2>1, <2>2, <2>3, <2>4 DEF IInv
<1>7. CASE AdvanceDone(p)
  <2> USE <1>7
  <2>1. TypeOK' /\ Located'
    BY DEF AdvanceDone, Advance, Return, GoTo, TypeOK, Located, SagaState,
           VoucherState, BurnState, Place, Procs, CheckoutAssumption
  <2>2. StockIsTagged' /\ NoFreeVoucher'
    BY DEF AdvanceDone, Advance, Return, GoTo, StockIsTagged, NoFreeVoucher,
           PlaceFollowsLedger, AfterBurn, TypeOK, Located
  <2>3. RowFollowsLedger' /\ PlaceFollowsLedger'
    BY DEF AdvanceDone, Advance, Return, GoTo, RowFollowsLedger, PlaceFollowsLedger,
           AfterBurn, TypeOK, Located, Procs
  <2>4. DeliveredFirst'
    BY DEF AdvanceDone, Advance, Return, GoTo, DeliveredFirst, HasIssued,
           RowFollowsLedger, TypeOK, Located, Procs
  <2> QED BY <2>1, <2>2, <2>3, <2>4 DEF IInv
<1>8. CASE Release(p)
  <2> USE <1>8
  <2>1. TypeOK' /\ Located'
    BY DEF Release, ReleaseThen, GoTo, Return, Reserved, TypeOK, Located, SagaState,
           VoucherState, BurnState, Place, Procs, CheckoutAssumption
  <2>2. StockIsTagged' /\ NoFreeVoucher'
    BY DEF Release, ReleaseThen, GoTo, Return, Reserved, StockIsTagged,
           NoFreeVoucher, PlaceFollowsLedger, AfterBurn, TypeOK, Located
  <2>3. RowFollowsLedger' /\ PlaceFollowsLedger'
    BY DEF Release, ReleaseThen, GoTo, Return, Reserved, RowFollowsLedger,
           PlaceFollowsLedger, AfterBurn, TypeOK, Located, Procs
  <2>4. DeliveredFirst'
    BY DEF Release, ReleaseThen, GoTo, Return, Reserved, DeliveredFirst, HasIssued,
           RowFollowsLedger, TypeOK, Located, Procs
  <2> QED BY <2>1, <2>2, <2>3, <2>4 DEF IInv
<1>9. CASE AdvanceReleased(p)
  <2> USE <1>9
  <2>1. TypeOK' /\ Located'
    BY DEF AdvanceReleased, Advance, Return, GoTo, TypeOK, Located, SagaState,
           VoucherState, BurnState, Place, Procs, CheckoutAssumption
  <2>2. StockIsTagged' /\ NoFreeVoucher'
    BY DEF AdvanceReleased, Advance, Return, GoTo, StockIsTagged, NoFreeVoucher,
           PlaceFollowsLedger, AfterBurn, TypeOK, Located
  <2>3. RowFollowsLedger' /\ PlaceFollowsLedger'
    BY DEF AdvanceReleased, Advance, Return, GoTo, RowFollowsLedger,
           PlaceFollowsLedger, AfterBurn, TypeOK, Located, Procs
  <2>4. DeliveredFirst'
    BY DEF AdvanceReleased, Advance, Return, GoTo, DeliveredFirst, HasIssued,
           RowFollowsLedger, TypeOK, Located, Procs
  <2> QED BY <2>1, <2>2, <2>3, <2>4 DEF IInv
<1>10. CASE TakeBack(p)
  <2> USE <1>10
  <2>1. TypeOK' /\ Located'
    BY DEF TakeBack, ReleaseThen, GoTo, Return, Reserved, TypeOK, Located, SagaState,
           VoucherState, BurnState, Place, Procs, CheckoutAssumption
  <2>2. StockIsTagged' /\ NoFreeVoucher'
    BY DEF TakeBack, ReleaseThen, GoTo, Return, Reserved, StockIsTagged,
           NoFreeVoucher, PlaceFollowsLedger, AfterBurn, TypeOK, Located
  <2>3. RowFollowsLedger' /\ PlaceFollowsLedger'
    BY DEF TakeBack, ReleaseThen, GoTo, Return, Reserved, RowFollowsLedger,
           PlaceFollowsLedger, AfterBurn, TypeOK, Located, Procs
  <2>4. DeliveredFirst'
    BY DEF TakeBack, ReleaseThen, GoTo, Return, Reserved, DeliveredFirst, HasIssued,
           RowFollowsLedger, TypeOK, Located, Procs
  <2> QED BY <2>1, <2>2, <2>3, <2>4 DEF IInv
<1>11. CASE AdvanceTakenBack(p)
  <2> USE <1>11
  <2>1. TypeOK' /\ Located'
    BY DEF AdvanceTakenBack, Advance, GoTo, TypeOK, Located, SagaState, VoucherState,
           BurnState, Place, Procs, CheckoutAssumption
  <2>2. StockIsTagged' /\ NoFreeVoucher'
    BY DEF AdvanceTakenBack, Advance, GoTo, StockIsTagged, NoFreeVoucher,
           PlaceFollowsLedger, AfterBurn, TypeOK, Located
  <2>3. RowFollowsLedger' /\ PlaceFollowsLedger'
    BY DEF AdvanceTakenBack, Advance, GoTo, RowFollowsLedger, PlaceFollowsLedger,
           AfterBurn, TypeOK, Located, Procs
  <2>4. DeliveredFirst'
    BY DEF AdvanceTakenBack, Advance, GoTo, DeliveredFirst, HasIssued,
           RowFollowsLedger, TypeOK, Located, Procs
  <2> QED BY <2>1, <2>2, <2>3, <2>4 DEF IInv
<1>12. CASE ReinstateUnusable(p)
  <2> USE <1>12
  <2>1. TypeOK' /\ Located'
    BY DEF ReinstateUnusable, ReinstateThen, GoTo, Return, TypeOK, Located,
           SagaState, VoucherState, BurnState, Place, Procs, CheckoutAssumption
  <2>2. StockIsTagged' /\ NoFreeVoucher'
    BY DEF ReinstateUnusable, ReinstateThen, GoTo, Return, StockIsTagged,
           NoFreeVoucher, PlaceFollowsLedger, AfterBurn, TypeOK, Located
  <2>3. RowFollowsLedger' /\ PlaceFollowsLedger'
    BY DEF ReinstateUnusable, ReinstateThen, GoTo, Return, RowFollowsLedger,
           PlaceFollowsLedger, AfterBurn, TypeOK, Located, Procs
  <2>4. DeliveredFirst'
    BY DEF ReinstateUnusable, ReinstateThen, GoTo, Return, DeliveredFirst, HasIssued,
           RowFollowsLedger, TypeOK, Located, Procs
  <2> QED BY <2>1, <2>2, <2>3, <2>4 DEF IInv
<1>13. CASE AdvanceUnusable(p)
  <2> USE <1>13
  <2>1. TypeOK' /\ Located'
    BY DEF AdvanceUnusable, Advance, Return, GoTo, TypeOK, Located, SagaState,
           VoucherState, BurnState, Place, Procs, CheckoutAssumption
  <2>2. StockIsTagged' /\ NoFreeVoucher'
    BY DEF AdvanceUnusable, Advance, Return, GoTo, StockIsTagged, NoFreeVoucher,
           PlaceFollowsLedger, AfterBurn, TypeOK, Located
  <2>3. RowFollowsLedger' /\ PlaceFollowsLedger'
    BY DEF AdvanceUnusable, Advance, Return, GoTo, RowFollowsLedger,
           PlaceFollowsLedger, AfterBurn, TypeOK, Located, Procs
  <2>4. DeliveredFirst'
    BY DEF AdvanceUnusable, Advance, Return, GoTo, DeliveredFirst, HasIssued,
           RowFollowsLedger, TypeOK, Located, Procs
  <2> QED BY <2>1, <2>2, <2>3, <2>4 DEF IInv
<1>14. CASE CheckBalance(p)
  <2> USE <1>14
  <2>1. TypeOK' /\ Located'
    BY DEF CheckBalance, GoTo, Return, TypeOK, Located, SagaState, VoucherState,
           BurnState, Place, Procs, CheckoutAssumption
  <2>2. StockIsTagged' /\ NoFreeVoucher'
    BY DEF CheckBalance, GoTo, Return, StockIsTagged, NoFreeVoucher,
           PlaceFollowsLedger, AfterBurn, TypeOK, Located
  <2>3. RowFollowsLedger' /\ PlaceFollowsLedger'
    BY DEF CheckBalance, GoTo, Return, RowFollowsLedger, PlaceFollowsLedger,
           AfterBurn, TypeOK, Located, Procs
  <2>4. DeliveredFirst'
    BY DEF CheckBalance, GoTo, Return, DeliveredFirst, HasIssued, RowFollowsLedger,
           TypeOK, Located, Procs
  <2> QED BY <2>1, <2>2, <2>3, <2>4 DEF IInv
<1> QED BY <1>1, <1>2, <1>3, <1>4, <1>5, <1>6, <1>7, <1>8, <1>9, <1>10, <1>11, <1>12,
           <1>13, <1>14 DEF RunSaga

(* A step of a dispute. *)
LEMMA SettleDisputeStep ==
  ASSUME CheckoutAssumption, IInv, NEW p \in Procs, SettleDispute(p)
  PROVE  IInv'
<1> SUFFICES ASSUME TypeOK, Located, StockIsTagged, NoFreeVoucher,
                     RowFollowsLedger, PlaceFollowsLedger, DeliveredFirst
             PROVE  IInv'
  BY DEF IInv
<1>1. CASE VoidVoucher(p)
  <2> USE <1>1
  <2>1. TypeOK' /\ Located'
    BY DEF VoidVoucher, GoTo, Return, OwnedBy, TypeOK, Located, SagaState,
           VoucherState, BurnState, Place, Procs, CheckoutAssumption
  <2>2. StockIsTagged' /\ NoFreeVoucher'
    BY DEF VoidVoucher, GoTo, Return, OwnedBy, StockIsTagged, NoFreeVoucher,
           PlaceFollowsLedger, AfterBurn, TypeOK, Located
  <2>3. RowFollowsLedger' /\ PlaceFollowsLedger'
    BY DEF VoidVoucher, GoTo, Return, OwnedBy, RowFollowsLedger, PlaceFollowsLedger,
           AfterBurn, TypeOK, Located, Procs
  <2>4. DeliveredFirst'
    BY DEF VoidVoucher, GoTo, Return, OwnedBy, DeliveredFirst, HasIssued,
           RowFollowsLedger, TypeOK, Located, Procs
  <2> QED BY <2>1, <2>2, <2>3, <2>4 DEF IInv
<1>2. CASE ReinstateDisputed(p)
  <2> USE <1>2
  <2>1. TypeOK' /\ Located'
    BY DEF ReinstateDisputed, ReinstateThen, GoTo, Return, TypeOK, Located,
           SagaState, VoucherState, BurnState, Place, Procs, CheckoutAssumption
  <2>2. StockIsTagged' /\ NoFreeVoucher'
    BY DEF ReinstateDisputed, ReinstateThen, GoTo, Return, StockIsTagged,
           NoFreeVoucher, PlaceFollowsLedger, AfterBurn, TypeOK, Located
  <2>3. RowFollowsLedger' /\ PlaceFollowsLedger'
    BY DEF ReinstateDisputed, ReinstateThen, GoTo, Return, RowFollowsLedger,
           PlaceFollowsLedger, AfterBurn, TypeOK, Located, Procs
  <2>4. DeliveredFirst'
    BY DEF ReinstateDisputed, ReinstateThen, GoTo, Return, DeliveredFirst, HasIssued,
           RowFollowsLedger, TypeOK, Located, Procs
  <2> QED BY <2>1, <2>2, <2>3, <2>4 DEF IInv
<1>3. CASE AdvanceVoided(p)
  <2> USE <1>3
  <2>1. TypeOK' /\ Located'
    BY DEF AdvanceVoided, Advance, Return, GoTo, TypeOK, Located, SagaState,
           VoucherState, BurnState, Place, Procs, CheckoutAssumption
  <2>2. StockIsTagged' /\ NoFreeVoucher'
    BY DEF AdvanceVoided, Advance, Return, GoTo, StockIsTagged, NoFreeVoucher,
           PlaceFollowsLedger, AfterBurn, TypeOK, Located
  <2>3. RowFollowsLedger' /\ PlaceFollowsLedger'
    BY DEF AdvanceVoided, Advance, Return, GoTo, RowFollowsLedger,
           PlaceFollowsLedger, AfterBurn, TypeOK, Located, Procs
  <2>4. DeliveredFirst'
    BY DEF AdvanceVoided, Advance, Return, GoTo, DeliveredFirst, HasIssued,
           RowFollowsLedger, TypeOK, Located, Procs
  <2> QED BY <2>1, <2>2, <2>3, <2>4 DEF IInv
<1>4. CASE VoidActive(p)
  <2> USE <1>4
  <2>1. TypeOK' /\ Located'
    BY DEF VoidActive, GoTo, Return, TypeOK, Located, SagaState,
           VoucherState, BurnState, Place, Procs, CheckoutAssumption
  <2>2. StockIsTagged' /\ NoFreeVoucher'
    BY DEF VoidActive, GoTo, Return, StockIsTagged, NoFreeVoucher,
           PlaceFollowsLedger, AfterBurn, TypeOK, Located
  <2>3. RowFollowsLedger' /\ PlaceFollowsLedger'
    BY DEF VoidActive, GoTo, Return, RowFollowsLedger, PlaceFollowsLedger,
           AfterBurn, TypeOK, Located, Procs
  <2>4. DeliveredFirst'
    BY DEF VoidActive, GoTo, Return, DeliveredFirst, HasIssued,
           RowFollowsLedger, TypeOK, Located, Procs
  <2> QED BY <2>1, <2>2, <2>3, <2>4 DEF IInv
<1> QED BY <1>1, <1>2, <1>3, <1>4 DEF SettleDispute

(* A confirm, up to its first call. *)
LEMMA ConfirmStep ==
  ASSUME CheckoutAssumption, IInv, NEW p \in Requests, NEW s \in Sagas, Confirm(p, s)
  PROVE  IInv'
<1> USE DEF IInv
<1>1. TypeOK' /\ Located'
  BY DEF Confirm, StartAt, Branch, TypeOK, Located, SagaState, VoucherState,
         BurnState, Place, Procs, CheckoutAssumption
<1>2. StockIsTagged' /\ NoFreeVoucher'
  BY DEF Confirm, StartAt, Branch, StockIsTagged, NoFreeVoucher, PlaceFollowsLedger,
         AfterBurn, TypeOK, Located
<1>3. RowFollowsLedger' /\ PlaceFollowsLedger'
  BY DEF Confirm, StartAt, Branch, RowFollowsLedger, PlaceFollowsLedger, AfterBurn,
         TypeOK, Located, Procs
<1>4. DeliveredFirst'
  BY DEF Confirm, StartAt, Branch, DeliveredFirst, HasIssued, RowFollowsLedger,
         TypeOK, Located, Procs
<1> QED BY <1>1, <1>2, <1>3, <1>4 DEF IInv

(* The start of a dispute. *)
LEMMA DisputeStep ==
  ASSUME CheckoutAssumption, IInv, NEW p \in Requests, NEW s \in Sagas, Dispute(p, s)
  PROVE  IInv'
<1> USE DEF IInv
<1>1. TypeOK' /\ Located'
  BY DEF Dispute, StartAt, TypeOK, Located, SagaState, VoucherState, BurnState,
         Place, Procs, CheckoutAssumption
<1>2. StockIsTagged' /\ NoFreeVoucher'
  BY DEF Dispute, StartAt, StockIsTagged, NoFreeVoucher, PlaceFollowsLedger,
         AfterBurn, TypeOK, Located
<1>3. RowFollowsLedger' /\ PlaceFollowsLedger'
  BY DEF Dispute, StartAt, RowFollowsLedger, PlaceFollowsLedger, AfterBurn, TypeOK,
         Located, Procs
<1>4. DeliveredFirst'
  BY DEF Dispute, StartAt, DeliveredFirst, HasIssued, RowFollowsLedger, TypeOK,
         Located, Procs
<1> QED BY <1>1, <1>2, <1>3, <1>4 DEF IInv

(* Recovery takes up a row. *)
LEMMA RecoverStep ==
  ASSUME CheckoutAssumption, IInv, NEW s \in Sagas, Recover(s)
  PROVE  IInv'
<1> USE DEF IInv
<1>1. TypeOK' /\ Located'
  BY DEF Recover, StartAt, TypeOK, Located, SagaState, VoucherState, BurnState,
         Place, Procs, CheckoutAssumption
<1>2. StockIsTagged' /\ NoFreeVoucher'
  BY DEF Recover, StartAt, StockIsTagged, NoFreeVoucher, PlaceFollowsLedger,
         AfterBurn, TypeOK, Located
<1>3. RowFollowsLedger' /\ PlaceFollowsLedger'
  BY DEF Recover, StartAt, RowFollowsLedger, PlaceFollowsLedger, AfterBurn, TypeOK,
         Located, Procs
<1>4. DeliveredFirst'
  BY DEF Recover, StartAt, DeliveredFirst, HasIssued, RowFollowsLedger, TypeOK,
         Located, Procs
<1> QED BY <1>1, <1>2, <1>3, <1>4 DEF IInv

(* Recovery reads the ledger's burn record. *)
LEMMA AskLedgerStep ==
  ASSUME CheckoutAssumption, IInv, NEW p \in Procs, AskLedger(p)
  PROVE  IInv'
<1> USE DEF IInv
<1>1. TypeOK' /\ Located'
  BY DEF AskLedger, GoTo, TypeOK, Located, SagaState, VoucherState, BurnState, Place,
         Procs, CheckoutAssumption
<1>2. StockIsTagged' /\ NoFreeVoucher'
  BY DEF AskLedger, GoTo, StockIsTagged, NoFreeVoucher, PlaceFollowsLedger,
         AfterBurn, TypeOK, Located
<1>3. RowFollowsLedger' /\ PlaceFollowsLedger'
  BY DEF AskLedger, GoTo, RowFollowsLedger, PlaceFollowsLedger, AfterBurn, TypeOK,
         Located, Procs
<1>4. DeliveredFirst'
  BY DEF AskLedger, GoTo, DeliveredFirst, HasIssued, RowFollowsLedger, TypeOK,
         Located, Procs
<1> QED BY <1>1, <1>2, <1>3, <1>4 DEF IInv

(* A call fails or its process dies. *)
LEMMA CrashStep ==
  ASSUME CheckoutAssumption, IInv, NEW p \in Procs, Crash(p)
  PROVE  IInv'
<1> USE DEF IInv
<1>1. TypeOK' /\ Located'
  BY DEF Crash, Return, GoTo, TypeOK, Located, SagaState, VoucherState, BurnState,
         Place, Procs, CheckoutAssumption
<1>2. StockIsTagged' /\ NoFreeVoucher'
  BY DEF Crash, Return, GoTo, StockIsTagged, NoFreeVoucher, PlaceFollowsLedger,
         AfterBurn, TypeOK, Located
<1>3. RowFollowsLedger' /\ PlaceFollowsLedger'
  BY DEF Crash, Return, GoTo, RowFollowsLedger, PlaceFollowsLedger, AfterBurn,
         TypeOK, Located, Procs
<1>4. DeliveredFirst'
  BY DEF Crash, Return, GoTo, DeliveredFirst, HasIssued, RowFollowsLedger, TypeOK,
         Located, Procs
<1> QED BY <1>1, <1>2, <1>3, <1>4 DEF IInv

(* A quote lapses. *)
LEMMA QuoteLapsesStep ==
  ASSUME CheckoutAssumption, IInv, NEW s \in Sagas, QuoteLapses(s)
  PROVE  IInv'
<1> USE DEF IInv
<1>1. TypeOK' /\ Located'
  BY DEF QuoteLapses, TypeOK, Located, SagaState, VoucherState, BurnState, Place,
         Procs, CheckoutAssumption
<1>2. StockIsTagged' /\ NoFreeVoucher'
  BY DEF QuoteLapses, StockIsTagged, NoFreeVoucher, PlaceFollowsLedger, AfterBurn,
         TypeOK, Located
<1>3. RowFollowsLedger' /\ PlaceFollowsLedger'
  BY DEF QuoteLapses, RowFollowsLedger, PlaceFollowsLedger, AfterBurn, TypeOK,
         Located, Procs
<1>4. DeliveredFirst'
  BY DEF QuoteLapses, DeliveredFirst, HasIssued, RowFollowsLedger, TypeOK, Located,
         Procs
<1> QED BY <1>1, <1>2, <1>3, <1>4 DEF IInv

(* A reservation lapses. *)
LEMMA ReservationLapsesStep ==
  ASSUME CheckoutAssumption, IInv, NEW s \in Sagas, ReservationLapses(s)
  PROVE  IInv'
<1> USE DEF IInv
<1>1. TypeOK' /\ Located'
  BY DEF ReservationLapses, TypeOK, Located, SagaState, VoucherState, BurnState,
         Place, Procs, CheckoutAssumption
<1>2. StockIsTagged' /\ NoFreeVoucher'
  BY DEF ReservationLapses, StockIsTagged, NoFreeVoucher, PlaceFollowsLedger,
         AfterBurn, TypeOK, Located
<1>3. RowFollowsLedger' /\ PlaceFollowsLedger'
  BY DEF ReservationLapses, RowFollowsLedger, PlaceFollowsLedger, AfterBurn, TypeOK,
         Located, Procs
<1>4. DeliveredFirst'
  BY DEF ReservationLapses, DeliveredFirst, HasIssued, RowFollowsLedger, TypeOK,
         Located, Procs
<1> QED BY <1>1, <1>2, <1>3, <1>4 DEF IInv

(* A voucher is held, redeemed or given back. *)
LEMMA AtMerchantStep ==
  ASSUME CheckoutAssumption, IInv, NEW v \in Vouchers, AtMerchant(v)
  PROVE  IInv'
<1> USE DEF IInv
<1>1. TypeOK' /\ Located'
  BY DEF AtMerchant, TypeOK, Located, SagaState, VoucherState, BurnState, Place,
         Procs, CheckoutAssumption
<1>2. StockIsTagged' /\ NoFreeVoucher'
  BY DEF AtMerchant, StockIsTagged, NoFreeVoucher, PlaceFollowsLedger, AfterBurn,
         TypeOK, Located
<1>3. RowFollowsLedger' /\ PlaceFollowsLedger'
  BY DEF AtMerchant, RowFollowsLedger, PlaceFollowsLedger, AfterBurn, TypeOK,
         Located, Procs
<1>4. DeliveredFirst'
  BY DEF AtMerchant, DeliveredFirst, HasIssued, RowFollowsLedger, TypeOK, Located,
         Procs
<1> QED BY <1>1, <1>2, <1>3, <1>4 DEF IInv

(* Every initial state satisfies the inductive invariant. *)
LEMMA InitIInv == CheckoutAssumption /\ Init => IInv
BY DEF CheckoutAssumption, Init, IInv, TypeOK, Located, StockIsTagged, NoFreeVoucher,
       RowFollowsLedger, PlaceFollowsLedger, DeliveredFirst, AfterBurn, Procs,
       SagaState, VoucherState, BurnState, Place

(* Every step, and every stutter, keeps it. *)
LEMMA NextIInv == CheckoutAssumption /\ IInv /\ [Next]_vars => IInv'
<1> SUFFICES ASSUME CheckoutAssumption, IInv, [Next]_vars
             PROVE  IInv'
  OBVIOUS
<1>1. CASE UNCHANGED vars
  BY <1>1 DEF vars, IInv, TypeOK, Located, StockIsTagged, NoFreeVoucher, RowFollowsLedger,
              PlaceFollowsLedger, DeliveredFirst, HasIssued
<1>2. ASSUME NEW p \in Procs, RunSaga(p) \/ SettleDispute(p) \/ AskLedger(p) \/ Crash(p)
      PROVE  IInv'
  BY <1>2, RunSagaStep, SettleDisputeStep, AskLedgerStep, CrashStep
<1>3. ASSUME NEW p \in Requests, NEW s \in Sagas, Confirm(p, s) \/ Dispute(p, s)
      PROVE  IInv'
  BY <1>3, ConfirmStep, DisputeStep
<1>4. ASSUME NEW s \in Sagas, Recover(s) \/ QuoteLapses(s) \/ ReservationLapses(s)
      PROVE  IInv'
  BY <1>4, RecoverStep, QuoteLapsesStep, ReservationLapsesStep
<1>5. ASSUME NEW v \in Vouchers, AtMerchant(v)
      PROVE  IInv'
  BY <1>5, AtMerchantStep
<1> QED BY <1>1, <1>2, <1>3, <1>4, <1>5 DEF Next

(* In every reachable state of every instance the inductive invariant holds. *)
THEOREM Invariance == Spec => []IInv
<1>1. Init => IInv
  BY InitIInv, CheckoutAssumption
<1>2. IInv /\ [Next]_vars => IInv'
  BY NextIInv, CheckoutAssumption
<1> QED BY <1>1, <1>2, PTL DEF Spec

(* Type correctness of the saga rows, the services' tables and the processes. *)
THEOREM TypeCorrect == Spec => []TypeOK
<1>1. IInv => TypeOK
  BY DEF IInv
<1> QED BY <1>1, Invariance, PTL

(* A voucher in a wallet, at a merchant or voided was paid for: activate never *)
(* overtakes the burn, however requests, recovery and failures interleave.     *)
THEOREM NoVoucherIsFree == Spec => []NoFreeVoucher
<1>1. IInv => NoFreeVoucher
  BY DEF IInv
<1> QED BY <1>1, Invariance, PTL

(* The saga row never claims a burn or a return the ledger does not hold. *)
THEOREM RowNeverAhead == Spec => []RowFollowsLedger
<1>1. IInv => RowFollowsLedger
  BY DEF IInv
<1> QED BY <1>1, Invariance, PTL

-------------------------------------------------------------------------------
(* Refinement.  A step that leaves the ledger alone and issues no voucher is  *)
(* invisible to the buyer.                                                    *)
LEMMA Quiet ==
  ASSUME UNCHANGED ledger, \A s \in Sagas : HasIssued(s)' <=> HasIssued(s)
  PROVE  UNCHANGED <<Phase, points>>
BY DEF Phase

(* burnForVoucher is the promise's Pay, a replay or a refusal of it invisible. *)
LEMMA BurnPays ==
  ASSUME CheckoutAssumption, IInv, NEW p \in Procs, Burn(p)
  PROVE  [Promise!Next]_<<Phase, points>>
<1> DEFINE s == at[p]
<1>1. s \in Sagas /\ Buyer[s] \in Users /\ TypeOK
  BY DEF CheckoutAssumption, IInv, Located, TypeOK, Burn
<1>2. CASE UNCHANGED ledger
  <2>1. UNCHANGED vouchers
    BY DEF Burn
  <2>2. \A r \in Sagas : HasIssued(r)' <=> HasIssued(r)
    BY <2>1 DEF HasIssued
  <2> QED BY <1>2, <2>2, Quiet
<1>3. CASE ~ UNCHANGED ledger
  <2>1. /\ burn[s] = "none" /\ points[Buyer[s]] >= Price[s]
        /\ burn'   = [burn EXCEPT ![s] = "burned"]
        /\ points' = [points EXCEPT ![Buyer[s]] = @ - Price[s]]
        /\ UNCHANGED vouchers
    BY <1>3 DEF Burn
  <2>2. \A v \in Vouchers : vsaga[v] = s => vstate[v] \notin {"active", "taken", "voided"}
    BY <2>1 DEF IInv, NoFreeVoucher
  <2>3. ~ HasIssued(s) /\ \A r \in Sagas : HasIssued(r)' <=> HasIssued(r)
    BY <2>1, <2>2 DEF HasIssued
  <2>4. Phase[s] = "open"
    BY <1>1, <2>1 DEF Phase
  <2>5. Phase' = [Phase EXCEPT ![s] = "paid"]
    BY <1>1, <2>1, <2>3 DEF Phase, TypeOK
  <2>6. Promise!Pay(s)
    BY <2>1, <2>4, <2>5 DEF Promise!Pay
  <2> QED BY <1>1, <2>6 DEF Promise!Next
<1> QED BY <1>2, <1>3

(* activate is Deliver the first time and invisible after that. *)
LEMMA ActivateDelivers ==
  ASSUME CheckoutAssumption, IInv, NEW p \in Procs, Activate(p)
  PROVE  [Promise!Next]_<<Phase, points>>
<1>0. PICK s \in Sagas : s = at[p]
  BY DEF IInv, Located, Activate
<1>1. burn[s] # "none" /\ TypeOK /\ UNCHANGED ledger
  BY <1>0 DEF IInv, PlaceFollowsLedger, AfterBurn, Activate
<1>2. CASE UNCHANGED vstate
  <2>1. \A r \in Sagas : HasIssued(r)' <=> HasIssued(r)
    BY <1>2 DEF HasIssued, Activate
  <2> QED BY <1>1, <2>1, Quiet
<1>3. CASE ~ UNCHANGED vstate
  <2>1. PICK v \in Reserved(s) : vstate' = [vstate EXCEPT ![v] = "active"]
    BY <1>0, <1>3 DEF Activate
  <2>2. vsaga' = vsaga /\ v \in Vouchers /\ vsaga[v] = s /\ vstate[v] = "allocated"
    BY <2>1 DEF Activate, Reserved
  <2>3. HasIssued(s)' /\ \A r \in Sagas \ {s} : HasIssued(r)' <=> HasIssued(r)
    BY <2>1, <2>2, <1>1 DEF HasIssued, TypeOK
  <2>4. CASE HasIssued(s) \/ burn[s] = "reinstated"
    <3>1. UNCHANGED <<Phase, points>>
      BY <1>1, <2>3, <2>4 DEF Phase
    <3> QED BY <3>1
  <2>5. CASE ~ HasIssued(s) /\ burn[s] # "reinstated"
    <3>1. Phase[s] = "paid"
      BY <1>1, <2>5 DEF Phase
    <3>2. Phase' = [Phase EXCEPT ![s] = "delivered"]
      BY <1>1, <2>3, <2>5 DEF Phase, TypeOK
    <3>3. Promise!Deliver(s)
      BY <1>1, <3>1, <3>2 DEF Promise!Deliver
    <3> QED BY <1>1, <3>3 DEF Promise!Next
  <2> QED BY <2>4, <2>5
<1> QED BY <1>2, <1>3

(* reinstateBurn is Return the first time and invisible after that. *)
LEMMA ReinstateReturns ==
  ASSUME CheckoutAssumption, IInv, NEW p \in Procs, ReinstateUnusable(p) \/ ReinstateDisputed(p)
  PROVE  [Promise!Next]_<<Phase, points>>
<1> DEFINE s == at[p]
<1>1. s \in Sagas /\ TypeOK /\ UNCHANGED vouchers
  BY DEF IInv, Located, ReinstateUnusable, ReinstateDisputed, ReinstateThen
<1>2. \A r \in Sagas : HasIssued(r)' <=> HasIssued(r)
  BY <1>1 DEF HasIssued
<1>3. CASE UNCHANGED ledger
  BY <1>2, <1>3, Quiet
<1>4. CASE ~ UNCHANGED ledger
  <2>1. /\ burn[s] = "burned"
        /\ burn'   = [burn EXCEPT ![s] = "reinstated"]
        /\ points' = [points EXCEPT ![Buyer[s]] = @ + Price[s]]
    BY <1>4 DEF ReinstateUnusable, ReinstateDisputed, ReinstateThen
  <2>2. HasIssued(s) \/ MayRefuseActivation
    BY <2>1 DEF IInv, DeliveredFirst, ReinstateUnusable, ReinstateDisputed, ReinstateThen
  <2>3. Phase[s] = "delivered" \/ (MayRefuseActivation /\ Phase[s] = "paid")
    BY <1>1, <2>1, <2>2 DEF Phase
  <2>4. Phase' = [Phase EXCEPT ![s] = "returned"]
    BY <1>1, <1>2, <2>1 DEF Phase, TypeOK
  <2>5. Promise!Return(s)
    BY <2>1, <2>3, <2>4 DEF Promise!Return
  <2> QED BY <1>1, <2>5 DEF Promise!Next
<1> QED BY <1>3, <1>4

(* Every other step of the system. *)
LEMMA OthersAreQuiet ==
  ASSUME CheckoutAssumption, IInv, [Next]_vars,
         \A p \in Procs : ~ (Burn(p) \/ Activate(p) \/ ReinstateUnusable(p) \/ ReinstateDisputed(p))
  PROVE  UNCHANGED <<Phase, points>>
<1>1. TypeOK
  BY DEF IInv
<1>2. UNCHANGED ledger /\ \A s \in Sagas : HasIssued(s)' <=> HasIssued(s)
  <2>1. ASSUME UNCHANGED <<ledger, vouchers>>
        PROVE  UNCHANGED ledger /\ \A s \in Sagas : HasIssued(s)' <=> HasIssued(s)
    BY <2>1 DEF HasIssued
  <2>2. ASSUME NEW p \in Procs, ReserveClaims(p)
        PROVE  UNCHANGED ledger /\ \A s \in Sagas : HasIssued(s)' <=> HasIssued(s)
    BY <1>1, <2>2 DEF ReserveClaims, Return, GoTo, HasIssued, TypeOK
  <2>3. ASSUME NEW p \in Procs, Release(p) \/ TakeBack(p)
        PROVE  UNCHANGED ledger /\ \A s \in Sagas : HasIssued(s)' <=> HasIssued(s)
    BY <1>1, <2>3 DEF Release, TakeBack, ReleaseThen, Reserved, HasIssued, TypeOK
  <2>4. ASSUME NEW p \in Procs, VoidActive(p)
        PROVE  UNCHANGED ledger /\ \A s \in Sagas : HasIssued(s)' <=> HasIssued(s)
    BY <1>1, <2>4 DEF VoidActive, HasIssued, TypeOK
  <2>5. ASSUME NEW v \in Vouchers, AtMerchant(v)
        PROVE  UNCHANGED ledger /\ \A s \in Sagas : HasIssued(s)' <=> HasIssued(s)
    BY <1>1, <2>5 DEF AtMerchant, HasIssued, TypeOK
  <2>6. \/ UNCHANGED <<ledger, vouchers>>
        \/ \E p \in Procs : ReserveClaims(p) \/ Release(p) \/ TakeBack(p) \/ VoidActive(p)
        \/ \E v \in Vouchers : AtMerchant(v)
    BY DEF Next, vars, RunSaga, SettleDispute, Confirm, Dispute, Recover, QuoteLapses,
           ReservationLapses, AskLedger, Crash, CheckBalance, VoidVoucher, ReserveLooks, AdvanceReserved, AdvanceBurned,
           AdvanceDone, AdvanceReleased, AdvanceTakenBack, AdvanceUnusable, AdvanceVoided
  <2> QED BY <2>1, <2>2, <2>3, <2>4, <2>5, <2>6
<1> QED BY <1>2, Quiet

(* The detailed saga, with its races and failures, implements the promise: a  *)
(* price is taken once and from points that exist, a voucher follows a price, *)
(* and a price comes back whole and at most once.                             *)
THEOREM Refinement == Spec => KeepsPromise
<1>1. Init => Promise!Init
  BY DEF Init, Promise!Init, Phase
<1>2. IInv /\ [Next]_vars => [Promise!Next]_<<Phase, points>>
  <2> SUFFICES ASSUME IInv, [Next]_vars
               PROVE  [Promise!Next]_<<Phase, points>>
    OBVIOUS
  <2> QED BY CheckoutAssumption, BurnPays, ActivateDelivers, ReinstateReturns, OthersAreQuiet
<1> QED BY <1>1, <1>2, Invariance, PTL DEF Spec, KeepsPromise, Promise!Spec
-------------------------------------------------------------------------------
(* A checkout that is quoted is at its start: what comes after the reservation  *)
(* runs, and burns, for a row that has left that state, which is never written  *)
(* again.                                                                      *)
Early == {"check_balance", "reserve", "claim", "advance_reserved"}

NotQuoted ==
    /\ \A p \in Procs : pc[p] \notin Early \cup {"idle"} => state[at[p]] # "quoted"
    /\ \A s \in Sagas : burn[s] # "none" => state[s] # "quoted"

LEMMA NotQuotedSteps ==
  ASSUME CheckoutAssumption, IInv, NotQuoted, [Next]_vars
  PROVE  NotQuoted'
<1> USE DEF IInv, TypeOK, Located, NotQuoted, Early, Procs
<1>1. ASSUME NEW p \in Procs, RunSaga(p) \/ SettleDispute(p) \/ AskLedger(p) \/ Crash(p)
      PROVE  NotQuoted'
  <2>1. CASE CheckBalance(p)
    BY <2>1 DEF CheckBalance, GoTo, Return
  <2>2. CASE ReserveLooks(p)
    BY <2>2 DEF ReserveLooks, GoTo, Reserved
  <2>3. CASE ReserveClaims(p)
    BY <2>3 DEF ReserveClaims, GoTo, Return
  <2>4. CASE AdvanceReserved(p)
    BY <2>4 DEF AdvanceReserved, Advance, GoTo, Branch
  <2>5. CASE Burn(p)
    BY <2>5 DEF Burn, GoTo
  <2>6. CASE AdvanceBurned(p)
    BY <2>6 DEF AdvanceBurned, Advance, GoTo, Branch
  <2>7. CASE Activate(p)
    BY <2>7 DEF Activate, GoTo, Return, Reserved
  <2>8. CASE AdvanceDone(p)
    BY <2>8 DEF AdvanceDone, Advance, GoTo, Return
  <2>9. CASE Release(p)
    BY <2>9 DEF Release, ReleaseThen, GoTo, Return, Reserved
  <2>10. CASE AdvanceReleased(p)
    BY <2>10 DEF AdvanceReleased, Advance, GoTo, Return
  <2>11. CASE TakeBack(p)
    BY <2>11 DEF TakeBack, ReleaseThen, GoTo, Return, Reserved
  <2>12. CASE AdvanceTakenBack(p)
    BY <2>12 DEF AdvanceTakenBack, Advance, GoTo, Return
  <2>13. CASE ReinstateUnusable(p)
    BY <2>13 DEF ReinstateUnusable, ReinstateThen, GoTo, Return
  <2>14. CASE AdvanceUnusable(p)
    BY <2>14 DEF AdvanceUnusable, Advance, GoTo, Return
  <2>15. CASE VoidVoucher(p)
    BY <2>15 DEF VoidVoucher, GoTo, Return
  <2>16. CASE VoidActive(p)
    BY <2>16 DEF VoidActive, GoTo, Return
  <2>17. CASE ReinstateDisputed(p)
    BY <2>17 DEF ReinstateDisputed, ReinstateThen, GoTo, Return
  <2>18. CASE AdvanceVoided(p)
    BY <2>18 DEF AdvanceVoided, Advance, GoTo, Return
  <2>19. CASE AskLedger(p)
    BY <2>19 DEF AskLedger, GoTo
  <2>20. CASE Crash(p)
    BY <2>20 DEF Crash, GoTo, Return
  <2> QED BY <1>1, <2>1, <2>2, <2>3, <2>4, <2>5, <2>6, <2>7, <2>8, <2>9, <2>10, <2>11, <2>12,
             <2>13, <2>14, <2>15, <2>16, <2>17, <2>18, <2>19, <2>20 DEF RunSaga, SettleDispute
<1>2. ASSUME NEW p \in Requests, NEW s \in Sagas, Confirm(p, s) \/ Dispute(p, s)
      PROVE  NotQuoted'
  <2>1. CASE Confirm(p, s)
    BY <2>1 DEF Confirm, StartAt, Branch
  <2>2. CASE Dispute(p, s)
    BY <2>2 DEF Dispute, StartAt
  <2> QED BY <1>2, <2>1, <2>2
<1>3. ASSUME NEW s \in Sagas, Recover(s) PROVE NotQuoted'
  BY <1>3 DEF Recover, StartAt
<1>4. ASSUME NEW s \in Sagas, QuoteLapses(s) \/ ReservationLapses(s) PROVE NotQuoted'
  BY <1>4 DEF QuoteLapses, ReservationLapses
<1>5. ASSUME NEW v \in Vouchers, AtMerchant(v) PROVE NotQuoted'
  BY <1>5 DEF AtMerchant
<1>6. CASE UNCHANGED vars
  BY <1>6 DEF vars
<1> QED BY <1>1, <1>2, <1>3, <1>4, <1>5, <1>6 DEF Next

(* The disputed voucher is voided before the points are returned, and nothing   *)
(* brings a voided voucher back.                                               *)
Void(s) == voucherOf[s] # None /\ vstate[voucherOf[s]] = "voided"

Returned ==
    /\ ReturnedOnlyAfterVoid
    /\ \A p \in Procs :
          /\ pc[p] \in {"void", "void_active"} => voucherOf[at[p]] # None
          /\ pc[p] = "reinstate" => Void(at[p])

LEMMA ReturnedSteps ==
  ASSUME CheckoutAssumption, ~MayRefuseActivation, IInv, NotQuoted, Returned, [Next]_vars
  PROVE  Returned'
<1> USE DEF IInv, TypeOK, Located, DeliveredFirst, RowFollowsLedger, NotQuoted, Early,
            Returned, ReturnedOnlyAfterVoid, Void
<1>1. ASSUME NEW p \in Procs, RunSaga(p) \/ SettleDispute(p) \/ AskLedger(p) \/ Crash(p)
      PROVE  Returned'
  <2>1. CASE CheckBalance(p)
    BY <2>1 DEF CheckBalance, GoTo, Return
  <2>2. CASE ReserveLooks(p)
    BY <2>2 DEF ReserveLooks, GoTo, Reserved
  <2>3. CASE ReserveClaims(p)
    BY <2>3 DEF ReserveClaims, GoTo, Return
  <2>4. CASE AdvanceReserved(p)
    BY <2>4 DEF AdvanceReserved, Advance, GoTo, Branch
  <2>5. CASE Burn(p)
    BY <2>5 DEF Burn, GoTo
  <2>6. CASE AdvanceBurned(p)
    BY <2>6 DEF AdvanceBurned, Advance, GoTo, Branch
  <2>7. CASE Activate(p)
    BY <2>7 DEF Activate, GoTo, Return, Reserved
  <2>8. CASE AdvanceDone(p)
    BY <2>8 DEF AdvanceDone, Advance, GoTo, Return
  <2>9. CASE Release(p)
    BY <2>9 DEF Release, ReleaseThen, GoTo, Return, Reserved
  <2>10. CASE AdvanceReleased(p)
    BY <2>10 DEF AdvanceReleased, Advance, GoTo, Return
  <2>11. CASE TakeBack(p)
    BY <2>11 DEF TakeBack, ReleaseThen, GoTo, Return, Reserved
  <2>12. CASE AdvanceTakenBack(p)
    BY <2>12 DEF AdvanceTakenBack, Advance, GoTo, Return
  <2>13. CASE ReinstateUnusable(p)
    BY <2>13 DEF ReinstateUnusable, ReinstateThen, GoTo, Return
  <2>14. CASE AdvanceUnusable(p)
    BY <2>14 DEF AdvanceUnusable, Advance, GoTo, Return
  <2>15. CASE VoidVoucher(p)
    BY <2>15 DEF VoidVoucher, GoTo, Return
  <2>16. CASE VoidActive(p)
    BY <2>16 DEF VoidActive, GoTo, Return
  <2>17. CASE ReinstateDisputed(p)
    BY <2>17 DEF ReinstateDisputed, ReinstateThen, GoTo, Return
  <2>18. CASE AdvanceVoided(p)
    BY <2>18 DEF AdvanceVoided, Advance, GoTo, Return
  <2>19. CASE AskLedger(p)
    BY <2>19 DEF AskLedger, GoTo
  <2>20. CASE Crash(p)
    BY <2>20 DEF Crash, GoTo, Return
  <2> QED BY <1>1, <2>1, <2>2, <2>3, <2>4, <2>5, <2>6, <2>7, <2>8, <2>9, <2>10, <2>11, <2>12,
             <2>13, <2>14, <2>15, <2>16, <2>17, <2>18, <2>19, <2>20 DEF RunSaga, SettleDispute
<1>2. ASSUME NEW p \in Requests, NEW s \in Sagas, Confirm(p, s) \/ Dispute(p, s)
      PROVE  Returned'
  <2>1. CASE Confirm(p, s)
    BY <2>1 DEF Confirm, StartAt, Branch
  <2>2. CASE Dispute(p, s)
    BY <2>2 DEF Dispute, StartAt
  <2> QED BY <1>2, <2>1, <2>2
<1>3. ASSUME NEW s \in Sagas, Recover(s) PROVE Returned'
  BY <1>3 DEF Recover, StartAt
<1>4. ASSUME NEW s \in Sagas, QuoteLapses(s) \/ ReservationLapses(s) PROVE Returned'
  BY <1>4 DEF QuoteLapses, ReservationLapses
<1>5. ASSUME NEW v \in Vouchers, AtMerchant(v) PROVE Returned'
  BY <1>5 DEF AtMerchant
<1>6. CASE UNCHANGED vars
  BY <1>6 DEF vars
<1> QED BY <1>1, <1>2, <1>3, <1>4, <1>5, <1>6 DEF Next

(* The vouchers a checkout has out of stock.                                   *)
Out(s) == {v \in Vouchers : vsaga[v] = s /\ vstate[v] # "minted"}

(* The one request claims a voucher when the checkout has none.                *)
Single ==
    /\ \A s \in Sagas : \A v, w \in Out(s) : v = w
    /\ \A p \in Procs : pc[p] \in Early => p \in Requests /\ state[at[p]] = "quoted"
    /\ \A p \in Procs : pc[p] = "claim" => Out(at[p]) = {}

OneRequest == \A p, q \in Requests : p = q

LEMMA SingleSteps ==
  ASSUME CheckoutAssumption, OneRequest, IInv, NotQuoted, Single, [Next]_vars
  PROVE  Single'
<1> USE DEF IInv, TypeOK, VoucherState, Located, NoFreeVoucher, NotQuoted, Early,
            Single, Out, OneRequest, Procs
<1>1. ASSUME NEW p \in Procs, RunSaga(p) \/ SettleDispute(p) \/ AskLedger(p) \/ Crash(p)
      PROVE  Single'
  <2>1. CASE CheckBalance(p)
    BY <2>1 DEF CheckBalance, GoTo, Return
  <2>2. CASE ReserveLooks(p)
    BY <2>2 DEF ReserveLooks, GoTo, Reserved
  <2>3. CASE ReserveClaims(p)
    BY <2>3 DEF ReserveClaims, GoTo, Return
  <2>4. CASE AdvanceReserved(p)
    BY <2>4 DEF AdvanceReserved, Advance, GoTo, Branch
  <2>5. CASE Burn(p)
    BY <2>5 DEF Burn, GoTo
  <2>6. CASE AdvanceBurned(p)
    BY <2>6 DEF AdvanceBurned, Advance, GoTo, Branch
  <2>7. CASE Activate(p)
    BY <2>7 DEF Activate, GoTo, Return, Reserved
  <2>8. CASE AdvanceDone(p)
    BY <2>8 DEF AdvanceDone, Advance, GoTo, Return
  <2>9. CASE Release(p)
    BY <2>9 DEF Release, ReleaseThen, GoTo, Return, Reserved
  <2>10. CASE AdvanceReleased(p)
    BY <2>10 DEF AdvanceReleased, Advance, GoTo, Return
  <2>11. CASE TakeBack(p)
    BY <2>11 DEF TakeBack, ReleaseThen, GoTo, Return, Reserved
  <2>12. CASE AdvanceTakenBack(p)
    BY <2>12 DEF AdvanceTakenBack, Advance, GoTo, Return
  <2>13. CASE ReinstateUnusable(p)
    BY <2>13 DEF ReinstateUnusable, ReinstateThen, GoTo, Return
  <2>14. CASE AdvanceUnusable(p)
    BY <2>14 DEF AdvanceUnusable, Advance, GoTo, Return
  <2>15. CASE VoidVoucher(p)
    BY <2>15 DEF VoidVoucher, GoTo, Return
  <2>16. CASE VoidActive(p)
    BY <2>16 DEF VoidActive, GoTo, Return
  <2>17. CASE ReinstateDisputed(p)
    BY <2>17 DEF ReinstateDisputed, ReinstateThen, GoTo, Return
  <2>18. CASE AdvanceVoided(p)
    BY <2>18 DEF AdvanceVoided, Advance, GoTo, Return
  <2>19. CASE AskLedger(p)
    BY <2>19 DEF AskLedger, GoTo
  <2>20. CASE Crash(p)
    BY <2>20 DEF Crash, GoTo, Return
  <2> QED BY <1>1, <2>1, <2>2, <2>3, <2>4, <2>5, <2>6, <2>7, <2>8, <2>9, <2>10, <2>11, <2>12,
             <2>13, <2>14, <2>15, <2>16, <2>17, <2>18, <2>19, <2>20 DEF RunSaga, SettleDispute
<1>2. ASSUME NEW p \in Requests, NEW s \in Sagas, Confirm(p, s) \/ Dispute(p, s)
      PROVE  Single'
  <2>1. CASE Confirm(p, s)
    BY <2>1 DEF Confirm, StartAt, Branch
  <2>2. CASE Dispute(p, s)
    BY <2>2 DEF Dispute, StartAt
  <2> QED BY <1>2, <2>1, <2>2
<1>3. ASSUME NEW s \in Sagas, Recover(s) PROVE Single'
  BY <1>3 DEF Recover, StartAt
<1>4. ASSUME NEW s \in Sagas, QuoteLapses(s) \/ ReservationLapses(s) PROVE Single'
  BY <1>4 DEF QuoteLapses, ReservationLapses
<1>5. ASSUME NEW v \in Vouchers, AtMerchant(v) PROVE Single'
  BY <1>5 DEF AtMerchant
<1>6. CASE UNCHANGED vars
  BY <1>6 DEF vars
<1> QED BY <1>1, <1>2, <1>3, <1>4, <1>5, <1>6 DEF Next

-------------------------------------------------------------------------------
(* The points of a checkout come back only once its voucher was voided for      *)
(* good, whatever requests, disputes and crashes there are, as long as activate *)
(* is never answered by a refusal that gives the reservation up.               *)
THEOREM ReturnsFollowVoids == ASSUME ~MayRefuseActivation PROVE Spec => []ReturnedOnlyAfterVoid
<1>1. Init => NotQuoted /\ Returned
  BY DEF Init, NotQuoted, Returned, ReturnedOnlyAfterVoid
<1>2. IInv /\ NotQuoted /\ [Next]_vars => NotQuoted'
  BY NotQuotedSteps, CheckoutAssumption
<1>3. IInv /\ NotQuoted /\ Returned /\ [Next]_vars => Returned'
  BY ReturnedSteps, CheckoutAssumption
<1>4. Returned => ReturnedOnlyAfterVoid
  BY DEF Returned
<1> QED BY <1>1, <1>2, <1>3, <1>4, Invariance, PTL DEF Spec

(* One burn buys at most one voucher, as long as one request at a time confirms *)
(* the checkouts, beside the recovery job and whatever crashes there are; with  *)
(* two the look and the claim of their reservations interleave.                *)
THEOREM OneRequestOneVoucher == ASSUME OneRequest PROVE Spec => []OneVoucherPerBurn
<1>1. Init => NotQuoted /\ Single
  BY DEF Init, NotQuoted, Single, Out, Early
<1>2. IInv /\ NotQuoted /\ [Next]_vars => NotQuoted'
  BY NotQuotedSteps, CheckoutAssumption
<1>3. IInv /\ NotQuoted /\ Single /\ [Next]_vars => Single'
  BY SingleSteps, CheckoutAssumption
<1>4. IInv /\ Single => OneVoucherPerBurn
  BY DEF IInv, NoFreeVoucher, Single, Out, OneVoucherPerBurn
<1> QED BY <1>1, <1>2, <1>3, <1>4, Invariance, PTL DEF Spec

===============================================================================

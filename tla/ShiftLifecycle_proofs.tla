------------------------ MODULE ShiftLifecycle_proofs ------------------------
(* Machine-checked proofs about ShiftLifecycle, for every set of Shifts,    *)
(* Drawers, ledger rows and sales and any number of Business Dates.         *)
EXTENDS ShiftLifecycle, TLAPS

USE DEF Days, EntryRow, dayVars, stockVars, creditVars, HasOpenShift, NoOtherOpen,
        PendingDrawers, LateEntry, Reopenable, ReverseShiftClose

-----------------------------------------------------------------------------
(* Types                                                                   *)

LEMMA InitType == Init => TypeOK /\ ShiftsHaveDays
BY LifecycleAssumption DEF Init, TypeOK, ShiftsHaveDays, Existing, DayOf

(* Every action keeps the types and the day of each Shift.                 *)
LEMMA StepType ==
  ASSUME TypeOK, ShiftsHaveDays, [Next]_vars
  PROVE  TypeOK' /\ ShiftsHaveDays'
<1> USE LifecycleAssumption, NoEntryAssumption
<1>1. CASE DayNext
  <2>1. CASE NextDate
    BY <2>1 DEF NextDate, TypeOK, ShiftsHaveDays, Existing, DayOf
  <2>2. ASSUME NEW d \in Days, OpenBusinessDay(d) PROVE TypeOK' /\ ShiftsHaveDays'
    BY <2>2 DEF OpenBusinessDay, TypeOK, ShiftsHaveDays, Existing, DayOf
  <2>3. ASSUME NEW d \in Days, CloseBusinessDay(d) PROVE TypeOK' /\ ShiftsHaveDays'
    BY <2>3 DEF CloseBusinessDay, TypeOK, ShiftsHaveDays, Existing, DayOf, DayEntries
  <2>4. ASSUME NEW d \in Days, NEW force \in BOOLEAN, GenerateDssr(d, force)
        PROVE  TypeOK' /\ ShiftsHaveDays'
    BY <2>4 DEF GenerateDssr, TypeOK, ShiftsHaveDays, Existing, DayOf, DayEntries
  <2> QED BY <1>1, <2>1, <2>2, <2>3, <2>4 DEF DayNext
<1>2. CASE ShiftNext
  <2>1. ASSUME NEW s \in Shifts, NEW d \in Days, NEW ds \in SUBSET Drawers, OpenShift(s, d, ds)
        PROVE  TypeOK' /\ ShiftsHaveDays'
    BY <2>1 DEF OpenShift, TypeOK, ShiftsHaveDays, Existing, DayOf
  <2>2. ASSUME NEW s \in Shifts, NEW dr \in Drawers, RecordHandover(s, dr)
        PROVE  TypeOK' /\ ShiftsHaveDays'
    BY <2>2 DEF RecordHandover, TypeOK, ShiftsHaveDays, Existing, DayOf
  <2>3. ASSUME NEW s \in Shifts, CloseShift(s) PROVE TypeOK' /\ ShiftsHaveDays'
    BY <2>3 DEF CloseShift, TypeOK, ShiftsHaveDays, Existing, DayOf, EntriesOf
  <2>4. ASSUME NEW s \in Shifts, ReopenShift(s) PROVE TypeOK' /\ ShiftsHaveDays'
    BY <2>4 DEF ReopenShift, TypeOK, ShiftsHaveDays, Existing, DayOf, Settled
  <2>5. ASSUME NEW s \in Shifts, LockShift(s) PROVE TypeOK' /\ ShiftsHaveDays'
    BY <2>5 DEF LockShift, TypeOK, ShiftsHaveDays, Existing, DayOf
  <2>6. ASSUME NEW s \in Shifts, NEW x \in Sales, CreateSale(s, x)
        PROVE  TypeOK' /\ ShiftsHaveDays'
    BY <2>6 DEF CreateSale, TypeOK, ShiftsHaveDays, Existing, DayOf
  <2>7. ASSUME NEW s \in Shifts, NEW a \in Attendants,
               RecordMerchandiseHandover(s, a) \/ DeleteMerchandiseHandover(s, a)
        PROVE  TypeOK' /\ ShiftsHaveDays'
    <3>1. CASE RecordMerchandiseHandover(s, a)
      BY <3>1 DEF RecordMerchandiseHandover, TypeOK, ShiftsHaveDays, Existing, DayOf
    <3>2. CASE DeleteMerchandiseHandover(s, a)
      BY <3>2 DEF DeleteMerchandiseHandover, TypeOK, ShiftsHaveDays, Existing, DayOf
    <3> QED BY <2>7, <3>1, <3>2
  <2>8. ASSUME NEW s \in Shifts, RecordStockCount(s) PROVE TypeOK' /\ ShiftsHaveDays'
    BY <2>8 DEF RecordStockCount, TypeOK, ShiftsHaveDays, Existing, DayOf
  <2> QED BY <1>2, <2>1, <2>2, <2>3, <2>4, <2>5, <2>6, <2>7, <2>8 DEF ShiftNext
<1>3. CASE CreditNext
  <2>1. ASSUME NEW e \in Entries, NEW s \in Shifts, RecordShiftCredit(e, s)
        PROVE  TypeOK' /\ ShiftsHaveDays'
    <3>1. entry' \in [Entries -> {NoEntry} \cup EntryRow]
      BY <2>1 DEF RecordShiftCredit, FinancialGate, TypeOK, ShiftsHaveDays, DayOf
    <3>2. summary' \in [Shifts -> {NoSummary} \cup SUBSET Entries]
      BY <2>1 DEF RecordShiftCredit, RefreshShiftSummary, TypeOK, EntriesOf
    <3> QED
      BY <2>1, <3>1, <3>2 DEF RecordShiftCredit, TypeOK, ShiftsHaveDays, Existing, DayOf
  <2>2. ASSUME NEW e \in Entries, NEW d \in Days, RecordDayCredit(e, d)
        PROVE  TypeOK' /\ ShiftsHaveDays'
    BY <2>2 DEF RecordDayCredit, TypeOK, ShiftsHaveDays, Existing, DayOf
  <2>3. ASSUME NEW e \in Entries, VoidCredit(e) PROVE TypeOK' /\ ShiftsHaveDays'
    BY <2>3 DEF VoidCredit, TypeOK, ShiftsHaveDays, Existing, DayOf
  <2> QED BY <1>3, <2>1, <2>2, <2>3 DEF CreditNext
<1>4. CASE UNCHANGED vars
  BY <1>4 DEF vars, TypeOK, ShiftsHaveDays, Existing, DayOf
<1> QED BY <1>1, <1>2, <1>3, <1>4 DEF Next

(* The types hold in every reachable state.                                *)
THEOREM TypeCorrect == Spec => [](TypeOK /\ ShiftsHaveDays)
<1>1. Init => TypeOK /\ ShiftsHaveDays
  BY InitType
<1>2. (TypeOK /\ ShiftsHaveDays) /\ [Next]_vars => (TypeOK /\ ShiftsHaveDays)'
  BY StepType
<1> QED BY <1>1, <1>2, PTL DEF Spec

-----------------------------------------------------------------------------
(* Status: one running Shift, none on a closed day                         *)

StatusInv == TypeOK /\ ShiftsHaveDays /\ OneOpenShift /\ SealedDayHasNoOpenShift

LEMMA InitStatus == Init => StatusInv
<1>1. Init => OneOpenShift /\ SealedDayHasNoOpenShift
  BY DEF Init, OneOpenShift, SealedDayHasNoOpenShift, OpenShifts, Existing
<1> QED BY <1>1, InitType DEF StatusInv

LEMMA StepStatus ==
  ASSUME StatusInv, [Next]_vars
  PROVE  StatusInv'
<1> USE DEF StatusInv
<1>0. TypeOK' /\ ShiftsHaveDays'
  BY StepType
<1>1. OneOpenShift' /\ SealedDayHasNoOpenShift'
  <2> USE <1>0 DEF OneOpenShift, SealedDayHasNoOpenShift, OpenShifts, Existing, DayOf,
                   TypeOK, ShiftsHaveDays
  <2>1. CASE DayNext
    <3>1. CASE NextDate
      BY <3>1 DEF NextDate
    <3>2. ASSUME NEW d \in Days, OpenBusinessDay(d)
          PROVE  OneOpenShift' /\ SealedDayHasNoOpenShift'
      BY <3>2 DEF OpenBusinessDay
    <3>3. ASSUME NEW d \in Days, CloseBusinessDay(d)
          PROVE  OneOpenShift' /\ SealedDayHasNoOpenShift'
      BY <3>3 DEF CloseBusinessDay
    <3>4. ASSUME NEW d \in Days, NEW force \in BOOLEAN, GenerateDssr(d, force)
          PROVE  OneOpenShift' /\ SealedDayHasNoOpenShift'
      BY <3>4 DEF GenerateDssr
    <3> QED BY <2>1, <3>1, <3>2, <3>3, <3>4 DEF DayNext
  <2>2. CASE ShiftNext
    <3>1. ASSUME NEW s \in Shifts, NEW d \in Days, NEW ds \in SUBSET Drawers,
                 OpenShift(s, d, ds)
          PROVE  OneOpenShift' /\ SealedDayHasNoOpenShift'
      BY <3>1 DEF OpenShift
    <3>2. ASSUME NEW s \in Shifts, CloseShift(s)
          PROVE  OneOpenShift' /\ SealedDayHasNoOpenShift'
      BY <3>2 DEF CloseShift
    <3>3. ASSUME NEW s \in Shifts, ReopenShift(s)
          PROVE  OneOpenShift' /\ SealedDayHasNoOpenShift'
      BY <3>3 DEF ReopenShift, Settled
    <3>4. ASSUME NEW s \in Shifts, LockShift(s)
          PROVE  OneOpenShift' /\ SealedDayHasNoOpenShift'
      BY <3>4 DEF LockShift, FinancialGate
    <3>5. ASSUME NEW s \in Shifts,
                 \/ \E dr \in Drawers : RecordHandover(s, dr)
                 \/ \E x \in Sales : CreateSale(s, x)
                 \/ \E a \in Attendants : RecordMerchandiseHandover(s, a)
                                         \/ DeleteMerchandiseHandover(s, a)
                 \/ RecordStockCount(s)
          PROVE  UNCHANGED <<dayStatus, status, shiftDay>>
      BY <3>5 DEF RecordHandover, CreateSale, RecordMerchandiseHandover,
                  DeleteMerchandiseHandover, RecordStockCount
    <3>6. ASSUME UNCHANGED <<dayStatus, status, shiftDay>>
          PROVE  OneOpenShift' /\ SealedDayHasNoOpenShift'
      BY <3>6
    <3> QED BY <2>2, <3>1, <3>2, <3>3, <3>4, <3>5, <3>6 DEF ShiftNext
  <2>3. CASE CreditNext
    <3>1. ASSUME NEW e \in Entries, NEW d \in Days, RecordDayCredit(e, d)
          PROVE  OneOpenShift' /\ SealedDayHasNoOpenShift'
      BY <3>1 DEF RecordDayCredit
    <3>2. ASSUME NEW e \in Entries,
                 VoidCredit(e) \/ \E s \in Shifts : RecordShiftCredit(e, s)
          PROVE  OneOpenShift' /\ SealedDayHasNoOpenShift'
      BY <3>2 DEF VoidCredit, RecordShiftCredit
    <3> QED BY <2>3, <3>1, <3>2 DEF CreditNext
  <2>4. CASE UNCHANGED vars
    BY <2>4 DEF vars
  <2> QED BY <2>1, <2>2, <2>3, <2>4 DEF Next
<1> QED BY <1>0, <1>1

LEMMA StatusKept == Spec => []StatusInv
<1>1. Init => StatusInv
  BY InitStatus
<1>2. StatusInv /\ [Next]_vars => StatusInv'
  BY StepStatus
<1> QED BY <1>1, <1>2, PTL DEF Spec

(* A station never runs two Shifts, however they are opened, reopened and    *)
(* closed.                                                                 *)
THEOREM OneShiftRuns == Spec => []OneOpenShift
<1>1. StatusInv => OneOpenShift
  BY DEF StatusInv
<1> QED BY <1>1, StatusKept, PTL

(* A closed Business Day never has a running Shift: the station lock, the    *)
(* day's status check and the checks of open, reopen and day close together. *)
THEOREM DaySealing == Spec => []SealedDayHasNoOpenShift
<1>1. StatusInv => SealedDayHasNoOpenShift
  BY DEF StatusInv
<1> QED BY <1>1, StatusKept, PTL

-----------------------------------------------------------------------------
(* Sealed stock: action properties that follow from the status invariant    *)

(* No step touches the stock records of a closed day: every writer of them  *)
(* needs either the STOCK gate or a running Shift, and a closed day has     *)
(* none.                                                                    *)
THEOREM StockStaysSealed == Spec => StockSealed
<1>1. ASSUME StatusInv, [Next]_vars, NEW d \in Days, dayStatus[d] = "CLOSED"
      PROVE  StockRecords(d)' = StockRecords(d)
  <2> DEFINE Mine(s) == status[s] # "none" /\ shiftDay[s] = d
  <2>1. \A s \in Shifts : Mine(s) => status[s] # "OPEN"
    BY <1>1 DEF StatusInv, SealedDayHasNoOpenShift, Existing, DayOf
  <2>2. ASSUME NEW s \in Shifts
        PROVE  /\ Mine(s)' <=> Mine(s)
               /\ Mine(s) => <<handed[s], booked[s], sales[s], merch[s], s \in dips>>'
                              = <<handed[s], booked[s], sales[s], merch[s], s \in dips>>
    <3> USE <1>1, <2>1 DEF StatusInv, TypeOK, ShiftsHaveDays, Existing, DayOf
    <3>1. CASE DayNext
      BY <3>1 DEF DayNext, NextDate, OpenBusinessDay, CloseBusinessDay, GenerateDssr
    <3>2. CASE CreditNext
      BY <3>2 DEF CreditNext, RecordShiftCredit, RecordDayCredit, VoidCredit
    <3>3. CASE ShiftNext
      <4>1. ASSUME NEW t \in Shifts, NEW b \in Days, NEW ds \in SUBSET Drawers,
                   OpenShift(t, b, ds)
            PROVE  /\ Mine(s)' <=> Mine(s)
                   /\ UNCHANGED <<handed, booked, sales, merch, dips>>
        BY <4>1 DEF OpenShift
      <4>2. ASSUME NEW t \in Shifts, CloseShift(t) \/ ReopenShift(t) \/ LockShift(t)
            PROVE  /\ Mine(s)' <=> Mine(s)
                   /\ UNCHANGED <<handed, sales, merch, dips>>
                   /\ Mine(s) => booked'[s] = booked[s]
        BY <4>2 DEF CloseShift, ReopenShift, LockShift, Settled
      <4>3. ASSUME NEW t \in Shifts,
                   \/ \E dr \in Drawers : RecordHandover(t, dr)
                   \/ \E x \in Sales : CreateSale(t, x)
                   \/ \E a \in Attendants : RecordMerchandiseHandover(t, a)
                                           \/ DeleteMerchandiseHandover(t, a)
            PROVE  /\ UNCHANGED <<status, shiftDay, booked, dips>>
                   /\ Mine(s) => /\ handed'[s] = handed[s]
                                 /\ sales'[s] = sales[s]
                                 /\ merch'[s] = merch[s]
        BY <4>3 DEF RecordHandover, CreateSale, RecordMerchandiseHandover,
                    DeleteMerchandiseHandover
      <4>4. ASSUME NEW t \in Shifts, RecordStockCount(t)
            PROVE  /\ UNCHANGED <<status, shiftDay, handed, booked, sales, merch>>
                   /\ Mine(s) => (s \in dips' <=> s \in dips)
        BY <4>4 DEF RecordStockCount, StockGate
      <4> QED BY <3>3, <4>1, <4>2, <4>3, <4>4 DEF ShiftNext
    <3>4. CASE UNCHANGED vars
      BY <3>4 DEF vars
    <3> QED BY <3>1, <3>2, <3>3, <3>4 DEF Next
  <2> QED BY <2>2 DEF StockRecords, Existing
<1>2. StatusInv /\ [Next]_vars
        => [\A d \in Days : dayStatus[d] = "CLOSED" => StockRecords(d)' = StockRecords(d)]_vars
  BY <1>1
<1>3. Init => StatusInv
  BY InitStatus
<1>4. StatusInv /\ [Next]_vars => StatusInv'
  BY StepStatus
<1> QED BY <1>2, <1>3, <1>4, PTL DEF Spec, StockSealed

(* A closed day stays closed, and a locked Shift stays locked: ReopenShift  *)
(* takes LOCKED, but a locked Shift's day is closed and that refuses it.    *)
THEOREM ClosingFinality == Spec => ClosingIsFinal
<1>1. ASSUME StatusInv, [Next]_vars
      PROVE  /\ \A d \in Days : dayStatus[d] = "CLOSED" => dayStatus'[d] = "CLOSED"
             /\ \A s \in Shifts : status[s] = "LOCKED" => status'[s] = "LOCKED"
  <2> USE <1>1 DEF StatusInv, TypeOK, ShiftsHaveDays, Existing, DayOf
  <2>1. CASE DayNext
    BY <2>1 DEF DayNext, NextDate, OpenBusinessDay, CloseBusinessDay, GenerateDssr
  <2>2. CASE CreditNext
    BY <2>2 DEF CreditNext, RecordShiftCredit, RecordDayCredit, VoidCredit
  <2>3. CASE ShiftNext
    <3>1. ASSUME NEW t \in Shifts, NEW b \in Days, NEW ds \in SUBSET Drawers, OpenShift(t, b, ds)
          PROVE  /\ \A d \in Days : dayStatus[d] = "CLOSED" => dayStatus'[d] = "CLOSED"
                 /\ \A s \in Shifts : status[s] = "LOCKED" => status'[s] = "LOCKED"
      BY <3>1 DEF OpenShift
    <3>2. ASSUME NEW t \in Shifts, CloseShift(t) \/ LockShift(t)
          PROVE  /\ dayStatus' = dayStatus
                 /\ \A s \in Shifts : status[s] = "LOCKED" => status'[s] = "LOCKED"
      BY <3>2 DEF CloseShift, LockShift
    <3>3. ASSUME NEW t \in Shifts, ReopenShift(t)
          PROVE  /\ dayStatus' = dayStatus
                 /\ \A s \in Shifts : status[s] = "LOCKED" => status'[s] = "LOCKED"
      <4>1. status[t] # "LOCKED"
        BY <3>3 DEF ReopenShift, Settled, SealedDayHasNoOpenShift
      <4> QED BY <3>3, <4>1 DEF ReopenShift
    <3>4. ASSUME NEW t \in Shifts,
                 \/ \E dr \in Drawers : RecordHandover(t, dr)
                 \/ \E x \in Sales : CreateSale(t, x)
                 \/ \E a \in Attendants : RecordMerchandiseHandover(t, a)
                                         \/ DeleteMerchandiseHandover(t, a)
                 \/ RecordStockCount(t)
          PROVE  UNCHANGED <<dayStatus, status>>
      BY <3>4 DEF RecordHandover, CreateSale, RecordMerchandiseHandover,
                  DeleteMerchandiseHandover, RecordStockCount
    <3> QED BY <2>3, <3>1, <3>2, <3>3, <3>4 DEF ShiftNext
  <2>4. CASE UNCHANGED vars
    BY <2>4 DEF vars
  <2> QED BY <2>1, <2>2, <2>3, <2>4 DEF Next
<1>2. StatusInv /\ [Next]_vars
        => [ /\ \A d \in Days : dayStatus[d] = "CLOSED" => dayStatus'[d] = "CLOSED"
             /\ \A s \in Shifts : status[s] = "LOCKED" => status'[s] = "LOCKED" ]_vars
  BY <1>1
<1>3. Init => StatusInv
  BY InitStatus
<1>4. StatusInv /\ [Next]_vars => StatusInv'
  BY StepStatus
<1> QED BY <1>2, <1>3, <1>4, PTL DEF Spec, ClosingIsFinal

-----------------------------------------------------------------------------
(* Handovers: the Drawers of a settled Shift                                *)

HandoverInv == TypeOK /\ ShiftsHaveDays /\ SettledShiftsAreHandedOver

(* Handovers are never withdrawn and bookings never undone, and only a      *)
(* close settles a Shift.                                                   *)
LEMMA StepHandover ==
  ASSUME HandoverInv, [Next]_vars
  PROVE  HandoverInv'
<1>0. TypeOK' /\ ShiftsHaveDays'
  BY StepType DEF HandoverInv
<1>1. SettledShiftsAreHandedOver'
  <2> USE DEF HandoverInv, TypeOK, SettledShiftsAreHandedOver, Settled
  <2>1. CASE DayNext
    BY <2>1 DEF DayNext, NextDate, OpenBusinessDay, CloseBusinessDay, GenerateDssr
  <2>2. CASE ShiftNext
    <3>1. ASSUME NEW s \in Shifts, NEW d \in Days, NEW ds \in SUBSET Drawers,
                 OpenShift(s, d, ds)
          PROVE  SettledShiftsAreHandedOver'
      BY <3>1 DEF OpenShift
    <3>2. ASSUME NEW s \in Shifts, NEW dr \in Drawers, RecordHandover(s, dr)
          PROVE  SettledShiftsAreHandedOver'
      BY <3>2 DEF RecordHandover
    <3>3. ASSUME NEW s \in Shifts, CloseShift(s)
          PROVE  SettledShiftsAreHandedOver'
      <4>1. booked[s] \in Nat /\ MaxCloses \in Nat
        BY LifecycleAssumption
      <4>2. assigned[s] \subseteq handed[s]
        BY <3>3 DEF CloseShift
      <4>3. \A t \in Shifts \ {s} : status'[t] = status[t] /\ booked'[t] = booked[t]
        BY <3>3 DEF CloseShift
      <4>4. booked'[s] > 0
        BY <3>3, <4>1 DEF CloseShift
      <4> QED BY <3>3, <4>2, <4>3, <4>4 DEF CloseShift
    <3>4. ASSUME NEW s \in Shifts, ReopenShift(s) \/ LockShift(s)
          PROVE  SettledShiftsAreHandedOver'
      BY <3>4 DEF ReopenShift, LockShift
    <3>5. ASSUME NEW s \in Shifts,
                 \/ \E x \in Sales : CreateSale(s, x)
                 \/ \E a \in Attendants : RecordMerchandiseHandover(s, a)
                                         \/ DeleteMerchandiseHandover(s, a)
                 \/ RecordStockCount(s)
          PROVE  UNCHANGED <<status, assigned, handed, booked>>
      BY <3>5 DEF CreateSale, RecordMerchandiseHandover,
                  DeleteMerchandiseHandover, RecordStockCount
    <3>6. ASSUME UNCHANGED <<status, assigned, handed, booked>>
          PROVE  SettledShiftsAreHandedOver'
      BY <3>6
    <3> QED BY <2>2, <3>1, <3>2, <3>3, <3>4, <3>5, <3>6 DEF ShiftNext
  <2>3. CASE CreditNext
    BY <2>3 DEF CreditNext, RecordShiftCredit, RecordDayCredit, VoidCredit
  <2>4. CASE UNCHANGED vars
    BY <2>4 DEF vars
  <2> QED BY <2>1, <2>2, <2>3, <2>4 DEF Next, HandoverInv
<1> QED BY <1>0, <1>1 DEF HandoverInv

(* Every Drawer of a settled Shift was handed over and its readings booked, *)
(* through any number of reopenings.                                        *)
THEOREM HandedOver == Spec => []SettledShiftsAreHandedOver
<1>1. Init => HandoverInv
  BY InitType DEF Init, HandoverInv, SettledShiftsAreHandedOver, Settled
<1>2. HandoverInv /\ [Next]_vars => HandoverInv'
  BY StepHandover
<1>3. HandoverInv => SettledShiftsAreHandedOver
  BY DEF HandoverInv
<1> QED BY <1>1, <1>2, <1>3, PTL DEF Spec

-----------------------------------------------------------------------------
(* Accounts: summary and postings follow the status and the ledger          *)

AccountInv == StatusInv /\ AccountsMatchStatus /\ SummaryTracksLedger

LEMMA StepAccount ==
  ASSUME AccountInv, [Next]_vars
  PROVE  AccountInv'
<1>0. StatusInv'
  BY StepStatus DEF AccountInv
<1>1. AccountsMatchStatus' /\ SummaryTracksLedger'
  <2> USE LifecycleAssumption, NoEntryAssumption, <1>0
          DEF AccountInv, StatusInv, TypeOK, AccountsMatchStatus, SummaryTracksLedger,
              Settled, EntriesOf
  <2>1. CASE DayNext
    BY <2>1 DEF DayNext, NextDate, OpenBusinessDay, CloseBusinessDay, GenerateDssr
  <2>2. CASE ShiftNext
    <3>1. ASSUME NEW s \in Shifts, NEW d \in Days, NEW ds \in SUBSET Drawers,
                 OpenShift(s, d, ds)
          PROVE  AccountsMatchStatus' /\ SummaryTracksLedger'
      BY <3>1 DEF OpenShift
    <3>2. ASSUME NEW s \in Shifts, CloseShift(s)
          PROVE  AccountsMatchStatus' /\ SummaryTracksLedger'
      <4>1. /\ status' = [status EXCEPT ![s] = "CLOSED"]
            /\ summary' = [summary EXCEPT ![s] = EntriesOf(s)]
            /\ posted' = posted \cup {s}
        BY <3>2 DEF CloseShift
      <4>2. \A t \in Shifts : EntriesOf(t)' = EntriesOf(t)
        BY <3>2 DEF CloseShift
      <4>3. EntriesOf(s) \in SUBSET Entries
        OBVIOUS
      <4> HIDE DEF EntriesOf
      <4>4. \A t \in Shifts : t # s => /\ status'[t] = status[t]
                                     /\ summary'[t] = summary[t]
                                     /\ EntriesOf(t)' = EntriesOf(t)
        BY <4>1, <4>2
      <4>5. status'[s] = "CLOSED" /\ summary'[s] = EntriesOf(s)'
        BY <4>1, <4>2
      <4>6. SummaryTracksLedger'
        <5> SUFFICES ASSUME NEW t \in Shifts, t \in Settled'
                     PROVE  summary'[t] = EntriesOf(t)'
          OBVIOUS
        <5>1. CASE t = s
          BY <4>5, <5>1
        <5>2. CASE t # s
          <6>1. t \in Settled /\ summary[t] = EntriesOf(t)
            BY <4>4, <5>2
          <6> QED BY <4>4, <5>2, <6>1
        <5> QED BY <5>1, <5>2
      <4>7. summary'[s] # NoSummary
        BY <4>1, <4>3
      <4>8. AccountsMatchStatus'
        BY <4>1, <4>4, <4>5, <4>7
      <4> QED BY <4>6, <4>8
    <3>3. ASSUME NEW s \in Shifts, ReopenShift(s)
          PROVE  AccountsMatchStatus' /\ SummaryTracksLedger'
      BY <3>3 DEF ReopenShift
    <3>4. ASSUME NEW s \in Shifts, LockShift(s)
          PROVE  AccountsMatchStatus' /\ SummaryTracksLedger'
      BY <3>4 DEF LockShift
    <3>5. ASSUME NEW s \in Shifts,
                 \/ \E dr \in Drawers : RecordHandover(s, dr)
                 \/ \E x \in Sales : CreateSale(s, x)
                 \/ \E a \in Attendants : RecordMerchandiseHandover(s, a)
                                         \/ DeleteMerchandiseHandover(s, a)
                 \/ RecordStockCount(s)
          PROVE  UNCHANGED <<status, summary, posted, entry>>
      BY <3>5 DEF RecordHandover, CreateSale, RecordMerchandiseHandover,
                  DeleteMerchandiseHandover, RecordStockCount
    <3>6. ASSUME UNCHANGED <<status, summary, posted, entry>>
          PROVE  AccountsMatchStatus' /\ SummaryTracksLedger'
      BY <3>6
    <3> QED BY <2>2, <3>1, <3>2, <3>3, <3>4, <3>5, <3>6 DEF ShiftNext
  <2>3. CASE CreditNext
    <3>1. ASSUME NEW e \in Entries, NEW s \in Shifts, RecordShiftCredit(e, s)
          PROVE  AccountsMatchStatus' /\ SummaryTracksLedger'
      <4>1. \A t \in Shifts \ {s} : EntriesOf(t)' = EntriesOf(t)
        BY <3>1 DEF RecordShiftCredit
      <4>2. /\ status' = status /\ posted' = posted
            /\ RefreshShiftSummary(s)
        BY <3>1 DEF RecordShiftCredit
      <4>3. EntriesOf(s)' \in SUBSET Entries
        BY <3>1
      <4> HIDE DEF EntriesOf
      <4> QED BY <4>1, <4>2, <4>3 DEF RefreshShiftSummary
    <3>2. ASSUME NEW e \in Entries, NEW d \in Days, RecordDayCredit(e, d)
          PROVE  AccountsMatchStatus' /\ SummaryTracksLedger'
      <4>1. \A t \in Shifts : EntriesOf(t)' = EntriesOf(t)
        BY <3>2 DEF RecordDayCredit
      <4> QED BY <3>2, <4>1 DEF RecordDayCredit
    <3>3. ASSUME NEW e \in Entries, VoidCredit(e)
          PROVE  AccountsMatchStatus' /\ SummaryTracksLedger'
      <4>1. \A t \in Settled : EntriesOf(t)' = EntriesOf(t)
        BY <3>3 DEF VoidCredit
      <4> QED BY <3>3, <4>1 DEF VoidCredit
    <3> QED BY <2>3, <3>1, <3>2, <3>3 DEF CreditNext
  <2>4. CASE UNCHANGED vars
    BY <2>4 DEF vars
  <2> QED BY <2>1, <2>2, <2>3, <2>4 DEF Next, AccountInv
<1> QED BY <1>0, <1>1 DEF AccountInv

LEMMA AccountsKept == Spec => []AccountInv
<1>1. Init => AccountInv
  BY InitStatus, LifecycleAssumption
     DEF Init, AccountInv, AccountsMatchStatus, SummaryTracksLedger, Settled
<1>2. AccountInv /\ [Next]_vars => AccountInv'
  BY StepAccount
<1> QED BY <1>1, <1>2, PTL DEF Spec

(* A Shift's summary and ledger postings exist exactly while it is settled. *)
THEOREM SettledAccounts == Spec => []AccountsMatchStatus
<1>1. AccountInv => AccountsMatchStatus
  BY DEF AccountInv
<1> QED BY <1>1, AccountsKept, PTL

(* The summary lists exactly the credit entries of the ledger, through      *)
(* every late entry, void and reopening.                                   *)
THEOREM SummariesFollowLedger == Spec => []SummaryTracksLedger
<1>1. AccountInv => SummaryTracksLedger
  BY DEF AccountInv
<1> QED BY <1>1, AccountsKept, PTL

-----------------------------------------------------------------------------
(* Day reporting                                                           *)

ReportInv == StatusInv /\ SnapshotIffClosed /\ OnTimeCreditIsReported

LEMMA StepReport ==
  ASSUME ReportInv, [Next]_vars
  PROVE  ReportInv'
<1>0. StatusInv'
  BY StepStatus DEF ReportInv
<1> USE LifecycleAssumption, NoEntryAssumption DEF ReportInv, StatusInv, TypeOK
<1>1. SnapshotIffClosed'
  <2> USE DEF SnapshotIffClosed
  <2>1. ASSUME NEW d \in Days, \/ CloseBusinessDay(d)
                               \/ \E force \in BOOLEAN : GenerateDssr(d, force)
        PROVE  SnapshotIffClosed'
    <3>1. DayEntries(d) \in SUBSET Entries
      BY DEF DayEntries
    <3> QED BY <2>1, <3>1 DEF CloseBusinessDay, GenerateDssr
  <2>2. ASSUME NEW d \in Days, OpenBusinessDay(d)
        PROVE  SnapshotIffClosed'
    BY <2>2 DEF OpenBusinessDay
  <2>3. CASE ShiftNext
    <3>1. ASSUME NEW s \in Shifts, NEW d \in Days, NEW ds \in SUBSET Drawers,
                 OpenShift(s, d, ds)
          PROVE  SnapshotIffClosed'
      BY <3>1 DEF OpenShift
    <3>2. dssr' = dssr /\ dayStatus' = dayStatus => SnapshotIffClosed'
      OBVIOUS
    <3> QED
      BY <2>3, <3>1, <3>2 DEF ShiftNext, RecordHandover, CloseShift, ReopenShift, LockShift,
         CreateSale, RecordMerchandiseHandover, DeleteMerchandiseHandover, RecordStockCount
  <2>4. CASE CreditNext
    BY <2>4 DEF CreditNext, RecordShiftCredit, RecordDayCredit, VoidCredit
  <2>5. CASE NextDate \/ UNCHANGED vars
    BY <2>5 DEF NextDate, vars
  <2> QED BY <2>1, <2>2, <2>3, <2>4, <2>5 DEF Next, DayNext
<1>2. OnTimeCreditIsReported'
  <2> USE DEF OnTimeCreditIsReported
  <2>1. CASE DayNext
    <3>1. ASSUME NEW d \in Days, \/ CloseBusinessDay(d)
                                 \/ \E force \in BOOLEAN : GenerateDssr(d, force)
          PROVE  OnTimeCreditIsReported'
      BY <3>1 DEF CloseBusinessDay, GenerateDssr, DayEntries
    <3>2. ASSUME NEW d \in Days, OpenBusinessDay(d)
          PROVE  OnTimeCreditIsReported'
      BY <3>2 DEF OpenBusinessDay
    <3>3. CASE NextDate
      BY <3>3 DEF NextDate
    <3> QED BY <2>1, <3>1, <3>2, <3>3 DEF DayNext
  <2>2. CASE ShiftNext
    <3>1. ASSUME NEW s \in Shifts, NEW d \in Days, NEW ds \in SUBSET Drawers,
                 OpenShift(s, d, ds)
          PROVE  OnTimeCreditIsReported'
      BY <3>1 DEF OpenShift
    <3>2. UNCHANGED <<entry, dssr, dayStatus>> => OnTimeCreditIsReported'
      OBVIOUS
    <3> QED
      BY <2>2, <3>1, <3>2 DEF ShiftNext, RecordHandover, CloseShift, ReopenShift, LockShift,
         CreateSale, RecordMerchandiseHandover, DeleteMerchandiseHandover, RecordStockCount
  <2>3. CASE CreditNext
    <3>1. ASSUME NEW e \in Entries, NEW s \in Shifts, RecordShiftCredit(e, s)
          PROVE  OnTimeCreditIsReported'
      BY <3>1 DEF RecordShiftCredit, DayOf
    <3>2. ASSUME NEW e \in Entries, NEW d \in Days, RecordDayCredit(e, d)
          PROVE  OnTimeCreditIsReported'
      BY <3>2 DEF RecordDayCredit
    <3>3. ASSUME NEW e \in Entries, VoidCredit(e)
          PROVE  OnTimeCreditIsReported'
      BY <3>3 DEF VoidCredit
    <3> QED BY <2>3, <3>1, <3>2, <3>3 DEF CreditNext
  <2>4. CASE UNCHANGED vars
    BY <2>4 DEF vars
  <2> QED BY <2>1, <2>2, <2>3, <2>4 DEF Next
<1> QED BY <1>0, <1>1, <1>2

LEMMA ReportsKept == Spec => []ReportInv
<1>1. Init => ReportInv
  BY InitStatus, LifecycleAssumption
     DEF Init, ReportInv, SnapshotIffClosed, OnTimeCreditIsReported
<1>2. ReportInv /\ [Next]_vars => ReportInv'
  BY StepReport
<1> QED BY <1>1, <1>2, PTL DEF Spec

(* A closed day has a snapshot, an open one has none.                       *)
THEOREM ClosedDaysAreReported == Spec => []SnapshotIffClosed
<1>1. ReportInv => SnapshotIffClosed
  BY DEF ReportInv
<1> QED BY <1>1, ReportsKept, PTL

(* The snapshot lists every Shift credit entry recorded before the close,    *)
(* also after it was generated again.                                      *)
THEOREM DayReporting == Spec => []OnTimeCreditIsReported
<1>1. ReportInv => OnTimeCreditIsReported
  BY DEF ReportInv
<1> QED BY <1>1, ReportsKept, PTL

-----------------------------------------------------------------------------
(* Refinement: the tables implement the station's contract                  *)

Sealed == {d \in Days : dayStatus[d] = "CLOSED"}
Stock  == [d \in Days |-> StockRecords(d)]

LEMMA RunningIsTheOpenShift ==
  ASSUME OneOpenShift
  PROVE  /\ OpenShifts = {} => Running = NoShift
         /\ \A s \in OpenShifts : Running = s
BY DEF OneOpenShift, Running

(* Unless the records of a day's Shifts change, those of the day stay.      *)
LEMMA SameStock ==
  ASSUME NEW d \in Days,
         \A s \in Shifts :
           /\ (s \in Existing /\ shiftDay[s] = d)' <=> (s \in Existing /\ shiftDay[s] = d)
           /\ s \in Existing /\ shiftDay[s] = d =>
                /\ handed'[s] = handed[s] /\ booked'[s] = booked[s]
                /\ sales'[s] = sales[s] /\ merch'[s] = merch[s]
                /\ s \in dips' <=> s \in dips
  PROVE  StockRecords(d)' = StockRecords(d)
BY DEF StockRecords, Existing

(* A step that only writes stock records of one Shift keeps those of the    *)
(* other days.                                                              *)
LEMMA OtherDaysStock ==
  ASSUME NEW s \in Shifts, s \in Existing, UNCHANGED shiftDay, Existing' = Existing,
         \A t \in Shifts \ {s} : /\ handed'[t] = handed[t] /\ booked'[t] = booked[t]
                                 /\ sales'[t] = sales[t] /\ merch'[t] = merch[t]
                                 /\ t \in dips' <=> t \in dips
  PROVE  \A d \in Days \ {shiftDay[s]} : Stock'[d] = Stock[d]
<1> SUFFICES ASSUME NEW d \in Days, d # shiftDay[s]
             PROVE  StockRecords(d)' = StockRecords(d)
  BY DEF Stock
<1> QED BY SameStock

LEMMA StepContract ==
  ASSUME StatusInv, [Next]_vars
  PROVE  [Contract!Next]_(Contract!vars)
<1> USE LifecycleAssumption DEF StatusInv
<1>0. StatusInv'
  BY StepStatus
<1>1. /\ OpenShifts = {} => Running = NoShift
      /\ \A s \in OpenShifts : Running = s
  BY RunningIsTheOpenShift
<1>2. /\ OpenShifts' = {} => Running' = NoShift
      /\ \A s \in OpenShifts' : Running' = s
  BY <1>0, RunningIsTheOpenShift DEF OneOpenShift, Running
<1>3. ASSUME UNCHANGED status PROVE Running' = Running
  BY <1>3 DEF Running, OpenShifts
<1>4. ASSUME UNCHANGED <<status, shiftDay, stockVars>> PROVE UNCHANGED Stock
  BY <1>4 DEF Stock, StockRecords, Existing
<1>5. ASSUME UNCHANGED <<Running, shiftDay, Sealed, Stock>>
      PROVE  UNCHANGED Contract!vars
  BY <1>5 DEF Contract!vars, Sealed, Stock
<1>6. CASE DayNext
  <2>1. CASE NextDate
    BY <2>1, <1>3, <1>4, <1>5 DEF NextDate, Sealed
  <2>2. ASSUME NEW d \in Days, OpenBusinessDay(d) PROVE UNCHANGED Contract!vars
    <3>1. UNCHANGED Sealed
      BY <2>2 DEF OpenBusinessDay, Sealed, TypeOK
    <3> QED BY <2>2, <3>1, <1>3, <1>4, <1>5 DEF OpenBusinessDay
  <2>3. ASSUME NEW d \in Days, NEW force \in BOOLEAN, GenerateDssr(d, force)
        PROVE  UNCHANGED Contract!vars
    BY <2>3, <1>3, <1>4, <1>5 DEF GenerateDssr, Sealed
  <2>4. ASSUME NEW d \in Days, CloseBusinessDay(d) PROVE Contract!Next
    <3>1. Sealed' = Sealed \cup {d}
      BY <2>4 DEF CloseBusinessDay, Sealed, TypeOK
    <3>2. Running # NoShift => shiftDay[Running] # d
      BY <2>4, <1>1 DEF CloseBusinessDay, OpenShifts
    <3>3. UNCHANGED <<Running, shiftDay, Stock>>
      BY <2>4, <1>3, <1>4 DEF CloseBusinessDay
    <3>4. Contract!Seal(d)
      BY <3>1, <3>2, <3>3 DEF Contract!Seal, Sealed, Stock
    <3> QED BY <3>4 DEF Contract!Next
  <2> QED BY <1>6, <2>1, <2>2, <2>3, <2>4 DEF DayNext
<1>7. CASE ShiftNext
  <2>1. ASSUME NEW s \in Shifts, NEW d \in Days, NEW ds \in SUBSET Drawers,
               OpenShift(s, d, ds)
        PROVE  Contract!Next
    <3>1. Running = NoShift /\ Running' = s
      BY <2>1, <1>1, <1>2 DEF OpenShift, OpenShifts, TypeOK
    <3>2. shiftDay[s] = NoDay /\ shiftDay' = [shiftDay EXCEPT ![s] = d]
      BY <2>1 DEF OpenShift, ShiftsHaveDays, Existing
    <3>3. d \notin Sealed /\ UNCHANGED Sealed
      BY <2>1 DEF OpenShift, Sealed, TypeOK
    <3>4. ASSUME NEW x \in Days \ {d} PROVE StockRecords(x)' = StockRecords(x)
      BY <2>1, <3>4, SameStock
         DEF OpenShift, ShiftsHaveDays, Existing, TypeOK
    <3>5. Contract!Begin(s, d)
      BY <3>1, <3>2, <3>3, <3>4 DEF Contract!Begin, Contract!OnlyStockOf, Sealed, Stock
    <3> QED BY <3>5 DEF Contract!Next
  <2>2. ASSUME NEW s \in Shifts,
               \/ \E dr \in Drawers : RecordHandover(s, dr)
               \/ \E x \in Sales : CreateSale(s, x)
               \/ \E a \in Attendants : RecordMerchandiseHandover(s, a)
                                       \/ DeleteMerchandiseHandover(s, a)
               \/ RecordStockCount(s)
        PROVE  Contract!Next
    <3>1. s \in Existing /\ shiftDay[s] \in Days /\ DayOf(s) # "CLOSED"
      BY <2>2 DEF RecordHandover, CreateSale, RecordMerchandiseHandover, StockGate,
                  DeleteMerchandiseHandover, RecordStockCount, Existing,
                  ShiftsHaveDays, SealedDayHasNoOpenShift
    <3>2. UNCHANGED <<status, shiftDay, dayStatus>>
      BY <2>2 DEF RecordHandover, CreateSale, RecordMerchandiseHandover,
                  DeleteMerchandiseHandover, RecordStockCount
    <3>3. \A t \in Shifts \ {s} : /\ handed'[t] = handed[t] /\ booked'[t] = booked[t]
                                  /\ sales'[t] = sales[t] /\ merch'[t] = merch[t]
                                  /\ t \in dips' <=> t \in dips
      BY <2>2 DEF RecordHandover, CreateSale, RecordMerchandiseHandover,
                  DeleteMerchandiseHandover, RecordStockCount, TypeOK
    <3>4. \A d \in Days \ {shiftDay[s]} : Stock'[d] = Stock[d]
      BY <3>1, <3>2, <3>3, OtherDaysStock DEF Existing
    <3>5. Contract!Keep(shiftDay[s])
      BY <3>1, <3>2, <3>4, <1>3
         DEF Contract!Keep, Contract!OnlyStockOf, Stock, DayOf
    <3> QED BY <3>1, <3>5 DEF Contract!Next
  <2>3. ASSUME NEW s \in Shifts, CloseShift(s) PROVE Contract!Next
    <3>1. s \in Existing /\ shiftDay[s] \in Days /\ s \in OpenShifts
      BY <2>3 DEF CloseShift, Existing, OpenShifts, ShiftsHaveDays
    <3>2. Running = s /\ Running' = NoShift
      <4>1. OpenShifts' = {}
        BY <2>3, <3>1 DEF CloseShift, OpenShifts, OneOpenShift, TypeOK
      <4> QED BY <3>1, <4>1, <1>1, <1>2
    <3>3. Existing' = Existing /\ UNCHANGED <<shiftDay, dayStatus>>
      BY <2>3 DEF CloseShift, Existing, TypeOK
    <3>4. \A d \in Days \ {shiftDay[s]} : Stock'[d] = Stock[d]
      BY <2>3, <3>1, <3>3, OtherDaysStock DEF CloseShift, TypeOK
    <3>5. Contract!Settle
      BY <3>1, <3>2, <3>3, <3>4 DEF Contract!Settle, Contract!OnlyStockOf, Stock
    <3> QED BY <3>5 DEF Contract!Next
  <2>4. ASSUME NEW s \in Shifts, ReopenShift(s) PROVE Contract!Next
    <3>1. s \in Existing /\ shiftDay[s] \in Days /\ DayOf(s) # "CLOSED"
      BY <2>4 DEF ReopenShift, Settled, Existing, ShiftsHaveDays
    <3>2. Running = NoShift /\ Running' = s
      <4>1. OpenShifts = {} /\ s \in OpenShifts'
        BY <2>4 DEF ReopenShift, Settled, OpenShifts, TypeOK
      <4> QED BY <4>1, <1>1, <1>2
    <3>3. Existing' = Existing /\ UNCHANGED <<shiftDay, dayStatus, stockVars>>
      BY <2>4 DEF ReopenShift, Settled, Existing, TypeOK
    <3>4. UNCHANGED Stock
      BY <3>3 DEF Stock, StockRecords
    <3>5. Contract!Resume(s)
      BY <3>1, <3>2, <3>3, <3>4 DEF Contract!Resume, Stock, DayOf
    <3> QED BY <3>5 DEF Contract!Next
  <2>5. ASSUME NEW s \in Shifts, LockShift(s) PROVE UNCHANGED Contract!vars
    <3>1. Existing' = Existing /\ OpenShifts' = OpenShifts
      BY <2>5 DEF LockShift, Existing, OpenShifts, TypeOK
    <3>2. UNCHANGED <<shiftDay, dayStatus, stockVars>>
      BY <2>5 DEF LockShift
    <3>3. UNCHANGED <<Running, Stock, Sealed>>
      BY <3>1, <3>2 DEF Running, Stock, StockRecords, Sealed
    <3> QED BY <3>2, <3>3, <1>5
  <2> QED BY <1>7, <2>1, <2>2, <2>3, <2>4, <2>5 DEF ShiftNext
<1>8. CASE CreditNext
  <2>1. UNCHANGED <<status, shiftDay, stockVars>>
    BY <1>8 DEF CreditNext, RecordShiftCredit, RecordDayCredit, VoidCredit
  <2>2. UNCHANGED Sealed
    BY <1>8 DEF CreditNext, RecordShiftCredit, RecordDayCredit, VoidCredit, Sealed, TypeOK
  <2> QED BY <2>1, <2>2, <1>3, <1>4, <1>5
<1>9. CASE UNCHANGED vars
  BY <1>9, <1>3, <1>4, <1>5 DEF vars, Sealed
<1> QED BY <1>6, <1>7, <1>8, <1>9 DEF Next

(* The tables, written by the transactions of this module, keep the        *)
(* station's contract: one running Shift, a day for ever, sealed days.      *)
THEOREM ContractRefinement == Spec => ImplementsContract
<1>1. Init => Contract!Init
  BY LifecycleAssumption
     DEF Init, Contract!Init, Running, OpenShifts
<1>2. StatusInv /\ [Next]_vars => [Contract!Next]_(Contract!vars)
  BY StepContract
<1>3. Init => StatusInv
  BY InitStatus
<1>4. StatusInv /\ [Next]_vars => StatusInv'
  BY StepStatus
<1> QED BY <1>1, <1>2, <1>3, <1>4, PTL DEF Spec, ImplementsContract, Contract!Spec
=============================================================================

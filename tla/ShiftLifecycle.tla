---------------------------- MODULE ShiftLifecycle ----------------------------
(***************************************************************************)
(* One station's Business Days and Shifts, with everything hung on their   *)
(* status: handovers, sales, tank dips, the Shift Summary, the ledger      *)
(* posting of a close, credit entries and the day's DSSR snapshot.         *)
(*                                                                         *)
(* Each action is one committed database transaction of the API: the use   *)
(* case of packages/core, and what its route adds in the same transaction. *)
(* Every action begins by locking Station -> Business Day -> Shift (or the *)
(* Shift row alone), which is what makes it one step here; the module      *)
(* ShiftTransactions looks inside the steps.  A refused request changes    *)
(* nothing and is not a step.                                              *)
(***************************************************************************)
EXTENDS Naturals, FiniteSets

CONSTANTS
  Shifts,       \* the Shift ids a history may use
  LastDay,      \* Business Dates are 1 .. LastDay
  Drawers,      \* (Attendant, DU) pairs that may be assigned
  Entries,      \* customer ledger rows: credit and OMC card sales
  Sales,        \* counter sales
  Attendants,   \* sellers who may declare merchandise
  MaxCloses,    \* bound: how often one Shift is closed
  NoShift, NoDay, NoEntry, NoSummary, NoSnapshot

ASSUME LifecycleAssumption ==
  /\ LastDay \in Nat \ {0}
  /\ MaxCloses \in Nat
  /\ NoShift \notin Shifts
  /\ \A d \in 1 .. LastDay : d # NoDay
  /\ \A es \in SUBSET Entries : es # NoSummary /\ es # NoSnapshot

Days == 1 .. LastDay

EntryRow == [shift : Shifts \cup {NoShift}, day : Days, late : BOOLEAN]

ASSUME NoEntryAssumption == \A row \in EntryRow : row # NoEntry

VARIABLES
  today,      \* the Current Business Date
  dayStatus,  \* business_days.status, "none" before the row exists
  status,     \* shifts.status, "none" before the row exists
  shiftDay,   \* shifts.business_day_id
  assigned,   \* shift staff assignments, as Drawers
  handed,     \* attendant_handovers of the Shift
  booked,     \* how often the Shift's readings were booked as Sale movements
  sales,      \* counter sales of the Shift, with their Sale movements
  merch,      \* Attendants with a MERCH_HANDOVER sale in the Shift
  dips,       \* Shifts some stock_variance row is attributed to
  summary,    \* the credit entries the stored shift_summary lists
  posted,     \* Shifts whose SHIFT_CLOSE ledger entries exist
  entry,      \* customer_transactions
  dssr        \* the credit entries the day's DSSR snapshot lists

dayVars    == <<today, dayStatus>>
stockVars  == <<handed, booked, sales, merch, dips>>
creditVars == <<entry, dssr>>
vars == <<today, dayStatus, status, shiftDay, assigned, handed, booked, sales,
          merch, dips, summary, posted, entry, dssr>>

-----------------------------------------------------------------------------
(* State formulae                                                          *)

DayOf(s)   == dayStatus[shiftDay[s]]
Existing   == {s \in Shifts : status[s] # "none"}
OpenShifts == {s \in Shifts : status[s] = "OPEN"}
Settled    == {s \in Shifts : status[s] \in {"CLOSED", "LOCKED"}}

(* customer_transactions of a Shift, and of a Business Day.                *)
EntriesOf(s)    == {e \in Entries : entry[e] # NoEntry /\ entry[e].shift = s}
OfficeEntries(d) ==  \* mutant: reads the back-office rows only
  {e \in Entries : entry[e] # NoEntry /\ entry[e].day = d /\ entry[e].shift = NoShift}
DayEntries(d)   == {e \in Entries : entry[e] # NoEntry /\ entry[e].day = d}

(* hasOpenShift of a day; findOpenByStation, other than s itself.            *)
HasOpenShiftToday(d) == d = today /\ \E s \in OpenShifts : shiftDay[s] = d  \* mutant
HasOpenShift(d) == \E s \in OpenShifts : shiftDay[s] = d

NoOtherOpen(s) == OpenShifts \subseteq {s}

(* The Drawers that block a close.                                         *)
PendingUnlessSome(s)  == IF handed[s] = {} THEN assigned[s] ELSE {}  \* mutant
PendingDrawers(s) == assigned[s] \ handed[s]

(* The lateEntry flag of a write on Business Day d.                        *)
LateEntry(d) == dayStatus[d] = "CLOSED"

(* The rows the code calls "sales and stock records" of Business Day d.    *)
StockRecords(d) ==
  [s \in {x \in Existing : shiftDay[x] = d} |->
     <<handed[s], booked[s], sales[s], merch[s], s \in dips>>]

(* resolveShiftBusinessDayWrite: the Shift exists, and a closed day refuses *)
(* STOCK writes; a FINANCIAL write passes under either day status.          *)
FinancialGate(s) == s \in Existing
StockGateAnyDay(s) == s \in Existing  \* mutant
StockGate(s)     == s \in Existing /\ DayOf(s) = "OPEN"

Init ==
  /\ today = 1
  /\ dayStatus = [d \in Days |-> "none"]
  /\ status = [s \in Shifts |-> "none"]
  /\ shiftDay = [s \in Shifts |-> NoDay]
  /\ assigned = [s \in Shifts |-> {}]
  /\ handed = [s \in Shifts |-> {}]
  /\ booked = [s \in Shifts |-> 0]
  /\ sales = [s \in Shifts |-> {}]
  /\ merch = [s \in Shifts |-> {}]
  /\ dips = {}
  /\ summary = [s \in Shifts |-> NoSummary]
  /\ posted = {}
  /\ entry = [e \in Entries |-> NoEntry]
  /\ dssr = [d \in Days |-> NoSnapshot]

-----------------------------------------------------------------------------
(* Business Days                                                           *)

(* The clock passes the station's day start.                               *)
NextDate ==
  /\ today < LastDay
  /\ today' = today + 1
  /\ UNCHANGED <<dayStatus, status, shiftDay, assigned, stockVars, summary,
                 posted, creditVars>>

OpenBusinessDay(d) ==
  /\ d <= today
  /\ dayStatus[d] = "none"
  /\ dayStatus' = [dayStatus EXCEPT ![d] = "OPEN"]
  /\ UNCHANGED <<today, status, shiftDay, assigned, stockVars, summary,
                 posted, creditVars>>

(* CloseBusinessDayAndGenerateDssr: the close and its forced snapshot are   *)
(* one transaction.                                                         *)
CloseBusinessDay(d) ==
  /\ dayStatus[d] = "OPEN"
  /\ ~HasOpenShift(d)
  /\ dayStatus' = [dayStatus EXCEPT ![d] = "CLOSED"]
  /\ dssr' = [dssr EXCEPT ![d] = DayEntries(d)]
  /\ UNCHANGED <<today, status, shiftDay, assigned, stockVars, summary,
                 posted, entry>>

(* POST /dssr/daily/generate: without force an existing snapshot is kept,   *)
(* with force it is composed again from the rows of now.                    *)
GenerateDssr(d, force) ==
  /\ dayStatus[d] = "CLOSED"
  /\ dssr' = IF dssr[d] # NoSnapshot /\ ~force
             THEN dssr ELSE [dssr EXCEPT ![d] = DayEntries(d)]
  /\ UNCHANGED <<dayVars, status, shiftDay, assigned, stockVars, summary,
                 posted, entry>>

-----------------------------------------------------------------------------
(* Shifts                                                                  *)

(* ds are the Drawers of the dispensers in service now; the Business Day is *)
(* found by its date or created OPEN.                                       *)
OpenShift(s, d, ds) ==
  /\ NoOtherOpen(s)
  /\ status[s] = "none"
  /\ d <= today
  /\ dayStatus[d] # "CLOSED"
  /\ dayStatus' = [dayStatus EXCEPT ![d] = "OPEN"]
  /\ status' = [status EXCEPT ![s] = "OPEN"]
  /\ shiftDay' = [shiftDay EXCEPT ![s] = d]
  /\ assigned' = [assigned EXCEPT ![s] = ds]
  /\ UNCHANGED <<today, stockVars, summary, posted, creditVars>>

(* A handover replaces the Drawer's earlier one.                           *)
RecordHandover(s, dr) ==
  /\ StockGate(s)
  /\ status[s] = "OPEN"
  /\ dr \in assigned[s]
  /\ handed' = [handed EXCEPT ![s] = @ \cup {dr}]
  /\ UNCHANGED <<dayVars, status, shiftDay, assigned, booked, sales, merch, dips,
                 summary, posted, creditVars>>

(* CloseShift books the metered sales and projects the summary from the     *)
(* rows of now; the route then replaces the Shift's SHIFT_CLOSE postings.   *)
CloseShift(s) ==
  /\ status[s] = "OPEN"
  /\ PendingDrawers(s) = {}
  /\ booked[s] < MaxCloses
  /\ booked' = [booked EXCEPT ![s] = @ + 1]
  /\ summary' = [summary EXCEPT ![s] = EntriesOf(s)]
  /\ status' = [status EXCEPT ![s] = "CLOSED"]
  /\ posted' = posted \cup {s}
  /\ UNCHANGED <<dayVars, shiftDay, assigned, handed, sales, merch, dips, creditVars>>

ReopenableAnyDay(s) == s \in Settled /\ NoOtherOpen(s) /\ s \notin dips  \* mutant
Reopenable(s) ==
  /\ s \in Settled
  /\ DayOf(s) # "CLOSED"
  /\ NoOtherOpen(s)
  /\ s \notin dips

ReverseShiftClose(s) == posted' = posted \ {s}

(* ReopenShift drops the summary, the route reverses the postings; the     *)
(* handovers, sales and booked movements stay.                             *)
ReopenShift(s) ==
  /\ Reopenable(s)
  /\ ReverseShiftClose(s)
  /\ status' = [status EXCEPT ![s] = "OPEN"]
  /\ summary' = [summary EXCEPT ![s] = NoSummary]
  /\ UNCHANGED <<dayVars, shiftDay, assigned, stockVars, creditVars>>

LockShift(s) ==
  /\ FinancialGate(s)
  /\ status[s] = "CLOSED"
  /\ DayOf(s) # "OPEN"
  /\ status' = [status EXCEPT ![s] = "LOCKED"]
  /\ UNCHANGED <<dayVars, shiftDay, assigned, stockVars, summary, posted, creditVars>>

-----------------------------------------------------------------------------
(* Sales, stock and credit                                                 *)

CreateSale(s, x) ==
  /\ StockGate(s)
  /\ status[s] = "OPEN"
  /\ \A t \in Shifts : x \notin sales[t]
  /\ sales' = [sales EXCEPT ![s] = @ \cup {x}]
  /\ UNCHANGED <<dayVars, status, shiftDay, assigned, handed, booked, merch, dips,
                 summary, posted, creditVars>>

RecordMerchandiseHandover(s, a) ==
  /\ StockGate(s)
  /\ status[s] = "OPEN"
  /\ merch' = [merch EXCEPT ![s] = @ \cup {a}]
  /\ UNCHANGED <<dayVars, status, shiftDay, assigned, handed, booked, sales, dips,
                 summary, posted, creditVars>>

(* DELETE /merchandise-handovers reads the status and deletes.             *)
DeleteMerchandiseHandover(s, a) ==
  /\ status[s] = "OPEN"
  /\ a \in merch[s]
  /\ merch' = [merch EXCEPT ![s] = @ \ {a}]
  /\ UNCHANGED <<dayVars, status, shiftDay, assigned, handed, booked, sales, dips,
                 summary, posted, creditVars>>

(* A tank dip attributed to a Shift, running or settled.                   *)
RecordStockCount(s) ==
  /\ StockGate(s)
  /\ dips' = dips \cup {s}
  /\ UNCHANGED <<dayVars, status, shiftDay, assigned, handed, booked, sales, merch,
                 summary, posted, creditVars>>

(* RefreshShiftSummary: a no-op for a running Shift and one without summary. *)
RefreshOpenDay(s) ==  \* mutant: not on a closed day
  summary' = IF summary[s] = NoSummary \/ DayOf(s) = "CLOSED" THEN summary
             ELSE [summary EXCEPT ![s] = EntriesOf(s)']
RefreshShiftSummary(s) ==
  summary' = IF status[s] = "OPEN" \/ summary[s] = NoSummary THEN summary
             ELSE [summary EXCEPT ![s] = EntriesOf(s)']

(* A credit or OMC card sale of a Shift; on a closed day a late entry.     *)
RecordShiftCredit(e, s) ==
  /\ FinancialGate(s)
  /\ entry[e] = NoEntry
  /\ entry' = [entry EXCEPT ![e] = [shift |-> s, day |-> shiftDay[s],
                                    late |-> LateEntry(shiftDay[s])]]
  /\ RefreshShiftSummary(s)
  /\ UNCHANGED <<dayVars, status, shiftDay, assigned, stockVars, posted, dssr>>

(* A back-office credit sale of date d, whose day is created when missing.  *)
RecordDayCredit(e, d) ==
  /\ d <= today
  /\ entry[e] = NoEntry
  /\ dayStatus' = [dayStatus EXCEPT ![d] = IF @ = "none" THEN "OPEN" ELSE @]
  /\ entry' = [entry EXCEPT ![e] = [shift |-> NoShift, day |-> d,
                                    late |-> LateEntry(d)]]
  /\ UNCHANGED <<today, status, shiftDay, assigned, stockVars, summary, posted, dssr>>

(* VoidCreditSale: a Shift's entry only while the Shift runs; a back-office *)
(* entry at any time.                                                       *)
VoidCredit(e) ==
  /\ entry[e] # NoEntry
  /\ entry[e].shift # NoShift => status[entry[e].shift] = "OPEN"
  /\ entry' = [entry EXCEPT ![e] = NoEntry]
  /\ UNCHANGED <<dayVars, status, shiftDay, assigned, stockVars, summary, posted, dssr>>

-----------------------------------------------------------------------------
DayNext ==
  \/ NextDate
  \/ \E d \in Days : \/ OpenBusinessDay(d)
                     \/ CloseBusinessDay(d)
                     \/ \E force \in BOOLEAN : GenerateDssr(d, force)

ShiftNext ==
  \E s \in Shifts :
     \/ \E d \in Days, ds \in SUBSET Drawers : OpenShift(s, d, ds)
     \/ \E dr \in Drawers : RecordHandover(s, dr)
     \/ CloseShift(s)
     \/ ReopenShift(s)
     \/ LockShift(s)
     \/ \E x \in Sales : CreateSale(s, x)
     \/ \E a \in Attendants : \/ RecordMerchandiseHandover(s, a)
                              \/ DeleteMerchandiseHandover(s, a)
     \/ RecordStockCount(s)

CreditNext ==
  \E e \in Entries :
     \/ \E s \in Shifts : RecordShiftCredit(e, s)
     \/ \E d \in Days : RecordDayCredit(e, d)
     \/ VoidCredit(e)

Next == DayNext \/ ShiftNext \/ CreditNext

Spec == Init /\ [][Next]_vars

-----------------------------------------------------------------------------
(* Properties                                                              *)

(* The types of the variables.                                             *)
TypeOK ==
  /\ today \in Days
  /\ dayStatus \in [Days -> {"none", "OPEN", "CLOSED"}]
  /\ status \in [Shifts -> {"none", "OPEN", "CLOSED", "LOCKED"}]
  /\ shiftDay \in [Shifts -> {NoDay} \cup Days]
  /\ assigned \in [Shifts -> SUBSET Drawers]
  /\ handed \in [Shifts -> SUBSET Drawers]
  /\ booked \in [Shifts -> 0 .. MaxCloses]
  /\ sales \in [Shifts -> SUBSET Sales]
  /\ merch \in [Shifts -> SUBSET Attendants]
  /\ dips \subseteq Shifts
  /\ summary \in [Shifts -> {NoSummary} \cup SUBSET Entries]
  /\ posted \subseteq Shifts
  /\ entry \in [Entries -> {NoEntry} \cup EntryRow]
  /\ dssr \in [Days -> {NoSnapshot} \cup SUBSET Entries]

(* A Shift belongs to a Business Day from the moment it exists.             *)
ShiftsHaveDays ==
  \A s \in Shifts :
    IF s \in Existing THEN shiftDay[s] \in Days /\ DayOf(s) # "none"
                      ELSE shiftDay[s] = NoDay

(* A station runs one Shift at a time, through every opening and reopening  *)
(* (open-shift.ts:139, reopen-shift.ts:69).                                 *)
OneOpenShift == \A s, t \in OpenShifts : s = t

(* A closed Business Day has no running Shift, however its Shifts were      *)
(* closed and reopened; a locked Shift's day is closed.                     *)
SealedDayHasNoOpenShift ==
  \A s \in Existing :
    /\ DayOf(s) = "CLOSED" => status[s] # "OPEN"
    /\ status[s] = "LOCKED" => DayOf(s) = "CLOSED"

(* A settled Shift has a summary and ledger postings, and a running one has *)
(* neither, after any number of reopenings: the ledger never counts the     *)
(* cash of a Shift that may still change.                                   *)
AccountsMatchStatus ==
  \A s \in Shifts : /\ (summary[s] # NoSummary) <=> (s \in Settled)
                    /\ (s \in posted) <=> (s \in Settled)

(* The stored summary of a settled Shift lists exactly the credit entries   *)
(* the ledger holds for it: no entry, late or voided, escapes the refresh.  *)
SummaryTracksLedger ==
  \A s \in Settled : summary[s] = EntriesOf(s)

(* A settled Shift holds a handover for every Drawer that got a float.      *)
SettledShiftsAreHandedOver ==
  \A s \in Settled : assigned[s] \subseteq handed[s] /\ booked[s] > 0

(* A DSSR snapshot exists exactly for the closed days (ADR 0003).           *)
SnapshotIffClosed ==
  \A d \in Days : (dssr[d] # NoSnapshot) <=> (dayStatus[d] = "CLOSED")

(* The lateEntry flag tells the truth: only a closed day has late entries,  *)
(* and the snapshot of a closed day lists every Shift credit entry that was *)
(* recorded in time.                                                        *)
OnTimeCreditIsReported ==
  \A e \in Entries :
    entry[e] # NoEntry =>
      /\ entry[e].late => dayStatus[entry[e].day] = "CLOSED"
      /\ ( /\ dayStatus[entry[e].day] = "CLOSED"
           /\ ~entry[e].late
           /\ entry[e].shift # NoShift ) => e \in dssr[entry[e].day]

(* The sales and stock records of a closed day are sealed: no step of any   *)
(* request changes them (checkBusinessDayWriteEligibility).                 *)
StockSealed ==
  [][\A d \in Days : dayStatus[d] = "CLOSED" => StockRecords(d)' = StockRecords(d)]_vars

(* A day never reopens, and a locked Shift stays locked, although           *)
(* ReopenShift accepts LOCKED.                                              *)
ClosingIsFinal ==
  [][ /\ \A d \in Days : dayStatus[d] = "CLOSED" => dayStatus'[d] = "CLOSED"
      /\ \A s \in Shifts : status[s] = "LOCKED" => status'[s] = "LOCKED" ]_vars

(* Disputed: a reopen and re-close must not book the metered sales again    *)
(* (docs/roadmap/phase-HR-historical-replay.md:841).                        *)
MeteredSalesBookedOnce == \A s \in Shifts : booked[s] <= 1

(* The station's books, as StationContract promises them.                   *)
Running == IF OpenShifts = {} THEN NoShift ELSE CHOOSE s \in OpenShifts : TRUE

Contract == INSTANCE StationContract WITH
  open   <- Running,
  home   <- shiftDay,
  sealed <- {d \in Days : dayStatus[d] = "CLOSED"},
  stock  <- [d \in Days |-> StockRecords(d)]

ImplementsContract == Contract!Spec
=============================================================================

------------------------------- MODULE FuelStock -------------------------------
(***************************************************************************)
(* The books of one fuel tank and the nozzle it feeds, next to the fuel     *)
(* itself.  What is pumped, tested and unloaded happens to `meter' and      *)
(* `tank'; the use cases see only what an honest operator reads off them    *)
(* and keep `book', the sum of the tank's stock movements.  All happens on  *)
(* one open Business Day (ShiftLifecycle has the sealing of days).          *)
(*                                                                         *)
(* Timestamps are positions in `log', which holds what is compared by time: *)
(* the Sale movements and the starts of the tanker lines' windows.          *)
(***************************************************************************)
EXTENDS Sums, Integers, Sequences, FiniteSets

CONSTANTS
  MaxShifts,    \* bound: Shifts opened
  MaxCloses,    \* bound: closes of a Shift
  MaxTankers,   \* bound: tankers
  MaxPumped,    \* bound: litres pumped
  MaxTests,     \* bound: litres pumped for testing and poured back
  Loads,        \* litres a tanker may bring
  FirstMeter,   \* the nozzle's currentReading before the first Shift
  FirstLevel    \* litres in the tank, and in its book, at the beginning

ASSUME FuelAssumption ==
  /\ {MaxShifts, MaxCloses, MaxTankers, MaxPumped, MaxTests} \subseteq Nat
  /\ Loads \subseteq Nat
  /\ FirstMeter \in Nat /\ FirstLevel \in Nat

Shifts == 1 .. MaxShifts  \* Shift i is the i-th opened

VARIABLES
  opened,    \* Shifts opened so far
  status,    \* shifts.status
  opening, closing, testing,
             \* the Shift's nozzle_readings row
  handed,    \* its Drawer was handed over
  dipped,    \* Shifts a stock_variances row names
  closes,    \* times it was closed
  closedAt,  \* shifts.closed_at
  log,       \* Sale movements and tanker lines, by time
  book,      \* the tank's stock movements, summed
  adjusted,  \* the Variance movements among them, summed
  meter, tank, pumped,
             \* the nozzle's totalizer; the litres in the tank; litres pumped to customers
  tested,    \* litres poured back since the last accepted handover
  reopened,  \* ghost: Shifts that were reopened
  quirks     \* ghost: which approximations were made, see Quirks

shiftVars == <<opened, status, opening, closing, testing, handed, dipped, closes, closedAt>>
fuelVars  == <<meter, tank, pumped, tested>>
bookVars  == <<log, book, adjusted>>
vars == <<shiftVars, fuelVars, bookVars, reopened, quirks>>

Quirks ==
  {"unread",      \* pumped litres were not booked yet when a tanker began, when a dip
                  \* came between Shifts, or when one in a Shift named a closed Shift
   "overtaken"}   \* a tanker was measured while an earlier one stayed pending

-----------------------------------------------------------------------------
Now == Len(log)

SaleRow(n) == [kind |-> "Sale", litres |-> n]
LineRow(n) == [kind |-> "Line", litres |-> n, before |-> tank, pumped |-> pumped,
               status |-> "PENDING", received |-> 0]

Sales == {i \in 1 .. Now : log[i].kind = "Sale"}
Lines == {i \in 1 .. Now : log[i].kind = "Line"}
Pending == {i \in Lines : log[i].status = "PENDING"}
Measured == Lines \ Pending

Litres(is) == Sum([i \in is |-> log[i].litres], is)

(* litresSoldBetween: Sale movements with from < createdAt <= to.           *)
SoldBetween(from, to) == Litres({i \in Sales : from < i /\ i <= to})

Booked == SoldBetween(0, Now)
Unbooked == pumped - Booked

OpenShifts == {s \in Shifts : status[s] = "OPEN"}

-----------------------------------------------------------------------------
Init ==
  /\ opened = 0
  /\ status = [s \in Shifts |-> "none"]
  /\ opening = [s \in Shifts |-> 0] /\ closing = opening /\ testing = opening
  /\ handed = [s \in Shifts |-> FALSE]
  /\ dipped = {}
  /\ closes = [s \in Shifts |-> 0]
  /\ closedAt = [s \in Shifts |-> 0]
  /\ log = <<>> /\ book = FirstLevel /\ adjusted = 0
  /\ meter = FirstMeter /\ tank = FirstLevel /\ pumped = 0 /\ tested = 0
  /\ reopened = {} /\ quirks = {}

(* The fuel.  Pumps run only during a Shift.                               *)
Pump ==
  /\ OpenShifts # {} /\ tank > 0 /\ pumped < MaxPumped
  /\ meter' = meter + 1 /\ tank' = tank - 1 /\ pumped' = pumped + 1
  /\ UNCHANGED <<shiftVars, tested, bookVars, reopened, quirks>>

Test ==
  /\ OpenShifts # {} /\ tank > 0
  /\ meter - FirstMeter - pumped < MaxTests
  /\ meter' = meter + 1 /\ tested' = tested + 1
  /\ UNCHANGED <<shiftVars, tank, pumped, bookVars, reopened, quirks>>

-----------------------------------------------------------------------------
(* Shifts and readings                                                     *)

(* The newest nozzle_readings row, else the nozzle's own reading.          *)
Seed == IF opened = 0 THEN FirstMeter ELSE closing[opened]

OpenShift ==
  LET s == opened + 1 IN
  /\ s \in Shifts /\ OpenShifts = {}
  /\ opened' = s
  /\ status' = [status EXCEPT ![s] = "OPEN"]
  /\ opening' = [opening EXCEPT ![s] = Seed]
  /\ closing' = [closing EXCEPT ![s] = Seed]
  /\ UNCHANGED <<testing, handed, dipped, closes, closedAt, fuelVars, bookVars,
                 reopened, quirks>>

(* The reading an honest operator enters: the meter, or, for an earlier     *)
(* Shift that was reopened, either that or what stands there.              *)
Readings(s) == IF s = opened THEN {meter} ELSE {meter, closing[s]}

RecordReadingsOfAny(s) ==  \* mutant: no check of the Shift's status
  \E r \in Readings(s) :
    /\ s <= opened /\ r >= opening[s]
    /\ closing' = [closing EXCEPT ![s] = r]
    /\ UNCHANGED <<opened, status, opening, testing, handed, dipped, closes, closedAt,
                   fuelVars, bookVars, reopened, quirks>>
RecordNozzleReadings(s) ==
  \E r \in Readings(s) :
    /\ status[s] = "OPEN" /\ r >= opening[s]
    /\ closing' = [closing EXCEPT ![s] = r]
    /\ UNCHANGED <<opened, status, opening, testing, handed, dipped, closes, closedAt,
                   fuelVars, bookVars, reopened, quirks>>

RecordHandover(s) ==
  \E r \in Readings(s) :
    /\ status[s] = "OPEN" /\ r >= opening[s]
    /\ testing[s] + tested <= r - opening[s]
    /\ closing' = [closing EXCEPT ![s] = r]
    /\ testing' = [testing EXCEPT ![s] = @ + tested]
    /\ tested' = 0
    /\ handed' = [handed EXCEPT ![s] = TRUE]
    /\ UNCHANGED <<opened, status, opening, dipped, closes, closedAt, meter, tank, pumped,
                   bookVars, reopened, quirks>>

(* Testing fuel went back to the tank: it is no sale.                      *)
GrossLitres(s, r) == r - opening[s]     \* mutant
SwappedLitres(s, r) == opening[s] - r   \* mutant
NetLitres(s, r) ==
  LET gross == r - opening[s] IN
  gross - (IF testing[s] <= gross THEN testing[s] ELSE gross)

(* A closing reading may come with the close.  What is metered is booked,   *)
(* again when the Shift is closed again.                                   *)
CloseShift(s) ==
  \E r \in Readings(s) \cup {closing[s]} :
    /\ status[s] = "OPEN" /\ handed[s] /\ r >= opening[s]
    /\ closes[s] < MaxCloses
    /\ status' = [status EXCEPT ![s] = "CLOSED"]
    /\ closing' = [closing EXCEPT ![s] = r]
    /\ log' = Append(log, SaleRow(NetLitres(s, r)))
    /\ book' = book - NetLitres(s, r)
    /\ closes' = [closes EXCEPT ![s] = @ + 1]
    /\ closedAt' = [closedAt EXCEPT ![s] = Now + 1]
    /\ UNCHANGED <<opened, opening, testing, handed, dipped, adjusted, fuelVars,
                   reopened, quirks>>

ReopenShift(s) ==
  /\ status[s] = "CLOSED" /\ OpenShifts = {} /\ s \notin dipped
  /\ status' = [status EXCEPT ![s] = "OPEN"]
  /\ closedAt' = [closedAt EXCEPT ![s] = 0]
  /\ reopened' = reopened \cup {s}
  /\ UNCHANGED <<opened, opening, closing, testing, handed, dipped, closes, fuelVars,
                 bookVars, quirks>>

-----------------------------------------------------------------------------
(* Tankers and dips                                                        *)

Unread == IF Unbooked = 0 THEN {} ELSE {"unread"}

(* A tanker unloads and is recorded with its before dip only.              *)
RecordDecantation ==
  \E n \in Loads :
    /\ Cardinality(Lines) < MaxTankers
    /\ log' = Append(log, LineRow(n))
    /\ tank' = tank + n
    /\ quirks' = quirks \cup Unread
    /\ UNCHANGED <<shiftVars, meter, pumped, tested, book, adjusted, reopened>>

MarkMeasured(is, received) ==
  [i \in 1 .. Now |-> IF i \in is
                      THEN [log[i] EXCEPT !.status = "MEASURED", !.received = received[i]]
                      ELSE log[i]]

Overtaken(is) ==
  IF \E i \in is, j \in Pending \ is : j < i THEN {"overtaken"} ELSE {}

(* The last tanker's after dip, with the litres pumped since its before dip, *)
(* measures it at once; below the before dip it would stay pending.        *)
MeasureWithAfterDip(i) ==
  LET received == tank - log[i].before + (pumped - log[i].pumped) IN
  /\ i \in Pending /\ \A j \in Lines : j <= i
  /\ received >= 0
  /\ log' = MarkMeasured({i}, [j \in {i} |-> received])
  /\ book' = book + received
  /\ quirks' = quirks \cup Overtaken({i})
  /\ UNCHANGED <<shiftVars, fuelVars, adjusted, reopened>>

(* What a dip makes of a pending line: its window ends where the next       *)
(* pending line's begins, else now.                                        *)
ReceivedUntilDip(i) ==  \* mutant: every window ends at the dip
  tank - log[i].before + SoldBetween(i, Now)
Received(i) ==
  LET later == {j \in Pending : j > i}
      next  == CHOOSE j \in later : \A k \in later : j <= k
  IN  IF later = {} THEN tank - log[i].before + SoldBetween(i, Now)
      ELSE log[next].before - log[i].before + SoldBetween(i, next)

(* The lines a dip measures.  With a Shift open it must name a closed one,  *)
(* and reaches the lines that began before that one closed.                *)
MeasuredByAnyDip(named) == {i \in Pending : Received(i) >= 0}  \* mutant
MeasuredByDip(named) ==
  LET closed == {s \in named : status[s] # "OPEN"} IN
  {i \in Pending : /\ Received(i) >= 0
                   /\ OpenShifts # {} => closed # {} /\ \A s \in closed : i <= closedAt[s]}

(* The received litres enter the book before what is expected is read; the  *)
(* book is brought to the dip unless a Shift is open.                      *)
ReconcileAlways(received) == tank - (book + received)  \* mutant
Reconcile(received) == IF OpenShifts = {} THEN tank - (book + received) ELSE 0

RecordStockCount(named) ==
  LET is       == MeasuredByDip(named)
      received == Sum([i \in is |-> Received(i)], is)
      variance == Reconcile(received)
  IN /\ \A s \in named : status[s] # "none"
     /\ log' = MarkMeasured(is, [i \in is |-> Received(i)])
     /\ book' = book + received + variance
     /\ adjusted' = adjusted + variance
     /\ dipped' = dipped \cup named
     /\ quirks' = quirks \cup Overtaken(is)
                         \cup (IF OpenShifts = {} \/ \E s \in named : status[s] # "OPEN"
                               THEN Unread ELSE {})
     /\ UNCHANGED <<opened, status, opening, closing, testing, handed, closes, closedAt,
                    fuelVars, reopened>>

-----------------------------------------------------------------------------
Next ==
  \/ Pump \/ Test \/ OpenShift \/ RecordDecantation
  \/ \E s \in Shifts : \/ RecordNozzleReadings(s) \/ RecordHandover(s)
                       \/ CloseShift(s) \/ ReopenShift(s)
  \/ \E i \in 1 .. Now : MeasureWithAfterDip(i)
  \/ \E named \in {{}} \cup {{s} : s \in Shifts} : RecordStockCount(named)

Spec == Init /\ [][Next]_vars

-----------------------------------------------------------------------------
(* Properties                                                              *)

SaleRows == [kind : {"Sale"}, litres : Nat]
LineRows == [kind : {"Line"}, litres : Nat, before : Nat, pumped : Nat,
             status : {"PENDING", "MEASURED"}, received : Nat]

(* The types of the variables.                                             *)
TypeOK ==
  /\ opened \in 0 .. MaxShifts
  /\ status \in [Shifts -> {"none", "OPEN", "CLOSED"}]
  /\ {opening, closing, testing, closes, closedAt} \subseteq [Shifts -> Nat]
  /\ handed \in [Shifts -> BOOLEAN]
  /\ dipped \subseteq Shifts /\ reopened \subseteq Shifts /\ quirks \subseteq Quirks
  /\ log \in Seq(SaleRows \cup LineRows)
  /\ book \in Int /\ adjusted \in Int
  /\ {meter, tank, pumped, tested} \subseteq Nat

(* A Shift starts at the reading the one before it ended at, so no metered  *)
(* litre is counted in two Shifts or in none; only reopening an earlier     *)
(* Shift can break the chain (open-shift.ts:334).                          *)
MeterContinuity ==
  \A s \in Shifts : s < opened /\ s \notin reopened => closing[s] = opening[s + 1]

(* Between Shifts, what was booked as sold is what was pumped up to the     *)
(* readings taken, testing left out, unless a Shift was closed twice.       *)
SalesFollowMeters ==
  opened > 0 /\ OpenShifts = {} /\ reopened = {} =>
    Booked = pumped - (meter - closing[opened] - tested)

(* No approximation was made that the code or its comments own up to.       *)
Exact == quirks = {} /\ reopened = {}

(* Where nothing is lost, no dip adjusts the book: no litre is counted both *)
(* as received and as found by the dip (record-stock-count.ts:178).         *)
NoPhantomVariance == Exact => adjusted = 0

(* A tanker's received quantity is what it unloaded, however many tankers    *)
(* wait for one dip.                                                       *)
ReceivedIsUnloaded == Exact => \A i \in Measured : log[i].received = log[i].litres

(* The book is the tank, up to the litres not booked and not measured yet.   *)
BookFollowsTank ==
  Exact => book = tank + Unbooked - Litres(Pending)

(* Disputed: with several pending lines on one tank the later tanker is      *)
(* never counted twice (measurement.ts:151).                               *)
LaterTankerCountedOnce ==
  "unread" \notin quirks /\ reopened = {} =>
    \A i \in Measured : log[i].received <= log[i].litres
=============================================================================

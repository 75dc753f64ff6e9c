--------------------------- MODULE ShiftTransactions ---------------------------
(***************************************************************************)
(* The station's transactions statement by statement, under PostgreSQL's   *)
(* READ COMMITTED isolation, on one Business Day.  A client request begins  *)
(* a transaction, which takes its locks one at a time, reads, and commits   *)
(* all its writes at once or is refused and rolled back:                    *)
(*   - the advisory inventory lock of the station (lockStationInventory);   *)
(*   - SELECT ... FOR UPDATE on Station, Business Day and Shift rows ("FU"); *)
(*   - FOR KEY SHARE on the parents of an inserted row, which the foreign   *)
(*     keys of events, stock_movements and ledger_entries take ("KS").      *)
(* CloseShift reads the Shift's money rows in the very statement that waits *)
(* for the Shift lock, so it sees them as they stood before the wait, and a *)
(* forced report (GenerateDssr) locks nothing before it has read the day.    *)
(*                                                                         *)
(* ShiftLifecycle has the same requests as single steps; what the locks     *)
(* buy is that this module implements it.                                   *)
(***************************************************************************)
EXTENDS Naturals, Sequences, FiniteSets

CONSTANTS
  Clients,      \* concurrent users of the API
  Shifts,       \* Shifts of the day
  Entries,      \* credit sale rows
  Sales,        \* counter cash sales, by sellers without a handover
  Kinds,        \* the requests the clients make
  MaxRequests,  \* bound: requests per client
  NoRequest, NoSummary, NoSnapshot, NoEntry, NoDay, NoShift, NoRead

AllKinds == {"Open", "Handover", "Close", "Reopen", "Lock", "CloseDay", "Credit",
             "Void", "Sale", "Merch", "DeleteMerch", "Report"}

ASSUME TransactionAssumption ==
  /\ Kinds \subseteq AllKinds /\ MaxRequests \in Nat
  /\ Shifts \cap {"inventory", "station", "day", "snapshot"} = {}  \* rows have names of their own

Day == 1  \* the only Business Day

(* shift_summaries and customer_transactions rows, and what a close and a    *)
(* report read before they write.                                          *)
SummaryRow == [credit : SUBSET Entries, cash : SUBSET Sales, products : SUBSET Sales,
               merch : BOOLEAN]
EntryRow   == [shift : Shifts, day : {Day}, late : BOOLEAN]
CloseRead  == [cash : SUBSET Sales, handed : BOOLEAN]
ReportRead == [lists : SUBSET Entries]

ASSUME AbsentAssumption ==
  /\ NoSummary \notin SummaryRow /\ NoEntry \notin EntryRow
  /\ \A es \in SUBSET Entries : es # NoSummary
  /\ \A cash \in SUBSET Sales : cash # NoSnapshot

VARIABLES
  dayStatus, status, handed, booked, sales, merch, summary, posted, entry, dssr,
            \* the committed rows, as in ShiftLifecycle
  req,      \* the request a client's open transaction serves
  pos,      \* how many locks of its plan the transaction holds
  read,     \* what CloseShift's load statement, or a report's, saw when it started
  left      \* requests a client may still make

dbVars == <<dayStatus, status, handed, booked, sales, merch, summary, posted, entry, dssr>>
txVars == <<req, pos, read, left>>
vars   == <<dayStatus, status, handed, booked, sales, merch, summary, posted, entry,
            dssr, req, pos, read, left>>

-----------------------------------------------------------------------------
(* Locks                                                                   *)

FU(row) == <<row, "FU">>
KS(row) == <<row, "KS">>

(* lockForWrite: Station -> Business Day -> Shift.                         *)
StationDayPath(s) == <<FU("station"), FU("day")>>  \* mutant: leaves the Shift unlocked
ShiftFirstPath(s) == <<FU(s), FU("day"), FU("station")>>  \* mutant
GatePath(s) == <<FU("station"), FU("day"), FU(s)>>

(* The locks of a request, in the order its statements take them.          *)
Plan(r) ==
  CASE r.kind \in {"Handover", "Reopen"} -> <<FU("inventory")>> \o GatePath(r.shift)
    [] r.kind \in {"Credit", "Sale", "Merch", "Lock"} -> GatePath(r.shift)
    [] r.kind = "Open"     -> <<FU("inventory"), FU("station"), FU("day")>>
    [] r.kind = "CloseDay" -> <<FU("station"), FU("day")>>
    [] r.kind = "Close"    -> <<FU("inventory"), FU(r.shift), KS("day"), KS("station")>>
    [] r.kind = "Void"     -> <<FU(r.shift), KS("day"), KS("station")>>
    [] r.kind = "DeleteMerch" -> <<>>
    [] r.kind = "Report"   -> <<FU("snapshot"), KS("station"), KS("day")>>

Busy     == {t \in Clients : req[t] # NoRequest}
Held(t)  == IF t \in Busy THEN {Plan(req[t])[i] : i \in 1 .. pos[t]} ELSE {}
Wants(t) == Plan(req[t])[pos[t] + 1]
Done(t)  == pos[t] = Len(Plan(req[t]))
Holds(t, row) == FU(row) \in Held(t)

Conflict(a, b) == a[1] = b[1] /\ "FU" \in {a[2], b[2]}

WaitsFor(t, u) ==
  /\ t # u /\ {t, u} \subseteq Busy
  /\ ~Done(t)
  /\ \E l \in Held(u) : Conflict(Wants(t), l)

(* Everyone in the set waits for someone in the set.                       *)
Knot(C) == C # {} /\ \A t \in C : \E u \in C : WaitsFor(t, u)

-----------------------------------------------------------------------------
(* What a request finds once it holds its locks                            *)

Recorded == {e \in Entries : entry[e] # NoEntry}

EntriesOf(s) == {e \in Entries : entry[e] # NoEntry /\ entry[e].shift = s}
OpenShifts   == {s \in Shifts : status[s] = "OPEN"}

(* The rows a Shift Summary is projected from, read in a fresh statement;   *)
(* the cash figure is the one the close computed from its own read.         *)
ProjectionOfFreshCash(s, credit, cash) ==  \* mutant: recomputes the cash
  [credit |-> credit, cash |-> sales[s], products |-> sales[s], merch |-> merch[s]]
Projection(s, credit, cash) ==
  [credit |-> credit, cash |-> cash, products |-> sales[s], merch |-> merch[s]]

(* The Business Day's status admits the write.                             *)
DayRefusesByStatus(r) ==  \* mutant: a day closes over a running Shift
  \/ r.kind \in {"Handover", "Sale", "Merch", "Open", "Reopen"} /\ dayStatus = "CLOSED"
  \/ r.kind = "Lock" /\ dayStatus = "OPEN"
  \/ r.kind = "CloseDay" /\ dayStatus # "OPEN"
DayRefuses(r) ==
  \/ r.kind \in {"Handover", "Sale", "Merch", "Open", "Reopen"} /\ dayStatus = "CLOSED"
  \/ r.kind = "Lock" /\ dayStatus = "OPEN"
  \/ r.kind = "CloseDay" /\ (dayStatus # "OPEN" \/ OpenShifts # {})

(* The Shift's status admits it.                                           *)
ShiftRefuses(t) ==
  LET r == req[t] IN
  \/ r.kind \in {"Handover", "Sale", "Merch", "Void", "Close"} /\ status[r.shift] # "OPEN"
  \/ r.kind = "Close" /\ ~read[t].handed
  \/ r.kind = "Lock" /\ status[r.shift] # "CLOSED"
  \/ r.kind = "Reopen" /\ (status[r.shift] = "OPEN" \/ OpenShifts \ {r.shift} # {})

Refused(t) ==
  LET r == req[t] IN
  \/ r.kind = "Open" /\ Holds(t, "station") /\ OpenShifts # {}
  \/ Holds(t, "day") /\ DayRefuses(r)
  \/ Holds(t, r.shift) /\ ShiftRefuses(t)

-----------------------------------------------------------------------------
Init ==
  /\ dayStatus = "none"
  /\ status = [s \in Shifts |-> "none"]
  /\ handed = [s \in Shifts |-> FALSE]
  /\ booked = [s \in Shifts |-> 0]
  /\ sales = [s \in Shifts |-> {}]
  /\ merch = [s \in Shifts |-> FALSE]
  /\ summary = [s \in Shifts |-> NoSummary]
  /\ posted = [s \in Shifts |-> NoSnapshot]
  /\ entry = [e \in Entries |-> NoEntry]
  /\ dssr = NoSnapshot
  /\ req = [t \in Clients |-> NoRequest]
  /\ pos = [t \in Clients |-> 0]
  /\ read = [t \in Clients |-> NoRead]
  /\ left = [t \in Clients |-> MaxRequests]

(* The unlocked reads that precede a transaction's locks: discover finds    *)
(* the Shift and its day, a void its row, a merchandise delete the Shift's   *)
(* status and a report the day's.                                           *)
DayHasReport(status_) == status_ # "none"  \* mutant: reports a running day
DayIsFinal(status_) == status_ = "CLOSED"

Discovered(r) ==
  CASE r.kind = "Open" -> status[r.shift] = "none"
    [] r.kind = "CloseDay" -> dayStatus # "none"
    [] r.kind = "Void" -> entry[r.item] # NoEntry /\ entry[r.item].shift = r.shift
    [] r.kind = "Credit" -> status[r.shift] # "none" /\ entry[r.item] = NoEntry
    [] r.kind = "Sale" -> status[r.shift] # "none" /\ \A s \in Shifts : r.item \notin sales[s]
    [] r.kind = "DeleteMerch" -> status[r.shift] = "OPEN" /\ merch[r.shift]
    [] r.kind = "Report" -> DayIsFinal(dayStatus)
    [] OTHER -> status[r.shift] # "none"

(* A client gives every row it creates an id of its own, which no void that  *)
(* is under way can mean.                                                   *)
Fresh(r) ==
  /\ r.kind \in {"Credit", "Sale", "Open"} =>
       \A t \in Busy : req[t].kind = r.kind => req[t].item # r.item
  /\ r.kind = "Credit" =>
       \A t \in Busy : req[t].kind = "Void" => req[t].item # r.item

Requests ==
  LET On(kinds, items) == [kind : Kinds \cap kinds, shift : Shifts, item : items]
  IN  On({"Credit", "Void"}, Entries) \cup On({"Sale"}, Sales)
        \cup On({"Handover", "Close", "Reopen", "Lock", "Merch", "DeleteMerch"}, {NoShift})
        \cup {[kind |-> "Open", shift |-> s, item |-> s] :
                s \in {x \in Shifts : "Open" \in Kinds}}
        \cup {[kind |-> k, shift |-> NoShift, item |-> NoShift] :
                k \in Kinds \cap {"CloseDay", "Report"}}

Begin(t, r) ==
  /\ req[t] = NoRequest /\ left[t] > 0
  /\ Discovered(r) /\ Fresh(r)
  /\ req' = [req EXCEPT ![t] = r]
  /\ left' = [left EXCEPT ![t] = @ - 1]
  /\ UNCHANGED <<dbVars, pos, read>>

(* CloseShift's load statement starts: its snapshot is taken here, before   *)
(* the Shift row is locked.                                                 *)
StartLoad(t) ==
  /\ t \in Busy /\ req[t].kind = "Close"
  /\ pos[t] = 1 /\ read[t] = NoRead
  /\ read' = [read EXCEPT ![t] = [cash   |-> sales[req[t].shift],
                                  handed |-> handed[req[t].shift]]]
  /\ UNCHANGED <<dbVars, req, pos, left>>

(* GenerateDssr with force reads the day and writes the snapshot later.     *)
ReadDay(t) ==
  /\ t \in Busy /\ req[t].kind = "Report"
  /\ pos[t] = 0 /\ read[t] = NoRead
  /\ read' = [read EXCEPT ![t] = [lists |-> Recorded]]
  /\ UNCHANGED <<dbVars, req, pos, left>>

Acquire(t) ==
  /\ t \in Busy /\ ~Done(t)
  /\ ~Refused(t)
  /\ req[t].kind = "Close" /\ pos[t] = 1 => read[t] # NoRead
  /\ req[t].kind = "Report" => read[t] # NoRead
  /\ \A u \in Busy \ {t} : ~WaitsFor(t, u)
  /\ pos' = [pos EXCEPT ![t] = @ + 1]
  /\ UNCHANGED <<dbVars, req, read, left>>

(* The transaction ends and its locks go.                                  *)
End(t) ==
  /\ req' = [req EXCEPT ![t] = NoRequest]
  /\ pos' = [pos EXCEPT ![t] = 0]
  /\ read' = [read EXCEPT ![t] = NoRead]
  /\ UNCHANGED left

(* An error Result rolls the transaction back (RollbackSignal).            *)
RefuseWithoutRollback(t) == t \in Busy /\ Refused(t) /\ UNCHANGED vars  \* mutant
Refuse(t) ==
  /\ t \in Busy /\ Refused(t)
  /\ End(t)
  /\ UNCHANGED dbVars

(* The snapshot is deleted and inserted again under its id: a report that    *)
(* waited for another's violates the primary key.                           *)
Collide(t) ==
  /\ t \in Busy /\ req[t].kind = "Report" /\ pos[t] = 1
  /\ End(t)
  /\ UNCHANGED dbVars

(* PostgreSQL's deadlock detector aborts a transaction of a wait cycle.    *)
DeadlockAbort(t) ==
  /\ \E C \in SUBSET Busy :
        /\ t \in C /\ Knot(C)
        /\ \A D \in SUBSET C : D # C => ~Knot(D)
  /\ End(t)
  /\ UNCHANGED dbVars

-----------------------------------------------------------------------------
(* The writes of each request                                              *)

WriteOpen(s) ==
  /\ status' = [status EXCEPT ![s] = "OPEN"]
  /\ dayStatus' = "OPEN"
  /\ UNCHANGED <<handed, booked, sales, merch, summary, posted, entry, dssr>>

WriteHandover(s) ==
  /\ handed' = [handed EXCEPT ![s] = TRUE]
  /\ UNCHANGED <<dayStatus, status, booked, sales, merch, summary, posted, entry, dssr>>

(* The summary and the SALE_CASH posting take the cash of the read; the     *)
(* projector reads the other rows again.                                    *)
WriteClose(s, cash) ==
  /\ booked' = [booked EXCEPT ![s] = @ + 1]
  /\ summary' = [summary EXCEPT ![s] = Projection(s, EntriesOf(s), cash)]
  /\ status' = [status EXCEPT ![s] = "CLOSED"]
  /\ posted' = [posted EXCEPT ![s] = cash]
  /\ UNCHANGED <<dayStatus, handed, sales, merch, entry, dssr>>

WriteReopen(s) ==
  /\ status' = [status EXCEPT ![s] = "OPEN"]
  /\ summary' = [summary EXCEPT ![s] = NoSummary]
  /\ posted' = [posted EXCEPT ![s] = NoSnapshot]
  /\ UNCHANGED <<dayStatus, handed, booked, sales, merch, entry, dssr>>

WriteLock(s) ==
  /\ status' = [status EXCEPT ![s] = "LOCKED"]
  /\ UNCHANGED <<dayStatus, handed, booked, sales, merch, summary, posted, entry, dssr>>

WriteCloseDay ==
  /\ dayStatus' = "CLOSED"
  /\ dssr' = Recorded
  /\ UNCHANGED <<status, handed, booked, sales, merch, summary, posted, entry>>

WriteReport(lists) ==
  /\ dssr' = lists
  /\ UNCHANGED <<dayStatus, status, handed, booked, sales, merch, summary, posted, entry>>

(* The row and, for a settled Shift, its summary projected again.          *)
WriteCreditOnly(s, e) ==  \* mutant: no refresh
  /\ entry' = [entry EXCEPT ![e] = [shift |-> s, day |-> Day, late |-> dayStatus = "CLOSED"]]
  /\ UNCHANGED <<dayStatus, status, handed, booked, sales, merch, summary, posted, dssr>>
WriteCredit(s, e) ==
  /\ entry' = [entry EXCEPT ![e] = [shift |-> s, day |-> Day, late |-> dayStatus = "CLOSED"]]
  /\ summary' = IF status[s] = "OPEN" \/ summary[s] = NoSummary THEN summary
                ELSE [summary EXCEPT ![s] = Projection(s, EntriesOf(s) \cup {e}, @.cash)]
  /\ UNCHANGED <<dayStatus, status, handed, booked, sales, merch, posted, dssr>>

WriteVoid(e) ==
  /\ entry' = [entry EXCEPT ![e] = NoEntry]
  /\ UNCHANGED <<dayStatus, status, handed, booked, sales, merch, summary, posted, dssr>>

WriteSale(s, x) ==
  /\ sales' = [sales EXCEPT ![s] = @ \cup {x}]
  /\ UNCHANGED <<dayStatus, status, handed, booked, merch, summary, posted, entry, dssr>>

WriteMerch(s, there) ==
  /\ merch' = [merch EXCEPT ![s] = there]
  /\ UNCHANGED <<dayStatus, status, handed, booked, sales, summary, posted, entry, dssr>>

Commit(t) ==
  LET r == req[t] IN
  /\ t \in Busy /\ Done(t) /\ ~Refused(t)
  /\ \/ r.kind = "Open" /\ WriteOpen(r.shift)
     \/ r.kind = "Handover" /\ WriteHandover(r.shift)
     \/ r.kind = "Close" /\ WriteClose(r.shift, read[t].cash)
     \/ r.kind = "Reopen" /\ WriteReopen(r.shift)
     \/ r.kind = "Lock" /\ WriteLock(r.shift)
     \/ r.kind = "CloseDay" /\ WriteCloseDay
     \/ r.kind = "Report" /\ WriteReport(read[t].lists)
     \/ r.kind = "Credit" /\ WriteCredit(r.shift, r.item)
     \/ r.kind = "Void" /\ WriteVoid(r.item)
     \/ r.kind = "Sale" /\ WriteSale(r.shift, r.item)
     \/ r.kind = "Merch" /\ WriteMerch(r.shift, TRUE)
     \/ r.kind = "DeleteMerch" /\ WriteMerch(r.shift, FALSE)
  /\ End(t)

Serve(t) ==
  \/ StartLoad(t) \/ ReadDay(t) \/ Acquire(t) \/ Refuse(t) \/ Collide(t)
  \/ DeadlockAbort(t) \/ Commit(t)

Next ==
  \E t \in Clients : (\E r \in Requests : Begin(t, r)) \/ Serve(t)

(* The server carries on with every transaction it has begun.              *)
Fairness == \A t \in Clients : WF_vars(Serve(t))

Spec == Init /\ [][Next]_vars /\ Fairness

-----------------------------------------------------------------------------
(* Properties                                                              *)

Settled == {s \in Shifts : status[s] \in {"CLOSED", "LOCKED"}}

(* The types of the variables.                                             *)
TypeOK ==
  /\ dayStatus \in {"none", "OPEN", "CLOSED"}
  /\ status \in [Shifts -> {"none", "OPEN", "CLOSED", "LOCKED"}]
  /\ {handed, merch} \subseteq [Shifts -> BOOLEAN]
  /\ booked \in [Shifts -> Nat]
  /\ sales \in [Shifts -> SUBSET Sales]
  /\ summary \in [Shifts -> SummaryRow \cup {NoSummary}]
  /\ posted \in [Shifts -> (SUBSET Sales) \cup {NoSnapshot}]
  /\ entry \in [Entries -> EntryRow \cup {NoEntry}]
  /\ dssr \in (SUBSET Entries) \cup {NoSnapshot}
  /\ req \in [Clients -> Requests \cup {NoRequest}]
  /\ pos \in [Clients -> Nat]
  /\ \A t \in Clients : pos[t] <= IF t \in Busy THEN Len(Plan(req[t])) ELSE 0
  /\ read \in [Clients -> CloseRead \cup ReportRead \cup {NoRead}]
  /\ \A t \in Clients : read[t] # NoRead =>
       /\ t \in Busy /\ req[t].kind \in {"Close", "Report"}
       /\ read[t] \in IF req[t].kind = "Close" THEN CloseRead ELSE ReportRead
  /\ left \in [Clients -> 0 .. MaxRequests]

(* A settled Shift's stored summary shows the credit entries and product    *)
(* sales that are in the tables, whatever committed while its close waited: *)
(* the projector's own reads repair the stale ones.  It shows every         *)
(* merchandise row too, and perhaps one that is gone: the delete checks the *)
(* Shift's status without a lock.                                          *)
SummaryMatchesTables ==
  \A s \in Settled : /\ summary[s].credit = EntriesOf(s)
                     /\ summary[s].products = sales[s]
                     /\ merch[s] => summary[s].merch

(* The cash the summary shows is the cash posted to the ledger, through     *)
(* every refresh, and none of it is from a sale the Shift does not have.    *)
PostedCashIsSummaryCash ==
  \A s \in Settled : /\ posted[s] = summary[s].cash
                     /\ summary[s].cash \subseteq sales[s]

(* A credit entry recorded before the day closed is in the day's report, for *)
(* any overlap of credit sales, the day's close and forced reports, which    *)
(* read the day without a lock and replace what the close stored.           *)
OnTimeCreditIsReported ==
  dayStatus = "CLOSED" => \A e \in Recorded : ~entry[e].late => e \in dssr

(* A counter sale commits only into a running Shift of an open day, however *)
(* long it waited for its locks.                                            *)
SalesCommitIntoRunningShift ==
  [][\A s \in Shifts : sales'[s] # sales[s] => status[s] = "OPEN" /\ dayStatus = "OPEN"]_vars

(* Every request ends: it commits, is refused, or is aborted by the         *)
(* deadlock detector.                                                       *)
RequestsEnd == \A t \in Clients : (t \in Busy) ~> (t \notin Busy)

(* Requests that lock in the canonical order Station -> Business Day ->      *)
(* Shift (resolve-shift-write.ts:49) never wait in a cycle.  CloseShift and *)
(* the voids do not: they start at the Shift row, and the foreign keys of   *)
(* their inserts lock its parents afterwards.                              *)
CanonicalOrderNeverKnots ==
  \A C \in SUBSET {t \in Busy : req[t].kind \notin {"Close", "Void"}} : ~Knot(C)

(* No other client's step changes the verdict of the checks a request has   *)
(* made under its locks: what it found when it got them is what its commit  *)
(* relies on.                                                              *)
VerdictsStand ==
  [][\A t \in Busy :
       req'[t] = req[t] /\ pos'[t] = pos[t] => (Refused(t)' <=> Refused(t))]_vars

(* Disputed: the cash of a settled Shift includes the counter sales of      *)
(* sellers without a handover (shift-recon-sql.ts:94).                      *)
CounterCashIsCounted == \A s \in Settled : sales[s] \subseteq summary[s].cash

(* The atomic specification the transactions implement.                    *)
Lifecycle == INSTANCE ShiftLifecycle WITH
  LastDay    <- Day,
  Drawers    <- {Day},
  Attendants <- {Day},
  MaxCloses  <- MaxRequests * Cardinality(Clients),
  today      <- Day,
  dayStatus  <- [d \in {Day} |-> dayStatus],
  shiftDay   <- [s \in Shifts |-> IF status[s] = "none" THEN NoDay ELSE Day],
  assigned   <- [s \in Shifts |-> IF status[s] = "none" THEN {} ELSE {Day}],
  handed     <- [s \in Shifts |-> {d \in {Day} : handed[s]}],
  merch      <- [s \in Shifts |-> {d \in {Day} : merch[s]}],
  dips       <- {},
  summary    <- [s \in Shifts |->
                   IF summary[s] = NoSummary THEN NoSummary ELSE summary[s].credit],
  posted     <- {s \in Shifts : posted[s] # NoSnapshot},
  dssr       <- [d \in {Day} |-> dssr]

(* Each transaction is one step of ShiftLifecycle, when it commits.         *)
ImplementsLifecycle == Lifecycle!Spec
=============================================================================

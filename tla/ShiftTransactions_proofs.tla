------------------------ MODULE ShiftTransactions_proofs ------------------------
(***************************************************************************)
(* What locks buy, for any number of clients and Shifts.                    *)
(*   - Every lock has a rank, a request that starts at the Station takes its *)
(*     locks by ascending rank, so along a chain of waits the wanted rank   *)
(*     grows and no chain closes.                                          *)
(*   - What a request has read under its locks is so when it commits, and    *)
(*     what a close or a report has read without them is still good enough   *)
(*     for the summaries, postings and reports they write.                  *)
(*   - So each transaction is one step of ShiftLifecycle, at its commit.     *)
(*   - A verdict reached under the locks stands until the commit.            *)
(***************************************************************************)
EXTENDS ShiftTransactions, SequenceTheorems, SumLemmas

ShiftFirst == {"Close", "Void"}

Rank(row) ==
  CASE row \in {"inventory", "snapshot"} -> 1
    [] row = "station" -> 2
    [] row = "day" -> 3
    [] OTHER -> 4

(* Locks are held up to `pos' in the plan of the request served.           *)
PlansFollowed ==
  /\ pos \in [Clients -> Nat]
  /\ req \in [Clients -> Requests \cup {NoRequest}]
  /\ \A t \in Clients : req[t] = NoRequest => pos[t] = 0
  /\ \A t \in Clients : req[t] # NoRequest => pos[t] <= Len(Plan(req[t]))

-----------------------------------------------------------------------------
LEMMA RequestKind == ASSUME NEW r \in Requests PROVE r.kind \in AllKinds
BY TransactionAssumption DEF Requests

LEMMA RequestShift ==
  ASSUME NEW r \in Requests, r.kind \in {"Handover", "Reopen", "Credit", "Sale", "Merch", "Lock"}
  PROVE  r.shift \in Shifts
BY DEF Requests

(* The plans, written out.                                                 *)
LEMMA PlanShape ==
  ASSUME NEW r, r.kind \in AllKinds
  PROVE  /\ r.kind \in {"Handover", "Reopen"} =>
              Plan(r) = <<FU("inventory"), FU("station"), FU("day"), FU(r.shift)>>
         /\ r.kind \in {"Credit", "Sale", "Merch", "Lock"} =>
              Plan(r) = <<FU("station"), FU("day"), FU(r.shift)>>
         /\ r.kind = "Open" => Plan(r) = <<FU("inventory"), FU("station"), FU("day")>>
         /\ r.kind = "CloseDay" => Plan(r) = <<FU("station"), FU("day")>>
         /\ r.kind = "Close" =>
              Plan(r) = <<FU("inventory"), FU(r.shift), KS("day"), KS("station")>>
         /\ r.kind = "Void" => Plan(r) = <<FU(r.shift), KS("day"), KS("station")>>
         /\ r.kind = "DeleteMerch" => Plan(r) = <<>>
         /\ r.kind = "Report" => Plan(r) = <<FU("snapshot"), KS("station"), KS("day")>>
<1>1. ASSUME NEW a, NEW b, NEW c, NEW d PROVE <<a>> \o <<b, c, d>> = <<a, b, c, d>>
  <2> DEFINE T == {a, b, c, d}
  <2>1. <<a>> \in Seq(T) /\ <<b, c, d>> \in Seq(T) /\ <<a, b, c, d>> \in Seq(T)
    OBVIOUS
  <2>2. /\ <<a>> \o <<b, c, d>> \in Seq(T) /\ Len(<<a>> \o <<b, c, d>>) = 4
        /\ \A i \in 1 .. 4 : (<<a>> \o <<b, c, d>>)[i] = <<a, b, c, d>>[i]
    BY <2>1, ConcatProperties
  <2> QED BY <2>1, <2>2, SeqEqual
<1>2. CASE r.kind \in {"Handover", "Reopen"}
  BY <1>1, <1>2 DEF Plan, GatePath
<1>3. CASE r.kind \in {"Credit", "Sale", "Merch", "Lock"}
  BY <1>3 DEF Plan, GatePath
<1>4. CASE r.kind = "Open"
  BY <1>4 DEF Plan
<1>5. CASE r.kind = "CloseDay"
  BY <1>5 DEF Plan
<1>6. CASE r.kind = "Close"
  BY <1>6 DEF Plan
<1>7. CASE r.kind = "Void"
  BY <1>7 DEF Plan
<1>8. CASE r.kind = "DeleteMerch"
  BY <1>8 DEF Plan
<1>9. CASE r.kind = "Report"
  BY <1>9 DEF Plan
<1> QED BY <1>2, <1>3, <1>4, <1>5, <1>6, <1>7, <1>8, <1>9 DEF AllKinds

LEMMA PlanLength == ASSUME NEW r, r.kind \in AllKinds PROVE Len(Plan(r)) \in Nat
BY PlanShape DEF AllKinds

(* A request that does not start at the Shift row ascends.                 *)
LEMMA ShiftRank == ASSUME NEW s \in Shifts PROVE Rank(s) = 4
BY TransactionAssumption DEF Rank

LEMMA PlanAscends ==
  ASSUME NEW r \in Requests, r.kind \notin ShiftFirst,
         NEW i \in 1 .. Len(Plan(r)), NEW j \in 1 .. Len(Plan(r)), i < j
  PROVE  Rank(Plan(r)[i][1]) < Rank(Plan(r)[j][1])
<1>0. r.kind \in AllKinds
  BY RequestKind
<1>1. CASE r.kind \in {"Handover", "Reopen"}
  <2>1. Plan(r) = <<FU("inventory"), FU("station"), FU("day"), FU(r.shift)>>
    BY <1>0, <1>1, PlanShape
  <2>2. Rank(r.shift) = 4
    BY <1>1, RequestShift, ShiftRank
  <2>3. Rank("inventory") = 1 /\ Rank("station") = 2 /\ Rank("day") = 3
    BY DEF Rank
  <2> QED BY <2>1, <2>2, <2>3 DEF FU
<1>2. CASE r.kind \in {"Credit", "Sale", "Merch", "Lock"}
  <2>1. Plan(r) = <<FU("station"), FU("day"), FU(r.shift)>>
    BY <1>0, <1>2, PlanShape
  <2>2. Rank(r.shift) = 4
    BY <1>2, RequestShift, ShiftRank
  <2>3. Rank("station") = 2 /\ Rank("day") = 3
    BY DEF Rank
  <2> QED BY <2>1, <2>2, <2>3 DEF FU
<1>3. CASE r.kind = "Open"
  BY <1>0, <1>3, PlanShape DEF Rank, FU
<1>4. CASE r.kind = "CloseDay"
  BY <1>0, <1>4, PlanShape DEF Rank, FU
<1>5. CASE r.kind = "DeleteMerch"
  BY <1>0, <1>5, PlanShape
<1>6. CASE r.kind = "Report"
  BY <1>0, <1>6, PlanShape DEF Rank, FU, KS
<1> QED BY <1>0, <1>1, <1>2, <1>3, <1>4, <1>5, <1>6 DEF AllKinds, ShiftFirst

LEMMA RankBounds == ASSUME NEW row PROVE Rank(row) \in 1 .. 4
BY DEF Rank

-----------------------------------------------------------------------------
Waits(t) == \E u \in Clients : WaitsFor(t, u)

(* Who waits for someone who waits wants a lock of lower rank.             *)
LEMMA WaitsClimb ==
  ASSUME PlansFollowed, NEW t \in Busy, NEW u \in Busy,
         WaitsFor(t, u), Waits(u), req[u].kind \notin ShiftFirst
  PROVE  Rank(Wants(t)[1]) < Rank(Wants(u)[1])
<1>1. PICK l \in Held(u) : Conflict(Wants(t), l)
  BY DEF WaitsFor
<1>2. PICK i \in 1 .. pos[u] : l = Plan(req[u])[i]
  BY <1>1 DEF Held
<1>3. u \in Clients /\ req[u] \in Requests
  BY DEF Busy, PlansFollowed
<1>4. Len(Plan(req[u])) \in Nat
  BY <1>3, RequestKind, PlanLength
<1>5. pos[u] \in Nat /\ pos[u] < Len(Plan(req[u]))
  <2>1. ~Done(u)
    BY DEF Waits, WaitsFor
  <2>2. pos[u] \in Nat /\ pos[u] <= Len(Plan(req[u]))
    BY <1>3 DEF Busy, PlansFollowed
  <2> QED BY <1>4, <2>1, <2>2 DEF Done
<1>6. /\ i \in 1 .. Len(Plan(req[u])) /\ pos[u] + 1 \in 1 .. Len(Plan(req[u]))
      /\ i < pos[u] + 1
  BY <1>4, <1>5
<1>7. Rank(Plan(req[u])[i][1]) < Rank(Plan(req[u])[pos[u] + 1][1])
  BY <1>3, <1>6, PlanAscends
<1>8. Wants(t)[1] = l[1]
  BY <1>1 DEF Conflict
<1> QED BY <1>2, <1>7, <1>8 DEF Wants

LEMMA NoKnots == PlansFollowed => CanonicalOrderNeverKnots
<1> SUFFICES ASSUME PlansFollowed,
                    NEW C \in SUBSET {t \in Busy : req[t].kind \notin {"Close", "Void"}},
                    Knot(C)
             PROVE  FALSE
  BY DEF CanonicalOrderNeverKnots
<1> DEFINE W(t) == Rank(Wants(t)[1])
<1>1. ASSUME NEW t \in C PROVE \E u \in C : W(t) < W(u)
  <2>1. PICK u \in C : WaitsFor(t, u)
    BY <1>1 DEF Knot
  <2>2. t \in Busy /\ u \in Busy /\ req[u].kind \notin ShiftFirst
    BY <1>1, <2>1 DEF ShiftFirst
  <2>3. Waits(u)
    BY <2>1 DEF Knot, Busy, Waits
  <2> QED BY <2>1, <2>2, <2>3, WaitsClimb
<1>2. PICK a \in C : TRUE
  BY DEF Knot
<1>3. PICK b \in C : W(a) < W(b)
  BY <1>1, <1>2
<1>4. PICK c \in C : W(b) < W(c)
  BY <1>1, <1>3
<1>5. PICK d \in C : W(c) < W(d)
  BY <1>1, <1>4
<1>6. PICK e \in C : W(d) < W(e)
  BY <1>1, <1>5
<1>7. {W(a), W(b), W(c), W(d), W(e)} \subseteq 1 .. 4
  BY RankBounds
<1> HIDE DEF W
<1> QED BY <1>3, <1>4, <1>5, <1>6, <1>7

-----------------------------------------------------------------------------
LEMMA PlansInit == Init => PlansFollowed
BY DEF Init, PlansFollowed

(* A transaction that ends holds nothing.                                  *)
LEMMA PlansEnd == ASSUME PlansFollowed, NEW t \in Clients, End(t) PROVE PlansFollowed'
BY DEF PlansFollowed, End

LEMMA PlansStep == PlansFollowed /\ [Next]_vars => PlansFollowed'
<1> SUFFICES ASSUME PlansFollowed, [Next]_vars PROVE PlansFollowed'
  OBVIOUS
<1>1. ASSUME NEW t \in Clients, NEW r \in Requests, Begin(t, r) PROVE PlansFollowed'
  <2>1. Len(Plan(r)) \in Nat
    BY RequestKind, PlanLength
  <2>2. req[t] = NoRequest /\ req' = [req EXCEPT ![t] = r] /\ pos' = pos
    BY <1>1 DEF Begin
  <2> QED BY <2>1, <2>2 DEF PlansFollowed
<1>2. ASSUME NEW t \in Clients, StartLoad(t) \/ ReadDay(t) PROVE PlansFollowed'
  BY <1>2 DEF StartLoad, ReadDay, PlansFollowed
<1>3. ASSUME NEW t \in Clients, Acquire(t) PROVE PlansFollowed'
  <2>1. /\ req[t] # NoRequest /\ pos[t] # Len(Plan(req[t]))
        /\ pos' = [pos EXCEPT ![t] = @ + 1] /\ req' = req
    BY <1>3 DEF Acquire, Busy, Done
  <2>2. Len(Plan(req[t])) \in Nat
    BY <2>1, RequestKind, PlanLength DEF PlansFollowed
  <2>3. pos[t] \in Nat /\ pos[t] + 1 <= Len(Plan(req[t]))
    BY <2>1, <2>2 DEF PlansFollowed
  <2> QED BY <2>1, <2>3 DEF PlansFollowed
<1>4. ASSUME NEW t \in Clients,
             Refuse(t) \/ Collide(t) \/ DeadlockAbort(t) \/ Commit(t)
      PROVE  PlansFollowed'
  BY <1>4, PlansEnd DEF Refuse, Collide, DeadlockAbort, Commit
<1>5. CASE UNCHANGED vars
  BY <1>5 DEF vars, PlansFollowed
<1> QED BY <1>1, <1>2, <1>3, <1>4, <1>5 DEF Next, Serve

(* Requests that take their locks in the canonical order never wait for     *)
(* each other in a cycle; a deadlock needs a CloseShift or a void.         *)
THEOREM CanonicalLockOrder == Spec => []CanonicalOrderNeverKnots
<1>1. Init => PlansFollowed
  BY PlansInit
<1>2. PlansFollowed /\ [Next]_vars => PlansFollowed'
  BY PlansStep
<1>3. PlansFollowed => CanonicalOrderNeverKnots
  BY NoKnots
<1> QED BY <1>1, <1>2, <1>3, PTL DEF Spec

-----------------------------------------------------------------------------
(* Types, and what was true when a request began and still is.              *)

(* A close or report that has passed its read holds what it read.           *)
ReadsFirst ==
  \A t \in Busy : /\ req[t].kind = "Close" /\ pos[t] > 1 => read[t] # NoRead
                  /\ req[t].kind = "Report" /\ pos[t] > 0 => read[t] # NoRead

OnShift == {"Handover", "Close", "Reopen", "Lock", "Credit", "Void", "Sale", "Merch",
            "DeleteMerch"}

(* Shifts belong to the day, and nothing is asked of a Shift before it is there. *)
ShiftsAreThere ==
  /\ \A s \in Shifts : status[s] # "none" => dayStatus # "none"
  /\ \A e \in Recorded : status[entry[e].shift] # "none"
  /\ \A t \in Busy : req[t].kind \in OnShift => status[req[t].shift] # "none"

Types == TypeOK /\ PlansFollowed /\ ReadsFirst /\ ShiftsAreThere

LEMMA RequestFields ==
  ASSUME NEW r \in Requests
  PROVE  /\ r.kind \in OnShift \cup {"Open"} => r.shift \in Shifts
         /\ r.kind \in {"Credit", "Void"} => r.item \in Entries
         /\ r.kind = "Sale" => r.item \in Sales
BY DEF Requests, OnShift

(* The others go on as they were when a transaction ends.                  *)
LEMMA EndLeavesOthers ==
  ASSUME TypeOK, NEW t \in Clients, End(t)
  PROVE  /\ t \notin Busy'
         /\ \A u \in Busy' : /\ u \in Busy /\ u # t /\ req'[u] = req[u]
                             /\ pos'[u] = pos[u] /\ read'[u] = read[u]
BY DEF TypeOK, End, Busy

LEMMA EndTypes ==
  ASSUME TypeOK, NEW t \in Clients, End(t)
  PROVE  /\ req' \in [Clients -> Requests \cup {NoRequest}]
         /\ pos' \in [Clients -> Nat]
         /\ \A u \in Clients :
              pos'[u] <= IF u \in Busy' THEN Len(Plan(req'[u])) ELSE 0
         /\ read' \in [Clients -> CloseRead \cup ReportRead \cup {NoRead}]
         /\ \A u \in Clients : read'[u] # NoRead =>
              /\ u \in Busy' /\ req'[u].kind \in {"Close", "Report"}
              /\ read'[u] \in IF req'[u].kind = "Close" THEN CloseRead ELSE ReportRead
         /\ left' \in [Clients -> 0 .. MaxRequests]
BY DEF TypeOK, End, Busy

(* A transaction that commits holds every lock of its plan: the rows its    *)
(* checks read are locked.                                                 *)
LEMMA CommitHolds ==
  ASSUME TypeOK, NEW t \in Busy, Done(t)
  PROVE  LET r == req[t] IN
         /\ r.kind \in OnShift \ {"DeleteMerch"} => Holds(t, r.shift)
         /\ r.kind \in {"Handover", "Reopen", "Credit", "Sale", "Merch", "Lock", "Open", "CloseDay"}
              => Holds(t, "day")
         /\ r.kind = "Close" => pos[t] = 4
         /\ r.kind = "Report" => pos[t] = 3
<1> DEFINE r == req[t]
<1>1. r \in Requests /\ r.kind \in AllKinds /\ t \in Clients
  BY RequestKind DEF TypeOK, Busy
<1>2. pos[t] = Len(Plan(r)) /\ Held(t) = {Plan(r)[i] : i \in 1 .. Len(Plan(r))}
  BY DEF Done, Held
<1>3. CASE r.kind \in {"Handover", "Reopen"}
  <2>1. Plan(r) = <<FU("inventory"), FU("station"), FU("day"), FU(r.shift)>>
    BY <1>1, <1>3, PlanShape
  <2>2. Len(Plan(r)) = 4 /\ Plan(r)[3] = FU("day") /\ Plan(r)[4] = FU(r.shift)
    BY <2>1
  <2>3. {3, 4} \subseteq 1 .. Len(Plan(r))
    BY <2>2
  <2> QED BY <1>2, <1>3, <2>2, <2>3 DEF Holds
<1>4. CASE r.kind \in {"Credit", "Sale", "Merch", "Lock"}
  <2>1. Plan(r) = <<FU("station"), FU("day"), FU(r.shift)>>
    BY <1>1, <1>4, PlanShape
  <2>2. Len(Plan(r)) = 3 /\ Plan(r)[2] = FU("day") /\ Plan(r)[3] = FU(r.shift)
    BY <2>1
  <2>3. {2, 3} \subseteq 1 .. Len(Plan(r))
    BY <2>2
  <2> QED BY <1>2, <1>4, <2>2, <2>3 DEF Holds
<1>5. CASE r.kind = "Open"
  <2>1. Plan(r) = <<FU("inventory"), FU("station"), FU("day")>>
    BY <1>1, <1>5, PlanShape
  <2>2. Len(Plan(r)) = 3 /\ Plan(r)[3] = FU("day")
    BY <2>1
  <2> QED BY <1>2, <1>5, <2>2 DEF Holds, OnShift
<1>6. CASE r.kind = "CloseDay"
  <2>1. Plan(r) = <<FU("station"), FU("day")>>
    BY <1>1, <1>6, PlanShape
  <2>2. Len(Plan(r)) = 2 /\ Plan(r)[2] = FU("day")
    BY <2>1
  <2> QED BY <1>2, <1>6, <2>2 DEF Holds, OnShift
<1>7. CASE r.kind = "Close"
  <2>1. Plan(r) = <<FU("inventory"), FU(r.shift), KS("day"), KS("station")>>
    BY <1>1, <1>7, PlanShape
  <2>2. Len(Plan(r)) = 4 /\ Plan(r)[2] = FU(r.shift)
    BY <2>1
  <2> QED BY <1>2, <1>7, <2>2 DEF Holds
<1>8. CASE r.kind = "Void"
  <2>1. Plan(r) = <<FU(r.shift), KS("day"), KS("station")>>
    BY <1>1, <1>8, PlanShape
  <2>2. Len(Plan(r)) = 3 /\ Plan(r)[1] = FU(r.shift)
    BY <2>1
  <2> QED BY <1>2, <1>8, <2>2 DEF Holds
<1>9. CASE r.kind = "Report"
  <2>1. Plan(r) = <<FU("snapshot"), KS("station"), KS("day")>>
    BY <1>1, <1>9, PlanShape
  <2> QED BY <1>2, <1>9, <2>1 DEF OnShift
<1>10. CASE r.kind = "DeleteMerch"
  BY <1>10 DEF OnShift
<1> QED BY <1>1, <1>3, <1>4, <1>5, <1>6, <1>7, <1>8, <1>9, <1>10 DEF AllKinds

(* What a commit writes, with what its checks found under the locks.        *)
LEMMA CommitCases ==
  ASSUME Types, NEW t \in Clients, Commit(t)
  PROVE  LET r == req[t] IN
         /\ t \in Busy /\ End(t)
         /\ \/ r.kind = "Open" /\ r.shift \in Shifts /\ WriteOpen(r.shift) /\ dayStatus # "CLOSED"
            \/ r.kind = "Handover" /\ r.shift \in Shifts /\ WriteHandover(r.shift)
            \/ r.kind = "Close" /\ r.shift \in Shifts /\ status[r.shift] = "OPEN"
                 /\ read[t] \in CloseRead /\ WriteClose(r.shift, read[t].cash)
            \/ r.kind = "Reopen" /\ r.shift \in Shifts /\ status[r.shift] # "none"
                 /\ WriteReopen(r.shift)
            \/ r.kind = "Lock" /\ r.shift \in Shifts /\ status[r.shift] = "CLOSED"
                 /\ WriteLock(r.shift)
            \/ r.kind = "CloseDay" /\ WriteCloseDay
            \/ r.kind = "Report" /\ read[t] \in ReportRead /\ WriteReport(read[t].lists)
            \/ r.kind = "Credit" /\ r.shift \in Shifts /\ r.item \in Entries
                 /\ status[r.shift] # "none" /\ WriteCredit(r.shift, r.item)
            \/ r.kind = "Void" /\ r.shift \in Shifts /\ r.item \in Entries
                 /\ status[r.shift] = "OPEN" /\ WriteVoid(r.item)
            \/ r.kind = "Sale" /\ r.shift \in Shifts /\ r.item \in Sales
                 /\ status[r.shift] = "OPEN" /\ dayStatus = "OPEN" /\ WriteSale(r.shift, r.item)
            \/ r.kind = "Merch" /\ r.shift \in Shifts /\ status[r.shift] = "OPEN"
                 /\ WriteMerch(r.shift, TRUE)
            \/ r.kind = "DeleteMerch" /\ r.shift \in Shifts /\ WriteMerch(r.shift, FALSE)
<1> DEFINE r == req[t]
<1>1. t \in Busy /\ Done(t) /\ ~Refused(t) /\ End(t) /\ r \in Requests
  BY DEF Commit, Types, TypeOK, Busy
<1>2. /\ r.kind \in OnShift \ {"DeleteMerch"} => Holds(t, r.shift)
      /\ r.kind \in {"Handover", "Reopen", "Credit", "Sale", "Merch", "Lock", "Open", "CloseDay"}
           => Holds(t, "day")
      /\ r.kind = "Close" => pos[t] = 4
      /\ r.kind = "Report" => pos[t] = 3
  BY <1>1, CommitHolds DEF Types
<1>3. /\ r.kind \in OnShift \cup {"Open"} => r.shift \in Shifts
      /\ r.kind \in {"Credit", "Void"} => r.item \in Entries
      /\ r.kind = "Sale" => r.item \in Sales
  BY <1>1, RequestFields
<1>4. /\ r.kind \in {"Handover", "Sale", "Merch", "Open", "Reopen"} => dayStatus # "CLOSED"
      /\ r.kind \in {"Handover", "Sale", "Merch", "Void", "Close"} => status[r.shift] = "OPEN"
      /\ r.kind = "Lock" => status[r.shift] = "CLOSED"
  BY <1>1, <1>2 DEF Refused, DayRefuses, ShiftRefuses, OnShift
<1>5. /\ r.kind = "Close" => read[t] \in CloseRead
      /\ r.kind = "Report" => read[t] \in ReportRead
  BY <1>1, <1>2 DEF Types, TypeOK, ReadsFirst, Busy
<1>6. /\ r.kind \in OnShift => status[r.shift] # "none"
      /\ r.kind = "Sale" => dayStatus = "OPEN"
  BY <1>1, <1>3, <1>4 DEF Types, TypeOK, ShiftsAreThere, OnShift
<1> HIDE DEF r
<1>7. \/ r.kind = "Open" /\ WriteOpen(r.shift)
      \/ r.kind = "Handover" /\ WriteHandover(r.shift)
      \/ r.kind = "Close" /\ WriteClose(r.shift, read[t].cash)
      \/ r.kind = "Reopen" /\ WriteReopen(r.shift)
      \/ r.kind = "Lock" /\ WriteLock(r.shift)
      \/ r.kind = "CloseDay" /\ WriteCloseDay
      \/ r.kind = "Report" /\ WriteReport(read[t].lists)
      \/ r.kind = "Credit" /\ WriteCredit(r.shift, r.item)
      \/ r.kind = "Void" /\ WriteVoid(r.item)
      \/ r.kind = "Sale" /\ WriteSale(r.shift, r.item)
      \/ r.kind = "Merch" /\ WriteMerch(r.shift, TRUE)
      \/ r.kind = "DeleteMerch" /\ WriteMerch(r.shift, FALSE)
  BY DEF Commit, r
<1>8. t \in Busy /\ End(t)
  BY <1>1
<1>9. r = req[t]
  BY DEF r
<1> QED BY <1>3, <1>4, <1>5, <1>6, <1>7, <1>8, <1>9 DEF OnShift

LEMMA TypesInit == Init => Types
<1> SUFFICES ASSUME Init PROVE Types
  OBVIOUS
<1>1. PlansFollowed
  BY PlansInit
<1>2. TypeOK
  BY TransactionAssumption DEF Init, TypeOK, Busy
<1>3. ReadsFirst /\ ShiftsAreThere
  BY DEF Init, ReadsFirst, ShiftsAreThere, Recorded, Busy
<1> QED BY <1>1, <1>2, <1>3 DEF Types

(* What a commit writes is of its type.                                    *)
LEMMA CommitTypes ==
  ASSUME Types, NEW t \in Clients, Commit(t)
  PROVE  /\ dayStatus' \in {"none", "OPEN", "CLOSED"}
         /\ status' \in [Shifts -> {"none", "OPEN", "CLOSED", "LOCKED"}]
         /\ handed' \in [Shifts -> BOOLEAN] /\ merch' \in [Shifts -> BOOLEAN]
         /\ booked' \in [Shifts -> Nat]
         /\ sales' \in [Shifts -> SUBSET Sales]
         /\ summary' \in [Shifts -> SummaryRow \cup {NoSummary}]
         /\ posted' \in [Shifts -> (SUBSET Sales) \cup {NoSnapshot}]
         /\ entry' \in [Entries -> EntryRow \cup {NoEntry}]
         /\ dssr' \in (SUBSET Entries) \cup {NoSnapshot}
         /\ \A s \in Shifts : status'[s] # "none" => dayStatus' # "none"
         /\ \A s \in Shifts : status[s] # "none" => status'[s] # "none"
         /\ \A e \in Recorded' : status'[entry'[e].shift] # "none"
<1> DEFINE r == req[t]
<1> USE DEF Types, TypeOK, ShiftsAreThere, Recorded
<1>0. \A e \in Recorded : entry[e].shift \in Shifts
  BY DEF EntryRow
<1>1. CASE r.kind = "Open" /\ r.shift \in Shifts /\ WriteOpen(r.shift)
  BY <1>0, <1>1 DEF WriteOpen
<1>2. CASE r.shift \in Shifts /\ WriteHandover(r.shift)
  BY <1>0, <1>2 DEF WriteHandover
<1>3. CASE r.shift \in Shifts /\ status[r.shift] = "OPEN" /\ read[t] \in CloseRead
           /\ WriteClose(r.shift, read[t].cash)
  <2>1. read[t].cash \in SUBSET Sales
    BY <1>3 DEF CloseRead
  <2>2. Projection(r.shift, EntriesOf(r.shift), read[t].cash) \in SummaryRow
    BY <1>3, <2>1 DEF Projection, SummaryRow, EntriesOf
  <2> QED BY <1>0, <1>3, <2>1, <2>2 DEF WriteClose
<1>4. CASE r.shift \in Shifts /\ status[r.shift] # "none" /\ WriteReopen(r.shift)
  BY <1>0, <1>4 DEF WriteReopen
<1>5. CASE r.shift \in Shifts /\ status[r.shift] = "CLOSED" /\ WriteLock(r.shift)
  BY <1>0, <1>5 DEF WriteLock
<1>6. CASE WriteCloseDay
  BY <1>0, <1>6 DEF WriteCloseDay, Recorded
<1>7. CASE read[t] \in ReportRead /\ WriteReport(read[t].lists)
  BY <1>0, <1>7 DEF WriteReport, ReportRead
<1>8. CASE /\ r.shift \in Shifts /\ r.item \in Entries /\ status[r.shift] # "none"
           /\ WriteCredit(r.shift, r.item)
  <2>1. [shift |-> r.shift, day |-> Day, late |-> dayStatus = "CLOSED"] \in EntryRow
    BY <1>8 DEF EntryRow
  <2>2. ASSUME summary[r.shift] # NoSummary
        PROVE  Projection(r.shift, EntriesOf(r.shift) \cup {r.item}, summary[r.shift].cash)
                 \in SummaryRow
    BY <1>8, <2>2 DEF Projection, SummaryRow, EntriesOf
  <2> HIDE DEF r
  <2> QED BY <1>0, <1>8, <2>1, <2>2 DEF WriteCredit
<1>9. CASE r.item \in Entries /\ WriteVoid(r.item)
  BY <1>0, <1>9 DEF WriteVoid
<1>10. CASE r.shift \in Shifts /\ r.item \in Sales /\ WriteSale(r.shift, r.item)
  BY <1>0, <1>10 DEF WriteSale
<1>11. CASE r.shift \in Shifts /\ (WriteMerch(r.shift, TRUE) \/ WriteMerch(r.shift, FALSE))
  BY <1>0, <1>11 DEF WriteMerch
<1> HIDE DEF r, Types, TypeOK, ShiftsAreThere, Recorded
<1> QED
  BY CommitCases, <1>1, <1>2, <1>3, <1>4, <1>5, <1>6, <1>7, <1>8, <1>9, <1>10, <1>11 DEF r

LEMMA TypesStep == Types /\ [Next]_vars => Types'
<1> SUFFICES ASSUME Types, [Next]_vars PROVE Types'
  OBVIOUS
<1>0. PlansFollowed'
  BY PlansStep DEF Types
<1>1. ASSUME NEW t \in Clients, NEW r \in Requests, Begin(t, r) PROVE Types'
  <2>1. /\ req[t] = NoRequest /\ left[t] > 0 /\ Discovered(r)
        /\ req' = [req EXCEPT ![t] = r] /\ left' = [left EXCEPT ![t] = @ - 1]
        /\ UNCHANGED <<dbVars, pos, read>>
    BY <1>1 DEF Begin
  <2>2. pos[t] = 0 /\ read[t] = NoRead
    BY <2>1 DEF Types, TypeOK, Busy
  <2>3. Len(Plan(r)) \in Nat
    BY RequestKind, PlanLength
  <2>4. TypeOK'
    BY <2>1, <2>2, <2>3, TransactionAssumption DEF Types, TypeOK, Busy, dbVars
  <2>5. ReadsFirst'
    BY <2>1, <2>2 DEF Types, TypeOK, ReadsFirst, Busy
  <2>6. r.kind \in OnShift => status[r.shift] # "none"
    <3>1. CASE r.kind = "Void"
      BY <2>1, <3>1, RequestFields
         DEF Discovered, Types, Recorded, ShiftsAreThere
    <3>2. CASE r.kind \in OnShift \ {"Void"}
      BY <2>1, <3>2 DEF Discovered, OnShift
    <3> QED BY <3>1, <3>2
  <2>7. ShiftsAreThere'
    BY <2>1, <2>6 DEF Types, TypeOK, Recorded, ShiftsAreThere, Busy, dbVars
  <2> QED BY <1>0, <2>4, <2>5, <2>7 DEF Types
<1>2. ASSUME NEW t \in Clients, StartLoad(t) PROVE Types'
  <2>1. /\ t \in Busy /\ req[t].kind = "Close" /\ read[t] = NoRead
        /\ read' = [read EXCEPT ![t] = [cash   |-> sales[req[t].shift],
                                        handed |-> handed[req[t].shift]]]
        /\ UNCHANGED <<dbVars, req, pos, left>>
    BY <1>2 DEF StartLoad
  <2>2. req[t].shift \in Shifts
    BY <2>1, RequestFields DEF Types, TypeOK, Busy, OnShift
  <2>3. [cash |-> sales[req[t].shift], handed |-> handed[req[t].shift]] \in CloseRead
    BY <2>2 DEF CloseRead, Types, TypeOK
  <2>4. TypeOK'
    BY <2>1, <2>3 DEF Types, TypeOK, Busy, dbVars
  <2>5. \A u \in Clients : u # t => read'[u] = read[u]
    BY <2>1 DEF Types, TypeOK
  <2>6. ReadsFirst'
    BY <1>2, <2>1, <2>5 DEF Types, TypeOK, ReadsFirst, Busy, StartLoad
  <2>7. ShiftsAreThere'
    BY <2>1 DEF Types, Recorded, ShiftsAreThere, Busy, dbVars
  <2> QED BY <1>0, <2>4, <2>6, <2>7 DEF Types
<1>3. ASSUME NEW t \in Clients, ReadDay(t) PROVE Types'
  <2>1. /\ t \in Busy /\ req[t].kind = "Report" /\ read[t] = NoRead /\ pos[t] = 0
        /\ read' = [read EXCEPT ![t] = [lists |-> Recorded]]
        /\ UNCHANGED <<dbVars, req, pos, left>>
    BY <1>3 DEF ReadDay
  <2>2. [lists |-> Recorded] \in ReportRead
    BY DEF ReportRead, Recorded
  <2>3. TypeOK'
    BY <2>1, <2>2 DEF Types, TypeOK, Busy, dbVars
  <2>4. \A u \in Clients : u # t => read'[u] = read[u]
    BY <2>1 DEF Types, TypeOK
  <2>5. ReadsFirst'
    BY <2>1, <2>4 DEF Types, TypeOK, ReadsFirst, Busy
  <2>6. ShiftsAreThere'
    BY <2>1 DEF Types, Recorded, ShiftsAreThere, Busy, dbVars
  <2> QED BY <1>0, <2>3, <2>5, <2>6 DEF Types
<1>4. ASSUME NEW t \in Clients, Acquire(t) PROVE Types'
  <2>1. /\ t \in Busy /\ pos' = [pos EXCEPT ![t] = @ + 1]
        /\ UNCHANGED <<dbVars, req, read, left>>
        /\ req[t].kind = "Close" /\ pos[t] = 1 => read[t] # NoRead
        /\ req[t].kind = "Report" => read[t] # NoRead
    BY <1>4 DEF Acquire
  <2>2. pos'[t] <= Len(Plan(req[t])) /\ pos' \in [Clients -> Nat]
    BY <1>0, <2>1 DEF PlansFollowed, Types, Busy
  <2>3. \A u \in Clients : u # t => pos'[u] = pos[u]
    BY <2>1 DEF Types, TypeOK
  <2>4. TypeOK'
    BY <2>1, <2>2, <2>3 DEF Types, TypeOK, Busy, dbVars
  <2>5. ReadsFirst'
    BY <2>1, <2>3 DEF Types, TypeOK, ReadsFirst, Busy
  <2>6. ShiftsAreThere'
    BY <2>1 DEF Types, Recorded, ShiftsAreThere, Busy, dbVars
  <2> QED BY <1>0, <2>4, <2>5, <2>6 DEF Types
<1>5. ASSUME NEW t \in Clients, End(t), UNCHANGED dbVars PROVE Types'
  <2>1. TypeOK'
    BY <1>5, EndTypes DEF Types, TypeOK, dbVars
  <2>2. ReadsFirst' /\ ShiftsAreThere'
    BY <1>5, EndLeavesOthers DEF Types, Recorded, ReadsFirst, ShiftsAreThere, dbVars
  <2> QED BY <1>0, <2>1, <2>2 DEF Types
<1>6. ASSUME NEW t \in Clients, Commit(t) PROVE Types'
  <2>1. End(t)
    BY <1>6 DEF Commit
  <2>2. TypeOK'
    BY <1>6, <2>1, EndTypes, CommitTypes DEF Types, TypeOK
  <2>3. ReadsFirst'
    BY <2>1, EndLeavesOthers DEF Types, ReadsFirst
  <2>4. \A u \in Busy' : req'[u].kind \in OnShift => status[req'[u].shift] # "none"
    BY <2>1, EndLeavesOthers DEF Types, ShiftsAreThere
  <2>5. \A u \in Busy' : req'[u].kind \in OnShift => req'[u].shift \in Shifts
    BY <2>2, RequestFields DEF TypeOK, Busy
  <2>6. ShiftsAreThere'
    BY <1>6, <2>4, <2>5, CommitTypes DEF ShiftsAreThere
  <2> QED BY <1>0, <2>2, <2>3, <2>6 DEF Types
<1>7. CASE UNCHANGED vars
  BY <1>0, <1>7 DEF Types, TypeOK, Recorded, ReadsFirst, ShiftsAreThere, Busy, vars
<1> QED
  BY <1>1, <1>2, <1>3, <1>4, <1>5, <1>6, <1>7 DEF Next, Serve, Refuse, Collide, DeadlockAbort

(* Every reachable state is well typed.                                    *)
THEOREM TransactionTypes == Spec => []TypeOK
<1>1. Types => TypeOK
  BY DEF Types
<1> QED BY <1>1, TypesInit, TypesStep, PTL DEF Spec

-----------------------------------------------------------------------------
(* The books                                                               *)

(* Requests under way mean rows of their own: no one else records the row a *)
(* credit sale will insert, and a void's row is its Shift's or gone.         *)
RowsMeant ==
  /\ \A t, u \in Busy :
       t # u /\ req[t].kind = "Credit" /\ req[u].kind \in {"Credit", "Void"} =>
         req[t].item # req[u].item
  /\ \A t \in Busy : req[t].kind = "Credit" => entry[req[t].item] = NoEntry
  /\ \A t \in Busy : req[t].kind = "Void" =>
       entry[req[t].item] = NoEntry \/ entry[req[t].item].shift = req[t].shift

(* What was read early is incomplete at worst: a close's cash is of sales   *)
(* the Shift has, a report lists what was recorded in time.                 *)
ReadsHold ==
  \A t \in Busy :
    /\ req[t].kind = "Close" /\ read[t] # NoRead => read[t].cash \subseteq sales[req[t].shift]
    /\ req[t].kind = "Report" =>
         /\ dayStatus = "CLOSED"
         /\ read[t] # NoRead => \A e \in Recorded : ~entry[e].late => e \in read[t].lists

Books ==
  /\ Types /\ RowsMeant /\ ReadsHold
  /\ \A s \in Settled : summary[s] \in SummaryRow
  /\ SummaryMatchesTables /\ PostedCashIsSummaryCash /\ OnTimeCreditIsReported

LEMMA BooksInit == Init => Books
<1> SUFFICES ASSUME Init PROVE Books
  OBVIOUS
<1>1. Types
  BY TypesInit
<1>2. RowsMeant /\ ReadsHold
  BY DEF Init, RowsMeant, ReadsHold, Busy
<1>3. Settled = {} /\ OnTimeCreditIsReported
  BY DEF Init, Settled, OnTimeCreditIsReported
<1> QED BY <1>1, <1>2, <1>3 DEF Books, SummaryMatchesTables, PostedCashIsSummaryCash

(* The rows only: a step that leaves the tables as they are.               *)
LEMMA SameBooks ==
  ASSUME Books, Types', UNCHANGED dbVars, RowsMeant', ReadsHold'
  PROVE  Books'
BY DEF Books, dbVars, Settled, SummaryMatchesTables, PostedCashIsSummaryCash,
       OnTimeCreditIsReported, EntriesOf, Recorded

LEMMA BeginBooks ==
  ASSUME Books, Types', NEW t \in Clients, NEW r \in Requests, Begin(t, r)
  PROVE  Books'
<1>1. /\ req[t] = NoRequest /\ Discovered(r) /\ Fresh(r)
      /\ req' = [req EXCEPT ![t] = r] /\ UNCHANGED <<dbVars, read>>
  BY DEF Begin
<1>2. /\ t \notin Busy /\ read[t] = NoRead /\ req'[t] = r
      /\ \A u \in Busy' : u # t => u \in Busy /\ req'[u] = req[u]
  BY <1>1 DEF Books, Types, TypeOK, Busy
<1>3. RowsMeant'
  <2>1. r.kind = "Credit" =>
          /\ entry[r.item] = NoEntry
          /\ \A u \in Busy : req[u].kind \in {"Credit", "Void"} => req[u].item # r.item
    BY <1>1 DEF Discovered, Fresh
  <2>2. r.kind = "Void" => entry[r.item] # NoEntry /\ entry[r.item].shift = r.shift
    BY <1>1 DEF Discovered
  <2>3. entry' = entry
    BY <1>1 DEF dbVars
  <2> QED BY <1>2, <2>1, <2>2, <2>3 DEF Books, RowsMeant
<1>4. ReadsHold'
  <2>1. r.kind = "Report" => dayStatus = "CLOSED"
    BY <1>1 DEF Discovered, DayIsFinal
  <2> QED BY <1>1, <1>2, <2>1 DEF Books, ReadsHold, dbVars, Recorded
<1> QED BY <1>1, <1>3, <1>4, SameBooks

LEMMA ReadBooks ==
  ASSUME Books, Types', NEW t \in Clients, StartLoad(t) \/ ReadDay(t) \/ Acquire(t)
  PROVE  Books'
<1>1. t \in Busy /\ UNCHANGED <<dbVars, req>>
  BY DEF StartLoad, ReadDay, Acquire
<1>2. Busy' = Busy /\ RowsMeant'
  BY <1>1 DEF Books, RowsMeant, dbVars, Busy
<1>3. CASE StartLoad(t)
  <2>1. /\ req[t].kind = "Close"
        /\ read' = [read EXCEPT ![t] = [cash   |-> sales[req[t].shift],
                                        handed |-> handed[req[t].shift]]]
    BY <1>3 DEF StartLoad
  <2>2. read'[t].cash = sales[req[t].shift] /\ \A u \in Busy : u # t => read'[u] = read[u]
    BY <1>1, <2>1 DEF Books, Types, TypeOK, Busy
  <2>3. ReadsHold'
    BY <1>1, <1>2, <2>1, <2>2 DEF Books, ReadsHold, dbVars, Recorded
  <2> QED BY <1>1, <1>2, <2>3, SameBooks
<1>4. CASE ReadDay(t)
  <2>1. req[t].kind = "Report" /\ read' = [read EXCEPT ![t] = [lists |-> Recorded]]
    BY <1>4 DEF ReadDay
  <2>2. read'[t].lists = Recorded /\ \A u \in Busy : u # t => read'[u] = read[u]
    BY <1>1, <2>1 DEF Books, Types, TypeOK, Busy
  <2>3. ReadsHold'
    BY <1>1, <1>2, <2>1, <2>2 DEF Books, ReadsHold, dbVars, Recorded
  <2> QED BY <1>1, <1>2, <2>3, SameBooks
<1>5. CASE Acquire(t)
  <2>1. read' = read
    BY <1>5 DEF Acquire
  <2>2. ReadsHold'
    BY <1>1, <1>2, <2>1 DEF Books, ReadsHold, dbVars, Recorded
  <2> QED BY <1>1, <1>2, <2>2, SameBooks
<1> QED BY <1>3, <1>4, <1>5

LEMMA EndBooks ==
  ASSUME Books, Types', NEW t \in Clients, End(t), UNCHANGED dbVars
  PROVE  Books'
<1>1. \A u \in Busy' : u \in Busy /\ u # t /\ req'[u] = req[u] /\ read'[u] = read[u]
  BY EndLeavesOthers DEF Books, Types
<1>2. RowsMeant' /\ ReadsHold'
  BY <1>1 DEF Books, RowsMeant, ReadsHold, dbVars, Recorded
<1> QED BY <1>2, SameBooks

(* A Shift's part of the books.                                            *)
ShiftBooks(s) ==
  s \in Settled =>
    /\ summary[s] \in SummaryRow
    /\ summary[s].credit = EntriesOf(s) /\ summary[s].products = sales[s]
    /\ merch[s] => summary[s].merch
    /\ posted[s] = summary[s].cash /\ summary[s].cash \subseteq sales[s]

LEMMA BooksByShift ==
  (/\ \A s \in Settled : summary[s] \in SummaryRow
   /\ SummaryMatchesTables /\ PostedCashIsSummaryCash) <=> \A s \in Shifts : ShiftBooks(s)
BY DEF ShiftBooks, SummaryMatchesTables, PostedCashIsSummaryCash, Settled

(* Whose rows a commit leaves alone has the same books.                    *)
LEMMA SameShiftBooks ==
  ASSUME NEW s \in Shifts, ShiftBooks(s),
         status'[s] = status[s], sales'[s] = sales[s], merch'[s] = merch[s],
         summary'[s] = summary[s], posted'[s] = posted[s], EntriesOf(s)' = EntriesOf(s)
  PROVE  ShiftBooks(s)'
BY DEF ShiftBooks, Settled

(* Every commit keeps the Shifts' books.                                   *)
LEMMA CommitShiftBooks ==
  ASSUME Books, Types', NEW t \in Clients, Commit(t), NEW s \in Shifts
  PROVE  ShiftBooks(s)'
<1> DEFINE r == req[t]
<1>0. ShiftBooks(s) /\ t \in Busy /\ TypeOK
  BY BooksByShift, CommitCases DEF Books, Types
<1>1. CASE r.shift \in Shifts /\ WriteOpen(r.shift)
  <2>1. r.shift = s => ShiftBooks(s)'
    BY <1>0, <1>1 DEF WriteOpen, ShiftBooks, Settled, TypeOK
  <2>2. r.shift # s => ShiftBooks(s)'
    BY <1>0, <1>1, SameShiftBooks DEF WriteOpen, EntriesOf, TypeOK
  <2> QED BY <2>1, <2>2
<1>2. CASE WriteHandover(r.shift) \/ WriteCloseDay \/ WriteReport(read[t].lists)
  BY <1>0, <1>2, SameShiftBooks DEF WriteHandover, WriteCloseDay, WriteReport, EntriesOf
<1>3. CASE /\ r.kind = "Close" /\ r.shift \in Shifts /\ read[t] \in CloseRead
           /\ WriteClose(r.shift, read[t].cash)
  <2>1. CASE r.shift = s
    <3>1. read[t].cash \subseteq sales[s]
      <4>1. read[t] # NoRead
        BY <1>0, <1>3, CommitHolds DEF Books, Types, ReadsFirst, Commit
      <4> QED BY <1>0, <1>3, <2>1, <4>1 DEF Books, ReadsHold
    <3>2. /\ summary'[s] = Projection(s, EntriesOf(s), read[t].cash)
          /\ posted'[s] = read[t].cash /\ sales' = sales /\ merch' = merch /\ entry' = entry
      BY <1>0, <1>3, <2>1 DEF WriteClose, TypeOK
    <3>3. EntriesOf(s)' = EntriesOf(s)
      BY <3>2 DEF EntriesOf
    <3>4. summary'[s] \in SummaryRow
      BY <1>0, <3>1, <3>2 DEF Projection, SummaryRow, EntriesOf, TypeOK
    <3> QED BY <3>1, <3>2, <3>3, <3>4 DEF ShiftBooks, Projection
  <2>2. r.shift # s => ShiftBooks(s)'
    BY <1>0, <1>3, SameShiftBooks DEF WriteClose, EntriesOf, TypeOK
  <2> QED BY <2>1, <2>2
<1>4. CASE r.shift \in Shifts /\ WriteReopen(r.shift)
  <2>1. r.shift = s => ShiftBooks(s)'
    BY <1>0, <1>4 DEF WriteReopen, ShiftBooks, Settled, TypeOK
  <2>2. r.shift # s => ShiftBooks(s)'
    BY <1>0, <1>4, SameShiftBooks DEF WriteReopen, EntriesOf, TypeOK
  <2> QED BY <2>1, <2>2
<1>5. CASE r.shift \in Shifts /\ status[r.shift] = "CLOSED" /\ WriteLock(r.shift)
  <2>1. EntriesOf(s)' = EntriesOf(s)
    BY <1>5 DEF WriteLock, EntriesOf
  <2>2. s \in Settled' => s \in Settled
    BY <1>0, <1>5 DEF WriteLock, Settled, TypeOK
  <2> QED BY <1>0, <1>5, <2>1, <2>2 DEF WriteLock, ShiftBooks
<1>6. CASE /\ r.kind = "Credit" /\ r.shift \in Shifts /\ r.item \in Entries
           /\ WriteCredit(r.shift, r.item)
  <2> DEFINE row == [shift |-> r.shift, day |-> Day, late |-> dayStatus = "CLOSED"]
  <2>1. entry[r.item] = NoEntry
    BY <1>0, <1>6 DEF Books, RowsMeant
  <2>2. row \in EntryRow /\ row # NoEntry /\ row.shift = r.shift
    <3>1. row \in EntryRow /\ row.shift = r.shift
      BY <1>6 DEF EntryRow
    <3> QED BY <3>1, AbsentAssumption
  <2>3. /\ entry' = [entry EXCEPT ![r.item] = row]
        /\ UNCHANGED <<status, sales, merch, posted>>
        /\ summary' = IF status[r.shift] = "OPEN" \/ summary[r.shift] = NoSummary THEN summary
             ELSE [summary EXCEPT ![r.shift] =
                     Projection(r.shift, EntriesOf(r.shift) \cup {r.item}, @.cash)]
    BY <1>6 DEF WriteCredit
  <2> HIDE DEF row
  <2>4. EntriesOf(s)' = IF r.shift = s THEN EntriesOf(s) \cup {r.item} ELSE EntriesOf(s)
    BY <1>0, <1>6, <2>1, <2>2, <2>3 DEF EntriesOf, TypeOK
  <2>5. CASE r.shift = s /\ s \in Settled
    <3>1. /\ summary'[s] = Projection(s, EntriesOf(s) \cup {r.item}, summary[s].cash)
          /\ summary[s] \in SummaryRow
      <4>1. summary[s] \in SummaryRow /\ status[s] # "OPEN"
        BY <1>0, <2>5 DEF ShiftBooks, Settled
      <4>2. summary[s] # NoSummary
        BY <4>1, AbsentAssumption
      <4> QED BY <1>0, <2>3, <2>5, <4>1, <4>2 DEF TypeOK
    <3>2. summary'[s] \in SummaryRow
      BY <1>0, <1>6, <3>1 DEF Projection, SummaryRow, EntriesOf, TypeOK
    <3> QED BY <1>0, <2>3, <2>4, <2>5, <3>1, <3>2 DEF ShiftBooks, Projection
  <2>6. CASE r.shift = s /\ s \notin Settled
    BY <2>3, <2>6 DEF ShiftBooks, Settled
  <2>7. CASE r.shift # s
    <3>1. summary'[s] = summary[s]
      BY <1>0, <2>3, <2>7 DEF TypeOK
    <3> QED BY <1>0, <2>3, <2>4, <2>7, <3>1, SameShiftBooks
  <2> QED BY <2>5, <2>6, <2>7
<1>7. CASE /\ r.kind = "Void" /\ r.shift \in Shifts /\ r.item \in Entries
           /\ status[r.shift] = "OPEN" /\ WriteVoid(r.item)
  <2>1. r.shift = s => ShiftBooks(s)'
    BY <1>7 DEF WriteVoid, ShiftBooks, Settled
  <2>2. CASE r.shift # s
    <3>1. r.item \notin EntriesOf(s)
      BY <1>0, <1>7, <2>2 DEF Books, RowsMeant, EntriesOf
    <3>2. EntriesOf(s)' = EntriesOf(s)
      BY <1>0, <1>7, <3>1 DEF WriteVoid, EntriesOf, TypeOK
    <3> QED BY <1>0, <1>7, <3>2, SameShiftBooks DEF WriteVoid
  <2> QED BY <2>1, <2>2
<1>8. CASE /\ r.shift \in Shifts /\ status[r.shift] = "OPEN"
           /\ WriteSale(r.shift, r.item) \/ WriteMerch(r.shift, TRUE)
  <2>1. r.shift = s => ShiftBooks(s)'
    BY <1>8 DEF WriteSale, WriteMerch, ShiftBooks, Settled
  <2>2. CASE r.shift # s
    <3>1. /\ UNCHANGED <<status, summary, posted, entry>>
          /\ sales'[s] = sales[s] /\ merch'[s] = merch[s]
      BY <1>0, <1>8, <2>2 DEF WriteSale, WriteMerch, TypeOK
    <3>2. EntriesOf(s)' = EntriesOf(s)
      BY <3>1 DEF EntriesOf
    <3> QED BY <1>0, <3>1, <3>2, SameShiftBooks
  <2> QED BY <2>1, <2>2
<1>9. CASE r.shift \in Shifts /\ WriteMerch(r.shift, FALSE)
  <2>1. EntriesOf(s)' = EntriesOf(s) /\ Settled' = Settled
    BY <1>9 DEF WriteMerch, EntriesOf, Settled
  <2>2. merch'[s] => merch[s]
    BY <1>0, <1>9 DEF WriteMerch, TypeOK
  <2> QED BY <1>0, <1>9, <2>1, <2>2 DEF WriteMerch, ShiftBooks
<1> HIDE DEF r
<1>10. r = req[t] /\ Types
  BY DEF r, Books
<1> QED
  BY CommitCases, <1>1, <1>2, <1>3, <1>4, <1>5, <1>6, <1>7, <1>8, <1>9, <1>10

(* What a commit does to rows others have read or mean.                    *)
LEMMA CommitRows ==
  ASSUME Books, Types', NEW t \in Clients, Commit(t)
  PROVE  /\ \A s \in Shifts : sales[s] \subseteq sales'[s]
         /\ dayStatus = "CLOSED" => dayStatus' = "CLOSED"
         /\ \A e \in Entries :
              \/ entry'[e] = entry[e]
              \/ entry'[e] = NoEntry
              \/ /\ req[t].kind = "Credit" /\ req[t].item = e
                 /\ dayStatus = "CLOSED" => entry'[e].late
<1> DEFINE r == req[t]
<1>0. TypeOK
  BY DEF Books, Types
<1>1. CASE WriteOpen(r.shift) /\ dayStatus # "CLOSED"
  BY <1>1 DEF WriteOpen
<1>2. CASE \/ WriteHandover(r.shift) \/ WriteClose(r.shift, read[t].cash) \/ WriteReopen(r.shift)
           \/ WriteLock(r.shift) \/ WriteCloseDay \/ WriteReport(read[t].lists)
           \/ WriteMerch(r.shift, TRUE) \/ WriteMerch(r.shift, FALSE)
  BY <1>2 DEF WriteHandover, WriteClose, WriteReopen, WriteLock, WriteCloseDay, WriteReport,
              WriteMerch
<1>3. CASE r.kind = "Credit" /\ WriteCredit(r.shift, r.item)
  <2>1. /\ entry' = [entry EXCEPT ![r.item] =
             [shift |-> r.shift, day |-> Day, late |-> dayStatus = "CLOSED"]]
        /\ UNCHANGED <<dayStatus, sales>>
    BY <1>3 DEF WriteCredit
  <2> QED BY <1>0, <1>3, <2>1 DEF TypeOK
<1>4. CASE WriteVoid(r.item)
  BY <1>0, <1>4 DEF WriteVoid, TypeOK
<1>5. CASE WriteSale(r.shift, r.item)
  BY <1>0, <1>5 DEF WriteSale, TypeOK
<1> HIDE DEF r
<1>6. r = req[t] /\ Types
  BY DEF r, Books
<1> QED BY CommitCases, <1>1, <1>2, <1>3, <1>4, <1>5, <1>6

LEMMA CommitBooks ==
  ASSUME Books, Types', NEW t \in Clients, Commit(t)
  PROVE  Books'
<1>1. /\ t \in Busy
      /\ \A u \in Busy' : u \in Busy /\ u # t /\ req'[u] = req[u] /\ read'[u] = read[u]
  BY CommitCases, EndLeavesOthers DEF Books, Types
<1>2. \A u \in Busy : /\ req[u].kind \in {"Credit", "Void"} => req[u].item \in Entries
                      /\ req[u].kind = "Close" => req[u].shift \in Shifts
  BY RequestFields DEF Books, Types, TypeOK, Busy, OnShift
<1>3. RowsMeant'
  <2>1. ASSUME NEW u \in Busy', req'[u].kind = "Credit" PROVE entry'[req'[u].item] = NoEntry
    BY <1>1, <1>2, <2>1, CommitRows DEF Books, RowsMeant
  <2>2. ASSUME NEW u \in Busy', req'[u].kind = "Void"
        PROVE  entry'[req'[u].item] = NoEntry \/ entry'[req'[u].item].shift = req'[u].shift
    BY <1>1, <1>2, <2>2, CommitRows DEF Books, RowsMeant
  <2> QED BY <1>1, <2>1, <2>2 DEF Books, RowsMeant
<1>4. dayStatus = "CLOSED" =>
        \A e \in Recorded' : ~entry'[e].late => e \in Recorded /\ ~entry[e].late
  BY CommitRows DEF Recorded
<1>5. ReadsHold'
  <2>1. ASSUME NEW u \in Busy', req'[u].kind = "Close", read'[u] # NoRead
        PROVE  read'[u].cash \subseteq sales'[req'[u].shift]
    BY <1>1, <1>2, <2>1, CommitRows DEF Books, ReadsHold
  <2>2. ASSUME NEW u \in Busy', req'[u].kind = "Report"
        PROVE  /\ dayStatus' = "CLOSED"
               /\ read'[u] # NoRead =>
                    \A e \in Recorded' : ~entry'[e].late => e \in read'[u].lists
    BY <1>1, <1>4, <2>2, CommitRows DEF Books, ReadsHold
  <2> QED BY <2>1, <2>2 DEF ReadsHold
<1>6. OnTimeCreditIsReported'
  <2>1. CASE WriteCloseDay
    BY <2>1 DEF WriteCloseDay, OnTimeCreditIsReported, Recorded
  <2>2. CASE /\ req[t].kind = "Report" /\ read[t] \in ReportRead
             /\ WriteReport(read[t].lists)
    <3>1. read[t] # NoRead
      BY <1>1, <2>2, CommitHolds DEF Books, Types, ReadsFirst, Commit
    <3> QED BY <1>1, <1>4, <2>2, <3>1 DEF Books, ReadsHold, WriteReport, OnTimeCreditIsReported
  <2>3. CASE dssr' = dssr /\ (dayStatus' = "CLOSED" => dayStatus = "CLOSED")
    BY <1>4, <2>3 DEF Books, OnTimeCreditIsReported
  <2> QED
    BY <2>1, <2>2, <2>3, CommitCases
       DEF Books, WriteOpen, WriteHandover, WriteClose, WriteReopen, WriteLock, WriteCredit,
           WriteVoid, WriteSale, WriteMerch
<1>7. \A s \in Shifts : ShiftBooks(s)'
  BY CommitShiftBooks
<1>8. /\ \A s \in Settled' : summary'[s] \in SummaryRow
      /\ SummaryMatchesTables' /\ PostedCashIsSummaryCash'
  BY <1>7 DEF ShiftBooks, SummaryMatchesTables, PostedCashIsSummaryCash, Settled
<1> QED BY <1>3, <1>5, <1>6, <1>8 DEF Books

LEMMA BooksStep == Books /\ [Next]_vars => Books'
<1> SUFFICES ASSUME Books, [Next]_vars PROVE Books'
  OBVIOUS
<1>0. Types'
  BY TypesStep DEF Books
<1>1. ASSUME NEW t \in Clients, NEW r \in Requests, Begin(t, r) PROVE Books'
  BY <1>0, <1>1, BeginBooks
<1>2. ASSUME NEW t \in Clients, StartLoad(t) \/ ReadDay(t) \/ Acquire(t) PROVE Books'
  BY <1>0, <1>2, ReadBooks
<1>3. ASSUME NEW t \in Clients, Refuse(t) \/ Collide(t) \/ DeadlockAbort(t) PROVE Books'
  BY <1>0, <1>3, EndBooks DEF Refuse, Collide, DeadlockAbort
<1>4. ASSUME NEW t \in Clients, Commit(t) PROVE Books'
  BY <1>0, <1>4, CommitBooks
<1>5. CASE UNCHANGED vars
  <2>1. UNCHANGED dbVars /\ RowsMeant' /\ ReadsHold'
    BY <1>5 DEF Books, RowsMeant, ReadsHold, Recorded, Busy, vars, dbVars
  <2> QED BY <1>0, <2>1, SameBooks
<1> QED BY <1>1, <1>2, <1>3, <1>4, <1>5 DEF Next, Serve

(* Whatever overlaps whatever, a settled Shift's summary shows the rows in   *)
(* the tables, although its close read them before it had the lock.         *)
THEOREM SummariesHold == Spec => []SummaryMatchesTables
<1>1. Books => SummaryMatchesTables
  BY DEF Books
<1> QED BY <1>1, BooksInit, BooksStep, PTL DEF Spec

(* The ledger has the cash the summary shows, and no cash of a sale the      *)
(* Shift does not have.                                                    *)
THEOREM PostingsHold == Spec => []PostedCashIsSummaryCash
<1>1. Books => PostedCashIsSummaryCash
  BY DEF Books
<1> QED BY <1>1, BooksInit, BooksStep, PTL DEF Spec

(* No forced report, however it overlaps credit sales and the day's close,   *)
(* loses an entry that was recorded in time.                               *)
THEOREM ReportsHold == Spec => []OnTimeCreditIsReported
<1>1. Books => OnTimeCreditIsReported
  BY DEF Books
<1> QED BY <1>1, BooksInit, BooksStep, PTL DEF Spec

(* The locks a counter sale waits for keep its Shift and day as its checks   *)
(* found them: it commits into a running Shift of an open day.              *)
THEOREM SalesNeedARunningShift == Spec => SalesCommitIntoRunningShift
<1>1. ASSUME Types, [Next]_vars, NEW s \in Shifts, sales'[s] # sales[s]
      PROVE  status[s] = "OPEN" /\ dayStatus = "OPEN"
  <2>1. PICK t \in Clients : Commit(t)
    BY <1>1 DEF Next, Serve, Begin, StartLoad, ReadDay, Acquire, Refuse, Collide, DeadlockAbort,
                vars, dbVars
  <2>2. /\ req[t].shift \in Shifts /\ status[req[t].shift] = "OPEN" /\ dayStatus = "OPEN"
        /\ WriteSale(req[t].shift, req[t].item)
    BY <1>1, <2>1, CommitCases
       DEF WriteOpen, WriteHandover, WriteClose, WriteReopen, WriteLock, WriteCloseDay,
           WriteReport, WriteCredit, WriteVoid, WriteMerch
  <2> QED BY <1>1, <2>2 DEF WriteSale, Types, TypeOK
<1>2. Types /\ [Next]_vars =>
        [\A s \in Shifts : sales'[s] # sales[s] => status[s] = "OPEN" /\ dayStatus = "OPEN"]_vars
  BY <1>1
<1> QED BY <1>2, TypesInit, TypesStep, PTL DEF Spec, SalesCommitIntoRunningShift

-----------------------------------------------------------------------------
(* The refinement.  What a request found before it had its locks is still   *)
(* so when it commits, and each client closes a Shift at most as often as    *)
(* it makes requests.                                                      *)

(* Rows to be created are not there, and are not created by another.        *)
RowsToCome ==
  /\ \A t, u \in Busy :
       t # u /\ req[t].kind = req[u].kind /\ req[t].kind \in {"Open", "Sale"} =>
         req[t].item # req[u].item
  /\ \A t \in Busy : req[t].kind = "Open" => status[req[t].shift] = "none"
  /\ \A t \in Busy : req[t].kind = "Sale" => \A s \in Shifts : req[t].item \notin sales[s]

(* What a close read of the handovers: they are not taken back.            *)
HandedStays ==
  \A t \in Busy :
    req[t].kind = "Close" /\ read[t] # NoRead /\ read[t].handed => handed[req[t].shift]

(* The requests a client is through with.                                  *)
Ended(t) == MaxRequests - left[t] - (IF req[t] = NoRequest THEN 0 ELSE 1)
AllEnded == Sum([t \in Clients |-> Ended(t)], Clients)

Budget ==
  /\ \A t \in Busy : left[t] < MaxRequests
  /\ \A s \in Shifts : booked[s] <= AllEnded

Found == Books /\ RowsToCome /\ HandedStays /\ Budget

LEMMA RequestItem == ASSUME NEW r \in Requests, r.kind = "Open" PROVE r.item = r.shift
BY DEF Requests

LEMMA FoundInit == ASSUME IsFiniteSet(Clients), Init PROVE Found
<1>1. Books
  BY BooksInit
<1>2. RowsToCome /\ HandedStays
  BY DEF Init, RowsToCome, HandedStays, Busy
<1>3. \A t \in Clients : [u \in Clients |-> Ended(u)][t] = 0
  BY TransactionAssumption DEF Init, Ended
<1>4. AllEnded = 0
  BY <1>3, SumZero DEF AllEnded
<1>5. Budget
  BY <1>4 DEF Budget, Init, Busy
<1> QED BY <1>1, <1>2, <1>5 DEF Found

(* What a commit does to the rows others are to create or have seen.        *)
LEMMA CommitCreates ==
  ASSUME Types, NEW t \in Clients, Commit(t), NEW s \in Shifts
  PROVE  LET r == req[t] IN
         /\ status[s] = "none" /\ status'[s] # "none" => r.kind = "Open" /\ r.shift = s
         /\ sales'[s] = sales[s] \/ (r.kind = "Sale" /\ sales'[s] = sales[s] \cup {r.item})
         /\ handed[s] => handed'[s]
         /\ booked'[s] <= booked[s] + 1
<1> DEFINE r == req[t]
<1> USE DEF Types, TypeOK
<1>0. booked[s] \in Nat
  OBVIOUS
<1>1. CASE r.kind = "Open" /\ WriteOpen(r.shift)
  BY <1>0, <1>1 DEF WriteOpen
<1>2. CASE WriteHandover(r.shift)
  BY <1>0, <1>2 DEF WriteHandover
<1>3. CASE r.shift \in Shifts /\ status[r.shift] = "OPEN" /\ WriteClose(r.shift, read[t].cash)
  BY <1>0, <1>3 DEF WriteClose
<1>4. CASE r.shift \in Shifts /\ status[r.shift] # "none" /\ WriteReopen(r.shift)
  BY <1>0, <1>4 DEF WriteReopen
<1>5. CASE r.shift \in Shifts /\ status[r.shift] = "CLOSED" /\ WriteLock(r.shift)
  BY <1>0, <1>5 DEF WriteLock
<1>6. CASE \/ WriteCloseDay \/ WriteReport(read[t].lists) \/ WriteCredit(r.shift, r.item)
           \/ WriteVoid(r.item) \/ WriteMerch(r.shift, TRUE) \/ WriteMerch(r.shift, FALSE)
  BY <1>0, <1>6 DEF WriteCloseDay, WriteReport, WriteCredit, WriteVoid, WriteMerch
<1>7. CASE r.kind = "Sale" /\ WriteSale(r.shift, r.item)
  BY <1>0, <1>7 DEF WriteSale
<1> HIDE DEF r
<1>8. r = req[t]
  BY DEF r
<1> QED BY CommitCases, <1>1, <1>2, <1>3, <1>4, <1>5, <1>6, <1>7, <1>8

(* The rows.                                                               *)
LEMMA RowsToComeStep ==
  ASSUME Books, Types', RowsToCome, HandedStays, NEW t \in Clients,
         (\E r \in Requests : Begin(t, r)) \/ Serve(t)
  PROVE  RowsToCome' /\ HandedStays'
<1>0. Types /\ TypeOK /\ TypeOK'
  BY DEF Books, Types
<1>1. ASSUME NEW r \in Requests, Begin(t, r) PROVE RowsToCome' /\ HandedStays'
  <2>1. /\ req[t] = NoRequest /\ Discovered(r) /\ Fresh(r)
        /\ req' = [req EXCEPT ![t] = r] /\ UNCHANGED <<dbVars, read>>
    BY <1>1 DEF Begin
  <2>2. /\ t \notin Busy /\ read[t] = NoRead /\ req'[t] = r
        /\ \A u \in Busy' : u # t => u \in Busy /\ req'[u] = req[u]
    BY <1>0, <2>1 DEF TypeOK, Busy
  <2>3. /\ r.kind = "Open" => status[r.shift] = "none"
        /\ r.kind = "Sale" => \A s \in Shifts : r.item \notin sales[s]
        /\ r.kind \in {"Open", "Sale"} =>
             \A u \in Busy : req[u].kind = r.kind => req[u].item # r.item
    BY <2>1 DEF Discovered, Fresh
  <2>4. RowsToCome'
    BY <2>1, <2>2, <2>3 DEF RowsToCome, dbVars
  <2>5. HandedStays'
    BY <2>1, <2>2 DEF HandedStays, dbVars
  <2> QED BY <2>4, <2>5
<1>2. CASE StartLoad(t)
  <2>1. /\ t \in Busy /\ UNCHANGED <<dbVars, req>>
        /\ read' = [read EXCEPT ![t] = [cash   |-> sales[req[t].shift],
                                        handed |-> handed[req[t].shift]]]
    BY <1>2 DEF StartLoad
  <2>2. read'[t].handed = handed[req[t].shift] /\ \A u \in Busy : u # t => read'[u] = read[u]
    BY <1>0, <2>1 DEF TypeOK, Busy
  <2> QED BY <2>1, <2>2 DEF RowsToCome, HandedStays, dbVars, Busy
<1>3. CASE ReadDay(t)
  <2>1. /\ t \in Busy /\ UNCHANGED <<dbVars, req>> /\ req[t].kind = "Report"
        /\ \A u \in Busy : u # t => read'[u] = read[u]
    BY <1>0, <1>3 DEF ReadDay, TypeOK, Busy
  <2> QED BY <2>1 DEF RowsToCome, HandedStays, dbVars, Busy
<1>4. CASE Acquire(t)
  BY <1>4 DEF Acquire, RowsToCome, HandedStays, dbVars, Busy
<1>5. CASE Refuse(t) \/ Collide(t) \/ DeadlockAbort(t)
  <2>1. End(t) /\ UNCHANGED dbVars
    BY <1>5 DEF Refuse, Collide, DeadlockAbort
  <2>2. \A u \in Busy' : u \in Busy /\ u # t /\ req'[u] = req[u] /\ read'[u] = read[u]
    BY <1>0, <2>1, EndLeavesOthers
  <2> QED BY <2>1, <2>2 DEF RowsToCome, HandedStays, dbVars
<1>6. CASE Commit(t)
  <2>1. /\ t \in Busy
        /\ \A u \in Busy' : u \in Busy /\ u # t /\ req'[u] = req[u] /\ read'[u] = read[u]
    BY <1>0, <1>6, CommitCases, EndLeavesOthers
  <2>2. \A u \in Busy : /\ req[u] \in Requests
                        /\ req[u].kind \in {"Open", "Close"} => req[u].shift \in Shifts
    BY <1>0, RequestFields DEF TypeOK, Busy, OnShift
  <2>3. ASSUME NEW u \in Busy', req'[u].kind = "Open" PROVE status'[req'[u].shift] = "none"
    <3>1. /\ u \in Busy /\ t # u /\ req'[u] = req[u] /\ req[u].shift \in Shifts
          /\ status[req[u].shift] = "none"
      BY <2>1, <2>2, <2>3 DEF RowsToCome
    <3>2. req[t].kind = "Open" => req[t].item # req[u].item
      BY <2>1, <2>3, <3>1 DEF RowsToCome
    <3>3. req[t].kind = "Open" => req[t].shift # req[u].shift
      BY <2>1, <2>2, <2>3, <3>1, <3>2, RequestItem
    <3> QED BY <1>0, <1>6, <3>1, <3>3, CommitCreates
  <2>4. ASSUME NEW u \in Busy', req'[u].kind = "Sale", NEW s \in Shifts
        PROVE  req'[u].item \notin sales'[s]
    <3>1. u \in Busy /\ t # u /\ req'[u] = req[u] /\ req[u].item \notin sales[s]
      BY <2>1, <2>4 DEF RowsToCome
    <3>2. req[t].kind = "Sale" => req[t].item # req[u].item
      BY <2>1, <2>4, <3>1 DEF RowsToCome
    <3> QED BY <1>0, <1>6, <3>1, <3>2, CommitCreates
  <2>5. RowsToCome'
    BY <2>1, <2>3, <2>4 DEF RowsToCome
  <2>6. HandedStays'
    <3>1. \A u \in Busy' : req'[u].kind = "Close" /\ handed[req'[u].shift] => handed'[req'[u].shift]
      BY <1>0, <1>6, <2>1, <2>2, CommitCreates
    <3> QED BY <2>1, <3>1 DEF HandedStays
  <2> QED BY <2>5, <2>6
<1> QED BY <1>1, <1>2, <1>3, <1>4, <1>5, <1>6 DEF Serve

(* Requests are counted as they end.                                       *)
LEMMA EndedType == ASSUME TypeOK, Budget, NEW t \in Clients PROVE Ended(t) \in Nat /\ Ended(t) <= MaxRequests
<1>1. left[t] \in 0 .. MaxRequests /\ (req[t] # NoRequest => left[t] < MaxRequests)
  BY DEF TypeOK, Budget, Busy
<1> QED BY <1>1, TransactionAssumption DEF Ended

(* A close costs a request.                                                *)
LEMMA BudgetKept ==
  ASSUME IsFiniteSet(Clients), TypeOK, TypeOK', Budget, NEW t \in Clients, NEW k \in {0, 1},
         \A u \in Clients \ {t} : req'[u] = req[u] /\ left'[u] = left[u],
         t \in Busy' => left'[t] < MaxRequests,
         Ended(t) + k <= Ended(t)',
         \A s \in Shifts : booked'[s] <= booked[s] + k
  PROVE  Budget'
<1>1. \A u \in Busy' : left'[u] < MaxRequests
  BY DEF Budget, Busy
<1>2. \A u \in Clients : Ended(u) \in Nat
  BY EndedType
<1>3. \A u \in Clients \ {t} : Ended(u)' = Ended(u)
  BY DEF Ended
<1>4. Ended(t)' \in Int
  BY TransactionAssumption DEF Ended, TypeOK
<1>5. AllEnded' = AllEnded + Ended(t)' - Ended(t) /\ AllEnded \in Int
  <2> DEFINE F == [u \in Clients |-> Ended(u)]
             G == [u \in Clients |-> Ended(u)']
  <2>1. \A u \in Clients : F[u] = Ended(u) /\ G[u] = Ended(u)'
    OBVIOUS
  <2>2. AllEnded = Sum(F, Clients) /\ AllEnded' = Sum(G, Clients)
    BY DEF AllEnded
  <2> HIDE DEF F, G
  <2>3. \A u \in Clients : F[u] \in Int /\ G[u] \in Int
    BY <1>2, <1>3, <1>4, <2>1
  <2>4. \A u \in Clients \ {t} : G[u] = F[u]
    BY <1>3, <2>1
  <2>5. Sum(G, Clients) = Sum(F, Clients) + G[t] - F[t]
    BY <2>3, <2>4, SumChange
  <2>6. Sum(F, Clients) \in Int
    BY <2>3, SumType
  <2> QED BY <2>1, <2>2, <2>5, <2>6
<1>6. \A s \in Shifts : booked[s] \in Nat /\ booked'[s] \in Nat /\ booked[s] <= AllEnded
  BY DEF TypeOK, Budget
<1>7. \A s \in Shifts : booked'[s] <= AllEnded'
  BY <1>2, <1>4, <1>5, <1>6
<1> QED BY <1>1, <1>7 DEF Budget

LEMMA BudgetStep ==
  ASSUME IsFiniteSet(Clients), Types, Types', Budget, NEW t \in Clients,
         (\E r \in Requests : Begin(t, r)) \/ Serve(t)
  PROVE  Budget'
<1>0. /\ TypeOK /\ TypeOK' /\ left[t] \in 0 .. MaxRequests /\ MaxRequests \in Nat
      /\ \A s \in Shifts : booked[s] \in Nat
  BY TransactionAssumption DEF Types, TypeOK
<1>1. ASSUME NEW r \in Requests, Begin(t, r) PROVE Budget'
  <2>1. /\ req[t] = NoRequest /\ left[t] > 0 /\ booked' = booked
        /\ req' = [req EXCEPT ![t] = r] /\ left' = [left EXCEPT ![t] = @ - 1]
    BY <1>1 DEF Begin, dbVars
  <2>2. \A u \in Clients \ {t} : req'[u] = req[u] /\ left'[u] = left[u]
    BY <1>0, <2>1 DEF TypeOK
  <2>3. left'[t] = left[t] - 1 /\ left'[t] < MaxRequests
    BY <1>0, <2>1 DEF TypeOK
  <2>4. Ended(t) + 0 <= Ended(t)'
    BY <1>0, <2>1, <2>3 DEF Ended
  <2>5. \A s \in Shifts : booked'[s] <= booked[s] + 0
    BY <1>0, <2>1
  <2> QED BY <1>0, <2>2, <2>3, <2>4, <2>5, BudgetKept
<1>2. CASE StartLoad(t) \/ ReadDay(t) \/ Acquire(t)
  <2>1. UNCHANGED <<req, left, booked>>
    BY <1>2 DEF StartLoad, ReadDay, Acquire, dbVars
  <2> QED BY <2>1 DEF Budget, AllEnded, Ended, Busy
<1>3. CASE Refuse(t) \/ Collide(t) \/ DeadlockAbort(t) \/ Commit(t)
  <2>1. t \in Busy /\ End(t) /\ \A s \in Shifts : booked'[s] <= booked[s] + 1
    <3>1. CASE Refuse(t) \/ Collide(t) \/ DeadlockAbort(t)
      BY <1>0, <3>1 DEF Refuse, Collide, DeadlockAbort, dbVars
    <3>2. CASE Commit(t)
      BY <3>2, CommitCreates, CommitCases
    <3> QED BY <1>3, <3>1, <3>2
  <2>2. /\ req' = [req EXCEPT ![t] = NoRequest] /\ left' = left /\ req[t] # NoRequest
    BY <2>1 DEF End, Busy
  <2>3. req'[t] = NoRequest /\ \A u \in Clients \ {t} : req'[u] = req[u] /\ left'[u] = left[u]
    BY <1>0, <2>2 DEF TypeOK
  <2>4. Ended(t) + 1 <= Ended(t)' /\ t \notin Busy'
    BY <1>0, <2>2, <2>3 DEF Ended, Busy
  <2> QED BY <1>0, <2>1, <2>3, <2>4, BudgetKept
<1> QED BY <1>1, <1>2, <1>3 DEF Serve

(* While a request is under way, fewer have ended than may be made.         *)
LEMMA RequestsCounted ==
  ASSUME IsFiniteSet(Clients), TypeOK, Budget, NEW t \in Busy, NEW s \in Shifts
  PROVE  booked[s] < MaxRequests * Cardinality(Clients)
<1> DEFINE F == [u \in Clients |-> Ended(u)]
           G == [u \in Clients |-> IF u = t THEN Ended(u) + 1 ELSE Ended(u)]
<1>1. \A u \in Clients : F[u] = Ended(u) /\ F[u] \in Nat /\ F[u] <= MaxRequests
  BY EndedType
<1>2. t \in Clients /\ Ended(t) < MaxRequests
  BY TransactionAssumption DEF Busy, Ended, TypeOK
<1>3. \A u \in Clients : G[u] = IF u = t THEN Ended(u) + 1 ELSE Ended(u)
  OBVIOUS
<1>4. AllEnded = Sum(F, Clients)
  BY DEF AllEnded
<1> HIDE DEF F, G
<1>5. \A u \in Clients : G[u] \in Int /\ G[u] <= MaxRequests
  BY <1>1, <1>2, <1>3, TransactionAssumption
<1>6. Sum(G, Clients) = Sum(F, Clients) + G[t] - F[t]
  BY <1>1, <1>2, <1>3, <1>5, SumChange
<1>7. Sum(G, Clients) <= MaxRequests * Cardinality(Clients)
  <2>1. MaxRequests \in Int
    BY TransactionAssumption
  <2> QED BY <1>5, <2>1, SumBounded
<1>8. Sum(F, Clients) \in Int /\ Sum(G, Clients) \in Int
  BY <1>1, <1>5, SumType
<1>9. booked[s] \in Nat /\ booked[s] <= AllEnded
  BY DEF TypeOK, Budget
<1>10. MaxRequests * Cardinality(Clients) \in Int
  BY FS_CardinalityType, TransactionAssumption
<1> QED BY <1>1, <1>2, <1>3, <1>4, <1>6, <1>7, <1>8, <1>9, <1>10

LEMMA FoundStep == ASSUME IsFiniteSet(Clients) PROVE Found /\ [Next]_vars => Found'
<1> SUFFICES ASSUME Found, [Next]_vars PROVE Found'
  OBVIOUS
<1>1. Books'
  BY BooksStep DEF Found
<1>2. ASSUME NEW t \in Clients, (\E r \in Requests : Begin(t, r)) \/ Serve(t) PROVE Found'
  BY <1>1, <1>2, RowsToComeStep, BudgetStep DEF Found, Books
<1>3. CASE UNCHANGED vars
  BY <1>1, <1>3 DEF Found, vars, RowsToCome, HandedStays, Budget, AllEnded, Ended, Busy
<1> QED BY <1>2, <1>3 DEF Next

-----------------------------------------------------------------------------
(* Steps of the lifecycle.  Merchandise deletes and forced reports check or *)
(* read without a lock and are not among the requests here.                *)

Locked == Kinds \cap {"DeleteMerch", "Report"} = {}

(* What the checks found is so at the commit.                              *)
LEMMA CommitFinds ==
  ASSUME IsFiniteSet(Clients), Locked, Found, NEW t \in Clients, Commit(t)
  PROVE  LET r == req[t] IN
         /\ r.kind \in {"Handover", "Sale", "Merch", "Reopen"} => dayStatus = "OPEN"
         /\ r.kind \in {"Handover", "Sale", "Merch", "Void", "Close"} => status[r.shift] = "OPEN"
         /\ r.kind = "Open" => /\ dayStatus # "CLOSED" /\ OpenShifts = {}
                               /\ status[r.shift] = "none"
         /\ r.kind = "Close" => /\ handed[r.shift] /\ read[t].cash \subseteq sales[r.shift]
                                /\ booked[r.shift] < MaxRequests * Cardinality(Clients)
         /\ r.kind = "Reopen" => /\ status[r.shift] \in {"CLOSED", "LOCKED"}
                                 /\ OpenShifts = {}
         /\ r.kind = "Lock" => status[r.shift] = "CLOSED" /\ dayStatus = "CLOSED"
         /\ r.kind = "CloseDay" => dayStatus = "OPEN" /\ OpenShifts = {}
         /\ r.kind = "Credit" => entry[r.item] = NoEntry /\ status[r.shift] # "none"
         /\ r.kind = "Void" =>
              entry[r.item] = NoEntry \/ entry[r.item].shift = r.shift
         /\ r.kind = "Sale" => \A s \in Shifts : r.item \notin sales[s]
<1> DEFINE r == req[t]
<1>1. /\ Types /\ TypeOK /\ t \in Busy /\ Done(t) /\ ~Refused(t) /\ r \in Requests
      /\ r.kind \in AllKinds
  BY RequestKind DEF Found, Books, Commit, Types, TypeOK, Busy
<1>2. /\ r.kind \in OnShift \ {"DeleteMerch"} => Holds(t, r.shift)
      /\ r.kind \in {"Handover", "Reopen", "Credit", "Sale", "Merch", "Lock", "Open", "CloseDay"}
           => Holds(t, "day")
      /\ r.kind = "Close" => pos[t] = 4
  BY <1>1, CommitHolds
<1>3. r.kind = "Open" => Holds(t, "station")
  <2>1. r.kind = "Open" => Len(Plan(r)) = 3 /\ Plan(r)[2] = FU("station")
    BY <1>1, PlanShape
  <2>2. pos[t] = Len(Plan(r)) /\ Held(t) = {Plan(r)[i] : i \in 1 .. Len(Plan(r))}
    BY <1>1 DEF Done, Held
  <2> QED BY <2>1, <2>2 DEF Holds
<1>4. /\ r.kind \in OnShift \cup {"Open"} => r.shift \in Shifts
      /\ r.kind \in OnShift => status[r.shift] # "none" /\ dayStatus # "none"
  BY <1>1, RequestFields DEF Types, ShiftsAreThere
<1>5. /\ r.kind \in {"Handover", "Sale", "Merch", "Open", "Reopen"} => dayStatus # "CLOSED"
      /\ r.kind = "Lock" => dayStatus # "OPEN"
      /\ r.kind = "CloseDay" => dayStatus = "OPEN" /\ OpenShifts = {}
      /\ r.kind = "Open" => OpenShifts = {}
  BY <1>1, <1>2, <1>3 DEF Refused, DayRefuses
<1>6. /\ r.kind \in {"Handover", "Sale", "Merch", "Void", "Close"} => status[r.shift] = "OPEN"
      /\ r.kind = "Close" => read[t].handed
      /\ r.kind = "Lock" => status[r.shift] = "CLOSED"
      /\ r.kind = "Reopen" => status[r.shift] # "OPEN" /\ OpenShifts \ {r.shift} = {}
  BY <1>1, <1>2 DEF Refused, ShiftRefuses, OnShift
<1>7. dayStatus \in {"none", "OPEN", "CLOSED"}
      /\ (r.kind \in OnShift => status[r.shift] \in {"none", "OPEN", "CLOSED", "LOCKED"})
  BY <1>1, <1>4 DEF TypeOK
<1>8. r.kind = "Close" => /\ handed[r.shift] /\ read[t].cash \subseteq sales[r.shift]
                          /\ booked[r.shift] < MaxRequests * Cardinality(Clients)
  <2>1. ASSUME r.kind = "Close"
        PROVE  handed[r.shift] /\ read[t].cash \subseteq sales[r.shift]
    <3>1. read[t] # NoRead
      BY <1>1, <1>2, <2>1 DEF Types, ReadsFirst
    <3> QED BY <1>1, <1>6, <2>1, <3>1 DEF Found, HandedStays, Books, ReadsHold
  <2>2. ASSUME r.kind = "Close" PROVE booked[r.shift] < MaxRequests * Cardinality(Clients)
    BY <1>1, <1>4, <2>2, RequestsCounted DEF Found, OnShift
  <2> QED BY <2>1, <2>2
<1>9. /\ r.kind = "Open" => status[r.shift] = "none"
      /\ r.kind = "Credit" => entry[r.item] = NoEntry
      /\ r.kind = "Void" => entry[r.item] = NoEntry \/ entry[r.item].shift = r.shift
      /\ r.kind = "Sale" => \A s \in Shifts : r.item \notin sales[s]
  BY <1>1 DEF Found, RowsToCome, Books, RowsMeant
<1>10. r.kind = "Reopen" => OpenShifts = {}
  BY <1>6 DEF OpenShifts
<1> HIDE DEF r
<1>11. r = req[t]
  BY DEF r
<1> QED BY <1>4, <1>5, <1>6, <1>7, <1>8, <1>9, <1>10, <1>11 DEF OnShift

LEMMA OpenRefines ==
  ASSUME TypeOK, NEW s \in Shifts, status[s] = "none", OpenShifts = {}, dayStatus # "CLOSED",
         WriteOpen(s)
  PROVE  Lifecycle!OpenShift(s, Day, {Day})
<1>1. /\ status' = [status EXCEPT ![s] = "OPEN"] /\ dayStatus' = "OPEN"
      /\ UNCHANGED <<handed, booked, sales, merch, summary, posted, entry, dssr>>
  BY DEF WriteOpen
<1>2. status'[s] = "OPEN" /\ \A u \in Shifts \ {s} : status'[u] = status[u]
  BY <1>1 DEF TypeOK
<1>3. Lifecycle!NoOtherOpen(s)
  BY DEF OpenShifts, Lifecycle!NoOtherOpen, Lifecycle!OpenShifts
<1>4. [d \in {Day} |-> dayStatus'] = [[d \in {Day} |-> dayStatus] EXCEPT ![Day] = "OPEN"]
  BY <1>1
<1>5. [u \in Shifts |-> IF status'[u] = "none" THEN NoDay ELSE Day]
        = [[u \in Shifts |-> IF status[u] = "none" THEN NoDay ELSE Day] EXCEPT ![s] = Day]
  BY <1>2
<1>6. [u \in Shifts |-> IF status'[u] = "none" THEN {} ELSE {Day}]
        = [[u \in Shifts |-> IF status[u] = "none" THEN {} ELSE {Day}] EXCEPT ![s] = {Day}]
  BY <1>2
<1>7. Day <= Day
  BY DEF Day
<1> QED
  BY <1>1, <1>3, <1>4, <1>5, <1>6, <1>7
     DEF Lifecycle!OpenShift, Lifecycle!stockVars, Lifecycle!creditVars

LEMMA HandoverRefines ==
  ASSUME TypeOK, NEW s \in Shifts, status[s] = "OPEN", dayStatus = "OPEN", WriteHandover(s)
  PROVE  Lifecycle!RecordHandover(s, Day)
BY DEF TypeOK, WriteHandover, Day, Lifecycle!RecordHandover, Lifecycle!StockGate,
       Lifecycle!Existing, Lifecycle!DayOf, Lifecycle!dayVars, Lifecycle!creditVars

LEMMA CloseRefines ==
  ASSUME TypeOK, NEW s \in Shifts, status[s] = "OPEN", handed[s], NEW cash \in SUBSET Sales,
         booked[s] < MaxRequests * Cardinality(Clients), WriteClose(s, cash)
  PROVE  Lifecycle!CloseShift(s)
<1>1. Projection(s, EntriesOf(s), cash) \in SummaryRow
  BY DEF Projection, SummaryRow, EntriesOf, TypeOK
<1>2. summary'[s] # NoSummary /\ summary'[s].credit = EntriesOf(s) /\ posted'[s] # NoSnapshot
  BY <1>1, AbsentAssumption DEF WriteClose, TypeOK, Projection
<1>3. Lifecycle!EntriesOf(s) = EntriesOf(s)
  BY DEF Lifecycle!EntriesOf, EntriesOf
<1> QED
BY <1>2, <1>3 DEF TypeOK, WriteClose, Day, Lifecycle!CloseShift, Lifecycle!PendingDrawers,
       Lifecycle!dayVars, Lifecycle!creditVars

LEMMA ReopenRefines ==
  ASSUME TypeOK, NEW s \in Shifts, status[s] \in {"CLOSED", "LOCKED"}, dayStatus = "OPEN",
         OpenShifts = {}, WriteReopen(s)
  PROVE  Lifecycle!ReopenShift(s)
BY DEF TypeOK, OpenShifts, WriteReopen, Day, Lifecycle!ReopenShift, Lifecycle!Reopenable,
       Lifecycle!Settled, Lifecycle!DayOf, Lifecycle!NoOtherOpen, Lifecycle!OpenShifts,
       Lifecycle!ReverseShiftClose, Lifecycle!dayVars, Lifecycle!stockVars, Lifecycle!creditVars

LEMMA LockRefines ==
  ASSUME TypeOK, NEW s \in Shifts, status[s] = "CLOSED", dayStatus = "CLOSED", WriteLock(s)
  PROVE  Lifecycle!LockShift(s)
BY DEF TypeOK, WriteLock, Day, Lifecycle!LockShift, Lifecycle!FinancialGate, Lifecycle!Existing,
       Lifecycle!DayOf, Lifecycle!dayVars, Lifecycle!stockVars, Lifecycle!creditVars

LEMMA CloseDayRefines ==
  ASSUME TypeOK, dayStatus = "OPEN", OpenShifts = {}, WriteCloseDay
  PROVE  Lifecycle!CloseBusinessDay(Day)
BY DEF TypeOK, OpenShifts, Recorded, EntryRow, WriteCloseDay, Day, Lifecycle!CloseBusinessDay,
       Lifecycle!HasOpenShift, Lifecycle!OpenShifts, Lifecycle!DayEntries, Lifecycle!stockVars

LEMMA CreditRefines ==
  ASSUME Books, NEW s \in Shifts, NEW e \in Entries, status[s] # "none", entry[e] = NoEntry,
         WriteCredit(s, e)
  PROVE  Lifecycle!RecordShiftCredit(e, s)
<1> DEFINE row == [shift |-> s, day |-> Day, late |-> dayStatus = "CLOSED"]
           listed(u) == IF summary[u] = NoSummary THEN NoSummary ELSE summary[u].credit
<1>1. TypeOK /\ row \in EntryRow /\ row # NoEntry
  <2>1. row \in EntryRow
    BY DEF EntryRow
  <2> QED BY <2>1, AbsentAssumption DEF Books, Types
<1>2. /\ entry' = [entry EXCEPT ![e] = row]
      /\ UNCHANGED <<dayStatus, status, handed, booked, sales, merch, posted, dssr>>
      /\ summary' = IF status[s] = "OPEN" \/ summary[s] = NoSummary THEN summary
           ELSE [summary EXCEPT ![s] = Projection(s, EntriesOf(s) \cup {e}, @.cash)]
  BY DEF WriteCredit
<1>3. Lifecycle!EntriesOf(s)' = EntriesOf(s) \cup {e}
  <2>1. row.shift = s
    OBVIOUS
  <2> HIDE DEF row
  <2> QED BY <1>1, <1>2, <2>1 DEF TypeOK, Lifecycle!EntriesOf, EntriesOf
<1>4. Lifecycle!RefreshShiftSummary(s)
  <2>1. CASE status[s] = "OPEN"
    BY <1>2, <2>1 DEF Lifecycle!RefreshShiftSummary
  <2>2. CASE status[s] # "OPEN"
    <3>1. s \in Settled
      BY <1>1, <2>2 DEF Settled, TypeOK
    <3>2. summary[s] \in SummaryRow /\ summary[s] # NoSummary /\ listed(s) # NoSummary
      <4>1. summary[s] \in SummaryRow
        BY <3>1 DEF Books
      <4>2. summary[s].credit \in SUBSET Entries
        BY <4>1 DEF SummaryRow
      <4> QED BY <4>1, <4>2, AbsentAssumption
    <3>3. summary' = [summary EXCEPT ![s] = Projection(s, EntriesOf(s) \cup {e}, summary[s].cash)]
      BY <1>2, <2>2, <3>2
    <3>4. Projection(s, EntriesOf(s) \cup {e}, summary[s].cash) \in SummaryRow
      BY <1>1, <3>2 DEF Projection, SummaryRow, EntriesOf, TypeOK
    <3>5. summary'[s] # NoSummary /\ summary'[s].credit = EntriesOf(s) \cup {e}
      BY <1>1, <3>3, <3>4, AbsentAssumption DEF TypeOK, Projection
    <3>6. \A u \in Shifts \ {s} : summary'[u] = summary[u]
      BY <1>1, <3>3 DEF TypeOK
    <3>7. [u \in Shifts |-> IF summary'[u] = NoSummary THEN NoSummary ELSE summary'[u].credit]
            = [[u \in Shifts |-> listed(u)] EXCEPT ![s] = EntriesOf(s) \cup {e}]
      BY <3>5, <3>6
    <3> QED BY <1>3, <2>2, <3>2, <3>7 DEF Lifecycle!RefreshShiftSummary
  <2> QED BY <2>1, <2>2
<1>5. Lifecycle!FinancialGate(s)
  BY DEF Lifecycle!FinancialGate, Lifecycle!Existing
<1> QED
  BY <1>2, <1>4, <1>5
     DEF Day, Lifecycle!RecordShiftCredit, Lifecycle!LateEntry, Lifecycle!dayVars, Lifecycle!stockVars

LEMMA VoidRefines ==
  ASSUME TypeOK, NEW s \in Shifts, NEW e \in Entries, status[s] = "OPEN",
         entry[e] = NoEntry \/ entry[e].shift = s, WriteVoid(e)
  PROVE  Lifecycle!VoidCredit(e) \/ UNCHANGED dbVars
<1>1. CASE entry[e] = NoEntry
  BY <1>1 DEF TypeOK, WriteVoid, dbVars
<1>2. CASE entry[e] # NoEntry /\ entry[e].shift = s
  BY <1>2 DEF TypeOK, WriteVoid, Lifecycle!VoidCredit, Lifecycle!dayVars, Lifecycle!stockVars
<1> QED BY <1>1, <1>2

LEMMA SaleRefines ==
  ASSUME TypeOK, NEW s \in Shifts, NEW x \in Sales, status[s] = "OPEN", dayStatus = "OPEN",
         \A u \in Shifts : x \notin sales[u], WriteSale(s, x)
  PROVE  Lifecycle!CreateSale(s, x)
BY DEF TypeOK, WriteSale, Day, Lifecycle!CreateSale, Lifecycle!StockGate, Lifecycle!Existing,
       Lifecycle!DayOf, Lifecycle!dayVars, Lifecycle!creditVars

LEMMA MerchRefines ==
  ASSUME TypeOK, NEW s \in Shifts, status[s] = "OPEN", dayStatus = "OPEN", WriteMerch(s, TRUE)
  PROVE  Lifecycle!RecordMerchandiseHandover(s, Day)
BY DEF TypeOK, WriteMerch, Day, Lifecycle!RecordMerchandiseHandover, Lifecycle!StockGate,
       Lifecycle!Existing, Lifecycle!DayOf, Lifecycle!dayVars, Lifecycle!creditVars

(* A commit is a step of the lifecycle; every other step is none.          *)
LEMMA SameLifecycle == ASSUME UNCHANGED dbVars PROVE UNCHANGED Lifecycle!vars
BY DEF dbVars, Lifecycle!vars

LEMMA CommitRefines ==
  ASSUME IsFiniteSet(Clients), Locked, Found, NEW t \in Clients, Commit(t)
  PROVE  Lifecycle!Next \/ UNCHANGED Lifecycle!vars
<1> DEFINE r == req[t]
<1> SUFFICES ASSUME NEW s, s = r.shift, NEW x, x = r.item
             PROVE  Lifecycle!Next \/ UNCHANGED Lifecycle!vars
  OBVIOUS
<1>0. TypeOK /\ Books /\ r \in Requests
  BY CommitCases DEF Found, Books, Types, TypeOK, Busy
<1>1. r.kind \notin {"DeleteMerch", "Report"}
  <2>1. r.kind \in Kinds
    BY <1>0 DEF Requests
  <2> QED BY <2>1 DEF Locked
<1>2. Day \in Lifecycle!Days /\ {Day} \in SUBSET {Day} /\ Day \in {Day}
  BY DEF Day, Lifecycle!Days
<1>3. CASE r.kind = "Open" /\ r.shift \in Shifts /\ WriteOpen(r.shift)
  <2>1. s \in Shifts /\ WriteOpen(s)
    BY <1>3 DEF WriteOpen
  <2>2. Lifecycle!OpenShift(s, Day, {Day})
    BY <1>0, <1>3, <2>1, CommitFinds, OpenRefines
  <2> QED BY <1>2, <2>1, <2>2 DEF Lifecycle!Next, Lifecycle!ShiftNext
<1>4. CASE r.kind = "Handover" /\ r.shift \in Shifts /\ WriteHandover(r.shift)
  <2>1. s \in Shifts /\ WriteHandover(s)
    BY <1>4 DEF WriteHandover
  <2>2. Lifecycle!RecordHandover(s, Day)
    BY <1>0, <1>4, <2>1, CommitFinds, HandoverRefines
  <2> QED BY <1>2, <2>1, <2>2 DEF Lifecycle!Next, Lifecycle!ShiftNext
<1>5. CASE /\ r.kind = "Close" /\ r.shift \in Shifts /\ read[t] \in CloseRead
           /\ WriteClose(r.shift, read[t].cash)
  <2>1. PICK cash \in SUBSET Sales : cash = read[t].cash
    BY <1>5 DEF CloseRead
  <2>2. s \in Shifts /\ WriteClose(s, cash)
    BY <1>5, <2>1 DEF WriteClose
  <2>3. Lifecycle!CloseShift(s)
    BY <1>0, <1>5, <2>2, CommitFinds, CloseRefines
  <2> QED BY <2>2, <2>3 DEF Lifecycle!Next, Lifecycle!ShiftNext
<1>6. CASE r.kind = "Reopen" /\ r.shift \in Shifts /\ WriteReopen(r.shift)
  <2>1. s \in Shifts /\ WriteReopen(s)
    BY <1>6 DEF WriteReopen
  <2>2. Lifecycle!ReopenShift(s)
    BY <1>0, <1>6, <2>1, CommitFinds, ReopenRefines
  <2> QED BY <1>2, <2>1, <2>2 DEF Lifecycle!Next, Lifecycle!ShiftNext
<1>7. CASE r.kind = "Lock" /\ r.shift \in Shifts /\ WriteLock(r.shift)
  <2>1. s \in Shifts /\ WriteLock(s)
    BY <1>7 DEF WriteLock
  <2>2. Lifecycle!LockShift(s)
    BY <1>0, <1>7, <2>1, CommitFinds, LockRefines
  <2> QED BY <1>2, <2>1, <2>2 DEF Lifecycle!Next, Lifecycle!ShiftNext
<1>8. CASE r.kind = "CloseDay" /\ WriteCloseDay
  <2>1. Lifecycle!CloseBusinessDay(Day)
    BY <1>0, <1>8, CommitFinds, CloseDayRefines
  <2> QED BY <1>2, <2>1 DEF Lifecycle!Next, Lifecycle!DayNext
<1>9. CASE /\ r.kind = "Credit" /\ r.shift \in Shifts /\ r.item \in Entries
           /\ WriteCredit(r.shift, r.item)
  <2>1. s \in Shifts /\ x \in Entries /\ WriteCredit(s, x)
    BY <1>9 DEF WriteCredit
  <2>2. Lifecycle!RecordShiftCredit(x, s)
    BY <1>0, <1>9, <2>1, CommitFinds, CreditRefines
  <2> QED BY <2>1, <2>2 DEF Lifecycle!Next, Lifecycle!CreditNext
<1>10. CASE r.kind = "Void" /\ r.shift \in Shifts /\ r.item \in Entries /\ WriteVoid(r.item)
  <2>1. s \in Shifts /\ x \in Entries /\ WriteVoid(x)
    BY <1>10 DEF WriteVoid
  <2>2. Lifecycle!VoidCredit(x) \/ UNCHANGED dbVars
    BY <1>0, <1>10, <2>1, CommitFinds, VoidRefines
  <2> QED BY <2>1, <2>2, SameLifecycle DEF Lifecycle!Next, Lifecycle!CreditNext
<1>11. CASE r.kind = "Sale" /\ r.shift \in Shifts /\ r.item \in Sales /\ WriteSale(r.shift, r.item)
  <2>1. s \in Shifts /\ x \in Sales /\ WriteSale(s, x)
    BY <1>11 DEF WriteSale
  <2>2. Lifecycle!CreateSale(s, x)
    BY <1>0, <1>11, <2>1, CommitFinds, SaleRefines
  <2> QED BY <2>1, <2>2 DEF Lifecycle!Next, Lifecycle!ShiftNext
<1>12. CASE r.kind = "Merch" /\ r.shift \in Shifts /\ WriteMerch(r.shift, TRUE)
  <2>1. s \in Shifts /\ WriteMerch(s, TRUE)
    BY <1>12 DEF WriteMerch
  <2>2. Lifecycle!RecordMerchandiseHandover(s, Day)
    BY <1>0, <1>12, <2>1, CommitFinds, MerchRefines
  <2> QED BY <1>2, <2>1, <2>2 DEF Lifecycle!Next, Lifecycle!ShiftNext
<1>13. Types
  BY <1>0 DEF Books
<1>14. r.kind \in {"Open", "Handover", "Close", "Reopen", "Lock", "CloseDay", "Credit", "Void",
                   "Sale", "Merch"}
  BY CommitCases, <1>1, <1>13
<1>15. /\ r.kind = "Open" => r.shift \in Shifts /\ WriteOpen(r.shift)
       /\ r.kind = "Handover" => r.shift \in Shifts /\ WriteHandover(r.shift)
  BY CommitCases, <1>13
<1>16. r.kind = "Close" => /\ r.shift \in Shifts /\ read[t] \in CloseRead
                           /\ WriteClose(r.shift, read[t].cash)
  BY CommitCases, <1>13
<1>17. /\ r.kind = "Reopen" => r.shift \in Shifts /\ WriteReopen(r.shift)
       /\ r.kind = "Lock" => r.shift \in Shifts /\ WriteLock(r.shift)
       /\ r.kind = "CloseDay" => WriteCloseDay
  BY CommitCases, <1>13
<1>18. /\ r.kind = "Credit" => r.shift \in Shifts /\ r.item \in Entries /\ WriteCredit(r.shift, r.item)
       /\ r.kind = "Void" => r.shift \in Shifts /\ r.item \in Entries /\ WriteVoid(r.item)
  BY CommitCases, <1>13
<1>19. /\ r.kind = "Sale" => r.shift \in Shifts /\ r.item \in Sales /\ WriteSale(r.shift, r.item)
       /\ r.kind = "Merch" => r.shift \in Shifts /\ WriteMerch(r.shift, TRUE)
  BY CommitCases, <1>13
<1> QED
  BY <1>3, <1>4, <1>5, <1>6, <1>7, <1>8, <1>9, <1>10, <1>11, <1>12, <1>14, <1>15, <1>16, <1>17,
     <1>18, <1>19

LEMMA StepRefines ==
  ASSUME IsFiniteSet(Clients), Locked, Found, [Next]_vars
  PROVE  [Lifecycle!Next]_(Lifecycle!vars)
<1>1. ASSUME NEW t \in Clients, Commit(t) PROVE Lifecycle!Next \/ UNCHANGED Lifecycle!vars
  BY <1>1, CommitRefines
<1>2. ASSUME UNCHANGED dbVars PROVE UNCHANGED Lifecycle!vars
  BY <1>2, SameLifecycle
<1>3. (\E t \in Clients : Commit(t)) \/ UNCHANGED dbVars
  BY DEF Next, Serve, Begin, StartLoad, ReadDay, Acquire, Refuse, Collide, DeadlockAbort,
         vars, dbVars
<1> QED BY <1>1, <1>2, <1>3

LEMMA InitRefines == Init => Lifecycle!Init
BY DEF Init, Day, Lifecycle!Init, Lifecycle!Days

(* What the locks buy: transactions that check and read under them are       *)
(* single steps, for any number of clients, Shifts and requests, although   *)
(* each asks before it locks, waits, and reads old rows.                    *)
THEOREM LifecycleRefinement ==
  ASSUME IsFiniteSet(Clients), Kinds \cap {"DeleteMerch", "Report"} = {}
  PROVE  Spec => ImplementsLifecycle
<1>1. Found /\ [Next]_vars => [Lifecycle!Next]_(Lifecycle!vars)
  BY StepRefines DEF Locked
<1>2. Found /\ [Next]_vars => Found'
  BY FoundStep
<1>3. Init => Found
  BY FoundInit
<1> QED BY <1>1, <1>2, <1>3, InitRefines, PTL DEF Spec, ImplementsLifecycle, Lifecycle!Spec

-----------------------------------------------------------------------------
(* Locks exclude, and the verdicts they protect.                            *)

LocksExclude ==
  \A t, u \in Busy : t # u => \A l \in Held(t), m \in Held(u) : ~Conflict(l, m)

LEMMA SameHeld ==
  ASSUME NEW t \in Busy, req'[t] = req[t], pos'[t] = pos[t]
  PROVE  t \in Busy' /\ Held(t)' = Held(t)
BY DEF Busy, Held

LEMMA LocksExcludeStep ==
  ASSUME Types, LocksExclude, [Next]_vars PROVE LocksExclude'
<1>0. TypeOK /\ PlansFollowed
  BY DEF Types
<1>1. ASSUME NEW t \in Clients, NEW r \in Requests, Begin(t, r) PROVE LocksExclude'
  <2>1. req[t] = NoRequest /\ req' = [req EXCEPT ![t] = r] /\ pos' = pos
    BY <1>1 DEF Begin
  <2>2. pos'[t] = 0
    BY <1>0, <2>1 DEF PlansFollowed
  <2>3. Held(t)' = {}
    BY <2>2 DEF Held
  <2>4. \A u \in Busy' \ {t} : u \in Busy /\ Held(u)' = Held(u)
    BY <1>0, <2>1, SameHeld DEF TypeOK, Busy
  <2> QED BY <2>3, <2>4 DEF LocksExclude
<1>2. ASSUME NEW t \in Clients, StartLoad(t) \/ ReadDay(t) PROVE LocksExclude'
  BY <1>2 DEF StartLoad, ReadDay, LocksExclude, Held, Busy
<1>3. ASSUME NEW t \in Clients, Acquire(t) PROVE LocksExclude'
  <2>1. /\ t \in Busy /\ ~Done(t) /\ req' = req /\ pos' = [pos EXCEPT ![t] = @ + 1]
        /\ \A u \in Busy \ {t} : ~WaitsFor(t, u)
    BY <1>3 DEF Acquire
  <2>2. Held(t)' = Held(t) \cup {Wants(t)}
    <3>1. pos[t] \in Nat /\ pos'[t] = pos[t] + 1 /\ t \in Busy' /\ req'[t] = req[t]
      BY <1>0, <2>1 DEF TypeOK, Busy
    <3>2. 1 .. pos[t] + 1 = (1 .. pos[t]) \cup {pos[t] + 1}
      BY <3>1
    <3> QED BY <2>1, <3>1, <3>2 DEF Held, Wants
  <2>3. \A u \in Busy' \ {t} : u \in Busy /\ Held(u)' = Held(u)
    BY <1>0, <2>1, SameHeld DEF TypeOK, Busy
  <2>4. \A u \in Busy \ {t} : \A l \in Held(u) :
          ~Conflict(Wants(t), l) /\ ~Conflict(l, Wants(t))
    BY <2>1 DEF WaitsFor, Conflict
  <2> QED BY <2>1, <2>2, <2>3, <2>4 DEF LocksExclude
<1>4. ASSUME NEW t \in Clients,
             Refuse(t) \/ Collide(t) \/ DeadlockAbort(t) \/ Commit(t)
      PROVE  LocksExclude'
  <2>1. End(t)
    BY <1>4 DEF Refuse, Collide, DeadlockAbort, Commit
  <2>2. \A u \in Busy' : u \in Busy /\ Held(u)' = Held(u)
    BY <1>0, <2>1, EndLeavesOthers, SameHeld
  <2> QED BY <2>2 DEF LocksExclude
<1>5. CASE UNCHANGED vars
  BY <1>5 DEF vars, LocksExclude, Held, Busy
<1> QED BY <1>1, <1>2, <1>3, <1>4, <1>5 DEF Next, Serve

(* Who changes a status holds the row, and in some mode its parents.        *)
Touches(t, row) == \E l \in Held(t) : l[1] = row

LEMMA WritersLock ==
  ASSUME Types, RowsToCome, NEW t \in Clients, Commit(t)
  PROVE  /\ dayStatus' # dayStatus \/ status' # status => Touches(t, "day") /\ Touches(t, "station")
         /\ \A s \in Shifts : status[s] # "none" /\ status'[s] # status[s] => Holds(t, s)
<1> DEFINE r == req[t]
<1>1. t \in Busy /\ Done(t) /\ TypeOK /\ r \in Requests /\ r.kind \in AllKinds
  BY RequestKind DEF Commit, Types, TypeOK, Busy
<1>2. Held(t) = {Plan(r)[i] : i \in 1 .. Len(Plan(r))}
  BY <1>1 DEF Done, Held
<1>3. r.kind \in {"Open", "Close", "Reopen", "Lock", "CloseDay"}
        => Touches(t, "day") /\ Touches(t, "station")
  <2>1. CASE r.kind = "Open"
    <3>1. Plan(r) = <<FU("inventory"), FU("station"), FU("day")>>
      BY <1>1, <2>1, PlanShape
    <3>2. Len(Plan(r)) = 3 /\ Plan(r)[2][1] = "station" /\ Plan(r)[3][1] = "day"
      BY <3>1 DEF FU
    <3> QED BY <1>2, <3>2 DEF Touches
  <2>2. CASE r.kind = "Close"
    <3>1. Plan(r) = <<FU("inventory"), FU(r.shift), KS("day"), KS("station")>>
      BY <1>1, <2>2, PlanShape
    <3>2. Len(Plan(r)) = 4 /\ Plan(r)[3][1] = "day" /\ Plan(r)[4][1] = "station"
      BY <3>1 DEF KS
    <3> QED BY <1>2, <3>2 DEF Touches
  <2>3. CASE r.kind = "Reopen"
    <3>1. Plan(r) = <<FU("inventory"), FU("station"), FU("day"), FU(r.shift)>>
      BY <1>1, <2>3, PlanShape
    <3>2. Len(Plan(r)) = 4 /\ Plan(r)[2][1] = "station" /\ Plan(r)[3][1] = "day"
      BY <3>1 DEF FU
    <3> QED BY <1>2, <3>2 DEF Touches
  <2>4. CASE r.kind = "Lock"
    <3>1. Plan(r) = <<FU("station"), FU("day"), FU(r.shift)>>
      BY <1>1, <2>4, PlanShape
    <3>2. Len(Plan(r)) = 3 /\ Plan(r)[1][1] = "station" /\ Plan(r)[2][1] = "day"
      BY <3>1 DEF FU
    <3> QED BY <1>2, <3>2 DEF Touches
  <2>5. CASE r.kind = "CloseDay"
    <3>1. Plan(r) = <<FU("station"), FU("day")>>
      BY <1>1, <2>5, PlanShape
    <3>2. Len(Plan(r)) = 2 /\ Plan(r)[1][1] = "station" /\ Plan(r)[2][1] = "day"
      BY <3>1 DEF FU
    <3> QED BY <1>2, <3>2 DEF Touches
  <2> QED BY <2>1, <2>2, <2>3, <2>4, <2>5
<1>4. r.kind \notin {"Open", "Close", "Reopen", "Lock", "CloseDay"} => UNCHANGED <<status, dayStatus>>
  BY DEF Commit, WriteHandover, WriteReport, WriteCredit, WriteVoid, WriteSale, WriteMerch
<1>5. /\ r.kind \in {"Open", "Close", "Reopen", "Lock"} =>
           r.shift \in Shifts /\ \A s \in Shifts : status'[s] # status[s] => s = r.shift
      /\ r.kind = "CloseDay" => status' = status
      /\ r.kind = "Open" => status[r.shift] = "none"
  <2>1. r.kind \in {"Open", "Close", "Reopen", "Lock"} => r.shift \in Shifts
    BY <1>1, RequestFields DEF OnShift
  <2>2. /\ r.kind \in {"Open", "Close", "Reopen", "Lock"} =>
             \A s \in Shifts : status'[s] # status[s] => s = r.shift
        /\ r.kind = "CloseDay" => status' = status
    BY <1>1 DEF TypeOK, Commit, WriteOpen, WriteClose, WriteReopen, WriteLock, WriteCloseDay
  <2>3. r.kind = "Open" => status[r.shift] = "none"
    BY <1>1 DEF RowsToCome
  <2> QED BY <2>1, <2>2, <2>3
<1>6. r.kind \in {"Close", "Reopen", "Lock"} => Holds(t, r.shift)
  BY <1>1, CommitHolds DEF OnShift
<1> QED BY <1>3, <1>4, <1>5, <1>6

(* A lock for update keeps the others off the row.                         *)
LEMMA HoldsExcludes ==
  ASSUME LocksExclude, NEW t \in Busy, NEW u \in Busy, t # u, NEW row, Holds(u, row)
  PROVE  ~Touches(t, row) /\ ~Holds(t, row)
BY DEF LocksExclude, Holds, Touches, Conflict, FU

(* Whose commit it is not keeps its verdict.                               *)
LEMMA VerdictStands ==
  ASSUME Types, RowsToCome, LocksExclude, NEW t \in Clients, Commit(t), NEW u \in Busy, u # t,
         req'[u] = req[u], pos'[u] = pos[u], read'[u] = read[u]
  PROVE  Refused(u)' <=> Refused(u)
<1> DEFINE r == req[u]
<1>0. t \in Busy /\ u \in Clients /\ r \in Requests /\ r.kind \in AllKinds /\ TypeOK
  BY RequestKind DEF Commit, Types, TypeOK, Busy
<1>1. u \in Busy' /\ Held(u)' = Held(u) /\ \A row : Holds(u, row)' = Holds(u, row)
  BY SameHeld DEF Holds
<1>2. Holds(u, "day") => dayStatus' = dayStatus /\ status' = status
  BY <1>0, WritersLock, HoldsExcludes
<1>3. Holds(u, "station") => status' = status
  BY <1>0, WritersLock, HoldsExcludes
<1>4. r.kind \in OnShift /\ Holds(u, r.shift) => status'[r.shift] = status[r.shift]
  <2>1. r.kind \in OnShift => r.shift \in Shifts /\ status[r.shift] # "none"
    BY <1>0, RequestFields DEF Types, ShiftsAreThere
  <2> QED BY <1>0, <2>1, WritersLock, HoldsExcludes
<1>5. r.kind = "Reopen" /\ Holds(u, r.shift) => Holds(u, "day")
  <2>1. SUFFICES ASSUME r.kind = "Reopen", Holds(u, r.shift) PROVE Holds(u, "day")
    OBVIOUS
  <2>2. Plan(r) = <<FU("inventory"), FU("station"), FU("day"), FU(r.shift)>>
    BY <1>0, <2>1, PlanShape
  <2>3. r.shift \notin {"inventory", "station", "day"} /\ pos[u] \in Nat /\ pos[u] <= Len(Plan(r))
    BY <1>0, <2>1, RequestFields, TransactionAssumption DEF OnShift, Types, PlansFollowed, Busy
  <2>4. PICK i \in 1 .. pos[u] : Plan(r)[i] = FU(r.shift)
    BY <2>1 DEF Holds, Held
  <2>5. i \in 1 .. 4
    BY <2>2, <2>3
  <2>6. i = 4
    BY <2>2, <2>3, <2>4, <2>5 DEF FU
  <2>7. 3 \in 1 .. pos[u] /\ Plan(r)[3] = FU("day")
    BY <2>2, <2>3, <2>6
  <2> QED BY <2>7 DEF Holds, Held
<1>6. /\ Holds(u, "day") => (DayRefuses(r)' <=> DayRefuses(r))
      /\ Holds(u, "station") => OpenShifts' = OpenShifts
  BY <1>2, <1>3 DEF DayRefuses, OpenShifts
<1>7. Holds(u, r.shift) => (ShiftRefuses(u)' <=> ShiftRefuses(u))
  <2>1. r.kind = "Reopen" /\ Holds(u, r.shift) => OpenShifts' = OpenShifts
    BY <1>2, <1>5 DEF OpenShifts
  <2> QED BY <1>4, <2>1 DEF ShiftRefuses, OnShift
<1> QED BY <1>1, <1>6, <1>7 DEF Refused

Standing == Books /\ RowsToCome /\ HandedStays /\ LocksExclude

LEMMA StandingInit == Init => Standing
<1>1. Init => RowsToCome /\ HandedStays /\ LocksExclude
  BY DEF Init, RowsToCome, HandedStays, LocksExclude, Busy
<1> QED BY <1>1, BooksInit DEF Standing

LEMMA StandingStep == Standing /\ [Next]_vars => Standing'
<1> SUFFICES ASSUME Standing, [Next]_vars PROVE Standing'
  OBVIOUS
<1>1. Books' /\ LocksExclude'
  BY BooksStep, LocksExcludeStep DEF Standing, Books
<1>2. ASSUME NEW t \in Clients, (\E r \in Requests : Begin(t, r)) \/ Serve(t)
      PROVE  RowsToCome' /\ HandedStays'
  BY <1>1, <1>2, RowsToComeStep DEF Standing, Books
<1>3. CASE UNCHANGED vars
  BY <1>1, <1>3 DEF Standing, vars, RowsToCome, HandedStays, Busy
<1> QED BY <1>1, <1>2, <1>3 DEF Next, Standing

(* What a request checks when it gets its locks is so when it commits: no     *)
(* other client's commit, whatever its locking order, touches the rows the   *)
(* verdict rests on.                                                       *)
THEOREM VerdictsOutliveTheWait == Spec => VerdictsStand
<1>1. ASSUME Standing, [Next]_vars, NEW u \in Busy, req'[u] = req[u], pos'[u] = pos[u]
      PROVE  Refused(u)' <=> Refused(u)
  <2>0. Types /\ TypeOK /\ RowsToCome /\ LocksExclude /\ u \in Clients /\ req[u] \in Requests
    BY <1>1 DEF Standing, Books, Types, TypeOK, Busy
  <2>1. ASSUME NEW t \in Clients, Commit(t) PROVE Refused(u)' <=> Refused(u)
    <3>1. u # t /\ read'[u] = read[u]
      <4>1. End(t)
        BY <2>1 DEF Commit
      <4>2. u \in Busy'
        BY <1>1 DEF Busy
      <4> QED BY <2>0, <4>1, <4>2, EndLeavesOthers
    <3> QED BY <1>1, <2>0, <2>1, <3>1, VerdictStands
  <2>2. CASE UNCHANGED dbVars /\ read'[u] = read[u]
    <3>1. Held(u)' = Held(u)
      BY <1>1, SameHeld
    <3> QED BY <1>1, <2>2, <3>1
            DEF Refused, DayRefuses, ShiftRefuses, Holds, OpenShifts, dbVars
  <2>3. CASE StartLoad(u)
    <3>1. req[u].kind = "Close" /\ pos[u] = 1 /\ UNCHANGED dbVars
      BY <2>3 DEF StartLoad
    <3>2. Plan(req[u]) = <<FU("inventory"), FU(req[u].shift), KS("day"), KS("station")>>
      BY <2>0, <3>1, RequestKind, PlanShape
    <3>3. Held(u) = {FU("inventory")} /\ Held(u)' = Held(u)
      BY <1>1, <3>1, <3>2, SameHeld DEF Held
    <3>4. req[u].shift # "inventory"
      BY <2>0, <3>1, RequestFields, TransactionAssumption DEF OnShift
    <3> QED BY <1>1, <3>1, <3>3, <3>4 DEF Refused, Holds, FU
  <2>4. CASE ReadDay(u)
    <3>1. req[u].kind = "Report" /\ Held(u)' = Held(u) /\ UNCHANGED dbVars
      BY <1>1, <2>4, SameHeld DEF ReadDay
    <3> QED BY <1>1, <3>1 DEF Refused, DayRefuses, ShiftRefuses, Holds, OpenShifts, dbVars
  <2>5. \/ \E t \in Clients : Commit(t)
        \/ UNCHANGED dbVars /\ read'[u] = read[u]
        \/ StartLoad(u) \/ ReadDay(u)
    <3>1. ASSUME NEW t \in Clients, StartLoad(t) \/ ReadDay(t), t # u PROVE read'[u] = read[u]
      BY <2>0, <3>1 DEF StartLoad, ReadDay, TypeOK
    <3>2. ASSUME NEW t \in Clients, Refuse(t) \/ Collide(t) \/ DeadlockAbort(t)
          PROVE  read'[u] = read[u]
      <4>1. End(t)
        BY <3>2 DEF Refuse, Collide, DeadlockAbort
      <4>2. u \in Busy'
        BY <1>1 DEF Busy
      <4> QED BY <2>0, <4>1, <4>2, EndLeavesOthers
    <3>3. ASSUME NEW t \in Clients,
                 StartLoad(t) \/ ReadDay(t) \/ Refuse(t) \/ Collide(t) \/ DeadlockAbort(t)
          PROVE  UNCHANGED dbVars
      BY <3>3 DEF StartLoad, ReadDay, Refuse, Collide, DeadlockAbort
    <3>4. ASSUME NEW t \in Clients, (\E r \in Requests : Begin(t, r)) \/ Acquire(t)
          PROVE  UNCHANGED <<dbVars, read>>
      BY <3>4 DEF Begin, Acquire
    <3>5. CASE UNCHANGED vars
      BY <3>5 DEF vars, dbVars
    <3> QED BY <1>1, <3>1, <3>2, <3>3, <3>4, <3>5 DEF Next, Serve
  <2> QED BY <2>1, <2>2, <2>3, <2>4, <2>5
<1>2. Standing /\ [Next]_vars =>
        [\A t \in Busy :
           req'[t] = req[t] /\ pos'[t] = pos[t] => (Refused(t)' <=> Refused(t))]_vars
  BY <1>1
<1> QED BY <1>2, StandingInit, StandingStep, PTL DEF Spec, VerdictsStand
=============================================================================

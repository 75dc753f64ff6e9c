---------------------------- MODULE FuelStock_proofs ----------------------------
(***************************************************************************)
(* Theorems about FuelStock, for every number of Shifts, closes, tankers     *)
(* and litres.  First the readings; then what the rows of the log add up   *)
(* to; then FuelInv, the invariant of the tank and its books.              *)
(***************************************************************************)
EXTENDS FuelStock, SumLemmas, SequenceTheorems

ReadingTypes ==
  /\ opened \in 0 .. MaxShifts
  /\ status \in [Shifts -> {"none", "OPEN", "CLOSED"}]
  /\ opening \in [Shifts -> Nat]
  /\ closing \in [Shifts -> Nat]
  /\ meter \in Nat
  /\ reopened \subseteq Shifts

ExistsOnceOpened == \A s \in Shifts : status[s] = "none" <=> s > opened

(* The state of a Shift that has a successor is final unless reopened.      *)
EarlierAreClosed ==
  \A s \in Shifts : s < opened /\ s \notin reopened => status[s] = "CLOSED"

Continuity == ReadingTypes /\ ExistsOnceOpened /\ EarlierAreClosed /\ MeterContinuity

readingVars == <<opened, status, opening, closing, reopened>>

LEMMA ContinuityInit == Init => Continuity
BY FuelAssumption, SMTT(30)
   DEF Init, Continuity, ReadingTypes, ExistsOnceOpened, EarlierAreClosed,
       MeterContinuity, Shifts

(* Steps that touch no reading and no status leave it alone.               *)
LEMMA ContinuityFrame ==
  ASSUME Continuity, UNCHANGED readingVars, meter' \in Nat
  PROVE  Continuity'
BY DEF readingVars, Continuity, ReadingTypes, ExistsOnceOpened, EarlierAreClosed,
       MeterContinuity

(* A new closing reading is only ever taken of a running Shift, which is the *)
(* newest one or was reopened.                                             *)
LEMMA ContinuityReading ==
  ASSUME Continuity, NEW s \in Shifts, NEW r \in Nat, status[s] = "OPEN",
         closing' = [closing EXCEPT ![s] = r],
         status' = status \/ status' = [status EXCEPT ![s] = "CLOSED"],
         UNCHANGED <<opened, opening, meter, reopened>>
  PROVE  Continuity'
<1>1. ~ (s < opened /\ s \notin reopened) /\ s <= opened
  BY SMTT(30) DEF Continuity, ReadingTypes, ExistsOnceOpened, EarlierAreClosed, Shifts
<1>2. ReadingTypes'
  BY DEF Continuity, ReadingTypes
<1>3. ExistsOnceOpened' /\ EarlierAreClosed'
  BY <1>1 DEF Continuity, ReadingTypes, ExistsOnceOpened, EarlierAreClosed, Shifts
<1>4. MeterContinuity'
  BY <1>1 DEF Continuity, ReadingTypes, MeterContinuity, Shifts
<1> QED BY <1>2, <1>3, <1>4 DEF Continuity

LEMMA ReadingsAreNat ==
  ASSUME Continuity, NEW s \in Shifts
  PROVE  Readings(s) \subseteq Nat /\ closing[s] \in Nat
BY DEF Continuity, ReadingTypes, Readings

LEMMA ContinuityOpen ==
  ASSUME Continuity, OpenShift
  PROVE  Continuity'
<1> DEFINE n == opened + 1
<1>1. /\ n \in Shifts /\ opened' = n /\ opened \in Nat
      /\ status' = [status EXCEPT ![n] = "OPEN"]
      /\ opening' = [opening EXCEPT ![n] = Seed]
      /\ closing' = [closing EXCEPT ![n] = Seed]
      /\ meter' = meter /\ reopened' = reopened
  BY DEF OpenShift, Continuity, ReadingTypes, fuelVars
<1>2. \A s \in Shifts : s <= opened => status[s] = "CLOSED"
  BY DEF OpenShift, OpenShifts, Continuity, ReadingTypes, ExistsOnceOpened, Shifts
<1>3. Seed \in Nat /\ (opened > 0 => Seed = closing[opened])
  <2>1. opened \in 0 .. MaxShifts /\ closing \in [Shifts -> Nat]
    BY DEF Continuity, ReadingTypes
  <2>2. FirstMeter \in Nat /\ MaxShifts \in Nat
    BY FuelAssumption
  <2>3. opened # 0 => opened \in Shifts
    BY <2>1, <2>2 DEF Shifts
  <2> QED BY <2>1, <2>2, <2>3 DEF Seed
<1>4. ReadingTypes'
  BY <1>1, <1>3, FuelAssumption DEF Continuity, ReadingTypes, Shifts
<1>5. ExistsOnceOpened'
  BY <1>1 DEF Continuity, ReadingTypes, ExistsOnceOpened, Shifts
<1>6. EarlierAreClosed'
  BY <1>1, <1>2 DEF Continuity, ReadingTypes, EarlierAreClosed, Shifts
<1>7. ASSUME NEW s \in Shifts, s < n, s \notin reopened
      PROVE  closing'[s] = opening'[s + 1]
  <2>1. closing'[s] = closing[s]
    BY <1>1, <1>7 DEF Continuity, ReadingTypes, Shifts
  <2>2. CASE s = opened
    BY <1>1, <1>3, <1>7, <2>1, <2>2 DEF Continuity, ReadingTypes, Shifts
  <2>3. CASE s < opened
    <3>1. closing[s] = opening[s + 1]
      BY <1>7, <2>3 DEF Continuity, MeterContinuity
    <3> QED BY <1>1, <1>7, <2>1, <2>3, <3>1 DEF Continuity, ReadingTypes, Shifts
  <2> QED BY <1>1, <1>7, <2>2, <2>3 DEF Shifts
<1>8. MeterContinuity'
  BY <1>1, <1>7 DEF MeterContinuity
<1> QED BY <1>4, <1>5, <1>6, <1>8 DEF Continuity

LEMMA ContinuityReopen ==
  ASSUME Continuity, NEW s \in Shifts, ReopenShift(s)
  PROVE  Continuity'
BY SMTT(30) DEF ReopenShift, fuelVars, Continuity, ReadingTypes, ExistsOnceOpened, EarlierAreClosed,
       MeterContinuity, Shifts

LEMMA ContinuityStep == Continuity /\ [Next]_vars => Continuity'
<1> SUFFICES ASSUME Continuity, [Next]_vars PROVE Continuity'
  OBVIOUS
<1>1. CASE OpenShift
  BY <1>1, ContinuityOpen
<1>2. ASSUME NEW s \in Shifts, RecordNozzleReadings(s) PROVE Continuity'
  <2>1. PICK r \in Readings(s) : status[s] = "OPEN" /\ closing' = [closing EXCEPT ![s] = r]
    BY <1>2 DEF RecordNozzleReadings
  <2>2. UNCHANGED <<opened, status, opening, meter, reopened>>
    BY <1>2 DEF RecordNozzleReadings, fuelVars
  <2> QED BY <2>1, <2>2, ReadingsAreNat, ContinuityReading
<1>3. ASSUME NEW s \in Shifts, RecordHandover(s) PROVE Continuity'
  <2>1. PICK r \in Readings(s) : status[s] = "OPEN" /\ closing' = [closing EXCEPT ![s] = r]
    BY <1>3 DEF RecordHandover
  <2>2. UNCHANGED <<opened, status, opening, meter, reopened>>
    BY <1>3 DEF RecordHandover
  <2> QED BY <2>1, <2>2, ReadingsAreNat, ContinuityReading
<1>4. ASSUME NEW s \in Shifts, CloseShift(s) PROVE Continuity'
  <2>1. PICK r \in Readings(s) \cup {closing[s]} :
          /\ status[s] = "OPEN" /\ closing' = [closing EXCEPT ![s] = r]
          /\ status' = [status EXCEPT ![s] = "CLOSED"]
    BY <1>4 DEF CloseShift
  <2>2. UNCHANGED <<opened, opening, meter, reopened>>
    BY <1>4 DEF CloseShift, fuelVars
  <2> QED BY <2>1, <2>2, ReadingsAreNat, ContinuityReading
<1>5. ASSUME NEW s \in Shifts, ReopenShift(s) PROVE Continuity'
  BY <1>5, ContinuityReopen
<1>6. CASE Pump \/ Test
  <2>1. meter \in Nat
    BY DEF Continuity, ReadingTypes
  <2>2. UNCHANGED readingVars /\ meter' \in Nat
    BY <1>6, <2>1 DEF Pump, Test, shiftVars, readingVars
  <2> QED BY <2>2, ContinuityFrame
<1>7. CASE RecordDecantation \/ \E i \in 1 .. Now : MeasureWithAfterDip(i)
  <2>1. UNCHANGED readingVars /\ meter' = meter
    BY <1>7 DEF RecordDecantation, MeasureWithAfterDip, shiftVars, fuelVars, readingVars
  <2> QED BY <2>1, ContinuityFrame DEF Continuity, ReadingTypes
<1>8. CASE \E named \in {{}} \cup {{s} : s \in Shifts} : RecordStockCount(named)
  <2>1. UNCHANGED readingVars /\ meter' = meter
    BY <1>8 DEF RecordStockCount, fuelVars, readingVars
  <2> QED BY <2>1, ContinuityFrame DEF Continuity, ReadingTypes
<1>9. CASE UNCHANGED vars
  <2>1. UNCHANGED readingVars /\ meter' = meter
    BY <1>9 DEF vars, shiftVars, fuelVars, readingVars
  <2> QED BY <2>1, ContinuityFrame DEF Continuity, ReadingTypes
<1> QED
  BY <1>1, <1>2, <1>3, <1>4, <1>5, <1>6, <1>7, <1>8, <1>9 DEF Next

(* A Shift starts at the reading the one before it ended at, whatever is    *)
(* handed over, closed or read again, unless an earlier Shift is reopened.  *)
THEOREM ReadingsChain == Spec => []MeterContinuity
<1>1. Init => Continuity
  BY ContinuityInit
<1>2. Continuity /\ [Next]_vars => Continuity'
  BY ContinuityStep
<1>3. Continuity => MeterContinuity
  BY DEF Continuity
<1> QED BY <1>1, <1>2, <1>3, PTL DEF Spec

-----------------------------------------------------------------------------
(* What the rows of a log add up to.  The log is a parameter here, so that  *)
(* the lemmas speak of the log before a step and of the one after it.      *)

Rows == SaleRows \cup LineRows

SalesOf(rows)   == {i \in 1 .. Len(rows) : rows[i].kind = "Sale"}
LinesOf(rows)   == {i \in 1 .. Len(rows) : rows[i].kind = "Line"}
PendingOf(rows) == {i \in LinesOf(rows) : rows[i].status = "PENDING"}

LitresOf(rows, is) == Sum([i \in is |-> rows[i].litres], is)
SoldUpTo(rows, n)  == LitresOf(rows, {i \in SalesOf(rows) : 0 < i /\ i <= n})

LEMMA RowTypes ==
  ASSUME NEW rows \in Seq(Rows)
  PROVE  /\ Len(rows) \in Nat
         /\ \A i \in 1 .. Len(rows) : rows[i] \in Rows /\ rows[i].litres \in Nat
         /\ \A i \in LinesOf(rows) : rows[i] \in LineRows
         /\ SalesOf(rows) \subseteq 1 .. Len(rows) /\ LinesOf(rows) \subseteq 1 .. Len(rows)
         /\ PendingOf(rows) \subseteq LinesOf(rows)
<1>1. Len(rows) \in Nat /\ \A i \in 1 .. Len(rows) : rows[i] \in Rows
  OBVIOUS
<1>2. \A i \in 1 .. Len(rows) : rows[i].litres \in Nat
  BY <1>1 DEF Rows, SaleRows, LineRows
<1>3. \A i \in LinesOf(rows) : rows[i] \in LineRows
  BY <1>1 DEF Rows, SaleRows, LineRows, LinesOf
<1> QED
  BY <1>1, <1>2, <1>3 DEF SalesOf, LinesOf, PendingOf

LEMMA LitresType ==
  ASSUME NEW rows \in Seq(Rows), NEW is \in SUBSET (1 .. Len(rows))
  PROVE  IsFiniteSet(is) /\ LitresOf(rows, is) \in Nat
<1>1. Len(rows) \in Nat /\ \A i \in 1 .. Len(rows) : rows[i].litres \in Nat
  BY RowTypes
<1>2. IsFiniteSet(1 .. Len(rows))
  <2>1. 1 \in Int /\ Len(rows) \in Int
    BY <1>1
  <2> QED BY <2>1, FS_Interval
<1>3. IsFiniteSet(is)
  BY <1>2, FS_Subset
<1>4. \A i \in is : [j \in is |-> rows[j].litres][i] \in Nat
  BY <1>1
<1> QED
  BY <1>3, <1>4, SumNat DEF LitresOf

LEMMA LitresSplit ==
  ASSUME NEW rows \in Seq(Rows), NEW is \in SUBSET (1 .. Len(rows)), NEW js \in SUBSET is
  PROVE  LitresOf(rows, is) = LitresOf(rows, js) + LitresOf(rows, is \ js)
<1> DEFINE all == [i \in is |-> rows[i].litres]
<1>1. IsFiniteSet(is) /\ IsFiniteSet(js) /\ IsFiniteSet(is \ js)
  BY LitresType
<1>2. \A i \in is : all[i] \in Int /\ all[i] = rows[i].litres
  BY RowTypes
<1>3. Sum(all, is) = Sum(all, js) + Sum(all, is \ js)
  <2> HIDE DEF all
  <2> QED BY <1>1, <1>2, SumSplit
<1>4. LitresOf(rows, js) = Sum(all, js)
  BY <1>1, <1>2, SumEqual DEF LitresOf
<1>5. LitresOf(rows, is \ js) = Sum(all, is \ js)
  BY <1>1, <1>2, SumEqual DEF LitresOf
<1> QED
  BY <1>3, <1>4, <1>5 DEF LitresOf

(* Rows that keep their litres keep their sum.                             *)
LEMMA SameLitres ==
  ASSUME NEW rows \in Seq(Rows), NEW is \in SUBSET (1 .. Len(rows)),
         NEW after, \A i \in is : after[i].litres = rows[i].litres
  PROVE  LitresOf(after, is) = LitresOf(rows, is)
<1>1. IsFiniteSet(is) /\ \A i \in is : rows[i].litres \in Nat
  BY LitresType, RowTypes
<1>2. \A i \in is : /\ [j \in is |-> rows[j].litres][i] \in Int
                    /\ [j \in is |-> after[j].litres][i] = [j \in is |-> rows[j].litres][i]
  BY <1>1
<1> QED
  BY <1>1, <1>2, SumEqual DEF LitresOf

LEMMA LitresOfNone ==
  ASSUME NEW rows PROVE LitresOf(rows, {}) = 0
BY SumEmpty DEF LitresOf

LEMMA LitresOfOne ==
  ASSUME NEW rows \in Seq(Rows), NEW i \in 1 .. Len(rows)
  PROVE  LitresOf(rows, {i}) = rows[i].litres
<1> DEFINE f == [j \in {i} |-> rows[j].litres]
<1>1. IsFiniteSet({}) /\ i \notin {} /\ {} \cup {i} = {i} /\ \A j \in {i} : f[j] \in Int
  BY FS_EmptySet, RowTypes
<1>2. f[i] = rows[i].litres /\ f[i] \in Int
  BY <1>1
<1>3. Sum(f, {i}) = f[i] + Sum(f, {}) /\ Sum(f, {}) = 0
  <2> HIDE DEF f
  <2>1. \A j \in {} \cup {i} : f[j] \in Int
    BY <1>1
  <2>2. Sum(f, {} \cup {i}) = f[i] + Sum(f, {})
    BY <1>1, <2>1, SumAdd
  <2> QED BY <1>1, <2>2, SumEmpty
<1>4. Sum(f, {i}) = rows[i].litres
  <2> HIDE DEF f
  <2> QED BY <1>2, <1>3
<1> QED
  BY <1>4 DEF LitresOf

(* The Sale movements between two times                                    *)
LEMMA SoldSince ==
  ASSUME NEW rows \in Seq(Rows), NEW i \in 0 .. Len(rows), NEW j \in i .. Len(rows)
  PROVE  /\ SoldUpTo(rows, j)
              = SoldUpTo(rows, i) + LitresOf(rows, {k \in SalesOf(rows) : i < k /\ k <= j})
         /\ SoldUpTo(rows, i) \in Nat
         /\ LitresOf(rows, {k \in SalesOf(rows) : i < k /\ k <= j}) \in Nat
<1> DEFINE till(n) == {k \in SalesOf(rows) : 0 < k /\ k <= n}
<1>1. /\ Len(rows) \in Nat /\ SalesOf(rows) \subseteq 1 .. Len(rows)
      /\ i \in Int /\ j \in Int /\ 0 <= i /\ i <= j /\ j <= Len(rows)
  BY RowTypes
<1>2. till(j) \in SUBSET (1 .. Len(rows)) /\ till(i) \in SUBSET till(j)
  <2>1. \A k \in SalesOf(rows) : k \in 1 .. Len(rows) /\ (k <= i => k <= j)
    BY <1>1
  <2> QED BY <2>1
<1>3. till(j) \ till(i) = {k \in SalesOf(rows) : i < k /\ k <= j}
  <2>1. \A k \in SalesOf(rows) : k \in Int /\ 0 < k /\ (~ (k <= i) <=> i < k)
    BY <1>1
  <2> QED BY <2>1
<1>4. till(i) \in SUBSET (1 .. Len(rows)) /\ till(j) \ till(i) \in SUBSET (1 .. Len(rows))
  BY <1>2
<1>5. LitresOf(rows, till(j)) = LitresOf(rows, till(i)) + LitresOf(rows, till(j) \ till(i))
  BY <1>2, LitresSplit
<1>6. LitresOf(rows, till(i)) \in Nat /\ LitresOf(rows, till(j) \ till(i)) \in Nat
  BY <1>4, LitresType
<1> QED
  BY <1>3, <1>5, <1>6 DEF SoldUpTo

(* A row put behind the others.                                            *)
LEMMA OneMoreRow ==
  ASSUME NEW rows \in Seq(Rows), NEW row \in Rows
  PROVE  LET after == Append(rows, row)  n == Len(rows) + 1
         IN  /\ after \in Seq(Rows) /\ Len(after) = n /\ after[n] = row
             /\ \A i \in 1 .. Len(rows) : after[i] = rows[i]
             /\ \A is \in SUBSET (1 .. Len(rows)) :
                  /\ LitresOf(after, is) = LitresOf(rows, is)
                  /\ LitresOf(after, is \cup {n}) = LitresOf(rows, is) + row.litres
<1> DEFINE after == Append(rows, row)
           n == Len(rows) + 1
<1>1. /\ after \in Seq(Rows) /\ Len(after) = n /\ after[n] = row
      /\ \A i \in 1 .. Len(rows) : after[i] = rows[i]
      /\ Len(rows) \in Nat /\ n \in 1 .. Len(after)
  OBVIOUS
<1> HIDE DEF after
<1>2. ASSUME NEW is \in SUBSET (1 .. Len(rows))
      PROVE  /\ LitresOf(after, is) = LitresOf(rows, is)
             /\ LitresOf(after, is \cup {n}) = LitresOf(rows, is) + row.litres
  <2>1. LitresOf(after, is) = LitresOf(rows, is)
    BY <1>1, SameLitres
  <2>2. is \cup {n} \in SUBSET (1 .. Len(after)) /\ {n} \in SUBSET (is \cup {n})
        /\ (is \cup {n}) \ {n} = is
    <3>1. \A i \in 1 .. Len(rows) : i \in 1 .. Len(after) /\ i # n
      BY <1>1
    <3>2. n \in 1 .. Len(after) /\ \A i \in is : i \in 1 .. Len(after) /\ i # n
      BY <1>1, <3>1
    <3> HIDE DEF n
    <3> QED BY <3>2
  <2>3. LitresOf(after, is \cup {n}) = LitresOf(after, {n}) + LitresOf(after, is)
    BY <1>1, <2>2, LitresSplit
  <2>4. LitresOf(after, {n}) = row.litres /\ row.litres \in Nat
    BY <1>1, LitresOfOne, RowTypes
  <2>5. LitresOf(rows, is) \in Nat
    BY LitresType
  <2> QED BY <2>1, <2>3, <2>4, <2>5
<1> QED
  BY <1>1, <1>2 DEF after

OnlySold(rows, row, after) ==
  /\ after \in Seq(Rows) /\ Len(after) = Len(rows) + 1
  /\ LinesOf(after) = LinesOf(rows) /\ PendingOf(after) = PendingOf(rows)
  /\ \A i \in 1 .. Len(rows) : after[i] = rows[i]
  /\ \A is \in SUBSET (1 .. Len(rows)) : LitresOf(after, is) = LitresOf(rows, is)
  /\ \A i \in 0 .. Len(rows) : SoldUpTo(after, i) = SoldUpTo(rows, i)
  /\ SoldUpTo(after, Len(after)) = SoldUpTo(rows, Len(rows)) + row.litres

LEMMA OneMoreSale ==
  ASSUME NEW rows \in Seq(Rows), NEW row \in SaleRows
  PROVE  OnlySold(rows, row, Append(rows, row))
<1> DEFINE after == Append(rows, row)
           n == Len(rows) + 1
<1>1. /\ after \in Seq(Rows) /\ Len(after) = n /\ after[n] = row
      /\ \A i \in 1 .. Len(rows) : after[i] = rows[i]
      /\ \A is \in SUBSET (1 .. Len(rows)) :
           /\ LitresOf(after, is) = LitresOf(rows, is)
           /\ LitresOf(after, is \cup {n}) = LitresOf(rows, is) + row.litres
  BY OneMoreRow DEF Rows
<1>2. row.kind = "Sale" /\ Len(rows) \in Nat
  BY DEF SaleRows
<1> HIDE DEF after
<1>3. 1 .. Len(after) = 1 .. Len(rows) \cup {n} /\ n \notin 1 .. Len(rows)
  BY <1>1, <1>2
<1>4. SalesOf(after) = SalesOf(rows) \cup {n}
  BY <1>1, <1>2, <1>3 DEF SalesOf
<1>5. LinesOf(after) = LinesOf(rows)
  BY <1>1, <1>2, <1>3 DEF LinesOf
<1>6. PendingOf(after) = PendingOf(rows)
  BY <1>1, <1>5 DEF PendingOf, LinesOf
<1>7. ASSUME NEW i \in 0 .. Len(rows) PROVE SoldUpTo(after, i) = SoldUpTo(rows, i)
  <2>1. {k \in SalesOf(after) : 0 < k /\ k <= i} = {k \in SalesOf(rows) : 0 < k /\ k <= i}
    <3>1. ~ (n <= i)
      BY <1>2
    <3> QED BY <1>4, <3>1
  <2>2. {k \in SalesOf(rows) : 0 < k /\ k <= i} \in SUBSET (1 .. Len(rows))
    BY DEF SalesOf
  <2> QED BY <1>1, <2>1, <2>2 DEF SoldUpTo
<1>8. SoldUpTo(after, n) = SoldUpTo(rows, Len(rows)) + row.litres
  <2> DEFINE sold == {k \in SalesOf(rows) : 0 < k /\ k <= Len(rows)}
  <2>1. sold \in SUBSET (1 .. Len(rows))
    BY DEF SalesOf
  <2>2. {k \in SalesOf(after) : 0 < k /\ k <= n} = sold \cup {n}
    <3>1. 0 < n /\ n <= n /\ \A k \in SalesOf(rows) : k <= n /\ k <= Len(rows)
      BY <1>2 DEF SalesOf
    <3> QED BY <1>4, <3>1
  <2> QED BY <1>1, <2>1, <2>2 DEF SoldUpTo
<1> QED
  BY <1>1, <1>5, <1>6, <1>7, <1>8 DEF after, OnlySold

OnlyUnloaded(rows, row, after) ==
  /\ after \in Seq(Rows) /\ Len(after) = Len(rows) + 1 /\ after[Len(after)] = row
  /\ LinesOf(after) = LinesOf(rows) \cup {Len(after)}
  /\ PendingOf(after) = PendingOf(rows) \cup {Len(after)}
  /\ \A i \in 1 .. Len(rows) : after[i] = rows[i]
  /\ \A is \in SUBSET (1 .. Len(rows)) :
       /\ LitresOf(after, is) = LitresOf(rows, is)
       /\ LitresOf(after, is \cup {Len(after)}) = LitresOf(rows, is) + row.litres
  /\ \A i \in 0 .. Len(rows) : SoldUpTo(after, i) = SoldUpTo(rows, i)
  /\ SoldUpTo(after, Len(after)) = SoldUpTo(rows, Len(rows))

LEMMA OneMoreLine ==
  ASSUME NEW rows \in Seq(Rows), NEW row \in LineRows, row.status = "PENDING"
  PROVE  OnlyUnloaded(rows, row, Append(rows, row))
<1> DEFINE after == Append(rows, row)
           n == Len(rows) + 1
<1>1. /\ after \in Seq(Rows) /\ Len(after) = n /\ after[n] = row
      /\ \A i \in 1 .. Len(rows) : after[i] = rows[i]
      /\ \A is \in SUBSET (1 .. Len(rows)) :
           /\ LitresOf(after, is) = LitresOf(rows, is)
           /\ LitresOf(after, is \cup {n}) = LitresOf(rows, is) + row.litres
  BY OneMoreRow DEF Rows
<1>2. row.kind = "Line" /\ Len(rows) \in Nat
  BY DEF LineRows
<1> HIDE DEF after
<1>3. 1 .. Len(after) = 1 .. Len(rows) \cup {n} /\ n \notin 1 .. Len(rows)
  BY <1>1, <1>2
<1>4. SalesOf(after) = SalesOf(rows)
  BY <1>1, <1>2, <1>3 DEF SalesOf
<1>5. LinesOf(after) = LinesOf(rows) \cup {n}
  BY <1>1, <1>2, <1>3 DEF LinesOf
<1>6. PendingOf(after) = PendingOf(rows) \cup {n}
  BY <1>1, <1>5 DEF PendingOf, LinesOf
<1>7. ASSUME NEW i PROVE SoldUpTo(after, i) = SoldUpTo(rows, i)
  <2>1. {k \in SalesOf(rows) : 0 < k /\ k <= i} \in SUBSET (1 .. Len(rows))
    BY DEF SalesOf
  <2> QED BY <1>1, <1>4, <2>1 DEF SoldUpTo
<1>8. SoldUpTo(rows, n) = SoldUpTo(rows, Len(rows))
  <2>1. \A k \in SalesOf(rows) : k <= n /\ k <= Len(rows)
    BY <1>2 DEF SalesOf
  <2>2. {k \in SalesOf(rows) : 0 < k /\ k <= n} = {k \in SalesOf(rows) : 0 < k /\ k <= Len(rows)}
    BY <2>1
  <2> QED BY <2>2 DEF SoldUpTo
<1> QED
  BY <1>1, <1>5, <1>6, <1>7, <1>8 DEF after, OnlyUnloaded

LEMMA FunctionIsSeq ==
  ASSUME NEW S, NEW n \in Nat, NEW f \in [1 .. n -> S]
  PROVE  f \in Seq(S) /\ Len(f) = n
<1>1. f \in Seq(S)
  BY SeqDef, Zenon
<1>2. DOMAIN f = 1 .. n
  OBVIOUS
<1> QED
  BY <1>1, <1>2, LenProperties

(* Lines that are measured keep everything but their status.               *)
Marked(rows, is, received) ==
  [i \in 1 .. Len(rows) |-> IF i \in is
                            THEN [rows[i] EXCEPT !.status = "MEASURED", !.received = received[i]]
                            ELSE rows[i]]

OnlyMarks(rows, is, received, after) ==
  /\ after \in Seq(Rows) /\ Len(after) = Len(rows)
  /\ LinesOf(after) = LinesOf(rows) /\ PendingOf(after) = PendingOf(rows) \ is
  /\ \A i \in LinesOf(rows) : /\ after[i].before = rows[i].before
                              /\ after[i].pumped = rows[i].pumped
                              /\ after[i].litres = rows[i].litres
  /\ \A i \in is : after[i].received = received[i]
  /\ \A i \in 1 .. Len(rows) \ is : after[i] = rows[i]
  /\ \A js \in SUBSET (1 .. Len(rows)) : LitresOf(after, js) = LitresOf(rows, js)
  /\ \A i : SoldUpTo(after, i) = SoldUpTo(rows, i)

LEMMA MarkedRows ==
  ASSUME NEW rows \in Seq(Rows), NEW is \in SUBSET PendingOf(rows), NEW received \in [is -> Nat],
         NEW after, after = Marked(rows, is, received)
  PROVE  OnlyMarks(rows, is, received, after)
<1>1. /\ Len(rows) \in Nat /\ is \subseteq LinesOf(rows) /\ is \subseteq 1 .. Len(rows)
      /\ \A i \in is : rows[i] \in LineRows /\ rows[i].status = "PENDING"
      /\ \A i \in 1 .. Len(rows) : rows[i] \in Rows
  BY RowTypes DEF PendingOf, LinesOf
<1>2. \A i \in is : /\ after[i] \in LineRows /\ after[i].kind = rows[i].kind
                    /\ after[i].litres = rows[i].litres /\ after[i].before = rows[i].before
                    /\ after[i].pumped = rows[i].pumped
                    /\ after[i].status = "MEASURED" /\ after[i].received = received[i]
  BY <1>1 DEF LineRows, Marked
<1>3. \A i \in 1 .. Len(rows) \ is : after[i] = rows[i]
  BY DEF Marked
<1>4. after \in [1 .. Len(rows) -> Rows]
  BY <1>1, <1>2, <1>3 DEF Rows, Marked
<1>5. after \in Seq(Rows) /\ Len(after) = Len(rows)
  BY <1>1, <1>4, FunctionIsSeq
<1>6. \A i \in 1 .. Len(rows) : after[i].kind = rows[i].kind /\ after[i].litres = rows[i].litres
  BY <1>2, <1>3
<1>7. SalesOf(after) = SalesOf(rows) /\ LinesOf(after) = LinesOf(rows)
  BY <1>5, <1>6 DEF SalesOf, LinesOf
<1>8. PendingOf(after) = PendingOf(rows) \ is
  BY <1>1, <1>2, <1>3, <1>7 DEF PendingOf, LinesOf
<1>9. \A js \in SUBSET (1 .. Len(rows)) : LitresOf(after, js) = LitresOf(rows, js)
  BY <1>6, SameLitres
<1>10. ASSUME NEW i PROVE SoldUpTo(after, i) = SoldUpTo(rows, i)
  <2>1. {k \in SalesOf(rows) : 0 < k /\ k <= i} \in SUBSET (1 .. Len(rows))
    BY DEF SalesOf
  <2> QED BY <1>7, <1>9, <2>1 DEF SoldUpTo
<1>11. \A i \in LinesOf(rows) : /\ after[i].before = rows[i].before
                                /\ after[i].pumped = rows[i].pumped
                                /\ after[i].litres = rows[i].litres
  BY <1>2, <1>3 DEF LinesOf
<1> QED
  BY <1>2, <1>3, <1>5, <1>7, <1>8, <1>9, <1>10, <1>11 DEF OnlyMarks

-----------------------------------------------------------------------------
(* The invariant of the books: FuelInv.                                    *)

(* A Shift's tested litres lie between its readings, and no reading is      *)
(* ahead of the meter.  Before the first Shift nothing has happened.       *)
ReadingOrder ==
  /\ FirstMeter <= meter
  /\ \A s \in Shifts : /\ opening[s] + testing[s] <= closing[s] /\ closing[s] <= meter
                       /\ s > opened => testing[s] = 0
  /\ opened = 0 => meter = FirstMeter /\ pumped = 0 /\ tested = 0 /\ Booked = 0

(* What was booked is what was pumped up to the newest Shift's opening      *)
(* reading while it runs, up to its closing reading after.                 *)
SalesBooked ==
  reopened = {} /\ opened > 0 =>
    /\ status[opened] = "OPEN" =>
         Booked = pumped - (meter - opening[opened] - tested - testing[opened])
    /\ status[opened] = "CLOSED" =>
         Booked = pumped - (meter - closing[opened] - tested)

(* The fuel in the tank is what was there and was unloaded, less what was   *)
(* pumped, now and at each before dip.                                     *)
TankLevel ==
  /\ tank + pumped = FirstLevel + LitresOf(log, Lines)
  /\ \A i \in Lines :
       log[i].before + log[i].pumped = FirstLevel + LitresOf(log, {j \in Lines : j < i})

(* Where nothing was lost, every tanker began with all pumped litres        *)
(* booked, the measured lines come before the pending ones, and the books  *)
(* are even.                                                               *)
ExactBooks ==
  Exact =>
    /\ \A i \in Lines : log[i].pumped = SoldUpTo(log, i)
    /\ \A i \in Pending, j \in Measured : j < i
    /\ \A i \in Measured : log[i].received = log[i].litres
    /\ adjusted = 0
    /\ book + (LitresOf(log, Pending) + Booked) = tank + pumped

FuelInv == Continuity /\ TypeOK /\ ReadingOrder /\ SalesBooked /\ TankLevel /\ ExactBooks

(* The model's views of its log are those of the section above.            *)
LEMMA Views ==
  /\ Now = Len(log) /\ Lines = LinesOf(log) /\ Pending = PendingOf(log)
  /\ Measured = LinesOf(log) \ PendingOf(log) /\ Booked = SoldUpTo(log, Len(log))
  /\ Sales = SalesOf(log) /\ Litres(Pending) = LitresOf(log, PendingOf(log))
BY DEF Now, Lines, Pending, Measured, Booked, Sales, Litres, SoldBetween,
       LinesOf, PendingOf, SalesOf, LitresOf, SoldUpTo

LEMMA ViewsNext ==
  /\ Now' = Len(log') /\ Lines' = LinesOf(log') /\ Pending' = PendingOf(log')
  /\ Measured' = LinesOf(log') \ PendingOf(log') /\ Booked' = SoldUpTo(log', Len(log'))
BY DEF Now, Lines, Pending, Measured, Booked, Sales, Litres, SoldBetween,
       LinesOf, PendingOf, SalesOf, LitresOf, SoldUpTo

LEMMA VariableTypes ==
  ASSUME TypeOK
  PROVE  /\ opened \in 0 .. MaxShifts /\ MaxShifts \in Nat
         /\ status \in [Shifts -> {"none", "OPEN", "CLOSED"}]
         /\ opening \in [Shifts -> Nat] /\ closing \in [Shifts -> Nat]
         /\ testing \in [Shifts -> Nat]
         /\ log \in Seq(Rows) /\ book \in Int /\ adjusted \in Int
         /\ meter \in Nat /\ tank \in Nat /\ pumped \in Nat /\ tested \in Nat
         /\ FirstMeter \in Nat /\ FirstLevel \in Nat
         /\ Booked \in Nat
<1>1. log \in Seq(Rows)
  BY DEF TypeOK, Rows
<1>2. Booked \in Nat
  <2>1. Len(log) \in 0 .. Len(log) /\ Len(log) \in Len(log) .. Len(log)
    BY <1>1
  <2> QED BY <1>1, <2>1, SoldSince, Views
<1> QED
  BY <1>1, <1>2, FuelAssumption DEF TypeOK

(* A dip's two cases: the window ends at the dip or where the next begins.  *)
Later(i) == {j \in Pending : j > i}

LEMMA ReceivedCases ==
  ASSUME TypeOK, NEW i \in Pending
  PROVE  /\ Later(i) = {} => Received(i) = tank - log[i].before + SoldBetween(i, Now)
         /\ Later(i) # {} =>
              \E next \in Later(i) :
                /\ \A k \in Later(i) : next <= k
                /\ Received(i) = log[next].before - log[i].before + SoldBetween(i, next)
<1>1. ASSUME Later(i) = {}
      PROVE  Received(i) = tank - log[i].before + SoldBetween(i, Now)
  BY <1>1 DEF Received, Later
<1>2. ASSUME Later(i) # {}
      PROVE  \E next \in Later(i) :
               /\ \A k \in Later(i) : next <= k
               /\ Received(i) = log[next].before - log[i].before + SoldBetween(i, next)
  <2> DEFINE next == CHOOSE j \in Later(i) : \A k \in Later(i) : j <= k
  <2>1. Later(i) \in SUBSET Nat
    BY DEF Later, Pending, Lines
  <2>2. \E m \in Later(i) : \A k \in Later(i) : m <= k
    BY <1>2, <2>1, Earliest
  <2>3. next \in Later(i) /\ \A k \in Later(i) : next <= k
    BY <2>2
  <2>4. Received(i) = log[next].before - log[i].before + SoldBetween(i, next)
    BY <1>2 DEF Received, Later
  <2> QED BY <2>3, <2>4
<1> QED
  BY <1>1, <1>2

(* The windows' sales, as what was sold up to their ends.                  *)
LEMMA WindowSales ==
  ASSUME TypeOK, NEW i \in 1 .. Now, NEW j \in i .. Now
  PROVE  /\ SoldBetween(i, j) \in Nat /\ SoldUpTo(log, i) \in Nat
         /\ SoldBetween(i, j) = SoldUpTo(log, j) - SoldUpTo(log, i)
<1>1. log \in Seq(Rows) /\ i \in 0 .. Len(log) /\ j \in i .. Len(log)
  BY VariableTypes DEF Now
<1>2. SoldBetween(i, j) = LitresOf(log, {k \in SalesOf(log) : i < k /\ k <= j})
  BY DEF SoldBetween, Litres, LitresOf, Sales, SalesOf, Now
<1> QED
  BY <1>1, <1>2, SoldSince

LEMMA PendingTypes ==
  ASSUME TypeOK, NEW i \in Pending
  PROVE  /\ i \in Lines /\ i \in 1 .. Now /\ Now \in Nat /\ Now = Len(log)
         /\ log[i].before \in Nat /\ log[i].pumped \in Nat /\ log[i].litres \in Nat
BY VariableTypes, Views, RowTypes DEF LineRows

(* What a dip makes of a line is a whole number of litres, ...             *)
LEMMA ReceivedType ==
  ASSUME TypeOK, NEW i \in Pending
  PROVE  Received(i) \in Int
<1>1. tank \in Nat /\ log[i].before \in Nat /\ i \in 1 .. Now /\ Now \in i .. Now
  BY VariableTypes, PendingTypes
<1>2. CASE Later(i) = {}
  BY <1>1, <1>2, ReceivedCases, WindowSales
<1>3. CASE Later(i) # {}
  <2>1. PICK next \in Later(i) :
          Received(i) = log[next].before - log[i].before + SoldBetween(i, next)
    BY <1>3, ReceivedCases
  <2>2. next \in Pending /\ next > i
    BY DEF Later
  <2>3. next \in i .. Now /\ log[next].before \in Nat
    BY <1>1, <2>2, PendingTypes
  <2> QED BY <1>1, <2>1, <2>3, WindowSales
<1> QED
  BY <1>2, <1>3

(* ... and where the pumped litres are all booked and the measured lines    *)
(* come first, it is what that tanker unloaded.                            *)
LEMMA WindowSum ==
  ASSUME NEW first \in Int, NEW earlier \in Int, NEW litres \in Int,
         NEW level \in Int, NEW until \in Int, NEW before \in Int, NEW since \in Int,
         level + until = first + (earlier + litres), before + since = first + earlier
  PROVE  level - before + (until - since) = litres
OBVIOUS

LEMMA ReceivedIsLitres ==
  ASSUME FuelInv, Exact, Unbooked = 0, NEW i \in Pending
  PROVE  Received(i) = log[i].litres
<1> DEFINE before(n) == {j \in Lines : j < n}
<1>1. /\ TypeOK /\ log \in Seq(Rows) /\ tank \in Nat /\ pumped \in Nat /\ FirstLevel \in Nat
      /\ Booked \in Nat /\ Booked = SoldUpTo(log, Now) /\ Lines \in SUBSET (1 .. Len(log))
      /\ Now = Len(log) /\ Now \in Nat /\ \A j \in Lines : j \in Int
  BY VariableTypes, Views, RowTypes DEF FuelInv
<1>2. /\ i \in Lines /\ i \in 1 .. Now /\ log[i].before \in Nat /\ log[i].pumped \in Nat
      /\ log[i].litres \in Nat /\ i \in Int
  BY <1>1, PendingTypes
<1>3. /\ \A n \in Lines : /\ log[n].pumped = SoldUpTo(log, n)
                          /\ log[n].before + log[n].pumped = FirstLevel + LitresOf(log, before(n))
      /\ tank + pumped = FirstLevel + LitresOf(log, Lines)
      /\ pumped = Booked
  <2>1. pumped = Booked
    BY <1>1 DEF Unbooked
  <2> QED BY <2>1 DEF FuelInv, ExactBooks, TankLevel
<1>4. \A j \in Lines : j > i => j \in Later(i)
  <2>1. \A j \in Measured : j < i /\ j \in Int
    BY <1>1 DEF FuelInv, ExactBooks, Measured, Lines
  <2> QED BY <1>1, <1>2, <2>1 DEF Measured, Later
<1>5. ASSUME NEW is \in SUBSET Lines, is = before(i) \cup {i}
      PROVE  LitresOf(log, is) = LitresOf(log, before(i)) + log[i].litres
  <2>1. is \in SUBSET (1 .. Len(log)) /\ {i} \in SUBSET is /\ is \ {i} = before(i)
    <3>1. i \notin before(i)
      BY <1>2
    <3> HIDE DEF before
    <3> QED BY <1>1, <1>5, <3>1
  <2>2. LitresOf(log, is) = LitresOf(log, {i}) + LitresOf(log, before(i))
    BY <1>1, <2>1, LitresSplit
  <2>3. LitresOf(log, {i}) = log[i].litres
    BY <1>1, <1>2, LitresOfOne
  <2>4. LitresOf(log, before(i)) \in Nat
    <3>1. before(i) \in SUBSET (1 .. Len(log))
      BY <1>1
    <3> QED BY <1>1, <3>1, LitresType
  <2> QED BY <1>2, <2>2, <2>3, <2>4
<1>6. LitresOf(log, before(i)) \in Nat
  <2>1. before(i) \in SUBSET (1 .. Len(log))
    BY <1>1
  <2> QED BY <1>1, <2>1, LitresType
<1>7. CASE Later(i) = {}
  <2>1. Lines = before(i) \cup {i}
    <3>1. \A j \in Lines : j < i \/ j = i
      BY <1>1, <1>2, <1>4, <1>7
    <3> QED BY <1>2, <3>1
  <2>2. LitresOf(log, Lines) = LitresOf(log, before(i)) + log[i].litres
    BY <1>5, <2>1
  <2>3. Received(i) = tank - log[i].before + SoldBetween(i, Now)
    BY <1>1, <1>7, ReceivedCases
  <2>4. SoldBetween(i, Now) = pumped - log[i].pumped
    <3>1. Now \in i .. Now
      BY <1>1, <1>2
    <3>2. SoldBetween(i, Now) = SoldUpTo(log, Now) - SoldUpTo(log, i)
      BY <1>1, <1>2, <3>1, WindowSales
    <3> QED BY <1>1, <1>2, <1>3, <3>2
  <2> HIDE DEF before
  <2>5. /\ tank + pumped = FirstLevel + (LitresOf(log, before(i)) + log[i].litres)
        /\ log[i].before + log[i].pumped = FirstLevel + LitresOf(log, before(i))
    BY <1>2, <1>3, <2>2
  <2>6. tank - log[i].before + (pumped - log[i].pumped) = log[i].litres
    <3> DEFINE e == LitresOf(log, before(i))
               b == log[i].before
               p == log[i].pumped
               n == log[i].litres
    <3>1. /\ tank \in Int /\ pumped \in Int /\ FirstLevel \in Int
          /\ e \in Int /\ b \in Int /\ p \in Int /\ n \in Int
      BY <1>1, <1>2, <1>6
    <3>2. tank + pumped = FirstLevel + (e + n) /\ b + p = FirstLevel + e
      BY <2>5
    <3> HIDE DEF e, b, p, n
    <3>3. tank - b + (pumped - p) = n
      BY <3>1, <3>2, WindowSum
    <3> QED BY <3>3 DEF b, p, n
  <2> QED BY <2>3, <2>4, <2>6
<1>8. CASE Later(i) # {}
  <2>1. PICK next \in Later(i) :
          /\ \A k \in Later(i) : next <= k
          /\ Received(i) = log[next].before - log[i].before + SoldBetween(i, next)
    BY <1>1, <1>8, ReceivedCases
  <2>2. next \in Pending /\ next > i
    BY DEF Later
  <2>3. next \in Lines /\ next \in 1 .. Now /\ log[next].before \in Nat /\ log[next].pumped \in Nat
    BY <1>1, <2>2, PendingTypes
  <2>4. before(next) = before(i) \cup {i}
    <3>1. \A j \in Lines : j < next <=> (j < i \/ j = i)
      BY <1>1, <1>2, <1>4, <2>1, <2>2, <2>3
    <3> QED BY <1>2, <3>1
  <2>5. LitresOf(log, before(next)) = LitresOf(log, before(i)) + log[i].litres
    BY <1>5, <2>4
  <2>6. SoldBetween(i, next) = log[next].pumped - log[i].pumped
    <3>1. next \in i .. Now
      BY <1>1, <1>2, <2>2, <2>3
    <3>2. SoldBetween(i, next) = SoldUpTo(log, next) - SoldUpTo(log, i)
      BY <1>1, <1>2, <3>1, WindowSales
    <3> QED BY <1>2, <1>3, <2>3, <3>2
  <2> HIDE DEF before
  <2>7. /\ log[next].before + log[next].pumped
             = FirstLevel + (LitresOf(log, before(i)) + log[i].litres)
        /\ log[i].before + log[i].pumped = FirstLevel + LitresOf(log, before(i))
    BY <1>2, <1>3, <2>3, <2>5
  <2>8. log[next].before - log[i].before + (log[next].pumped - log[i].pumped) = log[i].litres
    <3> DEFINE e == LitresOf(log, before(i))
               b == log[i].before
               p == log[i].pumped
               n == log[i].litres
               c == log[next].before
               q == log[next].pumped
    <3>1. /\ c \in Int /\ q \in Int /\ FirstLevel \in Int
          /\ e \in Int /\ b \in Int /\ p \in Int /\ n \in Int
      BY <1>1, <1>2, <1>6, <2>3
    <3>2. c + q = FirstLevel + (e + n) /\ b + p = FirstLevel + e
      BY <2>7
    <3> HIDE DEF e, b, p, n, c, q
    <3>3. c - b + (q - p) = n
      BY <3>1, <3>2, WindowSum
    <3> QED BY <3>3 DEF b, p, n, c, q
  <2> QED BY <2>1, <2>6, <2>8
<1> QED
  BY <1>7, <1>8

(* What the steps put into the log                                         *)
LEMMA NetLitresType ==
  ASSUME TypeOK, NEW s \in Shifts, NEW r \in Nat, r >= opening[s]
  PROVE  /\ NetLitres(s, r) \in Nat /\ SaleRow(NetLitres(s, r)) \in SaleRows
         /\ opening[s] + testing[s] <= r => NetLitres(s, r) = r - opening[s] - testing[s]
<1>1. opening[s] \in Nat /\ testing[s] \in Nat
  BY VariableTypes
<1>2. NetLitres(s, r) \in Nat
  BY <1>1 DEF NetLitres
<1> QED
  BY <1>1, <1>2 DEF NetLitres, SaleRow, SaleRows

LEMMA LineRowType ==
  ASSUME TypeOK, NEW n \in Loads
  PROVE  n \in Nat /\ LineRow(n) \in LineRows /\ LineRow(n).status = "PENDING"
BY VariableTypes, FuelAssumption DEF LineRow, LineRows

LEMMA DipTypes ==
  ASSUME TypeOK, NEW named
  PROVE  /\ MeasuredByDip(named) \in SUBSET PendingOf(log) /\ IsFiniteSet(MeasuredByDip(named))
         /\ [i \in MeasuredByDip(named) |-> Received(i)] \in [MeasuredByDip(named) -> Nat]
         /\ Sum([i \in MeasuredByDip(named) |-> Received(i)], MeasuredByDip(named)) \in Nat
<1> DEFINE is == MeasuredByDip(named)
           f  == [i \in is |-> Received(i)]
<1>1. is \in SUBSET Pending /\ \A i \in is : Received(i) >= 0
  BY DEF MeasuredByDip
<1>2. is \in SUBSET (1 .. Len(log)) /\ is \in SUBSET PendingOf(log)
  <2>1. PendingOf(log) \subseteq 1 .. Len(log)
    BY DEF PendingOf, LinesOf
  <2>2. Pending = PendingOf(log)
    BY Views
  <2> QED BY <1>1, <2>1, <2>2
<1>3. \A i \in is : Received(i) \in Nat
  BY <1>1, ReceivedType
<1>4. IsFiniteSet(is)
  BY <1>2, LitresType, VariableTypes
<1>5. f \in [is -> Nat] /\ \A i \in is : f[i] \in Nat
  BY <1>3
<1>6. Sum(f, is) \in Nat
  <2> HIDE DEF f, is
  <2> QED BY <1>4, <1>5, SumNat
<1> QED
  BY <1>2, <1>4, <1>5, <1>6

LEMMA AfterDipTypes ==
  ASSUME TypeOK, NEW i, MeasureWithAfterDip(i)
  PROVE  \E received \in Nat :
           /\ received = tank - log[i].before + (pumped - log[i].pumped)
           /\ i \in Pending /\ {i} \in SUBSET PendingOf(log)
           /\ \A j \in Lines : j <= i
           /\ [j \in {i} |-> received] \in [{i} -> Nat]
           /\ log' = MarkMeasured({i}, [j \in {i} |-> received])
           /\ book' = book + received
           /\ quirks' = quirks \cup Overtaken({i})
<1> DEFINE received == tank - log[i].before + (pumped - log[i].pumped)
<1>1. /\ i \in Pending /\ received >= 0 /\ \A j \in Lines : j <= i
      /\ log' = MarkMeasured({i}, [j \in {i} |-> received])
      /\ book' = book + received /\ quirks' = quirks \cup Overtaken({i})
  BY DEF MeasureWithAfterDip
<1>2. received \in Nat
  <2>1. tank \in Nat /\ pumped \in Nat /\ log[i].before \in Nat /\ log[i].pumped \in Nat
    BY <1>1, VariableTypes, PendingTypes
  <2> QED BY <1>1, <2>1
<1>3. {i} \in SUBSET PendingOf(log)
  BY <1>1, Views
<1> HIDE DEF received
<1>4. [j \in {i} |-> received] \in [{i} -> Nat]
  BY <1>2
<1> QED
  BY <1>1, <1>2, <1>3, <1>4 DEF received

LEMMA MarkedLog ==
  ASSUME TypeOK, NEW is \in SUBSET PendingOf(log), NEW received \in [is -> Nat],
         log' = MarkMeasured(is, received)
  PROVE  OnlyMarks(log, is, received, log')
<1>1. log \in Seq(Rows)
  BY VariableTypes
<1>2. log' = Marked(log, is, received)
  BY DEF MarkMeasured, Marked, Now
<1> QED
  BY <1>1, <1>2, MarkedRows

(* Types                                                                   *)
LEMMA TypesStep == FuelInv /\ [Next]_vars => TypeOK'
<1> SUFFICES ASSUME FuelInv, [Next]_vars PROVE TypeOK'
  OBVIOUS
<1> DEFINE RestTypes == /\ testing \in [Shifts -> Nat] /\ closes \in [Shifts -> Nat]
                        /\ closedAt \in [Shifts -> Nat] /\ handed \in [Shifts -> BOOLEAN]
                        /\ dipped \subseteq Shifts
           BookTypes == /\ log \in Seq(Rows) /\ book \in Int /\ adjusted \in Int
                        /\ quirks \subseteq Quirks
           FuelTypes == tank \in Nat /\ pumped \in Nat /\ tested \in Nat
<1>1. TypeOK /\ ReadingTypes
  BY DEF FuelInv, Continuity
<1>2. RestTypes /\ BookTypes /\ FuelTypes
  BY <1>1 DEF TypeOK, Rows
<1>3. ReadingTypes'
  BY ContinuityStep DEF Continuity, FuelInv
<1>4. SUFFICES RestTypes' /\ BookTypes' /\ FuelTypes'
  BY <1>3 DEF TypeOK, ReadingTypes, Rows
<1>5. Now \in Nat /\ Unread \subseteq Quirks /\ \A is : Overtaken(is) \subseteq Quirks
  BY <1>2 DEF Now, Unread, Overtaken, Quirks
<1>6. CASE Pump
  BY <1>2, <1>6 DEF Pump, shiftVars, bookVars
<1>7. CASE Test
  BY <1>2, <1>7 DEF Test, shiftVars, bookVars
<1>8. CASE OpenShift
  BY <1>2, <1>8 DEF OpenShift, fuelVars, bookVars
<1>9. CASE RecordDecantation
  <2>1. PICK n \in Loads : log' = Append(log, LineRow(n)) /\ tank' = tank + n
    BY <1>9 DEF RecordDecantation
  <2>2. n \in Nat /\ LineRow(n) \in Rows
    BY <1>1, LineRowType DEF Rows
  <2>3. log' \in Seq(Rows) /\ tank' \in Nat
    BY <1>2, <2>1, <2>2
  <2> QED BY <1>2, <1>5, <1>9, <2>3 DEF RecordDecantation, shiftVars
<1>10. ASSUME NEW s \in Shifts, RecordNozzleReadings(s) PROVE RestTypes' /\ BookTypes' /\ FuelTypes'
  BY <1>2, <1>10 DEF RecordNozzleReadings, fuelVars, bookVars
<1>11. ASSUME NEW s \in Shifts, RecordHandover(s) PROVE RestTypes' /\ BookTypes' /\ FuelTypes'
  BY <1>2, <1>11 DEF RecordHandover, bookVars
<1>12. ASSUME NEW s \in Shifts, CloseShift(s) PROVE RestTypes' /\ BookTypes' /\ FuelTypes'
  <2>1. PICK r \in Readings(s) \cup {closing[s]} :
          /\ r >= opening[s]
          /\ log' = Append(log, SaleRow(NetLitres(s, r)))
          /\ book' = book - NetLitres(s, r)
    BY <1>12 DEF CloseShift
  <2>2. r \in Nat
    BY ReadingsAreNat DEF FuelInv
  <2>3. NetLitres(s, r) \in Nat /\ SaleRow(NetLitres(s, r)) \in Rows
    BY <1>1, <2>1, <2>2, NetLitresType DEF Rows
  <2>4. log' \in Seq(Rows) /\ book' \in Int
    BY <1>2, <2>1, <2>3
  <2> QED BY <1>2, <1>5, <1>12, <2>4 DEF CloseShift, fuelVars
<1>13. ASSUME NEW s \in Shifts, ReopenShift(s) PROVE RestTypes' /\ BookTypes' /\ FuelTypes'
  BY <1>2, <1>13 DEF ReopenShift, fuelVars, bookVars
<1>14. ASSUME NEW i, MeasureWithAfterDip(i) PROVE RestTypes' /\ BookTypes' /\ FuelTypes'
  <2>1. PICK received \in Nat :
          /\ {i} \in SUBSET PendingOf(log) /\ [j \in {i} |-> received] \in [{i} -> Nat]
          /\ log' = MarkMeasured({i}, [j \in {i} |-> received])
          /\ book' = book + received
    BY <1>1, <1>14, AfterDipTypes
  <2>2. log' \in Seq(Rows)
    BY <1>1, <2>1, MarkedLog DEF OnlyMarks
  <2>3. book' \in Int
    BY <1>2, <2>1
  <2> QED BY <1>2, <1>5, <1>14, <2>2, <2>3 DEF MeasureWithAfterDip, shiftVars, fuelVars
<1>15. ASSUME NEW named \in {{}} \cup {{s} : s \in Shifts}, RecordStockCount(named)
       PROVE  RestTypes' /\ BookTypes' /\ FuelTypes'
  <2> DEFINE is == MeasuredByDip(named)
             received == Sum([i \in is |-> Received(i)], is)
             variance == Reconcile(received)
  <2>1. /\ log' = MarkMeasured(is, [i \in is |-> Received(i)])
        /\ book' = book + received + variance /\ adjusted' = adjusted + variance
        /\ dipped' = dipped \cup named
    BY <1>15 DEF RecordStockCount
  <2>2. received \in Nat /\ log' \in Seq(Rows)
    <3>1. /\ is \in SUBSET PendingOf(log) /\ [i \in is |-> Received(i)] \in [is -> Nat]
          /\ received \in Nat
      BY <1>1, DipTypes
    <3> HIDE DEF is, received
    <3> QED BY <1>1, <2>1, <3>1, MarkedLog DEF OnlyMarks
  <2>3. quirks' \subseteq Quirks
    BY <1>2, <1>5, <1>15 DEF RecordStockCount
  <2>4. UNCHANGED <<testing, closes, closedAt, handed, fuelVars>> /\ named \subseteq Shifts
    BY <1>15 DEF RecordStockCount
  <2> HIDE DEF is, received
  <2>5. variance \in Int
    BY <1>2, <2>2 DEF Reconcile
  <2> HIDE DEF variance
  <2>6. book' \in Int /\ adjusted' \in Int
    BY <1>2, <2>1, <2>2, <2>5
  <2> QED BY <1>2, <2>1, <2>2, <2>3, <2>4, <2>6 DEF fuelVars
<1>16. CASE UNCHANGED vars
  BY <1>2, <1>16 DEF vars, shiftVars, fuelVars, bookVars
<1> QED
  BY <1>6, <1>7, <1>8, <1>9, <1>10, <1>11, <1>12, <1>13, <1>14, <1>15, <1>16 DEF Next

(* Readings and sales                                                      *)

(* What the steps do to the log, and so to what is booked.                 *)
LEMMA ClosingRow ==
  ASSUME FuelInv, NEW s \in Shifts, CloseShift(s)
  PROVE  \E r \in Nat :
           /\ status[s] = "OPEN" /\ closing[s] <= r /\ r <= meter
           /\ status' = [status EXCEPT ![s] = "CLOSED"] /\ closing' = [closing EXCEPT ![s] = r]
           /\ NetLitres(s, r) = r - opening[s] - testing[s] /\ NetLitres(s, r) \in Nat
           /\ OnlySold(log, SaleRow(NetLitres(s, r)), log') /\ book' = book - NetLitres(s, r)
<1>1. PICK r \in Readings(s) \cup {closing[s]} :
        /\ status[s] = "OPEN" /\ r >= opening[s]
        /\ status' = [status EXCEPT ![s] = "CLOSED"] /\ closing' = [closing EXCEPT ![s] = r]
        /\ log' = Append(log, SaleRow(NetLitres(s, r))) /\ book' = book - NetLitres(s, r)
  BY DEF CloseShift
<1>2. TypeOK /\ log \in Seq(Rows) /\ opening[s] \in Nat /\ testing[s] \in Nat /\ closing[s] \in Nat
      /\ meter \in Nat
  BY VariableTypes DEF FuelInv
<1>3. r \in Nat /\ closing[s] <= r /\ r <= meter
  <2>1. closing[s] <= meter
    BY DEF FuelInv, ReadingOrder
  <2> QED BY <1>2, <2>1 DEF Readings
<1>4. opening[s] + testing[s] <= r
  <2>1. opening[s] + testing[s] <= closing[s]
    BY DEF FuelInv, ReadingOrder
  <2> QED BY <1>2, <1>3, <2>1
<1>5. /\ NetLitres(s, r) = r - opening[s] - testing[s] /\ NetLitres(s, r) \in Nat
      /\ SaleRow(NetLitres(s, r)) \in SaleRows
  BY <1>1, <1>2, <1>3, <1>4, NetLitresType
<1>6. OnlySold(log, SaleRow(NetLitres(s, r)), log')
  BY <1>1, <1>2, <1>5, OneMoreSale
<1> QED
  BY <1>1, <1>3, <1>5, <1>6

LEMMA TankerRow ==
  ASSUME FuelInv, RecordDecantation
  PROVE  \E n \in Nat : /\ OnlyUnloaded(log, LineRow(n), log')
                        /\ tank' = tank + n /\ quirks' = quirks \cup Unread
<1>1. PICK n \in Loads : /\ log' = Append(log, LineRow(n)) /\ tank' = tank + n
                         /\ quirks' = quirks \cup Unread
  BY DEF RecordDecantation
<1>2. log \in Seq(Rows) /\ n \in Nat /\ LineRow(n) \in LineRows /\ LineRow(n).status = "PENDING"
  BY LineRowType, VariableTypes DEF FuelInv
<1>3. OnlyUnloaded(log, LineRow(n), log')
  BY <1>1, <1>2, OneMoreLine
<1> QED
  BY <1>1, <1>2, <1>3

LEMMA DipMarks ==
  ASSUME FuelInv, NEW named, RecordStockCount(named)
  PROVE  OnlyMarks(log, MeasuredByDip(named), [i \in MeasuredByDip(named) |-> Received(i)], log')
<1> DEFINE is == MeasuredByDip(named)
           f == [i \in is |-> Received(i)]
<1>1. log' = MarkMeasured(is, f)
  BY DEF RecordStockCount
<1>2. TypeOK /\ is \in SUBSET PendingOf(log) /\ f \in [is -> Nat]
  BY DipTypes DEF FuelInv
<1> HIDE DEF is, f
<1>3. OnlyMarks(log, is, f, log')
  BY <1>1, <1>2, MarkedLog
<1> QED
  BY <1>3 DEF is, f

LEMMA BookedAfter ==
  ASSUME TypeOK
  PROVE  /\ log' = log => Booked' = Booked
         /\ \A is, f : OnlyMarks(log, is, f, log') => Booked' = Booked
         /\ \A row : OnlyUnloaded(log, row, log') => Booked' = Booked
         /\ \A row : OnlySold(log, row, log') => Booked' = Booked + row.litres
<1>1. Booked = SoldUpTo(log, Len(log)) /\ Booked' = SoldUpTo(log', Len(log'))
  BY Views, ViewsNext
<1> QED
  BY <1>1 DEF OnlyMarks, OnlyUnloaded, OnlySold

LEMMA BookedKept ==
  ASSUME FuelInv, [Next]_vars, \A s \in Shifts : ~ CloseShift(s)
  PROVE  Booked' = Booked
<1>1. TypeOK
  BY DEF FuelInv
<1>2. CASE log' = log
  BY <1>1, <1>2, BookedAfter
<1>3. CASE RecordDecantation
  BY <1>1, <1>3, TankerRow, BookedAfter
<1>4. CASE \E i \in 1 .. Now : MeasureWithAfterDip(i)
  <2>1. PICK i \in 1 .. Now : MeasureWithAfterDip(i)
    BY <1>4
  <2>2. PICK received \in Nat :
          /\ {i} \in SUBSET PendingOf(log) /\ [j \in {i} |-> received] \in [{i} -> Nat]
          /\ log' = MarkMeasured({i}, [j \in {i} |-> received])
    BY <1>1, <2>1, AfterDipTypes
  <2>3. OnlyMarks(log, {i}, [j \in {i} |-> received], log')
    BY <1>1, <2>2, MarkedLog
  <2> QED BY <1>1, <2>3, BookedAfter
<1>5. CASE \E named \in {{}} \cup {{s} : s \in Shifts} : RecordStockCount(named)
  <2>1. PICK named : RecordStockCount(named)
    BY <1>5
  <2>2. OnlyMarks(log, MeasuredByDip(named), [i \in MeasuredByDip(named) |-> Received(i)], log')
    BY <2>1, DipMarks
  <2> QED BY <1>1, <2>2, BookedAfter
<1>6. CASE UNCHANGED vars
  BY <1>2, <1>6 DEF vars, bookVars
<1>7. CASE Pump \/ Test \/ OpenShift
  BY <1>2, <1>7 DEF Pump, Test, OpenShift, bookVars
<1>8. ASSUME NEW s \in Shifts, RecordNozzleReadings(s) \/ RecordHandover(s) \/ ReopenShift(s)
      PROVE  Booked' = Booked
  BY <1>2, <1>8 DEF RecordNozzleReadings, RecordHandover, ReopenShift, bookVars
<1> QED
  BY <1>3, <1>4, <1>5, <1>6, <1>7, <1>8 DEF Next

(* Without a reopening, the newest Shift is the one that runs.             *)
LEMMA TheNewestRuns ==
  ASSUME Continuity
  PROVE  /\ \A s \in Shifts : status[s] = "OPEN" => s <= opened
         /\ \A s \in Shifts : status[s] = "OPEN" /\ reopened = {} => s = opened
         /\ \A s \in Shifts : s = opened => status[s] \in {"OPEN", "CLOSED"}
         /\ opened > 0 => opened \in Shifts
         /\ OpenShifts # {} => opened > 0
         /\ OpenShifts = {} /\ opened > 0 => status[opened] = "CLOSED"
<1>1. /\ opened \in 0 .. MaxShifts /\ MaxShifts \in Nat /\ Shifts = 1 .. MaxShifts
      /\ \A s \in Shifts : status[s] \in {"none", "OPEN", "CLOSED"} /\ s \in Nat
      /\ \A s \in Shifts : (status[s] = "none" <=> s > opened)
  BY FuelAssumption DEF Continuity, ReadingTypes, ExistsOnceOpened, Shifts
<1>2. \A s \in Shifts : s < opened /\ reopened = {} => status[s] = "CLOSED"
  BY DEF Continuity, EarlierAreClosed
<1>3. opened > 0 => opened \in Shifts
  BY <1>1
<1>4. \A s \in Shifts : status[s] = "OPEN" => s <= opened
  BY <1>1
<1>5. \A s \in Shifts : status[s] = "OPEN" /\ reopened = {} => s = opened
  BY <1>1, <1>2, <1>4
<1>6. \A s \in Shifts : s = opened => status[s] \in {"OPEN", "CLOSED"}
  BY <1>1
<1>7. OpenShifts # {} => opened > 0
  BY <1>1, <1>4 DEF OpenShifts
<1>8. OpenShifts = {} /\ opened > 0 => status[opened] = "CLOSED"
  BY <1>3, <1>6 DEF OpenShifts
<1> QED
  BY <1>3, <1>4, <1>5, <1>6, <1>7, <1>8

(* Steps that leave the readings, the meter and the pumped litres alone.   *)
meterVars == <<opened, status, opening, closing, testing, reopened, meter, pumped, tested>>

LEMMA ReadingsFrame ==
  ASSUME ReadingOrder, SalesBooked, Booked' = Booked, UNCHANGED meterVars
  PROVE  ReadingOrder' /\ SalesBooked'
BY DEF ReadingOrder, SalesBooked, meterVars

LEMMA OtherStepsKeepReadings ==
  ASSUME \/ RecordDecantation \/ \E i \in 1 .. Now : MeasureWithAfterDip(i)
         \/ \E named \in {{}} \cup {{s} : s \in Shifts} : RecordStockCount(named)
         \/ UNCHANGED vars
  PROVE  UNCHANGED meterVars
BY DEF RecordDecantation, MeasureWithAfterDip, RecordStockCount, vars, shiftVars, fuelVars, meterVars

LEMMA ReadingsStep == FuelInv /\ [Next]_vars => ReadingOrder' /\ SalesBooked'
<1> SUFFICES ASSUME FuelInv, [Next]_vars PROVE ReadingOrder' /\ SalesBooked'
  OBVIOUS
<1>1. /\ TypeOK /\ Continuity /\ ReadingOrder /\ SalesBooked
      /\ opened \in Nat /\ opening \in [Shifts -> Nat] /\ closing \in [Shifts -> Nat]
      /\ testing \in [Shifts -> Nat] /\ status \in [Shifts -> {"none", "OPEN", "CLOSED"}]
      /\ meter \in Nat /\ pumped \in Nat /\ tested \in Nat /\ FirstMeter \in Nat /\ Booked \in Nat
      /\ \A s \in Shifts : s \in Nat
  BY VariableTypes DEF FuelInv, Shifts
<1>3. CASE Pump
  <2>1. /\ OpenShifts # {} /\ meter' = meter + 1 /\ pumped' = pumped + 1
        /\ UNCHANGED <<opened, status, opening, closing, testing, tested, reopened>>
    BY <1>3 DEF Pump, shiftVars
  <2>2. Booked' = Booked
    BY <1>1, <1>3, BookedAfter DEF Pump, bookVars
  <2>3. opened > 0 /\ opened \in Shifts
    BY <1>1, <2>1, TheNewestRuns
  <2>4. ReadingOrder'
    BY <1>1, <2>1, <2>3 DEF ReadingOrder
  <2>5. SalesBooked'
    BY <1>1, <2>1, <2>2, <2>3 DEF SalesBooked
  <2> QED BY <2>4, <2>5
<1>4. CASE Test
  <2>1. /\ OpenShifts # {} /\ meter' = meter + 1 /\ tested' = tested + 1
        /\ UNCHANGED <<opened, status, opening, closing, testing, pumped, reopened>>
    BY <1>4 DEF Test, shiftVars
  <2>2. Booked' = Booked
    BY <1>1, <1>4, BookedAfter DEF Test, bookVars
  <2>3. opened > 0 /\ opened \in Shifts
    BY <1>1, <2>1, TheNewestRuns
  <2>4. ReadingOrder'
    BY <1>1, <2>1, <2>3 DEF ReadingOrder
  <2>5. SalesBooked'
    BY <1>1, <2>1, <2>2, <2>3 DEF SalesBooked
  <2> QED BY <2>4, <2>5
<1>5. CASE OpenShift
  <2> DEFINE n == opened + 1
  <2>1. /\ n \in Shifts /\ OpenShifts = {} /\ opened' = n
        /\ status' = [status EXCEPT ![n] = "OPEN"]
        /\ opening' = [opening EXCEPT ![n] = Seed] /\ closing' = [closing EXCEPT ![n] = Seed]
        /\ UNCHANGED <<testing, reopened, meter, pumped, tested>>
    BY <1>5 DEF OpenShift, fuelVars
  <2>2. Booked' = Booked
    BY <1>1, <1>5, BookedAfter DEF OpenShift, bookVars
  <2>3. opened > 0 => opened \in Shifts /\ status[opened] = "CLOSED"
    BY <1>1, <2>1, TheNewestRuns
  <2>4. Seed \in Nat /\ Seed <= meter /\ testing[n] = 0
    <3>1. testing[n] = 0 /\ FirstMeter <= meter
      BY <1>1, <2>1 DEF ReadingOrder
    <3>2. opened > 0 => closing[opened] \in Nat /\ closing[opened] <= meter
      BY <1>1, <2>3 DEF ReadingOrder
    <3> QED BY <1>1, <3>1, <3>2 DEF Seed
  <2>5. ReadingOrder'
    <3>1. ASSUME NEW s \in Shifts
          PROVE  /\ opening'[s] + testing'[s] <= closing'[s] /\ closing'[s] <= meter'
                 /\ s > opened' => testing'[s] = 0
      <4>1. CASE s = n
        BY <1>1, <2>1, <2>4, <4>1
      <4>2. CASE s # n
        BY <1>1, <2>1, <4>2 DEF ReadingOrder
      <4> QED BY <4>1, <4>2
    <3>2. FirstMeter <= meter' /\ opened' # 0
      BY <1>1, <2>1 DEF ReadingOrder
    <3> QED BY <3>1, <3>2 DEF ReadingOrder
  <2>6. SalesBooked'
    <3>1. status'[opened'] = "OPEN" /\ opening'[opened'] = Seed /\ testing'[opened'] = 0
      BY <1>1, <2>1, <2>4
    <3>2. reopened = {} => Booked = pumped - (meter - Seed - tested)
      <4>1. CASE opened = 0
        BY <1>1, <4>1 DEF ReadingOrder, Seed
      <4>2. CASE opened > 0
        BY <1>1, <2>3, <4>2 DEF SalesBooked, Seed
      <4> QED BY <1>1, <4>1, <4>2
    <3>3. reopened' = {} => Booked' = pumped' - (meter' - opening'[opened'] - tested' - testing'[opened'])
      <4>1. Seed \in Int /\ tested \in Int /\ meter \in Int /\ pumped \in Int
        BY <1>1, <2>4
      <4>2. meter - Seed - tested - 0 = meter - Seed - tested
        BY <4>1
      <4> QED BY <2>1, <2>2, <3>1, <3>2, <4>2
    <3> QED BY <3>1, <3>3 DEF SalesBooked
  <2> QED BY <2>5, <2>6
<1>6. ASSUME NEW s \in Shifts, RecordNozzleReadings(s) PROVE ReadingOrder' /\ SalesBooked'
  <2>1. PICK r \in Readings(s) : status[s] = "OPEN" /\ closing' = [closing EXCEPT ![s] = r]
    BY <1>6 DEF RecordNozzleReadings
  <2>2. UNCHANGED <<opened, status, opening, testing, reopened, meter, pumped, tested>>
    BY <1>6 DEF RecordNozzleReadings, fuelVars
  <2>3. Booked' = Booked
    BY <1>1, <1>6, BookedAfter DEF RecordNozzleReadings, bookVars
  <2>4. r \in Nat /\ closing[s] <= r /\ r <= meter
    BY <1>1 DEF Readings, ReadingOrder
  <2>5. ReadingOrder'
    BY <1>1, <2>1, <2>2, <2>3, <2>4 DEF ReadingOrder
  <2>6. SalesBooked'
    BY <1>1, <2>1, <2>2, <2>3, TheNewestRuns DEF SalesBooked
  <2> QED BY <2>5, <2>6
<1>7. ASSUME NEW s \in Shifts, RecordHandover(s) PROVE ReadingOrder' /\ SalesBooked'
  <2>1. PICK r \in Readings(s) : /\ status[s] = "OPEN" /\ testing[s] + tested <= r - opening[s]
                                 /\ closing' = [closing EXCEPT ![s] = r]
    BY <1>7 DEF RecordHandover
  <2>2. /\ testing' = [testing EXCEPT ![s] = @ + tested] /\ tested' = 0
        /\ UNCHANGED <<opened, status, opening, reopened, meter, pumped>>
    BY <1>7 DEF RecordHandover
  <2>3. Booked' = Booked
    BY <1>1, <1>7, BookedAfter DEF RecordHandover, bookVars
  <2>4. r \in Nat /\ r <= meter /\ s <= opened
    BY <1>1, <2>1, TheNewestRuns DEF Readings, ReadingOrder
  <2>5. ReadingOrder'
    <3>1. ASSUME NEW x \in Shifts
          PROVE  /\ opening'[x] + testing'[x] <= closing'[x] /\ closing'[x] <= meter'
                 /\ x > opened' => testing'[x] = 0
      <4>1. CASE x = s
        <5>1. opening[s] \in Nat /\ testing[s] \in Nat
          BY <1>1
        <5> QED BY <1>1, <2>1, <2>2, <2>4, <4>1, <5>1
      <4>2. CASE x # s
        BY <1>1, <2>1, <2>2, <4>2 DEF ReadingOrder
      <4> QED BY <4>1, <4>2
    <3>2. opened # 0
      BY <1>1, <2>4 DEF Shifts
    <3> QED BY <1>1, <2>2, <3>1, <3>2 DEF ReadingOrder
  <2>6. SalesBooked'
    <3>1. SUFFICES ASSUME reopened = {}, opened > 0
                   PROVE  /\ status[opened] = "OPEN"
                          /\ Booked = pumped - (meter - opening[opened] - 0 - testing'[opened])
      BY <2>2, <2>3 DEF SalesBooked
    <3>2. s = opened
      BY <1>1, <2>1, <3>1, TheNewestRuns
    <3>3. Booked = pumped - (meter - opening[s] - tested - testing[s])
      BY <2>1, <3>1, <3>2, <1>1 DEF SalesBooked
    <3>4. testing'[s] = testing[s] + tested /\ opening[s] \in Nat /\ testing[s] \in Nat
      BY <1>1, <2>2
    <3> QED BY <1>1, <2>1, <3>2, <3>3, <3>4
  <2> QED BY <2>5, <2>6
<1>8. ASSUME NEW s \in Shifts, CloseShift(s) PROVE ReadingOrder' /\ SalesBooked'
  <2>1. PICK r \in Nat :
          /\ status[s] = "OPEN" /\ closing[s] <= r /\ r <= meter
          /\ status' = [status EXCEPT ![s] = "CLOSED"] /\ closing' = [closing EXCEPT ![s] = r]
          /\ NetLitres(s, r) = r - opening[s] - testing[s]
          /\ OnlySold(log, SaleRow(NetLitres(s, r)), log')
    BY <1>8, ClosingRow
  <2>2. UNCHANGED <<opened, opening, testing, reopened, meter, pumped, tested>>
    BY <1>8 DEF CloseShift, fuelVars
  <2>3. Booked' = Booked + (r - opening[s] - testing[s])
    BY <1>1, <2>1, BookedAfter DEF SaleRow
  <2>4. ReadingOrder'
    <3>1. s <= opened /\ opened # 0
      BY <1>1, <2>1, TheNewestRuns DEF Shifts
    <3> QED BY <1>1, <2>1, <2>2, <3>1 DEF ReadingOrder
  <2>5. SalesBooked'
    <3>1. SUFFICES ASSUME reopened = {}, opened > 0
                   PROVE  /\ status'[opened] = "CLOSED"
                          /\ Booked' = pumped - (meter - closing'[opened] - tested)
      BY <2>2 DEF SalesBooked
    <3>2. s = opened
      BY <1>1, <2>1, <3>1, TheNewestRuns
    <3>3. Booked = pumped - (meter - opening[s] - tested - testing[s])
      BY <2>1, <3>1, <3>2, <1>1 DEF SalesBooked
    <3>4. /\ status'[s] = "CLOSED" /\ closing'[s] = r /\ r \in Int
          /\ opening[s] \in Nat /\ testing[s] \in Nat
      BY <1>1, <2>1
    <3> QED BY <1>1, <2>3, <3>2, <3>3, <3>4
  <2> QED BY <2>4, <2>5
<1>9. ASSUME NEW s \in Shifts, ReopenShift(s) PROVE ReadingOrder' /\ SalesBooked'
  <2>1. /\ UNCHANGED <<opened, opening, closing, testing, meter, pumped, tested>>
        /\ reopened' # {}
    BY <1>9 DEF ReopenShift, fuelVars
  <2>2. Booked' = Booked
    BY <1>1, <1>9, BookedAfter DEF ReopenShift, bookVars
  <2> QED BY <1>1, <2>1, <2>2 DEF ReadingOrder, SalesBooked
<1>10. CASE \/ RecordDecantation \/ \E i \in 1 .. Now : MeasureWithAfterDip(i)
            \/ \E named \in {{}} \cup {{s} : s \in Shifts} : RecordStockCount(named)
            \/ UNCHANGED vars
  <2>1. UNCHANGED meterVars
    BY <1>10, OtherStepsKeepReadings
  <2>2. \A s \in Shifts : ~ CloseShift(s)
    <3>1. SUFFICES ASSUME NEW s \in Shifts, CloseShift(s) PROVE FALSE
      OBVIOUS
    <3>2. status[s] = "OPEN" /\ status' = [status EXCEPT ![s] = "CLOSED"]
      BY <3>1 DEF CloseShift
    <3> QED BY <1>1, <2>1, <3>2 DEF meterVars
  <2> QED BY <1>1, <2>1, <2>2, BookedKept, ReadingsFrame
<1> QED
  BY <1>3, <1>4, <1>5, <1>6, <1>7, <1>8, <1>9, <1>10 DEF Next

(* The tank and the books                                                  *)

(* Of a log in which nothing was marked or added, the same can be said.     *)
LEMMA TankFrame ==
  ASSUME TankLevel, log' = log, tank' + pumped' = tank + pumped
  PROVE  TankLevel'
BY DEF TankLevel, Lines, Now

LEMMA ExactFrame ==
  ASSUME ExactBooks, log' = log, Exact' => Exact, adjusted' = adjusted, book' = book,
         tank' + pumped' = tank + pumped
  PROVE  ExactBooks'
<1>1. SUFFICES ASSUME Exact' PROVE ExactBooks'
  BY DEF ExactBooks
<1>2. Lines' = Lines /\ Pending' = Pending /\ Measured' = Measured /\ Booked' = Booked
  BY Views, ViewsNext
<1> QED
  BY <1>1, <1>2 DEF ExactBooks

LEMMA BookTypes ==
  ASSUME TypeOK
  PROVE  /\ log \in Seq(Rows) /\ Len(log) \in Nat /\ Len(log) = Now
         /\ Lines = LinesOf(log) /\ Pending = PendingOf(log) /\ Measured = Lines \ Pending
         /\ Lines \in SUBSET (1 .. Len(log)) /\ Pending \in SUBSET Lines
         /\ \A is \in SUBSET Lines : is \in SUBSET (1 .. Len(log)) /\ LitresOf(log, is) \in Nat
         /\ \A i \in Lines : /\ log[i] \in LineRows /\ i \in 0 .. Len(log) /\ i \in Nat
                             /\ log[i].before \in Nat /\ log[i].pumped \in Nat
                             /\ log[i].litres \in Nat
<1>1. /\ log \in Seq(Rows) /\ Len(log) \in Nat /\ Len(log) = Now
      /\ Lines = LinesOf(log) /\ Pending = PendingOf(log) /\ Measured = Lines \ Pending
      /\ Lines \in SUBSET (1 .. Len(log)) /\ Pending \in SUBSET Lines
  BY VariableTypes, Views, RowTypes
<1>2. \A is \in SUBSET Lines : is \in SUBSET (1 .. Len(log)) /\ LitresOf(log, is) \in Nat
  BY <1>1, LitresType
<1>3. \A i \in Lines : /\ log[i] \in LineRows /\ i \in 0 .. Len(log) /\ i \in Nat
                       /\ log[i].before \in Nat /\ log[i].pumped \in Nat
                       /\ log[i].litres \in Nat
  BY <1>1, RowTypes DEF LineRows
<1> QED
  BY <1>1, <1>2, <1>3

LEMMA CloseKeepsBooks ==
  ASSUME FuelInv, NEW s \in Shifts, CloseShift(s)
  PROVE  TankLevel' /\ ExactBooks'
<1>1. PICK n \in Nat : OnlySold(log, SaleRow(n), log') /\ book' = book - n
  BY ClosingRow
<1>2. UNCHANGED <<tank, pumped, adjusted, quirks, reopened>>
  BY DEF CloseShift, fuelVars
<1>3. /\ Lines' = Lines /\ Pending' = Pending /\ Measured' = Measured
      /\ \A i \in Lines : log'[i] = log[i]
      /\ \A is \in SUBSET Lines : LitresOf(log', is) = LitresOf(log, is)
      /\ \A i \in Lines : SoldUpTo(log', i) = SoldUpTo(log, i)
  <2>1. TypeOK
    BY DEF FuelInv
  <2> QED BY <1>1, <2>1, BookTypes, Views, ViewsNext DEF OnlySold
<1>4. TankLevel'
  <2>1. \A i \in Lines : {j \in Lines : j < i} \in SUBSET Lines
    OBVIOUS
  <2> QED BY <1>2, <1>3, <2>1 DEF FuelInv, TankLevel
<1>5. ExactBooks'
  <2>1. SUFFICES ASSUME Exact PROVE ExactBooks'
    BY <1>2 DEF ExactBooks, Exact
  <2>2. Booked' = Booked + n
    BY <1>1, BookedAfter DEF FuelInv, SaleRow
  <2>3. book + (LitresOf(log, Pending) + Booked) = tank + pumped
    BY <2>1 DEF FuelInv, ExactBooks
  <2>4. /\ tank \in Int /\ pumped \in Int /\ Booked \in Int /\ book \in Int
        /\ LitresOf(log, Pending) \in Int /\ Pending \in SUBSET Lines
    BY VariableTypes, BookTypes DEF FuelInv
  <2>5. book' + (LitresOf(log', Pending') + Booked') = tank' + pumped'
    <3>1. book' + (LitresOf(log, Pending) + Booked') = tank + pumped
      BY <1>1, <2>2, <2>3, <2>4
    <3> QED BY <1>2, <1>3, <2>4, <3>1
  <2>6. /\ \A i \in Lines : log[i].pumped = SoldUpTo(log, i)
        /\ \A i \in Pending, j \in Measured : j < i
        /\ \A i \in Measured : log[i].received = log[i].litres
        /\ adjusted = 0
    BY <2>1 DEF FuelInv, ExactBooks
  <2>7. Measured \subseteq Lines
    BY DEF Measured
  <2> QED BY <1>2, <1>3, <2>5, <2>6, <2>7 DEF ExactBooks
<1> QED
  BY <1>4, <1>5

(* What a tanker unloads is in the tank and pending, not yet in the book.    *)
LEMMA UnloadingKeepsEven ==
  ASSUME NEW n \in Int, NEW litres \in Int, NEW sold \in Int, NEW fuel \in Int,
         NEW level \in Int, NEW out \in Int, fuel + (litres + sold) = level + out
  PROVE  fuel + ((litres + n) + sold) = (level + n) + out
OBVIOUS

LEMMA TankerKeepsBooks ==
  ASSUME FuelInv, RecordDecantation
  PROVE  TankLevel' /\ ExactBooks'
<1> DEFINE m == Len(log) + 1
           before(i) == {j \in Lines : j < i}
<1>1. PICK n \in Nat : /\ OnlyUnloaded(log, LineRow(n), log')
                       /\ tank' = tank + n /\ quirks' = quirks \cup Unread
  BY TankerRow
<1>2. UNCHANGED <<pumped, book, adjusted, reopened>>
  BY DEF RecordDecantation
<1>3. TypeOK /\ Lines \in SUBSET (1 .. Len(log)) /\ Len(log) \in Nat
  BY BookTypes DEF FuelInv
<1>4. /\ Lines' = Lines \cup {m} /\ Pending' = Pending \cup {m} /\ m \notin Lines
      /\ Measured' = Measured
  <2>1. /\ Lines = LinesOf(log) /\ Pending = PendingOf(log)
        /\ Measured = LinesOf(log) \ PendingOf(log) /\ Lines' = LinesOf(log')
        /\ Pending' = PendingOf(log') /\ Measured' = LinesOf(log') \ PendingOf(log')
    BY Views, ViewsNext
  <2>2. m \notin Lines
    BY <1>3
  <2> QED BY <1>1, <2>1, <2>2 DEF OnlyUnloaded
<1>5. /\ \A i \in Lines : i < m /\ i \in Nat /\ log'[i] = log[i] /\ SoldUpTo(log', i) = SoldUpTo(log, i)
      /\ log'[m].before = tank /\ log'[m].pumped = pumped
      /\ SoldUpTo(log', m) = Booked /\ Booked' = Booked
  <2>1. \A i \in Lines : i < m /\ i \in Nat /\ i \in 1 .. Len(log) /\ i \in 0 .. Len(log)
    BY <1>3
  <2>2. Len(log') = m /\ log'[m] = LineRow(n) /\ SoldUpTo(log', m) = SoldUpTo(log, Len(log))
    BY <1>1 DEF OnlyUnloaded
  <2>3. Booked' = Booked /\ Booked = SoldUpTo(log, Len(log))
    BY <1>1, <1>3, BookedAfter, Views
  <2> QED BY <1>1, <2>1, <2>2, <2>3 DEF OnlyUnloaded, LineRow
<1>6. ASSUME NEW is \in SUBSET Lines
      PROVE  /\ LitresOf(log', is) = LitresOf(log, is) /\ LitresOf(log, is) \in Nat
             /\ LitresOf(log', is \cup {m}) = LitresOf(log, is) + n
  <2>1. is \in SUBSET (1 .. Len(log)) /\ LitresOf(log, is) \in Nat
    BY <1>3, BookTypes
  <2> QED BY <1>1, <2>1 DEF OnlyUnloaded, LineRow
<1>7. tank \in Nat /\ pumped \in Nat /\ FirstLevel \in Nat /\ book \in Int /\ Booked \in Nat
  BY <1>3, VariableTypes
<1>8. TankLevel'
  <2>1. tank' + pumped' = FirstLevel + LitresOf(log', Lines')
    <3>1. LitresOf(log', Lines') = LitresOf(log, Lines) + n /\ LitresOf(log, Lines) \in Nat
      BY <1>4, <1>6
    <3>2. tank + pumped = FirstLevel + LitresOf(log, Lines)
      BY DEF FuelInv, TankLevel
    <3> QED BY <1>1, <1>2, <1>7, <3>1, <3>2
  <2>2. ASSUME NEW i \in Lines
        PROVE  log'[i].before + log'[i].pumped = FirstLevel + LitresOf(log', {j \in Lines' : j < i})
    <3>1. {j \in Lines' : j < i} = before(i)
      <4>1. ~ (m < i)
        BY <1>3, <1>5
      <4> HIDE DEF m
      <4> QED BY <1>4, <4>1
    <3>2. before(i) \in SUBSET Lines
      OBVIOUS
    <3>3. LitresOf(log', before(i)) = LitresOf(log, before(i))
      BY <1>6, <3>2
    <3> QED BY <1>5, <3>1, <3>3 DEF FuelInv, TankLevel
  <2>3. log'[m].before + log'[m].pumped = FirstLevel + LitresOf(log', {j \in Lines' : j < m})
    <3>1. {j \in Lines' : j < m} = Lines
      <4>1. ~ (m < m)
        BY <1>3
      <4>2. \A i \in Lines : i < m
        BY <1>5
      <4> HIDE DEF m
      <4> QED BY <1>4, <4>1, <4>2
    <3>2. LitresOf(log', Lines) = LitresOf(log, Lines)
      BY <1>6
    <3> QED BY <1>5, <3>1, <3>2 DEF FuelInv, TankLevel
  <2>4. \A i \in Lines' :
          log'[i].before + log'[i].pumped = FirstLevel + LitresOf(log', {j \in Lines' : j < i})
    <3> HIDE DEF m
    <3> QED BY <1>4, <2>2, <2>3
  <2> QED BY <2>1, <2>4 DEF TankLevel
<1>9. ExactBooks'
  <2>1. SUFFICES ASSUME Exact' PROVE ExactBooks'
    BY DEF ExactBooks
  <2>2. Exact /\ pumped = Booked
    <3>1. Exact /\ Unbooked = 0
      BY <1>1, <1>2, <2>1 DEF Exact, Unread
    <3> QED BY <1>7, <3>1 DEF Unbooked
  <2>3. /\ \A i \in Lines : log[i].pumped = SoldUpTo(log, i)
        /\ \A i \in Pending, j \in Measured : j < i
        /\ \A i \in Measured : log[i].received = log[i].litres
        /\ adjusted = 0 /\ book + (LitresOf(log, Pending) + Booked) = tank + pumped
    BY <2>2 DEF FuelInv, ExactBooks
  <2>4. \A i \in Measured : i \in Lines
    BY DEF Measured
  <2>5. book' + (LitresOf(log', Pending') + Booked') = tank' + pumped'
    <3>1. LitresOf(log', Pending') = LitresOf(log, Pending) + n /\ LitresOf(log, Pending) \in Nat
      <4>1. Pending \in SUBSET Lines
        BY DEF Pending
      <4> QED BY <1>4, <1>6, <4>1
    <3>2. /\ book + (LitresOf(log, Pending) + Booked) = tank + pumped
          /\ book \in Int /\ Booked \in Int /\ tank \in Int /\ pumped \in Int
          /\ LitresOf(log, Pending) \in Int
      BY <1>7, <2>3, <3>1
    <3>3. book + ((LitresOf(log, Pending) + n) + Booked) = (tank + n) + pumped
      BY <3>2, UnloadingKeepsEven
    <3>4. book' = book /\ Booked' = Booked /\ tank' = tank + n /\ pumped' = pumped
      BY <1>1, <1>2, <1>5
    <3> HIDE DEF m, before
    <3> QED BY <3>1, <3>3, <3>4
  <2>6. \A i \in Lines' : log'[i].pumped = SoldUpTo(log', i)
    <3> HIDE DEF m
    <3> QED BY <1>4, <1>5, <2>2, <2>3
  <2>7. \A i \in Pending', j \in Measured' : j < i
    <3> HIDE DEF m
    <3> QED BY <1>4, <1>5, <2>3, <2>4
  <2>8. \A i \in Measured' : log'[i].received = log'[i].litres
    BY <1>4, <1>5, <2>3, <2>4
  <2> QED BY <1>2, <2>3, <2>5, <2>6, <2>7, <2>8 DEF ExactBooks
<1> QED
  BY <1>8, <1>9

(* A step that measures pending lines and changes the book by what they      *)
(* unloaded, in which no earlier one stays pending, keeps the books.       *)
LEMMA MeasuringKeepsBooks ==
  ASSUME FuelInv, NEW is \in SUBSET PendingOf(log), NEW f,
         OnlyMarks(log, is, f, log'), UNCHANGED <<tank, pumped, reopened>>,
         Exact' => /\ Exact /\ \A i \in is : f[i] = log[i].litres
                   /\ book' = book + LitresOf(log, is) /\ adjusted' = adjusted
                   /\ \A i \in is, j \in Pending \ is : i < j
  PROVE  TankLevel' /\ ExactBooks'
<1>1. /\ TypeOK /\ Lines = LinesOf(log) /\ Pending = PendingOf(log) /\ Measured = Lines \ Pending
      /\ Lines \in SUBSET (1 .. Len(log)) /\ Pending \in SUBSET Lines /\ is \in SUBSET Pending
  BY BookTypes DEF FuelInv
<1>2. /\ Lines' = Lines /\ Pending' = Pending \ is /\ Measured' = Measured \cup is
      /\ Booked' = Booked
  <2>1. /\ Lines' = LinesOf(log') /\ Pending' = PendingOf(log')
        /\ Measured' = LinesOf(log') \ PendingOf(log')
    BY ViewsNext
  <2>2. Booked' = Booked
    BY <1>1, BookedAfter
  <2>3. LinesOf(log') = Lines /\ PendingOf(log') = Pending \ is
    BY <1>1 DEF OnlyMarks
  <2> QED BY <1>1, <2>1, <2>2, <2>3
<1>3. /\ \A i \in Lines : /\ log'[i].before = log[i].before /\ log'[i].pumped = log[i].pumped
                          /\ log'[i].litres = log[i].litres
                          /\ SoldUpTo(log', i) = SoldUpTo(log, i)
      /\ \A js \in SUBSET Lines : LitresOf(log', js) = LitresOf(log, js)
      /\ \A i \in is : log'[i].received = f[i]
      /\ \A i \in Lines \ is : log'[i] = log[i]
  BY <1>1 DEF OnlyMarks
<1>4. TankLevel'
  <2>1. \A i \in Lines : {j \in Lines : j < i} \in SUBSET Lines
    OBVIOUS
  <2> QED BY <1>2, <1>3, <2>1 DEF FuelInv, TankLevel
<1>5. ExactBooks'
  <2>1. SUFFICES ASSUME Exact' PROVE ExactBooks'
    BY DEF ExactBooks
  <2>2. /\ \A i \in Lines : log[i].pumped = SoldUpTo(log, i)
        /\ \A i \in Pending, j \in Measured : j < i
        /\ \A i \in Measured : log[i].received = log[i].litres
        /\ adjusted = 0 /\ book + (LitresOf(log, Pending) + Booked) = tank + pumped
    BY <2>1 DEF FuelInv, ExactBooks
  <2>3. book' + (LitresOf(log', Pending') + Booked') = tank' + pumped'
    <3>1. LitresOf(log, Pending) = LitresOf(log, is) + LitresOf(log, Pending \ is)
      <4>1. log \in Seq(Rows) /\ Pending \in SUBSET (1 .. Len(log))
        BY <1>1, BookTypes
      <4> QED BY <1>1, <4>1, LitresSplit
    <3>2. /\ LitresOf(log, is) \in Int /\ LitresOf(log, Pending \ is) \in Int /\ book \in Int
          /\ Booked \in Int
      <4>1. is \in SUBSET Lines /\ Pending \ is \in SUBSET Lines
        BY <1>1
      <4> QED BY <1>1, <4>1, BookTypes, VariableTypes
    <3>3. LitresOf(log', Pending') = LitresOf(log, Pending \ is)
      BY <1>1, <1>2, <1>3
    <3>4. book' = book + LitresOf(log, is) /\ tank' = tank /\ pumped' = pumped
      BY <2>1
    <3>5. book' + (LitresOf(log, Pending \ is) + Booked)
            = book + (LitresOf(log, Pending) + Booked)
      BY <3>1, <3>2, <3>4
    <3> QED BY <1>2, <2>2, <3>3, <3>4, <3>5
  <2>4. \A i \in Pending', j \in Measured' : j < i
    BY <1>1, <1>2, <2>1, <2>2
  <2>5. \A i \in Measured' : log'[i].received = log'[i].litres
    <3>1. ASSUME NEW i \in is PROVE log'[i].received = log'[i].litres
      BY <1>1, <1>3, <2>1
    <3>2. ASSUME NEW i \in Measured PROVE log'[i].received = log'[i].litres
      BY <1>1, <1>3, <2>2
    <3> QED BY <1>2, <3>1, <3>2
  <2>6. \A i \in Lines' : log'[i].pumped = SoldUpTo(log', i)
    BY <1>2, <1>3, <2>2
  <2> QED BY <2>1, <2>2, <2>3, <2>4, <2>5, <2>6 DEF ExactBooks
<1> QED
  BY <1>4, <1>5

LEMMA AfterDipKeepsBooks ==
  ASSUME FuelInv, NEW i, MeasureWithAfterDip(i)
  PROVE  TankLevel' /\ ExactBooks'
<1> DEFINE before == {j \in Lines : j < i}
<1>1. TypeOK
  BY DEF FuelInv
<1>2. PICK received \in Nat :
        /\ received = tank - log[i].before + (pumped - log[i].pumped)
        /\ i \in Pending /\ {i} \in SUBSET PendingOf(log) /\ \A j \in Lines : j <= i
        /\ [j \in {i} |-> received] \in [{i} -> Nat]
        /\ log' = MarkMeasured({i}, [j \in {i} |-> received])
        /\ book' = book + received /\ quirks' = quirks \cup Overtaken({i})
  BY <1>1, AfterDipTypes
<1>3. OnlyMarks(log, {i}, [j \in {i} |-> received], log')
  BY <1>1, <1>2, MarkedLog
<1>4. UNCHANGED <<tank, pumped, adjusted, reopened>>
  BY DEF MeasureWithAfterDip, fuelVars
<1>5. /\ log \in Seq(Rows) /\ Lines \in SUBSET (1 .. Len(log)) /\ i \in Lines /\ Pending \subseteq Lines
      /\ \A j \in Lines : j \in Nat
      /\ log[i].before \in Nat /\ log[i].pumped \in Nat /\ log[i].litres \in Nat
      /\ tank \in Nat /\ pumped \in Nat /\ FirstLevel \in Nat
      /\ \A is \in SUBSET Lines : LitresOf(log, is) \in Nat
  BY <1>1, <1>2, BookTypes, VariableTypes
<1>6. LitresOf(log, {i}) = log[i].litres
  BY <1>5, LitresOfOne
<1>7. received = log[i].litres
  <2> DEFINE e == LitresOf(log, before)
             b == log[i].before
             p == log[i].pumped
             n == log[i].litres
  <2>1. LitresOf(log, Lines) = n + e
    <3>1. Lines \in SUBSET (1 .. Len(log)) /\ {i} \in SUBSET Lines /\ Lines \ {i} = before
      <4>1. \A j \in Lines : j < i <=> j # i
        BY <1>2, <1>5
      <4> QED BY <1>5, <4>1
    <3>2. LitresOf(log, Lines) = LitresOf(log, {i}) + LitresOf(log, Lines \ {i})
      <4>1. log \in Seq(Rows) /\ Lines \in SUBSET (1 .. Len(log)) /\ {i} \in SUBSET Lines
        BY <1>5
      <4> HIDE DEF before, e, b, p, n
      <4> QED BY <4>1, LitresSplit
    <3>3. LitresOf(log, Lines \ {i}) = e
      BY <3>1, Zenon
    <3>4. LitresOf(log, {i}) = n
      BY <1>6
    <3> HIDE DEF before, e, n
    <3> QED BY <3>2, <3>3, <3>4
  <2>2. tank + pumped = FirstLevel + LitresOf(log, Lines) /\ b + p = FirstLevel + e
    BY <1>5 DEF FuelInv, TankLevel
  <2>3. /\ tank \in Int /\ pumped \in Int /\ FirstLevel \in Int
        /\ e \in Int /\ b \in Int /\ p \in Int /\ n \in Int
    BY <1>5
  <2>4. received = tank - b + (pumped - p)
    BY <1>2
  <2> HIDE DEF e, b, p, n
  <2>5. tank + pumped = FirstLevel + (e + n)
    BY <2>1, <2>2, <2>3
  <2>6. tank - b + (pumped - p) = n
    BY <2>2, <2>3, <2>5, WindowSum
  <2> QED BY <2>4, <2>6 DEF n
<1>8. Exact' => Exact /\ Pending \ {i} = {}
  <2>1. SUFFICES ASSUME Exact' PROVE Exact /\ \A j \in Pending : j = i
    OBVIOUS
  <2>2. Exact /\ Overtaken({i}) = {}
    BY <1>2, <1>4, <2>1 DEF Exact
  <2>3. \A j \in Pending : ~ (j < i) /\ j <= i /\ j \in Nat
    BY <1>2, <1>5, <2>2 DEF Overtaken
  <2> QED BY <1>5, <2>2, <2>3
<1>9. \A j \in {i} : [k \in {i} |-> received][j] = log[j].litres
  BY <1>7
<1>10. Exact' => /\ Exact /\ \A j \in {i} : [k \in {i} |-> received][j] = log[j].litres
                 /\ book' = book + LitresOf(log, {i}) /\ adjusted' = adjusted
                 /\ \A j \in {i}, k \in Pending \ {i} : j < k
  BY <1>2, <1>4, <1>6, <1>7, <1>8, <1>9
<1> DEFINE f == [k \in {i} |-> received]
<1> HIDE DEF f
<1> QED
  BY <1>2, <1>3, <1>4, <1>10, MeasuringKeepsBooks DEF f

LEMMA StockCountKeepsBooks ==
  ASSUME FuelInv, NEW named \in {{}} \cup {{s} : s \in Shifts}, RecordStockCount(named)
  PROVE  TankLevel' /\ ExactBooks'
<1> DEFINE is == MeasuredByDip(named)
           f == [i \in is |-> Received(i)]
           received == Sum(f, is)
           variance == Reconcile(received)
<1>1. /\ book' = book + received + variance /\ adjusted' = adjusted + variance
      /\ UNCHANGED <<tank, pumped, reopened>>
      /\ quirks' = quirks \cup Overtaken(is)
                          \cup (IF OpenShifts = {} \/ \E s \in named : status[s] # "OPEN"
                                THEN Unread ELSE {})
  BY DEF RecordStockCount, fuelVars
<1>2. TypeOK
  BY DEF FuelInv
<1>3. OnlyMarks(log, is, f, log')
  BY DipMarks
<1>4. is \in SUBSET PendingOf(log) /\ IsFiniteSet(is) /\ received \in Nat
  BY <1>2, DipTypes
<1>5. /\ log \in Seq(Rows) /\ Lines \in SUBSET (1 .. Len(log)) /\ is \in SUBSET Pending
      /\ Pending \in SUBSET Lines /\ \A i \in Lines : i \in Nat /\ log[i].litres \in Nat
      /\ tank \in Nat /\ pumped \in Nat /\ book \in Int /\ adjusted \in Int /\ Booked \in Nat
      /\ \A js \in SUBSET Lines : LitresOf(log, js) \in Nat
  BY <1>2, <1>4, BookTypes, VariableTypes
<1>6. ASSUME Exact'
      PROVE  /\ Exact /\ \A i \in is : f[i] = log[i].litres
             /\ book' = book + LitresOf(log, is) /\ adjusted' = adjusted
             /\ \A i \in is, j \in Pending \ is : i < j
  <2>1. /\ Exact /\ Overtaken(is) = {}
        /\ OpenShifts = {} \/ (\E s \in named : status[s] # "OPEN") => Unread = {}
    BY <1>1, <1>6 DEF Exact
  <2>2. OpenShifts = {} \/ (\E s \in named : status[s] # "OPEN") => Unbooked = 0
    BY <2>1 DEF Unread
  <2>3. is # {} => Unbooked = 0
    BY <2>2 DEF MeasuredByDip
  <2>4. \A i \in is : f[i] = log[i].litres
    BY <1>5, <2>1, <2>3, ReceivedIsLitres
  <2>5. received = LitresOf(log, is)
    <3> HIDE DEF is, f
    <3>1. \A i \in is : /\ [j \in is |-> log[j].litres][i] \in Int
                        /\ f[i] = [j \in is |-> log[j].litres][i]
      BY <1>5, <2>4
    <3> QED BY <1>4, <3>1, SumEqual DEF LitresOf
  <2>6. variance = 0
    <3>1. CASE OpenShifts # {}
      BY <3>1 DEF Reconcile
    <3>2. CASE OpenShifts = {}
      <4>1. Unbooked = 0
        BY <2>2, <3>2
      <4>2. \A i \in Pending : Received(i) >= 0
        BY <1>5, <2>1, <4>1, ReceivedIsLitres
      <4>3. is = Pending
        BY <3>2, <4>2 DEF MeasuredByDip
      <4>4. book + (LitresOf(log, Pending) + Booked) = tank + pumped
        BY <2>1 DEF FuelInv, ExactBooks
      <4>5. pumped = Booked
        BY <1>5, <4>1 DEF Unbooked
      <4>6. received = LitresOf(log, Pending) /\ LitresOf(log, Pending) \in Nat
        BY <1>5, <2>5, <4>3
      <4> HIDE DEF received, is
      <4>7. tank - (book + received) = 0
        BY <1>5, <4>4, <4>5, <4>6
      <4> QED BY <3>2, <4>7 DEF Reconcile
    <3> QED BY <3>1, <3>2
  <2>7. book' = book + LitresOf(log, is) /\ adjusted' = adjusted
    <3> HIDE DEF variance, received, is
    <3> QED BY <1>1, <1>4, <1>5, <2>5, <2>6
  <2>8. \A i \in is, j \in Pending \ is : i < j
    <3>1. \A i \in is, j \in Pending \ is : ~ (j < i) /\ i # j
      BY <2>1 DEF Overtaken
    <3>2. \A i \in Pending : i \in Nat
      BY <1>5
    <3> HIDE DEF is
    <3> QED BY <1>5, <3>1, <3>2
  <2> QED BY <2>1, <2>4, <2>7, <2>8
<1> HIDE DEF is, f, received, variance
<1> QED
  BY <1>1, <1>3, <1>4, <1>6, MeasuringKeepsBooks

LEMMA BooksStep == FuelInv /\ [Next]_vars => TankLevel' /\ ExactBooks'
<1> SUFFICES ASSUME FuelInv, [Next]_vars PROVE TankLevel' /\ ExactBooks'
  OBVIOUS
<1>1. /\ TankLevel /\ ExactBooks /\ TypeOK
      /\ tank \in Nat /\ pumped \in Nat
  BY VariableTypes DEF FuelInv
<1>2. ASSUME UNCHANGED <<bookVars, tank, pumped>>, Exact' => Exact
      PROVE  TankLevel' /\ ExactBooks'
  BY <1>1, <1>2, TankFrame, ExactFrame DEF bookVars
<1>3. CASE Pump
  <2>1. UNCHANGED bookVars /\ tank' + pumped' = tank + pumped /\ UNCHANGED <<quirks, reopened>>
    BY <1>1, <1>3 DEF Pump
  <2> QED BY <1>1, <2>1, TankFrame, ExactFrame DEF bookVars, Exact
<1>4. CASE Test \/ OpenShift
  BY <1>2, <1>4 DEF Test, OpenShift, fuelVars, Exact
<1>5. ASSUME NEW s \in Shifts, RecordNozzleReadings(s) \/ RecordHandover(s) \/ ReopenShift(s)
      PROVE  TankLevel' /\ ExactBooks'
  <2>1. UNCHANGED <<bookVars, tank, pumped>>
    BY <1>5 DEF RecordNozzleReadings, RecordHandover, ReopenShift, fuelVars
  <2>2. Exact' => Exact
    BY <1>5 DEF RecordNozzleReadings, RecordHandover, ReopenShift, Exact
  <2> QED BY <1>2, <2>1, <2>2
<1>6. ASSUME NEW s \in Shifts, CloseShift(s) PROVE TankLevel' /\ ExactBooks'
  BY <1>6, CloseKeepsBooks
<1>7. CASE RecordDecantation
  BY <1>7, TankerKeepsBooks
<1>8. CASE \E i \in 1 .. Now : MeasureWithAfterDip(i)
  BY <1>8, AfterDipKeepsBooks
<1>9. CASE \E named \in {{}} \cup {{s} : s \in Shifts} : RecordStockCount(named)
  BY <1>9, StockCountKeepsBooks
<1>10. CASE UNCHANGED vars
  BY <1>2, <1>10 DEF vars, fuelVars, Exact
<1> QED
  BY <1>3, <1>4, <1>5, <1>6, <1>7, <1>8, <1>9, <1>10 DEF Next

LEMMA FuelInit == Init => FuelInv
<1> SUFFICES ASSUME Init PROVE FuelInv
  OBVIOUS
<1>1. log = <<>> /\ Now = 0 /\ Lines = {} /\ Sales = {} /\ Pending = {} /\ Measured = {}
  BY DEF Init, Now, Lines, Sales, Pending, Measured
<1>2. TypeOK
  <2>1. log \in Seq(SaleRows \cup LineRows)
    BY <1>1
  <2> QED BY <2>1, FuelAssumption DEF Init, TypeOK, Quirks
<1>3. Booked = 0
  <2>1. {i \in Sales : 0 < i /\ i <= Now} = {}
    BY <1>1
  <2> QED BY <2>1, SumEmpty DEF Booked, SoldBetween, Litres
<1>4. LitresOf(log, {}) = 0
  BY LitresOfNone
<1>5. ReadingOrder /\ SalesBooked
  BY <1>3, FuelAssumption DEF Init, ReadingOrder, SalesBooked
<1>6. TankLevel /\ ExactBooks
  BY <1>1, <1>3, <1>4, FuelAssumption DEF Init, TankLevel, ExactBooks
<1> QED
  BY <1>2, <1>5, <1>6, ContinuityInit DEF FuelInv

LEMMA FuelStep == FuelInv /\ [Next]_vars => FuelInv'
BY ContinuityStep, TypesStep, ReadingsStep, BooksStep DEF FuelInv

(* Whatever is pumped, tested, unloaded, handed over, closed, reopened and   *)
(* dipped, in whatever order, the variables keep their types.              *)
THEOREM FuelTypes == Spec => []TypeOK
<1>1. FuelInv => TypeOK
  BY DEF FuelInv
<1> QED BY <1>1, FuelInit, FuelStep, PTL DEF Spec

(* Between Shifts the Sale movements of all closes so far add up to the      *)
(* litres pumped up to the last reading, testing left out.                 *)
THEOREM SalesAreMetered == Spec => []SalesFollowMeters
<1>1. FuelInv => SalesFollowMeters
  BY TheNewestRuns DEF FuelInv, SalesBooked, SalesFollowMeters
<1> QED BY <1>1, FuelInit, FuelStep, PTL DEF Spec

(* Where no approximation was made, no dip finds anything to adjust, ...     *)
THEOREM DipsAdjustNothing == Spec => []NoPhantomVariance
<1>1. FuelInv => NoPhantomVariance
  BY DEF FuelInv, ExactBooks, NoPhantomVariance
<1> QED BY <1>1, FuelInit, FuelStep, PTL DEF Spec

(* ... every measured tanker line says what that tanker unloaded, ...        *)
THEOREM TankersAreMeasuredExactly == Spec => []ReceivedIsUnloaded
<1>1. FuelInv => ReceivedIsUnloaded
  BY DEF FuelInv, ExactBooks, ReceivedIsUnloaded
<1> QED BY <1>1, FuelInit, FuelStep, PTL DEF Spec

(* ... and the book is the tank, up to what was not booked or measured yet.  *)
THEOREM BookIsTank == Spec => []BookFollowsTank
<1>1. FuelInv => BookFollowsTank
  <2>1. SUFFICES ASSUME FuelInv, Exact
                 PROVE  book = tank + Unbooked - Litres(Pending)
    BY DEF BookFollowsTank
  <2>2. Litres(Pending) = LitresOf(log, Pending)
    BY DEF Litres, LitresOf
  <2>3. book + (Litres(Pending) + Booked) = tank + pumped
    BY <2>1, <2>2 DEF FuelInv, ExactBooks
  <2>4. /\ book \in Int /\ Litres(Pending) \in Int /\ Booked \in Int /\ tank \in Int
        /\ pumped \in Int
    BY <2>1, <2>2, VariableTypes, BookTypes DEF FuelInv
  <2> QED BY <2>3, <2>4 DEF Unbooked
<1> QED BY <1>1, FuelInit, FuelStep, PTL DEF Spec
=============================================================================

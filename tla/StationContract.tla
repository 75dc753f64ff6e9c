--------------------------- MODULE StationContract ---------------------------
(***************************************************************************)
(* What a fuel station's books promise, whatever tables, locks and         *)
(* transactions implement them.  One Shift runs at a time; a Shift belongs *)
(* to one Business Day for ever; it alternates between running and settled *)
(* until its Day is sealed; and the stock records of a sealed Day (sales,  *)
(* merchandise, fuel bookings, tank dips, handovers) never change again.   *)
(***************************************************************************)
CONSTANTS Shifts, Days, NoShift, NoDay

VARIABLES
  open,     \* the Shift that runs now, or NoShift
  home,     \* the Business Day of each Shift ever opened
  sealed,   \* the Business Days that are closed
  stock     \* the stock records of each Business Day

vars == <<open, home, sealed, stock>>

(* Only the records of Day d may differ after the step.                    *)
OnlyStockOf(d) ==
  /\ DOMAIN stock' = DOMAIN stock
  /\ \A x \in Days \ {d} : stock'[x] = stock[x]

Init ==
  /\ open = NoShift
  /\ home = [s \in Shifts |-> NoDay]
  /\ sealed = {}
  /\ DOMAIN stock = Days

Begin(s, d) ==
  /\ open = NoShift /\ home[s] = NoDay /\ d \notin sealed
  /\ open' = s
  /\ home' = [home EXCEPT ![s] = d]
  /\ OnlyStockOf(d)
  /\ UNCHANGED sealed

(* A stock record is written, replaced or removed on a Day still open.     *)
Keep(d) ==
  /\ d \notin sealed
  /\ OnlyStockOf(d)
  /\ UNCHANGED <<open, home, sealed>>

Settle ==
  /\ open # NoShift
  /\ open' = NoShift
  /\ OnlyStockOf(home[open])
  /\ UNCHANGED <<home, sealed>>

Resume(s) ==
  /\ open = NoShift /\ home[s] # NoDay /\ home[s] \notin sealed
  /\ open' = s
  /\ UNCHANGED <<home, sealed, stock>>

Seal(d) ==
  /\ open # NoShift => home[open] # d
  /\ sealed' = sealed \cup {d}
  /\ UNCHANGED <<open, home, stock>>

Next ==
  \/ \E s \in Shifts, d \in Days : Begin(s, d)
  \/ \E d \in Days : Keep(d) \/ Seal(d)
  \/ Settle
  \/ \E s \in Shifts : Resume(s)

Spec == Init /\ [][Next]_vars
=============================================================================

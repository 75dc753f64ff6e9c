------------------------------ MODULE DrawerCash ------------------------------
(***************************************************************************)
(* The money of one Shift: what its Drawers declare at handover, what the   *)
(* close expects, posts and reports, next to the money itself.  A Drawer is *)
(* a dispenser unit (DU) with the Attendant who holds it; DUs are numbered  *)
(* in the natural order of their codes.  Every amount is one rupee, and the *)
(* rails card and UPI are one: each is declared, summed and shown alike.    *)
(*                                                                         *)
(* Customers pay in cash, on a terminal (`slips') or sign a chit, which     *)
(* becomes a credit or OMC card row when the office enters it.  Nothing     *)
(* tells the Shift's frozen figures that such a row, or a product sale,     *)
(* came or went after its Drawer's handover; `stale' remembers it here.     *)
(***************************************************************************)
EXTENDS Sums, Integers, FiniteSets

CONSTANTS
  LastDu,      \* the Station's DUs in service are 1 .. LastDu
  Attendants,
  Counter,     \* the seller of sales that name no Attendant
  MaxRupees,   \* bound: rupees taken from customers
  MaxDrops,    \* bound: rupees a Drawer drops into the safe
  MaxFloat,    \* bound: a Drawer's Opening Float
  NoHandover, NoSummary

ASSUME DrawerAssumption ==
  /\ {LastDu, MaxRupees, MaxDrops, MaxFloat} \subseteq Nat
  /\ IsFiniteSet(Attendants) /\ Counter \notin Attendants

Dus     == 1 .. LastDu
Sellers == Attendants \cup {Counter}
Kinds   == {"Credit", "OMC"}             \* customer_transactions of a Drawer
Methods == {"Cash", "Card", "Credit"}    \* sales.payment_method

VARIABLES
  status,    \* the Shift's status
  holder, float,
             \* shift_staff_assignments: each DU's Attendant and Opening Float
  metered,   \* the DU's nozzle_readings row, as fuel value
  rows,      \* its customer_transactions rows, by kind
  product,   \* the Shift's non-fuel sales, by seller and method
  handover,  \* its attendant_handovers row
  summary,   \* the shift_summaries row
  posted,    \* SHIFT_CLOSE cash in the ledger
  pumped, received, slips, chits, dropped,
             \* what happened at the DU: fuel sold; cash and terminal slips taken;
             \* chits that no row stands for; rupees put into the safe
  missing,   \* ghost: what the Drawer lacked when it was handed over
  stale      \* ghost: Drawers whose rows changed after their handover

shiftVars == <<status, holder, float, summary, posted>>
moneyVars == <<pumped, received, slips, dropped>>
rowVars   == <<metered, rows, product>>
vars == <<shiftVars, moneyVars, rowVars, handover, chits, missing, stale>>

-----------------------------------------------------------------------------
(* The rows of the Shift                                                   *)

HandedOver == {d \in Dus : handover[d] # NoHandover}

(* productCashOwner: an Attendant's product cash is counted in the first of *)
(* their DUs.                                                              *)
CountsProducts(d) == \A e \in Dus : holder[e] = holder[d] => d <= e

WholeMerchandiseCash(d) == product[holder[d]]["Cash"]  \* mutant
MerchandiseCash(d) == IF CountsProducts(d) THEN product[holder[d]]["Cash"] ELSE 0

(* A seller whose Attendant has a handover on this Shift.                  *)
NobodyInside(a) == FALSE  \* mutant
Inside(a) == \E d \in HandedOver : holder[d] = a

SoldBy(sellers, method) == Sum([a \in sellers |-> product[a][method]], sellers)
WithoutDrawer == {a \in Sellers : \A d \in Dus : holder[d] # a}

(* reconcileDrawer                                                         *)
ExpectedCash(d, card, drops) ==
  float[d] + pumped[d] + MerchandiseCash(d)
    - card - rows[d]["Credit"] - rows[d]["OMC"] - drops

(* assembleReconTotals: the cash the Drawers declared, less their floats,   *)
(* and the cash of the sellers who declare none.                           *)
CashSales ==
  Sum([d \in HandedOver |-> handover[d].cash - handover[d].float + handover[d].drops], HandedOver)
    + SoldBy({a \in Sellers : ~Inside(a)}, "Cash")

(* computeShiftCloseCash, after the drops that are named at the close.     *)
ExpectedLessNamed(unassigned, named) ==  \* mutant
  Sum([d \in Dus |-> float[d] - handover[d].drops - named[d]], Dus) + CashSales - unassigned
ExpectedOfficeCash(unassigned, named) ==
  Sum([d \in Dus |-> float[d] - handover[d].drops], Dus) + CashSales - unassigned

AttendantVariance(named) == Sum([d \in Dus |-> handover[d].variance + named[d]], Dus)

(* composeShiftPayments with productSalePaymentsJson.                      *)
TerminalSalesOfAll ==  \* mutant
  Sum([d \in Dus |-> handover[d].card], Dus) + SoldBy(Sellers, "Card")
TerminalSales ==
  Sum([d \in Dus |-> handover[d].card], Dus) + SoldBy({a \in Sellers : ~Inside(a)}, "Card")

RowsOf(kind) == Sum([d \in Dus |-> rows[d][kind]], Dus)

CreditSales ==
  (IF RowsOf("Credit") > 0 THEN RowsOf("Credit") ELSE Sum([d \in Dus |-> handover[d].credit], Dus))
    + SoldBy(Sellers, "Credit")

ProductTotal == Sum([m \in Methods |-> SoldBy(Sellers, m)], Methods)

-----------------------------------------------------------------------------
(* A Shift that has just been opened.                                      *)
Init ==
  /\ status = "OPEN"
  /\ holder \in [Dus -> Attendants]
  /\ float \in [Dus -> 0 .. MaxFloat]
  /\ metered = [d \in Dus |-> 0]
  /\ rows = [d \in Dus |-> [k \in Kinds |-> 0]]
  /\ product = [a \in Sellers |-> [m \in Methods |-> 0]]
  /\ handover = [d \in Dus |-> NoHandover]
  /\ summary = NoSummary /\ posted = 0
  /\ pumped = [d \in Dus |-> 0] /\ received = pumped /\ slips = pumped /\ dropped = pumped
  /\ chits = [d \in Dus |-> [k \in Kinds |-> 0]]
  /\ missing = [d \in Dus |-> 0]
  /\ stale = {}

(* The money.  Customers are served during the Shift only.                 *)
Takings == Sum(pumped, Dus) + ProductTotal

SellFuel(d, pay) ==
  /\ status = "OPEN" /\ Takings < MaxRupees
  /\ pumped' = [pumped EXCEPT ![d] = @ + 1]
  /\ received' = IF pay = "Cash" THEN [received EXCEPT ![d] = @ + 1] ELSE received
  /\ slips' = IF pay = "Card" THEN [slips EXCEPT ![d] = @ + 1] ELSE slips
  /\ chits' = IF pay \in Kinds THEN [chits EXCEPT ![d][pay] = @ + 1] ELSE chits
  /\ UNCHANGED <<shiftVars, rowVars, dropped, handover, missing, stale>>

Pouch(d) == float[d] + received[d] - dropped[d]
InHand(d) == Pouch(d) - (IF d \in HandedOver THEN handover[d].cash ELSE 0)

DropCash(d) ==
  /\ status = "OPEN" /\ InHand(d) > 0 /\ dropped[d] < MaxDrops
  /\ dropped' = [dropped EXCEPT ![d] = @ + 1]
  /\ UNCHANGED <<shiftVars, rowVars, pumped, received, slips, handover, chits, missing, stale>>

-----------------------------------------------------------------------------
(* Sales rows                                                              *)

(* CreateSale and RecordMerchandiseHandover.  An Attendant puts the cash    *)
(* into the pouch that counts it, and the slip comes from its terminal; the *)
(* non-cash part of a merchandise handover is a Card sale here.            *)
SellProduct(a, method) ==
  LET ds == {d \in Dus : holder[d] = a /\ CountsProducts(d)} IN
  /\ status = "OPEN" /\ Takings < MaxRupees
  /\ product' = [product EXCEPT ![a][method] = @ + 1]
  /\ received' = [d \in Dus |-> received[d] + IF d \in ds /\ method = "Cash" THEN 1 ELSE 0]
  /\ slips' = [d \in Dus |-> slips[d] + IF d \in ds /\ method = "Card" THEN 1 ELSE 0]
  /\ stale' = stale \cup (ds \cap HandedOver)
  /\ UNCHANGED <<shiftVars, metered, rows, pumped, dropped, handover, chits, missing>>

(* RecordCreditSale and RecordOmcCardSale.  On a closed Shift the route     *)
(* refreshes the summary: its ledger figures are read again, its cash       *)
(* figures stay as the close froze them.                                   *)
RecordRow(d, k) ==
  /\ chits[d][k] > 0
  /\ rows' = [rows EXCEPT ![d][k] = @ + 1]
  /\ chits' = [chits EXCEPT ![d][k] = @ - 1]
  /\ stale' = stale \cup ({d} \cap HandedOver)
  /\ UNCHANGED <<status, holder, float, posted, moneyVars, metered, product, handover, missing>>
  /\ summary' = IF status = "OPEN" THEN summary
                ELSE [summary EXCEPT !.credit = CreditSales', !.omc = RowsOf("OMC")']

(* VoidCreditSale and VoidOmcCardSale: while the Shift runs.  The chit is   *)
(* there to be entered again.                                              *)
VoidRow(d, k) ==
  /\ status = "OPEN" /\ rows[d][k] > 0
  /\ rows' = [rows EXCEPT ![d][k] = @ - 1]
  /\ chits' = [chits EXCEPT ![d][k] = @ + 1]
  /\ stale' = stale \cup ({d} \cap HandedOver)
  /\ UNCHANGED <<shiftVars, moneyVars, metered, product, handover, missing>>

-----------------------------------------------------------------------------
(* Handover, close, reopen                                                 *)

(* The Attendant reads the nozzles, hands the pouch over, short or not, and *)
(* mentions the drops or not; the terminal prints its own total.  The row   *)
(* replaces the Drawer's earlier one.                                      *)
RecordHandover(d, cash, drops) ==
  LET expected == ExpectedCash(d, slips[d], drops) IN
  /\ status = "OPEN"
  /\ cash \in 0 .. Pouch(d) /\ drops \in 0 .. dropped[d]
  /\ metered' = [metered EXCEPT ![d] = pumped[d]]
  /\ handover' = [handover EXCEPT ![d] =
       [cash |-> cash, card |-> slips[d], credit |-> rows[d]["Credit"], float |-> float[d],
        drops |-> drops, expected |-> expected, variance |-> cash - expected]]
  /\ missing' = [missing EXCEPT ![d] = (Pouch(d) - cash) + (dropped[d] - drops)
                                         + chits[d]["Credit"] + chits[d]["OMC"]]
  /\ stale' = stale \ {d}
  /\ UNCHANGED <<shiftVars, rows, product, moneyVars, chits>>

(* What the office finds when it counts: the pouches handed over and the    *)
(* cash of the sellers without one, less the drop it made itself.          *)
OfficeCash ==
  Sum([d \in Dus |-> handover[d].cash], Dus) + SoldBy(WithoutDrawer, "Cash")

(* The close waits for every Drawer, takes the drops the handovers did not  *)
(* mention and may correct readings, which the frozen handovers ignore; the *)
(* route posts the cash.                                                   *)
CloseShift(named, unassigned, corrected) ==
  LET fuel == [d \in Dus |-> IF d \in corrected THEN pumped[d] ELSE metered[d]] IN
  /\ status = "OPEN" /\ HandedOver = Dus
  /\ \A d \in Dus : named[d] <= dropped[d] - handover[d].drops
  /\ unassigned <= OfficeCash
  /\ metered' = fuel
  /\ summary' =
       [cash     |-> CashSales + Sum(named, Dus),
        card     |-> TerminalSales,
        credit   |-> CreditSales,
        omc      |-> RowsOf("OMC"),
        named    |-> named,
        drawers  |-> [d \in Dus |-> handover[d].variance + named[d]],
        variance |-> AttendantVariance(named),
        office   |-> (OfficeCash - unassigned) - ExpectedOfficeCash(unassigned, named),
        total    |-> Sum(fuel, Dus) + ProductTotal]
  /\ posted' = CashSales + Sum(named, Dus)
  /\ stale' = stale \cup {d \in Dus : fuel[d] # metered[d]}
  /\ status' = "CLOSED"
  /\ UNCHANGED <<holder, float, rows, product, moneyVars, handover, chits, missing>>

(* ReopenShift drops the summary, the route reverses the posting; the       *)
(* handovers stay.                                                         *)
ReopenShift ==
  /\ status = "CLOSED"
  /\ status' = "OPEN"
  /\ summary' = NoSummary /\ posted' = 0
  /\ UNCHANGED <<holder, float, moneyVars, rowVars, handover, chits, missing, stale>>

Next ==
  \/ \E d \in Dus, pay \in {"Cash", "Card"} \cup Kinds : SellFuel(d, pay)
  \/ \E d \in Dus : DropCash(d)
  \/ \E a \in Sellers, method \in Methods : SellProduct(a, method)
  \/ \E d \in Dus, k \in Kinds : RecordRow(d, k) \/ VoidRow(d, k)
  \/ \E d \in Dus : \E cash \in {Pouch(d) - 1, Pouch(d)}, drops \in {0, dropped[d]} :
        RecordHandover(d, cash, drops)
  \/ \E named \in [Dus -> 0 .. MaxDrops], unassigned \in 0 .. 1, corrected \in {{}, Dus} :
        CloseShift(named, unassigned, corrected)
  \/ ReopenShift

Spec == Init /\ [][Next]_vars

-----------------------------------------------------------------------------
(* Properties                                                              *)

Handovers == [cash : Nat, card : Nat, credit : Nat, float : Nat, drops : Nat,
              expected : Int, variance : Int]
Summaries == [cash : Int, card : Int, credit : Nat, omc : Nat, named : [Dus -> Nat],
              drawers : [Dus -> Int], variance : Int, office : Int, total : Nat]

(* The types of the variables.                                             *)
TypeOK ==
  /\ status \in {"OPEN", "CLOSED"}
  /\ holder \in [Dus -> Attendants] /\ float \in [Dus -> Nat]
  /\ {metered, pumped, received, slips, dropped, missing} \subseteq [Dus -> Nat]
  /\ {rows, chits} \subseteq [Dus -> [Kinds -> Nat]]
  /\ product \in [Sellers -> [Methods -> Nat]]
  /\ handover \in [Dus -> Handovers \cup {NoHandover}]
  /\ summary \in Summaries \cup {NoSummary}
  /\ posted \in Int
  /\ stale \subseteq Dus

(* An Attendant's product sales on their own terminal: the slip is part of  *)
(* what the Drawer declares, the sale is not part of what it should hold.   *)
OnOwnTerminal(d) == IF CountsProducts(d) THEN product[holder[d]]["Card"] ELSE 0

(* The summary's payment split: cash, card, credit and OMC card less the    *)
(* Attendant variance.                                                     *)
Split == summary.cash + summary.card + summary.credit + summary.omc - summary.variance

(* What the Drawer was to hold by the rows of its handover, less what it is *)
(* to hold by the rows of today: no handover is made again when they change. *)
Outdated(d) ==
  handover[d].expected
    - (float[d] + metered[d] + MerchandiseCash(d) - handover[d].card
         - rows[d]["Credit"] - rows[d]["OMC"] - handover[d].drops)

(* Credit that was declared at a handover and has no row any more.          *)
VoidedCredit ==
  IF RowsOf("Credit") > 0 THEN 0 ELSE Sum([d \in Dus |-> handover[d].credit], Dus)

(* composeShiftPayments: through late rows and sales, corrected readings    *)
(* and reopenings, the split misses the total sales by three things only:   *)
(* what Attendants sold on their own terminals, which is declared as card   *)
(* and as a surplus at once, what the expected cash of stale Drawers is out *)
(* of date by, and voided credit.  A Drawer that is not stale is up to date. *)
SplitAccountedFor ==
  /\ summary # NoSummary =>
       Split = summary.total - Sum([d \in Dus |-> OnOwnTerminal(d)], Dus)
                 + Sum([d \in Dus |-> Outdated(d)], Dus) + VoidedCredit
  /\ \A d \in HandedOver \ stale : Outdated(d) = 0

(* The comment of composeShiftPayments (`so the split always adds up to     *)
(* total sales'), asked only of Shifts without a stale Drawer.  Violated: an *)
(* Attendant's product sale on their own terminal is in no bucket.          *)
SplitAddsUp == summary # NoSummary /\ stale = {} => Split = summary.total

(* reconcileDrawer and computeShiftCloseCash: an Attendant is charged with  *)
(* what the Drawer really lacked (cash kept back, drops neither declared    *)
(* nor named at the close, chits nobody entered), no matter how many DUs    *)
(* they hold, and credited with nothing but product sales on their terminal. *)
VarianceIsShortage ==
  summary # NoSummary =>
    \A d \in Dus \ stale :
       summary.drawers[d] = OnOwnTerminal(d) - (missing[d] - summary.named[d])

(* assembleReconTotals: at no time of the Shift, nor in the ledger, is more *)
(* cash counted as sales than customers paid.                              *)
CashFromCustomers ==
  Sum(received, Dus) + SoldBy(WithoutDrawer, "Cash")
NoCashCountedTwice == CashSales <= CashFromCustomers /\ posted <= CashFromCustomers

(* Two-level variance: what an Attendant lacks never shows up as a shortage *)
(* of the office, nor does a drop, however it was declared.                 *)
OfficeIsNotBlamed == summary # NoSummary => summary.office = 0
=============================================================================

--------------------------- MODULE DrawerCash_proofs ---------------------------
(***************************************************************************)
(* What a Drawer is charged with at the close is what it really lacked, for *)
(* any number of DUs and Attendants.  Two facts carry it: what was sold at  *)
(* a DU equals what was taken for it (Books), and a handover judges its     *)
(* Drawer by the rows of its moment (Judged), which `stale' keeps track of. *)
(*                                                                         *)
(* The second part sums over the Drawers and sellers: the payment split, the *)
(* office's count and the cash sales, from the invariant CashInv.           *)
(***************************************************************************)
EXTENDS DrawerCash, SumLemmas

Chits(d) == chits[d]["Credit"] + chits[d]["OMC"]
Rows(d) == rows[d]["Credit"] + rows[d]["OMC"]

(* The types the figures of one Drawer are made of.                        *)
MoneyTypes ==
  /\ holder \in [Dus -> Attendants]
  /\ float \in [Dus -> Int] /\ pumped \in [Dus -> Int] /\ received \in [Dus -> Int]
  /\ slips \in [Dus -> Int] /\ dropped \in [Dus -> Int] /\ missing \in [Dus -> Int]
  /\ rows \in [Dus -> [Kinds -> Int]] /\ chits \in [Dus -> [Kinds -> Int]]
  /\ product \in [Sellers -> [Methods -> Int]]
  /\ DOMAIN handover = Dus
  /\ stale \subseteq Dus

(* A DU's fuel and the products sold into its pouch were paid: in cash, on  *)
(* the terminal, or by a chit, entered or not.                             *)
Books ==
  \A d \in Dus :
     pumped[d] + MerchandiseCash(d) + OnOwnTerminal(d)
       = received[d] + slips[d] + Chits(d) + Rows(d)

(* The frozen variance of a Drawer whose rows have not changed since.      *)
Judged ==
  \A d \in HandedOver :
     /\ handover[d].variance \in Int
     /\ d \notin stale => handover[d].variance = OnOwnTerminal(d) - missing[d]

(* What the summary repeats of the handovers, which stay until a reopening. *)
Repeated ==
  /\ status \in {"OPEN", "CLOSED"}
  /\ summary # NoSummary => status = "CLOSED"
  /\ status = "CLOSED" =>
     /\ HandedOver = Dus
     /\ {"drawers", "named"} \subseteq DOMAIN summary
     /\ \A d \in Dus : /\ summary.named[d] \in Int
                       /\ summary.drawers[d] = handover[d].variance + summary.named[d]

DrawerInv == MoneyTypes /\ Books /\ Judged /\ Repeated

-----------------------------------------------------------------------------
LEMMA InitDrawers == Init => DrawerInv
<1> SUFFICES ASSUME Init PROVE DrawerInv
  OBVIOUS
<1> USE DrawerAssumption
<1>1. MoneyTypes
  BY DEF Init, MoneyTypes, Kinds, Methods, Dus
<1>2. HandedOver = {}
  BY DEF Init, HandedOver
<1>3. Books
  <2> SUFFICES ASSUME NEW d \in Dus
               PROVE  pumped[d] + MerchandiseCash(d) + OnOwnTerminal(d)
                        = received[d] + slips[d] + Chits(d) + Rows(d)
    BY DEF Books
  <2>1. holder[d] \in Sellers
    BY <1>1 DEF MoneyTypes, Sellers
  <2> QED
    BY <2>1 DEF Init, MerchandiseCash, OnOwnTerminal, Chits, Rows, Kinds, Methods
<1> QED
  BY <1>1, <1>2, <1>3 DEF DrawerInv, Judged, Repeated, Init

(* Fuel sold: the takings grow with what was sold.                         *)
LEMMA FuelIsPaid ==
  ASSUME DrawerInv, NEW d \in Dus, NEW pay \in {"Cash", "Card"} \cup Kinds, SellFuel(d, pay)
  PROVE  DrawerInv'
<1> USE DEF SellFuel, shiftVars, rowVars, DrawerInv
<1>1. MoneyTypes'
  BY DEF MoneyTypes, Kinds
<1>2. Books'
  <2> SUFFICES ASSUME NEW e \in Dus
               PROVE  (pumped[e] + MerchandiseCash(e) + OnOwnTerminal(e)
                        = received[e] + slips[e] + Chits(e) + Rows(e))'
    BY DEF Books
  <2>1. /\ MerchandiseCash(e)' = MerchandiseCash(e) /\ MerchandiseCash(e) \in Int
        /\ OnOwnTerminal(e)' = OnOwnTerminal(e) /\ OnOwnTerminal(e) \in Int
        /\ Rows(e)' = Rows(e) /\ Rows(e) \in Int
    BY DEF MerchandiseCash, OnOwnTerminal, Rows, CountsProducts, MoneyTypes, Kinds, Methods, Sellers
  <2>2. pumped[e] + MerchandiseCash(e) + OnOwnTerminal(e)
          = received[e] + slips[e] + Chits(e) + Rows(e)
    BY DEF Books
  <2>3. CASE e # d
    BY <2>1, <2>2, <2>3 DEF Chits, MoneyTypes
  <2>4. CASE e = d
    <3>1. /\ pumped[d] \in Int /\ received[d] \in Int /\ slips[d] \in Int
          /\ chits[d]["Credit"] \in Int /\ chits[d]["OMC"] \in Int
          /\ pumped'[d] = pumped[d] + 1
      BY DEF MoneyTypes, Kinds
    <3>2. CASE pay = "Cash"
      <4>1. received'[d] = received[d] + 1 /\ slips' = slips /\ chits' = chits
        BY <3>2 DEF MoneyTypes, Kinds
      <4> QED
        BY <2>1, <2>2, <2>4, <3>1, <4>1 DEF Chits
    <3>3. CASE pay = "Card"
      <4>1. received' = received /\ slips'[d] = slips[d] + 1 /\ chits' = chits
        BY <3>3 DEF MoneyTypes, Kinds
      <4> QED
        BY <2>1, <2>2, <2>4, <3>1, <4>1 DEF Chits
    <3>4. CASE pay \in Kinds
      <4>1. /\ received' = received /\ slips' = slips
            /\ chits'[d] = [chits[d] EXCEPT ![pay] = chits[d][pay] + 1]
            /\ chits[d] \in [Kinds -> Int]
        BY <3>4 DEF MoneyTypes, Kinds
      <4>2. chits'[d]["Credit"] + chits'[d]["OMC"] = chits[d]["Credit"] + chits[d]["OMC"] + 1
        BY <3>1, <3>4, <4>1 DEF Kinds
      <4>3. Chits(d)' = Chits(d) + 1 /\ Chits(d) \in Int
        BY <3>1, <4>2 DEF Chits
      <4> HIDE DEF SellFuel, DrawerInv
      <4> QED
        BY <2>1, <2>2, <2>4, <3>1, <4>1, <4>3
    <3> QED
      BY <3>2, <3>3, <3>4
  <2> QED
    BY <2>3, <2>4
<1>3. Judged' /\ Repeated'
  BY DEF Judged, Repeated, HandedOver, OnOwnTerminal, CountsProducts, MoneyTypes
<1> QED
  BY <1>1, <1>2, <1>3

(* Products sold: into one pouch, whose frozen figures become stale.       *)
LEMMA ProductsArePaid ==
  ASSUME DrawerInv, NEW a \in Sellers, NEW method \in Methods, SellProduct(a, method)
  PROVE  DrawerInv'
<1> USE DEF SellProduct, shiftVars, DrawerInv
<1>1. MoneyTypes'
  BY DEF MoneyTypes, Kinds, HandedOver
<1> DEFINE Mine(e) == holder[e] = a /\ CountsProducts(e)
<1>2. \A e \in Dus : Mine(e)' = Mine(e)
  BY DEF CountsProducts
<1>3. ASSUME NEW e \in Dus
      PROVE  /\ MerchandiseCash(e) \in Int /\ OnOwnTerminal(e) \in Int
             /\ MerchandiseCash(e)' = MerchandiseCash(e) + IF Mine(e) /\ method = "Cash" THEN 1 ELSE 0
             /\ OnOwnTerminal(e)' = OnOwnTerminal(e) + IF Mine(e) /\ method = "Card" THEN 1 ELSE 0
  <2>1. CountsProducts(e)' = CountsProducts(e)
    BY DEF CountsProducts
  <2>2. holder[e] \in Sellers
    BY DEF MoneyTypes, Sellers
  <2> QED
    BY <2>1, <2>2 DEF MerchandiseCash, OnOwnTerminal, MoneyTypes, Methods
<1>4. Books'
  <2> SUFFICES ASSUME NEW e \in Dus
               PROVE  (pumped[e] + MerchandiseCash(e) + OnOwnTerminal(e)
                        = received[e] + slips[e] + Chits(e) + Rows(e))'
    BY DEF Books
  <2>1. /\ received'[e] = received[e] + IF Mine(e) /\ method = "Cash" THEN 1 ELSE 0
        /\ slips'[e] = slips[e] + IF Mine(e) /\ method = "Card" THEN 1 ELSE 0
    OBVIOUS
  <2>2. Chits(e)' = Chits(e) /\ Chits(e) \in Int /\ Rows(e)' = Rows(e) /\ Rows(e) \in Int
    BY DEF Chits, Rows, MoneyTypes, Kinds
  <2>3. pumped[e] + MerchandiseCash(e) + OnOwnTerminal(e)
          = received[e] + slips[e] + Chits(e) + Rows(e)
    BY DEF Books
  <2>4. pumped'[e] = pumped[e] /\ pumped[e] \in Int /\ received[e] \in Int /\ slips[e] \in Int
    BY DEF MoneyTypes
  <2> QED
    BY <1>3, <2>1, <2>2, <2>3, <2>4
<1>5. Judged'
  <2>1. HandedOver' = HandedOver
    BY DEF HandedOver
  <2>2. \A e \in HandedOver \ stale' : ~Mine(e)
    BY DEF HandedOver
  <2>3. \A e \in HandedOver \ stale' : OnOwnTerminal(e)' = OnOwnTerminal(e)
    BY <1>3, <2>2 DEF HandedOver
  <2> QED
    BY <2>1, <2>3 DEF Judged
<1>6. Repeated'
  BY DEF Repeated
<1> QED
  BY <1>1, <1>4, <1>5, <1>6

(* A chit becomes a row, or a row a chit: the sum of both stays, and a      *)
(* Drawer handed over becomes stale.                                       *)
LEMMA RowsAreMoved ==
  ASSUME DrawerInv, NEW d \in Dus, NEW k \in Kinds,
         \/ /\ rows' = [rows EXCEPT ![d][k] = @ + 1]
            /\ chits' = [chits EXCEPT ![d][k] = @ - 1]
         \/ /\ rows' = [rows EXCEPT ![d][k] = @ - 1]
            /\ chits' = [chits EXCEPT ![d][k] = @ + 1],
         stale' = stale \cup ({d} \cap HandedOver),
         UNCHANGED <<holder, float, moneyVars, product, handover, missing>>
  PROVE  MoneyTypes' /\ Books' /\ Judged'
<1> USE DEF moneyVars, DrawerInv
<1>0. \E n \in {1, -1} :
        /\ rows' = [rows EXCEPT ![d] = [rows[d] EXCEPT ![k] = rows[d][k] + n]]
        /\ chits' = [chits EXCEPT ![d] = [chits[d] EXCEPT ![k] = chits[d][k] - n]]
  <2>1. chits[d][k] \in Int /\ rows[d][k] \in Int
    BY DEF MoneyTypes
  <2>2. /\ chits[d][k] + 1 = chits[d][k] - (-1)
        /\ rows[d][k] - 1 = rows[d][k] + (-1)
    BY <2>1
  <2> QED
    BY <2>2
<1>1. MoneyTypes'
  <2>1. PICK n \in {1, -1} :
          /\ rows' = [rows EXCEPT ![d] = [rows[d] EXCEPT ![k] = rows[d][k] + n]]
          /\ chits' = [chits EXCEPT ![d] = [chits[d] EXCEPT ![k] = chits[d][k] - n]]
    BY <1>0
  <2>2. rows' \in [Dus -> [Kinds -> Int]] /\ chits' \in [Dus -> [Kinds -> Int]]
    <3>1. rows[d] \in [Kinds -> Int] /\ chits[d] \in [Kinds -> Int]
      BY DEF MoneyTypes
    <3>2. /\ [rows[d] EXCEPT ![k] = rows[d][k] + n] \in [Kinds -> Int]
          /\ [chits[d] EXCEPT ![k] = chits[d][k] - n] \in [Kinds -> Int]
      BY <3>1
    <3> QED
      BY <2>1, <3>2 DEF MoneyTypes
  <2> QED
    BY <2>2 DEF MoneyTypes, HandedOver
<1>2. \A e \in Dus : /\ MerchandiseCash(e)' = MerchandiseCash(e)
                     /\ OnOwnTerminal(e)' = OnOwnTerminal(e)
                     /\ MerchandiseCash(e) \in Int /\ OnOwnTerminal(e) \in Int
  BY DEF MerchandiseCash, OnOwnTerminal, CountsProducts, MoneyTypes, Methods, Sellers
<1>3. ASSUME NEW e \in Dus PROVE (Chits(e) + Rows(e))' = Chits(e) + Rows(e)
  <2>1. CASE e # d
    BY <2>1 DEF Chits, Rows, MoneyTypes
  <2>2. CASE e = d
    <3>1. PICK n \in {1, -1} :
            /\ rows' = [rows EXCEPT ![d] = [rows[d] EXCEPT ![k] = rows[d][k] + n]]
            /\ chits' = [chits EXCEPT ![d] = [chits[d] EXCEPT ![k] = chits[d][k] - n]]
      BY <1>0
    <3>2. rows[d] \in [Kinds -> Int] /\ chits[d] \in [Kinds -> Int]
      BY DEF MoneyTypes
    <3>3. /\ rows'[d] = [rows[d] EXCEPT ![k] = rows[d][k] + n]
          /\ chits'[d] = [chits[d] EXCEPT ![k] = chits[d][k] - n]
      BY <3>1 DEF MoneyTypes
    <3>4. Rows(d)' = Rows(d) + n /\ Chits(d)' = Chits(d) - n
      BY <3>2, <3>3 DEF Rows, Chits, Kinds
    <3>5. Rows(d) \in Int /\ Chits(d) \in Int
      BY <3>2 DEF Rows, Chits, Kinds
    <3> QED
      BY <2>2, <3>4, <3>5
  <2> QED
    BY <2>1, <2>2
<1>4. Books'
  <2> SUFFICES ASSUME NEW e \in Dus
               PROVE  (pumped[e] + MerchandiseCash(e) + OnOwnTerminal(e)
                        = received[e] + slips[e] + Chits(e) + Rows(e))'
    BY DEF Books
  <2>1. /\ pumped'[e] = pumped[e] /\ received'[e] = received[e] /\ slips'[e] = slips[e]
        /\ pumped[e] \in Int /\ received[e] \in Int /\ slips[e] \in Int
    BY DEF MoneyTypes
  <2>2. Chits(e) \in Int /\ Rows(e) \in Int /\ Chits(e)' \in Int /\ Rows(e)' \in Int
    BY <1>1 DEF Chits, Rows, MoneyTypes, Kinds
  <2>3. pumped[e] + MerchandiseCash(e) + OnOwnTerminal(e)
          = received[e] + slips[e] + Chits(e) + Rows(e)
    BY DEF Books
  <2> QED
    BY <1>2, <1>3, <2>1, <2>2, <2>3
<1>5. Judged'
  BY <1>2 DEF Judged, HandedOver, MoneyTypes
<1> QED
  BY <1>1, <1>4, <1>5

(* The arithmetic of a handover: what was sold less what was expected is    *)
(* what lacks.                                                             *)
LEMMA ShortageSum ==
  ASSUME NEW cash \in Int, NEW drops \in Int, NEW base \in Int, NEW fuel \in Int,
         NEW merch \in Int, NEW own \in Int, NEW cashIn \in Int, NEW slip \in Int,
         NEW chit \in Int, NEW entered \in Int, NEW safe \in Int,
         fuel + merch + own = cashIn + slip + chit + entered
  PROVE  cash - (base + fuel + merch - slip - entered - drops)
           = own - ((base + cashIn - safe - cash) + (safe - drops) + chit)
OBVIOUS

(* A handover freezes the rows of its moment; Books makes the difference    *)
(* between its cash and what it expects the Drawer's real shortage.         *)
LEMMA HandoversJudge ==
  ASSUME DrawerInv, NEW d \in Dus, NEW cash, NEW drops, RecordHandover(d, cash, drops),
         cash \in Int, drops \in Int
  PROVE  DrawerInv'
<1> USE DEF RecordHandover, shiftVars, moneyVars, DrawerInv
<1>1. MoneyTypes'
  BY DEF MoneyTypes, Pouch, Kinds
<1>2. \A e \in Dus : /\ MerchandiseCash(e)' = MerchandiseCash(e)
                     /\ OnOwnTerminal(e)' = OnOwnTerminal(e)
                     /\ MerchandiseCash(e) \in Int /\ OnOwnTerminal(e) \in Int
  BY DEF MerchandiseCash, OnOwnTerminal, CountsProducts, MoneyTypes, Methods, Sellers
<1>3. Books'
  BY <1>2 DEF Books, Chits, Rows, MoneyTypes
<1>4. Judged'
  <2> SUFFICES ASSUME NEW e \in HandedOver'
               PROVE  /\ handover'[e].variance \in Int
                      /\ e \notin stale' => handover'[e].variance = OnOwnTerminal(e)' - missing'[e]
    BY DEF Judged
  <2>1. CASE e # d
    BY <1>2, <2>1 DEF Judged, HandedOver, MoneyTypes
  <2>2. CASE e = d
    <3>1. /\ handover'[d].variance = cash - ExpectedCash(d, slips[d], drops)
          /\ missing'[d] = (Pouch(d) - cash) + (dropped[d] - drops)
                             + chits[d]["Credit"] + chits[d]["OMC"]
      BY DEF MoneyTypes
    <3>2. /\ float[d] \in Int /\ pumped[d] \in Int /\ received[d] \in Int
          /\ slips[d] \in Int /\ dropped[d] \in Int
          /\ rows[d]["Credit"] \in Int /\ rows[d]["OMC"] \in Int
          /\ chits[d]["Credit"] \in Int /\ chits[d]["OMC"] \in Int
      BY DEF MoneyTypes, Kinds
    <3>3. pumped[d] + MerchandiseCash(d) + OnOwnTerminal(d)
            = received[d] + slips[d] + Chits(d) + Rows(d)
      BY DEF Books
    <3>4. /\ MerchandiseCash(d) \in Int /\ OnOwnTerminal(d) \in Int
          /\ OnOwnTerminal(d)' = OnOwnTerminal(d)
      BY <1>2
    <3>5. handover'[d].variance \in Int
      BY <3>1, <3>2, <3>4 DEF ExpectedCash
    <3>6. handover'[d].variance = OnOwnTerminal(d) - missing'[d]
      <4> HIDE DEF RecordHandover, DrawerInv
      <4>1. Chits(d) \in Int /\ Rows(d) \in Int
        BY <3>2 DEF Chits, Rows
      <4>2. handover'[d].variance
              = cash - (float[d] + pumped[d] + MerchandiseCash(d) - slips[d] - Rows(d) - drops)
        BY <3>1, <3>2, <3>4 DEF ExpectedCash, Rows
      <4>3. missing'[d] = (float[d] + received[d] - dropped[d] - cash) + (dropped[d] - drops)
                            + Chits(d)
        BY <3>1, <3>2 DEF Pouch, Chits
      <4>4. cash - (float[d] + pumped[d] + MerchandiseCash(d) - slips[d] - Rows(d) - drops)
              = OnOwnTerminal(d) - ((float[d] + received[d] - dropped[d] - cash)
                                      + (dropped[d] - drops) + Chits(d))
        <5> DEFINE base == float[d]         fuel   == pumped[d]   cashIn  == received[d]
                   slip == slips[d]         safe   == dropped[d]
                   merch == MerchandiseCash(d)  own == OnOwnTerminal(d)
                   chit == Chits(d)         entered == Rows(d)
        <5>1. /\ base \in Int /\ fuel \in Int /\ cashIn \in Int /\ slip \in Int
              /\ safe \in Int /\ merch \in Int /\ own \in Int /\ chit \in Int
              /\ entered \in Int
          BY <3>2, <3>4, <4>1
        <5>2. fuel + merch + own = cashIn + slip + chit + entered
          BY <3>3
        <5>3. cash - (base + fuel + merch - slip - entered - drops)
                = own - ((base + cashIn - safe - cash) + (safe - drops) + chit)
          <6> HIDE DEF base, fuel, cashIn, slip, safe, merch, own, chit, entered
          <6> QED BY <5>1, <5>2, ShortageSum
        <5> QED
          BY <5>3
      <4> QED
        BY <4>2, <4>3, <4>4
    <3> QED
      BY <2>2, <3>4, <3>5, <3>6
  <2> QED
    BY <2>1, <2>2
<1>5. Repeated'
  BY DEF Repeated
<1> QED
  BY <1>1, <1>3, <1>4, <1>5

(* The close repeats the handovers, with the named drops on top.           *)
LEMMA ClosesRepeat ==
  ASSUME DrawerInv, NEW named \in [Dus -> 0 .. MaxDrops], NEW unassigned,
         NEW corrected, CloseShift(named, unassigned, corrected)
  PROVE  DrawerInv'
<1> USE DEF CloseShift, moneyVars, DrawerInv
<1>1. MoneyTypes'
  BY DEF MoneyTypes
<1>2. \A e \in Dus : /\ MerchandiseCash(e)' = MerchandiseCash(e)
                     /\ OnOwnTerminal(e)' = OnOwnTerminal(e)
  BY DEF MerchandiseCash, OnOwnTerminal, CountsProducts
<1>3. Books'
  BY <1>2 DEF Books, Chits, Rows
<1>4. HandedOver' = HandedOver /\ HandedOver = Dus
  BY DEF HandedOver
<1>5. Judged'
  BY <1>2, <1>4 DEF Judged
<1>6. Repeated'
  <2>1. /\ {"drawers", "named"} \subseteq DOMAIN summary'
        /\ summary'.named = named
        /\ summary'.drawers = [d \in Dus |-> handover[d].variance + named[d]]
    OBVIOUS
  <2>2. \A d \in Dus : named[d] \in Int
    BY DrawerAssumption
  <2> QED
    BY <1>4, <2>1, <2>2 DEF Repeated
<1> QED
  BY <1>1, <1>3, <1>5, <1>6

LEMMA StepDrawers == DrawerInv /\ [Next]_vars => DrawerInv'
<1> SUFFICES ASSUME DrawerInv, [Next]_vars PROVE DrawerInv'
  OBVIOUS
<1>1. ASSUME NEW d \in Dus, NEW pay \in {"Cash", "Card"} \cup Kinds, SellFuel(d, pay)
      PROVE  DrawerInv'
  BY <1>1, FuelIsPaid
<1>2. ASSUME NEW d \in Dus, DropCash(d) PROVE DrawerInv'
  <2> USE <1>2 DEF DropCash, shiftVars, rowVars, DrawerInv
  <2>1. MoneyTypes'
    BY DEF MoneyTypes
  <2>2. Books'
    BY DEF Books, MerchandiseCash, OnOwnTerminal, CountsProducts, Chits, Rows
  <2>3. Judged' /\ Repeated'
    BY DEF Judged, Repeated, HandedOver, OnOwnTerminal, CountsProducts
  <2> QED
    BY <2>1, <2>2, <2>3
<1>3. ASSUME NEW a \in Sellers, NEW method \in Methods, SellProduct(a, method)
      PROVE  DrawerInv'
  BY <1>3, ProductsArePaid
<1>4. ASSUME NEW d \in Dus, NEW k \in Kinds, RecordRow(d, k) PROVE DrawerInv'
  <2>1. MoneyTypes' /\ Books' /\ Judged'
    BY <1>4, RowsAreMoved DEF RecordRow
  <2>2. Repeated'
    <3> USE <1>4 DEF RecordRow
    <3>1. HandedOver' = HandedOver
      BY DEF HandedOver
    <3>2. CASE status = "OPEN"
      BY <3>2 DEF DrawerInv, Repeated
    <3>3. CASE status = "CLOSED"
      <4>1. /\ DOMAIN summary' = DOMAIN summary
            /\ summary'.named = summary.named /\ summary'.drawers = summary.drawers
        BY <3>3 DEF DrawerInv, Repeated
      <4> QED
        BY <3>1, <3>3, <4>1 DEF DrawerInv, Repeated
    <3> QED
      BY <3>2, <3>3 DEF DrawerInv, Repeated
  <2> QED
    BY <2>1, <2>2 DEF DrawerInv
<1>5. ASSUME NEW d \in Dus, NEW k \in Kinds, VoidRow(d, k) PROVE DrawerInv'
  <2>1. MoneyTypes' /\ Books' /\ Judged'
    BY <1>5, RowsAreMoved DEF VoidRow, shiftVars
  <2>2. Repeated'
    BY <1>5 DEF VoidRow, shiftVars, DrawerInv, Repeated, HandedOver
  <2> QED
    BY <2>1, <2>2 DEF DrawerInv
<1>6. ASSUME NEW d \in Dus, NEW cash \in {Pouch(d) - 1, Pouch(d)}, NEW drops \in {0, dropped[d]},
             RecordHandover(d, cash, drops)
      PROVE  DrawerInv'
  <2>1. cash \in Int /\ drops \in Int
    BY DEF DrawerInv, MoneyTypes, Pouch
  <2> QED
    BY <1>6, <2>1, HandoversJudge
<1>7. ASSUME NEW named \in [Dus -> 0 .. MaxDrops], NEW unassigned \in 0 .. 1,
             NEW corrected \in {{}, Dus}, CloseShift(named, unassigned, corrected)
      PROVE  DrawerInv'
  BY <1>7, ClosesRepeat
<1>8. CASE ReopenShift
  <2> USE <1>8 DEF ReopenShift, moneyVars, rowVars, DrawerInv
  <2>1. MoneyTypes'
    BY DEF MoneyTypes
  <2>2. Books'
    BY DEF Books, MerchandiseCash, OnOwnTerminal, CountsProducts, Chits, Rows
  <2>3. Judged' /\ Repeated'
    BY DEF Judged, Repeated, HandedOver, OnOwnTerminal, CountsProducts
  <2> QED
    BY <2>1, <2>2, <2>3
<1>9. CASE UNCHANGED vars
  <2> USE <1>9 DEF vars, shiftVars, moneyVars, rowVars, DrawerInv
  <2>1. MoneyTypes'
    BY DEF MoneyTypes
  <2>2. Books'
    BY DEF Books, MerchandiseCash, OnOwnTerminal, CountsProducts, Chits, Rows
  <2>3. Judged' /\ Repeated'
    BY DEF Judged, Repeated, HandedOver, OnOwnTerminal, CountsProducts
  <2> QED
    BY <2>1, <2>2, <2>3
<1> QED
  BY <1>1, <1>2, <1>3, <1>4, <1>5, <1>6, <1>7, <1>8, <1>9 DEF Next

(* At every close, reopening and late entry, a Drawer that nothing changed  *)
(* under is charged with exactly what it lacked.                           *)
THEOREM ChargedWithTheShortage == Spec => []VarianceIsShortage
<1>1. DrawerInv => VarianceIsShortage
  <2> SUFFICES ASSUME DrawerInv, summary # NoSummary, NEW d \in Dus \ stale
               PROVE  summary.drawers[d] = OnOwnTerminal(d) - (missing[d] - summary.named[d])
    BY DEF VarianceIsShortage
  <2>1. /\ summary.drawers[d] = handover[d].variance + summary.named[d]
        /\ summary.named[d] \in Int /\ d \in HandedOver
    BY DEF DrawerInv, Repeated
  <2>2. handover[d].variance = OnOwnTerminal(d) - missing[d]
    BY <2>1 DEF DrawerInv, Judged
  <2>3. OnOwnTerminal(d) \in Int /\ missing[d] \in Int
    BY DEF DrawerInv, MoneyTypes, OnOwnTerminal, Methods, Sellers
  <2> QED
    BY <2>1, <2>2, <2>3
<1> QED
  BY <1>1, InitDrawers, StepDrawers, PTL DEF Spec

-----------------------------------------------------------------------------
(* The totals of a Shift                                                   *)

WithDrawer == Sellers \ WithoutDrawer

LEMMA FiniteRows ==
  /\ IsFiniteSet(Dus) /\ IsFiniteSet(Sellers) /\ IsFiniteSet(Methods)
  /\ \A S \in SUBSET Dus : IsFiniteSet(S)
  /\ \A S \in SUBSET Sellers : IsFiniteSet(S)
<1>1. IsFiniteSet(Dus)
  <2>1. LastDu \in Int
    BY DrawerAssumption
  <2> QED
    BY <2>1, FS_Interval DEF Dus
<1>2. IsFiniteSet(Sellers)
  BY DrawerAssumption, FS_AddElement DEF Sellers
<1>3. IsFiniteSet(Methods)
  <2>1. IsFiniteSet({"Cash"})
    BY FS_Singleton
  <2>2. IsFiniteSet({"Cash"} \cup {"Card"})
    BY <2>1, FS_AddElement
  <2>3. IsFiniteSet(({"Cash"} \cup {"Card"}) \cup {"Credit"})
    BY <2>2, FS_AddElement
  <2>4. Methods = ({"Cash"} \cup {"Card"}) \cup {"Credit"}
    BY DEF Methods
  <2> QED
    BY <2>3, <2>4
<1> QED
  BY <1>1, <1>2, <1>3, FS_Subset

(* productCashOwner: every Attendant with a DU has one first DU, so what    *)
(* their first DUs count is what those Attendants sold, once each.         *)
LEMMA FirstDusSum ==
  ASSUME holder \in [Dus -> Attendants], NEW g, \A a \in Attendants : g[a] \in Int
  PROVE  Sum([d \in Dus |-> IF CountsProducts(d) THEN g[holder[d]] ELSE 0], Dus)
           = Sum(g, WithDrawer)
<1> DEFINE first == [d \in Dus |-> IF CountsProducts(d) THEN g[holder[d]] ELSE 0]
           Holders(n) == {holder[d] : d \in 1 .. n}
           N == {n \in Nat : n <= LastDu => Sum(first, 1 .. n) = Sum(g, Holders(n))}
<1>0. LastDu \in Nat
  BY DrawerAssumption
<1>1. \A d \in Dus : first[d] \in Int
  OBVIOUS
<1>2. 0 \in N
  <2>1. 1 .. 0 = {} /\ Holders(0) = {}
    OBVIOUS
  <2> QED
    BY <2>1, SumEmpty
<1>3. ASSUME NEW n \in Nat, n \in N, n + 1 <= LastDu
      PROVE  Sum(first, 1 .. (n + 1)) = Sum(g, Holders(n + 1))
  <2>0. n <= LastDu /\ n + 1 \in Dus /\ 1 .. n \subseteq Dus
    BY <1>0, <1>3 DEF Dus
  <2>1. /\ 1 .. (n + 1) = (1 .. n) \cup {n + 1}
        /\ n + 1 \notin 1 .. n
    OBVIOUS
  <2>2. Holders(n + 1) = Holders(n) \cup {holder[n + 1]}
    BY <2>1
  <2>3. IsFiniteSet(1 .. n) /\ IsFiniteSet(Holders(n))
    <3>1. Holders(n) \in SUBSET Attendants
      BY <2>0
    <3> QED
      BY <2>0, <3>1, FS_Subset, FiniteRows, DrawerAssumption
  <2>4. Sum(first, 1 .. (n + 1)) = first[n + 1] + Sum(first, 1 .. n)
    <3>1. \A d \in (1 .. n) \cup {n + 1} : first[d] \in Int
      BY <1>1, <2>0
    <3> HIDE DEF first
    <3> QED
      BY <2>1, <2>3, <3>1, SumAdd
  <2>5. Sum(first, 1 .. n) = Sum(g, Holders(n))
    BY <1>3, <2>0
  <2>6. CASE holder[n + 1] \in Holders(n)
    <3>1. first[n + 1] = 0
      <4>1. PICK d \in 1 .. n : holder[d] = holder[n + 1]
        BY <2>6
      <4>2. ~ CountsProducts(n + 1)
        BY <2>0, <4>1 DEF CountsProducts
      <4> QED
        BY <2>0, <4>2
    <3>2. Holders(n + 1) = Holders(n)
      BY <2>2, <2>6
    <3>3. Sum(g, Holders(n)) \in Int
      <4>1. Holders(n) \subseteq Attendants
        BY <2>0
      <4> QED
        BY <2>3, <4>1, SumType
    <3> HIDE DEF first, Holders
    <3> QED
      BY <2>4, <2>5, <3>1, <3>2, <3>3
  <2>7. CASE holder[n + 1] \notin Holders(n)
    <3>1. first[n + 1] = g[holder[n + 1]]
      <4>1. \A d \in Dus : holder[d] = holder[n + 1] => n + 1 <= d
        BY <1>0, <2>7 DEF Dus
      <4>2. CountsProducts(n + 1)
        BY <4>1 DEF CountsProducts
      <4> QED
        BY <2>0, <4>2
    <3>2. Sum(g, Holders(n + 1)) = g[holder[n + 1]] + Sum(g, Holders(n))
      <4>1. Holders(n) \cup {holder[n + 1]} \subseteq Attendants
        BY <2>0
      <4> HIDE DEF Holders
      <4> QED
        BY <2>2, <2>3, <2>7, <4>1, SumAdd
    <3> HIDE DEF first, Holders
    <3> QED
      BY <2>4, <2>5, <3>1, <3>2
  <2> QED
    BY <2>6, <2>7
<1>4. Nat \subseteq N
  <2>1. ASSUME NEW n \in Nat, n \in N PROVE n + 1 \in N
    <3>1. n + 1 <= LastDu => Sum(first, 1 .. (n + 1)) = Sum(g, Holders(n + 1))
      BY <1>3, <2>1
    <3> HIDE DEF first, Holders
    <3> QED
      BY <3>1
  <2> HIDE DEF N
  <2> QED BY <1>2, <2>1, NatSetInduction
<1>5. Sum(first, 1 .. LastDu) = Sum(g, Holders(LastDu))
  BY <1>0, <1>4
<1>6. Holders(LastDu) = WithDrawer
  BY DEF WithDrawer, WithoutDrawer, Sellers, Dus
<1> QED
  BY <1>5, <1>6 DEF Dus

(* What sellers sold, by method                                            *)
LEMMA SoldByType ==
  ASSUME product \in [Sellers -> [Methods -> Nat]],
         NEW S, S \subseteq Sellers, NEW m \in Methods
  PROVE  SoldBy(S, m) \in Nat
<1>1. \A a \in S : [b \in S |-> product[b][m]][a] \in Nat
  OBVIOUS
<1> QED
  BY <1>1, FiniteRows, SumNat DEF SoldBy

LEMMA SoldBySplit ==
  ASSUME product \in [Sellers -> [Methods -> Nat]],
         NEW S, NEW U, U \subseteq S, S \subseteq Sellers, NEW m \in Methods
  PROVE  SoldBy(S, m) = SoldBy(U, m) + SoldBy(S \ U, m)
<1> DEFINE all == [a \in S |-> product[a][m]]
<1>1. \A a \in S : all[a] \in Int
  OBVIOUS
<1>2. IsFiniteSet(S) /\ IsFiniteSet(U) /\ IsFiniteSet(S \ U)
  BY FiniteRows
<1>3. Sum(all, S) = Sum(all, U) + Sum(all, S \ U)
  BY <1>1, <1>2, SumSplit
<1>4. SoldBy(U, m) = Sum(all, U)
  BY <1>2, SumEqual DEF SoldBy
<1>5. SoldBy(S \ U, m) = Sum(all, S \ U)
  BY <1>2, SumEqual DEF SoldBy
<1> QED
  BY <1>3, <1>4, <1>5 DEF SoldBy

LEMMA ProductTotalIs ==
  ASSUME product \in [Sellers -> [Methods -> Nat]]
  PROVE  ProductTotal = SoldBy(Sellers, "Cash") + SoldBy(Sellers, "Card") + SoldBy(Sellers, "Credit")
<1> DEFINE by == [m \in Methods |-> SoldBy(Sellers, m)]
<1>1. \A m \in Methods : by[m] \in Int
  BY SoldByType
<1>2. IsFiniteSet({}) /\ IsFiniteSet({"Cash"}) /\ IsFiniteSet({"Cash", "Card"})
  BY FiniteRows, FS_Subset DEF Methods
<1>3. /\ Methods = {"Cash", "Card"} \cup {"Credit"}
      /\ {"Cash", "Card"} = {"Cash"} \cup {"Card"}
      /\ {"Cash"} = {} \cup {"Cash"}
  BY DEF Methods
<1>4. "Cash" \in Methods /\ "Card" \in Methods /\ "Credit" \in Methods
  BY DEF Methods
<1>5. Sum(by, {}) = 0
  BY SumEmpty
<1> HIDE DEF by
<1>6. Sum(by, {"Cash"}) = by["Cash"] + 0
  BY <1>1, <1>2, <1>3, <1>4, <1>5, SumAdd
<1>7. Sum(by, {"Cash", "Card"}) = by["Card"] + Sum(by, {"Cash"})
  BY <1>1, <1>2, <1>3, <1>4, SumAdd
<1>8. Sum(by, Methods) = by["Credit"] + Sum(by, {"Cash", "Card"})
  BY <1>1, <1>2, <1>3, <1>4, SumAdd
<1>9. Sum(by, Methods) = by["Cash"] + by["Card"] + by["Credit"]
  BY <1>1, <1>4, <1>6, <1>7, <1>8
<1> QED
  BY <1>4, <1>9 DEF by, ProductTotal

-----------------------------------------------------------------------------
(* The Shift's accounts.  The cash a Drawer declares came out of its pouch, *)
(* and the product cash it counts went into it.                            *)
Pouches ==
  /\ \A d \in Dus : MerchandiseCash(d) <= received[d]
  /\ \A d \in HandedOver :
       /\ handover[d].float = float[d]
       /\ handover[d].cash <= Pouch(d) /\ handover[d].drops <= dropped[d]

(* What a handover froze is what the rows say, until they change.          *)
Frozen ==
  /\ \A d \in HandedOver : handover[d].variance = handover[d].cash - handover[d].expected
  /\ \A d \in HandedOver \ stale : Outdated(d) = 0

(* An open Shift has no figures yet; a closed one's office is even.         *)
Figures ==
  /\ status = "OPEN" => summary = NoSummary /\ posted = 0
  /\ status = "CLOSED" => summary \in Summaries /\ summary.office = 0

(* A closed Shift's figures still say what the rows say.                    *)
Reported ==
  status = "CLOSED" =>
    /\ summary.cash = CashSales + Sum(summary.named, Dus)
    /\ summary.card = TerminalSales /\ summary.credit = CreditSales
    /\ summary.omc = RowsOf("OMC") /\ summary.variance = AttendantVariance(summary.named)
    /\ summary.total = Sum(metered, Dus) + ProductTotal

CashInv ==
  /\ DrawerInv /\ TypeOK /\ Pouches /\ Frozen /\ Figures
  /\ Reported /\ posted <= CashFromCustomers

(* A field of every handover, as a total over the DUs                      *)
LEMMA DeclaredTypes ==
  ASSUME TypeOK, NEW d \in HandedOver
  PROVE  /\ d \in Dus /\ handover[d] \in Handovers
         /\ handover[d].cash \in Nat /\ handover[d].card \in Nat
         /\ handover[d].credit \in Nat /\ handover[d].float \in Nat
         /\ handover[d].drops \in Nat /\ handover[d].variance \in Int
         /\ handover[d].expected \in Int
BY DEF TypeOK, HandedOver, Handovers

LEMMA ProductsCounted ==
  ASSUME TypeOK
  PROVE  /\ Sum([d \in Dus |-> MerchandiseCash(d)], Dus) = SoldBy(WithDrawer, "Cash")
         /\ Sum([d \in Dus |-> OnOwnTerminal(d)], Dus) = SoldBy(WithDrawer, "Card")
         /\ \A d \in Dus : MerchandiseCash(d) \in Nat /\ OnOwnTerminal(d) \in Nat
<1> DEFINE by(m) == [a \in Sellers |-> product[a][m]]
           first(m) == [d \in Dus |-> IF CountsProducts(d) THEN by(m)[holder[d]] ELSE 0]
<1>0. "Cash" \in Methods /\ "Card" \in Methods
  BY DEF Methods
<1>1. holder \in [Dus -> Attendants] /\ product \in [Sellers -> [Methods -> Nat]]
  BY DEF TypeOK
<1>2. Attendants \subseteq Sellers
  BY DEF Sellers
<1>3. ASSUME NEW m \in Methods
      PROVE  /\ Sum(first(m), Dus) = SoldBy(WithDrawer, m)
             /\ \A d \in Dus : first(m)[d] \in Nat
  <2>1. \A a \in Attendants : by(m)[a] \in Int
    BY <1>1, <1>2
  <2>2. Sum(first(m), Dus) = Sum(by(m), WithDrawer)
    <3> HIDE DEF by
    <3> QED BY <1>1, <2>1, FirstDusSum
  <2>3. SoldBy(WithDrawer, m) = Sum(by(m), WithDrawer)
    <3>1. WithDrawer \in SUBSET Sellers
      BY DEF WithDrawer
    <3>2. \A a \in WithDrawer : by(m)[a] \in Int /\ [b \in WithDrawer |-> product[b][m]][a] = by(m)[a]
      BY <1>1, <3>1
    <3> QED
      BY <3>1, <3>2, FiniteRows, SumEqual DEF SoldBy
  <2>4. \A d \in Dus : first(m)[d] \in Nat
    BY <1>1, <1>2
  <2> QED
    BY <2>2, <2>3, <2>4
<1>4. \A d \in Dus : MerchandiseCash(d) = first("Cash")[d] /\ OnOwnTerminal(d) = first("Card")[d]
  BY <1>1, <1>2 DEF MerchandiseCash, OnOwnTerminal
<1>5. /\ [d \in Dus |-> MerchandiseCash(d)] = first("Cash")
      /\ [d \in Dus |-> OnOwnTerminal(d)] = first("Card")
  BY <1>4
<1>6. \A d \in Dus : first("Cash")[d] \in Nat /\ first("Card")[d] \in Nat
  <2> HIDE DEF first
  <2> QED BY <1>0, <1>3
<1> HIDE DEF first
<1> QED
  BY <1>0, <1>3, <1>4, <1>5, <1>6

(* Once every Drawer is handed over, the sellers without a handover are the *)
(* sellers without a DU.                                                   *)
LEMMA NobodyMissing ==
  ASSUME HandedOver = Dus PROVE {a \in Sellers : ~Inside(a)} = WithoutDrawer
BY DEF Inside, WithoutDrawer

(* computeShiftCloseCash: the office expects the pouches it was handed.     *)
LEMMA OfficeExpectsThePouches ==
  ASSUME TypeOK, HandedOver = Dus, \A d \in Dus : handover[d].float = float[d],
         NEW unassigned \in Int, NEW named
  PROVE  /\ ExpectedOfficeCash(unassigned, named) = OfficeCash - unassigned
         /\ OfficeCash \in Int
<1> DEFINE kept == [d \in Dus |-> float[d] - handover[d].drops]
           sold == [d \in Dus |-> handover[d].cash - handover[d].float + handover[d].drops]
           cash == [d \in Dus |-> handover[d].cash]
<1>1. \A d \in Dus : /\ kept[d] \in Int /\ sold[d] \in Int /\ cash[d] \in Int
                     /\ cash[d] = kept[d] + sold[d]
  BY DeclaredTypes
<1> HIDE DEF kept, sold, cash
<1>2. Sum(cash, Dus) = Sum(kept, Dus) + Sum(sold, Dus)
  BY <1>1, FiniteRows, SumPlus
<1>3. Sum(cash, Dus) \in Int /\ Sum(kept, Dus) \in Int /\ Sum(sold, Dus) \in Int
  BY <1>1, FiniteRows, SumType
<1>4. SoldBy(WithoutDrawer, "Cash") \in Int
  <2>1. SoldBy(WithoutDrawer, "Cash") \in Nat
    BY SoldByType DEF TypeOK, WithoutDrawer, Methods
  <2> QED
    BY <2>1
<1>5. CashSales = Sum(sold, Dus) + SoldBy(WithoutDrawer, "Cash")
  BY NobodyMissing DEF CashSales, sold
<1>6. OfficeCash = Sum(cash, Dus) + SoldBy(WithoutDrawer, "Cash")
  BY DEF OfficeCash, cash
<1>7. ExpectedOfficeCash(unassigned, named) = Sum(kept, Dus) + CashSales - unassigned
  BY DEF ExpectedOfficeCash, kept
<1> QED
  BY <1>2, <1>3, <1>4, <1>5, <1>6, <1>7

LEMMA BucketsSum ==
  ASSUME NEW sold \in Int, NEW card \in Int, NEW credit \in Int, NEW omc \in Int,
         NEW short \in Int, NEW fuel \in Int, NEW late \in Int, NEW old \in Int, NEW void \in Int,
         NEW inCash \in Int, NEW outCash \in Int, NEW inCard \in Int, NEW outCard \in Int,
         NEW onCredit \in Int,
         sold + card + credit + omc - short = fuel + inCash + old
  PROVE  ((sold + outCash) + late) + (card + outCard) + ((credit + void) + onCredit) + omc
             - (short + late)
           = fuel + ((outCash + inCash) + (outCard + inCard) + onCredit) - inCard + old + void
OBVIOUS

(* What a Drawer declares less what it varies by is what it was to hold.    *)
LEMMA DrawerSum ==
  ASSUME NEW cash \in Int, NEW base \in Int, NEW drops \in Int, NEW card \in Int,
         NEW credit \in Int, NEW omc \in Int, NEW fuel \in Int, NEW merch \in Int,
         NEW expected \in Int
  PROVE  (cash - base + drops) + card + (credit + omc) - (cash - expected)
           = fuel + merch + (expected - (base + fuel + merch - card - credit - omc - drops))
OBVIOUS

(* composeShiftPayments: DU by DU, what was declared and entered less the   *)
(* variance is the fuel metered and the product cash counted there, but for *)
(* what the handover is out of date by; the rest of the product sales has a *)
(* bucket of its own.                                                      *)
LEMMA BucketsMakeUpTheSales ==
  ASSUME TypeOK, Pouches, Frozen, HandedOver = Dus, NEW named \in [Dus -> Nat]
  PROVE  (CashSales + Sum(named, Dus)) + TerminalSales + CreditSales + RowsOf("OMC")
             - AttendantVariance(named)
           = Sum(metered, Dus) + ProductTotal - Sum([d \in Dus |-> OnOwnTerminal(d)], Dus)
               + Sum([d \in Dus |-> Outdated(d)], Dus) + VoidedCredit
<1> DEFINE sold  == [d \in Dus |-> handover[d].cash - handover[d].float + handover[d].drops]
           card  == [d \in Dus |-> handover[d].card]
           given == [d \in Dus |-> handover[d].credit]
           chit(k) == [d \in Dus |-> rows[d][k]]
           short == [d \in Dus |-> handover[d].variance]
           late  == [d \in Dus |-> handover[d].variance + named[d]]
           merch == [d \in Dus |-> MerchandiseCash(d)]
           own   == [d \in Dus |-> OnOwnTerminal(d)]
           old   == [d \in Dus |-> Outdated(d)]
           sum1  == [d \in Dus |-> sold[d] + card[d]]
           sum2  == [d \in Dus |-> sum1[d] + chit("Credit")[d]]
           sum3  == [d \in Dus |-> sum2[d] + chit("OMC")[d]]
           sum4  == [d \in Dus |-> sum3[d] - short[d]]
           sum5  == [d \in Dus |-> metered[d] + merch[d]]
           in(m)  == SoldBy(WithDrawer, m)
           out(m) == SoldBy(WithoutDrawer, m)
<1>1. ASSUME NEW d \in Dus
      PROVE  /\ sold[d] \in Int /\ card[d] \in Int /\ given[d] \in Int /\ short[d] \in Int
             /\ chit("Credit")[d] \in Int /\ chit("OMC")[d] \in Int
             /\ metered[d] \in Int /\ merch[d] \in Int /\ named[d] \in Int
             /\ old[d] \in Int
             /\ sold[d] + card[d] + (chit("Credit")[d] + chit("OMC")[d]) - short[d]
                  = metered[d] + merch[d] + old[d]
             /\ late[d] = short[d] + named[d]
  <2>1. d \in HandedOver
    OBVIOUS
  <2>2. /\ handover[d].cash \in Nat /\ handover[d].card \in Nat
        /\ handover[d].credit \in Nat /\ handover[d].float \in Nat
        /\ handover[d].drops \in Nat /\ handover[d].variance \in Int
        /\ handover[d].expected \in Int
    BY <2>1, DeclaredTypes
  <2>3. MerchandiseCash(d) \in Nat /\ metered[d] \in Nat
    BY ProductsCounted DEF TypeOK
  <2>4. rows[d]["Credit"] \in Nat /\ rows[d]["OMC"] \in Nat
    BY DEF TypeOK, Kinds
  <2>5. /\ handover[d].float = float[d]
        /\ handover[d].variance = handover[d].cash - handover[d].expected
    BY <2>1 DEF Frozen, Pouches
  <2>6. /\ Outdated(d) \in Int
        /\ (handover[d].cash - handover[d].float + handover[d].drops) + handover[d].card
             + (rows[d]["Credit"] + rows[d]["OMC"]) - handover[d].variance
             = metered[d] + MerchandiseCash(d) + Outdated(d)
    <3> DEFINE cash == handover[d].cash  base == handover[d].float  drops == handover[d].drops
               slip == handover[d].card  expected == handover[d].expected
               credit == rows[d]["Credit"]  omc == rows[d]["OMC"]
               fuel == metered[d]  goods == MerchandiseCash(d)
    <3>1. /\ cash \in Int /\ base \in Int /\ drops \in Int /\ slip \in Int /\ expected \in Int
          /\ credit \in Int /\ omc \in Int /\ fuel \in Int /\ goods \in Int
      BY <2>2, <2>3, <2>4
    <3>2. Outdated(d) = expected - (base + fuel + goods - slip - credit - omc - drops)
      BY <2>5 DEF Outdated
    <3>3. handover[d].variance = cash - expected
      BY <2>5
    <3>4. (cash - base + drops) + slip + (credit + omc) - (cash - expected)
            = fuel + goods + (expected - (base + fuel + goods - slip - credit - omc - drops))
      <4> HIDE DEF cash, base, drops, slip, expected, credit, omc, fuel, goods
      <4> QED BY <3>1, DrawerSum
    <3>5. expected - (base + fuel + goods - slip - credit - omc - drops) \in Int
      <4> HIDE DEF cash, base, drops, slip, expected, credit, omc, fuel, goods
      <4> QED BY <3>1
    <3> QED
      BY <3>2, <3>3, <3>4, <3>5
  <2> QED
    BY <2>2, <2>3, <2>4, <2>6
<1>2. ASSUME NEW d \in Dus
      PROVE  /\ sum1[d] \in Int /\ sum2[d] \in Int /\ sum3[d] \in Int
             /\ sum4[d] = sum5[d] + old[d]
             /\ sum5[d] = metered[d] + merch[d] /\ sum5[d] \in Int
  <2> HIDE DEF sold, card, given, chit, short, late, merch, own, old
  <2> QED BY <1>1
<1> HIDE DEF sold, card, given, chit, short, late, merch, own, old, in, out
<1> USE FiniteRows
<1>3. Sum(sum1, Dus) = Sum(sold, Dus) + Sum(card, Dus)
  BY <1>1, SumPlus
<1>4. Sum(sum2, Dus) = Sum(sum1, Dus) + Sum(chit("Credit"), Dus)
  <2>1. \A d \in Dus : sum2[d] = sum1[d] + chit("Credit")[d]
    OBVIOUS
  <2> HIDE DEF sum1, sum2
  <2> QED BY <1>1, <1>2, <2>1, SumPlus
<1>5. Sum(sum3, Dus) = Sum(sum2, Dus) + Sum(chit("OMC"), Dus)
  <2>1. \A d \in Dus : sum3[d] = sum2[d] + chit("OMC")[d]
    OBVIOUS
  <2> HIDE DEF sum1, sum2, sum3
  <2> QED BY <1>1, <1>2, <2>1, SumPlus
<1>6. Sum(sum4, Dus) = Sum(sum3, Dus) - Sum(short, Dus)
  <2>1. \A d \in Dus : sum4[d] = sum3[d] - short[d]
    OBVIOUS
  <2> HIDE DEF sum1, sum2, sum3, sum4
  <2> QED BY <1>1, <1>2, <2>1, SumMinus
<1>7. Sum(sum4, Dus) = Sum(metered, Dus) + Sum(merch, Dus) + Sum(old, Dus)
  <2> HIDE DEF sum1, sum2, sum3, sum4, sum5
  <2>1. Sum(sum4, Dus) = Sum(sum5, Dus) + Sum(old, Dus)
    BY <1>1, <1>2, SumPlus
  <2>2. Sum(sum5, Dus) = Sum(metered, Dus) + Sum(merch, Dus)
    BY <1>1, <1>2, SumPlus
  <2> QED
    BY <2>1, <2>2
<1>8. /\ Sum(sold, Dus) \in Int /\ Sum(card, Dus) \in Int /\ Sum(short, Dus) \in Int
      /\ Sum(chit("Credit"), Dus) \in Int /\ Sum(chit("OMC"), Dus) \in Int
      /\ Sum(metered, Dus) \in Int /\ Sum(named, Dus) \in Int /\ Sum(merch, Dus) \in Int
      /\ Sum(old, Dus) \in Int /\ Sum(given, Dus) \in Int
  BY <1>1, SumType
<1>9. Sum(sold, Dus) + Sum(card, Dus) + Sum(chit("Credit"), Dus) + Sum(chit("OMC"), Dus)
        - Sum(short, Dus) = Sum(metered, Dus) + Sum(merch, Dus) + Sum(old, Dus)
  <2> HIDE DEF sum1, sum2, sum3, sum4, sum5
  <2> QED BY <1>3, <1>4, <1>5, <1>6, <1>7, <1>8
<1>10. /\ Sum(merch, Dus) = in("Cash") /\ Sum(own, Dus) = in("Card")
  BY ProductsCounted DEF merch, own, in
<1>11. ASSUME NEW m \in Methods
       PROVE  /\ SoldBy(Sellers, m) = out(m) + in(m)
              /\ in(m) \in Int /\ out(m) \in Int
  <2>1. /\ product \in [Sellers -> [Methods -> Nat]]
        /\ WithoutDrawer \subseteq Sellers /\ WithDrawer \subseteq Sellers
    BY DEF TypeOK, WithoutDrawer, WithDrawer
  <2>2. in(m) \in Nat /\ out(m) \in Nat
    BY <2>1, SoldByType DEF in, out
  <2> QED
    BY <2>1, <2>2, SoldBySplit DEF WithDrawer, in, out
<1>12. CashSales = Sum(sold, Dus) + out("Cash")
  BY NobodyMissing DEF CashSales, sold, out
<1>13. TerminalSales = Sum(card, Dus) + out("Card")
  BY NobodyMissing DEF TerminalSales, card, out
<1>14. RowsOf("Credit") = Sum(chit("Credit"), Dus) /\ RowsOf("OMC") = Sum(chit("OMC"), Dus)
  BY DEF RowsOf, chit
<1>15. /\ CreditSales = (Sum(chit("Credit"), Dus) + VoidedCredit) + SoldBy(Sellers, "Credit")
       /\ VoidedCredit \in Int
  <2>1. RowsOf("Credit") \in Nat
    <3>1. \A d \in Dus : chit("Credit")[d] \in Nat
      BY DEF chit, TypeOK, Kinds
    <3> QED
      BY <1>14, <3>1, SumNat
  <2>2. CASE RowsOf("Credit") > 0
    <3>1. VoidedCredit = 0
      BY <2>2 DEF VoidedCredit
    <3> QED
      BY <1>8, <1>14, <2>2, <3>1 DEF CreditSales
  <2>3. CASE RowsOf("Credit") = 0
    <3>1. VoidedCredit = Sum(given, Dus)
      BY <2>3 DEF VoidedCredit, given
    <3>2. CreditSales = Sum(given, Dus) + SoldBy(Sellers, "Credit")
      BY <2>3 DEF CreditSales, given
    <3> QED
      BY <1>8, <1>14, <2>3, <3>1, <3>2
  <2> QED
    BY <2>1, <2>2, <2>3
<1>16. AttendantVariance(named) = Sum(short, Dus) + Sum(named, Dus)
  <2>1. Sum(late, Dus) = Sum(short, Dus) + Sum(named, Dus)
    BY <1>1, SumPlus
  <2> QED
    BY <2>1 DEF AttendantVariance, late
<1>17. ProductTotal = SoldBy(Sellers, "Cash") + SoldBy(Sellers, "Card") + SoldBy(Sellers, "Credit")
  BY ProductTotalIs DEF TypeOK
<1>18. "Cash" \in Methods /\ "Card" \in Methods /\ "Credit" \in Methods
  BY DEF Methods
<1>19. /\ SoldBy(Sellers, "Cash") = out("Cash") + in("Cash")
       /\ SoldBy(Sellers, "Card") = out("Card") + in("Card")
       /\ SoldBy(Sellers, "Credit") \in Int
       /\ in("Cash") \in Int /\ out("Cash") \in Int /\ in("Card") \in Int /\ out("Card") \in Int
  BY <1>11, <1>18
<1>20. (CashSales + Sum(named, Dus)) + TerminalSales + CreditSales + RowsOf("OMC")
           - AttendantVariance(named)
         = Sum(metered, Dus) + ProductTotal - Sum(own, Dus) + Sum(old, Dus) + VoidedCredit
  <2> DEFINE a == Sum(sold, Dus)  b == Sum(card, Dus)  c == Sum(chit("Credit"), Dus)
             e == Sum(chit("OMC"), Dus)  f == Sum(short, Dus)  g == Sum(metered, Dus)
             n == Sum(named, Dus)  ic == in("Cash")  oc == out("Cash")  o == Sum(old, Dus)
             it == in("Card")  ot == out("Card")  cr == SoldBy(Sellers, "Credit")
             v == VoidedCredit
  <2>1. /\ a \in Int /\ b \in Int /\ c \in Int /\ e \in Int /\ f \in Int /\ g \in Int
        /\ n \in Int /\ ic \in Int /\ oc \in Int /\ it \in Int /\ ot \in Int /\ cr \in Int
        /\ o \in Int /\ v \in Int
    BY <1>8, <1>15, <1>19
  <2>2. a + b + c + e - f = g + ic + o
    BY <1>9, <1>10
  <2>3. /\ CashSales + n = (a + oc) + n /\ TerminalSales = b + ot /\ CreditSales = (c + v) + cr
        /\ RowsOf("OMC") = e /\ AttendantVariance(named) = f + n
        /\ ProductTotal = (oc + ic) + (ot + it) + cr /\ Sum(own, Dus) = it
    BY <1>10, <1>12, <1>13, <1>14, <1>15, <1>16, <1>17, <1>19
  <2>4. ((a + oc) + n) + (b + ot) + ((c + v) + cr) + e - (f + n)
          = g + ((oc + ic) + (ot + it) + cr) - it + o + v
    <3> HIDE DEF a, b, c, e, f, g, n, o, v, ic, oc, it, ot, cr
    <3> QED BY <2>1, <2>2, BucketsSum
  <2> HIDE DEF a, b, c, e, f, ic, oc, it, ot, cr
  <2> QED BY <2>3, <2>4
<1> QED
  BY <1>20 DEF own, old

(* assembleReconTotals: a Drawer's declared cash is at most what it took;   *)
(* product cash that is not inside a handover yet lies in a pouch that no   *)
(* handover emptied, or in none.                                           *)
LEMMA SalesComeFromCustomers ==
  ASSUME TypeOK, Pouches
  PROVE  CashSales <= CashFromCustomers
<1> DEFINE sold == [d \in HandedOver |-> handover[d].cash - handover[d].float + handover[d].drops]
           uncounted == [d \in Dus |-> IF d \in HandedOver THEN 0 ELSE received[d]]
           cash == [a \in Sellers |-> product[a]["Cash"]]
           outside == [a \in Sellers |-> IF Inside(a) THEN 0 ELSE product[a]["Cash"]]
           merch == [d \in Dus |-> IF CountsProducts(d) THEN outside[holder[d]] ELSE 0]
           nobody == {a \in Sellers : ~Inside(a)}
           waiting == nobody \cap WithDrawer
<1> USE FiniteRows
<1>1. /\ holder \in [Dus -> Attendants] /\ product \in [Sellers -> [Methods -> Nat]]
      /\ received \in [Dus -> Nat] /\ HandedOver \subseteq Dus /\ Attendants \subseteq Sellers
      /\ "Cash" \in Methods /\ WithoutDrawer \subseteq Sellers /\ WithDrawer \subseteq Sellers
      /\ float \in [Dus -> Nat] /\ dropped \in [Dus -> Nat]
  BY DEF TypeOK, HandedOver, Sellers, Methods, WithoutDrawer, WithDrawer
<1>2. ASSUME NEW d \in HandedOver
      PROVE  /\ sold[d] \in Int /\ received[d] \in Int
             /\ sold[d] <= received[d]
  <2>1. /\ handover[d].cash \in Nat /\ handover[d].drops \in Nat
        /\ handover[d].float \in Nat
    BY DeclaredTypes
  <2>2. /\ handover[d].float = float[d] /\ handover[d].drops <= dropped[d]
        /\ handover[d].cash <= float[d] + received[d] - dropped[d]
    BY DEF Pouches, Pouch
  <2>3. float[d] \in Nat /\ received[d] \in Nat /\ dropped[d] \in Nat
    BY <1>1
  <2> QED
    BY <2>1, <2>2, <2>3
<1>3. Sum(sold, HandedOver) <= Sum(received, HandedOver)
  <2> HIDE DEF sold
  <2> QED BY <1>1, <1>2, SumAtMost
<1>4. /\ Sum(received, Dus) = Sum(received, HandedOver) + Sum(received, Dus \ HandedOver)
      /\ Sum(uncounted, Dus) = Sum(received, Dus \ HandedOver)
  <2>1. \A d \in Dus : received[d] \in Int
    BY <1>1
  <2>2. Sum(received, Dus) = Sum(received, HandedOver) + Sum(received, Dus \ HandedOver)
    BY <1>1, <2>1, SumSplit
  <2>3. /\ \A d \in Dus \ HandedOver : uncounted[d] = received[d] /\ received[d] \in Int
        /\ \A d \in Dus \ (Dus \ HandedOver) : uncounted[d] = 0
    BY <1>1
  <2>4. Sum(uncounted, Dus) = Sum(received, Dus \ HandedOver)
    <3> HIDE DEF uncounted
    <3> QED BY <2>3, SumWhere
  <2> QED
    BY <2>2, <2>4
<1>5. \A a \in Sellers : cash[a] \in Int /\ outside[a] \in Int
  BY <1>1
<1>6. Sum(merch, Dus) = Sum(outside, WithDrawer)
  <2> HIDE DEF outside
  <2> QED BY <1>1, <1>5, FirstDusSum
<1>7. ASSUME NEW d \in Dus
      PROVE  merch[d] \in Int /\ uncounted[d] \in Int /\ merch[d] <= uncounted[d]
  <2>1. holder[d] \in Sellers /\ received[d] \in Nat
    BY <1>1
  <2>2. d \in HandedOver => Inside(holder[d])
    BY DEF Inside
  <2>3. MerchandiseCash(d) <= received[d]
    BY DEF Pouches
  <2>4. product[holder[d]]["Cash"] \in Nat
    BY <1>1
  <2> QED
    BY <2>1, <2>2, <2>3, <2>4 DEF MerchandiseCash
<1>8. Sum(merch, Dus) <= Sum(uncounted, Dus)
  <2> HIDE DEF merch, uncounted
  <2> QED BY <1>7, SumAtMost
<1>9. Sum(outside, WithDrawer) = SoldBy(waiting, "Cash")
  <2> DEFINE here == [a \in waiting |-> product[a]["Cash"]]
  <2>1. /\ waiting \subseteq WithDrawer
        /\ \A a \in waiting : here[a] \in Int /\ outside[a] = here[a]
        /\ \A a \in WithDrawer \ waiting : outside[a] = 0
    BY <1>1
  <2>2. IsFiniteSet(WithDrawer)
    BY <1>1
  <2>3. Sum(outside, WithDrawer) = Sum(here, waiting)
    <3> HIDE DEF outside, here, waiting
    <3> QED BY <2>1, <2>2, SumWhere
  <2> QED
    BY <2>3 DEF SoldBy
<1>10. SoldBy(nobody, "Cash") = SoldBy(WithoutDrawer, "Cash") + SoldBy(waiting, "Cash")
  <2>1. WithoutDrawer \subseteq nobody
    BY <1>1 DEF WithoutDrawer, Inside
  <2>2. nobody \ WithoutDrawer = waiting
    BY DEF WithDrawer
  <2>3. nobody \subseteq Sellers
    OBVIOUS
  <2> HIDE DEF nobody, waiting
  <2>4. SoldBy(nobody, "Cash")
          = SoldBy(WithoutDrawer, "Cash") + SoldBy(nobody \ WithoutDrawer, "Cash")
    BY <1>1, <2>1, <2>3, SoldBySplit
  <2> QED
    BY <2>2, <2>4
<1>11. /\ Sum(sold, HandedOver) \in Int /\ Sum(received, HandedOver) \in Int
       /\ Sum(received, Dus \ HandedOver) \in Int
  <2>1. \A d \in Dus \ HandedOver : received[d] \in Int
    BY <1>1
  <2> HIDE DEF sold
  <2> QED BY <1>1, <1>2, <2>1, SumType
<1>12. SoldBy(WithoutDrawer, "Cash") \in Nat /\ SoldBy(waiting, "Cash") \in Nat
  <2>1. waiting \subseteq Sellers
    OBVIOUS
  <2> QED
    BY <1>1, <2>1, SoldByType
<1>13. CashSales = Sum(sold, HandedOver) + SoldBy(nobody, "Cash")
  BY DEF CashSales
<1> HIDE DEF sold, uncounted, outside, merch, nobody, waiting
<1>14. SoldBy(waiting, "Cash") <= Sum(received, Dus \ HandedOver)
  BY <1>4, <1>6, <1>8, <1>9
<1> QED
  BY <1>3, <1>4, <1>10, <1>11, <1>12, <1>13, <1>14 DEF CashFromCustomers

(* The ledger's posting adds the drops named at the close, which the        *)
(* handovers had not declared.                                             *)
LEMMA PostingComesFromCustomers ==
  ASSUME TypeOK, Pouches, HandedOver = Dus, NEW named \in [Dus -> Nat],
         \A d \in Dus : named[d] <= dropped[d] - handover[d].drops
  PROVE  CashSales + Sum(named, Dus) <= CashFromCustomers
<1> DEFINE sold == [d \in Dus |-> handover[d].cash - handover[d].float + handover[d].drops]
           all == [d \in Dus |-> sold[d] + named[d]]
<1> USE FiniteRows
<1>1. ASSUME NEW d \in Dus
      PROVE  /\ sold[d] \in Int /\ named[d] \in Int /\ received[d] \in Int
             /\ all[d] = sold[d] + named[d] /\ all[d] \in Int /\ all[d] <= received[d]
  <2>1. /\ handover[d].cash \in Nat /\ handover[d].drops \in Nat
        /\ handover[d].float \in Nat
    BY DeclaredTypes
  <2>2. /\ handover[d].float = float[d] /\ named[d] <= dropped[d] - handover[d].drops
        /\ handover[d].cash <= float[d] + received[d] - dropped[d]
    BY DEF Pouches, Pouch
  <2>3. float[d] \in Nat /\ received[d] \in Nat /\ dropped[d] \in Nat
    BY DEF TypeOK
  <2> QED
    BY <2>1, <2>2, <2>3
<1> HIDE DEF all
<1>2. Sum(all, Dus) = Sum(sold, Dus) + Sum(named, Dus)
  <2> HIDE DEF sold
  <2> QED BY <1>1, SumPlus
<1>3. Sum(all, Dus) <= Sum(received, Dus)
  BY <1>1, SumAtMost
<1>4. CashSales = Sum(sold, Dus) + SoldBy(WithoutDrawer, "Cash")
  BY NobodyMissing DEF CashSales
<1>5. SoldBy(WithoutDrawer, "Cash") \in Nat
  BY SoldByType DEF TypeOK, WithoutDrawer, Methods
<1>6. Sum(sold, Dus) \in Int /\ Sum(named, Dus) \in Int /\ Sum(received, Dus) \in Int
  <2> HIDE DEF sold
  <2> QED BY <1>1, SumType
<1> HIDE DEF sold
<1> QED
  BY <1>2, <1>3, <1>4, <1>5, <1>6 DEF CashFromCustomers

LEMMA TotalsTypes ==
  TypeOK =>
    /\ CashFromCustomers \in Nat
    /\ CashSales \in Int
    /\ HandedOver = Dus =>
         /\ TerminalSales \in Int /\ CreditSales \in Nat /\ RowsOf("OMC") \in Nat
         /\ \A named \in [Dus -> Nat] : AttendantVariance(named) \in Int
<1> SUFFICES ASSUME TypeOK
             PROVE  /\ CashFromCustomers \in Nat /\ CashSales \in Int
                    /\ HandedOver = Dus =>
                         /\ TerminalSales \in Int /\ CreditSales \in Nat /\ RowsOf("OMC") \in Nat
                         /\ \A named \in [Dus -> Nat] : AttendantVariance(named) \in Int
  OBVIOUS
<1> USE FiniteRows
<1>1. /\ product \in [Sellers -> [Methods -> Nat]] /\ HandedOver \subseteq Dus
      /\ {a \in Sellers : ~Inside(a)} \subseteq Sellers /\ WithoutDrawer \subseteq Sellers
      /\ "Cash" \in Methods /\ "Card" \in Methods /\ "Credit" \in Methods
      /\ received \in [Dus -> Nat] /\ rows \in [Dus -> [Kinds -> Nat]]
  BY DEF TypeOK, HandedOver, WithoutDrawer, Methods
<1>2. CashFromCustomers \in Nat
  <2>1. Sum(received, Dus) \in Nat
    BY <1>1, SumNat
  <2>2. SoldBy(WithoutDrawer, "Cash") \in Nat
    BY <1>1, SoldByType
  <2> QED
    BY <2>1, <2>2 DEF CashFromCustomers
<1>3. CashSales \in Int
  <2> DEFINE sold == [d \in HandedOver |-> handover[d].cash - handover[d].float + handover[d].drops]
  <2>1. \A d \in HandedOver : sold[d] \in Int
    BY DeclaredTypes
  <2>2. Sum(sold, HandedOver) \in Int
    <3> HIDE DEF sold
    <3> QED BY <1>1, <2>1, SumType
  <2>3. SoldBy({a \in Sellers : ~Inside(a)}, "Cash") \in Nat
    BY <1>1, SoldByType
  <2> QED
    BY <2>2, <2>3 DEF CashSales
<1>4. ASSUME NEW k \in Kinds PROVE RowsOf(k) \in Nat
  <2>1. \A d \in Dus : [e \in Dus |-> rows[e][k]][d] \in Nat
    BY <1>1
  <2> QED
    BY <2>1, SumNat DEF RowsOf
<1>5. ASSUME HandedOver = Dus
      PROVE  /\ TerminalSales \in Int /\ CreditSales \in Nat /\ RowsOf("OMC") \in Nat
             /\ \A named \in [Dus -> Nat] : AttendantVariance(named) \in Int
  <2>1. \A d \in Dus : /\ [e \in Dus |-> handover[e].card][d] \in Nat
                       /\ [e \in Dus |-> handover[e].credit][d] \in Nat
    BY <1>5, DeclaredTypes
  <2>2. /\ Sum([d \in Dus |-> handover[d].card], Dus) \in Nat
        /\ Sum([d \in Dus |-> handover[d].credit], Dus) \in Nat
    BY <2>1, SumNat
  <2>3. /\ SoldBy({a \in Sellers : ~Inside(a)}, "Card") \in Nat
        /\ SoldBy(Sellers, "Credit") \in Nat
    BY <1>1, SoldByType
  <2>4. RowsOf("Credit") \in Nat /\ RowsOf("OMC") \in Nat
    BY <1>4 DEF Kinds
  <2>5. ASSUME NEW named \in [Dus -> Nat] PROVE AttendantVariance(named) \in Int
    <3>1. \A d \in Dus : [e \in Dus |-> handover[e].variance + named[e]][d] \in Int
      BY <1>5, DeclaredTypes
    <3> QED
      BY <3>1, SumType DEF AttendantVariance
  <2> QED
    BY <2>2, <2>3, <2>4, <2>5 DEF TerminalSales, CreditSales
<1> QED
  BY <1>2, <1>3, <1>5

LEMMA CustomersCash == TypeOK => CashFromCustomers \in Nat
BY TotalsTypes
LEMMA CustomersCashNext == TypeOK' => (CashFromCustomers \in Nat)'
BY CustomersCash, PTL

LEMMA EnteredCredit == TypeOK /\ HandedOver = Dus => CreditSales \in Nat /\ RowsOf("OMC") \in Nat
BY TotalsTypes

-----------------------------------------------------------------------------
LEMMA InitCash == Init => CashInv
<1> SUFFICES ASSUME Init PROVE CashInv
  OBVIOUS
<1> USE DrawerAssumption
<1>1. DrawerInv
  BY InitDrawers
<1>2. TypeOK
  BY DEF Init, TypeOK
<1>3. HandedOver = {}
  BY DEF Init, HandedOver
<1>4. Pouches
  <2>1. \A d \in Dus : holder[d] \in Sellers
    BY <1>2 DEF TypeOK, Sellers
  <2> QED
    BY <1>3, <2>1 DEF Init, Pouches, MerchandiseCash, Methods
<1>5. Frozen /\ Figures /\ Reported
  BY <1>3 DEF Init, Frozen, Figures, Reported
<1>6. posted <= CashFromCustomers
  BY <1>2, TotalsTypes DEF Init
<1> QED
  BY <1>1, <1>2, <1>4, <1>5, <1>6 DEF CashInv

(* While the Shift is open there are no figures to be wrong about.          *)
LEMMA OpenShift ==
  ASSUME CashInv, DrawerInv', TypeOK', Pouches', Frozen',
         status = "OPEN", status' = status, summary' = summary, posted' = posted
  PROVE  CashInv'
<1>1. summary' = NoSummary /\ posted' = 0
  BY DEF CashInv, Figures
<1>2. Figures' /\ Reported'
  BY <1>1 DEF Figures, Reported
<1>3. posted' <= CashFromCustomers'
  BY <1>1, CustomersCashNext
<1> QED
  BY <1>2, <1>3 DEF CashInv

LEMMA FuelLeavesPouches ==
  ASSUME CashInv, NEW d \in Dus, NEW pay \in {"Cash", "Card"} \cup Kinds, SellFuel(d, pay)
  PROVE  CashInv'
<1> USE DEF SellFuel, shiftVars, rowVars
<1>1. DrawerInv'
  BY FuelIsPaid DEF CashInv
<1>2. TypeOK'
  <2>1. TypeOK
    BY DEF CashInv
  <2>2. /\ pumped' \in [Dus -> Nat] /\ received' \in [Dus -> Nat] /\ slips' \in [Dus -> Nat]
    BY <2>1 DEF TypeOK
  <2>3. chits' \in [Dus -> [Kinds -> Nat]]
    <3>1. chits \in [Dus -> [Kinds -> Nat]]
      BY <2>1 DEF TypeOK
    <3>2. CASE pay \in Kinds
      <4>1. [chits[d] EXCEPT ![pay] = chits[d][pay] + 1] \in [Kinds -> Nat]
        BY <3>1, <3>2
      <4> QED
        BY <3>1, <3>2, <4>1
    <3> QED
      BY <3>1, <3>2
  <2> QED
    BY <2>1, <2>2, <2>3 DEF TypeOK
<1>3. Pouches' /\ Frozen'
  <2>1. HandedOver' = HandedOver
    BY DEF HandedOver
  <2>2. \A e \in Dus : /\ received[e] \in Nat /\ received'[e] \in Nat /\ received[e] <= received'[e]
                       /\ float[e] \in Nat /\ dropped[e] \in Nat
    BY DEF CashInv, TypeOK
  <2>3. \A e \in Dus : MerchandiseCash(e)' = MerchandiseCash(e) /\ MerchandiseCash(e) \in Nat
    BY ProductsCounted DEF MerchandiseCash, CountsProducts, CashInv
  <2>4. \A e \in HandedOver : e \in Dus /\ handover[e].cash \in Nat
    BY DeclaredTypes DEF CashInv
  <2>5. Pouches'
    <3>1. \A e \in Dus : MerchandiseCash(e)' <= received'[e]
      BY <2>2, <2>3 DEF Pouches, CashInv
    <3>2. \A e \in HandedOver : handover[e].cash <= float[e] + received'[e] - dropped[e]
      BY <2>2, <2>4 DEF Pouches, Pouch, CashInv
    <3> QED
      BY <2>1, <3>1, <3>2 DEF Pouches, Pouch, CashInv
  <2>6. Frozen'
    BY <2>1, <2>3, <2>4 DEF Frozen, Outdated, CashInv
  <2> QED
    BY <2>5, <2>6
<1> QED
  BY <1>1, <1>2, <1>3, OpenShift

LEMMA ProductsFillPouches ==
  ASSUME CashInv, NEW a \in Sellers, NEW method \in Methods, SellProduct(a, method)
  PROVE  CashInv'
<1> USE DEF SellProduct, shiftVars
<1> DEFINE Mine(e) == holder[e] = a /\ CountsProducts(e)
<1>1. DrawerInv'
  BY ProductsArePaid DEF CashInv
<1>2. TypeOK'
  <2>1. TypeOK
    BY DEF CashInv
  <2>2. product' \in [Sellers -> [Methods -> Nat]]
    <3>1. product \in [Sellers -> [Methods -> Nat]]
      BY <2>1 DEF TypeOK
    <3>2. [product[a] EXCEPT ![method] = product[a][method] + 1] \in [Methods -> Nat]
      BY <3>1
    <3> QED
      BY <3>1, <3>2
  <2>3. received' \in [Dus -> Nat] /\ slips' \in [Dus -> Nat]
    BY <2>1 DEF TypeOK
  <2>4. stale' \subseteq Dus
    BY <2>1 DEF TypeOK
  <2> QED
    BY <2>1, <2>2, <2>3, <2>4 DEF TypeOK
<1>3. HandedOver' = HandedOver
  BY DEF HandedOver
<1>4. ASSUME NEW e \in Dus
      PROVE  /\ MerchandiseCash(e)' = MerchandiseCash(e) + IF Mine(e) /\ method = "Cash" THEN 1 ELSE 0
             /\ received'[e] = received[e] + IF Mine(e) /\ method = "Cash" THEN 1 ELSE 0
             /\ received[e] \in Nat /\ MerchandiseCash(e) \in Nat
             /\ float[e] \in Nat /\ dropped[e] \in Nat
  <2>1. CountsProducts(e)' = CountsProducts(e)
    BY DEF CountsProducts
  <2>2. holder[e] \in Sellers /\ product \in [Sellers -> [Methods -> Nat]]
    BY DEF CashInv, TypeOK, Sellers
  <2>3. MerchandiseCash(e)' = MerchandiseCash(e) + IF Mine(e) /\ method = "Cash" THEN 1 ELSE 0
    BY <2>1, <2>2 DEF MerchandiseCash, Methods
  <2> QED
    BY <2>3, ProductsCounted DEF CashInv, TypeOK
<1>5. Pouches'
  <2>1. \A e \in Dus : MerchandiseCash(e)' <= received'[e]
    BY <1>4 DEF Pouches, CashInv
  <2>2. \A e \in HandedOver : handover[e].cash <= float[e] + received'[e] - dropped[e]
    <3>1. \A e \in HandedOver : e \in Dus /\ handover[e].cash \in Nat
      BY DeclaredTypes DEF CashInv
    <3>2. \A e \in HandedOver : handover[e].cash <= float[e] + received[e] - dropped[e]
      BY DEF Pouches, Pouch, CashInv
    <3>3. \A e \in Dus : received[e] <= received'[e] /\ received'[e] \in Nat
      BY <1>4
    <3> QED
      BY <1>4, <3>1, <3>2, <3>3
  <2> QED
    BY <1>3, <2>1, <2>2 DEF Pouches, Pouch, CashInv
<1>6. Frozen'
  <2>1. \A e \in HandedOver \ stale' : e \in Dus /\ e \notin stale /\ ~Mine(e)
    BY DEF HandedOver
  <2>2. \A e \in HandedOver \ stale' : MerchandiseCash(e)' = MerchandiseCash(e)
    BY <1>4, <2>1
  <2> QED
    BY <1>3, <2>1, <2>2 DEF Frozen, Outdated, CashInv
<1> QED
  BY <1>1, <1>2, <1>5, <1>6, OpenShift

(* A row comes or goes: the Drawer is stale if it was handed over.          *)
LEMMA RowsLeavePouches ==
  ASSUME CashInv, NEW d \in Dus, NEW k \in Kinds,
         \/ /\ chits[d][k] > 0
            /\ rows' = [rows EXCEPT ![d][k] = @ + 1]
            /\ chits' = [chits EXCEPT ![d][k] = @ - 1]
         \/ /\ rows[d][k] > 0
            /\ rows' = [rows EXCEPT ![d][k] = @ - 1]
            /\ chits' = [chits EXCEPT ![d][k] = @ + 1],
         stale' = stale \cup ({d} \cap HandedOver),
         UNCHANGED <<holder, float, moneyVars, metered, product, handover, missing>>
  PROVE  /\ Pouches' /\ Frozen' /\ HandedOver' = HandedOver /\ stale' \subseteq Dus
         /\ rows' \in [Dus -> [Kinds -> Nat]] /\ chits' \in [Dus -> [Kinds -> Nat]]
<1> USE DEF moneyVars
<1>1. HandedOver' = HandedOver /\ stale' \subseteq Dus
  BY DEF HandedOver, CashInv, TypeOK
<1>2. \A e \in Dus : MerchandiseCash(e)' = MerchandiseCash(e)
  BY DEF MerchandiseCash, CountsProducts
<1>3. Pouches'
  BY <1>1, <1>2 DEF Pouches, Pouch, CashInv
<1>4. rows \in [Dus -> [Kinds -> Nat]] /\ chits \in [Dus -> [Kinds -> Nat]]
  BY DEF CashInv, TypeOK
<1>5. rows' \in [Dus -> [Kinds -> Nat]] /\ chits' \in [Dus -> [Kinds -> Nat]]
  <2>1. \E n \in {1, -1} :
          /\ rows' = [rows EXCEPT ![d] = [rows[d] EXCEPT ![k] = rows[d][k] + n]]
          /\ chits' = [chits EXCEPT ![d] = [chits[d] EXCEPT ![k] = chits[d][k] - n]]
          /\ rows[d][k] + n \in Nat /\ chits[d][k] - n \in Nat
    <3>1. rows[d][k] \in Nat /\ chits[d][k] \in Nat
      BY <1>4
    <3>2. CASE /\ chits[d][k] > 0
               /\ rows' = [rows EXCEPT ![d][k] = @ + 1]
               /\ chits' = [chits EXCEPT ![d][k] = @ - 1]
      BY <3>1, <3>2
    <3>3. CASE /\ rows[d][k] > 0
               /\ rows' = [rows EXCEPT ![d][k] = @ - 1]
               /\ chits' = [chits EXCEPT ![d][k] = @ + 1]
      <4>1. rows[d][k] - 1 = rows[d][k] + (-1) /\ chits[d][k] + 1 = chits[d][k] - (-1)
        BY <3>1
      <4>2. rows[d][k] + (-1) \in Nat /\ chits[d][k] - (-1) \in Nat
        BY <3>1, <3>3
      <4> QED
        BY <3>3, <4>1, <4>2
    <3> QED
      BY <3>2, <3>3
  <2>2. PICK n \in {1, -1} :
          /\ rows' = [rows EXCEPT ![d] = [rows[d] EXCEPT ![k] = rows[d][k] + n]]
          /\ chits' = [chits EXCEPT ![d] = [chits[d] EXCEPT ![k] = chits[d][k] - n]]
          /\ rows[d][k] + n \in Nat /\ chits[d][k] - n \in Nat
    BY <2>1
  <2>3. /\ [rows[d] EXCEPT ![k] = rows[d][k] + n] \in [Kinds -> Nat]
        /\ [chits[d] EXCEPT ![k] = chits[d][k] - n] \in [Kinds -> Nat]
    BY <1>4, <2>2
  <2> QED
    BY <1>4, <2>2, <2>3
<1>6. Frozen'
  <2>1. \A e \in HandedOver \ stale' : e \in Dus /\ e # d /\ e \notin stale
    BY DEF HandedOver
  <2>2. \A e \in Dus \ {d} : rows'[e] = rows[e]
    BY <1>4
  <2> QED
    BY <1>1, <1>2, <2>1, <2>2 DEF Frozen, Outdated, CashInv
<1> QED
  BY <1>1, <1>3, <1>5, <1>6

(* On a closed Shift every Drawer is handed over, so that a late row makes  *)
(* one of them stale.                                                      *)
LEMMA LateRowsAreStale ==
  ASSUME CashInv, NEW d \in Dus, NEW k \in Kinds, RecordRow(d, k)
  PROVE  CashInv'
<1> USE DEF RecordRow
<1>1. DrawerInv'
  BY StepDrawers DEF CashInv, Next
<1>2. /\ Pouches' /\ Frozen' /\ HandedOver' = HandedOver /\ stale' \subseteq Dus
      /\ rows' \in [Dus -> [Kinds -> Nat]] /\ chits' \in [Dus -> [Kinds -> Nat]]
  BY RowsLeavePouches
<1>3. CASE status = "OPEN"
  <2>1. TypeOK'
    BY <1>2, <1>3 DEF CashInv, TypeOK, moneyVars
  <2> QED
    BY <1>1, <1>2, <1>3, <2>1, OpenShift
<1>4. CASE status = "CLOSED"
  <2>1. HandedOver = Dus /\ summary \in Summaries /\ summary.office = 0
    BY <1>4 DEF CashInv, Figures, DrawerInv, Repeated
  <2>2. summary' = [summary EXCEPT !.credit = CreditSales', !.omc = RowsOf("OMC")']
    BY <1>4
  <2>3. CreditSales' \in Nat /\ RowsOf("OMC")' \in Nat
    <3>1. /\ \A e \in Dus : [c \in Dus |-> handover[c].credit][e] \in Nat
          /\ handover' = handover /\ product' = product
      BY <2>1, DeclaredTypes DEF CashInv
    <3>2. Sum([e \in Dus |-> handover[e].credit], Dus) \in Nat
      BY <3>1, FiniteRows, SumNat
    <3>3. SoldBy(Sellers, "Credit")' = SoldBy(Sellers, "Credit") /\ SoldBy(Sellers, "Credit") \in Nat
      BY SoldByType DEF SoldBy, CashInv, TypeOK, Methods
    <3>4. ASSUME NEW j \in Kinds PROVE RowsOf(j)' \in Nat
      <4>1. \A e \in Dus : [c \in Dus |-> rows'[c][j]][e] \in Nat
        BY <1>2
      <4> QED
        BY <4>1, FiniteRows, SumNat DEF RowsOf
    <3>5. RowsOf("Credit")' \in Nat /\ RowsOf("OMC")' \in Nat
      BY <3>4 DEF Kinds
    <3> QED
      BY <3>1, <3>2, <3>3, <3>5 DEF CreditSales
  <2>4. summary' \in Summaries /\ summary'.office = summary.office
    BY <2>1, <2>2, <2>3 DEF Summaries
  <2>5. TypeOK'
    BY <1>2, <2>4 DEF CashInv, TypeOK, moneyVars
  <2>6. Figures'
    BY <1>4, <2>1, <2>4 DEF Figures
  <2>7. Reported'
    <3>1. /\ CashSales' = CashSales /\ TerminalSales' = TerminalSales
          /\ AttendantVariance(summary.named)' = AttendantVariance(summary'.named)
          /\ ProductTotal' = ProductTotal
      BY <1>2, <2>1, <2>2 DEF CashSales, TerminalSales, AttendantVariance, ProductTotal, SoldBy,
                              Inside, Summaries
    <3>2. /\ summary'.cash = summary.cash /\ summary'.card = summary.card
          /\ summary'.credit = CreditSales' /\ summary'.omc = RowsOf("OMC")'
          /\ summary'.named = summary.named /\ summary'.variance = summary.variance
          /\ summary'.total = summary.total
      BY <2>1, <2>2 DEF Summaries
    <3> QED
      BY <1>4, <3>1, <3>2 DEF Reported, CashInv
  <2>8. posted' <= CashFromCustomers'
    <3>1. CashFromCustomers' = CashFromCustomers
      BY DEF CashFromCustomers, SoldBy, WithoutDrawer, moneyVars
    <3> QED
      BY <3>1 DEF CashInv
  <2> QED
    BY <1>1, <1>2, <2>5, <2>6, <2>7, <2>8 DEF CashInv
<1> QED
  BY <1>3, <1>4 DEF CashInv, TypeOK

(* A handover judges its Drawer by the rows of its moment.                  *)
LEMMA HandoversFreeze ==
  ASSUME CashInv, NEW d \in Dus, NEW cash, NEW drops, RecordHandover(d, cash, drops)
  PROVE  CashInv'
<1> USE DEF RecordHandover, shiftVars, moneyVars
<1>0. /\ TypeOK /\ dropped[d] \in Nat /\ slips[d] \in Nat /\ float[d] \in Nat
      /\ pumped[d] \in Nat /\ rows[d]["Credit"] \in Nat /\ rows[d]["OMC"] \in Nat
      /\ chits[d]["Credit"] \in Nat /\ chits[d]["OMC"] \in Nat /\ received[d] \in Nat
  BY DEF CashInv, TypeOK, Kinds
<1>1. /\ cash \in Nat /\ cash <= Pouch(d) /\ drops \in Nat /\ drops <= dropped[d]
      /\ Pouch(d) \in Int
  BY <1>0 DEF Pouch
<1>2. DrawerInv'
  <2>1. DrawerInv /\ cash \in Int /\ drops \in Int
    BY <1>1 DEF CashInv
  <2> HIDE DEF RecordHandover
  <2> QED
    BY <2>1, HandoversJudge
<1>3. \A e \in Dus : MerchandiseCash(e)' = MerchandiseCash(e) /\ MerchandiseCash(e) \in Nat
  BY <1>0, ProductsCounted DEF MerchandiseCash, CountsProducts
<1> DEFINE expected == ExpectedCash(d, slips[d], drops)
           row == [cash |-> cash, card |-> slips[d], credit |-> rows[d]["Credit"],
                   float |-> float[d], drops |-> drops, expected |-> expected,
                   variance |-> cash - expected]
<1>4. expected \in Int
  BY <1>0, <1>1, <1>3 DEF ExpectedCash
<1>5. row \in Handovers
  <2> HIDE DEF expected
  <2> QED BY <1>0, <1>1, <1>4 DEF Handovers
<1>6. handover' = [handover EXCEPT ![d] = row] /\ handover'[d] = row
  BY <1>0 DEF TypeOK
<1>7. missing'[d] \in Nat /\ missing' \in [Dus -> Nat]
  <2>1. (Pouch(d) - cash) + (dropped[d] - drops) + chits[d]["Credit"] + chits[d]["OMC"] \in Nat
    BY <1>0, <1>1
  <2> QED
    BY <1>0, <2>1 DEF TypeOK
<1>8. TypeOK'
  <2>1. handover' \in [Dus -> Handovers \cup {NoHandover}]
    <3> HIDE DEF row
    <3> QED BY <1>0, <1>5, <1>6 DEF TypeOK
  <2>2. metered' \in [Dus -> Nat] /\ stale' \subseteq Dus
    BY <1>0 DEF TypeOK
  <2> QED
    BY <1>0, <1>7, <2>1, <2>2 DEF TypeOK
<1>9. \A e \in HandedOver' : e = d \/ (e \in HandedOver /\ handover'[e] = handover[e])
  BY <1>0 DEF HandedOver, TypeOK
<1>10. /\ handover'[d].cash = cash /\ handover'[d].card = slips[d]
       /\ handover'[d].credit = rows[d]["Credit"] /\ handover'[d].float = float[d]
       /\ handover'[d].drops = drops /\ handover'[d].variance = cash - expected
       /\ handover'[d].expected = expected
  <2> HIDE DEF expected
  <2> QED BY <1>6
<1>11. Pouches'
  <2>1. \A e \in HandedOver' : /\ handover'[e].float = float[e]
                               /\ handover'[e].cash <= Pouch(e) /\ handover'[e].drops <= dropped[e]
    <3> HIDE DEF RecordHandover, row
    <3> QED BY <1>1, <1>9, <1>10 DEF Pouches, CashInv
  <2>2. \A e \in Dus : Pouch(e)' = Pouch(e)
    BY DEF Pouch
  <2>3. HandedOver' \subseteq Dus
    BY DEF HandedOver
  <2>4. \A e \in Dus : MerchandiseCash(e)' <= received'[e]
    BY <1>3 DEF Pouches, CashInv
  <2> QED
    BY <2>1, <2>2, <2>3, <2>4 DEF Pouches
<1>12. Frozen'
  <2> SUFFICES ASSUME NEW e \in HandedOver'
               PROVE  /\ handover'[e].variance = handover'[e].cash - handover'[e].expected
                      /\ e \notin stale' => Outdated(e)' = 0
    BY DEF Frozen
  <2>1. CASE e = d
    <3>1. metered'[d] = pumped[d] /\ rows' = rows /\ MerchandiseCash(d)' = MerchandiseCash(d)
      BY <1>0, <1>3 DEF TypeOK
    <3>2. Outdated(d)' = expected - (float[d] + pumped[d] + MerchandiseCash(d) - slips[d]
                                       - rows[d]["Credit"] - rows[d]["OMC"] - drops)
      <4> HIDE DEF expected, row
      <4> QED BY <1>10, <3>1 DEF Outdated
    <3>3. Outdated(d)' = expected - expected
      BY <3>2 DEF ExpectedCash
    <3> HIDE DEF RecordHandover, expected, row
    <3> QED
      BY <1>4, <1>10, <2>1, <3>3
  <2>2. CASE e # d
    <3>1. e \in Dus /\ e \in HandedOver /\ handover'[e] = handover[e]
      BY <1>9, <2>2 DEF HandedOver
    <3>2. metered'[e] = metered[e] /\ (e \notin stale' => e \notin stale)
      BY <1>0, <2>2, <3>1 DEF TypeOK
    <3> QED
      BY <1>3, <3>1, <3>2 DEF Frozen, Outdated, CashInv
  <2> QED
    BY <2>1, <2>2
<1> QED
  BY <1>2, <1>8, <1>11, <1>12, OpenShift

(* The close, where all figures are made                                   *)
LEMMA ClosesAddUp ==
  ASSUME CashInv, NEW named \in [Dus -> 0 .. MaxDrops], NEW unassigned \in 0 .. 1,
         NEW corrected \in {{}, Dus}, CloseShift(named, unassigned, corrected)
  PROVE  CashInv'
<1> USE DEF CloseShift, moneyVars
<1> DEFINE fuel == [d \in Dus |-> IF d \in corrected THEN pumped[d] ELSE metered[d]]
           drawers == [d \in Dus |-> handover[d].variance + named[d]]
           cash == CashSales + Sum(named, Dus)
           office == (OfficeCash - unassigned) - ExpectedOfficeCash(unassigned, named)
           total == Sum(fuel, Dus) + ProductTotal
<1>1. DrawerInv'
  BY ClosesRepeat DEF CashInv
<1>2. TypeOK /\ Pouches /\ Frozen /\ HandedOver = Dus
  BY DEF CashInv
<1>3. named \in [Dus -> Nat] /\ unassigned \in Int
  BY DrawerAssumption
<1>4. HandedOver' = HandedOver
  BY DEF HandedOver
<1>5. fuel \in [Dus -> Nat] /\ metered' = fuel
  BY <1>2 DEF TypeOK
<1>6. summary' =
        [cash |-> cash, card |-> TerminalSales, credit |-> CreditSales, omc |-> RowsOf("OMC"),
         named |-> named, drawers |-> drawers, variance |-> AttendantVariance(named),
         office |-> office, total |-> total]
  OBVIOUS
<1>7. office = 0
  <2>1. \A d \in Dus : handover[d].float = float[d]
    BY <1>2 DEF Pouches
  <2>2. ExpectedOfficeCash(unassigned, named) = OfficeCash - unassigned /\ OfficeCash \in Int
    BY <1>2, <1>3, <2>1, OfficeExpectsThePouches
  <2> QED
    BY <1>3, <2>2
<1>8. /\ cash \in Int /\ TerminalSales \in Int /\ CreditSales \in Nat /\ RowsOf("OMC") \in Nat
      /\ AttendantVariance(named) \in Int /\ drawers \in [Dus -> Int] /\ total \in Nat
      /\ ProductTotal \in Nat
  <2>1. \A d \in Dus : named[d] \in Nat /\ fuel[d] \in Nat
    BY <1>3, <1>5
  <2>2. Sum(named, Dus) \in Nat /\ Sum(fuel, Dus) \in Nat
    <3> HIDE DEF fuel
    <3> QED BY <2>1, FiniteRows, SumNat
  <2>3. ProductTotal \in Nat
    <3>1. product \in [Sellers -> [Methods -> Nat]]
      BY <1>2 DEF TypeOK
    <3>2. /\ SoldBy(Sellers, "Cash") \in Nat /\ SoldBy(Sellers, "Card") \in Nat
          /\ SoldBy(Sellers, "Credit") \in Nat
      BY <3>1, SoldByType DEF Methods
    <3> QED
      BY <3>1, <3>2, ProductTotalIs
  <2>4. drawers \in [Dus -> Int]
    BY <1>2, <2>1, DeclaredTypes
  <2> HIDE DEF fuel, drawers
  <2> QED
    BY <1>2, <1>3, <2>2, <2>3, <2>4, TotalsTypes
<1>9. summary' \in Summaries /\ summary'.office = 0
  <2> HIDE DEF CloseShift, cash, drawers, office, total
  <2> QED BY <1>3, <1>6, <1>7, <1>8 DEF Summaries
<1>10. TypeOK'
  <2>1. posted' \in Int
    <3>1. posted' = cash
      OBVIOUS
    <3> HIDE DEF CloseShift, cash
    <3> QED BY <1>8, <3>1
  <2>2. stale' \subseteq Dus
    BY <1>2 DEF TypeOK
  <2> HIDE DEF fuel
  <2> QED BY <1>2, <1>5, <1>9, <2>1, <2>2 DEF TypeOK
<1>11. \A d \in Dus : MerchandiseCash(d)' = MerchandiseCash(d) /\ OnOwnTerminal(d)' = OnOwnTerminal(d)
  BY DEF MerchandiseCash, OnOwnTerminal, CountsProducts
<1>12. Pouches'
  BY <1>2, <1>4, <1>11 DEF Pouches, Pouch
<1>13. Frozen'
  <2>1. \A d \in Dus \ stale' : metered'[d] = metered[d] /\ d \notin stale
    BY <1>5
  <2> QED
    BY <1>2, <1>4, <1>11, <2>1 DEF Frozen, Outdated
<1>14. Figures'
  BY <1>9 DEF Figures
<1>15. Reported'
  <2>1. /\ summary'.cash = cash /\ summary'.card = TerminalSales /\ summary'.credit = CreditSales
        /\ summary'.omc = RowsOf("OMC") /\ summary'.variance = AttendantVariance(named)
        /\ summary'.total = total /\ summary'.named = named
    <3> HIDE DEF CloseShift, cash, drawers, office, total
    <3> QED BY <1>6
  <2>2. /\ CashSales' = CashSales /\ TerminalSales' = TerminalSales
        /\ CreditSales' = CreditSales /\ RowsOf("OMC")' = RowsOf("OMC")
        /\ AttendantVariance(summary.named)' = AttendantVariance(summary'.named)
        /\ ProductTotal' = ProductTotal
    BY <1>4 DEF CashSales, TerminalSales, CreditSales, RowsOf, AttendantVariance, ProductTotal,
                SoldBy, Inside
  <2>3. metered' = fuel
    OBVIOUS
  <2> HIDE DEF CloseShift, fuel, drawers, office
  <2> QED
    BY <2>1, <2>2, <2>3 DEF Reported
<1>16. posted' <= CashFromCustomers'
  <2>1. CashFromCustomers' = CashFromCustomers
    BY DEF CashFromCustomers, SoldBy, WithoutDrawer
  <2>2. posted' = CashSales + Sum(named, Dus)
    OBVIOUS
  <2>3. \A d \in Dus : named[d] <= dropped[d] - handover[d].drops
    OBVIOUS
  <2> QED
    BY <1>2, <1>3, <2>1, <2>2, <2>3, PostingComesFromCustomers
<1> QED
  BY <1>1, <1>10, <1>12, <1>13, <1>14, <1>15, <1>16 DEF CashInv

LEMMA StepCash == CashInv /\ [Next]_vars => CashInv'
<1> SUFFICES ASSUME CashInv, [Next]_vars PROVE CashInv'
  OBVIOUS
<1>0. DrawerInv'
  BY StepDrawers DEF CashInv
<1>1. ASSUME NEW d \in Dus, NEW pay \in {"Cash", "Card"} \cup Kinds, SellFuel(d, pay)
      PROVE  CashInv'
  BY <1>1, FuelLeavesPouches
<1>2. ASSUME NEW d \in Dus, DropCash(d) PROVE CashInv'
  <2> USE <1>2 DEF DropCash, shiftVars, rowVars
  <2>1. HandedOver' = HandedOver
    BY DEF HandedOver
  <2>2. TypeOK'
    BY DEF CashInv, TypeOK
  <2>3. \A e \in Dus : MerchandiseCash(e)' = MerchandiseCash(e)
    BY DEF MerchandiseCash, CountsProducts
  <2>4. /\ \A e \in Dus : received[e] \in Nat /\ float[e] \in Nat /\ dropped[e] \in Nat
        /\ \A e \in Dus : dropped'[e] = IF e = d THEN dropped[e] + 1 ELSE dropped[e]
    BY DEF CashInv, TypeOK
  <2>5. ASSUME NEW e \in HandedOver
        PROVE  /\ handover[e].cash <= float[e] + received[e] - dropped'[e]
               /\ handover[e].drops <= dropped'[e]
    <3>1. /\ e \in Dus /\ handover[e].cash \in Nat /\ handover[e].drops \in Nat
      BY DeclaredTypes DEF CashInv
    <3>2. /\ handover[e].cash <= float[e] + received[e] - dropped[e]
          /\ handover[e].drops <= dropped[e]
      BY DEF CashInv, Pouches, Pouch
    <3>3. e = d => (float[e] + received[e] - dropped[e]) - handover[e].cash > 0
      BY DEF InHand, Pouch
    <3> QED
      BY <2>4, <3>1, <3>2, <3>3
  <2>6. Pouches'
    BY <2>1, <2>3, <2>5 DEF Pouches, Pouch, CashInv
  <2>7. Frozen'
    <3>1. HandedOver \subseteq Dus
      BY DEF HandedOver
    <3> QED
      BY <2>1, <2>3, <3>1 DEF Frozen, Outdated, CashInv
  <2> QED
    BY <1>0, <2>2, <2>6, <2>7, OpenShift
<1>3. ASSUME NEW a \in Sellers, NEW method \in Methods, SellProduct(a, method)
      PROVE  CashInv'
  BY <1>3, ProductsFillPouches
<1>4. ASSUME NEW d \in Dus, NEW k \in Kinds, RecordRow(d, k) PROVE CashInv'
  BY <1>4, LateRowsAreStale
<1>5. ASSUME NEW d \in Dus, NEW k \in Kinds, VoidRow(d, k) PROVE CashInv'
  <2> USE <1>5 DEF VoidRow, shiftVars
  <2>1. /\ Pouches' /\ Frozen' /\ stale' \subseteq Dus
        /\ rows' \in [Dus -> [Kinds -> Nat]] /\ chits' \in [Dus -> [Kinds -> Nat]]
    BY RowsLeavePouches
  <2>2. TypeOK'
    BY <2>1 DEF CashInv, TypeOK, moneyVars
  <2> QED
    BY <1>0, <2>1, <2>2, OpenShift
<1>6. ASSUME NEW d \in Dus, NEW cash, NEW drops, RecordHandover(d, cash, drops)
      PROVE  CashInv'
  BY <1>6, HandoversFreeze
<1>7. ASSUME NEW named \in [Dus -> 0 .. MaxDrops], NEW unassigned \in 0 .. 1,
             NEW corrected \in {{}, Dus}, CloseShift(named, unassigned, corrected)
      PROVE  CashInv'
  BY <1>7, ClosesAddUp
<1>8. CASE ReopenShift
  <2> USE <1>8 DEF ReopenShift, moneyVars, rowVars
  <2>1. HandedOver' = HandedOver
    BY DEF HandedOver
  <2>2. TypeOK'
    BY DEF CashInv, TypeOK
  <2>3. \A e \in Dus : MerchandiseCash(e)' = MerchandiseCash(e)
    BY DEF MerchandiseCash, CountsProducts
  <2>4. HandedOver \subseteq Dus
    BY DEF HandedOver
  <2>5. Pouches' /\ Frozen'
    BY <2>1, <2>3, <2>4 DEF Pouches, Pouch, Frozen, Outdated, CashInv
  <2>6. Figures' /\ Reported'
    BY DEF Figures, Reported
  <2>7. posted' <= CashFromCustomers'
    BY <2>2, CustomersCashNext
  <2> QED
    BY <1>0, <2>2, <2>5, <2>6, <2>7 DEF CashInv
<1>9. CASE UNCHANGED vars
  <2> USE <1>9 DEF vars, shiftVars, moneyVars, rowVars
  <2>1. HandedOver' = HandedOver
    BY DEF HandedOver
  <2>2. TypeOK'
    BY DEF CashInv, TypeOK
  <2>3. \A e \in Dus : /\ MerchandiseCash(e)' = MerchandiseCash(e)
                       /\ OnOwnTerminal(e)' = OnOwnTerminal(e)
    BY DEF MerchandiseCash, OnOwnTerminal, CountsProducts
  <2>4. HandedOver \subseteq Dus
    BY DEF HandedOver
  <2>5. Pouches' /\ Frozen'
    BY <2>1, <2>3, <2>4 DEF Pouches, Pouch, Frozen, Outdated, CashInv
  <2>6. Figures'
    BY DEF Figures, CashInv
  <2>7. Reported'
    BY <2>1 DEF Reported, CashInv, CashSales, TerminalSales, CreditSales, RowsOf,
                AttendantVariance, ProductTotal, SoldBy, Inside
  <2>8. CashFromCustomers' = CashFromCustomers
    BY DEF CashFromCustomers, SoldBy, WithoutDrawer
  <2> QED
    BY <1>0, <2>2, <2>5, <2>6, <2>7, <2>8 DEF CashInv
<1> QED
  BY <1>1, <1>2, <1>3, <1>4, <1>5, <1>6, <1>7, <1>8, <1>9 DEF Next

(* The types of the money variables, at every step.                        *)
THEOREM DrawerTypes == Spec => []TypeOK
BY InitCash, StepCash, PTL DEF Spec, CashInv

LEMMA SplitTypes ==
  ASSUME TypeOK, HandedOver = Dus
  PROVE  /\ Sum([d \in Dus |-> OnOwnTerminal(d)], Dus) \in Int
         /\ Sum([d \in Dus |-> Outdated(d)], Dus) \in Int
         /\ VoidedCredit \in Int /\ Sum(metered, Dus) \in Int /\ ProductTotal \in Int
<1> USE FiniteRows
<1>1. \A d \in Dus : Outdated(d) \in Int /\ OnOwnTerminal(d) \in Int /\ metered[d] \in Int
  <2> SUFFICES ASSUME NEW d \in Dus
               PROVE  Outdated(d) \in Int /\ OnOwnTerminal(d) \in Int /\ metered[d] \in Int
    OBVIOUS
  <2>1. /\ handover[d].card \in Nat /\ handover[d].drops \in Nat /\ handover[d].expected \in Int
    BY DeclaredTypes
  <2>2. MerchandiseCash(d) \in Nat /\ OnOwnTerminal(d) \in Nat
    BY ProductsCounted
  <2>3. /\ float[d] \in Nat /\ metered[d] \in Nat
        /\ rows[d]["Credit"] \in Nat /\ rows[d]["OMC"] \in Nat
    BY DEF TypeOK, Kinds
  <2> QED
    BY <2>1, <2>2, <2>3 DEF Outdated
<1>2. VoidedCredit \in Int
  <2>1. \A d \in Dus : [e \in Dus |-> handover[e].credit][d] \in Int
    BY DeclaredTypes
  <2>2. Sum([d \in Dus |-> handover[d].credit], Dus) \in Int
    BY <2>1, SumType
  <2> QED
    BY <2>2 DEF VoidedCredit
<1>3. ProductTotal \in Int
  <2>1. product \in [Sellers -> [Methods -> Nat]]
    BY DEF TypeOK
  <2>2. /\ SoldBy(Sellers, "Cash") \in Nat /\ SoldBy(Sellers, "Card") \in Nat
        /\ SoldBy(Sellers, "Credit") \in Nat
    BY <2>1, SoldByType DEF Methods
  <2> QED
    BY <2>1, <2>2, ProductTotalIs
<1>4. /\ \A d \in Dus : [e \in Dus |-> Outdated(e)][d] \in Int
      /\ \A d \in Dus : [e \in Dus |-> OnOwnTerminal(e)][d] \in Int
  BY <1>1
<1>5. /\ Sum([d \in Dus |-> OnOwnTerminal(d)], Dus) \in Int
      /\ Sum([d \in Dus |-> Outdated(d)], Dus) \in Int /\ Sum(metered, Dus) \in Int
  BY <1>1, <1>4, SumType
<1> QED
  BY <1>2, <1>3, <1>5

(* composeShiftPayments: the split misses the total sales by the sales on   *)
(* the Attendants' own terminals, by what stale Drawers are out of date by  *)
(* and by voided credit, and by nothing else, for any number of DUs,        *)
(* Attendants and rupees, before and after late rows and reopenings.        *)
THEOREM BucketsAccountedFor == Spec => []SplitAccountedFor
<1>1. ASSUME CashInv PROVE SplitAccountedFor
  <2>1. TypeOK /\ Pouches /\ Frozen /\ Reported
    BY <1>1 DEF CashInv
  <2>2. \A d \in HandedOver \ stale : Outdated(d) = 0
    BY <2>1 DEF Frozen
  <2>3. ASSUME summary # NoSummary
        PROVE  Split = summary.total - Sum([d \in Dus |-> OnOwnTerminal(d)], Dus)
                         + Sum([d \in Dus |-> Outdated(d)], Dus) + VoidedCredit
    <3>1. status = "CLOSED" /\ HandedOver = Dus /\ summary \in Summaries
      BY <1>1, <2>3 DEF CashInv, DrawerInv, Repeated, TypeOK
    <3>2. summary.named \in [Dus -> Nat]
      BY <3>1 DEF Summaries
    <3>3. (CashSales + Sum(summary.named, Dus)) + TerminalSales + CreditSales + RowsOf("OMC")
             - AttendantVariance(summary.named)
           = Sum(metered, Dus) + ProductTotal - Sum([d \in Dus |-> OnOwnTerminal(d)], Dus)
               + Sum([d \in Dus |-> Outdated(d)], Dus) + VoidedCredit
      BY <2>1, <3>1, <3>2, BucketsMakeUpTheSales
    <3>4. /\ summary.cash = CashSales + Sum(summary.named, Dus)
          /\ summary.card = TerminalSales /\ summary.credit = CreditSales
          /\ summary.omc = RowsOf("OMC") /\ summary.variance = AttendantVariance(summary.named)
          /\ summary.total = Sum(metered, Dus) + ProductTotal
      BY <2>1, <3>1 DEF Reported
    <3>5. Split = (CashSales + Sum(summary.named, Dus)) + TerminalSales + CreditSales + RowsOf("OMC")
                    - AttendantVariance(summary.named)
      BY <3>4 DEF Split
    <3> DEFINE own == Sum([d \in Dus |-> OnOwnTerminal(d)], Dus)
               old == Sum([d \in Dus |-> Outdated(d)], Dus)
    <3>6. Split = Sum(metered, Dus) + ProductTotal - own + old + VoidedCredit
      BY <3>3, <3>5
    <3>7. own \in Int /\ old \in Int /\ VoidedCredit \in Int /\ Sum(metered, Dus) \in Int
          /\ ProductTotal \in Int
      BY <2>1, <3>1, SplitTypes
    <3> HIDE DEF own, old
    <3>8. Split = summary.total - own + old + VoidedCredit
      BY <3>4, <3>6, <3>7
    <3> QED
      BY <3>8 DEF own, old
  <2> QED
    BY <2>2, <2>3 DEF SplitAccountedFor
<1> QED
  BY <1>1, InitCash, StepCash, PTL DEF Spec

(* computeShiftCloseCash: whatever the Attendants lack, the office's own    *)
(* count comes out even.                                                   *)
THEOREM OfficeIsEven == Spec => []OfficeIsNotBlamed
<1>1. CashInv => OfficeIsNotBlamed
  BY DEF CashInv, DrawerInv, Repeated, Figures, OfficeIsNotBlamed
<1> QED
  BY <1>1, InitCash, StepCash, PTL DEF Spec

(* assembleReconTotals: neither the running cash sales nor the posting ever *)
(* exceed what customers paid in cash.                                     *)
THEOREM CashIsCountedOnce == Spec => []NoCashCountedTwice
<1>1. CashInv => NoCashCountedTwice
  BY SalesComeFromCustomers DEF CashInv, NoCashCountedTwice
<1> QED
  BY <1>1, InitCash, StepCash, PTL DEF Spec
=============================================================================

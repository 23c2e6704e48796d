--------------------------- MODULE OptionSelection --------------------------
(***************************************************************************)
(* The choice of the contract an option run is about, when the file holds  *)
(* several (csv_input.py: select_option_contract_id_from_csv,              *)
(* options_selection.py: select_contract_id), among the usable rows of the *)
(* earliest time.                                                          *)
(***************************************************************************)
EXTENDS SnapshotLoaders, FiniteSetsExt

Request ==
  [kind   : {"atm", "otm", "delta", "unsupported"},
   right  : Right \union {None},
   expiry : Nat \union {None},
   rank   : Int,
   target : Int \union {None}]

NoContract(result) == [result |-> result, contract |-> None]
Chosen(contract)   == [result |-> "selected", contract |-> contract]

SelectionTime(rows) == Min(Times(rows))

(* Wrong: the rows of every time are candidates.                           *)
SelectionRowsOfAnyTime(rows) ==
  {i \in DOMAIN rows : rows[i].time # None /\ rows[i].id # None}

SelectionRows(rows) ==
  {i \in Group(rows, SelectionTime(rows)) : rows[i].id # None}

ContractOf(row) == Parsed[row.id]

Filtered(candidates, req) ==
  {row \in candidates : /\ req.right \in {None, ContractOf(row).right}
                        /\ req.expiry \in {None, ContractOf(row).expiry}}

AbsDiff(a, b) == IF a >= b THEN a - b ELSE b - a

Distance(row, req) ==
  IF req.kind = "delta" THEN AbsDiff(row.delta, req.target)
  ELSE AbsDiff(ContractOf(row).strike, row.price)

RightOrder(row) == IF ContractOf(row).right = "CALL" THEN 0 ELSE 1

(* By distance, expiry, right and canonical id.                            *)
Nearer(a, b, req) ==
  \/ Distance(a, req) < Distance(b, req)
  \/ /\ Distance(a, req) = Distance(b, req)
     /\ \/ ContractOf(a).expiry < ContractOf(b).expiry
        \/ /\ ContractOf(a).expiry = ContractOf(b).expiry
           /\ \/ RightOrder(a) < RightOrder(b)
              \/ /\ RightOrder(a) = RightOrder(b)
                 /\ ContractOf(a).order < ContractOf(b).order

(* The contract at a place in the sorted list.                             *)
Ranked(candidates, req, rank) ==
  ContractOf(CHOOSE c \in candidates :
               /\ Cardinality({d \in candidates : Nearer(d, c, req)}) < rank
               /\ rank <= Cardinality({d \in candidates : ~ Nearer(c, d, req)}))

(* Wrong: a contract at the money counts as out of it.                     *)
OutOrAtTheMoney(row, right) ==
  IF right = "CALL" THEN ContractOf(row).strike >= row.price
  ELSE ContractOf(row).strike <= row.price

OutOfTheMoney(row, right) ==
  IF right = "CALL" THEN ContractOf(row).strike > row.price
  ELSE ContractOf(row).strike < row.price

NearestStrike(filtered, req) ==
  LET otm == {row \in filtered : OutOfTheMoney(row, req.right)}
  IN  IF Cardinality({row.price : row \in filtered}) # 1
         \/ \E row \in filtered : row.price = None
      THEN NoContract("rejected")
      ELSE IF req.kind = "atm" THEN Chosen(Ranked(filtered, req, 1))
      ELSE IF req.rank \in 1 .. Cardinality(otm) THEN Chosen(Ranked(otm, req, req.rank))
      ELSE NoContract("rejected")

NearestDelta(filtered, req) ==
  LET known == {row \in filtered : row.delta # None}
  IN  IF req.target = None \/ known = {} THEN NoContract("rejected")
      ELSE Chosen(Ranked(known, req, 1))

SelectContractId(candidates, req) ==
  LET filtered == Filtered(candidates, req)
  IN  IF \/ req.kind = "unsupported"
         \/ req.kind = "otm" /\ req.right = None
         \/ filtered = {}
      THEN NoContract("rejected")
      ELSE IF req.kind = "delta" THEN NearestDelta(filtered, req)
      ELSE NearestStrike(filtered, req)

Selection(rows, req) ==
  IF Times(rows) = {} THEN NoContract("rejected")
  ELSE LET here == SelectionRows(rows)
           all  == {rows[i] : i \in here}
           candidates == {row \in all : Usable(row)}
       IN  IF Duplicates(rows, here) THEN NoContract("rejected")
           ELSE IF \E row \in all : "fresh" \in row.wrong THEN NoContract("raised")
           ELSE IF \/ \E row \in all : ~ Parses(row)
                   \/ \E row \in candidates : "price" \in row.wrong
           THEN NoContract("rejected")
           ELSE SelectContractId(candidates, req)

=============================================================================

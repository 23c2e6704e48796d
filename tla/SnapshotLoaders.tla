--------------------------- MODULE SnapshotLoaders --------------------------
(***************************************************************************)
(* What the loaders make of a file of rows (csv_input.py:                  *)
(* _load_underlying_events_csv_impl, _load_option_events_csv_impl,         *)
(* _load_chain_events_csv_impl, with parse_option_contract_id,             *)
(* parse_option_snapshot_dict and check_option_snapshot_usable).           *)
(*                                                                         *)
(* A row tells what the loaders tell apart: the spelling of its contract   *)
(* id, its time, which of its other columns are malformed, and what makes  *)
(* it usable.  A contract has one canonical id and may have others: a      *)
(* strike with trailing zeros, CE for CALL.  Times are numbers in the      *)
(* order of their texts, as are the canonical ids ("order").  One          *)
(* diagnostic is enough for a run to reject the file, so they are not      *)
(* counted; missing headers and columns reject it as well.                 *)
(***************************************************************************)
EXTENDS Integers, Sequences, FiniteSets

CONSTANTS
  Spelling,  (* Texts of the id column.                                    *)
  Chain,     (* Venue and underlying.                                      *)
  Contract,
  Parsed,    (* Parsed[s]: the contract s stands for, or None.             *)
  IdOf,      (* IdOf[c]: the canonical id of c.                            *)
  None       (* An empty or malformed column.                              *)

Right == {"CALL", "PUT"}

ASSUME ContractAssumption ==
  /\ Contract \subseteq [chain : Chain, expiry : Nat, strike : Nat, right : Right,
                         order : Nat]
  /\ \A c, d \in Contract : c.order = d.order => c = d
  /\ Parsed \in [Spelling -> Contract \union {None}]
  /\ IdOf \in [Contract -> Spelling]
  /\ \A c \in Contract : Parsed[IdOf[c]] = c
  /\ None \notin Spelling \union Contract \union Int

(* wrong: "fresh" for data_is_fresh, "snapshot" for a column of the        *)
(* snapshot (in a file of bars, of the bar), "price" for the underlying's  *)
(* price, "other" for one only the option and the bar loader read.  In a   *)
(* file of bars the id is the symbol.                                      *)
Row ==
  [id      : Spelling \union {None},
   time    : Nat \union {None},
   wrong   : SUBSET {"fresh", "snapshot", "price", "other"},
   fresh   : BOOLEAN,
   flagged : BOOLEAN,   (* quality_flags is not empty.                     *)
   quoted  : BOOLEAN,   (* last, close, or bid and ask are there.          *)
   oi      : Nat \union {None},
   price   : Int \union {None},
   delta   : Int \union {None}]

Usable(row) == row.fresh /\ ~ row.flagged /\ row.quoted

Parses(row) == "snapshot" \notin row.wrong /\ Parsed[row.id] # None

Rejected == [result |-> "rejected", events |-> <<>>]
Raised   == [result |-> "raised",   events |-> <<>>]
Loaded(events) == [result |-> "loaded", events |-> events]

-----------------------------------------------------------------------------
(* Bars: one symbol, every row well-formed.                                *)
UnderlyingLoad(rows) ==
  IF \/ rows = <<>>
     \/ \E i \in DOMAIN rows : \/ None \in {rows[i].id, rows[i].time}
                               \/ rows[i].id # rows[1].id
                               \/ rows[i].wrong \ {"price"} # {}
  THEN Rejected
  ELSE Loaded([i \in DOMAIN rows |-> [symbol |-> rows[i].id, time |-> rows[i].time]])

-----------------------------------------------------------------------------
(* The members of a finite set of numbers, in ascending order.             *)
InOrder(numbers) ==
  [k \in 1 .. Cardinality(numbers) |->
     CHOOSE n \in numbers : Cardinality({m \in numbers : m <= n}) = k]

-----------------------------------------------------------------------------
(* Options: the rows spelled as asked for, in the order of the file.       *)
Ids(rows) == {rows[i].id : i \in DOMAIN rows} \ {None}

Mine(rows, selected) ==
  {i \in DOMAIN rows : rows[i].id # None /\ selected \in {None, rows[i].id}}

Fit(row) ==
  /\ row.time # None
  /\ Parses(row)
  /\ row.wrong \intersect {"price", "other"} = {}
  /\ Usable(row)

OptionLoad(rows, selected) ==
  LET mine == Mine(rows, selected)
      row(k) == rows[InOrder(mine)[k]]
  IN  IF \/ Ids(rows) = {}
         \/ selected = None /\ Cardinality(Ids(rows)) > 1
         \/ selected # None /\ Parsed[selected] = None
      THEN Rejected
      ELSE IF \E i \in mine : rows[i].time # None /\ "fresh" \in rows[i].wrong
      THEN Raised
      ELSE IF \/ \E i \in DOMAIN rows : rows[i].id = None
              \/ \E i \in mine : ~ Fit(rows[i])
              \/ mine = {}
      THEN Rejected
      ELSE Loaded([k \in 1 .. Cardinality(mine) |->
                     [contract |-> Parsed[row(k).id], time |-> row(k).time]])

-----------------------------------------------------------------------------
(* Chains: the rows of one time are one snapshot.                          *)
Group(rows, time) == {i \in DOMAIN rows : rows[i].time = time}

Duplicates(rows, group) ==
  \E i, j \in group : i # j /\ rows[i].id = rows[j].id /\ rows[i].id # None

(* A malformed data_is_fresh raises, unless duplicates were met before.    *)
GroupRaises(rows, group) ==
  /\ ~ Duplicates(rows, group)
  /\ \E i \in group : rows[i].id # None /\ "fresh" \in rows[i].wrong

Kept(rows, group) == {i \in group : rows[i].id # None /\ Parses(rows[i])}

ChainsDiffer(rows, kept) ==
  \E i, j \in kept : Parsed[rows[i].id].chain # Parsed[rows[j].id].chain

(* Wrong: a row without a contract id is passed over.                      *)
DiagnosedButForIds(rows, group) ==
  \/ Duplicates(rows, group)
  \/ \E i \in group : rows[i].id # None /\ ~ Parses(rows[i])
  \/ ChainsDiffer(rows, Kept(rows, group))
  \/ Kept(rows, group) = {}

(* The last case adds nothing here: a dropped row has its own diagnostic.  *)
Diagnosed(rows, group) ==
  \/ Duplicates(rows, group)
  \/ \E i \in group : rows[i].id = None \/ ~ Parses(rows[i])
  \/ ChainsDiffer(rows, Kept(rows, group))
  \/ Kept(rows, group) = {}

(* Wrong: the contracts come in the order of the file.                     *)
PlaceInFile(rows, kept, i) == Cardinality({j \in kept : j <= i})

(* The sort by canonical id is stable.                                     *)
Place(rows, kept, i) ==
  LET order(j) == Parsed[rows[j].id].order
  IN  Cardinality({j \in kept : \/ order(j) < order(i)
                                \/ order(j) = order(i) /\ j <= i})

Snapshot(rows, time) ==
  LET group    == Group(rows, time)
      kept     == Kept(rows, group)
      nth(p)   == rows[CHOOSE i \in kept : Place(rows, kept, i) = p]
      fresh    == \A i \in kept : rows[i].fresh
      flagged  == \E i \in kept : rows[i].flagged
      usable   == Cardinality({i \in kept : Usable(rows[i])})
      total    == Cardinality({i \in group : rows[i].id # None})
      complete == usable = total /\ fresh /\ ~ flagged
  IN  [chain |-> Parsed[nth(1).id].chain, time |-> time,
       contracts |-> [p \in 1 .. Cardinality(kept) |->
                        [contract |-> Parsed[nth(p).id], oi |-> nth(p).oi]],
       fresh |-> fresh, flagged |-> flagged,
       complete |-> complete, unknowns |-> ~ complete]

Times(rows) == {rows[i].time : i \in DOMAIN rows} \ {None}

ChainLoad(rows) ==
  LET times == InOrder(Times(rows))
  IN  IF rows = <<>> \/ \E i \in DOMAIN rows : rows[i].time = None THEN Rejected
      ELSE IF \E t \in Times(rows) : GroupRaises(rows, Group(rows, t)) THEN Raised
      ELSE IF \E t \in Times(rows) : Diagnosed(rows, Group(rows, t)) THEN Rejected
      ELSE Loaded([k \in 1 .. Cardinality(Times(rows)) |-> Snapshot(rows, times[k])])

=============================================================================

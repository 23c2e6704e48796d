---------------------------- MODULE SnapshotFiles ---------------------------
(***************************************************************************)
(* A file of snapshot rows, written row by row, and what the loaders, the  *)
(* selection of a contract and the chain metrics make of it at each        *)
(* moment.                                                                 *)
(***************************************************************************)
EXTENDS OptionSelection, ChainMetrics

CONSTANTS
  Rows,      (* The rows a file is made of.                                *)
  OddRows,   (* Those that are rare in a file.                             *)
  Requests,  (* The selections asked for.                                  *)
  MaxRows,   (* Bound: rows of a file.                                     *)
  MaxOdd     (* Bound: odd rows of a file.                                 *)

ASSUME RowsAssumption ==
  /\ Rows \subseteq Row /\ OddRows \subseteq Rows
  /\ Requests \subseteq Request
  /\ MaxRows \in Nat /\ MaxOdd \in Nat

VARIABLE rows

Init == rows = <<>>

AppendRow ==
  /\ Len(rows) < MaxRows
  /\ \E row \in Rows :
       /\ row \in OddRows =>
            Cardinality({i \in DOMAIN rows : rows[i] \in OddRows}) < MaxOdd
       /\ rows' = Append(rows, row)

Spec == Init /\ [][AppendRow]_rows

-----------------------------------------------------------------------------
Swapped(i) == [rows EXCEPT ![i] = rows[i + 1], ![i + 1] = rows[i]]

(* The ids are spelled as option_chain_context.md asks for: canonically.   *)
Canonical ==
  \A i \in DOMAIN rows :
    rows[i].id = None \/ Parsed[rows[i].id] = None \/ rows[i].id = IdOf[Parsed[rows[i].id]]

(* No row is lost: the events of a file that loads account for every row   *)
(* they were asked for, usable or the snapshot says so, bars and options   *)
(* in the order of the file.  (csv_input.py: a row skipped is a row        *)
(* diagnosed; total_rows against usable_rows)                              *)
NoRowLost ==
  /\ LET load == ChainLoad(rows)
     IN  \A k \in DOMAIN load.events :
           LET e == load.events[k]
           IN  /\ Len(e.contracts) = Cardinality({i \in DOMAIN rows : rows[i].time = e.time})
               /\ e.complete <=> \A i \in DOMAIN rows : rows[i].time = e.time => Usable(rows[i])
  /\ \A s \in Spelling \union {None} :
       LET load == OptionLoad(rows, s)
       IN  load.result = "loaded" =>
             /\ Len(load.events) = Cardinality({i \in DOMAIN rows : s \in {None, rows[i].id}})
             /\ \A i \in DOMAIN rows : s \in {None, rows[i].id} => Usable(rows[i])
  /\ LET load == UnderlyingLoad(rows)
     IN  load.result = "loaded" => Len(load.events) = Len(rows)

(* The order of the rows does not matter to chains and selections: any two *)
(* neighbours may change places.  (the grouping by time, the sort by       *)
(* canonical id, the tie-breaks of the ranking)                            *)
RowOrderIrrelevant ==
  Canonical =>
    \A i \in 1 .. Len(rows) - 1 :
      /\ ChainLoad(Swapped(i)) = ChainLoad(rows)
      /\ \A req \in Requests : Selection(Swapped(i), req) = Selection(rows, req)

(* The change of open interest is that of puts and calls together, and     *)
(* what two ratios tell apart the change tells.  (oi_change,               *)
(* oi_change_puts, oi_change_calls and pcr_oi, four loops that must agree) *)
MetricsAgree ==
  LET events == ChainLoad(rows).events
  IN  \A k \in DOMAIN events :
        LET all   == OiChange(events, k, Right)
            puts  == OiChange(events, k, {"PUT"})
            calls == OiChange(events, k, {"CALL"})
        IN  /\ all = Unknown <=> Unknown \in {puts, calls}
            /\ all # Unknown => all = puts + calls
            /\ k > 1 => LET was == PcrOi(events[k - 1])
                            is  == PcrOi(events[k])
                        IN  Unknown \notin {was, is} /\ SameContracts(events[k - 1], events[k]) =>
                              <<puts, calls>> = <<is[1] - was[1], is[2] - was[2]>>

(* A contract that is chosen can be run: reading the file again for it     *)
(* finds the snapshot it was chosen by, unless a row of it or one without  *)
(* id makes the file unfit.  (run_option_from_csv_with_log: the selection  *)
(* and the loader read the file one after the other)                       *)
SelectionFindsItsContract ==
  Canonical =>
    \A req \in Requests :
      LET chosen == Selection(rows, req)
          id     == IdOf[chosen.contract]
          load   == OptionLoad(rows, id)
      IN  chosen.result = "selected" =>
            \/ \E k \in DOMAIN load.events :
                 load.events[k] = [contract |-> chosen.contract, time |-> SelectionTime(rows)]
            \/ \E i \in DOMAIN rows :
                 \/ rows[i].id = None
                 \/ rows[i].id = id /\ (~ Fit(rows[i]) \/ "fresh" \in rows[i].wrong)

(* The out-of-the-money ranks 1, 2, ... are the contracts on that side of  *)
(* the price, each once, none nearer than the one before.                  *)
(* (select_contract_id: otm)                                               *)
OtmRanksAscend ==
  Canonical =>
    \A right \in Right :
      LET at(rank) == Selection(rows, [kind |-> "otm", right |-> right, expiry |-> None,
                                       rank |-> rank, target |-> None])
          ranks    == {rank \in 1 .. MaxRows : at(rank).result = "selected"}
          here     == {i \in DOMAIN rows : /\ rows[i].time = SelectionTime(rows)
                                           /\ rows[i].id # None /\ Usable(rows[i])}
          price    == rows[CHOOSE i \in here : Parsed[rows[i].id].right = right].price
          beyond   == {c \in {Parsed[rows[i].id] : i \in here} :
                         /\ c.right = right
                         /\ IF right = "CALL" THEN c.strike > price ELSE c.strike < price}
      IN  ranks # {} =>
            /\ ranks = 1 .. Cardinality(beyond)
            /\ {at(rank).contract : rank \in ranks} = beyond
            /\ \A r, s \in ranks : r < s =>
                 AbsDiff(at(r).contract.strike, price) <= AbsDiff(at(s).contract.strike, price)

(* option_chain_context.md: "duplicate `contract_id` within a group is     *)
(* rejected (fail closed)".  Two spellings of one id are not.              *)
OneRowPerContract ==
  \A k \in DOMAIN ChainLoad(rows).events :
    LET contracts == ChainLoad(rows).events[k].contracts
    IN  \A p, q \in DOMAIN contracts : contracts[p].contract = contracts[q].contract => p = q

=============================================================================

--------------------------- MODULE MCSnapshotFiles --------------------------
(***************************************************************************)
(* Two calls and a put of one chain and a call of another, one of them     *)
(* with a second spelling; good rows at two times and one row of each      *)
(* defect.                                                                 *)
(***************************************************************************)
EXTENDS SnapshotFiles

CONSTANTS tcs, infy, call100, call100ce, call110, put90, other100, junk

(* In the order of the ids as texts: INFY before TCS, 100 before 110       *)
(* before 90.                                                              *)
C(chain, strike, right, order) ==
  [chain |-> chain, expiry |-> 1, strike |-> strike, right |-> right, order |-> order]

MCContract ==
  {C(infy, 100, "CALL", 1), C(tcs, 100, "CALL", 2), C(tcs, 110, "CALL", 3),
   C(tcs, 90, "PUT", 4)}

MCSpelling == {call100, call100ce, call110, put90, other100, junk}

MCParsed ==
  [s \in MCSpelling |->
     CASE s \in {call100, call100ce} -> C(tcs, 100, "CALL", 2)
       [] s = call110  -> C(tcs, 110, "CALL", 3)
       [] s = put90    -> C(tcs, 90, "PUT", 4)
       [] s = other100 -> C(infy, 100, "CALL", 1)
       [] s = junk     -> None]

MCIdOf ==
  [c \in MCContract |->
     CHOOSE s \in MCSpelling \ {call100ce} : MCParsed[s] = c]

Good(id, time, oi) ==
  [id |-> id, time |-> time, wrong |-> {}, fresh |-> TRUE, flagged |-> FALSE,
   quoted |-> TRUE, oi |-> oi, price |-> 95, delta |-> IF id = put90 THEN -4 ELSE 5]

First == Good(call100, 1, 2)

MCOddRows ==
  {Good(call100ce, 1, 1), Good(junk, 1, 1), Good(put90, 2, None),
   [First EXCEPT !.id = None], [First EXCEPT !.time = None],
   [First EXCEPT !.wrong = {"fresh"}], [First EXCEPT !.wrong = {"other"}],
   [First EXCEPT !.fresh = FALSE], [Good(put90, 1, 1) EXCEPT !.quoted = FALSE],
   [Good(call110, 1, 2) EXCEPT !.flagged = TRUE], [Good(call110, 1, 2) EXCEPT !.price = 100],
   [First EXCEPT !.price = 100], [Good(call110, 1, 2) EXCEPT !.wrong = {"price"}],
   [Good(put90, 1, 2) EXCEPT !.delta = None]}

MCRows ==
  {First, Good(call100, 2, 1), Good(put90, 1, 1), Good(put90, 2, 3),
   Good(call110, 1, 0), Good(call110, 2, 2), Good(other100, 1, 1)}
  \union MCOddRows

MCRequests ==
  {[kind |-> "atm",   right |-> None,   expiry |-> None, rank |-> 1, target |-> None],
   [kind |-> "atm",   right |-> "PUT",  expiry |-> 1,    rank |-> 1, target |-> None],
   [kind |-> "otm",   right |-> "CALL", expiry |-> None, rank |-> 2, target |-> None],
   [kind |-> "delta", right |-> None,   expiry |-> None, rank |-> 1, target |-> 3]}

=============================================================================

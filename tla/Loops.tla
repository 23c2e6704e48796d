-------------------------------- MODULE Loops -------------------------------
(***************************************************************************)
(* A loop of the code: its body takes what has been made so far and either *)
(* goes on with what it makes of it or stops.  The bound is one no loop    *)
(* reaches: each turn of a parser's loop is past a token more.             *)
(***************************************************************************)
EXTENDS Integers

Going(x) == [made |-> x, on |-> TRUE]

Stopped(x) == [made |-> x, on |-> FALSE]

Loop(Body(_), x, bound) ==
  LET after[k \in 0 .. bound] ==
        IF k = 0 THEN Going(x)
        ELSE LET last == after[k - 1]
             IN  IF last.on THEN Body(last.made) ELSE last
  IN  after[bound].made
=============================================================================

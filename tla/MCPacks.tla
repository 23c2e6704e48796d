------------------------------- MODULE MCPacks ------------------------------
(***************************************************************************)
(* The libraries of MCImportClosure, and packs of some of them: of chains, *)
(* of a diamond and of a library in which nothing imports anything, from   *)
(* one entry and from all, with up to two edits each.                      *)
(***************************************************************************)
EXTENDS MCImportClosure, Packs

Diamond == [m \in Three |-> IF m = 1 THEN {2, 3} ELSE IF m = 2 THEN {3} ELSE {}]

Alone == [m \in Three |-> {}]

MCPacked ==
  {Small(g, Three, e, {}) : g \in {Chain, Diamond, Alone}, e \in {{2}, Module}}
  \union {Small(Chain, {1, 2}, {2}, {})}
  \union {l \in SmallLibraries : l.imports[1] = {} /\ l.entries = {2}}

MCUntyped == {{}, {3}}

MCSpecs == {<<>>, <<0, 5>>, <<0, 10>>, <<1, 0>>}
=============================================================================

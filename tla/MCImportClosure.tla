-------------------------- MODULE MCImportClosure ---------------------------
(***************************************************************************)
(* All graphs of three modules, self-imports included, with the third      *)
(* parsed or not; and the graphs of four modules whose imports go to       *)
(* larger names except for at most one import.  The entry paths are those  *)
(* the runner asks for: a single file, all files, or a file that is no     *)
(* module.                                                                 *)
(***************************************************************************)
EXTENDS ImportClosure

Three == 1 .. 3

(* Module 4 is on its own; it may import a name that does not exist.       *)
Small(g, c, e, last) ==
  [imports |-> [m \in Module |-> IF m = 4 THEN last ELSE g[m]],
   clean   |-> c \union {4},
   entries |-> e]

SmallLibraries ==
  {Small(g, c, e, {}) :
     g \in [Three -> SUBSET Three], c \in {Three, {1, 2}}, e \in {{2}, Module}}

Chain == [m \in Three |-> IF m = 3 THEN {} ELSE {m + 1}]

DanglingLibraries ==
  {Small(Chain, c, e, NoModule) : c \in SUBSET Three, e \in {{1}, Module, NoModule}}

Forward == {f \in [Module -> SUBSET Module] :
              \A m \in Module : \A d \in f[m] : d > m}

BackImports == {p \in Module \X Module : p[2] <= p[1]}

WiderLibraries ==
  {[imports |-> [f EXCEPT ![b[1]] = @ \union {b[2]}],
    clean   |-> Module,
    entries |-> e] :
     f \in Forward, b \in BackImports, e \in {{1}, Module}}
  \union
  {[imports |-> f, clean |-> Module, entries |-> e] :
     f \in Forward, e \in {{2}, Module, NoModule}}

MCLibraries == SmallLibraries \union DanglingLibraries \union WiderLibraries

MCModule   == 1 .. 4
MCNoModule == {9}

=============================================================================

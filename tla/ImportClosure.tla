---------------------------- MODULE ImportClosure ---------------------------
(***************************************************************************)
(* Resolution of the import closure of a rule library                      *)
(* (modules.py: resolve_import_closure): every import of a cleanly parsed  *)
(* module must exist, a depth-first walk from the entry modules lists each *)
(* module after those it imports, and a cycle among them is rejected.      *)
(*                                                                         *)
(* Module names are numbers, in the order the names sort in; a name in     *)
(* NoModule is one no file maps to.  Importing a module twice is importing *)
(* it once.  The recursion of dfs is a stack of frames here, each with the *)
(* imports it has not visited yet.                                         *)
(***************************************************************************)
EXTENDS Naturals, Sequences, FiniteSets

CONSTANTS
  Module,     (* Names of the modules found under the root.                *)
  NoModule,   (* Names that are no module.                                 *)
  Libraries,  (* The inputs considered: members of Library.                *)
  None        (* No list of modules yet, or diagnostics instead of one.    *)

(* What each module imports, which modules parsed without diagnostics, and *)
(* the modules of the entry paths.                                         *)
Library == [imports : [Module -> SUBSET (Module \union NoModule)],
            clean   : SUBSET Module,
            entries : SUBSET (Module \union NoModule)]

ASSUME LibraryAssumption ==
  /\ IsFiniteSet(Module) /\ Module \subseteq Nat
  /\ NoModule \subseteq Nat /\ NoModule \intersect Module = {}
  /\ Libraries \subseteq Library
  /\ None \notin Seq(Module)

(* Imports of modules that did not parse cleanly are not followed.         *)
DepsIn(lib, m) == IF m \in lib.clean THEN lib.imports[m] ELSE {}

(* SD600: an entry path is no module.  SD601: some import, of any module   *)
(* found and not only of the closure, is no module.                        *)
(* The first variant is wrong: imports are not checked.                    *)
SoundEntries(lib) == lib.entries \subseteq DOMAIN lib.imports

Sound(lib) ==
  /\ lib.entries \subseteq DOMAIN lib.imports
  /\ \A m \in DOMAIN lib.imports : DepsIn(lib, m) \subseteq DOMAIN lib.imports

VARIABLES
  library,  (* The input.                                                  *)
  phase,    (* "check", "walk" or "done"                                   *)
  queue,    (* Entry modules dfs has not been called for.                  *)
  stack,    (* Frames of dfs, the innermost last.                          *)
  state,    (* 0 unseen, 1 visiting, 2 done                                *)
  ordered,  (* ordered                                                     *)
  cycles,   (* The cycles reported so far.                                 *)
  result    (* The modules returned, or None.                              *)

vars == <<library, phase, queue, stack, state, ordered, cycles, result>>

Frame == [name: Module, todo: SUBSET Module]

TypeOK ==
  /\ library \in Library
  /\ phase \in {"check", "walk", "done"}
  /\ queue \subseteq Module
  /\ stack \in Seq(Frame)
  /\ state \in [Module -> 0 .. 2]
  /\ ordered \in Seq(Module)
  /\ cycles \subseteq Seq(Module)
  /\ result \in {None} \union Seq(Module)

Deps(m) == DepsIn(library, m)

Least(S) == CHOOSE x \in S : \A y \in S : x <= y

Names == [i \in 1 .. Len(stack) |-> stack[i].name]

Top == stack[Len(stack)]

Below == SubSeq(stack, 1, Len(stack) - 1)

Init ==
  /\ library \in Libraries
  /\ phase = "check"
  /\ queue = {}
  /\ stack = <<>>
  /\ state = [m \in Module |-> 0]
  /\ ordered = <<>>
  /\ cycles = {}
  /\ result = None

-----------------------------------------------------------------------------
RejectIndex ==
  /\ phase = "check"
  /\ ~ Sound(library)
  /\ phase' = "done"
  /\ UNCHANGED <<library, queue, stack, state, ordered, cycles, result>>

StartWalk ==
  /\ phase = "check"
  /\ Sound(library)
  /\ phase' = "walk"
  /\ queue' = library.entries
  /\ UNCHANGED <<library, stack, state, ordered, cycles, result>>

(* The call dfs(m), with the frames below it.  Two variants are wrong: one *)
(* takes a module being visited for a module done, the other reports the   *)
(* whole stack instead of the part from m on.                              *)
CallNoCycle(m, below) ==
  /\ cycles' = cycles
  /\ IF state[m] = 0
     THEN /\ state' = [state EXCEPT ![m] = 1]
          /\ stack' = Append(below, [name |-> m, todo |-> Deps(m)])
     ELSE UNCHANGED state /\ stack' = below

CallWholeStack(m, below) ==
  /\ cycles' = IF state[m] = 1 THEN cycles \union {Append(Names, m)} ELSE cycles
  /\ IF state[m] = 0
     THEN /\ state' = [state EXCEPT ![m] = 1]
          /\ stack' = Append(below, [name |-> m, todo |-> Deps(m)])
     ELSE UNCHANGED state /\ stack' = below

Call(m, below) ==
  \/ /\ state[m] = 2
     /\ stack' = below
     /\ UNCHANGED <<state, cycles>>
  \/ /\ state[m] = 1
     /\ \E i \in 1 .. Len(stack) :
          /\ stack[i].name = m
          /\ \A j \in 1 .. i - 1 : stack[j].name # m
          /\ cycles' = cycles \union {Append(SubSeq(Names, i, Len(stack)), m)}
     /\ stack' = below
     /\ UNCHANGED state
  \/ /\ state[m] = 0
     /\ state' = [state EXCEPT ![m] = 1]
     /\ stack' = Append(below, [name |-> m, todo |-> Deps(m)])
     /\ UNCHANGED cycles

(* Wrong: the entry stays queued.                                          *)
VisitEntryAgain ==
  /\ phase = "walk" /\ stack = <<>> /\ queue # {}
  /\ Call(Least(queue), stack)
  /\ UNCHANGED <<library, phase, queue, ordered, result>>

VisitEntry ==
  /\ phase = "walk" /\ stack = <<>> /\ queue # {}
  /\ LET m == Least(queue) IN
     /\ queue' = queue \ {m}
     /\ Call(m, stack)
  /\ UNCHANGED <<library, phase, ordered, result>>

VisitImport ==
  /\ phase = "walk" /\ stack # <<>> /\ Top.todo # {}
  /\ LET m == Least(Top.todo)
     IN  Call(m, Append(Below, [Top EXCEPT !.todo = @ \ {m}]))
  /\ UNCHANGED <<library, phase, queue, ordered, result>>

(* Wrong: listed before what was listed earlier.                           *)
LeaveFirst ==
  /\ phase = "walk" /\ stack # <<>> /\ Top.todo = {}
  /\ state' = [state EXCEPT ![Top.name] = 2]
  /\ ordered' = <<Top.name>> \o ordered
  /\ stack' = Below
  /\ UNCHANGED <<library, phase, queue, cycles, result>>

Leave ==
  /\ phase = "walk" /\ stack # <<>> /\ Top.todo = {}
  /\ state' = [state EXCEPT ![Top.name] = 2]
  /\ ordered' = Append(ordered, Top.name)
  /\ stack' = Below
  /\ UNCHANGED <<library, phase, queue, cycles, result>>

Finish ==
  /\ phase = "walk" /\ stack = <<>> /\ queue = {}
  /\ phase' = "done"
  /\ result' = IF cycles = {} THEN ordered ELSE None
  /\ UNCHANGED <<library, queue, stack, state, ordered, cycles>>

Next ==
  \/ RejectIndex \/ StartWalk
  \/ VisitEntry \/ VisitImport \/ Leave
  \/ Finish

(* A sequential walk over a finite graph: it takes its next step.          *)
Spec == Init /\ [][Next]_vars /\ WF_vars(Next)

-----------------------------------------------------------------------------
(* The modules reachable from a set of modules of a sound library: those   *)
(* in every set that holds these and, with a module, all it imports.       *)
ClosedIn(lib, S) == \A m \in S : DepsIn(lib, m) \subseteq S

ReachIn(lib, S) ==
  {m \in DOMAIN lib.imports :
     \A T \in SUBSET DOMAIN lib.imports :
       S \subseteq T /\ ClosedIn(lib, T) => m \in T}

ClosureOf(lib) == ReachIn(lib, lib.entries)

Cyclic(lib) == \E m \in ClosureOf(lib) : m \in ReachIn(lib, DepsIn(lib, m))

(* The list returned holds the modules of the closure and no others, each  *)
(* once and after everything it imports: the rules of a module are loaded  *)
(* after those it builds on.                                               *)
ClosureInImportOrder ==
  result # None =>
    /\ {result[i] : i \in 1 .. Len(result)} = ClosureOf(library)
    /\ Len(result) = Cardinality(ClosureOf(library))
    /\ \A i \in 1 .. Len(result) : \A d \in Deps(result[i]) :
         \E j \in 1 .. i - 1 : result[j] = d

(* A sound library is rejected exactly when its closure has a cycle,       *)
(* direct or indirect and whichever entry the walk meets it from; a module *)
(* two importers share is no cycle.                                        *)
RejectedIffCyclic ==
  phase = "done" /\ Sound(library) => (result = None <=> Cyclic(library))

(* Each cycle reported is one: it ends where it begins, and each module of *)
(* it imports the next.                                                    *)
ReportedCyclesExist ==
  \A c \in cycles :
    /\ Len(c) > 1 /\ c[1] = c[Len(c)]
    /\ \A i \in 1 .. Len(c) - 1 : c[i + 1] \in Deps(c[i])

(* The marks agree with the walk: visiting are the modules on the stack,   *)
(* each of them there once, done are those listed, each listed once, and   *)
(* each frame was called by the one below it.                              *)
MarksMatchWalk ==
  /\ \A m \in Module :
       /\ state[m] = 1 <=> \E i \in 1 .. Len(stack) : stack[i].name = m
       /\ state[m] = 2 <=> \E i \in 1 .. Len(ordered) : ordered[i] = m
  /\ \A i, j \in 1 .. Len(stack) : stack[i].name = stack[j].name => i = j
  /\ \A i, j \in 1 .. Len(ordered) : ordered[i] = ordered[j] => i = j
  /\ \A i \in 1 .. Len(stack) - 1 : stack[i + 1].name \in Deps(stack[i].name)

(* The walk ends, on cyclic libraries too.                                 *)
WalkEnds == <>(phase = "done")

=============================================================================

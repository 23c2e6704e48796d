----------------------------- MODULE PacksProofs ----------------------------
(***************************************************************************)
(* The depth-first walk for libraries of any size: its marks agree with    *)
(* its stack and its list, the cycles it reports are cycles, what it       *)
(* returns is the import closure in import order, and has no cycle.  Then  *)
(* what a validated pack made of that closure is, for any number of edits  *)
(* of the pack.                                                            *)
(***************************************************************************)
EXTENDS Packs, SequenceTheorems, FiniteSetTheorems, FunctionTheorems,
        WellFoundedInduction, TLAPS

(* What a frame has not visited, it imports.                               *)
TodoImported ==
  \A i \in 1 .. Len(stack) : stack[i].todo \subseteq Deps(stack[i].name)

(* As long as no cycle was met, an import of a module being visited is not *)
(* visited yet, is being visited just above, or is done.                   *)
ImportsUnderWay ==
  cycles = {} =>
    \A i \in 1 .. Len(stack) : \A d \in Deps(stack[i].name) :
      \/ d \in stack[i].todo
      \/ state[d] = 2
      \/ i < Len(stack) /\ stack[i + 1].name = d

(* ... and a module listed comes after everything it imports.              *)
ListInImportOrder ==
  cycles = {} =>
    \A i \in 1 .. Len(ordered) : \A d \in Deps(ordered[i]) :
      \E j \in 1 .. i - 1 : ordered[j] = d

(* Entries wait, or are seen.                                              *)
EntriesSeen ==
  phase # "check" /\ Sound(library) =>
    \A m \in library.entries : m \in queue \/ state[m] # 0

(* The phases: the walk is over a sound library, the stack is empty before *)
(* and after it, and what is returned is the list, if no cycle was met.    *)
Phases ==
  /\ phase = "walk" => Sound(library)
  /\ phase # "walk" => stack = <<>> /\ queue = {}
  /\ phase # "done" => result = None
  /\ result # None => result = ordered /\ cycles = {} /\ Sound(library)
  /\ phase = "done" /\ Sound(library) /\ result = None => cycles # {}

(* A set of modules that holds the entries, and with a module what it      *)
(* imports.                                                                *)
ClosedUnderImports(S) ==
  library.entries \subseteq S /\ \A m \in S : Deps(m) \subseteq S

(* Nothing is visited or listed but what is in every such set.             *)
ReachedOnly ==
  \A S \in SUBSET Module : ClosedUnderImports(S) =>
    /\ queue \subseteq S
    /\ \A i \in 1 .. Len(stack) : stack[i].name \in S
    /\ \A i \in 1 .. Len(ordered) : ordered[i] \in S

WInv ==
  /\ TypeOK
  /\ MarksMatchWalk
  /\ TodoImported
  /\ ReportedCyclesExist
  /\ ImportsUnderWay
  /\ ListInImportOrder
  /\ EntriesSeen
  /\ ReachedOnly
  /\ Phases

-----------------------------------------------------------------------------
(* In a sound library every import, and every entry, is a module.          *)
LEMMA DepsAreModules ==
  ASSUME TypeOK, Sound(library)
  PROVE  library.entries \subseteq Module /\ \A m \in Module : Deps(m) \subseteq Module
<1>1. DOMAIN library.imports = Module
  BY DEF TypeOK, Library
<1> QED
  BY <1>1 DEF Deps, Sound

(* The least of a nonempty set of module names is one of them.             *)
LEMMA LeastIsMember ==
  ASSUME NEW S \in SUBSET Nat, S # {}
  PROVE  Least(S) \in S /\ \A y \in S : Least(S) <= y
<1> DEFINE R == {ss \in Nat \X Nat : ss[1] < ss[2]}
<1>1. R = OpToRel(<, Nat)
  BY DEF OpToRel
<1>2. IsWellFoundedOn(R, Nat)
  BY <1>1, NatLessThanWellFounded, Zenon
<1> HIDE DEF R
<1>3. PICK x \in S : \A y \in S : ~ (<<y, x>> \in R)
  BY <1>2, WFMin
<1>4. \A y, z \in Nat : y < z => <<y, z>> \in R
  BY DEF R
<1>5. ASSUME NEW y \in S
      PROVE  x <= y
  <2>1. x \in Nat /\ y \in Nat
    OBVIOUS
  <2>2. ~ (y < x)
    BY <1>3, <1>4, <2>1
  <2> QED
    BY <2>1, <2>2
<1> QED
  BY <1>5 DEF Least

(* The frames but the top one.                                             *)
LEMMA BelowIsStack ==
  ASSUME stack \in Seq(Frame), stack # <<>>
  PROVE  /\ Len(stack) \in Nat \ {0} /\ Top \in Frame
         /\ Below \in Seq(Frame) /\ Len(Below) = Len(stack) - 1
         /\ \A i \in 1 .. Len(stack) - 1 : Below[i] = stack[i]
<1>1. Len(stack) \in Nat \ {0} /\ \A i \in 1 .. Len(stack) : stack[i] \in Frame
  OBVIOUS
<1>2. Top \in Frame
  BY <1>1 DEF Top
<1>3. \A i \in 1 .. Len(stack) - 1 : stack[i] \in Frame
  BY <1>1
<1> DEFINE n == Len(stack)
<1> HIDE DEF n
<1>4. n - 1 \in Int /\ 1 \in Int /\ \A i \in 1 .. n - 1 : stack[i] \in Frame
  BY <1>1, <1>3 DEF n
<1>5. /\ SubSeq(stack, 1, n - 1) \in Seq(Frame)
      /\ Len(SubSeq(stack, 1, n - 1)) = IF 1 <= n - 1 THEN n - 1 - 1 + 1 ELSE 0
      /\ \A i \in 1 .. n - 1 - 1 + 1 : SubSeq(stack, 1, n - 1)[i] = stack[1 + i - 1]
  BY <1>4, SubSeqProperties
<1>6. n - 1 - 1 + 1 = n - 1 /\ \A i \in 1 .. n - 1 : 1 + i - 1 = i
  BY <1>1 DEF n
<1>7. /\ Below \in Seq(Frame) /\ Len(Below) = n - 1
      /\ \A i \in 1 .. n - 1 : Below[i] = stack[i]
  BY <1>1, <1>5, <1>6 DEF Below, n
<1> QED
  BY <1>1, <1>2, <1>7 DEF n

(* The frames below a visit of an import: the top one has one less to do.  *)
UnderImport(m) == Append(Below, [Top EXCEPT !.todo = @ \ {m}])

LEMMA FramesBelow ==
  ASSUME stack \in Seq(Frame), stack # <<>>, NEW m
  PROVE  /\ UnderImport(m) \in Seq(Frame) /\ Len(UnderImport(m)) = Len(stack)
         /\ \A i \in 1 .. Len(stack) :
              /\ UnderImport(m)[i].name = stack[i].name
              /\ UnderImport(m)[i].todo = IF i = Len(stack) THEN stack[i].todo \ {m}
                                                            ELSE stack[i].todo
<1> DEFINE n == Len(stack)
           top == [Top EXCEPT !.todo = @ \ {m}]
<1>1. /\ n \in Nat \ {0} /\ Top \in Frame
      /\ Below \in Seq(Frame) /\ Len(Below) = n - 1
      /\ \A i \in 1 .. n - 1 : Below[i] = stack[i]
  BY BelowIsStack
<1>2. top \in Frame /\ top.name = Top.name /\ top.todo = Top.todo \ {m}
  BY <1>1 DEF Frame
<1> HIDE DEF top
<1>3. UnderImport(m) = Append(Below, top)
  BY DEF UnderImport, top
<1>4. /\ UnderImport(m) \in Seq(Frame) /\ Len(UnderImport(m)) = n
      /\ UnderImport(m)[n] = top
      /\ \A i \in 1 .. n - 1 : UnderImport(m)[i] = stack[i]
  BY <1>1, <1>2, <1>3
<1>5. ASSUME NEW i \in 1 .. n
      PROVE  /\ UnderImport(m)[i].name = stack[i].name
             /\ UnderImport(m)[i].todo = IF i = n THEN stack[i].todo \ {m}
                                                  ELSE stack[i].todo
  <2>1. CASE i = n
    BY <1>2, <1>4, <2>1 DEF Top
  <2>2. CASE i # n
    BY <1>1, <1>4, <2>2
  <2> QED
    BY <2>1, <2>2
<1> QED
  BY <1>4, <1>5

-----------------------------------------------------------------------------
(* What the walk is built on: types, with the lengths of its sequences.    *)
LEMMA WalkTypes ==
  ASSUME WInv
  PROVE  /\ Len(stack) \in Nat /\ Len(ordered) \in Nat
         /\ stack \in Seq(Frame) /\ ordered \in Seq(Module)
         /\ state \in [Module -> 0 .. 2] /\ cycles \subseteq Seq(Module)
         /\ \A i \in 1 .. Len(stack) :
              /\ stack[i] \in Frame
              /\ stack[i].name \in Module /\ stack[i].todo \subseteq Module
<1>1. stack \in Seq(Frame) /\ ordered \in Seq(Module)
  BY DEF WInv, TypeOK
<1>2. Len(stack) \in Nat /\ Len(ordered) \in Nat
      /\ \A i \in 1 .. Len(stack) : stack[i] \in Frame
  BY <1>1
<1>3. \A f \in Frame : f.name \in Module /\ f.todo \subseteq Module
  BY DEF Frame
<1>4. state \in [Module -> 0 .. 2] /\ cycles \subseteq Seq(Module)
  BY DEF WInv, TypeOK
<1> QED
  BY <1>1, <1>2, <1>3, <1>4

(* The names on the stack from a frame on.                                 *)
LEMMA NamesFrom ==
  ASSUME WInv, NEW i \in 1 .. Len(stack)
  PROVE  LET s == SubSeq(Names, i, Len(stack))
         IN  /\ s \in Seq(Module) /\ Len(s) = Len(stack) - i + 1
             /\ \A k \in 1 .. Len(stack) - i + 1 : s[k] = stack[i + k - 1].name
<1> DEFINE n == Len(stack)
           s == SubSeq(Names, i, n)
<1>1. n \in Nat /\ \A k \in 1 .. n : stack[k].name \in Module
  BY WalkTypes
<1>2. \A k \in 1 .. n : Names[k] = stack[k].name
  BY DEF Names
<1>3. \A k \in i .. n : Names[k] \in Module
  BY <1>1, <1>2
<1>4. i \in Int /\ n \in Int /\ i <= n
  BY <1>1
<1> HIDE DEF n
<1>5. /\ s \in Seq(Module) /\ Len(s) = IF i <= n THEN n - i + 1 ELSE 0
      /\ \A k \in 1 .. n - i + 1 : s[k] = Names[i + k - 1]
  BY <1>3, <1>4, SubSeqProperties
<1>6. \A k \in 1 .. n - i + 1 : i + k - 1 \in 1 .. n
  BY <1>4, <1>1 DEF n
<1> HIDE DEF s
<1>7. s \in Seq(Module) /\ Len(s) = n - i + 1
      /\ \A k \in 1 .. n - i + 1 : s[k] = stack[i + k - 1].name
  BY <1>2, <1>4, <1>5, <1>6 DEF n
<1> QED
  BY <1>7 DEF s, n

-----------------------------------------------------------------------------
(* The frames below a call of dfs: the stack as it is for an entry, with   *)
(* the module taken from the top frame for an import.                      *)
FramesUnder(m, below) ==
  /\ below \in Seq(Frame) /\ Len(below) = Len(stack)
  /\ \A i \in 1 .. Len(stack) : below[i].name = stack[i].name
  /\ \A i \in 1 .. Len(stack) :
       below[i].todo = IF i = Len(stack) THEN stack[i].todo \ {m} ELSE stack[i].todo
  /\ stack # <<>> => m \in Deps(stack[Len(stack)].name)

(* The call leaves the rest alone.                                         *)
CallStep(m, below) ==
  /\ Call(m, below)
  /\ library' = library /\ phase' = phase /\ ordered' = ordered /\ result' = result

(* A call that begins no visit leaves the frames below; a cycle is         *)
(* reported where the module is being visited, and only there.             *)
LEMMA CallReturns ==
  ASSUME NEW m \in Module, NEW below, CallStep(m, below), state[m] # 0
  PROVE  /\ stack' = below /\ state' = state
         /\ state[m] # 1 => cycles' = cycles
         /\ state[m] = 1 =>
              \E i \in 1 .. Len(stack) :
                /\ stack[i].name = m
                /\ cycles' = cycles \union {Append(SubSeq(Names, i, Len(stack)), m)}
<1> QED
  BY DEF CallStep, Call

(* A call that begins a visit pushes its frame.                            *)
LEMMA CallPushes ==
  ASSUME WInv, phase = "walk", NEW m \in Module, NEW below, FramesUnder(m, below),
         CallStep(m, below), state[m] = 0
  PROVE  /\ stack' \in Seq(Frame) /\ Len(stack') = Len(stack) + 1
         /\ \A i \in 1 .. Len(stack) : stack'[i] = below[i]
         /\ stack'[Len(stack) + 1].name = m
         /\ stack'[Len(stack) + 1].todo = Deps(m)
         /\ state' = [state EXCEPT ![m] = 1]
         /\ cycles' = cycles
<1> DEFINE f == [name |-> m, todo |-> Deps(m)]
<1>1. TypeOK /\ Sound(library)
  BY DEF WInv, Phases
<1>2. f \in Frame /\ f.name = m /\ f.todo = Deps(m)
  BY <1>1, DepsAreModules DEF Frame
<1> HIDE DEF f
<1>3. stack' = Append(below, f) /\ state' = [state EXCEPT ![m] = 1] /\ cycles' = cycles
  BY DEF CallStep, Call, f
<1>4. below \in Seq(Frame) /\ Len(below) = Len(stack) /\ Len(stack) \in Nat
  BY WalkTypes DEF FramesUnder
<1>5. /\ Append(below, f) \in Seq(Frame) /\ Len(Append(below, f)) = Len(stack) + 1
      /\ \A i \in 1 .. Len(stack) : Append(below, f)[i] = below[i]
      /\ Append(below, f)[Len(stack) + 1] = f
  BY <1>2, <1>4
<1> QED
  BY <1>2, <1>3, <1>5

LEMMA CallTyped ==
  ASSUME WInv, phase = "walk", NEW m \in Module, NEW below, FramesUnder(m, below),
         CallStep(m, below)
  PROVE  /\ stack' \in Seq(Frame) /\ state' \in [Module -> 0 .. 2]
         /\ cycles' \subseteq Seq(Module)
<1>0. state \in [Module -> 0 .. 2] /\ cycles \subseteq Seq(Module) /\ below \in Seq(Frame)
  BY WalkTypes DEF FramesUnder
<1>1. CASE state[m] = 0
  BY <1>0, <1>1, CallPushes
<1>2. CASE state[m] # 0
  <2>1. stack' = below /\ state' = state
    BY <1>2, CallReturns
  <2>2. CASE state[m] # 1
    BY <1>0, <1>2, <2>1, <2>2, CallReturns
  <2>3. CASE state[m] = 1
    <3>1. PICK i \in 1 .. Len(stack) :
            cycles' = cycles \union {Append(SubSeq(Names, i, Len(stack)), m)}
      BY <2>3, CallReturns
    <3> DEFINE s == SubSeq(Names, i, Len(stack))
    <3>2. s \in Seq(Module)
      BY NamesFrom
    <3> HIDE DEF s
    <3>3. Append(s, m) \in Seq(Module)
      BY <3>2
    <3>4. cycles' = cycles \union {Append(s, m)}
      BY <3>1 DEF s
    <3> QED
      BY <1>0, <2>1, <3>3, <3>4
  <2> QED
    BY <2>2, <2>3
<1> QED
  BY <1>1, <1>2

LEMMA CallMarks ==
  ASSUME WInv, phase = "walk", NEW m \in Module, NEW below, FramesUnder(m, below),
         CallStep(m, below)
  PROVE  MarksMatchWalk'
<1> DEFINE n == Len(stack)
<1>0. n \in Nat /\ state \in [Module -> 0 .. 2] /\ library' = library /\ ordered' = ordered
  BY WalkTypes DEF CallStep
<1>m. /\ \A k \in Module : /\ state[k] = 1 <=> \E i \in 1 .. n : stack[i].name = k
                           /\ state[k] = 2 <=> \E i \in 1 .. Len(ordered) : ordered[i] = k
      /\ \A i, j \in 1 .. n : stack[i].name = stack[j].name => i = j
      /\ \A i, j \in 1 .. Len(ordered) : ordered[i] = ordered[j] => i = j
      /\ \A i \in 1 .. n - 1 : stack[i + 1].name \in Deps(stack[i].name)
  BY DEF WInv, MarksMatchWalk
<1>n. Len(below) = n /\ \A i \in 1 .. n : below[i].name = stack[i].name
  BY DEF FramesUnder
<1>d. \A k : Deps(k)' = Deps(k)
  BY <1>0 DEF Deps
<1>1. CASE state[m] # 0
  <2>1. stack' = below /\ state' = state
    BY <1>1, CallReturns
  <2>2. \A i \in 1 .. n - 1 : i \in 1 .. n /\ i + 1 \in 1 .. n
    BY <1>0
  <2> HIDE DEF n
  <2>3. /\ \A k \in Module : /\ state'[k] = 1 <=> \E i \in 1 .. n : stack'[i].name = k
                             /\ state'[k] = 2 <=> \E i \in 1 .. Len(ordered) : ordered[i] = k
        /\ \A i, j \in 1 .. n : stack'[i].name = stack'[j].name => i = j
        /\ \A i \in 1 .. n - 1 : stack'[i + 1].name \in Deps(stack'[i].name)
    BY <1>m, <1>n, <2>1, <2>2
  <2> QED
    BY <1>0, <1>m, <1>n, <1>d, <2>1, <2>3 DEF MarksMatchWalk
<1>2. CASE state[m] = 0
  <2>1. /\ Len(stack') = n + 1
        /\ \A i \in 1 .. n : stack'[i].name = stack[i].name
        /\ stack'[n + 1].name = m
        /\ state' = [state EXCEPT ![m] = 1]
    BY <1>2, <1>n, CallPushes
  <2>2. \A i \in 1 .. n : stack[i].name # m
    BY <1>2, <1>m
  <2>3. ASSUME NEW k \in Module
        PROVE  /\ state'[k] = 1 <=> \E i \in 1 .. n + 1 : stack'[i].name = k
               /\ state'[k] = 2 <=> \E i \in 1 .. Len(ordered) : ordered[i] = k
    <3>1. CASE k = m
      <4>1. state'[k] = 1 /\ n + 1 \in 1 .. n + 1 /\ stack'[n + 1].name = k
        BY <1>0, <2>1, <3>1
      <4>2. ~ \E i \in 1 .. Len(ordered) : ordered[i] = k
        BY <1>2, <1>m, <3>1
      <4> QED
        BY <4>1, <4>2
    <3>2. CASE k # m
      <4>1. state'[k] = state[k]
        BY <1>0, <2>1, <3>2
      <4>2. (\E i \in 1 .. n + 1 : stack'[i].name = k) <=> \E i \in 1 .. n : stack[i].name = k
        BY <1>0, <2>1, <3>2
      <4> QED
        BY <1>m, <4>1, <4>2
    <3> QED
      BY <3>1, <3>2
  <2>4. \A i, j \in 1 .. n + 1 : stack'[i].name = stack'[j].name => i = j
    BY <1>0, <1>m, <2>1, <2>2
  <2>5. \A i \in 1 .. n : stack'[i + 1].name \in Deps(stack'[i].name)
    <3>1. n > 0 => m \in Deps(stack[n].name)
      BY <1>0 DEF FramesUnder
    <3> QED
      BY <1>0, <1>m, <2>1, <3>1
  <2>6. (n + 1) - 1 = n
    BY <1>0
  <2> HIDE DEF n
  <2> QED
    BY <1>0, <1>m, <1>d, <2>1, <2>3, <2>4, <2>5, <2>6 DEF MarksMatchWalk
<1> QED
  BY <1>1, <1>2

LEMMA CallTodo ==
  ASSUME WInv, phase = "walk", NEW m \in Module, NEW below, FramesUnder(m, below),
         CallStep(m, below)
  PROVE  TodoImported'
<1>0. Len(stack) \in Nat /\ \A k : Deps(k)' = Deps(k)
  BY WalkTypes DEF CallStep, Deps
<1>1. \A i \in 1 .. Len(stack) : below[i].todo \subseteq Deps(below[i].name)
  BY DEF WInv, FramesUnder, TodoImported
<1>2. Len(below) = Len(stack)
  BY DEF FramesUnder
<1>3. CASE state[m] # 0
  <2>1. stack' = below
    BY <1>3, CallReturns
  <2> QED
    BY <1>0, <1>1, <1>2, <2>1 DEF TodoImported
<1>4. CASE state[m] = 0
  <2>1. /\ Len(stack') = Len(stack) + 1
        /\ \A i \in 1 .. Len(stack) : stack'[i] = below[i]
        /\ stack'[Len(stack) + 1].name = m /\ stack'[Len(stack) + 1].todo = Deps(m)
    BY <1>4, CallPushes
  <2>2. \A i \in 1 .. Len(stack) + 1 : stack'[i].todo \subseteq Deps(stack'[i].name)
    BY <1>0, <1>1, <2>1
  <2> QED
    BY <1>0, <2>1, <2>2 DEF TodoImported
<1> QED
  BY <1>3, <1>4

(* The cycle a call reports: from the module's frame to the top, and back. *)
IsCycle(c) ==
  /\ Len(c) > 1 /\ c[1] = c[Len(c)]
  /\ \A i \in 1 .. Len(c) - 1 : c[i + 1] \in Deps(c[i])

LEMMA CallCycles ==
  ASSUME WInv, phase = "walk", NEW m \in Module, NEW below, FramesUnder(m, below),
         CallStep(m, below)
  PROVE  ReportedCyclesExist'
<1> DEFINE n == Len(stack)
<1>0. n \in Nat /\ \A k : Deps(k)' = Deps(k)
  BY WalkTypes DEF CallStep, Deps
<1>1. \A c \in cycles : IsCycle(c)
  BY DEF WInv, ReportedCyclesExist, IsCycle
<1>2. ASSUME NEW c \in cycles', c \notin cycles
      PROVE  IsCycle(c)
  <2>1. state[m] = 1
    BY <1>2, CallReturns, CallPushes
  <2>2. PICK i \in 1 .. n :
          /\ stack[i].name = m
          /\ cycles' = cycles \union {Append(SubSeq(Names, i, n), m)}
    BY <2>1, CallReturns
  <2> DEFINE s == SubSeq(Names, i, n)
             l == n - i + 1
  <2>3. /\ s \in Seq(Module) /\ Len(s) = l
        /\ \A k \in 1 .. l : s[k] = stack[i + k - 1].name
    BY NamesFrom
  <2>4. c = Append(s, m)
    BY <1>2, <2>2
  <2>5. l \in Nat \ {0}
    BY <1>0
  <2> HIDE DEF s, l
  <2>a. Len(c) = l + 1 /\ c[l + 1] = m /\ \A k \in 1 .. l : c[k] = s[k]
    BY <2>3, <2>4, AppendProperties
  <2>6. Len(c) = l + 1 /\ c[l + 1] = m /\ \A k \in 1 .. l : c[k] = stack[i + k - 1].name
    BY <2>3, <2>a
  <2>7. c[1] = m
    <3>1. i + 1 - 1 = i /\ 1 \in 1 .. l
      BY <1>0, <2>5 DEF l
    <3> QED
      BY <2>2, <2>6, <3>1
  <2>8. ASSUME NEW k \in 1 .. l
        PROVE  c[k + 1] \in Deps(c[k])
    <3>1. c[k] = stack[i + k - 1].name
      BY <2>6
    <3>2. CASE k = l
      <4>1. i + k - 1 = n /\ n > 0
        BY <1>0, <3>2 DEF l
      <4>2. stack # <<>> /\ c[k] = stack[n].name
        BY <3>1, <4>1
      <4> QED
        BY <2>6, <3>2, <4>2 DEF FramesUnder
    <3>3. CASE k # l
      <4>1. k + 1 \in 1 .. l /\ i + (k + 1) - 1 = (i + k - 1) + 1 /\ i + k - 1 \in 1 .. n - 1
        BY <1>0, <3>3 DEF l
      <4>2. c[k + 1] = stack[(i + k - 1) + 1].name
        BY <2>6, <4>1
      <4>3. \A j \in 1 .. n - 1 : stack[j + 1].name \in Deps(stack[j].name)
        BY DEF WInv, MarksMatchWalk
      <4> QED
        BY <3>1, <4>1, <4>2, <4>3
    <3> QED
      BY <3>2, <3>3
  <2>9. (l + 1) - 1 = l /\ l + 1 > 1
    BY <2>5
  <2> QED
    BY <2>6, <2>7, <2>8, <2>9 DEF IsCycle
<1>3. \A c \in cycles' : IsCycle(c)
  BY <1>1, <1>2
<1> QED
  BY <1>0, <1>3 DEF ReportedCyclesExist, IsCycle

LEMMA CallUnderWay ==
  ASSUME WInv, phase = "walk", NEW m \in Module, NEW below, FramesUnder(m, below),
         CallStep(m, below)
  PROVE  ImportsUnderWay'
<1> SUFFICES ASSUME cycles' = {} PROVE ImportsUnderWay'
  BY DEF ImportsUnderWay
<1> DEFINE n == Len(stack)
<1>0. n \in Nat /\ state \in [Module -> 0 .. 2] /\ \A k : Deps(k)' = Deps(k)
  BY WalkTypes DEF CallStep, Deps
<1>1. cycles = {} /\ state[m] # 1
  <2>1. CASE state[m] = 0
    BY <2>1, CallPushes
  <2>2. CASE state[m] # 0
    BY <2>2, CallReturns
  <2> QED
    BY <2>1, <2>2
<1>2. \A i \in 1 .. n : \A d \in Deps(stack[i].name) :
        d \in stack[i].todo \/ state[d] = 2 \/ (i < n /\ stack[i + 1].name = d)
  BY <1>1 DEF WInv, ImportsUnderWay
<1>n. /\ Len(below) = n
      /\ \A i \in 1 .. n : below[i].name = stack[i].name
      /\ \A i \in 1 .. n : below[i].todo = IF i = n THEN stack[i].todo \ {m} ELSE stack[i].todo
  BY DEF FramesUnder
<1>3. ASSUME NEW i \in 1 .. n, NEW d \in Deps(below[i].name)
      PROVE  \/ d \in below[i].todo \/ state[d] = 2
             \/ i < n /\ below[i + 1].name = d
             \/ i = n /\ d = m
  <2>1. i < n => below[i + 1].name = stack[i + 1].name
    <3>1. i < n => i + 1 \in 1 .. n
      BY <1>0
    <3> QED
      BY <1>n, <3>1
  <2>2. d \in stack[i].todo \/ state[d] = 2 \/ (i < n /\ stack[i + 1].name = d)
    BY <1>2, <1>n, <1>3
  <2> QED
    BY <1>n, <1>3, <2>1, <2>2
<1>4. CASE state[m] = 2
  <2>1. stack' = below /\ state' = state
    BY <1>4, CallReturns
  <2>2. \A i \in 1 .. n : \A d \in Deps(below[i].name) :
          d \in below[i].todo \/ state[d] = 2 \/ (i < n /\ below[i + 1].name = d)
    BY <1>3, <1>4
  <2> QED
    BY <1>0, <1>n, <2>1, <2>2 DEF ImportsUnderWay
<1>5. CASE state[m] = 0
  <2>1. /\ Len(stack') = n + 1
        /\ \A i \in 1 .. n : stack'[i] = below[i]
        /\ stack'[n + 1].name = m /\ stack'[n + 1].todo = Deps(m)
        /\ state' = [state EXCEPT ![m] = 1]
    BY <1>5, CallPushes
  <2>2. ASSUME NEW d, state[d] = 2
        PROVE  state'[d] = 2
    <3>1. d # m
      BY <1>5, <2>2
    <3> QED
      BY <1>0, <2>1, <2>2, <3>1
  <2>3. ASSUME NEW i \in 1 .. n + 1, NEW d \in Deps(stack'[i].name)
        PROVE  \/ d \in stack'[i].todo \/ state'[d] = 2
               \/ i < n + 1 /\ stack'[i + 1].name = d
    <3>1. CASE i = n + 1
      BY <2>1, <2>3, <3>1
    <3>2. CASE i # n + 1
      <4>1. i \in 1 .. n /\ i < n + 1 /\ (i < n => i + 1 \in 1 .. n)
        BY <1>0, <3>2
      <4>2. stack'[i] = below[i] /\ (i < n => stack'[i + 1] = below[i + 1])
            /\ (i = n => stack'[i + 1].name = m)
        BY <2>1, <4>1
      <4>3. \/ d \in below[i].todo \/ state[d] = 2
            \/ i < n /\ below[i + 1].name = d
            \/ i = n /\ d = m
        BY <1>3, <2>3, <4>1, <4>2
      <4> QED
        BY <2>2, <4>1, <4>2, <4>3
    <3> QED
      BY <3>1, <3>2
  <2> QED
    BY <1>0, <2>1, <2>3 DEF ImportsUnderWay
<1> QED
  BY <1>0, <1>1, <1>4, <1>5

(* After a call the module is marked, and what was marked still is; the    *)
(* list is as it was, and no cycle is forgotten.                           *)
LEMMA CallSees ==
  ASSUME WInv, phase = "walk", NEW m \in Module, NEW below, FramesUnder(m, below),
         CallStep(m, below)
  PROVE  /\ state'[m] # 0
         /\ \A k \in Module : state[k] # 0 => state'[k] # 0
         /\ ListInImportOrder'
<1>0. state \in [Module -> 0 .. 2] /\ ordered' = ordered /\ \A k : Deps(k)' = Deps(k)
  BY WalkTypes DEF CallStep, Deps
<1>1. ASSUME cycles' = {} => cycles = {}
      PROVE  ListInImportOrder'
  <2> SUFFICES ASSUME cycles' = {}, NEW i \in 1 .. Len(ordered), NEW d \in Deps(ordered[i])
               PROVE  \E j \in 1 .. i - 1 : ordered[j] = d
    <3>1. library' = library /\ ordered' = ordered
      BY DEF CallStep
    <3> QED
      BY <3>1 DEF ListInImportOrder, Deps
  <2> QED
    BY <1>1 DEF WInv, ListInImportOrder
<1>2. CASE state[m] = 0
  <2>1. state' = [state EXCEPT ![m] = 1] /\ cycles' = cycles
    BY <1>2, CallPushes
  <2> QED
    BY <1>0, <1>1, <2>1
<1>3. CASE state[m] # 0
  <2>1. state' = state /\ (cycles' = {} => cycles = {})
    BY <1>3, CallReturns
  <2> QED
    BY <1>1, <1>3, <2>1
<1> QED
  BY <1>2, <1>3

(* A call of a module every closed set holds visits nothing else.          *)
LEMMA CallReaches ==
  ASSUME WInv, phase = "walk", NEW m \in Module, NEW below, FramesUnder(m, below),
         CallStep(m, below), queue' \subseteq queue,
         \A S \in SUBSET Module : ClosedUnderImports(S) => m \in S
  PROVE  ReachedOnly'
<1> SUFFICES ASSUME NEW S \in SUBSET Module, ClosedUnderImports(S)'
             PROVE  /\ queue' \subseteq S
                    /\ \A i \in 1 .. Len(stack') : stack'[i].name \in S
                    /\ \A i \in 1 .. Len(ordered') : ordered'[i] \in S
  BY DEF ReachedOnly
<1>0. Len(stack) \in Nat /\ ordered' = ordered /\ library' = library /\ \A k : Deps(k)' = Deps(k)
  BY WalkTypes DEF CallStep, Deps
<1>1. ClosedUnderImports(S)
  BY <1>0 DEF ClosedUnderImports
<1>2. /\ queue \subseteq S /\ m \in S
      /\ \A i \in 1 .. Len(stack) : stack[i].name \in S
      /\ \A i \in 1 .. Len(ordered) : ordered[i] \in S
  BY <1>1 DEF WInv, ReachedOnly
<1>3. Len(below) = Len(stack) /\ \A i \in 1 .. Len(stack) : below[i].name \in S
  BY <1>2 DEF FramesUnder
<1>4. CASE state[m] = 0
  <2>1. /\ Len(stack') = Len(stack) + 1
        /\ \A i \in 1 .. Len(stack) : stack'[i] = below[i]
        /\ stack'[Len(stack) + 1].name = m
    BY <1>4, CallPushes
  <2>2. \A i \in 1 .. Len(stack') : stack'[i].name \in S
    BY <1>0, <1>2, <1>3, <2>1
  <2> QED
    BY <1>0, <1>2, <2>2
<1>5. CASE state[m] # 0
  <2>1. stack' = below
    BY <1>5, CallReturns
  <2> QED
    BY <1>0, <1>2, <1>3, <2>1
<1> QED
  BY <1>4, <1>5

(* All of the invariant but the queue's part of it.                        *)
LEMMA CallPreserves ==
  ASSUME WInv, phase = "walk", NEW m \in Module, NEW below, FramesUnder(m, below),
         CallStep(m, below), queue' \subseteq queue,
         \A k \in queue : k \in queue' \/ k = m,
         \A S \in SUBSET Module : ClosedUnderImports(S) => m \in S
  PROVE  WInv'
<1>0. library' = library /\ phase' = phase /\ ordered' = ordered /\ result' = result
  BY DEF CallStep
<1>1. TypeOK'
  <2>1. stack' \in Seq(Frame) /\ state' \in [Module -> 0 .. 2] /\ cycles' \subseteq Seq(Module)
    BY CallTyped
  <2> QED
    BY <1>0, <2>1 DEF WInv, TypeOK
<1>2. EntriesSeen'
  <2>1. Sound(library) /\ \A k \in library.entries : k \in queue \/ state[k] # 0
    BY DEF WInv, Phases, EntriesSeen
  <2>2. library.entries \subseteq Module
    BY <2>1, DepsAreModules DEF WInv
  <2>3. state'[m] # 0 /\ \A k \in Module : state[k] # 0 => state'[k] # 0
    BY CallSees
  <2>4. \A k \in library.entries : k \in queue' \/ state'[k] # 0
    BY <2>1, <2>2, <2>3
  <2> QED
    BY <1>0, <2>4 DEF EntriesSeen
<1>3. Phases'
  <2>1. Sound(library) /\ result = None
    BY DEF WInv, Phases
  <2>2. Sound(library)'
    BY <1>0, <2>1 DEF Sound
  <2> QED
    BY <1>0, <2>1, <2>2 DEF Phases
<1>4. MarksMatchWalk' /\ TodoImported' /\ ReportedCyclesExist' /\ ImportsUnderWay'
  BY CallMarks, CallTodo, CallCycles, CallUnderWay
<1>5. ListInImportOrder' /\ ReachedOnly'
  BY CallSees, CallReaches
<1> QED
  BY <1>1, <1>2, <1>3, <1>4, <1>5 DEF WInv

-----------------------------------------------------------------------------
LEMMA WInvInit == Init => WInv
<1> SUFFICES ASSUME Init PROVE WInv
  OBVIOUS
<1>1. library \in Library
  BY LibraryAssumption DEF Init
<1>2. Len(stack) = 0 /\ Len(ordered) = 0
  BY DEF Init
<1>3. TypeOK
  BY <1>1 DEF Init, TypeOK
<1>4. MarksMatchWalk /\ TodoImported /\ ReportedCyclesExist /\ ImportsUnderWay
  BY <1>2 DEF Init, MarksMatchWalk, TodoImported, ReportedCyclesExist, ImportsUnderWay
<1>5. ListInImportOrder /\ EntriesSeen /\ ReachedOnly /\ Phases
  BY <1>2 DEF Init, ListInImportOrder, EntriesSeen, ReachedOnly, Phases
<1> QED
  BY <1>3, <1>4, <1>5 DEF WInv

(* What does not change with the stack, the marks, the list and the cycles.*)
LEMMA WalkUnchanged ==
  ASSUME WInv, UNCHANGED <<library, stack, state, ordered, cycles>>
  PROVE  /\ MarksMatchWalk' /\ TodoImported' /\ ReportedCyclesExist'
         /\ ImportsUnderWay' /\ ListInImportOrder'
<1>1. \A k : Deps(k)' = Deps(k)
  BY DEF Deps
<1>2. MarksMatchWalk'
  BY <1>1 DEF WInv, MarksMatchWalk
<1>3. TodoImported' /\ ReportedCyclesExist'
  BY <1>1 DEF WInv, TodoImported, ReportedCyclesExist
<1>4. ImportsUnderWay' /\ ListInImportOrder'
  BY <1>1 DEF WInv, ImportsUnderWay, ListInImportOrder
<1> QED
  BY <1>2, <1>3, <1>4

(* Nothing of the walk changes, and no module is queued but entries.       *)
LEMMA ReachedUnchanged ==
  ASSUME WInv, UNCHANGED <<library, stack, ordered>>,
         queue' \subseteq queue \union library.entries
  PROVE  ReachedOnly'
<1> SUFFICES ASSUME NEW S \in SUBSET Module, ClosedUnderImports(S)'
             PROVE  /\ queue' \subseteq S
                    /\ \A i \in 1 .. Len(stack') : stack'[i].name \in S
                    /\ \A i \in 1 .. Len(ordered') : ordered'[i] \in S
  BY DEF ReachedOnly
<1>1. ClosedUnderImports(S)
  BY DEF ClosedUnderImports, Deps
<1>2. library.entries \subseteq S
  BY <1>1 DEF ClosedUnderImports
<1> QED
  BY <1>1, <1>2 DEF WInv, ReachedOnly

LEMMA RejectIndexPreserves ==
  ASSUME WInv, RejectIndex
  PROVE  WInv'
<1>1. phase = "check" /\ ~ Sound(library) /\ phase' = "done"
      /\ UNCHANGED <<library, queue, stack, state, ordered, cycles, result>>
  BY DEF RejectIndex
<1>2. TypeOK'
  BY <1>1 DEF WInv, TypeOK
<1>3. ~ Sound(library)'
  BY <1>1 DEF Sound
<1>4. EntriesSeen' /\ Phases'
  BY <1>1, <1>3 DEF WInv, EntriesSeen, Phases
<1> QED
  BY <1>1, <1>2, <1>4, WalkUnchanged, ReachedUnchanged DEF WInv

LEMMA StartWalkPreserves ==
  ASSUME WInv, StartWalk
  PROVE  WInv'
<1>1. /\ phase = "check" /\ Sound(library) /\ phase' = "walk" /\ queue' = library.entries
      /\ UNCHANGED <<library, stack, state, ordered, cycles, result>>
  BY DEF StartWalk
<1>2. library.entries \subseteq Module
  BY <1>1, DepsAreModules DEF WInv
<1>3. TypeOK'
  BY <1>1, <1>2 DEF WInv, TypeOK
<1>4. Sound(library)'
  BY <1>1 DEF Sound
<1>5. EntriesSeen' /\ Phases'
  BY <1>1, <1>4 DEF WInv, EntriesSeen, Phases
<1> QED
  BY <1>1, <1>3, <1>5, WalkUnchanged, ReachedUnchanged DEF WInv

LEMMA VisitEntryPreserves ==
  ASSUME WInv, VisitEntry
  PROVE  WInv'
<1>1. PICK m : m = Least(queue)
  OBVIOUS
<1>2. /\ phase = "walk" /\ stack = <<>> /\ queue # {} /\ queue' = queue \ {m}
      /\ CallStep(m, stack)
  BY <1>1 DEF VisitEntry, CallStep
<1>3. queue \subseteq Module /\ queue \in SUBSET Nat
  BY LibraryAssumption DEF WInv, TypeOK
<1>4. m \in queue /\ m \in Module
  BY <1>1, <1>2, <1>3, LeastIsMember
<1>5. FramesUnder(m, stack)
  BY <1>2, WalkTypes DEF FramesUnder
<1>6. \A S \in SUBSET Module : ClosedUnderImports(S) => m \in S
  BY <1>4 DEF WInv, ReachedOnly
<1> QED
  BY <1>2, <1>4, <1>5, <1>6, CallPreserves

LEMMA VisitImportPreserves ==
  ASSUME WInv, VisitImport
  PROVE  WInv'
<1> DEFINE n == Len(stack)
<1>1. PICK m : m = Least(Top.todo)
  OBVIOUS
<1>2. /\ phase = "walk" /\ stack # <<>> /\ Top.todo # {} /\ queue' = queue
      /\ CallStep(m, UnderImport(m))
  BY <1>1 DEF VisitImport, CallStep, UnderImport
<1>3. n \in Nat \ {0} /\ stack \in Seq(Frame)
  BY <1>2, WalkTypes
<1>4. Top = stack[n] /\ stack[n].todo \subseteq Module
  BY <1>3, WalkTypes DEF Top
<1>5. m \in stack[n].todo /\ m \in Module
  BY <1>1, <1>2, <1>4, LibraryAssumption, LeastIsMember
<1>6. m \in Deps(stack[n].name)
  BY <1>3, <1>5 DEF WInv, TodoImported
<1>7. FramesUnder(m, UnderImport(m))
  BY <1>2, <1>3, <1>6, FramesBelow DEF FramesUnder
<1>8. ASSUME NEW S \in SUBSET Module, ClosedUnderImports(S)
      PROVE  m \in S
  <2>1. stack[n].name \in S
    BY <1>3, <1>8 DEF WInv, ReachedOnly
  <2> QED
    BY <1>6, <1>8, <2>1 DEF ClosedUnderImports
<1>9. PICK below : below = UnderImport(m)
  OBVIOUS
<1> QED
  BY <1>2, <1>5, <1>7, <1>8, <1>9, CallPreserves

LEMMA LeavePreserves ==
  ASSUME WInv, Leave
  PROVE  WInv'
<1> DEFINE n == Len(stack)
           l == Len(ordered)
<1>1. PICK m : m = stack[n].name
  OBVIOUS
<1>2. /\ phase = "walk" /\ stack # <<>> /\ Top.todo = {}
      /\ state' = [state EXCEPT ![Top.name] = 2]
      /\ ordered' = Append(ordered, Top.name) /\ stack' = Below
      /\ UNCHANGED <<library, phase, queue, cycles, result>>
  BY DEF Leave
<1>3. /\ stack \in Seq(Frame) /\ n \in Nat \ {0}
      /\ stack' \in Seq(Frame) /\ Len(stack') = n - 1
      /\ \A i \in 1 .. n - 1 : stack'[i] = stack[i]
  BY <1>2, WalkTypes, BelowIsStack
<1>4. /\ stack[n].todo = {} /\ m \in Module /\ state' = [state EXCEPT ![m] = 2]
      /\ ordered' = Append(ordered, m)
  BY <1>1, <1>2, <1>3, WalkTypes DEF Top
<1>5. l \in Nat /\ ordered \in Seq(Module) /\ state \in [Module -> 0 .. 2]
  BY WalkTypes
<1>6. /\ ordered' \in Seq(Module) /\ Len(ordered') = l + 1 /\ ordered'[l + 1] = m
      /\ \A i \in 1 .. l : ordered'[i] = ordered[i]
  BY <1>4, <1>5
<1>7. \A k : Deps(k)' = Deps(k)
  BY <1>2 DEF Deps
<1>8. TypeOK'
  <2>1. state' \in [Module -> 0 .. 2]
    BY <1>4, <1>5
  <2>2. UNCHANGED <<library, phase, queue, cycles, result>>
    BY <1>2
  <2> QED
    BY <1>3, <1>6, <2>1, <2>2 DEF WInv, TypeOK
<1>m. /\ \A k \in Module : /\ state[k] = 1 <=> \E i \in 1 .. n : stack[i].name = k
                           /\ state[k] = 2 <=> \E i \in 1 .. l : ordered[i] = k
      /\ \A i, j \in 1 .. n : stack[i].name = stack[j].name => i = j
      /\ \A i, j \in 1 .. l : ordered[i] = ordered[j] => i = j
      /\ \A i \in 1 .. n - 1 : stack[i + 1].name \in Deps(stack[i].name)
  BY DEF WInv, MarksMatchWalk
<1>9. state[m] = 1 /\ (\A i \in 1 .. n - 1 : stack[i].name # m)
      /\ (\A i \in 1 .. l : ordered[i] # m)
  BY <1>1, <1>3, <1>4, <1>m
<1>10. MarksMatchWalk'
  <2>1. ASSUME NEW k \in Module
        PROVE  /\ state'[k] = 1 <=> \E i \in 1 .. n - 1 : stack'[i].name = k
               /\ state'[k] = 2 <=> \E i \in 1 .. l + 1 : ordered'[i] = k
    <3>1. CASE k = m
      BY <1>3, <1>4, <1>5, <1>6, <1>9, <3>1
    <3>2. CASE k # m
      <4>1. state'[k] = state[k]
        BY <1>4, <1>5, <3>2
      <4>2. (\E i \in 1 .. n - 1 : stack'[i].name = k) <=> \E i \in 1 .. n : stack[i].name = k
        BY <1>1, <1>3, <3>2
      <4>3. (\E i \in 1 .. l + 1 : ordered'[i] = k) <=> \E i \in 1 .. l : ordered[i] = k
        BY <1>5, <1>6, <3>2
      <4> QED
        BY <1>m, <4>1, <4>2, <4>3
    <3> QED
      BY <3>1, <3>2
  <2>2. \A i, j \in 1 .. n - 1 : stack'[i].name = stack'[j].name => i = j
    <3>1. \A i \in 1 .. n - 1 : i \in 1 .. n /\ stack'[i].name = stack[i].name
      BY <1>3
    <3> QED
      BY <1>m, <3>1
  <2>3. \A i, j \in 1 .. l + 1 : ordered'[i] = ordered'[j] => i = j
    <3>1. \A i \in 1 .. l + 1 :
            (i = l + 1 /\ ordered'[i] = m) \/ (i \in 1 .. l /\ ordered'[i] = ordered[i])
      <4> HIDE DEF l
      <4>1. \A i \in 1 .. l + 1 : i = l + 1 \/ i \in 1 .. l
        BY <1>5
      <4> QED
        BY <1>6, <4>1
    <3>2. \A i, j \in 1 .. l : ordered[i] = ordered[j] => i = j
      BY <1>m
    <3> HIDE DEF l
    <3> QED
      BY <1>9, <3>1, <3>2
  <2>4. \A i \in 1 .. (n - 1) - 1 : stack'[i + 1].name \in Deps(stack'[i].name)
    <3>1. \A i \in 1 .. (n - 1) - 1 : /\ i \in 1 .. n - 1
                                    /\ stack'[i] = stack[i] /\ stack'[i + 1] = stack[i + 1]
      BY <1>3
    <3> HIDE DEF n
    <3> QED
      BY <1>m, <3>1
  <2> HIDE DEF n, l
  <2> QED
    BY <1>3, <1>6, <1>7, <2>1, <2>2, <2>3, <2>4 DEF MarksMatchWalk
<1>11. TodoImported'
  <2>1. \A i \in 1 .. n - 1 : stack'[i].todo \subseteq Deps(stack'[i].name)
    BY <1>3 DEF WInv, TodoImported
  <2> QED
    BY <1>3, <1>7, <2>1 DEF TodoImported
<1>12. ReportedCyclesExist'
  BY <1>2, <1>7 DEF WInv, ReportedCyclesExist
<1>13. ASSUME cycles = {}
       PROVE  \A i \in 1 .. n : \A d \in Deps(stack[i].name) :
                d \in stack[i].todo \/ state[d] = 2 \/ (i < n /\ stack[i + 1].name = d)
  BY <1>13 DEF WInv, ImportsUnderWay
<1>14. \A d : state[d] = 2 => state'[d] = 2
  BY <1>4, <1>5, <1>9
<1>15. ImportsUnderWay'
  <2>1. ASSUME cycles = {}, NEW i \in 1 .. n - 1, NEW d \in Deps(stack[i].name)
        PROVE  \/ d \in stack[i].todo \/ state'[d] = 2
               \/ i < n - 1 /\ stack'[i + 1].name = d
    <3>1. i \in 1 .. n /\ i < n
      BY <1>3
    <3>2. d \in stack[i].todo \/ state[d] = 2 \/ stack[i + 1].name = d
      BY <1>13, <2>1, <3>1
    <3>3. CASE i = n - 1
      <4>1. stack[i + 1].name = m /\ state'[m] = 2
        BY <1>1, <1>3, <1>4, <1>5, <3>3
      <4> QED
        BY <1>14, <3>2, <4>1
    <3>4. CASE i # n - 1
      <4>1. i < n - 1 /\ stack'[i + 1] = stack[i + 1]
        BY <1>3, <3>4
      <4> QED
        BY <1>14, <3>2, <4>1
    <3> QED
      BY <3>3, <3>4
  <2>2. cycles' = cycles /\ Len(stack') = n - 1
    BY <1>2, <1>3
  <2>3. ASSUME cycles = {}
        PROVE  \A i \in 1 .. n - 1 : \A d \in Deps(stack'[i].name) :
                 \/ d \in stack'[i].todo \/ state'[d] = 2
                 \/ i < n - 1 /\ stack'[i + 1].name = d
    BY <1>3, <2>1, <2>3
  <2> HIDE DEF n
  <2> QED
    BY <1>7, <2>2, <2>3 DEF ImportsUnderWay
<1>16. ListInImportOrder'
  <2> SUFFICES ASSUME cycles = {}, NEW i \in 1 .. l + 1, NEW d \in Deps(ordered'[i])
               PROVE  \E j \in 1 .. i - 1 : ordered'[j] = d
    BY <1>2, <1>6, <1>7 DEF ListInImportOrder
  <2>1. CASE i = l + 1
    <3>1. d \in Deps(m)
      BY <1>6, <2>1
    <3>2. d \in Module
      BY <1>2, <1>4, <3>1, DepsAreModules DEF WInv, Phases
    <3>3. state[d] = 2
      <4>1. n \in 1 .. n /\ d \in Deps(stack[n].name) /\ d \notin stack[n].todo /\ ~ (n < n)
        BY <1>1, <1>3, <1>4, <3>1
      <4> QED
        BY <1>13, <4>1
    <3>4. PICK j \in 1 .. l : ordered[j] = d
      BY <1>m, <3>2, <3>3
    <3> QED
      BY <1>5, <1>6, <2>1, <3>4
  <2>2. CASE i # l + 1
    <3>1. i \in 1 .. l /\ ordered'[i] = ordered[i]
      BY <1>5, <1>6, <2>2
    <3>2. PICK j \in 1 .. i - 1 : ordered[j] = d
      BY <3>1 DEF WInv, ListInImportOrder
    <3>3. j \in 1 .. l
      BY <1>5, <3>1
    <3> QED
      BY <1>6, <3>2, <3>3
  <2> QED
    BY <2>1, <2>2
<1>17. EntriesSeen'
  <2>1. Sound(library) /\ \A k \in library.entries : k \in queue \/ state[k] # 0
    BY <1>2 DEF WInv, Phases, EntriesSeen
  <2>2. library.entries \subseteq Module
    BY <2>1, DepsAreModules DEF WInv
  <2>3. \A k \in Module : state[k] # 0 => state'[k] # 0
    BY <1>4, <1>5
  <2>4. \A k \in library.entries : k \in queue' \/ state'[k] # 0
    BY <1>2, <2>1, <2>2, <2>3
  <2> QED
    BY <1>2, <2>4 DEF EntriesSeen
<1>18. ReachedOnly'
  <2> SUFFICES ASSUME NEW S \in SUBSET Module, ClosedUnderImports(S)'
               PROVE  /\ queue' \subseteq S
                      /\ \A i \in 1 .. Len(stack') : stack'[i].name \in S
                      /\ \A i \in 1 .. Len(ordered') : ordered'[i] \in S
    BY DEF ReachedOnly
  <2>1. ClosedUnderImports(S)
    BY <1>2, <1>7 DEF ClosedUnderImports
  <2>2. /\ queue \subseteq S
        /\ \A i \in 1 .. n : stack[i].name \in S
        /\ \A i \in 1 .. l : ordered[i] \in S
    BY <2>1 DEF WInv, ReachedOnly
  <2> QED
    BY <1>1, <1>2, <1>3, <1>5, <1>6, <2>2
<1>19. Phases'
  <2>1. Sound(library) /\ result = None
    BY <1>2 DEF WInv, Phases
  <2>2. Sound(library)'
    BY <1>2, <2>1 DEF Sound
  <2> QED
    BY <1>2, <2>1, <2>2 DEF Phases
<1> QED
  BY <1>8, <1>10, <1>11, <1>12, <1>15, <1>16, <1>17, <1>18, <1>19 DEF WInv

LEMMA FinishPreserves ==
  ASSUME WInv, Finish
  PROVE  WInv'
<1>1. /\ phase = "walk" /\ stack = <<>> /\ queue = {} /\ phase' = "done"
      /\ result' = (IF cycles = {} THEN ordered ELSE None)
      /\ UNCHANGED <<library, queue, stack, state, ordered, cycles>>
  BY DEF Finish
<1>2. TypeOK'
  BY <1>1 DEF WInv, TypeOK
<1>3. Sound(library) /\ Sound(library)'
  BY <1>1 DEF WInv, Phases, Sound
<1>4. EntriesSeen'
  BY <1>1, <1>3 DEF WInv, EntriesSeen
<1>5. Phases'
  <2>1. ordered # None
    BY LibraryAssumption DEF WInv, TypeOK
  <2> QED
    BY <1>1, <1>3, <2>1 DEF Phases
<1> QED
  BY <1>1, <1>2, <1>4, <1>5, WalkUnchanged, ReachedUnchanged DEF WInv

LEMMA WInvNext == WInv /\ [Next]_vars => WInv'
<1> SUFFICES ASSUME WInv, [Next]_vars PROVE WInv'
  OBVIOUS
<1>1. CASE RejectIndex
  BY <1>1, RejectIndexPreserves
<1>2. CASE StartWalk
  BY <1>2, StartWalkPreserves
<1>3. CASE VisitEntry
  BY <1>3, VisitEntryPreserves
<1>4. CASE VisitImport
  BY <1>4, VisitImportPreserves
<1>5. CASE Leave
  BY <1>5, LeavePreserves
<1>6. CASE Finish
  BY <1>6, FinishPreserves
<1>7. CASE UNCHANGED vars
  <2>1. UNCHANGED <<library, phase, queue, stack, state, ordered, cycles, result>>
    BY <1>7 DEF vars
  <2>2. TypeOK'
    BY <2>1 DEF WInv, TypeOK
  <2>3. Sound(library)' <=> Sound(library)
    BY <2>1 DEF Sound
  <2>4. EntriesSeen' /\ Phases'
    BY <2>1, <2>3 DEF WInv, EntriesSeen, Phases
  <2> QED
    BY <2>1, <2>2, <2>4, WalkUnchanged, ReachedUnchanged DEF WInv
<1> QED
  BY <1>1, <1>2, <1>3, <1>4, <1>5, <1>6, <1>7 DEF Next

(* The invariant the theorems below rest on (modules.py:                   *)
(* resolve_import_closure, between any two steps of the walk).             *)
THEOREM WalkInvariant == Spec => []WInv
<1> QED
  BY WInvInit, WInvNext, PTL DEF Spec

-----------------------------------------------------------------------------
(* The walk keeps its types, on libraries of any size (modules.py:         *)
(* resolve_import_closure, its stack, marks and list).                     *)
THEOREM WalkKeepsTypes == Spec => []TypeOK
<1>1. WInv => TypeOK
  BY DEF WInv
<1> QED
  BY <1>1, WalkInvariant, PTL

(* The marks of dfs always agree with its stack and the list: a module is  *)
(* on the stack at most once, so the recursion is never deeper than the    *)
(* library has modules, and listed at most once (modules.py: dfs).         *)
THEOREM MarksAlwaysMatch == Spec => []MarksMatchWalk
<1>1. WInv => MarksMatchWalk
  BY DEF WInv
<1> QED
  BY <1>1, WalkInvariant, PTL

(* Every cycle reported is a cycle of imports (modules.py: the slice of    *)
(* the stack dfs reports).                                                 *)
THEOREM ReportedCyclesAreCycles == Spec => []ReportedCyclesExist
<1>1. WInv => ReportedCyclesExist
  BY DEF WInv
<1> QED
  BY <1>1, WalkInvariant, PTL

(* What is returned: modules each once and after all they import, among    *)
(* them the entries, and none but those every set with the entries and     *)
(* closed under imports holds: the import closure, in import order.        *)
Returned == {result[i] : i \in 1 .. Len(result)}

ReturnsImportClosure ==
  result # None =>
    /\ \A i, j \in 1 .. Len(result) : result[i] = result[j] => i = j
    /\ \A i \in 1 .. Len(result) : \A d \in Deps(result[i]) :
         \E j \in 1 .. i - 1 : result[j] = d
    /\ ClosedUnderImports(Returned)
    /\ \A S \in SUBSET Module : ClosedUnderImports(S) => Returned \subseteq S

LEMMA InvariantReturnsClosure ==
  ASSUME WInv
  PROVE  ReturnsImportClosure
<1> SUFFICES ASSUME result # None
             PROVE  /\ \A i, j \in 1 .. Len(result) : result[i] = result[j] => i = j
                    /\ \A i \in 1 .. Len(result) : \A d \in Deps(result[i]) :
                         \E j \in 1 .. i - 1 : result[j] = d
                    /\ ClosedUnderImports(Returned)
                    /\ \A S \in SUBSET Module : ClosedUnderImports(S) => Returned \subseteq S
  BY DEF ReturnsImportClosure
<1>1. result = ordered /\ cycles = {} /\ Sound(library) /\ stack = <<>> /\ queue = {}
      /\ phase = "done"
  BY DEF WInv, Phases, TypeOK
<1>2. Len(ordered) \in Nat /\ Len(stack) = 0 /\ state \in [Module -> 0 .. 2]
  BY <1>1, WalkTypes
<1>3. \A i, j \in 1 .. Len(ordered) : ordered[i] = ordered[j] => i = j
  BY DEF WInv, MarksMatchWalk
<1>4. \A i \in 1 .. Len(ordered) : \A d \in Deps(ordered[i]) :
        \E j \in 1 .. i - 1 : ordered[j] = d
  BY <1>1 DEF WInv, ListInImportOrder
<1>5. library.entries \subseteq Returned
  <2> SUFFICES ASSUME NEW m \in library.entries PROVE m \in Returned
    OBVIOUS
  <2>1. m \in Module
    BY <1>1, DepsAreModules DEF WInv
  <2>2. state[m] # 0
    BY <1>1 DEF WInv, EntriesSeen
  <2>3. state[m] # 1
    BY <1>2, <2>1 DEF WInv, MarksMatchWalk
  <2>4. state[m] = 2
    BY <1>2, <2>1, <2>2, <2>3
  <2>5. PICK i \in 1 .. Len(ordered) : ordered[i] = m
    BY <2>1, <2>4 DEF WInv, MarksMatchWalk
  <2> QED
    BY <1>1, <2>5 DEF Returned
<1>6. \A m \in Returned : Deps(m) \subseteq Returned
  BY <1>1, <1>2, <1>4 DEF Returned
<1>7. \A S \in SUBSET Module : ClosedUnderImports(S) => Returned \subseteq S
  BY <1>1 DEF WInv, ReachedOnly, Returned
<1> QED
  BY <1>1, <1>3, <1>4, <1>5, <1>6, <1>7 DEF ClosedUnderImports

(* The list returned is the import closure, in import order, on libraries  *)
(* of any size (modules.py: resolve_import_closure).                       *)
THEOREM ReturnedListIsClosure == Spec => []ReturnsImportClosure
<1> QED
  BY InvariantReturnsClosure, WalkInvariant, PTL

(* A sound library is rejected for a cycle the walk reports, and one that  *)
(* is not rejected has none among what is returned.                        *)
NoCycleIn(S) ==
  \A c \in Seq(Module) : ~ (IsCycle(c) /\ c[1] \in S)

RejectsCycles ==
  phase = "done" /\ Sound(library) =>
    IF result = None THEN \E c \in cycles : IsCycle(c) ELSE NoCycleIn(Returned)

(* A list in import order holds no cycle: the one of its modules that is   *)
(* listed first would be listed after the next.                            *)
LEMMA ImportOrderHasNoCycle ==
  ASSUME WInv, result # None
  PROVE  NoCycleIn(Returned)
<1> SUFFICES ASSUME NEW c \in Seq(Module), IsCycle(c), c[1] \in Returned
             PROVE  FALSE
  BY DEF NoCycleIn
<1> DEFINE n == Len(c)
<1>1. n \in Nat /\ n > 1 /\ c[1] = c[n] /\ \A k \in 1 .. n - 1 : c[k + 1] \in Deps(c[k])
  BY DEF IsCycle
<1>2. result \in Seq(Module) /\ Len(result) \in Nat
  BY DEF WInv, TypeOK
<1>3. \A i \in 1 .. Len(result) : \A d \in Deps(result[i]) :
        \E j \in 1 .. i - 1 : result[j] = d
  BY InvariantReturnsClosure DEF ReturnsImportClosure
<1>4. \A m \in Returned : Deps(m) \subseteq Returned
  BY InvariantReturnsClosure DEF ReturnsImportClosure, ClosedUnderImports
<1> HIDE DEF n
<1>5. \A k \in 1 .. n : c[k] \in Returned
  <2> DEFINE Out == {k \in 1 .. n : c[k] \notin Returned}
  <2>1. SUFFICES ASSUME Out # {} PROVE FALSE
    OBVIOUS
  <2>2. Out \in SUBSET Nat
    BY <1>1
  <2> DEFINE k == Least(Out)
  <2>3. k \in Out /\ \A y \in Out : k <= y
    BY <2>1, <2>2, LeastIsMember
  <2> HIDE DEF k
  <2>4. k \in 2 .. n
    BY <1>1, <2>3
  <2>5. k - 1 \in 1 .. n - 1 /\ (k - 1) + 1 = k /\ ~ (k <= k - 1)
    BY <1>1, <2>4
  <2>6. c[k - 1] \in Returned
    BY <1>1, <2>3, <2>5
  <2>7. c[k] \in Deps(c[k - 1])
    BY <1>1, <2>5
  <2> QED
    BY <1>4, <2>3, <2>6, <2>7
<1> DEFINE At == {i \in 1 .. Len(result) : \E k \in 1 .. n : result[i] = c[k]}
<1>6. At \in SUBSET Nat /\ At # {}
  <2>1. 1 \in 1 .. n /\ c[1] \in Returned
    BY <1>1, <1>5
  <2>2. PICK i \in 1 .. Len(result) : result[i] = c[1]
    BY <2>1 DEF Returned
  <2>3. i \in At
    BY <2>1, <2>2
  <2>4. At \in SUBSET Nat
    BY <1>2
  <2> QED
    BY <2>3, <2>4
<1> DEFINE i == Least(At)
<1>7. i \in At /\ \A j \in At : i <= j
  BY <1>6, LeastIsMember
<1> HIDE DEF i
<1>8. PICK k \in 1 .. n : result[i] = c[k]
  BY <1>7
<1>9. PICK next \in 1 .. n : c[next] \in Deps(result[i])
  <2>1. CASE k = n
    <3>1. 1 \in 1 .. n - 1 /\ 1 + 1 = 2 /\ 2 \in 1 .. n
      BY <1>1
    <3> QED
      BY <1>1, <1>8, <2>1, <3>1
  <2>2. CASE k # n
    <3>1. k \in 1 .. n - 1 /\ k + 1 \in 1 .. n
      BY <1>1, <2>2
    <3> QED
      BY <1>1, <1>8, <3>1
  <2> QED
    BY <2>1, <2>2
<1>10. PICK j \in 1 .. i - 1 : result[j] = c[next]
  BY <1>3, <1>7, <1>9
<1>11. j \in At /\ ~ (i <= j)
  BY <1>2, <1>7, <1>10
<1> QED
  BY <1>7, <1>11

(* Rejected are the libraries with a cycle, and only they, whatever their  *)
(* size and whichever entry a cycle is met from (modules.py: dfs and the   *)
(* diagnostics it returns).                                                *)
THEOREM RejectedExactlyForCycles == Spec => []RejectsCycles
<1>1. WInv => RejectsCycles
  <2> SUFFICES ASSUME WInv, phase = "done", Sound(library)
               PROVE  IF result = None THEN \E c \in cycles : IsCycle(c)
                                       ELSE NoCycleIn(Returned)
    BY DEF RejectsCycles
  <2>1. CASE result = None
    <3>1. cycles # {}
      BY <2>1 DEF WInv, Phases
    <3> QED
      BY <2>1, <3>1 DEF WInv, ReportedCyclesExist, IsCycle
  <2>2. CASE result # None
    BY <2>2, ImportOrderHasNoCycle
  <2> QED
    BY <2>1, <2>2
<1> QED
  BY <1>1, WalkInvariant, PTL

-----------------------------------------------------------------------------
(* The import closure of a library, as a set.                              *)

LEMMA ClosedIsClosedIn ==
  ASSUME NEW S
  PROVE  ClosedUnderImports(S) <=> library.entries \subseteq S /\ ClosedIn(library, S)
BY DEF ClosedUnderImports, ClosedIn, Deps

LEMMA ClosureIsReturned ==
  ASSUME WInv, result # None
  PROVE  Returned = ClosureOf(library)
<1>1. DOMAIN library.imports = Module
  BY DEF WInv, TypeOK, Library
<1>2. result \in Seq(Module) /\ Len(result) \in Nat
  BY DEF WInv, TypeOK
<1>3. Returned \in SUBSET Module
  BY <1>2 DEF Returned
<1>4. /\ ClosedUnderImports(Returned)
      /\ \A S \in SUBSET Module : ClosedUnderImports(S) => Returned \subseteq S
  BY InvariantReturnsClosure DEF ReturnsImportClosure
<1>5. PICK R : R = Returned
  OBVIOUS
<1>6. /\ R \in SUBSET Module /\ library.entries \subseteq R /\ ClosedIn(library, R)
      /\ \A S \in SUBSET Module :
           library.entries \subseteq S /\ ClosedIn(library, S) => R \subseteq S
  BY <1>3, <1>4, <1>5, ClosedIsClosedIn
<1>7. ClosureOf(library) =
        {m \in Module : \A S \in SUBSET Module :
           library.entries \subseteq S /\ ClosedIn(library, S) => m \in S}
  BY <1>1 DEF ClosureOf, ReachIn
<1>8. R = ClosureOf(library)
  BY <1>6, <1>7
<1> QED
  BY <1>5, <1>8

(* A list without repetition is as long as the set of what it holds.       *)
LEMMA LengthIsCardinality ==
  ASSUME NEW S, NEW s \in Seq(S),
         \A i, j \in 1 .. Len(s) : s[i] = s[j] => i = j
  PROVE  /\ IsFiniteSet({s[i] : i \in 1 .. Len(s)})
         /\ Cardinality({s[i] : i \in 1 .. Len(s)}) = Len(s)
<1> DEFINE n == Len(s)
           T == {s[i] : i \in 1 .. n}
           f == [i \in 1 .. n |-> s[i]]
<1>1. n \in Nat
  OBVIOUS
<1>2. IsFiniteSet(1 .. n) /\ Cardinality(1 .. n) = n
  <2> HIDE DEF n
  <2> QED BY <1>1, FS_Interval
<1>3. f \in Bijection(1 .. n, T)
  <2>1. f \in [1 .. n -> T]
    OBVIOUS
  <2>2. \A i, j \in 1 .. n : f[i] = f[j] => i = j
    OBVIOUS
  <2>3. \A t \in T : \E i \in 1 .. n : f[i] = t
    OBVIOUS
  <2> HIDE DEF f, T, n
  <2> QED BY <2>1, <2>2, <2>3, Fun_IsBij
<1> HIDE DEF f, T, n
<1>4. IsFiniteSet(T) /\ Cardinality(T) = Cardinality(1 .. n)
  BY <1>2, <1>3, FS_Bijection, Fun_ExistsBij DEF ExistsBijection
<1> QED
  BY <1>2, <1>4 DEF T, n

(* The list returned holds the modules of the import closure and no        *)
(* others, each once and after everything it imports, on libraries of any  *)
(* size (modules.py: resolve_import_closure).                              *)
THEOREM ClosureAlwaysInImportOrder == Spec => []ClosureInImportOrder
<1>1. ASSUME WInv, result # None
      PROVE  /\ Returned = ClosureOf(library)
             /\ Len(result) = Cardinality(ClosureOf(library))
             /\ \A i \in 1 .. Len(result) : \A d \in Deps(result[i]) :
                  \E j \in 1 .. i - 1 : result[j] = d
  <2>1. /\ \A i, j \in 1 .. Len(result) : result[i] = result[j] => i = j
        /\ \A i \in 1 .. Len(result) : \A d \in Deps(result[i]) :
             \E j \in 1 .. i - 1 : result[j] = d
    BY <1>1, InvariantReturnsClosure DEF ReturnsImportClosure
  <2>2. result \in Seq(Module)
    BY <1>1 DEF WInv, TypeOK
  <2>3. Cardinality(Returned) = Len(result)
    BY <2>1, <2>2, LengthIsCardinality DEF Returned
  <2>4. Returned = ClosureOf(library)
    BY <1>1, ClosureIsReturned
  <2> QED
    BY <2>1, <2>3, <2>4
<1>2. WInv => ClosureInImportOrder
  BY <1>1 DEF ClosureInImportOrder, Returned
<1> QED
  BY <1>2, WalkInvariant, PTL

-----------------------------------------------------------------------------
(* The cycles reported are in the import closure.                          *)

CyclesReached ==
  \A S \in SUBSET Module : ClosedUnderImports(S) => \A c \in cycles : c[1] \in S

LEMMA CallReachesCycles ==
  ASSUME WInv, WInv', CyclesReached, NEW m, NEW below, Call(m, below),
         library' = library
  PROVE  CyclesReached'
<1> SUFFICES ASSUME NEW S \in SUBSET Module, ClosedUnderImports(S)',
                    NEW c \in cycles'
             PROVE  c[1] \in S
  BY DEF CyclesReached
<1>1. ClosedUnderImports(S)
  BY DEF ClosedUnderImports, Deps
<1>2. CASE c \in cycles
  BY <1>1, <1>2 DEF CyclesReached
<1>3. CASE c \notin cycles
  <2>1. PICK i \in 1 .. Len(stack) :
          /\ stack[i].name = m
          /\ c = Append(SubSeq(Names, i, Len(stack)), m)
    BY <1>3 DEF Call
  <2>2. m \in Module /\ m \in S
    BY <1>1, <2>1, WalkTypes DEF WInv, ReachedOnly
  <2>3. PICK s : s = SubSeq(Names, i, Len(stack))
    OBVIOUS
  <2>4. s \in Seq(Module)
    BY <2>3, NamesFrom
  <2>5. c[Len(c)] = m
    BY <2>1, <2>2, <2>3, <2>4, AppendProperties
  <2>6. c[1] = c[Len(c)]
    BY DEF WInv, ReportedCyclesExist
  <2> QED
    BY <2>2, <2>5, <2>6
<1> QED
  BY <1>2, <1>3

LEMMA CyclesReachedNext ==
  ASSUME WInv, WInv', CyclesReached, [Next]_vars
  PROVE  CyclesReached'
<1>1. ASSUME UNCHANGED <<library, cycles>>
      PROVE  CyclesReached'
  BY <1>1 DEF CyclesReached, ClosedUnderImports, Deps
<1>2. CASE VisitEntry
  BY <1>2, CallReachesCycles DEF VisitEntry
<1>3. CASE VisitImport
  BY <1>3, CallReachesCycles DEF VisitImport
<1>4. CASE RejectIndex \/ StartWalk \/ Leave \/ Finish \/ UNCHANGED vars
  BY <1>1, <1>4 DEF RejectIndex, StartWalk, Leave, Finish, vars
<1> QED
  BY <1>2, <1>3, <1>4 DEF Next

(* The cycles reported are cycles of modules the entries lead to, at any   *)
(* moment of the walk (modules.py: dfs reports from its own stack).        *)
THEOREM CyclesAreReached == Spec => [](WInv /\ CyclesReached)
<1>1. Init => CyclesReached
  BY DEF Init, CyclesReached
<1>2. WInv /\ CyclesReached /\ [Next]_vars => (WInv /\ CyclesReached)'
  BY WInvNext, CyclesReachedNext
<1> QED
  BY <1>1, <1>2, WInvInit, PTL DEF Spec

(* A set closed under imports that a cycle enters holds all of it.         *)
LEMMA ClosedHoldsCycle ==
  ASSUME NEW c, IsCycle(c), Len(c) \in Nat, NEW T, ClosedIn(library, T), c[2] \in T
  PROVE  c[1] \in T
<1> DEFINE n == Len(c)
           Out == {k \in 2 .. n : c[k] \notin T}
<1>1. n \in Nat /\ n > 1 /\ c[1] = c[n] /\ \A k \in 1 .. n - 1 : c[k + 1] \in Deps(c[k])
  BY DEF IsCycle
<1> HIDE DEF n
<1>2. Out = {}
  <2>1. SUFFICES ASSUME Out # {} PROVE FALSE
    OBVIOUS
  <2>2. Out \in SUBSET Nat
    BY <1>1
  <2> DEFINE k == Least(Out)
  <2>3. k \in Out /\ \A y \in Out : k <= y
    BY <2>1, <2>2, LeastIsMember
  <2> HIDE DEF k
  <2>4. k \in 3 .. n
    BY <1>1, <2>3
  <2>5. k - 1 \in 2 .. n - 1 /\ k - 1 \in 1 .. n - 1 /\ (k - 1) + 1 = k /\ ~ (k <= k - 1)
    BY <1>1, <2>4
  <2>6. c[k - 1] \in T
    BY <1>1, <2>3, <2>5
  <2>7. c[k] \in Deps(c[k - 1])
    BY <1>1, <2>5
  <2> QED
    BY <2>3, <2>6, <2>7 DEF ClosedIn, Deps
<1>3. n \in 2 .. n
  BY <1>1
<1> QED
  BY <1>1, <1>2, <1>3

LEMMA ReportedIsCyclic ==
  ASSUME WInv, CyclesReached, Sound(library), NEW c \in cycles
  PROVE  Cyclic(library)
<1>1. DOMAIN library.imports = Module /\ c \in Seq(Module) /\ IsCycle(c)
  BY DEF WInv, TypeOK, Library, ReportedCyclesExist, IsCycle
<1>2. Len(c) \in Nat /\ Len(c) > 1 /\ c[1] \in Module /\ c[2] \in Deps(c[1])
  <2>1. Len(c) \in Nat /\ Len(c) > 1
    BY <1>1 DEF IsCycle
  <2>2. 1 \in 1 .. Len(c) /\ 1 \in 1 .. Len(c) - 1 /\ 1 + 1 = 2
    BY <2>1
  <2>3. c[1] \in Module
    BY <1>1, <2>2
  <2> QED
    BY <1>1, <2>1, <2>2, <2>3 DEF IsCycle
<1>3. ASSUME NEW S \in SUBSET Module, library.entries \subseteq S, ClosedIn(library, S)
      PROVE  c[1] \in S
  BY <1>3, ClosedIsClosedIn DEF CyclesReached
<1>4. ASSUME NEW T \in SUBSET Module, DepsIn(library, c[1]) \subseteq T,
             ClosedIn(library, T)
      PROVE  c[1] \in T
  BY <1>1, <1>2, <1>4, ClosedHoldsCycle DEF Deps
<1>5. c[1] \in ClosureOf(library)
  BY <1>1, <1>2, <1>3 DEF ClosureOf, ReachIn
<1>6. c[1] \in ReachIn(library, DepsIn(library, c[1]))
  BY <1>1, <1>2, <1>4 DEF ReachIn
<1> QED
  BY <1>5, <1>6 DEF Cyclic

(* What comes before a module in a list in import order is closed under    *)
(* imports and holds all the module imports, but not the module.           *)
InImportOrder(s, lib) ==
  /\ s \in Seq(DOMAIN lib.imports)
  /\ \A i, j \in 1 .. Len(s) : s[i] = s[j] => i = j
  /\ \A i \in 1 .. Len(s) : \A d \in DepsIn(lib, s[i]) : \E j \in 1 .. i - 1 : s[j] = d
  /\ \A m \in ClosureOf(lib) : \E i \in 1 .. Len(s) : s[i] = m

LEMMA InImportOrderIsAcyclic ==
  ASSUME NEW lib, NEW s, InImportOrder(s, lib)
  PROVE  ~ Cyclic(lib)
<1> SUFFICES ASSUME NEW m \in ClosureOf(lib), m \in ReachIn(lib, DepsIn(lib, m))
             PROVE  FALSE
  BY DEF Cyclic
<1>0. PICK D : D = DOMAIN lib.imports /\ s \in Seq(D)
  BY DEF InImportOrder
<1>1. PICK i \in 1 .. Len(s) : s[i] = m
  BY DEF InImportOrder
<1> DEFINE T == {s[j] : j \in 1 .. i - 1}
<1>2. Len(s) \in Nat /\ \A j \in 1 .. i - 1 : j \in 1 .. Len(s) /\ j # i
  BY <1>0
<1>3. T \in SUBSET D
  <2>1. \A j \in 1 .. Len(s) : s[j] \in D
    BY <1>0, ElementOfSeq
  <2> QED BY <1>2, <2>1
<1>4. DepsIn(lib, m) \subseteq T
  <2> SUFFICES ASSUME NEW d \in DepsIn(lib, m) PROVE d \in T
    OBVIOUS
  <2>1. d \in DepsIn(lib, s[i])
    BY <1>1
  <2>2. PICK j \in 1 .. i - 1 : s[j] = d
    BY <2>1 DEF InImportOrder
  <2> QED BY <2>2
<1>5. ClosedIn(lib, T)
  <2> SUFFICES ASSUME NEW j \in 1 .. i - 1, NEW d \in DepsIn(lib, s[j])
               PROVE  d \in T
    BY DEF ClosedIn
  <2>1. PICK k \in 1 .. j - 1 : s[k] = d
    BY <1>2 DEF InImportOrder
  <2>2. k \in 1 .. i - 1
    BY <1>2, <2>1
  <2> QED
    BY <2>1, <2>2
<1>6. m \in T
  BY <1>0, <1>3, <1>4, <1>5 DEF ReachIn
<1> QED
  BY <1>1, <1>2, <1>6 DEF InImportOrder

LEMMA ReturnedIsAcyclic ==
  ASSUME WInv, result # None
  PROVE  ~ Cyclic(library)
<1>1. DOMAIN library.imports = Module /\ result \in Seq(Module)
  BY DEF WInv, TypeOK, Library
<1>2. /\ \A i, j \in 1 .. Len(result) : result[i] = result[j] => i = j
      /\ \A i \in 1 .. Len(result) : \A d \in DepsIn(library, result[i]) :
           \E j \in 1 .. i - 1 : result[j] = d
  BY InvariantReturnsClosure DEF ReturnsImportClosure, Deps
<1>3. \A m \in ClosureOf(library) : \E i \in 1 .. Len(result) : result[i] = m
  BY ClosureIsReturned DEF Returned
<1>4. InImportOrder(result, library)
  BY <1>1, <1>2, <1>3 DEF InImportOrder
<1> QED
  BY <1>4, InImportOrderIsAcyclic

(* A sound library is rejected exactly when its import closure has a       *)
(* cycle, whatever its size and whichever entry the walk meets it from     *)
(* (modules.py: dfs and the diagnostics it returns).                       *)
THEOREM AlwaysRejectedIffCyclic == Spec => []RejectedIffCyclic
<1>1. WInv /\ CyclesReached => RejectedIffCyclic
  <2> SUFFICES ASSUME WInv, CyclesReached, phase = "done", Sound(library)
               PROVE  result = None <=> Cyclic(library)
    BY DEF RejectedIffCyclic
  <2>1. result = None => \E c : c \in cycles
    BY DEF WInv, Phases
  <2> QED
    BY <2>1, ReportedIsCyclic, ReturnedIsAcyclic
<1> QED
  BY <1>1, CyclesAreReached, PTL

-----------------------------------------------------------------------------
(* Packs.                                                                  *)

(* The pack was made of the closure the walk returned.                     *)
MadeOfClosure ==
  made # NoPack =>
    /\ phase = "done" /\ result # None /\ Returned \subseteq library.clean
    /\ \E untyped \in Untyped : made = PackOf(Returned, untyped)

(* However edited, a pack that has a manifest lists finitely many modules. *)
Shaped(p) ==
  /\ "manifest" \in DOMAIN p
  /\ p.manifest # NoPack =>
       "modules" \in DOMAIN p.manifest /\ IsFiniteSet(DOMAIN p.manifest.modules)

PInv == WInv /\ MadeOfClosure /\ (made # NoPack => Shaped(pack))

-----------------------------------------------------------------------------
(* Edits.                                                                  *)

LEMMA WithoutIsFinite ==
  ASSUME NEW f, NEW x, IsFiniteSet(DOMAIN f)
  PROVE  IsFiniteSet(DOMAIN Without(f, x))
<1>1. DOMAIN Without(f, x) = DOMAIN f \ {x}
  BY DEF Without
<1> QED BY <1>1, FS_Difference

LEMMA PutIsFinite ==
  ASSUME NEW f, NEW x, NEW y, IsFiniteSet(DOMAIN f)
  PROVE  IsFiniteSet(DOMAIN Put(f, x, y))
<1>1. DOMAIN Put(f, x, y) = DOMAIN f \union {x}
  BY DEF Put
<1> QED BY <1>1, FS_AddElement

LEMMA EditFileShaped ==
  ASSUME Shaped(pack), EditFile
  PROVE  Shaped(pack')
BY DEF EditFile, Shaped

LEMMA MoveFileShaped ==
  ASSUME Shaped(pack), pack.manifest # NoPack, MoveFile
  PROVE  Shaped(pack')
<1>1. PICK p, q, n : pack' = Moved(p, q, n)
  BY DEF MoveFile
<1> DEFINE old  == {m \in DOMAIN pack.manifest.modules : pack.manifest.modules[m] = p}
           kept == [m \in DOMAIN pack.manifest.modules \ old |-> pack.manifest.modules[m]]
<1>2. "manifest" \in DOMAIN pack /\ "modules" \in DOMAIN pack.manifest
      /\ IsFiniteSet(DOMAIN pack.manifest.modules)
  BY DEF Shaped
<1>3. /\ "manifest" \in DOMAIN pack' /\ "modules" \in DOMAIN pack'.manifest
      /\ pack'.manifest.modules =
           IF old = {} THEN pack.manifest.modules ELSE Put(kept, n, q)
  BY <1>1, <1>2 DEF Moved
<1>4. IsFiniteSet(DOMAIN kept)
  BY <1>2, FS_Difference
<1> HIDE DEF kept, old
<1>5. IsFiniteSet(DOMAIN pack'.manifest.modules)
  BY <1>2, <1>3, <1>4, PutIsFinite
<1> QED BY <1>3, <1>5 DEF Shaped

LEMMA EditManifestShaped ==
  ASSUME Shaped(pack), pack.manifest # NoPack,
         EditFileList \/ EditModuleList \/ EditManifest
  PROVE  Shaped(pack')
<1> DEFINE listed == pack.manifest.modules
<1>1. "manifest" \in DOMAIN pack /\ "modules" \in DOMAIN pack.manifest
      /\ IsFiniteSet(DOMAIN listed)
  BY DEF Shaped
<1>2. CASE EditFileList \/ EditManifest
  BY <1>1, <1>2 DEF EditFileList, EditManifest, Shaped
<1>3. CASE EditModuleList
  <2> DEFINE Becomes(f) == pack' = [pack EXCEPT !.manifest.modules = f]
  <2>0. (\E n : Becomes(Without(listed, n))) \/ (\E n, q : Becomes(Put(listed, n, q)))
    BY <1>3 DEF EditModuleList
  <2>1. PICK f : /\ Becomes(f)
                 /\ \/ \E n : f = Without(listed, n)
                    \/ \E n, q : f = Put(listed, n, q)
    <3> HIDE DEF Becomes, listed
    <3> QED BY <2>0
  <2>2. /\ "manifest" \in DOMAIN pack' /\ "modules" \in DOMAIN pack'.manifest
        /\ pack'.manifest.modules = f
    BY <1>1, <2>1
  <2>3. IsFiniteSet(DOMAIN f)
    BY <1>1, <2>1, WithoutIsFinite, PutIsFinite
  <2> QED BY <2>2, <2>3 DEF Shaped
<1> QED BY <1>2, <1>3

-----------------------------------------------------------------------------
LEMMA PInvInit == PackInit => PInv
BY WInvInit DEF PackInit, PInv, MadeOfClosure

(* Once the walk has ended it stays ended.                                 *)
LEMMA WalkIsOver ==
  ASSUME phase = "done", Next
  PROVE  FALSE
BY DEF Next, RejectIndex, StartWalk, VisitEntry, VisitImport, Leave, Finish

LEMMA CreatedIsShaped ==
  ASSUME WInv, result # None, NEW untyped, pack' = PackOf(Returned, untyped)
  PROVE  Shaped(pack')
<1>1. /\ "manifest" \in DOMAIN pack' /\ "modules" \in DOMAIN pack'.manifest
      /\ DOMAIN pack'.manifest.modules = Returned
  BY DEF PackOf
<1>2. IsFiniteSet(Module) /\ Returned \subseteq Module
  <2>1. result \in Seq(Module)
    BY DEF WInv, TypeOK
  <2> QED BY <2>1, LibraryAssumption DEF Returned
<1>3. IsFiniteSet(Returned)
  BY <1>2, FS_Subset
<1> QED BY <1>1, <1>3 DEF Shaped

LEMMA PInvNext ==
  ASSUME PInv, [PackNext]_<<vars, packVars>>
  PROVE  PInv'
<1>1. WInv'
  <2>1. [Next]_vars
    BY DEF PackNext, CreatePack, Edit, vars
  <2> QED BY <2>1, WInvNext DEF PInv
<1>2. CASE Next /\ UNCHANGED packVars
  <2>1. made = NoPack /\ made' = made
    BY <1>2, WalkIsOver DEF PInv, MadeOfClosure, packVars
  <2> QED BY <1>1, <2>1 DEF PInv, MadeOfClosure
<1>3. CASE CreatePack
  <2>1. /\ phase = "done" /\ result # None /\ Returned \subseteq library.clean
        /\ pack' = made' /\ UNCHANGED vars
        /\ \E untyped \in Untyped : made' = PackOf(Returned, untyped)
    BY <1>3 DEF CreatePack, Returned
  <2>2. PICK untyped \in Untyped : made' = PackOf(Returned, untyped)
    BY <2>1
  <2>3. PackOf(Returned, untyped)' = PackOf(Returned, untyped) /\ Returned' = Returned
    BY <2>1 DEF vars, PackOf, SourceOf, Returned
  <2>4. MadeOfClosure'
    BY <2>1, <2>2, <2>3 DEF MadeOfClosure, vars
  <2>5. Shaped(pack')
    BY <2>1, <2>2, CreatedIsShaped DEF PInv
  <2> QED BY <1>1, <2>4, <2>5 DEF PInv
<1>4. CASE Edit
  <2>1. /\ made # NoPack /\ pack.manifest # NoPack /\ UNCHANGED vars /\ made' = made
        /\ EditFile \/ MoveFile \/ EditFileList \/ EditModuleList \/ EditManifest
    BY <1>4 DEF Edit
  <2>2. Shaped(pack')
    BY <2>1, EditFileShaped, MoveFileShaped, EditManifestShaped DEF PInv
  <2>3. \A untyped : PackOf(Returned, untyped)' = PackOf(Returned, untyped)
    BY <2>1 DEF vars, PackOf, SourceOf, Returned
  <2>4. MadeOfClosure'
    BY <2>1, <2>3 DEF PInv, MadeOfClosure, vars, Returned
  <2> QED BY <1>1, <2>1, <2>2, <2>4 DEF PInv
<1>5. CASE UNCHANGED <<vars, packVars>>
  <2>1. \A untyped : PackOf(Returned, untyped)' = PackOf(Returned, untyped)
    BY <1>5 DEF vars, PackOf, SourceOf, Returned
  <2> QED BY <1>1, <1>5, <2>1 DEF PInv, MadeOfClosure, vars, packVars, Returned
<1> QED BY <1>2, <1>3, <1>4, <1>5 DEF PackNext

(* At every moment, a pack was made of the import closure the walk         *)
(* returned, all of whose modules parsed, and what it lists is finite      *)
(* however often it was edited (create_pack).                              *)
THEOREM PackInvariant == PackSpec => []PInv
BY PInvInit, PInvNext, PTL DEF PackSpec

-----------------------------------------------------------------------------
(* A library whose closure has no cycle has ranks: a module outranks what  *)
(* it imports by all that only the module leads to.                        *)

LEMMA ClosureIsClosed ==
  ASSUME NEW lib, Sound(lib)
  PROVE  /\ lib.entries \subseteq ClosureOf(lib) /\ ClosureOf(lib) \subseteq DOMAIN lib.imports
         /\ \A n \in ClosureOf(lib) : DepsIn(lib, n) \subseteq ClosureOf(lib)
<1> DEFINE D == DOMAIN lib.imports
<1>1. lib.entries \subseteq D /\ \A n \in D : DepsIn(lib, n) \subseteq D
  BY DEF Sound
<1>2. \A n : n \in ClosureOf(lib) <=>
        /\ n \in D
        /\ \A T \in SUBSET D : lib.entries \subseteq T /\ ClosedIn(lib, T) => n \in T
  BY DEF ClosureOf, ReachIn
<1>3. lib.entries \subseteq ClosureOf(lib) /\ ClosureOf(lib) \subseteq D
  BY <1>1, <1>2
<1>4. ASSUME NEW n \in ClosureOf(lib), NEW d \in DepsIn(lib, n)
      PROVE  d \in ClosureOf(lib)
  <2>1. \A T \in SUBSET D : lib.entries \subseteq T /\ ClosedIn(lib, T) => d \in T
    BY <1>2 DEF ClosedIn
  <2>2. d \in D
    BY <1>1, <1>3
  <2> QED BY <1>2, <2>1, <2>2
<1> QED BY <1>3, <1>4

LEMMA RanksExist ==
  ASSUME NEW lib, Sound(lib), ~ Cyclic(lib), IsFiniteSet(DOMAIN lib.imports)
  PROVE  \E rank \in [ClosureOf(lib) -> 1 .. Cardinality(DOMAIN lib.imports)] :
           \A n \in ClosureOf(lib) : \A d \in DepsIn(lib, n) : rank[d] < rank[n]
<1> DEFINE Leads(n) == ReachIn(lib, DepsIn(lib, n))
<1>1. PICK D, C : D = DOMAIN lib.imports /\ C = ClosureOf(lib)
  OBVIOUS
<1>2. /\ C \subseteq D /\ \A n \in C : DepsIn(lib, n) \subseteq C
      /\ IsFiniteSet(D) /\ Cardinality(D) \in Nat
  BY <1>1, ClosureIsClosed, FS_CardinalityType
<1>3. \A n \in C : n \notin Leads(n)
  BY <1>1 DEF Cyclic
<1>4. \A n, x : x \in Leads(n) <=>
        /\ x \in D
        /\ \A T \in SUBSET D : DepsIn(lib, n) \subseteq T /\ ClosedIn(lib, T) => x \in T
  BY <1>1 DEF ReachIn
<1> HIDE DEF Leads
<1>5. ASSUME NEW n
      PROVE  Leads(n) \subseteq D /\ IsFiniteSet(Leads(n)) /\ Cardinality(Leads(n)) \in Nat
  <2>1. Leads(n) \subseteq D
    BY <1>4
  <2> QED BY <1>2, <2>1, FS_Subset, FS_CardinalityType
<1>6. ASSUME NEW n \in C
      PROVE  Cardinality(Leads(n)) + 1 \in 1 .. Cardinality(D)
  <2>1. Leads(n) # D
    BY <1>2, <1>3
  <2>2. Cardinality(Leads(n)) < Cardinality(D)
    BY <1>2, <1>5, <2>1, FS_Subset
  <2> QED BY <1>2, <1>5, <2>2
<1>7. ASSUME NEW n \in C, NEW d \in DepsIn(lib, n)
      PROVE  Cardinality(Leads(d)) < Cardinality(Leads(n))
  <2>1. d \in C /\ d \in D /\ d \in Leads(n)
    BY <1>2, <1>4
  <2>2. Leads(d) \subseteq Leads(n)
    <3> SUFFICES ASSUME NEW x \in Leads(d) PROVE x \in Leads(n)
      OBVIOUS
    <3>1. ASSUME NEW T \in SUBSET D, DepsIn(lib, n) \subseteq T, ClosedIn(lib, T)
          PROVE  x \in T
      <4>1. DepsIn(lib, d) \subseteq T
        BY <3>1 DEF ClosedIn
      <4> QED BY <1>4, <3>1, <4>1
    <3> QED BY <1>4, <3>1
  <2>3. Leads(d) # Leads(n)
    BY <1>3, <2>1
  <2> QED BY <1>5, <2>2, <2>3, FS_Subset
<1>8. PICK rank : rank = [n \in C |-> Cardinality(Leads(n)) + 1]
  OBVIOUS
<1>9. rank \in [C -> 1 .. Cardinality(D)]
  BY <1>6, <1>8
<1>10. ASSUME NEW n \in C, NEW d \in DepsIn(lib, n)
       PROVE  rank[d] < rank[n]
  <2>1. d \in C
    BY <1>2
  <2>2. rank[d] = Cardinality(Leads(d)) + 1 /\ rank[n] = Cardinality(Leads(n)) + 1
    BY <1>8, <2>1
  <2> QED BY <1>5, <1>7, <2>2
<1> QED BY <1>1, <1>9, <1>10

-----------------------------------------------------------------------------
(* What passes validation.                                                 *)

LEMMA AllChecksPassed ==
  ASSUME NEW p, Validate(p) = {}
  PROVE  /\ p.manifest # NoPack /\ Unreadable(p) = {}
         /\ Damaged(p) = {} /\ DOMAIN p.manifest.modules = Listed(p) /\ Listed(p) = Loaded(p)
         /\ p.manifest.entrypoints \subseteq Loaded(p) /\ SourceCodes(p) = {}
<1>1. /\ p.manifest # NoPack /\ Unreadable(p) = {} /\ ManifestCodes(p) = {}
      /\ p.manifest.entrypoints \subseteq Loaded(p) /\ SourceCodes(p) = {}
  BY DEF Validate, If
<1>2. Damaged(p) = {} /\ DOMAIN p.manifest.modules = Listed(p) /\ Listed(p) = Loaded(p)
  BY <1>1 DEF ManifestCodes, If
<1> QED BY <1>1, <1>2

LEMMA AllSourcesPassed ==
  ASSUME NEW p, SourceCodes(p) = {}, NEW lib, lib = LibraryIn(p)
  PROVE  /\ Sound(lib) /\ ~ Cyclic(lib) /\ ClosureOf(lib) \subseteq lib.clean
         /\ \A n \in ClosureOf(lib) : SourceIn(p, n).typed
<1>1. Sound(lib) /\ ~ Cyclic(lib)
  BY DEF SourceCodes
<1>2. ClosureOf(lib) \subseteq lib.clean
  BY <1>1 DEF SourceCodes
<1> QED BY <1>1, <1>2 DEF SourceCodes, If

LEMMA LibraryOfPack ==
  ASSUME NEW p, NEW lib, lib = LibraryIn(p)
  PROVE  /\ DOMAIN lib.imports = Loaded(p) /\ lib.entries = p.manifest.entrypoints
         /\ lib.clean = {n \in Loaded(p) : SourceIn(p, n).clean}
         /\ \A n \in lib.clean : DepsIn(lib, n) = SourceIn(p, n).imports
BY DEF LibraryIn, DepsIn

LEMMA AcceptedRuns ==
  ASSUME NEW p, Shaped(p), Validate(p) = {}
  PROVE  RunsFrom(p)
<1>1. PICK lib, names : lib = LibraryIn(p) /\ names = DOMAIN p.manifest.modules
  OBVIOUS
<1>2. /\ names = Loaded(p) /\ IsFiniteSet(names) /\ SourceCodes(p) = {}
  BY <1>1, AllChecksPassed DEF Shaped
<1>3. /\ Sound(lib) /\ ~ Cyclic(lib) /\ ClosureOf(lib) \subseteq lib.clean
      /\ \A n \in ClosureOf(lib) : SourceIn(p, n).typed
  BY <1>1, <1>2, AllSourcesPassed
<1>4. /\ DOMAIN lib.imports = names /\ lib.entries = p.manifest.entrypoints
      /\ \A n \in ClosureOf(lib) : /\ SourceIn(p, n).clean
                                   /\ DepsIn(lib, n) = SourceIn(p, n).imports
  BY <1>1, <1>2, <1>3, LibraryOfPack
<1>5. PICK C : C = ClosureOf(lib)
  OBVIOUS
<1>6. /\ C \in SUBSET names /\ p.manifest.entrypoints \subseteq C
      /\ \A n \in C : SourceIn(p, n).imports \subseteq C
  BY <1>3, <1>4, <1>5, ClosureIsClosed
<1>7. \E rank \in [C -> 1 .. Cardinality(names)] :
        \A n \in C : \A d \in SourceIn(p, n).imports : rank[d] < rank[n]
  BY <1>2, <1>3, <1>4, <1>5, RanksExist
<1> QED BY <1>1, <1>3, <1>4, <1>5, <1>6, <1>7 DEF RunsFrom

(* The pack as it was made.                                                *)
LEMMA MadePack ==
  ASSUME PInv, made # NoPack
  PROVE  /\ Returned \in SUBSET Module /\ result \in Seq(Module)
         /\ DOMAIN made.files = Returned \X {"file"}
         /\ made.manifest.known /\ made.manifest.lists /\ made.manifest.spec = CurrentSpec
         /\ made.manifest.files = made.files
         /\ made.manifest.modules = [m \in Returned |-> <<m, "file">>]
         /\ made.manifest.entrypoints = library.entries
         /\ made.manifest # NoPack
         /\ \A m \in Returned :
              LET s == made.files[<<m, "file">>]
              IN  s.imports = Deps(m) /\ s.clean /\ s.utf8
<1>1. PICK untyped \in Untyped : made = PackOf(Returned, untyped)
  BY DEF PInv, MadeOfClosure
<1>2. /\ Returned \subseteq library.clean /\ result # None
      /\ result \in Seq(Module) /\ library \in Library
  BY DEF PInv, MadeOfClosure, WInv, TypeOK
<1>3. Returned \in SUBSET Module
  BY <1>2 DEF Returned
<1>4. PICK M : M = Returned
  OBVIOUS
<1> DEFINE files == [p \in M \X {"file"} |-> SourceOf(p[1], untyped)]
<1>5. \A m \in M : /\ SourceOf(m, untyped) \in Source
                   /\ SourceOf(m, untyped).imports = Deps(m)
                   /\ SourceOf(m, untyped).clean /\ SourceOf(m, untyped).utf8
  BY <1>2, <1>3, <1>4 DEF SourceOf, Source, Library, Deps, DepsIn
<1>6. files \in [M \X {"file"} -> Source]
  BY <1>5
<1>7. \A m \in M : files[<<m, "file">>] = SourceOf(m, untyped)
  OBVIOUS
<1> HIDE DEF files
<1>8. made = [files    |-> files,
              manifest |-> [known |-> TRUE, lists |-> TRUE, spec |-> CurrentSpec,
                            files |-> files, modules |-> [m \in M |-> <<m, "file">>],
                            entrypoints |-> library.entries]]
  BY <1>1, <1>4 DEF PackOf, files
<1>9. made.manifest \in ManifestOf(M)
  BY <1>2, <1>6, <1>8 DEF ManifestOf, Library
<1>10. made.manifest # NoPack
  BY <1>3, <1>4, <1>9, PackAssumption
<1> QED BY <1>2, <1>3, <1>4, <1>5, <1>6, <1>7, <1>8, <1>10

LEMMA MadeIsReadable ==
  ASSUME PInv, made # NoPack
  PROVE  /\ Loaded(made) = Returned /\ Listed(made) = Returned
         /\ Damaged(made) = {} /\ Unreadable(made) = {} /\ ManifestCodes(made) = {}
<1>1. PICK M, p : M = Returned /\ p = made
  OBVIOUS
<1>2. /\ DOMAIN p.files = M \X {"file"} /\ p.manifest.files = p.files
      /\ p.manifest.modules = [m \in M |-> <<m, "file">>] /\ p.manifest.spec = CurrentSpec
      /\ \A m \in M : p.files[<<m, "file">>].utf8
  BY <1>1, MadePack
<1>3. \A f \in DOMAIN p.files : IsSafe(f)
  BY <1>2 DEF IsSafe
<1>4. DOMAIN Expected(p) = DOMAIN p.files /\ \A f \in DOMAIN p.files : Expected(p)[f] = p.files[f]
  BY <1>2, <1>3 DEF Expected
<1>5. Damaged(p) = {}
  BY <1>4 DEF Damaged
<1>6. DOMAIN p.manifest.modules = M /\ \A m \in M : p.manifest.modules[m] = <<m, "file">>
  BY <1>2
<1>7. Listed(p) = M
  BY <1>2, <1>4, <1>6 DEF Listed
<1>8. \A m \in M : NamesFor(<<m, "file">>) = {m}
  BY DEF NamesFor
<1>9. Loaded(p) = M
  BY <1>6, <1>7, <1>8 DEF Loaded
<1>10. Unreadable(p) = {}
  BY <1>2, <1>6, <1>9 DEF Unreadable, SourceIn
<1>11. SpecOK(p.manifest.spec)
  BY <1>2 DEF SpecOK, CurrentSpec
<1>12. ManifestCodes(p) = {}
  BY <1>2, <1>3, <1>5, <1>6, <1>7, <1>9, <1>11 DEF ManifestCodes, If
<1> QED BY <1>1, <1>5, <1>7, <1>9, <1>10, <1>12

(* The sources of the pack are a library of their own: of the closure.     *)
LEMMA MadeLibrary ==
  ASSUME PInv, made # NoPack, NEW lib, lib = LibraryIn(made)
  PROVE  /\ Sound(lib) /\ ~ Cyclic(lib)
         /\ ClosureOf(lib) = Returned /\ lib.clean = Returned
<1>1. PICK M, p : M = Returned /\ p = made
  OBVIOUS
<1>2. /\ M \in SUBSET Module /\ result \in Seq(Module) /\ result # None /\ WInv
      /\ p.manifest.modules = [m \in M |-> <<m, "file">>]
      /\ p.manifest.entrypoints = library.entries /\ Loaded(p) = M
      /\ \A m \in M : p.files[<<m, "file">>].imports = Deps(m) /\ p.files[<<m, "file">>].clean
  BY <1>1, MadePack, MadeIsReadable DEF PInv, MadeOfClosure
<1>3. \A m \in M : SourceIn(p, m).imports = Deps(m) /\ SourceIn(p, m).clean
  BY <1>2 DEF SourceIn
<1>4. /\ DOMAIN lib.imports = M /\ lib.entries = library.entries /\ lib.clean = M
      /\ \A m \in M : DepsIn(lib, m) = Deps(m)
  <2>1. /\ DOMAIN lib.imports = M /\ lib.entries = library.entries
        /\ lib.clean = {n \in M : SourceIn(p, n).clean}
        /\ \A n \in lib.clean : DepsIn(lib, n) = SourceIn(p, n).imports
    BY <1>1, <1>2, LibraryOfPack
  <2>2. lib.clean = M
    BY <1>3, <2>1
  <2> QED BY <1>3, <2>1, <2>2
<1>5. /\ library.entries \subseteq M /\ \A m \in M : Deps(m) \subseteq M
      /\ \A S \in SUBSET Module : ClosedUnderImports(S) => M \subseteq S
      /\ \A i, j \in 1 .. Len(result) : result[i] = result[j] => i = j
      /\ \A i \in 1 .. Len(result) : \A d \in Deps(result[i]) :
           \E j \in 1 .. i - 1 : result[j] = d
  BY <1>1, <1>2, InvariantReturnsClosure DEF ReturnsImportClosure, ClosedUnderImports
<1>6. Sound(lib)
  BY <1>4, <1>5 DEF Sound
<1>7. ClosureOf(lib) = M
  <2>1. ASSUME NEW T \in SUBSET M, library.entries \subseteq T, ClosedIn(lib, T)
        PROVE  M \subseteq T
    <3>1. ClosedUnderImports(T)
      BY <1>4, <2>1 DEF ClosedIn, ClosedUnderImports
    <3> QED BY <1>2, <1>5, <3>1
  <2>2. ClosureOf(lib) = {m \in M : \A T \in SUBSET M :
                            library.entries \subseteq T /\ ClosedIn(lib, T) => m \in T}
    BY <1>4 DEF ClosureOf, ReachIn
  <2> QED BY <2>1, <2>2
<1>8. \A m \in M : \E i \in 1 .. Len(result) : result[i] = m
  BY <1>1 DEF Returned
<1>9. \A i \in 1 .. Len(result) : result[i] \in M
  BY <1>1 DEF Returned
<1>10. result \in Seq(M)
  <2>1. Len(result) \in Nat /\ result = [i \in 1 .. Len(result) |-> result[i]]
    BY <1>2
  <2> QED BY <1>9, <2>1, IsASeq
<1>11. ~ Cyclic(lib)
  <2>1. \A i \in 1 .. Len(result) : \A d \in DepsIn(lib, result[i]) :
          \E j \in 1 .. i - 1 : result[j] = d
    BY <1>4, <1>5, <1>9
  <2>2. \A m \in ClosureOf(lib) : \E i \in 1 .. Len(result) : result[i] = m
    BY <1>7, <1>8
  <2>3. M = DOMAIN lib.imports
    BY <1>4
  <2>4. InImportOrder(result, lib)
    BY <1>5, <1>10, <2>1, <2>2, <2>3 DEF InImportOrder
  <2> QED BY <2>4, InImportOrderIsAcyclic
<1> QED BY <1>1, <1>4, <1>6, <1>7, <1>11

LEMMA UneditedIsAccepted ==
  ASSUME PInv, made # NoPack
  PROVE  Validate(made) = {} <=> \A f \in DOMAIN made.files : made.files[f].typed
<1>1. PICK M, p, lib : M = Returned /\ p = made /\ lib = LibraryIn(p)
  OBVIOUS
<1>2. /\ p.manifest # NoPack /\ p.manifest.known /\ p.manifest.lists
      /\ DOMAIN p.files = M \X {"file"} /\ p.manifest.modules = [m \in M |-> <<m, "file">>]
      /\ p.manifest.entrypoints = library.entries
      /\ Loaded(p) = M /\ Unreadable(p) = {} /\ ManifestCodes(p) = {}
  BY <1>1, MadePack, MadeIsReadable
<1>3. library.entries \subseteq M
  BY <1>1, InvariantReturnsClosure
     DEF ReturnsImportClosure, ClosedUnderImports, PInv, MadeOfClosure
<1>4. Validate(p) = SourceCodes(p)
  BY <1>2, <1>3 DEF Validate
<1>5. Sound(lib) /\ ~ Cyclic(lib) /\ ClosureOf(lib) = M /\ lib.clean = M
  BY <1>1, MadeLibrary
<1>6. SourceCodes(p) = If(\E m \in M : ~ SourceIn(p, m).typed, "SD300")
  <2>1. SourceCodes(p) = If(\E m \in ClosureOf(lib) : ~ SourceIn(p, m).typed, "SD300")
    BY <1>1, <1>5 DEF SourceCodes
  <2> QED BY <1>5, <2>1
<1>7. \A m \in M : SourceIn(p, m) = p.files[<<m, "file">>]
  BY <1>2 DEF SourceIn
<1>8. Validate(p) = {} <=> \A m \in M : p.files[<<m, "file">>].typed
  BY <1>4, <1>6, <1>7 DEF If
<1>9. (\A m \in M : p.files[<<m, "file">>].typed) <=> \A f \in DOMAIN p.files : p.files[f].typed
  BY <1>2
<1> QED BY <1>1, <1>8, <1>9

LEMMA SourcesAreThose ==
  ASSUME PInv, made # NoPack, Validate(pack) = {}, pack.manifest = made.manifest,
         NEW f \in DOMAIN made.files
  PROVE  f \in DOMAIN pack.files /\ pack.files[f] = made.files[f]
<1>1. /\ pack.manifest.files = made.files /\ IsSafe(f)
  BY MadePack DEF IsSafe
<1>2. f \in DOMAIN Expected(pack) /\ Expected(pack)[f] = made.files[f]
  BY <1>1 DEF Expected
<1>3. Damaged(pack) = {}
  BY AllChecksPassed
<1> QED BY <1>2, <1>3 DEF Damaged

(* A pack nobody edited is accepted unless its library has type errors,    *)
(* one accepted with its own manifest holds the sources it was made of,    *)
(* and an accepted pack, whatever was edited and how often, can be run     *)
(* from its entrypoints (validate_pack, for libraries of any size).        *)
THEOREM AcceptedPacksAreAlwaysWhole == PackSpec => []AcceptedPacksAreWhole
<1>1. PInv => AcceptedPacksAreWhole
  BY UneditedIsAccepted, SourcesAreThose, AcceptedRuns
     DEF AcceptedPacksAreWhole, Accepted, SameManifest, PInv
<1> QED BY <1>1, PackInvariant, PTL
=============================================================================

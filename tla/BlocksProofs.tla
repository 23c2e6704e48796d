---------------------------- MODULE BlocksProofs ----------------------------
(***************************************************************************)
(* A rule file is read as its indentation is written, whatever its lines:  *)
(* the indentation stack of the lexer and the recursive descent of the     *)
(* parser agree with the declarative reading (Parent, WellFormed).         *)
(***************************************************************************)
EXTENDS FrontEnd, WellFoundedInduction, SequenceTheorems, TLAPS

(* What holds of 0 and of the successors of what it holds of holds of      *)
(* every natural number.                                                   *)
LEMMA Successors ==
  ASSUME NEW S, 0 \in S, \A n \in Nat : n \in S => n + 1 \in S
  PROVE  \A n \in Nat : n \in S
<1> DEFINE R == {ss \in Nat \X Nat : ss[1] < ss[2]}
           T == {n \in Nat : n \notin S}
<1>1. R = OpToRel(<, Nat)
  BY DEF OpToRel
<1>2. IsWellFoundedOn(R, Nat)
  BY <1>1, NatLessThanWellFounded, Zenon
<1>3. \A y, z \in Nat : y < z => <<y, z>> \in R
  OBVIOUS
<1> HIDE DEF R
<1>4. ASSUME T # {}
      PROVE  FALSE
  <2>1. PICK x \in T : \A y \in T : ~ (<<y, x>> \in R)
    BY <1>2, <1>4, WFMin
  <2>2. x \in Nat /\ x # 0 /\ x - 1 \in Nat /\ x - 1 < x
    OBVIOUS
  <2>3. x - 1 \notin T
    BY <1>3, <2>1, <2>2
  <2>4. (x - 1) + 1 \in S
    BY <2>2, <2>3
  <2> QED BY <2>2, <2>4
<1> QED BY <1>4

-----------------------------------------------------------------------------
(* The recursions of the lexer and the parser of the blocks: what each     *)
(* makes in turn k of what it made in the turn before.  The loops of the   *)
(* parser turn until their body stops.                                     *)
Body(which, a, q) ==
  CASE which = "thens" -> ThenStep(a.s, q)
    [] which = "elifs" -> ElifStep(a.s, q)
    [] which = "top"   -> TopStep(a.s, q)

Turn(which, a, k, x) ==
  CASE which = "lexed"   -> LexLine(x, a.file, k)
    [] which = "inOrder" -> IF k \in a.members THEN Append(x, k) ELSE x
    [] which \in {"thens", "elifs", "top"} -> IF x.on THEN Body(which, a, x.made) ELSE x

Recurs(f, which, a, base, n) ==
  f = [k \in 0 .. n |-> IF k = 0 THEN base ELSE Turn(which, a, k, f[k - 1])]

LEMMA Recursion ==
  ASSUME NEW which, NEW a, NEW base, NEW N \in Nat
  PROVE  \E f : Recurs(f, which, a, base, N)
<1> DEFINE Value(f, k) == IF k = 0 THEN base ELSE Turn(which, a, k, f[k - 1])
           S == {m \in Nat : \E f : Recurs(f, which, a, base, m)}
<1>1. 0 \in S
  <2>1. PICK f : f = [k \in 0 .. 0 |-> base]
    OBVIOUS
  <2>2. f = [k \in 0 .. 0 |-> Value(f, k)]
    BY <2>1
  <2> QED BY <2>2 DEF Recurs
<1>2. ASSUME NEW m \in Nat, m \in S
      PROVE  m + 1 \in S
  <2>1. PICK f : Recurs(f, which, a, base, m)
    BY <1>2
  <2>2. f = [k \in 0 .. m |-> Value(f, k)]
    BY <2>1 DEF Recurs
  <2>3. PICK g : g = [k \in 0 .. m + 1 |-> IF k = m + 1 THEN Value(f, k) ELSE f[k]]
    OBVIOUS
  <2>4. ASSUME NEW k \in 0 .. m + 1
        PROVE  g[k] = Value(g, k)
    <3>1. k # 0 => g[k - 1] = f[k - 1]
      BY <2>3
    <3>2. Value(g, k) = Value(f, k)
      BY <3>1
    <3>3. k # m + 1 => k \in 0 .. m /\ f[k] = Value(f, k)
      BY <2>2
    <3> QED BY <2>3, <3>2, <3>3
  <2>5. g = [k \in 0 .. m + 1 |-> Value(g, k)]
    BY <2>3, <2>4
  <2> QED BY <2>5 DEF Recurs
<1>3. \A m \in Nat : m \in S => m + 1 \in S
  BY <1>2
<1> HIDE DEF S
<1>4. N \in S
  BY <1>1, <1>3, Successors
<1> QED BY <1>4 DEF S

LEMMA RecursionTurns ==
  ASSUME NEW which, NEW a, NEW base, NEW N \in Nat, NEW f, Recurs(f, which, a, base, N)
  PROVE  /\ f[0] = base
         /\ \A k \in 1 .. N : f[k] = Turn(which, a, k, f[k - 1])
<1>1. \A k \in 0 .. N : f[k] = IF k = 0 THEN base ELSE Turn(which, a, k, f[k - 1])
  BY Zenon DEF Recurs
<1> QED BY <1>1

-----------------------------------------------------------------------------
(* The members of a set up to n, in order.                                 *)
LEMMA InOrderTurns ==
  ASSUME NEW S, NEW n \in Nat
  PROVE  \E f : Recurs(f, "inOrder", [members |-> S], <<>>, n) /\ InOrder(S, n) = f[n]
<1> DEFINE a == [members |-> S]
           Member(x, k) == IF k \in S THEN Append(x, k) ELSE x
<1>1. PICK f : Recurs(f, "inOrder", a, <<>>, n)
  BY Recursion
<1>2. \A x, k : Turn("inOrder", a, k, x) = Member(x, k)
  BY DEF Turn
<1>3. f = [k \in 0 .. n |-> IF k = 0 THEN <<>> ELSE Member(f[k - 1], k)]
  BY <1>1, <1>2 DEF Recurs
<1>4. PICK g : g = CHOOSE x : x = [k \in 0 .. n |-> IF k = 0 THEN <<>> ELSE Member(x[k - 1], k)]
  OBVIOUS
<1>5. g = [k \in 0 .. n |-> IF k = 0 THEN <<>> ELSE Member(g[k - 1], k)]
  BY <1>3, <1>4, Zenon
<1>6. InOrder(S, n) = g[n]
  BY <1>4, Zenon DEF InOrder
<1>7. Recurs(g, "inOrder", a, <<>>, n)
  BY <1>2, <1>5 DEF Recurs
<1> QED BY <1>6, <1>7

(* Two recursions of the same kind agree as far as both go.                *)
LEMMA RecursionAgrees ==
  ASSUME NEW which, NEW a, NEW base, NEW m \in Nat, NEW n \in Nat, m <= n,
         NEW f, NEW g, Recurs(f, which, a, base, m), Recurs(g, which, a, base, n)
  PROVE  f[m] = g[m]
<1> DEFINE S == {k \in Nat : k <= m => f[k] = g[k]}
<1>1. /\ f[0] = base /\ g[0] = base
      /\ \A k \in 1 .. m : f[k] = Turn(which, a, k, f[k - 1])
      /\ \A k \in 1 .. n : g[k] = Turn(which, a, k, g[k - 1])
  BY RecursionTurns
<1>2. 0 \in S
  BY <1>1
<1>3. ASSUME NEW k \in Nat, k \in S
      PROVE  k + 1 \in S
  <2>1. ASSUME k + 1 <= m
        PROVE  f[k + 1] = g[k + 1]
    <3>1. k + 1 \in 1 .. m /\ k + 1 \in 1 .. n /\ (k + 1) - 1 = k /\ k <= m
      BY <2>1
    <3>2. f[k] = g[k]
      BY <1>3, <3>1
    <3>3. f[k + 1] = Turn(which, a, k + 1, f[k]) /\ g[k + 1] = Turn(which, a, k + 1, g[k])
      BY <1>1, <3>1
    <3> QED BY <3>2, <3>3
  <2> QED BY <2>1
<1>4. \A k \in Nat : k \in S => k + 1 \in S
  BY <1>3
<1> HIDE DEF S
<1>5. m \in S
  BY <1>2, <1>4, Successors
<1> QED BY <1>5 DEF S

LEMMA InOrderSteps ==
  ASSUME NEW S
  PROVE  /\ InOrder(S, 0) = <<>>
         /\ \A n \in Nat \ {0} :
              InOrder(S, n) = IF n \in S THEN Append(InOrder(S, n - 1), n) ELSE InOrder(S, n - 1)
<1> DEFINE a == [members |-> S]
<1>1. InOrder(S, 0) = <<>>
  <2>1. PICK f : Recurs(f, "inOrder", a, <<>>, 0) /\ InOrder(S, 0) = f[0]
    BY InOrderTurns
  <2>2. f[0] = <<>>
    <3>1. f = [k \in 0 .. 0 |-> IF k = 0 THEN <<>> ELSE Turn("inOrder", a, k, f[k - 1])]
      BY <2>1, Zenon DEF Recurs
    <3>2. 0 \in 0 .. 0
      OBVIOUS
    <3> QED BY <3>1, <3>2, Zenon
  <2> QED BY <2>1, <2>2
<1>2. ASSUME NEW n \in Nat \ {0}
      PROVE  InOrder(S, n) = IF n \in S THEN Append(InOrder(S, n - 1), n) ELSE InOrder(S, n - 1)
  <2>1. PICK f : Recurs(f, "inOrder", a, <<>>, n) /\ InOrder(S, n) = f[n]
    BY InOrderTurns
  <2>2. PICK m \in Nat : m = n - 1
    OBVIOUS
  <2>3. PICK g : Recurs(g, "inOrder", a, <<>>, m) /\ InOrder(S, m) = g[m]
    BY InOrderTurns
  <2>4. g[m] = f[m]
    <3>1. m <= n
      BY <2>2
    <3> QED BY <2>1, <2>3, <3>1, RecursionAgrees
  <2>5. f[n] = Turn("inOrder", a, n, f[n - 1])
    <3>1. n \in 1 .. n
      OBVIOUS
    <3> QED BY <2>1, <3>1, RecursionTurns
  <2>6. f[n] = IF n \in S THEN Append(f[m], n) ELSE f[m]
    BY <2>2, <2>5 DEF Turn
  <2> QED BY <2>1, <2>2, <2>3, <2>4, <2>6
<1> QED BY <1>1, <1>2

(* It lists each member up to n, once and in order.                        *)
Lists(q, S, n) ==
  /\ q \in Seq(1 .. n)
  /\ \A i \in DOMAIN q : q[i] \in S
  /\ \A m \in 1 .. n : m \in S => \E i \in DOMAIN q : q[i] = m
  /\ \A i, j \in DOMAIN q : i < j => q[i] < q[j]

LEMMA InOrderLists ==
  ASSUME NEW S, NEW n \in Nat
  PROVE  Lists(InOrder(S, n), S, n)
<1> DEFINE T == {m \in Nat : Lists(InOrder(S, m), S, m)}
<1>1. 0 \in T
  <2>1. PICK q : q = InOrder(S, 0)
    OBVIOUS
  <2>2. q = <<>>
    BY <2>1, InOrderSteps
  <2>3. Lists(q, S, 0)
    BY <2>2 DEF Lists
  <2> QED BY <2>1, <2>3
<1>2. ASSUME NEW m \in Nat, m \in T
      PROVE  m + 1 \in T
  <2>1. PICK q : q = InOrder(S, m)
    OBVIOUS
  <2>2. q \in Seq(1 .. m) /\ Lists(q, S, m)
    BY <1>2, <2>1 DEF Lists
  <2>3. PICK l \in Nat : l = Len(q) /\ DOMAIN q = 1 .. l
    BY <2>2
  <2>4. PICK r : r = InOrder(S, m + 1)
    OBVIOUS
  <2>5. r = IF m + 1 \in S THEN Append(q, m + 1) ELSE q
    <3>1. PICK k \in Nat \ {0} : k = m + 1 /\ k - 1 = m
      OBVIOUS
    <3>2. InOrder(S, k) = IF k \in S THEN Append(InOrder(S, k - 1), k) ELSE InOrder(S, k - 1)
      BY InOrderSteps
    <3> QED BY <2>1, <2>4, <3>1, <3>2
  <2>6. CASE m + 1 \in S
    <3>1. /\ r \in Seq(1 .. m + 1) /\ Len(r) = l + 1 /\ DOMAIN r = 1 .. l + 1
          /\ r[l + 1] = m + 1 /\ \A i \in 1 .. l : r[i] = q[i]
      BY <2>2, <2>3, <2>5, <2>6
    <3>2. \A i \in 1 .. l : q[i] \in S /\ q[i] \in 1 .. m
      BY <2>2, <2>3 DEF Lists
    <3>3. \A i \in DOMAIN r : r[i] \in S
      <4>1. \A i \in 1 .. l + 1 : i \in 1 .. l \/ i = l + 1
        OBVIOUS
      <4> QED BY <2>6, <3>1, <3>2, <4>1
    <3>4. ASSUME NEW k \in 1 .. m + 1, k \in S
          PROVE  \E i \in DOMAIN r : r[i] = k
      <4>1. CASE k = m + 1
        BY <3>1, <4>1
      <4>2. CASE k # m + 1
        <5>1. k \in 1 .. m
          BY <4>2
        <5>2. PICK i \in 1 .. l : q[i] = k
          BY <2>2, <2>3, <3>4, <5>1 DEF Lists
        <5> QED BY <3>1, <5>2
      <4> QED BY <4>1, <4>2
    <3>5. ASSUME NEW i \in 1 .. l + 1, NEW j \in 1 .. l + 1, i < j
          PROVE  r[i] < r[j]
      <4>1. CASE j = l + 1
        <5>1. i \in 1 .. l
          BY <3>5, <4>1
        <5> QED BY <3>1, <3>2, <4>1, <5>1
      <4>2. CASE j # l + 1
        <5>1. i \in 1 .. l /\ j \in 1 .. l
          BY <3>5, <4>2
        <5>2. q[i] < q[j]
          BY <2>2, <2>3, <3>5, <5>1 DEF Lists
        <5> QED BY <3>1, <5>1, <5>2
      <4> QED BY <4>1, <4>2
    <3> QED BY <2>4, <3>1, <3>3, <3>4, <3>5 DEF Lists
  <2>7. CASE m + 1 \notin S
    <3>1. r = q
      BY <2>5, <2>7
    <3>2. q \in Seq(1 .. m + 1)
      BY <2>2
    <3>3. \A k \in 1 .. m + 1 : k \in S => k \in 1 .. m
      BY <2>7
    <3> QED BY <2>2, <2>4, <3>1, <3>2, <3>3 DEF Lists
  <2> QED BY <2>6, <2>7
<1>3. \A m \in Nat : m \in T => m + 1 \in T
  BY <1>2
<1> HIDE DEF T
<1>4. n \in T
  BY <1>1, <1>3, Successors
<1> QED BY <1>4 DEF T

(* Between two members nothing is added.                                   *)
LEMMA InOrderSkips ==
  ASSUME NEW S, NEW m \in Nat, NEW n \in Nat, m <= n, \A i \in m + 1 .. n : i \notin S
  PROVE  InOrder(S, n) = InOrder(S, m)
<1> DEFINE T == {k \in Nat : m + k <= n => InOrder(S, m + k) = InOrder(S, m)}
<1>1. 0 \in T
  <2>1. m + 0 = m
    OBVIOUS
  <2> QED BY <2>1
<1>2. ASSUME NEW k \in Nat, k \in T
      PROVE  k + 1 \in T
  <2>1. ASSUME m + (k + 1) <= n
        PROVE  InOrder(S, m + (k + 1)) = InOrder(S, m)
    <3>1. m + (k + 1) \in m + 1 .. n /\ (m + (k + 1)) - 1 = m + k /\ m + k <= n
          /\ m + (k + 1) \in Nat \ {0}
      BY <2>1
    <3>2. m + (k + 1) \notin S
      BY <3>1
    <3>3. InOrder(S, m + (k + 1)) = InOrder(S, m + k)
      BY <3>1, <3>2, InOrderSteps
    <3> QED BY <1>2, <3>1, <3>3
  <2> QED BY <2>1
<1>3. \A k \in Nat : k \in T => k + 1 \in T
  BY <1>2
<1> HIDE DEF T
<1>4. n - m \in T /\ m + (n - m) = n
  <2>1. n - m \in Nat /\ m + (n - m) = n
    OBVIOUS
  <2> QED BY <1>1, <1>3, <2>1, Successors
<1> QED BY <1>4 DEF T

(* It depends on the members up to n only.                                 *)
LEMMA InOrderSame ==
  ASSUME NEW S, NEW T, NEW n \in Nat, \A i \in 1 .. n : i \in S <=> i \in T
  PROVE  InOrder(S, n) = InOrder(T, n)
<1> DEFINE R == {k \in Nat : k <= n => InOrder(S, k) = InOrder(T, k)}
<1>1. 0 \in R
  BY InOrderSteps
<1>2. ASSUME NEW k \in Nat, k \in R
      PROVE  k + 1 \in R
  <2>1. ASSUME k + 1 <= n
        PROVE  InOrder(S, k + 1) = InOrder(T, k + 1)
    <3>1. k + 1 \in 1 .. n /\ (k + 1) - 1 = k /\ k + 1 \in Nat \ {0} /\ k <= n
      BY <2>1
    <3>2. InOrder(S, k) = InOrder(T, k)
      BY <1>2, <3>1
    <3>3. PICK j \in Nat \ {0} : j = k + 1 /\ j - 1 = k
      BY <3>1
    <3>4. /\ InOrder(S, j) = IF j \in S THEN Append(InOrder(S, j - 1), j) ELSE InOrder(S, j - 1)
          /\ InOrder(T, j) = IF j \in T THEN Append(InOrder(T, j - 1), j) ELSE InOrder(T, j - 1)
      BY InOrderSteps
    <3>5. j \in S <=> j \in T
      BY <3>1, <3>3
    <3> QED BY <3>2, <3>3, <3>4, <3>5
  <2> QED BY <2>1
<1>3. \A k \in Nat : k \in R => k + 1 \in R
  BY <1>2
<1> HIDE DEF R
<1>4. n \in R
  BY <1>1, <1>3, Successors
<1> QED BY <1>4 DEF R

-----------------------------------------------------------------------------
(* The indentation stack rises from 0.  A line pushes its indentation on   *)
(* it or pops it down to what is no more than that.                        *)
IsStack(st) ==
  /\ st \in Seq(Nat) /\ st # <<>> /\ st[1] = 0
  /\ \A i, j \in 1 .. Len(st) : i < j => st[i] < st[j]

Pushed(st, to, indent) == indent > Top(st) /\ to = Append(st, indent)

Popped(st, to, indent) ==
  /\ indent <= Top(st) /\ Len(to) \in 1 .. Len(st)
  /\ \A i \in 1 .. Len(to) : to[i] = st[i]
  /\ st[Len(to)] <= indent
  /\ Len(to) < Len(st) => indent < st[Len(to) + 1]

LEMMA LatestIs ==
  ASSUME NEW T \in SUBSET Nat, NEW e \in T, \A j \in T : j <= e
  PROVE  Latest(T) = e
<1>1. Latest(T) \in T /\ \A j \in T : j <= Latest(T)
  BY Zenon DEF Latest
<1>2. PICK x \in Nat : x = Latest(T)
  BY <1>1
<1>3. e \in Nat /\ x <= e /\ e <= x
  BY <1>1, <1>2
<1> QED BY <1>2, <1>3

LEMMA LatestIn ==
  ASSUME NEW n \in Nat, NEW T \in SUBSET (0 .. n), T # {}
  PROVE  Latest(T) \in T /\ \A j \in T : j <= Latest(T)
<1> DEFINE S == {m \in Nat : \A U \in SUBSET (0 .. m) : U # {} => \E i \in U : \A j \in U : j <= i}
<1>1. 0 \in S
  <2>0. 0 .. 0 = {0} /\ 0 <= 0
    OBVIOUS
  <2>1. \A U \in SUBSET (0 .. 0) : U # {} => 0 \in U /\ \A j \in U : j <= 0
    BY <2>0
  <2> QED BY <2>1
<1>2. ASSUME NEW m \in Nat, m \in S
      PROVE  m + 1 \in S
  <2>1. ASSUME NEW U \in SUBSET (0 .. m + 1), U # {}
        PROVE  \E i \in U : \A j \in U : j <= i
    <3>1. CASE m + 1 \in U
      BY <3>1
    <3>2. CASE m + 1 \notin U
      <4>1. U \in SUBSET (0 .. m)
        BY <3>2
      <4> QED BY <1>2, <2>1, <4>1
    <3> QED BY <3>1, <3>2
  <2> QED BY <2>1
<1>3. \A m \in Nat : m \in S => m + 1 \in S
  BY <1>2
<1> HIDE DEF S
<1>4. n \in S
  BY <1>1, <1>3, Successors
<1>5. \E i \in T : \A j \in T : j <= i
  BY <1>4 DEF S
<1> QED BY <1>5, Zenon DEF Latest

LEMMA StackMoves ==
  ASSUME NEW st, IsStack(st), NEW indent \in Nat
  PROVE  \E e \in 1 .. Len(st) :
           /\ Above(st, indent) = Len(st) - e
           /\ st[e] <= indent /\ (e < Len(st) => indent < st[e + 1])
           /\ e < Len(st) => ~ (indent > Top(st))
           /\ indent > Top(st) => e = Len(st)
<1> DEFINE T == {i \in 1 .. Len(st) : st[i] <= indent}
<1>1. PICK n \in Nat : n = Len(st) /\ n > 0 /\ \A i \in 1 .. n : st[i] \in Nat
  BY DEF IsStack
<1>2. T \in SUBSET (0 .. n) /\ 1 \in T
  BY <1>1 DEF IsStack
<1>3. PICK e : e = Latest(T)
  OBVIOUS
<1>4. e \in T /\ \A j \in T : j <= e
  BY <1>1, <1>2, <1>3, LatestIn
<1>5. Above(st, indent) = n - e
  BY <1>1, <1>3 DEF Above
<1>6. e \in 1 .. n /\ st[e] <= indent
  BY <1>1, <1>4
<1>7. e < n => indent < st[e + 1]
  <2>1. ASSUME e < n
        PROVE  indent < st[e + 1]
    <3>1. e + 1 \in 1 .. n /\ ~ (e + 1 <= e)
      BY <1>6, <2>1
    <3>2. e + 1 \notin T
      BY <1>4, <3>1
    <3> QED BY <1>1, <3>1, <3>2
  <2> QED BY <2>1
<1>8. indent > Top(st) => e = n
  <2>1. ASSUME indent > Top(st)
        PROVE  n \in T
    BY <1>1, <2>1 DEF Top
  <2> QED BY <1>4, <1>6, <2>1
<1> QED BY <1>1, <1>5, <1>6, <1>7, <1>8

LEMMA StackKept ==
  ASSUME NEW st, IsStack(st), NEW indent \in Nat, NEW to
  PROVE  /\ Pushed(st, to, indent) => IsStack(to) /\ Len(to) = Len(st) + 1
         /\ to \in Seq(Nat) /\ Popped(st, to, indent) => IsStack(to)
<1>1. PICK n \in Nat : n = Len(st) /\ n > 0 /\ \A i \in 1 .. n : st[i] \in Nat
  BY DEF IsStack
<1>2. ASSUME Pushed(st, to, indent)
      PROVE  IsStack(to) /\ Len(to) = Len(st) + 1
  <2>1. /\ to \in Seq(Nat) /\ Len(to) = n + 1 /\ to[n + 1] = indent
        /\ \A i \in 1 .. n : to[i] = st[i]
    BY <1>1, <1>2 DEF Pushed, IsStack
  <2>2. \A i \in 1 .. n : st[i] <= st[n]
    <3>1. \A i \in 1 .. n : i = n \/ i < n
      BY <1>1
    <3>2. n \in 1 .. n
      BY <1>1
    <3> QED BY <1>1, <3>1, <3>2 DEF IsStack
  <2>3. \A i \in 1 .. n : to[i] < indent
    BY <1>1, <1>2, <2>1, <2>2 DEF Pushed, Top
  <2>4. ASSUME NEW i \in 1 .. n + 1, NEW j \in 1 .. n + 1, i < j
        PROVE  to[i] < to[j]
    <3>1. CASE j = n + 1
      BY <2>1, <2>3, <2>4, <3>1
    <3>2. CASE j # n + 1
      <4>1. i \in 1 .. n /\ j \in 1 .. n
        BY <2>4, <3>2
      <4> QED BY <1>1, <2>1, <2>4, <4>1 DEF IsStack
    <3> QED BY <3>1, <3>2
  <2>5. to # <<>> /\ to[1] = 0
    BY <1>1, <2>1 DEF IsStack
  <2> QED BY <1>1, <2>1, <2>4, <2>5 DEF IsStack
<1>3. ASSUME to \in Seq(Nat), Popped(st, to, indent)
      PROVE  IsStack(to)
  <2>1. Len(to) \in 1 .. n /\ \A i \in 1 .. Len(to) : to[i] = st[i] /\ i \in 1 .. n
    BY <1>1, <1>3 DEF Popped
  <2>2. to # <<>> /\ to[1] = 0
    BY <1>1, <1>3, <2>1 DEF IsStack
  <2>3. \A i, j \in 1 .. Len(to) : i < j => to[i] < to[j]
    BY <1>1, <2>1 DEF IsStack
  <2> QED BY <1>3, <2>2, <2>3 DEF IsStack
<1> QED BY <1>2, <1>3

-----------------------------------------------------------------------------
(* What a line adds to the tokens: an INDENT or DEDENTs, and itself.       *)
TokenKind == LineKind \union {"INDENT", "DEDENT", "EOF"}

Tok == [kind: TokenKind, line: Nat]

LEMMA TokParts ==
  ASSUME NEW kind \in TokenKind, NEW line \in Nat, NEW t, t = Token(kind, line)
  PROVE  t \in Tok /\ t.kind = kind /\ t.line = line
BY DEF Token, Tok

After(t, m, last) == t \o m \o <<last>>

Follows(t, m, last, u) ==
  /\ u \in Seq(Tok) /\ Len(u) = Len(t) + Len(m) + 1
  /\ u[Len(u)] = last
  /\ \A i \in 1 .. Len(t) : u[i] = t[i]
  /\ \A i \in 1 .. Len(m) : u[Len(t) + i] = m[i]

LEMMA TokensOn ==
  ASSUME NEW t \in Seq(Tok), NEW m \in Seq(Tok), NEW last \in Tok, NEW u, u = After(t, m, last)
  PROVE  Follows(t, m, last, u)
<1>1. PICK v : v = t \o m
  OBVIOUS
<1>2. v \in Seq(Tok) /\ Len(v) = Len(t) + Len(m)
      /\ (\A i \in 1 .. Len(t) : v[i] = t[i]) /\ (\A i \in 1 .. Len(m) : v[Len(t) + i] = m[i])
  BY <1>1
<1>3. u = v \o <<last>>
  BY <1>1 DEF After
<1>4. /\ u \in Seq(Tok) /\ Len(u) = Len(v) + 1 /\ u[Len(v) + 1] = last
      /\ \A i \in 1 .. Len(v) : u[i] = v[i]
  <2>1. PICK w : w = <<last>>
    OBVIOUS
  <2>2. w \in Seq(Tok) /\ Len(w) = 1 /\ w[1] = last
    BY <2>1
  <2>3. u = v \o w
    BY <1>3, <2>1
  <2>4. /\ u \in Seq(Tok) /\ Len(u) = Len(v) + Len(w)
        /\ \A i \in 1 .. Len(v) + Len(w) : u[i] = IF i <= Len(v) THEN v[i] ELSE w[i - Len(v)]
    <3>1. v \in Seq(Tok) /\ w \in Seq(Tok)
      BY <1>2, <2>2
    <3>2. /\ v \o w \in Seq(Tok)
          /\ Len(v \o w) = Len(v) + Len(w)
          /\ \A i \in 1 .. Len(v) + Len(w) : (v \o w)[i] = IF i <= Len(v) THEN v[i] ELSE w[i - Len(v)]
      BY <3>1, ConcatProperties, Zenon
    <3> QED BY <2>3, <3>2, Zenon
  <2>5. PICK l \in Nat : l = Len(v)
    BY <1>2
  <2>6. l + 1 \in 1 .. l + 1 /\ ~ (l + 1 <= l) /\ (l + 1) - l = 1
    OBVIOUS
  <2>7. u[l + 1] = w[1]
    BY <2>2, <2>4, <2>5, <2>6
  <2>8. \A i \in 1 .. l : u[i] = v[i]
    BY <2>2, <2>4, <2>5
  <2> QED BY <2>2, <2>4, <2>5, <2>7, <2>8
<1>5. Len(t) \in Nat /\ Len(m) \in Nat
  OBVIOUS
<1> QED BY <1>2, <1>4, <1>5 DEF Follows

LEMMA DedentsParts ==
  ASSUME NEW n \in Nat, NEW line \in Nat
  PROVE  /\ Dedents(n, line) \in Seq(Tok) /\ Len(Dedents(n, line)) = n
         /\ \A i \in 1 .. n : Dedents(n, line)[i].kind = "DEDENT"
<1>0. PICK t : t = Token("DEDENT", line)
  OBVIOUS
<1>1. t \in Tok /\ t.kind = "DEDENT"
  <2>1. "DEDENT" \in TokenKind
    BY DEF TokenKind
  <2> QED BY <1>0, <2>1, TokParts
<1>2. Dedents(n, line) = [i \in 1 .. n |-> t]
  BY <1>0 DEF Dedents
<1> QED BY <1>1, <1>2

(* From the tokens t to the tokens u by way of one line.                   *)
Added(t, u, from, to, kind, n) ==
  /\ u \in Seq(Tok)
  /\ u[Len(u)] = Token(kind, n)
  /\ \A i \in 1 .. Len(t) : u[i] = t[i]
  /\ \/ to = from + 1 /\ Len(u) = Len(t) + 2 /\ u[Len(t) + 1].kind = "INDENT"
     \/ /\ to <= from /\ Len(u) = Len(t) + 1 + (from - to)
        /\ \A i \in Len(t) + 1 .. Len(u) - 1 : u[i].kind = "DEDENT"

LEMMA DedentsAdd ==
  ASSUME NEW t \in Seq(Tok), NEW from \in Nat, NEW to \in Nat, to <= from,
         NEW kind \in TokenKind, NEW n \in Nat,
         NEW u, u = t \o Dedents(from - to, n) \o <<Token(kind, n)>>
  PROVE  Added(t, u, from, to, kind, n)
<1>1. PICK k \in Nat : k = from - to
  OBVIOUS
<1>2. PICK m : m = Dedents(k, n)
  OBVIOUS
<1>3. m \in Seq(Tok) /\ Len(m) = k /\ \A i \in 1 .. k : m[i].kind = "DEDENT"
  BY <1>2, DedentsParts
<1>4. PICK last : last = Token(kind, n)
  OBVIOUS
<1>5. last \in Tok
  BY <1>4, TokParts
<1>6. u = After(t, m, last)
  BY <1>1, <1>2, <1>4 DEF After
<1>7. /\ u \in Seq(Tok) /\ Len(u) = Len(t) + k + 1 /\ u[Len(u)] = last
      /\ \A i \in 1 .. Len(t) : u[i] = t[i]
      /\ \A i \in 1 .. k : u[Len(t) + i] = m[i]
  <2>1. Follows(t, m, last, u)
    BY <1>3, <1>5, <1>6, TokensOn, Zenon
  <2> QED BY <1>3, <2>1 DEF Follows
<1>8. PICK l \in Nat : l = Len(t)
  OBVIOUS
<1>9. ASSUME NEW i \in l + 1 .. Len(u) - 1
      PROVE  u[i].kind = "DEDENT"
  <2>1. PICK j \in 1 .. k : i = l + j
    <3>1. i - l \in 1 .. k /\ i = l + (i - l)
      BY <1>7, <1>8
    <3> QED BY <3>1
  <2>2. u[i] = m[j]
    BY <1>7, <1>8, <2>1
  <2> QED BY <1>3, <2>2
<1>10. u[Len(u)] = Token(kind, n) /\ Len(u) = Len(t) + 1 + (from - to)
  <2>1. l + k + 1 = l + 1 + k
    BY <1>8
  <2> QED BY <1>1, <1>4, <1>7, <1>8, <2>1
<1>11. \A i \in Len(t) + 1 .. Len(u) - 1 : u[i].kind = "DEDENT"
  BY <1>8, <1>9
<1> QED BY <1>7, <1>10, <1>11 DEF Added

LEMMA IndentAdds ==
  ASSUME NEW t \in Seq(Tok), NEW from \in Nat, NEW kind \in TokenKind, NEW n \in Nat,
         NEW u, u = t \o <<Token("INDENT", n)>> \o <<Token(kind, n)>>
  PROVE  Added(t, u, from, from + 1, kind, n)
<1>1. PICK first, last : first = Token("INDENT", n) /\ last = Token(kind, n)
  OBVIOUS
<1>2. first \in Tok /\ last \in Tok /\ first.kind = "INDENT"
  <2>1. first \in Tok /\ first.kind = "INDENT"
    <3>1. "INDENT" \in TokenKind
      BY DEF TokenKind
    <3> QED BY <1>1, <3>1, TokParts
  <2>2. last \in Tok
    BY <1>1, TokParts
  <2> QED BY <2>1, <2>2
<1>3. PICK m : m = <<first>>
  OBVIOUS
<1>4. m \in Seq(Tok) /\ Len(m) = 1 /\ m[1] = first
  BY <1>2, <1>3
<1>5. u = After(t, m, last)
  BY <1>1, <1>3 DEF After
<1>6. /\ u \in Seq(Tok) /\ Len(u) = Len(t) + 1 + 1 /\ u[Len(u)] = last
      /\ \A i \in 1 .. Len(t) : u[i] = t[i]
      /\ u[Len(t) + 1] = m[1]
  <2>1. Follows(t, m, last, u)
    BY <1>2, <1>4, <1>5, TokensOn, Zenon
  <2> QED BY <1>4, <2>1 DEF Follows
<1>7. Len(t) \in Nat
  OBVIOUS
<1> QED BY <1>1, <1>2, <1>4, <1>6, <1>7 DEF Added

(* A line is lexed.                                                        *)
Lexes(x, y, line, n) ==
  /\ IsStack(y.stack)
  /\ Added(x.tokens, y.tokens, Len(x.stack), Len(y.stack), line.kind, n)
  /\ \/ Pushed(x.stack, y.stack, line.indent) /\ (y.bad <=> x.bad)
     \/ /\ Popped(x.stack, y.stack, line.indent)
        /\ y.bad <=> x.bad \/ line.indent # y.stack[Len(y.stack)]

LEMMA LineLexed ==
  ASSUME NEW file \in Seq(Line), NEW n \in 1 .. Len(file),
         NEW x, IsStack(x.stack), x.tokens \in Seq(Tok)
  PROVE  Lexes(x, LexLine(x, file, n), file[n], n)
<1>1. PICK line \in Line : line = file[n]
  OBVIOUS
<1>2. line.indent \in Nat /\ line.kind \in TokenKind /\ n \in Nat
  <2>1. line.indent \in Nat /\ line.kind \in LineKind
    BY DEF Line
  <2>2. line.kind \in TokenKind
    BY <2>1 DEF TokenKind
  <2>3. n \in Nat
    OBVIOUS
  <2> QED BY <2>1, <2>2, <2>3
<1>0. PICK st, t : st = x.stack /\ t = x.tokens
  OBVIOUS
<1>3. PICK indent \in Nat : indent = line.indent /\ st = x.stack /\ t = x.tokens
  BY <1>0, <1>2
<1>4. PICK e \in 1 .. Len(st) :
           /\ Above(st, indent) = Len(st) - e
           /\ st[e] <= indent /\ (e < Len(st) => indent < st[e + 1])
           /\ e < Len(st) => ~ (indent > Top(st))
           /\ indent > Top(st) => e = Len(st)
  BY <1>3, StackMoves
<1>5. PICK d \in Nat : d = Len(st) /\ d > 0 /\ \A i \in 1 .. d : st[i] \in Nat
  BY <1>3 DEF IsStack
<1>6. PICK below : below = SubSeq(st, 1, e)
  OBVIOUS
<1>7. below \in Seq(Nat) /\ Len(below) = e /\ \A i \in 1 .. e : below[i] = st[i]
  BY <1>3, <1>4, <1>5, <1>6 DEF IsStack
<1>8. PICK k \in Nat : k = d - e /\ d - k = e
  <2>1. e \in 1 .. d
    BY <1>5
  <2>2. d - e \in Nat /\ d - (d - e) = e
    BY <2>1
  <2> QED BY <2>2
<1>9. PICK y : y = LexLine(x, file, n)
  OBVIOUS
<1>10. y = [stack  |-> IF indent > Top(st) THEN Append(st, indent) ELSE below,
            tokens |-> t \o (IF indent > Top(st) THEN <<Token("INDENT", n)>> ELSE Dedents(k, n))
                         \o <<Token(line.kind, n)>>,
            bad    |-> x.bad \/ (indent < Top(st) /\ indent # Top(below))]
  BY <1>1, <1>3, <1>4, <1>5, <1>6, <1>8, <1>9 DEF LexLine
<1>11. CASE indent > Top(st)
  <2>1. /\ y.stack = Append(st, indent)
        /\ y.tokens = t \o <<Token("INDENT", n)>> \o <<Token(line.kind, n)>>
        /\ y.bad <=> x.bad \/ (indent < Top(st) /\ indent # Top(below))
    BY <1>10, <1>11
  <2>2. Pushed(st, y.stack, indent)
    BY <1>11, <2>1 DEF Pushed
  <2>3. IsStack(y.stack) /\ Len(y.stack) = d + 1
    BY <1>3, <1>5, <2>2, StackKept
  <2>4. Added(t, y.tokens, d, d + 1, line.kind, n)
    BY <1>2, <1>3, <2>1, IndentAdds
  <2>5. Top(st) \in Nat
    BY <1>5 DEF Top
  <2>6. y.bad <=> x.bad
    BY <1>11, <2>1, <2>5
  <2> QED BY <1>1, <1>3, <1>5, <1>9, <2>2, <2>3, <2>4, <2>6 DEF Lexes
<1>12. CASE ~ (indent > Top(st))
  <2>1. /\ y.stack = below
        /\ y.tokens = t \o Dedents(k, n) \o <<Token(line.kind, n)>>
        /\ y.bad <=> x.bad \/ (indent < Top(st) /\ indent # Top(below))
    BY <1>10, <1>12
  <2>2. Popped(st, y.stack, indent)
    <3>1. indent <= Top(st)
      BY <1>5, <1>12 DEF Top
    <3> QED BY <1>4, <1>5, <1>7, <2>1, <3>1 DEF Popped
  <2>3. IsStack(y.stack)
    BY <1>3, <1>7, <2>1, <2>2, StackKept
  <2>4. Added(t, y.tokens, d, e, line.kind, n)
    <3>1. e \in Nat /\ e <= d
      BY <1>4, <1>5
    <3> QED BY <1>2, <1>3, <1>5, <1>8, <2>1, <3>1, DedentsAdd
  <2>5. y.bad <=> x.bad \/ indent # y.stack[e]
    <3>1. Top(st) = st[d] /\ Top(below) = st[e] /\ st[d] \in Nat /\ e \in 1 .. d
      BY <1>4, <1>5, <1>7 DEF Top
    <3>2. indent = st[d] => e = d
      <4>1. ASSUME e < d
            PROVE  indent < st[d]
        <5>1. e + 1 \in 1 .. d /\ d \in 1 .. d
          BY <3>1, <4>1
        <5>2. e + 1 < d => st[e + 1] < st[d]
          BY <1>3, <1>5, <5>1 DEF IsStack
        <5>3. indent < st[e + 1] /\ st[e + 1] \in Nat
          BY <1>4, <1>5, <4>1, <5>1
        <5> QED BY <1>5, <3>1, <4>1, <5>1, <5>2, <5>3
      <4> QED BY <3>1, <4>1
    <3>3. y.stack[e] = st[e]
      BY <1>7, <2>1, <3>1
    <3> QED BY <1>12, <2>1, <3>1, <3>2, <3>3
  <2> QED BY <1>1, <1>3, <1>5, <1>7, <1>9, <2>1, <2>2, <2>3, <2>4, <2>5 DEF Lexes
<1> QED BY <1>11, <1>12

-----------------------------------------------------------------------------
(* The lines of a file are laid out in its tokens: d[k] is how many levels *)
(* there are at line k, a[k] where its own token is.  The end is one line  *)
(* more, that is not indented.                                             *)
KindOf(file, k) == IF k <= Len(file) THEN file[k].kind ELSE "EOF"

(* Where the token of line k is, and what is between it and the last.      *)
Placed(kind, s, a, d, k) ==
  /\ s[a[k]] = Token(kind, k)
  /\ \/ d[k] = d[k - 1] + 1 /\ a[k] = a[k - 1] + 2 /\ s[a[k - 1] + 1].kind = "INDENT"
     \/ /\ d[k] <= d[k - 1] /\ a[k] = a[k - 1] + 1 + (d[k - 1] - d[k])
        /\ \A i \in a[k - 1] + 1 .. a[k] - 1 : s[i].kind = "DEDENT"

Layout(file, s, a, d) ==
  LET N == Len(file)
  IN  /\ a \in [0 .. N + 1 -> Nat] /\ d \in [0 .. N + 1 -> Nat \ {0}]
      /\ a[0] = 0 /\ a[N + 1] = Len(s) /\ s \in Seq(Tok)
      /\ d[0] = 1 /\ d[N + 1] = 1
      /\ \A k \in 1 .. N + 1 : Placed(KindOf(file, k), s, a, d, k)

(* The stack after each line, and whether one was bad by then.             *)
Stacking(file, st, bad) ==
  /\ st[0] = <<0>> /\ ~ bad[0]
  /\ \A k \in 1 .. Len(file) :
       /\ IsStack(st[k])
       /\ \/ Pushed(st[k - 1], st[k], file[k].indent) /\ (bad[k] <=> bad[k - 1])
          \/ /\ Popped(st[k - 1], st[k], file[k].indent)
             /\ bad[k] <=> bad[k - 1] \/ file[k].indent # st[k][Len(st[k])]

Laid(file, x, st, bad, a, d) ==
  /\ Stacking(file, st, bad) /\ Layout(file, x.tokens, a, d)
  /\ \A k \in 0 .. Len(file) : d[k] = Len(st[k])
  /\ x.bad <=> bad[Len(file)]

Lexed(file, f) ==
  /\ f[0] = [stack |-> <<0>>, tokens |-> <<>>, bad |-> FALSE]
  /\ \A k \in 1 .. Len(file) : f[k] = LexLine(f[k - 1], file, k)
  /\ LexedUpTo(file, Len(file)) = f[Len(file)]

LEMMA LexedTurns ==
  ASSUME NEW file \in Seq(Line)
  PROVE  \E f : Lexed(file, f)
<1> DEFINE a == [file |-> file]
           first == [stack |-> <<0>>, tokens |-> <<>>, bad |-> FALSE]
           N == Len(file)
<1>0. N \in Nat
  OBVIOUS
<1>1. PICK f : Recurs(f, "lexed", a, first, N)
  BY <1>0, Recursion
<1>2. \A x, k : Turn("lexed", a, k, x) = LexLine(x, file, k)
  BY DEF Turn
<1> HIDE DEF first, N
<1>3. f = [k \in 0 .. N |-> IF k = 0 THEN first ELSE LexLine(f[k - 1], file, k)]
  BY <1>1, <1>2 DEF Recurs
<1>4. PICK g : g = CHOOSE x : x = [k \in 0 .. N |-> IF k = 0 THEN first ELSE LexLine(x[k - 1], file, k)]
  OBVIOUS
<1>5. g = [k \in 0 .. N |-> IF k = 0 THEN first ELSE LexLine(g[k - 1], file, k)]
  BY <1>3, <1>4, Zenon
<1>6. LexedUpTo(file, N) = g[N]
  BY <1>4, Zenon DEF LexedUpTo, first
<1>7. Recurs(g, "lexed", a, first, N)
  BY <1>2, <1>5 DEF Recurs
<1>8. g[0] = first /\ \A k \in 1 .. N : g[k] = Turn("lexed", a, k, g[k - 1])
  BY <1>0, <1>7, RecursionTurns
<1>9. \A k \in 1 .. N : g[k] = LexLine(g[k - 1], file, k)
  BY <1>2, <1>8
<1> QED BY <1>6, <1>8, <1>9 DEF Lexed, first, N

LEMMA LexedLines ==
  ASSUME NEW file \in Seq(Line), NEW f, Lexed(file, f)
  PROVE  /\ \A k \in 0 .. Len(file) : IsStack(f[k].stack) /\ f[k].tokens \in Seq(Tok)
         /\ \A k \in 1 .. Len(file) : Lexes(f[k - 1], f[k], file[k], k)
<1> DEFINE GoesWell(x) == IsStack(x.stack) /\ x.tokens \in Seq(Tok)
           S == {k \in Nat : k <= Len(file) => GoesWell(f[k])}
<1>0. Len(file) \in Nat
  OBVIOUS
<1>1. GoesWell(f[0])
  <2>1. f[0].stack = <<0>> /\ f[0].tokens = <<>>
    BY DEF Lexed
  <2>2. IsStack(<<0>>)
    BY DEF IsStack
  <2>3. <<>> \in Seq(Tok)
    OBVIOUS
  <2> QED BY <2>1, <2>2, <2>3
<1>2. ASSUME NEW k \in 1 .. Len(file), GoesWell(f[k - 1])
      PROVE  Lexes(f[k - 1], f[k], file[k], k)
  <2>1. f[k] = LexLine(f[k - 1], file, k)
    BY DEF Lexed
  <2> QED BY <1>2, <2>1, LineLexed
<1>3. ASSUME NEW k \in Nat, k \in S
      PROVE  k + 1 \in S
  <2>1. ASSUME k + 1 <= Len(file)
        PROVE  GoesWell(f[k + 1])
    <3>1. PICK j \in 1 .. Len(file) : j = k + 1 /\ j - 1 = k
      BY <1>0, <2>1
    <3>2. GoesWell(f[j - 1])
      BY <1>0, <1>3, <3>1
    <3>3. Lexes(f[j - 1], f[j], file[j], j)
      BY <1>2, <3>2
    <3> QED BY <3>1, <3>3 DEF Lexes, Added
  <2> HIDE DEF GoesWell
  <2> QED BY <2>1
<1>4. \A k \in Nat : k \in S => k + 1 \in S
  BY <1>3
<1>5. 0 \in S
  BY <1>1
<1> HIDE DEF S
<1>6. \A k \in 0 .. Len(file) : GoesWell(f[k])
  <2>1. \A k \in Nat : k \in S
    BY <1>4, <1>5, Successors
  <2> HIDE DEF GoesWell
  <2> QED BY <1>0, <2>1 DEF S
<1>7. \A k \in 1 .. Len(file) : k - 1 \in 0 .. Len(file)
  BY <1>0
<1>8. ASSUME NEW k \in 1 .. Len(file)
      PROVE  Lexes(f[k - 1], f[k], file[k], k)
  BY <1>2, <1>6, <1>7
<1> QED BY <1>6, <1>8

(* What is lexed by a line is still there later.                           *)
LEMMA TokensStay ==
  ASSUME NEW file \in Seq(Line), NEW f, Lexed(file, f), NEW k \in 0 .. Len(file),
         NEW i \in 1 .. Len(f[k].tokens)
  PROVE  i \in 1 .. Len(f[Len(file)].tokens)
         /\ f[Len(file)].tokens[i] = f[k].tokens[i]
<1> DEFINE Stays(m) == i \in 1 .. Len(f[m].tokens) /\ f[m].tokens[i] = f[k].tokens[i]
           S == {m \in Nat : k + m <= Len(file) => Stays(k + m)}
<1>0. Len(file) \in Nat /\ k \in Nat
  OBVIOUS
<1>1. 0 \in S
  <2>1. k + 0 = k
    BY <1>0
  <2> QED BY <2>1
<1>2. ASSUME NEW m \in Nat, m \in S
      PROVE  m + 1 \in S
  <2>1. ASSUME k + (m + 1) <= Len(file)
        PROVE  Stays(k + (m + 1))
    <3>1. PICK j \in 1 .. Len(file) : j = k + (m + 1) /\ j - 1 = k + m
      BY <1>0, <2>1
    <3>2. Stays(j - 1)
      BY <1>0, <1>2, <3>1
    <3>3. Added(f[j - 1].tokens, f[j].tokens, Len(f[j - 1].stack), Len(f[j].stack),
                file[j].kind, j)
      BY LexedLines DEF Lexes
    <3>4. f[j - 1].tokens \in Seq(Tok) /\ f[j].tokens \in Seq(Tok)
      <4>1. j - 1 \in 0 .. Len(file) /\ j \in 0 .. Len(file)
        BY <1>0
      <4> QED BY <4>1, LexedLines
    <3>5. Len(f[j - 1].tokens) <= Len(f[j].tokens)
      <4>1. PICK p \in Nat, q \in Nat : p = Len(f[j - 1].stack) /\ q = Len(f[j].stack)
        <5>1. j - 1 \in 0 .. Len(file) /\ j \in 0 .. Len(file)
          BY <1>0
        <5>2. IsStack(f[j - 1].stack) /\ IsStack(f[j].stack)
          BY <5>1, LexedLines
        <5>3. Len(f[j - 1].stack) \in Nat /\ Len(f[j].stack) \in Nat
          BY <5>2 DEF IsStack
        <5> QED BY <5>3
      <4>2. PICK u \in Seq(Tok), v \in Seq(Tok) : u = f[j - 1].tokens /\ v = f[j].tokens
        BY <3>4
      <4>3. \/ Len(v) = Len(u) + 2
            \/ q <= p /\ Len(v) = Len(u) + 1 + (p - q)
        BY <3>3, <4>1, <4>2 DEF Added
      <4>4. Len(u) \in Nat /\ Len(v) \in Nat
        BY <4>2
      <4>5. Len(u) <= Len(v)
        <5>1. CASE Len(v) = Len(u) + 2
          BY <4>4, <5>1
        <5>2. CASE q <= p /\ Len(v) = Len(u) + 1 + (p - q)
          <6>1. q <= p
            BY <5>2
          <6>2. p - q \in Nat
            BY <6>1
          <6> QED BY <4>4, <5>2, <6>2
        <5> QED BY <4>3, <5>1, <5>2
      <4> QED BY <4>2, <4>5
    <3>6. f[j].tokens[i] = f[j - 1].tokens[i]
      BY <3>2, <3>3 DEF Added
    <3>7. Stays(j)
      BY <3>2, <3>4, <3>5, <3>6
    <3> QED BY <3>1, <3>7
  <2> HIDE DEF Stays
  <2> QED BY <2>1
<1>3. \A m \in Nat : m \in S => m + 1 \in S
  BY <1>2
<1> HIDE DEF S
<1>4. Len(file) - k \in S /\ k + (Len(file) - k) = Len(file)
  <2>1. Len(file) - k \in Nat /\ k + (Len(file) - k) = Len(file)
    BY <1>0
  <2> QED BY <1>1, <1>3, <2>1, Successors
<1>5. Stays(Len(file))
  <2> HIDE DEF Stays
  <2> QED BY <1>0, <1>4 DEF S
<1> QED BY <1>5

LEMMA AddedPlaced ==
  ASSUME NEW N \in Nat, NEW a \in [0 .. N + 1 -> Nat], NEW d \in [0 .. N + 1 -> Nat \ {0}],
         NEW k \in 1 .. N + 1, NEW t \in Seq(Tok), NEW u \in Seq(Tok), NEW s, NEW kind,
         Added(t, u, d[k - 1], d[k], kind, k), a[k - 1] = Len(t), a[k] = Len(u),
         \A i \in 1 .. Len(u) : s[i] = u[i]
  PROVE  Placed(kind, s, a, d, k)
<1>1. k \in 0 .. N + 1 /\ k - 1 \in 0 .. N + 1
  OBVIOUS
<1>2. PICK p \in Nat, q \in Nat, from \in Nat, to \in Nat :
           p = a[k - 1] /\ q = a[k] /\ from = d[k - 1] /\ to = d[k]
  BY <1>1
<1>3. /\ u[q] = Token(kind, k)
      /\ \/ to = from + 1 /\ q = p + 2 /\ u[p + 1].kind = "INDENT"
         \/ to <= from /\ q = p + 1 + (from - to) /\ \A i \in p + 1 .. q - 1 : u[i].kind = "DEDENT"
  BY <1>2 DEF Added
<1>4. p < q
  <2>1. q = p + 2 \/ (to <= from /\ q = p + 1 + (from - to))
    BY <1>3
  <2> QED BY <2>1
<1>5. \A i \in p + 1 .. q : s[i] = u[i]
  <2>1. \A i \in p + 1 .. q : i \in 1 .. q
    BY <1>2
  <2> QED BY <1>2, <2>1
<1>6. q \in p + 1 .. q /\ p + 1 \in p + 1 .. q /\ \A i \in p + 1 .. q - 1 : i \in p + 1 .. q
  <2>1. PICK v \in Nat, w \in Nat : v = p + 1 /\ w = q /\ v <= w
    BY <1>4
  <2>2. w \in v .. w /\ v \in v .. w /\ \A i \in v .. w - 1 : i \in v .. w
    BY <2>1
  <2> QED BY <2>1, <2>2
<1>7. s[q] = Token(kind, k) /\ s[p + 1] = u[p + 1]
  BY <1>3, <1>5, <1>6
<1>8. CASE to = from + 1 /\ q = p + 2 /\ u[p + 1].kind = "INDENT"
  BY <1>2, <1>7, <1>8 DEF Placed
<1>9. CASE to <= from /\ q = p + 1 + (from - to) /\ \A i \in p + 1 .. q - 1 : u[i].kind = "DEDENT"
  <2>1. \A i \in p + 1 .. q - 1 : s[i].kind = "DEDENT"
    BY <1>5, <1>6, <1>9
  <2> QED BY <1>2, <1>7, <1>9, <2>1 DEF Placed
<1> QED BY <1>3, <1>8, <1>9

LEMMA LexLaid ==
  ASSUME NEW file \in Seq(Line)
  PROVE  \E st, bad, a, d : Laid(file, Lex(file), st, bad, a, d)
<1>1. PICK f : Lexed(file, f)
  BY LexedTurns
<1>2. PICK N \in Nat : N = Len(file)
  OBVIOUS
<1>3. PICK x : x = f[N]
  OBVIOUS
<1>4. IsStack(x.stack) /\ x.tokens \in Seq(Tok)
  <2>1. N \in 0 .. Len(file)
    BY <1>2
  <2> QED BY <1>1, <1>3, <2>1, LexedLines
<1>5. PICK s : s = x.tokens \o Dedents(Len(x.stack) - 1, N + 1) \o <<Token("EOF", N + 1)>>
  OBVIOUS
<1>6. PICK y : y = Lex(file)
  OBVIOUS
<1>7. y.tokens = s /\ (y.bad <=> x.bad)
  <2>1. y = Closed(x, N + 1)
    BY <1>1, <1>2, <1>3, <1>6 DEF Lex, Lexed
  <2> QED BY <1>5, <2>1 DEF Closed
<1>8. Added(x.tokens, s, Len(x.stack), 1, "EOF", N + 1)
  <2>1. "EOF" \in TokenKind /\ Len(x.stack) \in Nat /\ 1 <= Len(x.stack) /\ N + 1 \in Nat
    BY <1>4 DEF TokenKind, IsStack
  <2> QED BY <1>4, <1>5, <2>1, DedentsAdd
<1>9. s \in Seq(Tok) /\ \A i \in 1 .. Len(x.tokens) : s[i] = x.tokens[i]
  BY <1>8 DEF Added
<1>10. PICK st : st = [k \in 0 .. N |-> f[k].stack]
  OBVIOUS
<1>11. PICK bad : bad = [k \in 0 .. N |-> f[k].bad]
  OBVIOUS
<1>12. PICK a : a = [k \in 0 .. N + 1 |-> IF k = N + 1 THEN Len(s) ELSE Len(f[k].tokens)]
  OBVIOUS
<1>13. PICK d : d = [k \in 0 .. N + 1 |-> IF k = N + 1 THEN 1 ELSE Len(f[k].stack)]
  OBVIOUS
<1>14. /\ \A k \in 0 .. N : /\ st[k] = f[k].stack /\ (bad[k] <=> f[k].bad)
                           /\ a[k] = Len(f[k].tokens) /\ d[k] = Len(f[k].stack)
       /\ a[N + 1] = Len(s) /\ d[N + 1] = 1
  <2>1. \A k \in 0 .. N : k \in 0 .. N + 1 /\ k # N + 1
    OBVIOUS
  <2> QED BY <1>10, <1>11, <1>12, <1>13, <2>1
<1>15. Stacking(file, st, bad)
  <2>1. st[0] = <<0>> /\ ~ bad[0]
    BY <1>1, <1>14 DEF Lexed
  <2>2. ASSUME NEW k \in 1 .. Len(file)
        PROVE  /\ IsStack(st[k])
               /\ \/ Pushed(st[k - 1], st[k], file[k].indent) /\ (bad[k] <=> bad[k - 1])
                  \/ /\ Popped(st[k - 1], st[k], file[k].indent)
                     /\ bad[k] <=> bad[k - 1] \/ file[k].indent # st[k][Len(st[k])]
    <3>1. k \in 0 .. N /\ k - 1 \in 0 .. N
      BY <1>2
    <3>2. Lexes(f[k - 1], f[k], file[k], k)
      BY <1>1, LexedLines
    <3>3. /\ st[k] = f[k].stack /\ (bad[k] <=> f[k].bad)
          /\ st[k - 1] = f[k - 1].stack /\ (bad[k - 1] <=> f[k - 1].bad)
      BY <1>14, <3>1
    <3> QED BY <3>2, <3>3 DEF Lexes
  <2> QED BY <2>1, <2>2 DEF Stacking
<1>16. \A k \in 0 .. N : d[k] \in Nat \ {0} /\ a[k] \in Nat
  <2>1. \A k \in 0 .. N : IsStack(f[k].stack) /\ f[k].tokens \in Seq(Tok)
    BY <1>1, <1>2, LexedLines
  <2>2. \A k \in 0 .. N : Len(f[k].stack) \in Nat \ {0} /\ Len(f[k].tokens) \in Nat
    BY <2>1 DEF IsStack
  <2> QED BY <1>14, <2>2
<1>17. a \in [0 .. N + 1 -> Nat] /\ d \in [0 .. N + 1 -> Nat \ {0}]
  <2>1. Len(s) \in Nat /\ 1 \in Nat \ {0}
    BY <1>9
  <2>2. \A k \in 0 .. N + 1 : k = N + 1 \/ k \in 0 .. N
    OBVIOUS
  <2>3. \A k \in 0 .. N + 1 : a[k] \in Nat /\ d[k] \in Nat \ {0}
    BY <1>14, <1>16, <2>1, <2>2
  <2> QED BY <1>12, <1>13, <2>3
<1>18. a[0] = 0 /\ d[0] = 1
  <2>1. f[0].tokens = <<>> /\ f[0].stack = <<0>>
    BY <1>1 DEF Lexed
  <2>2. 0 \in 0 .. N /\ Len(<<>>) = 0 /\ Len(<<0>>) = 1
    OBVIOUS
  <2> QED BY <1>14, <2>1, <2>2
<1>19. x.tokens \in Seq(Tok) /\ N + 1 \in 1 .. N + 1
  BY <1>4
<1>20. ASSUME NEW k \in 1 .. N + 1
       PROVE  Placed(KindOf(file, k), s, a, d, k)
  <2>1. CASE k = N + 1
    <3>1. k - 1 = N /\ k - 1 \in 0 .. N
      BY <2>1
    <3>2. KindOf(file, k) = "EOF"
      BY <1>2, <2>1 DEF KindOf
    <3>3. /\ a[k - 1] = Len(x.tokens) /\ d[k - 1] = Len(x.stack) /\ a[k] = Len(s) /\ d[k] = 1
      BY <1>3, <1>14, <2>1, <3>1
    <3>4. Added(x.tokens, s, d[k - 1], d[k], "EOF", k)
      BY <1>8, <2>1, <3>3
    <3>5. a[k - 1] = Len(x.tokens) /\ a[k] = Len(s) /\ \A i \in 1 .. Len(s) : s[i] = s[i]
      BY <3>3
    <3> QED BY <1>9, <1>17, <1>19, <3>2, <3>4, <3>5, AddedPlaced
  <2>2. CASE k # N + 1
    <3>1. k \in 1 .. N /\ k \in 0 .. N /\ k - 1 \in 0 .. N /\ k \in 0 .. Len(file)
      BY <1>2, <2>2
    <3>2. KindOf(file, k) = file[k].kind
      BY <1>2, <3>1 DEF KindOf
    <3>3. /\ a[k - 1] = Len(f[k - 1].tokens) /\ d[k - 1] = Len(f[k - 1].stack)
          /\ a[k] = Len(f[k].tokens) /\ d[k] = Len(f[k].stack)
      BY <1>14, <3>1
    <3>4. PICK t, u : t = f[k - 1].tokens /\ u = f[k].tokens
      OBVIOUS
    <3>5. Added(t, u, d[k - 1], d[k], file[k].kind, k)
      <4>1. Lexes(f[k - 1], f[k], file[k], k)
        BY <1>1, <1>2, <3>1, LexedLines
      <4> QED BY <3>3, <3>4, <4>1 DEF Lexes
    <3>6. u \in Seq(Tok)
      BY <1>1, <3>1, <3>4, LexedLines
    <3>7. \A i \in 1 .. Len(u) : s[i] = u[i]
      <4>1. \A i \in 1 .. Len(u) : i \in 1 .. Len(x.tokens) /\ x.tokens[i] = u[i]
        BY <1>1, <1>2, <1>3, <3>1, <3>4, TokensStay
      <4> QED BY <1>9, <4>1
    <3>8. t \in Seq(Tok) /\ a[k - 1] = Len(t) /\ a[k] = Len(u)
      <4>1. k - 1 \in 0 .. Len(file)
        BY <1>2, <3>1
      <4> QED BY <1>1, <3>3, <3>4, <4>1, LexedLines
    <3> QED BY <1>17, <3>2, <3>5, <3>6, <3>7, <3>8, AddedPlaced
  <2> QED BY <2>1, <2>2
<1>21. Layout(file, s, a, d)
  <2>1. \A k \in 1 .. N + 1 : Placed(KindOf(file, k), s, a, d, k)
    BY <1>20
  <2>2. d[0] = 1 /\ d[N + 1] = 1 /\ a[0] = 0 /\ a[N + 1] = Len(s)
    BY <1>14, <1>18
  <2> QED BY <1>2, <1>9, <1>17, <2>1, <2>2, Zenon DEF Layout
<1>22. Laid(file, y, st, bad, a, d)
  <2>1. Layout(file, y.tokens, a, d)
    BY <1>7, <1>21, Zenon
  <2>2. \A k \in 0 .. Len(file) : d[k] = Len(st[k])
    BY <1>2, <1>14
  <2>3. y.bad <=> bad[Len(file)]
    <3>1. N \in 0 .. N
      OBVIOUS
    <3> QED BY <1>2, <1>3, <1>7, <1>14, <3>1
  <2> QED BY <1>15, <2>1, <2>2, <2>3, Zenon DEF Laid
<1> QED BY <1>6, <1>22

-----------------------------------------------------------------------------
(* What is on the stack stays as long as no line is popped below it.       *)
StayAbove(st, i, j, e) == \A m \in i .. j : e <= Len(st[m])

SharedUpTo(st, i, j, e) == \A l \in 1 .. e : st[j][l] = st[i][l]

LEMMA StackShared ==
  ASSUME NEW file \in Seq(Line), NEW st, NEW bad, Stacking(file, st, bad),
         NEW i \in 0 .. Len(file), NEW j \in i .. Len(file), NEW e \in Nat,
         StayAbove(st, i, j, e)
  PROVE  SharedUpTo(st, i, j, e)
<1> DEFINE S == {k \in Nat : i + k <= j => \A l \in 1 .. e : st[i + k][l] = st[i][l]}
<1>0. PICK N \in Nat : N = Len(file) /\ i \in Nat /\ j \in Nat /\ j <= N
  OBVIOUS
<1>1. 0 \in S
  <2>1. i + 0 = i
    BY <1>0
  <2> QED BY <2>1
<1>2. ASSUME NEW k \in Nat, k \in S
      PROVE  k + 1 \in S
  <2>1. ASSUME i + (k + 1) <= j, NEW l \in 1 .. e
        PROVE  st[i + (k + 1)][l] = st[i][l]
    <3>1. PICK m \in 1 .. N : m = i + (k + 1) /\ m - 1 = i + k /\ m \in i .. j /\ m - 1 \in i .. j
      BY <1>0, <2>1
    <3>2. st[m - 1][l] = st[i][l]
      BY <1>0, <1>2, <3>1
    <3>3. PICK v, w : v = st[m - 1] /\ w = st[m]
      OBVIOUS
    <3>4. e <= Len(v) /\ e <= Len(w)
      BY <3>1, <3>3 DEF StayAbove
    <3>5. v \in Seq(Nat)
      <4>1. m - 1 = 0 \/ m - 1 \in 1 .. N
        BY <3>1
      <4>2. <<0>> \in Seq(Nat)
        OBVIOUS
      <4> QED BY <1>0, <3>3, <4>1, <4>2 DEF Stacking, IsStack
    <3>6. Pushed(v, w, file[m].indent) \/ Popped(v, w, file[m].indent)
      BY <1>0, <3>1, <3>3 DEF Stacking
    <3>7. file[m].indent \in Nat
      <4>1. file[m] \in Line
        BY <1>0, <3>1
      <4> QED BY <4>1 DEF Line
    <3>8. CASE Pushed(v, w, file[m].indent)
      <4>1. w = Append(v, file[m].indent) /\ l \in 1 .. Len(v)
        BY <3>4, <3>5, <3>8 DEF Pushed
      <4>2. w[l] = v[l]
        BY <3>5, <3>7, <4>1
      <4> QED BY <3>1, <3>2, <3>3, <4>2
    <3>9. CASE Popped(v, w, file[m].indent)
      <4>1. l \in 1 .. Len(w)
        BY <3>4, <3>5, <3>9 DEF Popped
      <4>2. w[l] = v[l]
        BY <3>9, <4>1 DEF Popped
      <4> QED BY <3>1, <3>2, <3>3, <4>2
    <3> QED BY <3>6, <3>8, <3>9
  <2> QED BY <2>1
<1>3. \A k \in Nat : k \in S => k + 1 \in S
  BY <1>2
<1> HIDE DEF S
<1>4. j - i \in S /\ i + (j - i) = j
  <2>1. j - i \in Nat /\ i + (j - i) = j
    BY <1>0
  <2> QED BY <1>1, <1>3, <2>1, Successors
<1> QED BY <1>4 DEF S, SharedUpTo

(* Once a line was bad it stays so.                                        *)
LEMMA BadStays ==
  ASSUME NEW file \in Seq(Line), NEW st, NEW bad, Stacking(file, st, bad),
         NEW n \in 0 .. Len(file), ~ bad[n], NEW k \in 0 .. n
  PROVE  ~ bad[k]
<1> DEFINE S == {m \in Nat : m <= n => ~ bad[n - m]}
<1>0. PICK N \in Nat : N = Len(file) /\ n \in Nat /\ k \in Nat /\ n <= N /\ k <= n
  OBVIOUS
<1>1. 0 \in S
  <2>1. n - 0 = n
    BY <1>0
  <2> QED BY <2>1
<1>2. ASSUME NEW m \in Nat, m \in S
      PROVE  m + 1 \in S
  <2>1. ASSUME m + 1 <= n
        PROVE  ~ bad[n - (m + 1)]
    <3>1. PICK j \in 1 .. N : j = n - m /\ j - 1 = n - (m + 1)
      BY <1>0, <2>1
    <3>2. ~ bad[j]
      BY <1>0, <1>2, <2>1, <3>1
    <3>3. bad[j - 1] => bad[j]
      BY <1>0, <3>1 DEF Stacking
    <3> QED BY <3>1, <3>2, <3>3
  <2> QED BY <2>1
<1>3. \A m \in Nat : m \in S => m + 1 \in S
  BY <1>2
<1> HIDE DEF S
<1>4. n - k \in S /\ n - (n - k) = k
  <2>1. n - k \in Nat /\ n - (n - k) = k
    BY <1>0
  <2> QED BY <1>1, <1>3, <2>1, Successors
<1> QED BY <1>0, <1>4 DEF S

(* The stack at a line that is not bad: the line's own indentation is on   *)
(* top and those below are less.                                           *)
LineOnTop(file, st, d, k) ==
  /\ st[k] \in Seq(Nat) /\ d[k] = Len(st[k]) /\ d[k] > 0 /\ st[k][1] = 0
  /\ file[k].indent \in Nat /\ file[k].indent = st[k][d[k]]
  /\ \A e \in 1 .. d[k] - 1 : st[k][e] < file[k].indent

LEMMA GoodLine ==
  ASSUME NEW file \in Seq(Line), NEW st, NEW bad, Stacking(file, st, bad),
         NEW d, NEW k \in 1 .. Len(file), d[k] = Len(st[k]), ~ bad[k]
  PROVE  LineOnTop(file, st, d, k)
<1>1. IsStack(st[k])
  BY DEF Stacking
<1>2. PICK w : w = st[k]
  OBVIOUS
<1>3. PICK n \in Nat : n = Len(w) /\ n > 0 /\ w \in Seq(Nat) /\ \A i \in 1 .. n : w[i] \in Nat
  <2>1. w \in Seq(Nat) /\ w # <<>>
    BY <1>1, <1>2 DEF IsStack
  <2>2. Len(w) \in Nat /\ Len(w) > 0 /\ \A i \in 1 .. Len(w) : w[i] \in Nat
    BY <2>1
  <2> QED BY <2>1, <2>2
<1>4. PICK x \in Nat : x = file[k].indent
  <2>1. file[k] \in Line
    OBVIOUS
  <2> QED BY <2>1 DEF Line
<1>5. w[n] = x
  <2>1. CASE Pushed(st[k - 1], w, x) /\ (bad[k] <=> bad[k - 1])
    <3>1. PICK v : v = st[k - 1]
      OBVIOUS
    <3>2. v \in Seq(Nat)
      <4>1. k - 1 = 0 \/ k - 1 \in 1 .. Len(file)
        OBVIOUS
      <4>2. <<0>> \in Seq(Nat)
        OBVIOUS
      <4> QED BY <3>1, <4>1, <4>2 DEF Stacking, IsStack
    <3>3. w = Append(v, x)
      BY <2>1, <3>1 DEF Pushed
    <3>4. Len(w) = Len(v) + 1 /\ w[Len(v) + 1] = x
      BY <1>4, <3>2, <3>3
    <3> QED BY <1>3, <3>4
  <2>2. CASE bad[k] <=> bad[k - 1] \/ x # w[n]
    BY <2>2
  <2> QED BY <1>2, <1>3, <1>4, <2>1, <2>2 DEF Stacking
<1>6. \A e \in 1 .. n - 1 : w[e] < w[n]
  <2>1. \A i, j \in 1 .. n : i < j => w[i] < w[j]
    BY <1>1, <1>2, <1>3 DEF IsStack
  <2>2. \A e \in 1 .. n - 1 : e \in 1 .. n /\ n \in 1 .. n /\ e < n
    BY <1>3
  <2> QED BY <2>1, <2>2
<1> QED BY <1>1, <1>2, <1>3, <1>4, <1>5, <1>6 DEF LineOnTop, IsStack

(* The line that a line is under, by the levels.                           *)
Heads(d, p, n) ==
  /\ p \in 0 .. n - 1
  /\ p = 0 \/ d[p] < d[n]
  /\ \A m \in p + 1 .. n : d[n] <= d[m]

(* Levels rise by one at most.                                             *)
Rising(d, n) ==
  /\ d \in [0 .. n + 1 -> Nat \ {0}] /\ d[0] = 1 /\ d[n + 1] = 1
  /\ \A k \in 1 .. n + 1 : d[k] <= d[k - 1] + 1

LEMMA LayoutLevels ==
  ASSUME NEW file \in Seq(Line), NEW s, NEW a, NEW d, Layout(file, s, a, d)
  PROVE  Rising(d, Len(file))
<1>1. PICK N \in Nat : N = Len(file)
  OBVIOUS
<1>2. d \in [0 .. N + 1 -> Nat \ {0}] /\ d[0] = 1 /\ d[N + 1] = 1
  BY <1>1 DEF Layout
<1>3. ASSUME NEW k \in 1 .. N + 1
      PROVE  d[k] <= d[k - 1] + 1
  <2>1. d[k] = d[k - 1] + 1 \/ d[k] <= d[k - 1]
    <3>1. Placed(KindOf(file, k), s, a, d, k)
      BY <1>1 DEF Layout
    <3> QED BY <3>1 DEF Placed
  <2>2. k \in 0 .. N + 1 /\ k - 1 \in 0 .. N + 1
    BY <1>1
  <2> QED BY <1>2, <2>1, <2>2
<1> QED BY <1>1, <1>2, <1>3 DEF Rising

LEMMA UnderExists ==
  ASSUME NEW N \in Nat, NEW d, Rising(d, N), NEW n \in 1 .. N
  PROVE  \E p : Heads(d, p, n)
<1> DEFINE T == {0} \union {i \in 1 .. n - 1 : d[i] < d[n]}
<1>1. T \in SUBSET (0 .. n - 1) /\ n - 1 \in Nat /\ T # {}
  OBVIOUS
<1>2. PICK p : p = Latest(T)
  OBVIOUS
<1>3. p \in T /\ \A j \in T : j <= p
  BY <1>1, <1>2, LatestIn
<1>4. p \in 0 .. n - 1 /\ (p = 0 \/ d[p] < d[n])
  BY <1>3
<1>5. ASSUME NEW m \in p + 1 .. n
      PROVE  d[n] <= d[m]
  <2>1. m \in 0 .. N + 1 /\ n \in 0 .. N + 1 /\ m \in 1 .. n /\ ~ (m <= p)
    BY <1>4
  <2>2. d[m] \in Nat /\ d[n] \in Nat
    BY <2>1 DEF Rising
  <2>3. CASE m = n
    BY <2>2, <2>3
  <2>4. CASE m # n
    <3>1. m \in 1 .. n - 1
      BY <2>1, <2>4
    <3>2. m \notin T
      BY <1>3, <2>1
    <3> QED BY <2>2, <3>1, <3>2
  <2> QED BY <2>3, <2>4
<1> QED BY <1>4, <1>5 DEF Heads

(* A line is one level deeper than the one it is under.                    *)
LEMMA UnderLevel ==
  ASSUME NEW N \in Nat, NEW d, Rising(d, N), NEW n \in 1 .. N, NEW p, Heads(d, p, n)
  PROVE  /\ p \in 0 .. n - 1 /\ (p = 0 \/ d[n] = d[p] + 1)
         /\ d[n] <= d[p] + 1 /\ d[p] <= d[n]
         /\ \A m \in p .. n : d[p] <= d[m]
<1>1. p \in 0 .. N /\ p \in 0 .. n - 1 /\ p + 1 \in p + 1 .. n /\ p + 1 \in 1 .. N + 1
      /\ p \in 0 .. N + 1 /\ n \in 0 .. N + 1 /\ p + 1 \in 0 .. N + 1
  BY DEF Heads
<1>2. PICK x \in Nat, y \in Nat, z \in Nat :
           x = d[p] /\ y = d[n] /\ z = d[p + 1] /\ x > 0 /\ y > 0
  <2>1. \A m \in 0 .. N + 1 : d[m] \in Nat \ {0}
    BY DEF Rising
  <2>2. \A m \in Nat \ {0} : m \in Nat /\ m > 0
    OBVIOUS
  <2> QED BY <1>1, <2>1, <2>2
<1>3. y <= z
  BY <1>1, <1>2 DEF Heads
<1>4. z <= x + 1
  <2>1. PICK k \in 1 .. N + 1 : k = p + 1 /\ k - 1 = p
    BY <1>1
  <2>2. d[k] <= d[k - 1] + 1
    BY DEF Rising
  <2> QED BY <1>2, <2>1, <2>2
<1>5. y <= x + 1
  BY <1>3, <1>4
<1>6. p = 0 \/ x < y
  BY <1>2 DEF Heads
<1>7. p = 0 => x = 1
  BY <1>2 DEF Rising
<1>8. x <= y
  BY <1>2, <1>6, <1>7
<1>9. ASSUME NEW m \in p .. n
      PROVE  x <= d[m]
  <2>1. CASE m = p
    BY <1>2, <2>1
  <2>2. CASE m # p
    <3>1. m \in p + 1 .. n /\ m \in 0 .. N + 1
      BY <1>1, <2>2
    <3>2. y <= d[m]
      BY <1>2, <3>1 DEF Heads
    <3>3. d[m] \in Nat
      BY <3>1 DEF Rising
    <3> QED BY <1>8, <3>2, <3>3
  <2> QED BY <2>1, <2>2
<1> QED BY <1>1, <1>2, <1>5, <1>6, <1>8, <1>9

-----------------------------------------------------------------------------
(* Without a bad line, the line a line is under is its parent.             *)
LEMMA LineValues ==
  ASSUME NEW file \in Seq(Line), NEW x, NEW st, NEW bad, NEW a, NEW d,
         Laid(file, x, st, bad, a, d)
  PROVE  /\ Stacking(file, st, bad) /\ Rising(d, Len(file))
         /\ \A k \in 0 .. Len(file) : d[k] = Len(st[k])
         /\ \A k \in 0 .. Len(file) + 1 : d[k] \in Nat /\ d[k] > 0
         /\ \A k \in 1 .. Len(file) : file[k].indent \in Nat /\ file[k].kind \in LineKind
<1>1. Layout(file, x.tokens, a, d) /\ Stacking(file, st, bad)
      /\ \A k \in 0 .. Len(file) : d[k] = Len(st[k])
  BY DEF Laid
<1>2. Rising(d, Len(file))
  BY <1>1, LayoutLevels
<1>3. \A k \in 0 .. Len(file) + 1 : d[k] \in Nat \ {0}
  BY <1>2 DEF Rising
<1>4. \A m \in Nat \ {0} : m \in Nat /\ m > 0
  OBVIOUS
<1>5. \A k \in 1 .. Len(file) : file[k] \in Line
  OBVIOUS
<1> QED BY <1>1, <1>2, <1>3, <1>4, <1>5 DEF Line

LEMMA UnderIsParent ==
  ASSUME NEW file \in Seq(Line), NEW x, NEW st, NEW bad, NEW a, NEW d,
         Laid(file, x, st, bad, a, d),
         NEW n \in 1 .. Len(file), ~ bad[n], NEW p, Heads(d, p, n)
  PROVE  Parent(file, n) = p
<1>1. PICK N \in Nat : N = Len(file)
  OBVIOUS
<1>2. /\ Stacking(file, st, bad) /\ Rising(d, N)
      /\ \A k \in 0 .. N : d[k] = Len(st[k])
      /\ \A k \in 0 .. N + 1 : d[k] \in Nat /\ d[k] > 0
      /\ \A k \in 1 .. N : file[k].indent \in Nat
  BY <1>1, LineValues
<1>3. \A k \in 1 .. n : LineOnTop(file, st, d, k)
  <2>1. ASSUME NEW k \in 1 .. n
        PROVE  LineOnTop(file, st, d, k)
    <3>1. k \in 0 .. n /\ n \in 0 .. Len(file) /\ k \in 1 .. Len(file) /\ k \in 0 .. N
      BY <1>1
    <3>2. ~ bad[k]
      BY <1>2, <3>1, BadStays
    <3> QED BY <1>2, <3>1, <3>2, GoodLine
  <2> QED BY <2>1
<1>4. p \in 0 .. n - 1 /\ (p = 0 \/ d[n] = d[p] + 1) /\ \A m \in p .. n : d[p] <= d[m]
  BY <1>1, <1>2, UnderLevel
<1>5. p # 0 => file[p].indent < file[n].indent
  <2>1. ASSUME p # 0
        PROVE  file[p].indent < file[n].indent
    <3>1. p \in 1 .. n /\ n \in 1 .. n /\ p \in 0 .. N /\ n \in 0 .. N /\ n \in p .. N
      BY <1>1, <1>4, <2>1
    <3>2. PICK e \in Nat : e = d[p] /\ e > 0 /\ d[n] = e + 1
      BY <1>2, <1>4, <2>1, <3>1
    <3>3. \A m \in p .. n : e <= Len(st[m])
      <4>1. \A m \in p .. n : m \in 0 .. N
        BY <3>1
      <4> QED BY <1>2, <1>4, <3>2, <4>1
    <3>4. \A l \in 1 .. e : st[n][l] = st[p][l]
      <4>1. p \in 0 .. Len(file) /\ n \in p .. Len(file)
        BY <1>1, <3>1
      <4>2. StayAbove(st, p, n, e)
        BY <3>3 DEF StayAbove
      <4>3. SharedUpTo(st, p, n, e)
        BY <1>2, <4>1, <4>2, StackShared
      <4> QED BY <4>3 DEF SharedUpTo
    <3>5. st[p][e] = file[p].indent
      BY <1>3, <3>1, <3>2 DEF LineOnTop
    <3>6. st[n][e] < file[n].indent
      <4>1. e \in 1 .. d[n] - 1
        BY <3>2
      <4> QED BY <1>3, <3>1, <4>1 DEF LineOnTop
    <3>7. e \in 1 .. e
      BY <3>2
    <3> QED BY <3>4, <3>5, <3>6, <3>7
  <2> QED BY <2>1
<1>6. ASSUME NEW m \in p + 1 .. n - 1
      PROVE  file[n].indent <= file[m].indent
  <2>1. /\ m \in 1 .. n /\ n \in 1 .. n /\ m \in 0 .. N /\ n \in m .. N
        /\ m \in 0 .. N + 1 /\ n \in 0 .. N + 1
    BY <1>1, <1>4
  <2>2. PICK e \in Nat, f \in Nat : e = d[n] /\ e > 0 /\ f = d[m] /\ f > 0
    BY <1>2, <2>1
  <2>3. \A i \in m .. n : e <= Len(st[i])
    <3>1. \A i \in m .. n : i \in p + 1 .. n /\ i \in 0 .. N
      BY <1>4, <2>1
    <3> QED BY <1>2, <2>2, <3>1 DEF Heads
  <2>4. \A l \in 1 .. e : st[n][l] = st[m][l]
    <3>1. m \in 0 .. Len(file) /\ n \in m .. Len(file)
      BY <1>1, <2>1
    <3>2. Stacking(file, st, bad)
      BY <1>2
    <3>3. StayAbove(st, m, n, e)
      BY <2>3 DEF StayAbove
    <3>4. SharedUpTo(st, m, n, e)
      BY <3>1, <3>2, <3>3, StackShared
    <3> QED BY <3>4 DEF SharedUpTo
  <2>5. st[n][e] = file[n].indent
    BY <1>3, <2>1, <2>2 DEF LineOnTop
  <2>6. e <= f
    <3>1. m \in p + 1 .. n
      BY <1>4
    <3> QED BY <2>2, <3>1 DEF Heads
  <2>7. e = f \/ e \in 1 .. f - 1
    BY <2>2, <2>6
  <2>8. LineOnTop(file, st, d, m) /\ file[m].indent \in Nat
    BY <1>3, <2>1 DEF LineOnTop
  <2>9. st[m][e] <= file[m].indent
    <3>1. st[m][f] = file[m].indent /\ \A l \in 1 .. f - 1 : st[m][l] < file[m].indent
      BY <2>2, <2>8 DEF LineOnTop
    <3>2. CASE e = f
      BY <2>8, <3>1, <3>2
    <3>3. CASE e \in 1 .. f - 1
      <4>1. st[m] \in Seq(Nat) /\ e \in 1 .. Len(st[m])
        BY <2>2, <2>8, <3>3 DEF LineOnTop
      <4>2. st[m][e] \in Nat
        BY <4>1
      <4> QED BY <2>8, <3>1, <3>3, <4>2
    <3> QED BY <2>7, <3>2, <3>3
  <2>10. e \in 1 .. e
    BY <2>2
  <2> QED BY <2>4, <2>5, <2>9, <2>10
<1>7. PICK T : T = {0} \union {i \in 1 .. n - 1 : file[i].indent < file[n].indent}
  OBVIOUS
<1>8. T \in SUBSET Nat /\ p \in T
  BY <1>4, <1>5, <1>7
<1>9. ASSUME NEW j \in T
      PROVE  j <= p
  <2>1. j = 0 \/ (j \in 1 .. n - 1 /\ file[j].indent < file[n].indent)
    BY <1>7
  <2>2. ASSUME j \in p + 1 .. n - 1
        PROVE  FALSE
    <3>1. j \in 1 .. N /\ n \in 1 .. N /\ j # 0
      BY <1>1, <1>4, <2>2
    <3>2. file[j].indent \in Nat /\ file[n].indent \in Nat
      BY <1>2, <3>1
    <3> QED BY <1>6, <2>1, <2>2, <3>1, <3>2
  <2> QED BY <1>4, <2>1, <2>2
<1>10. Latest(T) = p
  BY <1>8, <1>9, LatestIs
<1> QED BY <1>7, <1>10 DEF Parent

(* A line of a block: it is under the line the block is of.                *)
BlocksAsLaid(file, d) ==
  /\ \A n \in 1 .. Len(file) : \A p : Parent(file, n) = p <=> Heads(d, p, n)
  /\ \A n \in 1 .. Len(file) : \A i, j \in Block(file, n) : file[i].indent = file[j].indent
  /\ d[1] = 1 => \A i \in Block(file, 0) : file[i].indent = 0
  /\ d[1] # 1 => ~ WellFormed(file)

LEMMA GoodBlocks ==
  ASSUME NEW file \in Seq(Line), NEW x, NEW st, NEW bad, NEW a, NEW d,
         Laid(file, x, st, bad, a, d), ~ x.bad
  PROVE  BlocksAsLaid(file, d)
<1>1. PICK N \in Nat : N = Len(file)
  OBVIOUS
<1>2. /\ Stacking(file, st, bad) /\ Rising(d, N)
      /\ \A k \in 0 .. N : d[k] = Len(st[k])
      /\ \A k \in 0 .. N + 1 : d[k] \in Nat /\ d[k] > 0
      /\ \A k \in 1 .. N : file[k].indent \in Nat
  BY <1>1, LineValues
<1>3. \A k \in 1 .. N : ~ bad[k] /\ LineOnTop(file, st, d, k)
  <2>1. ASSUME NEW k \in 1 .. N
        PROVE  ~ bad[k] /\ LineOnTop(file, st, d, k)
    <3>1. k \in 0 .. N /\ N \in 0 .. Len(file) /\ k \in 1 .. Len(file)
      BY <1>1
    <3>2. ~ bad[N]
      BY <1>1 DEF Laid
    <3>3. ~ bad[k]
      BY <1>2, <3>1, <3>2, BadStays
    <3> QED BY <1>2, <3>1, <3>3, GoodLine
  <2> QED BY <2>1
<1>4. ASSUME NEW n \in 1 .. N, NEW p
      PROVE  Parent(file, n) = p <=> Heads(d, p, n)
  <2>1. \A q : Heads(d, q, n) => Parent(file, n) = q
    BY <1>1, <1>3, UnderIsParent
  <2>2. \E q : Heads(d, q, n)
    BY <1>1, <1>2, UnderExists
  <2> QED BY <2>1, <2>2
<1>5. ASSUME NEW n \in 0 .. N, NEW i \in 1 .. N, Heads(d, n, i), d[i] = d[n] + 1
      PROVE  file[i].indent = st[n + 1][d[n] + 1]
  <2>1. /\ n \in 0 .. i - 1 /\ n + 1 \in 0 .. Len(file) /\ i \in n + 1 .. Len(file)
        /\ i \in 0 .. N + 1 /\ n \in 0 .. N + 1
    BY <1>1, <1>5 DEF Heads
  <2>2. PICK e \in Nat : e = d[i] /\ e = d[n] + 1 /\ e > 0
    BY <1>2, <1>5, <2>1
  <2>3. \A m \in n + 1 .. i : e <= Len(st[m])
    <3>1. \A m \in n + 1 .. i : m \in 0 .. N
      BY <1>1, <2>1
    <3> QED BY <1>2, <1>5, <2>2, <3>1 DEF Heads
  <2>4. \A l \in 1 .. e : st[i][l] = st[n + 1][l]
    <3>1. Stacking(file, st, bad)
      BY <1>2
    <3>2. StayAbove(st, n + 1, i, e)
      BY <2>3 DEF StayAbove
    <3>3. SharedUpTo(st, n + 1, i, e)
      BY <2>1, <3>1, <3>2, StackShared
    <3> QED BY <3>3 DEF SharedUpTo
  <2>5. st[i][e] = file[i].indent
    BY <1>3, <2>2 DEF LineOnTop
  <2>6. e \in 1 .. e
    BY <2>2
  <2> QED BY <2>2, <2>4, <2>5, <2>6
<1>6. ASSUME NEW n \in 1 .. N, NEW i \in Block(file, n)
      PROVE  file[i].indent = st[n + 1][d[n] + 1]
  <2>1. i \in 1 .. N /\ Parent(file, i) = n
    BY <1>1 DEF Block
  <2>2. Heads(d, n, i)
    BY <1>4, <2>1
  <2>3. d[i] = d[n] + 1
    <3>1. n # 0
      OBVIOUS
    <3> QED BY <1>2, <2>1, <2>2, <3>1, UnderLevel
  <2>4. n \in 0 .. N
    OBVIOUS
  <2> QED BY <1>5, <2>1, <2>2, <2>3, <2>4
<1>7. ASSUME d[1] = 1, NEW i \in Block(file, 0)
      PROVE  file[i].indent = 0
  <2>1. i \in 1 .. N /\ Parent(file, i) = 0
    BY <1>1 DEF Block
  <2>2. Heads(d, 0, i)
    BY <1>4, <2>1
  <2>3. 0 + 1 \in 0 + 1 .. i /\ 0 + 1 = 1 /\ i \in 0 .. N + 1
    BY <2>1
  <2>4. d[i] <= 1
    BY <1>7, <2>2, <2>3 DEF Heads
  <2>5. d[i] = 1
    BY <1>2, <2>3, <2>4
  <2> QED BY <1>3, <2>1, <2>5 DEF LineOnTop
<1>8. ASSUME d[1] # 1
      PROVE  ~ WellFormed(file)
  <2>1. 1 \in 1 .. N /\ d[0] = 1 /\ 0 \in 0 .. N + 1 /\ 1 \in 0 .. N + 1
    <3>1. N # 0
      BY <1>2, <1>8 DEF Rising
    <3> QED BY <1>2, <3>1 DEF Rising
  <2>2. d[1] \in Nat /\ d[1] > 1
    BY <1>2, <1>8, <2>1
  <2>3. Heads(d, 0, 1)
    <3>1. 0 \in 0 .. 1 - 1 /\ 0 + 1 .. 1 = {1} /\ d[1] <= d[1]
      BY <2>2
    <3> QED BY <3>1 DEF Heads
  <2>4. 1 \in Block(file, 0)
    BY <1>1, <1>4, <2>1, <2>3 DEF Block
  <2>5. file[1].indent # 0
    <3>1. 1 \in 1 .. d[1] - 1
      BY <2>2
    <3> QED BY <1>3, <2>1, <3>1 DEF LineOnTop
  <2> QED BY <2>4, <2>5 DEF WellFormed
<1> QED BY <1>1, <1>4, <1>6, <1>7, <1>8 DEF BlocksAsLaid

-----------------------------------------------------------------------------
(* A bad line and the first line of the block it lands in have one parent  *)
(* and two indentations.                                                   *)
LEMMA FirstBad ==
  ASSUME NEW N \in Nat, NEW bad, ~ bad[0], bad[N]
  PROVE  \E b \in 1 .. N : bad[b] /\ ~ bad[b - 1]
<1> DEFINE S == {m \in Nat : bad[m] => \E b \in 1 .. m : bad[b] /\ ~ bad[b - 1]}
<1>1. 0 \in S
  OBVIOUS
<1>2. ASSUME NEW m \in Nat, m \in S
      PROVE  m + 1 \in S
  <2>1. ASSUME bad[m + 1]
        PROVE  \E b \in 1 .. m + 1 : bad[b] /\ ~ bad[b - 1]
    <3>1. CASE bad[m]
      <4>1. PICK b \in 1 .. m : bad[b] /\ ~ bad[b - 1]
        BY <1>2, <3>1
      <4>2. b \in 1 .. m + 1
        OBVIOUS
      <4> QED BY <4>1, <4>2
    <3>2. CASE ~ bad[m]
      <4>1. m + 1 \in 1 .. m + 1 /\ (m + 1) - 1 = m
        OBVIOUS
      <4> QED BY <2>1, <3>2, <4>1
    <3> QED BY <3>1, <3>2
  <2> QED BY <2>1
<1>3. \A m \in Nat : m \in S => m + 1 \in S
  BY <1>2
<1> HIDE DEF S
<1>4. N \in S
  BY <1>1, <1>3, Successors
<1> QED BY <1>4 DEF S

(* The last line before b at one of the lowest e levels.                   *)
Floor(d, p, b, e) ==
  /\ p \in 0 .. b - 1 /\ d[p] = e /\ d[p + 1] = e + 1
  /\ p + 1 \in 1 .. b - 1
  /\ \A m \in p + 1 .. b - 1 : e + 1 <= d[m]

LEMMA FloorExists ==
  ASSUME NEW N \in Nat, NEW d, Rising(d, N), NEW b \in 1 .. N,
         NEW e \in Nat \ {0}, e < d[b - 1]
  PROVE  \E p : Floor(d, p, b, e)
<1> DEFINE T == {0} \union {i \in 1 .. b - 1 : d[i] <= e}
<1>0. \A m \in 0 .. N + 1 : d[m] \in Nat /\ d[m] > 0
  <2>1. \A m \in 0 .. N + 1 : d[m] \in Nat \ {0}
    BY DEF Rising
  <2>2. \A m \in Nat \ {0} : m \in Nat /\ m > 0
    OBVIOUS
  <2> QED BY <2>1, <2>2
<1>1. T \in SUBSET (0 .. b - 1) /\ b - 1 \in Nat /\ T # {} /\ d[0] = 1
  <2>1. b - 1 \in Nat
    OBVIOUS
  <2>2. \A i \in 1 .. b - 1 : i \in 0 .. b - 1
    OBVIOUS
  <2>3. 0 \in 0 .. b - 1
    BY <2>1
  <2>4. d[0] = 1
    BY DEF Rising
  <2> QED BY <2>1, <2>2, <2>3, <2>4, Zenon
<1>2. PICK p : p = Latest(T)
  OBVIOUS
<1>3. p \in T /\ \A j \in T : j <= p
  BY <1>1, <1>2, LatestIn
<1>4. p \in 0 .. b - 1 /\ p \in 0 .. N + 1 /\ p + 1 \in 1 .. N + 1 /\ d[p] <= e
  BY <1>1, <1>3
<1>5. p # b - 1
  BY <1>0, <1>4
<1>6. p + 1 \in 1 .. b - 1 /\ p + 1 \in 0 .. N + 1
  BY <1>4, <1>5
<1>7. ASSUME NEW m \in p + 1 .. b - 1
      PROVE  e + 1 <= d[m]
  <2>1. m \in 1 .. b - 1 /\ m \in 0 .. N + 1 /\ ~ (m <= p)
    BY <1>4
  <2>2. m \notin T
    BY <1>3, <2>1
  <2>3. ~ (d[m] <= e) /\ d[m] \in Nat
    BY <1>0, <2>1, <2>2
  <2> QED BY <2>3
<1>8. d[p] = e /\ d[p + 1] = e + 1
  <2>1. PICK x \in Nat, y \in Nat : x = d[p] /\ y = d[p + 1]
    BY <1>0, <1>4, <1>6
  <2>2. y <= x + 1
    <3>1. PICK k \in 1 .. N + 1 : k = p + 1 /\ k - 1 = p
      BY <1>4
    <3>2. d[k] <= d[k - 1] + 1
      BY DEF Rising
    <3> QED BY <2>1, <3>1, <3>2
  <2>3. e + 1 <= y
    <3>1. p + 1 \in p + 1 .. b - 1
      BY <1>6
    <3> QED BY <1>7, <2>1, <3>1
  <2> QED BY <1>4, <2>1, <2>2, <2>3
<1> QED BY <1>4, <1>6, <1>7, <1>8 DEF Floor

LEMMA BadBlocks ==
  ASSUME NEW file \in Seq(Line), NEW x, NEW st, NEW bad, NEW a, NEW d,
         Laid(file, x, st, bad, a, d), x.bad
  PROVE  ~ WellFormed(file)
<1>1. PICK N \in Nat : N = Len(file)
  OBVIOUS
<1>2. /\ Stacking(file, st, bad) /\ Rising(d, N)
      /\ \A k \in 0 .. N : d[k] = Len(st[k])
      /\ \A k \in 0 .. N + 1 : d[k] \in Nat /\ d[k] > 0
      /\ \A k \in 1 .. N : file[k].indent \in Nat
  BY <1>1, LineValues
<1>3. PICK b \in 1 .. N : bad[b] /\ ~ bad[b - 1]
  <2>1. bad[N] /\ ~ bad[0]
    BY <1>1, <1>2 DEF Laid, Stacking
  <2> QED BY <2>1, FirstBad
<1>4. /\ b \in 0 .. N /\ b - 1 \in 0 .. N /\ b \in 0 .. N + 1 /\ b - 1 \in 0 .. N + 1
  OBVIOUS
<1>5. \A k \in 1 .. b - 1 : ~ bad[k] /\ LineOnTop(file, st, d, k)
  <2>1. ASSUME NEW k \in 1 .. b - 1
        PROVE  ~ bad[k] /\ LineOnTop(file, st, d, k)
    <3>1. k \in 0 .. b - 1 /\ b - 1 \in 0 .. Len(file) /\ k \in 1 .. Len(file) /\ k \in 0 .. N
      BY <1>1
    <3>2. ~ bad[k]
      BY <1>2, <1>3, <3>1, BadStays
    <3> QED BY <1>2, <3>1, <3>2, GoodLine
  <2> QED BY <2>1
<1>6. PICK v, w, u : v = st[b - 1] /\ w = st[b] /\ u = file[b].indent /\ u \in Nat
  BY <1>2
<1>7. Popped(v, w, u) /\ u # w[Len(w)] /\ IsStack(w)
  BY <1>1, <1>2, <1>3, <1>6 DEF Stacking
<1>8. IsStack(v)
  <2>1. b - 1 = 0 \/ b - 1 \in 1 .. Len(file)
    BY <1>1
  <2>2. IsStack(<<0>>)
    BY DEF IsStack
  <2> QED BY <1>2, <1>6, <2>1, <2>2 DEF Stacking
<1>9. PICK e \in Nat \ {0}, f \in Nat : e = Len(w) /\ f = Len(v) /\ e = d[b] /\ f = d[b - 1]
  <2>1. d[b] = Len(w) /\ d[b - 1] = Len(v)
    BY <1>2, <1>4, <1>6, Zenon
  <2>2. d[b] \in Nat /\ d[b] > 0 /\ d[b - 1] \in Nat
    BY <1>2, <1>4, Zenon
  <2>3. \A n \in Nat : n > 0 => n \in Nat \ {0}
    OBVIOUS
  <2> QED BY <2>1, <2>2, <2>3, Zenon
<1>10. /\ v \in Seq(Nat) /\ w \in Seq(Nat) /\ e <= f /\ w[e] = v[e] /\ v[e] < u /\ u <= v[f]
       /\ \A i \in 1 .. f : v[i] \in Nat
  <2>1. v \in Seq(Nat) /\ w \in Seq(Nat)
    BY <1>7, <1>8 DEF IsStack
  <2>2. e \in 1 .. f /\ w[e] = v[e] /\ v[e] <= u /\ u <= v[f]
    BY <1>7, <1>9 DEF Popped, Top
  <2>3. \A i \in 1 .. f : v[i] \in Nat
    <3>1. \A i \in 1 .. Len(v) : v[i] \in Nat
      BY <2>1
    <3> QED BY <1>9, <3>1
  <2>4. e <= f /\ e \in 1 .. f
    BY <2>2
  <2>5. v[e] \in Nat /\ v[e] # u
    BY <1>7, <1>9, <2>2, <2>3
  <2>6. v[e] < u
    BY <1>6, <2>2, <2>5
  <2> QED BY <2>1, <2>2, <2>3, <2>4, <2>6
<1>11. e < f /\ u < v[e + 1]
  <2>1. e # f
    <3>1. f \in 1 .. f
      BY <1>10
    <3>2. v[f] \in Nat
      BY <1>10, <3>1
    <3> QED BY <1>6, <1>10, <3>2
  <2>2. e < f
    BY <1>10, <2>1
  <2> QED BY <1>7, <1>9, <2>2 DEF Popped
<1>12. PICK p : Floor(d, p, b, e)
  BY <1>2, <1>9, <1>11, FloorExists
<1>13. PICK c \in 1 .. b - 1 : c = p + 1 /\ c - 1 = p
  BY <1>12 DEF Floor
<1>14. /\ p \in 0 .. N /\ d[p] = e /\ d[c] = e + 1 /\ \A m \in c .. b - 1 : e + 1 <= d[m]
       /\ c \in 0 .. N /\ c \in 1 .. N
  BY <1>12, <1>13 DEF Floor
(* The lines from c on, up to b, are indented more than b.                 *)
<1>15. \A m \in c .. b - 1 : file[m].indent > u
  <2>1. ASSUME NEW m \in c .. b - 1
        PROVE  file[m].indent > u
    <3>1. m \in 0 .. Len(file) /\ b - 1 \in m .. Len(file) /\ m \in 1 .. b - 1 /\ m \in 0 .. N
      BY <1>1, <1>13
    <3>2. StayAbove(st, m, b - 1, e + 1)
      <4>1. \A i \in m .. b - 1 : i \in c .. b - 1 /\ i \in 0 .. N
        BY <1>13, <3>1
      <4> QED BY <1>2, <1>14, <4>1 DEF StayAbove
    <3>3. SharedUpTo(st, m, b - 1, e + 1)
      <4>1. e + 1 \in Nat
        OBVIOUS
      <4> QED BY <1>2, <3>1, <3>2, <4>1, StackShared
    <3>4. v[e + 1] = st[m][e + 1]
      <4>1. e + 1 \in 1 .. e + 1
        OBVIOUS
      <4> QED BY <1>6, <3>3, <4>1 DEF SharedUpTo
    <3>5. PICK g \in Nat : g = d[m] /\ e + 1 <= g
      <4>1. m \in 0 .. N + 1
        BY <3>1
      <4>2. d[m] \in Nat
        BY <1>2, <4>1, Zenon
      <4>3. e + 1 <= d[m]
        BY <1>14, Zenon
      <4> QED BY <4>2, <4>3, Zenon
    <3>6. LineOnTop(file, st, d, m) /\ file[m].indent \in Nat
      BY <1>5, <3>1 DEF LineOnTop
    <3>7. CASE e + 1 = g
      <4>1. st[m][e + 1] = file[m].indent
        BY <3>5, <3>6, <3>7 DEF LineOnTop
      <4> QED BY <1>11, <3>4, <4>1
    <3>8. CASE e + 1 # g
      <4>1. e + 1 \in 1 .. g - 1
        BY <3>5, <3>8
      <4>2. st[m][e + 1] < file[m].indent
        BY <3>5, <3>6, <4>1 DEF LineOnTop
      <4>3. v[e + 1] \in Nat
        <5>1. e + 1 \in 1 .. f
          BY <1>11
        <5> QED BY <1>10, <5>1
      <4>4. PICK y \in Nat, z \in Nat : y = v[e + 1] /\ z = file[m].indent
        BY <3>6, <4>3
      <4>5. u < y /\ y < z
        BY <1>11, <3>4, <4>2, <4>4
      <4>6. u \in Nat
        BY <1>6
      <4>7. z > u
        BY <4>5, <4>6
      <4> QED BY <4>4, <4>7
    <3> QED BY <3>7, <3>8
  <2> QED BY <2>1
<1>16. p # 0 => file[p].indent < u
  <2>1. ASSUME p # 0
        PROVE  file[p].indent < u
    <3>1. p \in 0 .. Len(file) /\ b - 1 \in p .. Len(file) /\ p \in 1 .. b - 1 /\ p \in 0 .. N
      BY <1>1, <1>13, <1>14, <2>1
    <3>2. StayAbove(st, p, b - 1, e)
      <4>1. \A i \in p .. b - 1 : i = p \/ i \in c .. b - 1
        BY <1>13, <3>1
      <4>2. \A i \in c .. b - 1 : i \in 0 .. N /\ i \in 0 .. N + 1
        BY <1>13
      <4>3. \A i \in c .. b - 1 : e <= d[i] /\ d[i] = Len(st[i])
        BY <1>2, <1>14, <4>2
      <4>4. e <= Len(st[p])
        BY <1>2, <1>14, <3>1
      <4> QED BY <4>1, <4>3, <4>4 DEF StayAbove
    <3>3. SharedUpTo(st, p, b - 1, e)
      <4>1. e \in Nat
        OBVIOUS
      <4> QED BY <1>2, <3>1, <3>2, <4>1, StackShared
    <3>4. v[e] = st[p][e]
      <4>1. e \in 1 .. e
        OBVIOUS
      <4> QED BY <1>6, <3>3, <4>1 DEF SharedUpTo
    <3>5. st[p][e] = file[p].indent
      BY <1>5, <1>14, <3>1 DEF LineOnTop
    <3> QED BY <1>10, <3>4, <3>5
  <2> QED BY <2>1
<1>17. Parent(file, b) = p
  <2>1. PICK T : T = {0} \union {i \in 1 .. b - 1 : file[i].indent < file[b].indent}
    OBVIOUS
  <2>2. T \in SUBSET Nat /\ p \in T
    BY <1>6, <1>13, <1>14, <1>16, <2>1
  <2>3. ASSUME NEW j \in T
        PROVE  j <= p
    <3>1. j = 0 \/ (j \in 1 .. b - 1 /\ file[j].indent < u)
      BY <1>6, <2>1
    <3>2. ASSUME j \in c .. b - 1
          PROVE  FALSE
      <4>1. j \in 1 .. N /\ j # 0
        BY <1>13, <3>2
      <4>2. file[j].indent \in Nat
        BY <1>2, <4>1
      <4>3. file[j].indent > u /\ file[j].indent < u
        BY <1>15, <3>1, <3>2, <4>1
      <4> QED BY <1>6, <4>2, <4>3
    <3> QED BY <1>13, <1>14, <3>1, <3>2
  <2>4. Latest(T) = p
    BY <2>2, <2>3, LatestIs
  <2> QED BY <2>1, <2>4 DEF Parent
<1>18. Parent(file, c) = p
  <2>1. ~ bad[c] /\ c \in 1 .. Len(file)
    BY <1>1, <1>5, <1>13
  <2>2. Heads(d, p, c)
    <3>1. p \in 0 .. c - 1 /\ p + 1 .. c = {c} /\ d[p] < d[c] /\ d[c] <= d[c]
      BY <1>13, <1>14
    <3> QED BY <3>1 DEF Heads
  <2> QED BY <2>1, <2>2, UnderIsParent
<1>19. b \in Block(file, p) /\ c \in Block(file, p)
  BY <1>1, <1>14, <1>17, <1>18 DEF Block
<1>20. file[c].indent > u /\ file[c].indent \in Nat
  <2>1. c \in c .. b - 1
    BY <1>13
  <2> QED BY <1>2, <1>14, <1>15, <2>1
<1>21. CASE p = 0
  <2>1. file[c].indent # 0
    BY <1>6, <1>20
  <2> QED BY <1>19, <1>21, <2>1 DEF WellFormed
<1>22. CASE p # 0
  <2>1. p \in 1 .. Len(file)
    BY <1>1, <1>14, <1>22
  <2>2. file[c].indent # file[b].indent
    BY <1>6, <1>20
  <2> QED BY <1>19, <2>1, <2>2 DEF WellFormed
<1> QED BY <1>21, <1>22

-----------------------------------------------------------------------------
(* The blocks of a file that is laid out.                                  *)
Parsing(file, s, a, d) ==
  /\ file \in Seq(Line) /\ Layout(file, s, a, d) /\ BlocksAsLaid(file, d)

LEMMA ParsingParts ==
  ASSUME NEW file, NEW s, NEW a, NEW d, Parsing(file, s, a, d)
  PROVE  /\ file \in Seq(Line) /\ Len(file) \in Nat /\ Rising(d, Len(file))
         /\ \A k \in 0 .. Len(file) + 1 : d[k] \in Nat /\ d[k] > 0
         /\ \A k \in 0 .. Len(file) + 1 : a[k] \in Nat
         /\ \A k \in 1 .. Len(file) : file[k].kind \in LineKind
<1>1. file \in Seq(Line) /\ Layout(file, s, a, d)
  BY DEF Parsing
<1>2. Rising(d, Len(file)) /\ Len(file) \in Nat
  BY <1>1, LayoutLevels
<1>3. \A k \in 0 .. Len(file) + 1 : d[k] \in Nat \ {0}
  BY <1>2 DEF Rising
<1>4. \A m \in Nat \ {0} : m \in Nat /\ m > 0
  OBVIOUS
<1>5. \A k \in 0 .. Len(file) + 1 : a[k] \in Nat
  BY <1>1 DEF Layout
<1>6. \A k \in 1 .. Len(file) : file[k] \in Line
  BY <1>1
<1> QED BY <1>1, <1>2, <1>3, <1>4, <1>5, <1>6 DEF Line

LEMMA InBlock ==
  ASSUME NEW file, NEW s, NEW a, NEW d, Parsing(file, s, a, d), NEW n \in 0 .. Len(file), NEW i
  PROVE  i \in Block(file, n) <=> i \in 1 .. Len(file) /\ Heads(d, n, i)
BY DEF Parsing, BlocksAsLaid, Block

LEMMA BlockLevels ==
  ASSUME NEW file, NEW s, NEW a, NEW d, Parsing(file, s, a, d), NEW n \in 1 .. Len(file),
         NEW i \in Block(file, n)
  PROVE  /\ i \in n + 1 .. Len(file) /\ d[i] = d[n] + 1
         /\ \A m \in n + 1 .. i : d[n] < d[m]
<1>1. PICK N \in Nat : N = Len(file)
  BY ParsingParts
<1>2. n \in 0 .. N /\ n # 0 /\ i \in 1 .. N /\ Heads(d, n, i)
  <2>1. n \in 0 .. Len(file)
    OBVIOUS
  <2> QED BY <1>1, <2>1, InBlock
<1>3. Rising(d, N) /\ \A k \in 0 .. N + 1 : d[k] \in Nat
  BY <1>1, ParsingParts
<1>4. n \in 0 .. i - 1 /\ d[i] = d[n] + 1
  BY <1>1, <1>2, <1>3, UnderLevel
<1>5. ASSUME NEW m \in n + 1 .. i
      PROVE  d[n] < d[m]
  <2>1. m \in 0 .. N + 1 /\ n \in 0 .. N + 1 /\ i \in 0 .. N + 1
    BY <1>2, <1>4
  <2>2. d[i] <= d[m]
    BY <1>2 DEF Heads
  <2> QED BY <1>3, <1>4, <2>1, <2>2
<1> QED BY <1>1, <1>2, <1>4, <1>5

(* A line that is followed by no deeper one has no block, and a block ends *)
(* where the levels are down again.                                        *)
LEMMA BlockEnds ==
  ASSUME NEW file, NEW s, NEW a, NEW d, Parsing(file, s, a, d), NEW n \in 1 .. Len(file),
         NEW m \in n .. Len(file), d[m + 1] <= d[n]
  PROVE  \A i \in Block(file, n) : i \in n + 1 .. m
<1>1. PICK N \in Nat : N = Len(file)
  BY ParsingParts
<1>2. ASSUME NEW i \in Block(file, n), ~ (i <= m)
      PROVE  FALSE
  <2>1. i \in n + 1 .. N /\ \A j \in n + 1 .. i : d[n] < d[j]
    BY <1>1, BlockLevels
  <2>2. m + 1 \in n + 1 .. i /\ m + 1 \in 0 .. N + 1 /\ n \in 0 .. N + 1
    BY <1>1, <1>2, <2>1
  <2>3. d[n] \in Nat /\ d[m + 1] \in Nat
    BY <1>1, <2>2, ParsingParts
  <2>4. d[n] < d[m + 1]
    BY <2>1, <2>2
  <2> QED BY <2>3, <2>4
<1>3. \A i \in Block(file, n) : i \in n + 1 .. N
  BY <1>1, BlockLevels
<1>4. n \in Nat /\ m \in Nat
  BY <1>1
<1>5. ASSUME NEW i \in Block(file, n)
      PROVE  i \in n + 1 .. m
  BY <1>1, <1>2, <1>3, <1>4
<1> QED BY <1>5

LEMMA NoBlock ==
  ASSUME NEW file, NEW s, NEW a, NEW d, Parsing(file, s, a, d), NEW n \in 1 .. Len(file),
         d[n + 1] <= d[n]
  PROVE  Block(file, n) = {}
<1>1. n \in n .. Len(file) /\ n + 1 .. n = {}
  OBVIOUS
<1>2. \A i \in Block(file, n) : i \in n + 1 .. n
  BY <1>1, BlockEnds
<1> QED BY <1>1, <1>2

LEMMA JoinsBlock ==
  ASSUME NEW file, NEW s, NEW a, NEW d, Parsing(file, s, a, d), NEW n \in 1 .. Len(file),
         NEW i \in n + 1 .. Len(file), d[i] = d[n] + 1, \A m \in n + 1 .. i - 1 : d[n] < d[m]
  PROVE  i \in Block(file, n)
<1>1. PICK N \in Nat : N = Len(file)
  BY ParsingParts
<1>2. i \in 1 .. N /\ n \in 0 .. i - 1 /\ n \in 0 .. N + 1 /\ i \in 0 .. N + 1
  BY <1>1
<1>3. \A k \in 0 .. N + 1 : d[k] \in Nat
  BY <1>1, ParsingParts
<1>4. d[n] < d[i]
  BY <1>2, <1>3
<1>5. ASSUME NEW m \in n + 1 .. i
      PROVE  d[i] <= d[m]
  <2>1. m \in 0 .. N + 1 /\ (m = i \/ m \in n + 1 .. i - 1)
    BY <1>2
  <2>2. d[n] < d[m]
    BY <1>4, <2>1
  <2> QED BY <1>2, <1>3, <2>1, <2>2
<1>6. Heads(d, n, i)
  BY <1>2, <1>4, <1>5 DEF Heads
<1>7. n \in 0 .. Len(file)
  OBVIOUS
<1> QED BY <1>1, <1>2, <1>6, <1>7, InBlock

(* The block of the file itself.                                           *)
LEMMA TopBlock ==
  ASSUME NEW file, NEW s, NEW a, NEW d, Parsing(file, s, a, d), NEW i \in 1 .. Len(file)
  PROVE  /\ d[i] = 1 => i \in Block(file, 0)
         /\ d[1] = 1 /\ i \in Block(file, 0) => d[i] = 1
<1>1. PICK N \in Nat : N = Len(file)
  BY ParsingParts
<1>2. \A k \in 0 .. N + 1 : d[k] \in Nat /\ d[k] > 0
  BY <1>1, ParsingParts
<1>3. 0 \in 0 .. Len(file) /\ i \in 0 .. N + 1 /\ 0 \in 0 .. i - 1 /\ 0 + 1 = 1 /\ 1 \in 0 + 1 .. i
  BY <1>1
<1>4. ASSUME d[i] = 1
      PROVE  i \in Block(file, 0)
  <2>1. \A m \in 0 + 1 .. i : m \in 0 .. N + 1
    BY <1>3
  <2>2. \A m \in 0 + 1 .. i : d[i] <= d[m]
    BY <1>2, <1>4, <2>1
  <2>3. Heads(d, 0, i)
    BY <1>3, <2>2 DEF Heads
  <2> QED BY <1>1, <1>3, <2>3, InBlock
<1>5. ASSUME d[1] = 1, i \in Block(file, 0)
      PROVE  d[i] = 1
  <2>1. Heads(d, 0, i)
    BY <1>3, <1>5, InBlock
  <2>2. d[i] <= d[1]
    BY <1>3, <2>1 DEF Heads
  <2> QED BY <1>2, <1>3, <1>5, <2>2
<1> QED BY <1>4, <1>5

-----------------------------------------------------------------------------
(* Where the tokens between two lines are: after line n, down to level e.  *)
Spot(a, d, n, e) == a[n] + 1 + (d[n] - e)

LEMMA Climbing ==
  ASSUME NEW file, NEW s, NEW a, NEW d, Parsing(file, s, a, d), NEW M \in 0 .. Len(file) + 1,
         NEW k \in 0 .. M
  PROVE  a[k] <= a[M]
<1>1. PICK N \in Nat : N = Len(file)
  BY ParsingParts
<1>2. M \in Nat /\ M <= N + 1
  BY <1>1
<1>3. \A j \in 0 .. M : a[j] \in Nat /\ d[j] \in Nat
  <2>1. \A j \in 0 .. N + 1 : a[j] \in Nat /\ d[j] \in Nat
    BY <1>1, ParsingParts
  <2> QED BY <1>2, <2>1
<1>4. ASSUME NEW j \in 1 .. M
      PROVE  a[j - 1] <= a[j]
  <2>1. Placed(KindOf(file, j), s, a, d, j)
    <3>1. j \in 1 .. Len(file) + 1
      BY <1>1, <1>2
    <3> QED BY <3>1 DEF Parsing, Layout
  <2>2. PICK p \in Nat, q \in Nat, from \in Nat, to \in Nat :
             p = a[j - 1] /\ q = a[j] /\ from = d[j - 1] /\ to = d[j]
    <3>1. j \in 0 .. M /\ j - 1 \in 0 .. M
      BY <1>2
    <3> QED BY <1>3, <3>1
  <2>3. q = p + 2 \/ (to <= from /\ q = p + 1 + (from - to))
    BY <2>1, <2>2 DEF Placed
  <2>4. p <= q
    BY <2>3
  <2> QED BY <2>2, <2>4
<1> DEFINE S == {m \in Nat : m <= M => a[M - m] <= a[M]}
<1>6. 0 \in S
  <2>1. M - 0 = M /\ M \in 0 .. M
    BY <1>2
  <2>2. a[M] \in Nat
    BY <1>3, <2>1
  <2> QED BY <2>1, <2>2
<1>7. ASSUME NEW m \in Nat, m \in S
      PROVE  m + 1 \in S
  <2>1. ASSUME m + 1 <= M
        PROVE  a[M - (m + 1)] <= a[M]
    <3>1. PICK j \in 1 .. M : j = M - m /\ j - 1 = M - (m + 1)
      BY <1>2, <2>1
    <3>2. j \in 0 .. M /\ j - 1 \in 0 .. M /\ M \in 0 .. M
      BY <1>2
    <3>3. PICK p \in Nat, q \in Nat, t \in Nat : p = a[j - 1] /\ q = a[j] /\ t = a[M]
      BY <1>3, <3>2
    <3>4. p <= q
      BY <1>4, <3>3
    <3>5. q <= t
      BY <1>2, <1>7, <2>1, <3>1, <3>3
    <3>6. p <= t
      BY <3>4, <3>5
    <3> QED BY <3>1, <3>3, <3>6
  <2> QED BY <2>1
<1>8. \A m \in Nat : m \in S => m + 1 \in S
  BY <1>7
<1> HIDE DEF S
<1>9. M - k \in S /\ M - (M - k) = k
  <2>1. M - k \in Nat /\ M - (M - k) = k
    BY <1>2
  <2> QED BY <1>6, <1>8, <2>1, Successors
<1> QED
  <2>1. M - k <= M
    BY <1>2
  <2> QED BY <1>9, <2>1 DEF S

LEMMA Ascending ==
  ASSUME NEW file, NEW s, NEW a, NEW d, Parsing(file, s, a, d), NEW k \in 0 .. Len(file) + 1
  PROVE  a[k] <= Len(s) /\ Len(s) \in Nat
<1>1. PICK M \in Nat : M = Len(file) + 1 /\ M \in 0 .. Len(file) + 1 /\ k \in 0 .. M
  BY ParsingParts
<1>2. a[k] <= a[M]
  BY <1>1, Climbing
<1>3. a[M] = Len(s)
  BY <1>1 DEF Parsing, Layout
<1>4. a[M] \in Nat
  BY <1>1, ParsingParts
<1> QED BY <1>2, <1>3, <1>4

(* Down to the level of the next line there are DEDENTs, then it stands.   *)
LEMMA SpotKinds ==
  ASSUME NEW file, NEW s, NEW a, NEW d, Parsing(file, s, a, d), NEW n \in 0 .. Len(file),
         NEW e \in Nat, d[n + 1] <= e, e <= d[n]
  PROVE  /\ Spot(a, d, n, e) \in 1 .. Len(s) /\ Spot(a, d, n, e) \in Nat
         /\ e = d[n + 1] => Spot(a, d, n, e) = a[n + 1]
                            /\ s[Spot(a, d, n, e)] = Token(KindOf(file, n + 1), n + 1)
         /\ e # d[n + 1] => s[Spot(a, d, n, e)].kind = "DEDENT"
<1>1. PICK N \in Nat : N = Len(file)
  BY ParsingParts
<1>2. PICK k \in 1 .. N + 1 : k = n + 1 /\ k - 1 = n
  BY <1>1
<1>3. k \in 0 .. N + 1 /\ n \in 0 .. N + 1
  BY <1>1, <1>2
<1>4. PICK p \in Nat, q \in Nat, from \in Nat, to \in Nat :
           p = a[n] /\ q = a[k] /\ from = d[n] /\ to = d[k]
  BY <1>1, <1>3, ParsingParts
<1>5. Placed(KindOf(file, k), s, a, d, k)
  BY <1>1, <1>2 DEF Parsing, Layout
<1>6. to <= e /\ e <= from
  BY <1>2, <1>4
<1>7. /\ s[q] = Token(KindOf(file, k), k) /\ q = p + 1 + (from - to)
      /\ \A i \in p + 1 .. q - 1 : s[i].kind = "DEDENT"
  BY <1>2, <1>4, <1>5, <1>6 DEF Placed
<1>8. PICK l \in Nat : l = Len(s) /\ q <= l
  BY <1>1, <1>3, <1>4, Ascending
<1>9. PICK x \in Nat : x = p + 1 + (from - e)
  <2>1. from - e \in Nat
    BY <1>6
  <2> QED BY <2>1
<1>10. Spot(a, d, n, e) = x
  BY <1>4, <1>9 DEF Spot
<1>11. x \in 1 .. l /\ x <= q
  BY <1>6, <1>7, <1>8, <1>9
<1>12. e = to => x = q
  BY <1>7, <1>9
<1>13. e # to => x \in p + 1 .. q - 1
  BY <1>6, <1>7, <1>9
<1> QED BY <1>2, <1>4, <1>7, <1>8, <1>10, <1>11, <1>12, <1>13

LEMMA IndentKinds ==
  ASSUME NEW file, NEW s, NEW a, NEW d, Parsing(file, s, a, d), NEW n \in 0 .. Len(file),
         ~ (d[n + 1] <= d[n])
  PROVE  /\ n + 1 \in 1 .. Len(file) /\ d[n + 1] = d[n] + 1
         /\ a[n] + 1 \in 1 .. Len(s) /\ a[n + 1] \in 1 .. Len(s) /\ s[a[n] + 1].kind = "INDENT"
         /\ a[n + 1] = a[n] + 2 /\ s[a[n + 1]] = Token(KindOf(file, n + 1), n + 1)
<1>1. PICK N \in Nat : N = Len(file)
  BY ParsingParts
<1>2. PICK k \in 1 .. N + 1 : k = n + 1 /\ k - 1 = n
  BY <1>1
<1>3. k \in 0 .. N + 1 /\ n \in 0 .. N + 1
  BY <1>1, <1>2
<1>4. PICK p \in Nat, q \in Nat : p = a[n] /\ q = a[k] /\ d[n] \in Nat /\ d[n] > 0 /\ d[k] \in Nat
  BY <1>1, <1>3, ParsingParts
<1>5. Placed(KindOf(file, k), s, a, d, k)
  BY <1>1, <1>2 DEF Parsing, Layout
<1>6. s[q] = Token(KindOf(file, k), k) /\ d[k] = d[n] + 1 /\ q = p + 2 /\ s[p + 1].kind = "INDENT"
  BY <1>2, <1>4, <1>5 DEF Placed
<1>7. PICK l \in Nat : l = Len(s) /\ q <= l
  BY <1>1, <1>3, <1>4, Ascending
<1>8. k # N + 1
  <2>1. d[N + 1] = 1
    BY <1>1 DEF Parsing, Layout
  <2> QED BY <1>4, <1>6, <2>1
<1>9. p + 1 \in 1 .. l /\ q \in 1 .. l
  BY <1>6, <1>7
<1>10. n + 1 \in 1 .. Len(file)
  BY <1>1, <1>2, <1>8
<1> QED BY <1>2, <1>4, <1>6, <1>7, <1>9, <1>10, Zenon

-----------------------------------------------------------------------------
(* What the parser of the blocks has read.                                 *)
Reading(at, errs, imports, got) == [at |-> at, errs |-> errs, imports |-> imports, got |-> got]

LEMMA ReadingParts ==
  ASSUME NEW at, NEW errs, NEW imports, NEW got, NEW q, q = Reading(at, errs, imports, got)
  PROVE  q.at = at /\ q.errs = errs /\ q.imports = imports /\ q.got = got
BY DEF Reading

With(q, at, errs, imports, got, v) ==
  /\ [q EXCEPT !.at = v] = Reading(v, errs, imports, got)
  /\ [q EXCEPT !.errs = v] = Reading(at, v, imports, got)
  /\ [q EXCEPT !.imports = v] = Reading(at, errs, v, got)
  /\ [q EXCEPT !.got = v] = Reading(at, errs, imports, v)

LEMMA ReadingWith ==
  ASSUME NEW at, NEW errs, NEW imports, NEW got, NEW q, q = Reading(at, errs, imports, got), NEW v
  PROVE  With(q, at, errs, imports, got, v)
BY DEF Reading, With

On(s, q, at, errs, imports, got) ==
  /\ Kind(s, q) = s[at].kind
  /\ Step(q) = Reading(at + 1, errs, imports, got)
  /\ Report(s, q) = Reading(at, errs \union {s[at].line}, imports, got)
  /\ \E to : SkipLine(s, q) = Reading(to, errs, imports, got)

LEMMA ReadingOn ==
  ASSUME NEW s, NEW at, NEW errs, NEW imports, NEW got, NEW q, q = Reading(at, errs, imports, got)
  PROVE  On(s, q, at, errs, imports, got)
<1>1. q.at = at /\ q.errs = errs
  BY ReadingParts
<1>2. Step(q) = Reading(at + 1, errs, imports, got)
  <2>1. PICK v : v = at + 1
    OBVIOUS
  <2>2. Step(q) = [q EXCEPT !.at = v]
    BY <1>1, <2>1 DEF Step
  <2>3. With(q, at, errs, imports, got, v)
    BY ReadingWith, Zenon
  <2> QED BY <2>1, <2>2, <2>3, Zenon DEF With
<1>3. Report(s, q) = Reading(at, errs \union {s[at].line}, imports, got)
  <2>1. PICK v : v = errs \union {s[at].line}
    OBVIOUS
  <2>2. Report(s, q) = [q EXCEPT !.errs = v]
    BY <1>1, <2>1 DEF Report
  <2>3. With(q, at, errs, imports, got, v)
    BY ReadingWith, Zenon
  <2> QED BY <2>1, <2>2, <2>3, Zenon DEF With
<1>4. \E to : SkipLine(s, q) = Reading(to, errs, imports, got)
  <2>1. PICK to : SkipLine(s, q) = [q EXCEPT !.at = to]
    BY Zenon DEF SkipLine
  <2>2. With(q, at, errs, imports, got, to)
    BY ReadingWith, Zenon
  <2> QED BY <2>1, <2>2, Zenon DEF With
<1> QED BY <1>1, <1>2, <1>3, <1>4 DEF Kind, On

(* Something was reported of a file that is not well formed.               *)
Wrong(file, q) ==
  /\ ~ WellFormed(file)
  /\ \E at, errs, imports, got : q = Reading(at, errs, imports, got) /\ errs # {}

LEMMA WrongOn ==
  ASSUME NEW file, NEW s, NEW q, Wrong(file, q)
  PROVE  /\ Wrong(file, Step(q)) /\ Wrong(file, Report(s, q)) /\ Wrong(file, SkipLine(s, q))
         /\ \A kind : Wrong(file, Expect(s, kind, q))
         /\ \A v : Wrong(file, [q EXCEPT !.got = v])
         /\ \A v : Wrong(file, [q EXCEPT !.imports = v])
<1>1. PICK at, errs, imports, got : q = Reading(at, errs, imports, got) /\ errs # {}
  BY DEF Wrong
<1>2. Wrong(file, Step(q)) /\ Wrong(file, Report(s, q)) /\ Wrong(file, SkipLine(s, q))
  <2>1. errs \union {s[at].line} # {}
    OBVIOUS
  <2>2. On(s, q, at, errs, imports, got)
    BY <1>1, ReadingOn, Zenon
  <2>3. ~ WellFormed(file)
    BY DEF Wrong
  <2> QED BY <1>1, <2>1, <2>2, <2>3, Zenon DEF Wrong, On
<1>3. \A kind : Expect(s, kind, q) \in {Step(q), Report(s, q)}
  BY DEF Expect
<1>4. \A kind : Wrong(file, Expect(s, kind, q))
  BY <1>2, <1>3
<1>5. ASSUME NEW v
      PROVE  Wrong(file, [q EXCEPT !.got = v]) /\ Wrong(file, [q EXCEPT !.imports = v])
  <2>1. With(q, at, errs, imports, got, v)
    BY <1>1, ReadingWith, Zenon
  <2>2. ~ WellFormed(file)
    BY DEF Wrong
  <2>3. [q EXCEPT !.got = v] = Reading(at, errs, imports, v)
    BY <2>1, Zenon DEF With
  <2>4. [q EXCEPT !.imports = v] = Reading(at, errs, v, got)
    BY <2>1, Zenon DEF With
  <2>5. Wrong(file, [q EXCEPT !.got = v])
    BY <1>1, <2>2, <2>3, Zenon DEF Wrong
  <2>6. Wrong(file, [q EXCEPT !.imports = v])
    BY <1>1, <2>2, <2>4, Zenon DEF Wrong
  <2> QED BY <2>5, <2>6
<1> QED BY <1>2, <1>4, <1>5

LEMMA ReportWrong ==
  ASSUME NEW file, NEW s, NEW at, NEW errs, NEW imports, NEW got, ~ WellFormed(file),
         NEW q, q = Reading(at, errs, imports, got)
  PROVE  Wrong(file, Report(s, q))
<1>1. Report(s, q) = Reading(at, errs \union {s[at].line}, imports, got)
  <2>1. On(s, q, at, errs, imports, got)
    BY ReadingOn, Zenon
  <2> QED BY <2>1, Zenon DEF On
<1>2. errs \union {s[at].line} # {}
  OBVIOUS
<1> QED BY <1>1, <1>2, Zenon DEF Wrong

LEMMA StopGo ==
  ASSUME NEW x
  PROVE  /\ Stopped(x).made = x /\ ~ Stopped(x).on
         /\ Going(x).made = x /\ Going(x).on
BY DEF Stopped, Going

-----------------------------------------------------------------------------
(* A loop whose turns each go from what can be there before a turn to that *)
(* or to what can be there at the end, unless something is reported.       *)
Goes(file, which, a, n, R, F) ==
  /\ \A x \in R : x.at \in 1 .. n
  /\ \A x \in R : \/ Wrong(file, Body(which, a, x).made)
                  \/ /\ Body(which, a, x).on /\ Body(which, a, x).made \in R
                     /\ x.at < Body(which, a, x).made.at
                  \/ ~ Body(which, a, x).on /\ Body(which, a, x).made \in F
  /\ \A x : Wrong(file, x) => Wrong(file, Body(which, a, x).made)

LEMMA LoopGoes ==
  ASSUME NEW file, NEW which \in {"thens", "elifs", "top"}, NEW a, NEW n \in Nat,
         NEW R, NEW F, Goes(file, which, a, n, R, F),
         NEW p, p \in R \/ Wrong(file, p), NEW g, Recurs(g, which, a, Going(p), n)
  PROVE  Wrong(file, g[n].made) \/ g[n].made \in F
<1> DEFINE GoesWell(k) == \/ Wrong(file, g[k].made)
                          \/ g[k].on /\ g[k].made \in R /\ k < g[k].made.at
                          \/ ~ g[k].on /\ g[k].made \in F
           S == {k \in Nat : k <= n => GoesWell(k)}
<1>1. GoesWell(0)
  <2>1. g[0] = Going(p)
    BY RecursionTurns
  <2>2. g[0].made = p /\ g[0].on
    BY <2>1, StopGo
  <2>3. p \in R => 0 < p.at
    BY DEF Goes
  <2> QED BY <2>2, <2>3
<1>2. ASSUME NEW k \in Nat, k \in S
      PROVE  k + 1 \in S
  <2>1. ASSUME k + 1 <= n
        PROVE  GoesWell(k + 1)
    <3>1. PICK j \in 1 .. n : j = k + 1 /\ j - 1 = k
      BY <2>1
    <3>2. PICK x, y : x = g[k] /\ y = g[j]
      OBVIOUS
    <3>3. y = Turn(which, a, j, x)
      <4>1. \A i \in 1 .. n : g[i] = Turn(which, a, i, g[i - 1])
        BY RecursionTurns
      <4>2. g[j] = Turn(which, a, j, g[j - 1])
        BY <4>1
      <4> QED BY <3>1, <3>2, <4>2
    <3>4. y = IF x.on THEN Body(which, a, x.made) ELSE x
      <4>1. which = "thens" \/ which = "elifs" \/ which = "top"
        OBVIOUS
      <4> QED BY <3>3, <4>1 DEF Turn
    <3>5. \/ Wrong(file, x.made)
          \/ x.on /\ x.made \in R /\ k < x.made.at
          \/ ~ x.on /\ x.made \in F
      BY <1>2, <2>1, <3>2
    <3>6. CASE Wrong(file, x.made)
      <4>1. Wrong(file, y.made)
        BY <3>4, <3>6 DEF Goes
      <4> QED BY <3>1, <3>2, <4>1
    <3>7. CASE x.on /\ x.made \in R /\ k < x.made.at
      <4>1. PICK z : z = x.made
        OBVIOUS
      <4>2. y = Body(which, a, z) /\ z \in R /\ k < z.at /\ z.at \in 1 .. n
        BY <3>4, <3>7, <4>1 DEF Goes
      <4>3. \/ Wrong(file, y.made)
            \/ y.on /\ y.made \in R /\ z.at < y.made.at
            \/ ~ y.on /\ y.made \in F
        BY <4>2 DEF Goes
      <4>4. y.made \in R => y.made.at \in 1 .. n
        BY DEF Goes
      <4>5. y.made \in R /\ z.at < y.made.at => j < y.made.at
        <5>1. ASSUME y.made \in R, z.at < y.made.at
              PROVE  j < y.made.at
          <6>1. PICK u \in Nat, v \in Nat : u = z.at /\ v = y.made.at
            BY <4>2, <4>4, <5>1
          <6>2. k < u /\ u < v
            BY <4>2, <5>1, <6>1
          <6>3. j < v
            BY <3>1, <6>2
          <6> QED BY <6>1, <6>3
        <5> QED BY <5>1
      <4> QED BY <3>1, <3>2, <4>3, <4>5
    <3>8. CASE ~ x.on /\ x.made \in F
      <4>1. y = x
        BY <3>4, <3>8
      <4> QED BY <3>1, <3>2, <3>8, <4>1
    <3> QED BY <3>5, <3>6, <3>7, <3>8
  <2> HIDE DEF GoesWell
  <2> QED BY <2>1
<1>3. \A k \in Nat : k \in S => k + 1 \in S
  BY <1>2
<1>4. 0 \in S
  BY <1>1
<1> HIDE DEF S
<1>5. GoesWell(n)
  <2>1. n \in S
    BY <1>3, <1>4, Successors
  <2> HIDE DEF GoesWell
  <2> QED BY <2>1 DEF S
<1>6. ~ (g[n].made \in R /\ n < g[n].made.at)
  <2>1. ASSUME g[n].made \in R, n < g[n].made.at
        PROVE  FALSE
    <3>1. g[n].made.at \in 1 .. n
      BY <2>1 DEF Goes
    <3> QED BY <2>1, <3>1
  <2> QED BY <2>1
<1> QED BY <1>5, <1>6

LEMMA ThensLoop ==
  ASSUME NEW s, Len(s) \in Nat, NEW p
  PROVE  \E g : /\ Recurs(g, "thens", [s |-> s], Going([p EXCEPT !.got = <<>>]), Len(s))
                /\ ParseThens(s, p) = g[Len(s)].made
<1> DEFINE a == [s |-> s]
           n == Len(s)
           Next2(x) == IF x.on THEN ThenStep(s, x.made) ELSE x
<1>0. PICK first : first = [p EXCEPT !.got = <<>>]
  OBVIOUS
<1>1. PICK f : Recurs(f, "thens", a, Going(first), n)
  BY Recursion, Zenon
<1>2. \A x, k : Turn("thens", a, k, x) = Next2(x)
  BY DEF Turn, Body
<1>3. f = [k \in 0 .. n |-> IF k = 0 THEN Going(first) ELSE Next2(f[k - 1])]
  BY <1>1, <1>2 DEF Recurs
<1>4. PICK g : g = CHOOSE x : x = [k \in 0 .. n |-> IF k = 0 THEN Going(first) ELSE Next2(x[k - 1])]
  OBVIOUS
<1>5. g = [k \in 0 .. n |-> IF k = 0 THEN Going(first) ELSE Next2(g[k - 1])]
  BY <1>3, <1>4, Zenon
<1>6. ParseThens(s, p) = g[n].made
  BY <1>0, <1>4, Zenon DEF ParseThens, Loop
<1>7. Recurs(g, "thens", a, Going(first), n)
  BY <1>2, <1>5 DEF Recurs
<1> QED BY <1>0, <1>6, <1>7

LEMMA ElifsLoop ==
  ASSUME NEW s, Len(s) \in Nat, NEW p
  PROVE  \E g : /\ Recurs(g, "elifs", [s |-> s], Going(p), Len(s))
                /\ ParseElifs(s, p) = g[Len(s)].made
<1> DEFINE a == [s |-> s]
           n == Len(s)
           Next2(x) == IF x.on THEN ElifStep(s, x.made) ELSE x
<1>1. PICK f : Recurs(f, "elifs", a, Going(p), n)
  BY Recursion, Zenon
<1>2. \A x, k : Turn("elifs", a, k, x) = Next2(x)
  BY DEF Turn, Body
<1>3. f = [k \in 0 .. n |-> IF k = 0 THEN Going(p) ELSE Next2(f[k - 1])]
  BY <1>1, <1>2 DEF Recurs
<1>4. PICK g : g = CHOOSE x : x = [k \in 0 .. n |-> IF k = 0 THEN Going(p) ELSE Next2(x[k - 1])]
  OBVIOUS
<1>5. g = [k \in 0 .. n |-> IF k = 0 THEN Going(p) ELSE Next2(g[k - 1])]
  BY <1>3, <1>4, Zenon
<1>6. ParseElifs(s, p) = g[n].made
  BY <1>4, Zenon DEF ParseElifs, Loop
<1>7. Recurs(g, "elifs", a, Going(p), n)
  BY <1>2, <1>5 DEF Recurs
<1> QED BY <1>6, <1>7

LEMMA TopLoop ==
  ASSUME NEW s, Len(s) \in Nat, NEW p
  PROVE  \E g : /\ Recurs(g, "top", [s |-> s], Going(p), Len(s))
                /\ ParseTop(s, p) = g[Len(s)].made
<1> DEFINE a == [s |-> s]
           n == Len(s)
           Next2(x) == IF x.on THEN TopStep(s, x.made) ELSE x
<1>1. PICK f : Recurs(f, "top", a, Going(p), n)
  BY Recursion, Zenon
<1>2. \A x, k : Turn("top", a, k, x) = Next2(x)
  BY DEF Turn, Body
<1>3. f = [k \in 0 .. n |-> IF k = 0 THEN Going(p) ELSE Next2(f[k - 1])]
  BY <1>1, <1>2 DEF Recurs
<1>4. PICK g : g = CHOOSE x : x = [k \in 0 .. n |-> IF k = 0 THEN Going(p) ELSE Next2(x[k - 1])]
  OBVIOUS
<1>5. g = [k \in 0 .. n |-> IF k = 0 THEN Going(p) ELSE Next2(g[k - 1])]
  BY <1>3, <1>4, Zenon
<1>6. ParseTop(s, p) = g[n].made
  BY <1>4, Zenon DEF ParseTop, Loop
<1>7. Recurs(g, "top", a, Going(p), n)
  BY <1>2, <1>5 DEF Recurs
<1> QED BY <1>6, <1>7

-----------------------------------------------------------------------------
(* What was reported stays reported.                                       *)
LEMMA ThenStepWrong ==
  ASSUME NEW file, NEW s, NEW q, Wrong(file, q)
  PROVE  Wrong(file, ThenStep(s, q).made)
<1>1. PICK t, l : t = [Step(q) EXCEPT !.got = Append(@, s[q.at].line)] /\ l = Append(Step(q).got, s[q.at].line)
  OBVIOUS
<1>2. t = [Step(q) EXCEPT !.got = l]
  BY <1>1
<1>3. Wrong(file, Step(q)) /\ Wrong(file, Report(s, q))
  BY WrongOn
<1>4. Wrong(file, t)
  BY <1>2, <1>3, WrongOn
<1>5. Wrong(file, SkipLine(s, Report(s, q)))
  BY <1>3, WrongOn
<1>6. ThenStep(s, q) \in {Stopped(q), Going(t), Going(SkipLine(s, Report(s, q)))}
  BY <1>1 DEF ThenStep
<1>7. /\ Stopped(q).made = q /\ Going(t).made = t
      /\ Going(SkipLine(s, Report(s, q))).made = SkipLine(s, Report(s, q))
  BY StopGo
<1> QED BY <1>4, <1>5, <1>6, <1>7

LEMMA ThensWrong ==
  ASSUME NEW file, NEW s, Len(s) \in Nat, NEW q, Wrong(file, q)
  PROVE  Wrong(file, ParseThens(s, q))
<1>1. PICK g : /\ Recurs(g, "thens", [s |-> s], Going([q EXCEPT !.got = <<>>]), Len(s))
               /\ ParseThens(s, q) = g[Len(s)].made
  BY ThensLoop
<1>2. Wrong(file, [q EXCEPT !.got = <<>>])
  BY WrongOn
<1>3. Goes(file, "thens", [s |-> s], Len(s), {}, {})
  <2>1. \A x : Body("thens", [s |-> s], x) = ThenStep(s, x)
    BY DEF Body
  <2> QED BY <2>1, ThenStepWrong DEF Goes
<1>4. Wrong(file, g[Len(s)].made) \/ g[Len(s)].made \in {}
  <2>1. PICK a, R, p, n : /\ a = [s |-> s] /\ R = {} /\ p = [q EXCEPT !.got = <<>>]
                          /\ n = Len(s)
    OBVIOUS
  <2>2. Goes(file, "thens", a, n, R, R) /\ Recurs(g, "thens", a, Going(p), n)
    BY <1>1, <1>3, <2>1
  <2>3. (p \in R \/ Wrong(file, p)) /\ n \in Nat /\ "thens" \in {"thens", "elifs", "top"}
    BY <1>2, <2>1
  <2>4. Wrong(file, g[n].made) \/ g[n].made \in R
    BY <2>2, <2>3, LoopGoes, Zenon
  <2> QED BY <2>1, <2>4
<1> QED BY <1>1, <1>4

LEMMA EndBranchWrong ==
  ASSUME NEW file, NEW s, NEW head, NEW q, Wrong(file, q), NEW branches
  PROVE  Wrong(file, EndBranch(s, head, q, branches))
<1>1. PICK some : some = IF q.got = <<>> THEN Report(s, q) ELSE q
  OBVIOUS
<1>2. Wrong(file, some)
  BY <1>1, WrongOn
<1>3. PICK e : e = Expect(s, "DEDENT", some)
  OBVIOUS
<1>4. Wrong(file, e)
  BY <1>2, <1>3, WrongOn
<1>5. PICK v : v = Append(branches, [kind |-> head.kind, line |-> head.line, thens |-> q.got])
  OBVIOUS
<1>6. EndBranch(s, head, q, branches) = [e EXCEPT !.got = v]
  BY <1>1, <1>3, <1>5, Zenon DEF EndBranch
<1> QED BY <1>4, <1>6, WrongOn

LEMMA BranchWrong ==
  ASSUME NEW file, NEW s, Len(s) \in Nat, NEW q, Wrong(file, q), NEW branches
  PROVE  Wrong(file, ParseBranch(s, q, branches))
<1>1. Wrong(file, Step(q))
  BY WrongOn
<1>2. Wrong(file, Expect(s, "INDENT", Step(q)))
  BY <1>1, WrongOn
<1>3. Wrong(file, ParseThens(s, Expect(s, "INDENT", Step(q))))
  BY <1>2, ThensWrong
<1> QED BY <1>3, EndBranchWrong DEF ParseBranch

LEMMA ElifStepWrong ==
  ASSUME NEW file, NEW s, Len(s) \in Nat, NEW q, Wrong(file, q)
  PROVE  Wrong(file, ElifStep(s, q).made)
<1>1. PICK b : b = ParseBranch(s, q, q.got)
  OBVIOUS
<1>2. Wrong(file, b)
  BY <1>1, BranchWrong
<1>3. ElifStep(s, q) \in {Going(b), Stopped(q)}
  BY <1>1 DEF ElifStep
<1> QED BY <1>2, <1>3, StopGo

LEMMA ElifsWrong ==
  ASSUME NEW file, NEW s, Len(s) \in Nat, NEW q, Wrong(file, q)
  PROVE  Wrong(file, ParseElifs(s, q))
<1>1. PICK g : /\ Recurs(g, "elifs", [s |-> s], Going(q), Len(s))
               /\ ParseElifs(s, q) = g[Len(s)].made
  BY ElifsLoop
<1>2. Goes(file, "elifs", [s |-> s], Len(s), {}, {})
  <2>1. \A x : Body("elifs", [s |-> s], x) = ElifStep(s, x)
    BY DEF Body
  <2> QED BY <2>1, ElifStepWrong DEF Goes
<1>3. Wrong(file, g[Len(s)].made) \/ g[Len(s)].made \in {}
  <2>1. PICK a, R, n : a = [s |-> s] /\ R = {} /\ n = Len(s)
    OBVIOUS
  <2>2. Goes(file, "elifs", a, n, R, R) /\ Recurs(g, "elifs", a, Going(q), n)
    BY <1>1, <1>2, <2>1
  <2>3. (q \in R \/ Wrong(file, q)) /\ n \in Nat /\ "elifs" \in {"thens", "elifs", "top"}
    BY <2>1
  <2>4. Wrong(file, g[n].made) \/ g[n].made \in R
    BY <2>2, <2>3, LoopGoes, Zenon
  <2> QED BY <2>1, <2>4
<1> QED BY <1>1, <1>3

LEMMA ElseWrong ==
  ASSUME NEW file, NEW s, Len(s) \in Nat, NEW q, Wrong(file, q)
  PROVE  Wrong(file, ParseElse(s, q))
<1>1. ParseElse(s, q) \in {ParseBranch(s, q, q.got), q}
  BY DEF ParseElse
<1> QED BY <1>1, BranchWrong

LEMMA BranchesWrong ==
  ASSUME NEW file, NEW s, Len(s) \in Nat, NEW q, Wrong(file, q)
  PROVE  Wrong(file, ParseBranches(s, q))
<1>1. Wrong(file, [Report(s, q) EXCEPT !.got = <<>>])
  <2>1. Wrong(file, Report(s, q))
    BY WrongOn
  <2> QED BY <2>1, WrongOn
<1>2. Wrong(file, ParseElse(s, ParseElifs(s, ParseBranch(s, q, <<>>))))
  <2>1. Wrong(file, ParseBranch(s, q, <<>>))
    BY BranchWrong
  <2>2. Wrong(file, ParseElifs(s, ParseBranch(s, q, <<>>)))
    BY <2>1, ElifsWrong
  <2> QED BY <2>2, ElseWrong
<1> QED BY <1>1, <1>2 DEF ParseBranches

LEMMA RuleEndWrong ==
  ASSUME NEW file, NEW s, NEW body, Wrong(file, body), NEW p, NEW rules,
         body = ParseBranches(s, Expect(s, "INDENT", Step(p)))
  PROVE  Wrong(file, ParseRule(s, p, rules))
<1>1. PICK e, v : /\ e = Expect(s, "DEDENT", body)
                  /\ v = Append(rules, [line |-> s[p.at].line, branches |-> body.got])
  OBVIOUS
<1>2. Wrong(file, e)
  BY <1>1, WrongOn
<1>3. ParseRule(s, p, rules) = [e EXCEPT !.got = v]
  BY <1>1, Zenon DEF ParseRule
<1> QED BY <1>2, <1>3, WrongOn

LEMMA RuleWrong ==
  ASSUME NEW file, NEW s, Len(s) \in Nat, NEW q, Wrong(file, q), NEW rules
  PROVE  Wrong(file, ParseRule(s, q, rules))
<1>1. PICK body : body = ParseBranches(s, Expect(s, "INDENT", Step(q)))
  OBVIOUS
<1>2. Wrong(file, Step(q))
  BY WrongOn
<1>3. Wrong(file, Expect(s, "INDENT", Step(q)))
  BY <1>2, WrongOn
<1>4. Wrong(file, body)
  BY <1>1, <1>3, BranchesWrong
<1> QED BY <1>1, <1>4, RuleEndWrong

LEMMA TopStepWrong ==
  ASSUME NEW file, NEW s, Len(s) \in Nat, NEW q, Wrong(file, q)
  PROVE  Wrong(file, TopStep(s, q).made)
<1>1. PICK t, l : /\ t = [Step(q) EXCEPT !.imports = Append(@, s[q.at].line)]
                  /\ l = Append(Step(q).imports, s[q.at].line)
  OBVIOUS
<1>2. t = [Step(q) EXCEPT !.imports = l]
  BY <1>1
<1>3. Wrong(file, Step(q)) /\ Wrong(file, Report(s, q))
  BY WrongOn
<1>4. Wrong(file, t)
  BY <1>2, <1>3, WrongOn
<1>5. PICK r, k : r = ParseRule(s, q, q.got) /\ k = SkipLine(s, Report(s, q))
  OBVIOUS
<1>6. Wrong(file, r) /\ Wrong(file, k)
  BY <1>3, <1>5, WrongOn, RuleWrong
<1>7. TopStep(s, q) \in {Stopped(q), Going(t), Going(r), Going(k)}
  BY <1>1, <1>5 DEF TopStep
<1>8. Stopped(q).made = q /\ Going(t).made = t /\ Going(r).made = r /\ Going(k).made = k
  BY StopGo
<1> QED BY <1>4, <1>6, <1>7, <1>8

-----------------------------------------------------------------------------
(* What a line's block is to be.                                           *)
LineFits(file, n) ==
  CASE file[n].kind = "rule" -> IsBranchList(KindsIn(file, n))
    [] file[n].kind \in BranchKinds ->
         /\ Block(file, n) # {}
         /\ \A i \in Block(file, n) : file[i].kind = "then"
    [] OTHER -> Block(file, n) = {}

LEMMA Fits ==
  ASSUME NEW file, NEW n
  PROVE  /\ file[n].kind = "rule" => (LineFits(file, n) <=> IsBranchList(KindsIn(file, n)))
         /\ file[n].kind \in BranchKinds =>
              (LineFits(file, n) <=> /\ Block(file, n) # {}
                                     /\ \A i \in Block(file, n) : file[i].kind = "then")
         /\ file[n].kind \in {"import", "then", "other"} =>
              (LineFits(file, n) <=> Block(file, n) = {})
<1>1. "rule" \notin BranchKinds /\ \A k \in {"import", "then", "other"} : k \notin BranchKinds /\ k # "rule"
  BY DEF BranchKinds
<1>2. file[n].kind = "rule" => (LineFits(file, n) <=> IsBranchList(KindsIn(file, n)))
  BY <1>1 DEF LineFits
<1>3. file[n].kind \in BranchKinds =>
        (LineFits(file, n) <=> /\ Block(file, n) # {}
                               /\ \A i \in Block(file, n) : file[i].kind = "then")
  BY <1>1 DEF LineFits
<1>4. file[n].kind \in {"import", "then", "other"} => (LineFits(file, n) <=> Block(file, n) = {})
  BY <1>1 DEF LineFits
<1> QED BY <1>2, <1>3, <1>4

LEMMA Misfit ==
  ASSUME NEW file, NEW n \in 1 .. Len(file), ~ LineFits(file, n)
  PROVE  ~ WellFormed(file)
BY DEF WellFormed, LineFits

LEMMA AllFit ==
  ASSUME NEW file, NEW s, NEW a, NEW d, Parsing(file, s, a, d), d[1] = 1,
         \A i \in Block(file, 0) : file[i].kind \in {"import", "rule"},
         \A n \in 1 .. Len(file) : LineFits(file, n)
  PROVE  WellFormed(file)
<1>1. /\ \A n \in 1 .. Len(file) : \A i, j \in Block(file, n) : file[i].indent = file[j].indent
      /\ \A i \in Block(file, 0) : file[i].indent = 0
  BY DEF Parsing, BlocksAsLaid
<1> QED BY <1>1 DEF WellFormed, LineFits

-----------------------------------------------------------------------------
(* A block in order, from its first line on.                               *)
LEMMA BlockBefore ==
  ASSUME NEW file, NEW s, NEW a, NEW d, Parsing(file, s, a, d), NEW n \in 1 .. Len(file)
  PROVE  InOrder(Block(file, n), n) = <<>>
<1>1. \A i \in 0 + 1 .. n : i \notin Block(file, n)
  <2>1. \A i \in Block(file, n) : i \in n + 1 .. Len(file)
    BY BlockLevels
  <2> QED BY <2>1
<1>2. 0 \in Nat /\ n \in Nat /\ 0 <= n
  OBVIOUS
<1>3. InOrder(Block(file, n), n) = InOrder(Block(file, n), 0)
  BY <1>1, <1>2, InOrderSkips
<1> QED BY <1>3, InOrderSteps

LEMMA InOrderJoin ==
  ASSUME NEW S, NEW m \in Nat, m + 1 \in S
  PROVE  InOrder(S, m + 1) = Append(InOrder(S, m), m + 1)
<1>1. PICK k \in Nat \ {0} : k = m + 1 /\ k - 1 = m
  OBVIOUS
<1>2. InOrder(S, k) = IF k \in S THEN Append(InOrder(S, k - 1), k) ELSE InOrder(S, k - 1)
  BY InOrderSteps
<1> QED BY <1>1, <1>2

-----------------------------------------------------------------------------
(* The lines of a branch.                                                  *)
BranchLine(file, d, h) == h \in 1 .. Len(file) /\ d[h] = 2 /\ file[h].kind \in BranchKinds

ThensTo(file, d, h, m) ==
  m \in h .. Len(file) /\ \A i \in h + 1 .. m : d[i] = 3 /\ file[i].kind = "then"

ThensAt(a, h, m) == IF m = h THEN a[h + 1] ELSE a[m] + 1

ThensRead(file, a, im, h, m) ==
  Reading(ThensAt(a, h, m), {}, im, InOrder(Block(file, h), m))

ThensGo(file, s, a, d, h, im, m, x, y) ==
  /\ x.at \in 1 .. Len(s)
  /\ \/ Wrong(file, y.made)
     \/ /\ y.on /\ ThensTo(file, d, h, m + 1)
        /\ y.made = ThensRead(file, a, im, h, m + 1)
        /\ x.at < y.made.at
     \/ ~ y.on /\ m # h /\ d[m + 1] <= 2 /\ y.made = x

LEMMA ThensTurn ==
  ASSUME NEW file, NEW s, NEW a, NEW d, Parsing(file, s, a, d), NEW h, BranchLine(file, d, h),
         d[h + 1] = 3, NEW m, ThensTo(file, d, h, m), NEW im, NEW x, x = ThensRead(file, a, im, h, m)
  PROVE  ThensGo(file, s, a, d, h, im, m, x, ThenStep(s, x))
<1>1. PICK N \in Nat : N = Len(file) /\ file \in Seq(Line)
  BY ParsingParts
<1>2. /\ \A k \in 0 .. N + 1 : d[k] \in Nat /\ a[k] \in Nat
      /\ \A k \in 1 .. N : file[k].kind \in LineKind
      /\ d[N + 1] = 1
  <2>1. d[N + 1] = 1
    BY <1>1 DEF Parsing, Layout
  <2> QED BY <1>1, <2>1, ParsingParts
<1>3. /\ h \in 1 .. N /\ m \in h .. N /\ m \in 0 .. Len(file) /\ m + 1 \in 0 .. N + 1 /\ h \in 0 .. N + 1
      /\ m \in 0 .. N + 1 /\ h \in 0 .. Len(file)
      /\ d[h] = 2 /\ file[h].kind \in BranchKinds
  BY <1>1 DEF BranchLine, ThensTo
<1>4. PICK B, q : B = Block(file, h) /\ q = InOrder(B, m)
  OBVIOUS
<1>5. PICK at : at = ThensAt(a, h, m)
  OBVIOUS
<1>6. x = Reading(at, {}, im, q)
  BY <1>4, <1>5 DEF ThensRead
<1>7. x.at = at /\ x.got = q /\ On(s, x, at, {}, im, q)
  BY <1>6, ReadingParts, ReadingOn
<1>8. m # h => d[m] = 3 /\ file[m].kind = "then" /\ at = a[m] + 1 /\ at = Spot(a, d, m, 3)
  <2>1. ASSUME m # h
        PROVE  d[m] = 3 /\ file[m].kind = "then" /\ at = a[m] + 1 /\ at = Spot(a, d, m, 3)
    <3>1. m \in h + 1 .. m
      BY <1>3, <2>1
    <3>2. d[m] = 3 /\ file[m].kind = "then" /\ at = a[m] + 1
      BY <1>5, <2>1, <3>1 DEF ThensTo, ThensAt
    <3> QED BY <1>2, <1>3, <3>2 DEF Spot
  <2> QED BY <2>1
<1>9. CASE d[m + 1] = 3
  <2>1. m + 1 \in 1 .. N
    <3>1. m # N
      BY <1>2, <1>9
    <3> QED BY <1>3, <3>1
  <2>2. at = a[m + 1] /\ at \in 1 .. Len(s) /\ s[at] = Token(file[m + 1].kind, m + 1)
    <3>1. KindOf(file, m + 1) = file[m + 1].kind
      BY <1>1, <2>1 DEF KindOf
    <3>2. CASE m = h
      <4>1. ~ (d[h + 1] <= d[h])
        BY <1>3
      <4> QED BY <1>3, <1>5, <3>1, <3>2, <4>1, IndentKinds DEF ThensAt
    <3>3. CASE m # h
      <4>1. 3 \in Nat /\ d[m + 1] <= 3 /\ 3 <= d[m]
        BY <1>8, <1>9, <3>3
      <4> QED BY <1>3, <1>8, <1>9, <3>1, <3>3, <4>1, SpotKinds
    <3> QED BY <3>2, <3>3
  <2>3. s[at].kind = file[m + 1].kind /\ s[at].line = m + 1
    BY <2>2 DEF Token
  <2>4. m + 1 \in B
    <3>1. ASSUME NEW i \in h + 1 .. m
          PROVE  d[h] < d[i]
      BY <1>3 DEF ThensTo
    <3>2. m + 1 \in h + 1 .. Len(file) /\ h + 1 .. (m + 1) - 1 = h + 1 .. m /\ d[m + 1] = d[h] + 1
          /\ h \in 1 .. Len(file)
      BY <1>1, <1>3, <1>9, <2>1
    <3> QED BY <1>4, <3>1, <3>2, JoinsBlock
  <2>5. CASE file[m + 1].kind = "then"
    <3>1. PICK r : r = InOrder(B, m + 1)
      OBVIOUS
    <3>2. r = Append(q, m + 1)
      BY <1>3, <1>4, <2>4, <3>1, InOrderJoin
    <3>3. PICK t : t = Step(x)
      OBVIOUS
    <3>4. t = Reading(at + 1, {}, im, q)
      BY <1>7, <3>3 DEF On
    <3>5. t.got = q
      BY <3>4, ReadingParts
    <3>6. [t EXCEPT !.got = Append(@, s[x.at].line)] = [t EXCEPT !.got = r]
      BY <1>7, <2>3, <3>2, <3>5
    <3>7. With(t, at + 1, {}, im, q, r)
      BY <3>4, ReadingWith, Zenon
    <3>8. [t EXCEPT !.got = r] = Reading(at + 1, {}, im, r)
      BY <3>7 DEF With
    <3>9. Kind(s, x) = "then"
      BY <1>7, <2>3, <2>5 DEF On
    <3>10. ThenStep(s, x) = Going([t EXCEPT !.got = Append(@, s[x.at].line)])
      BY <3>3, <3>9 DEF ThenStep
    <3>11. ThenStep(s, x) = Going(Reading(at + 1, {}, im, r))
      BY <3>6, <3>8, <3>10
    <3>12. m + 1 # h /\ ThensAt(a, h, m + 1) = at + 1
      BY <1>3, <2>2 DEF ThensAt
    <3>13. ThenStep(s, x).on /\ ThenStep(s, x).made = ThensRead(file, a, im, h, m + 1)
      BY <1>4, <3>1, <3>11, <3>12, StopGo DEF ThensRead
    <3>14. ThensTo(file, d, h, m + 1)
      <4>1. \A i \in h + 1 .. m + 1 : i = m + 1 \/ i \in h + 1 .. m
        BY <1>3
      <4>2. m + 1 \in h .. Len(file)
        BY <1>1, <1>3, <2>1
      <4> QED BY <1>9, <2>5, <4>1, <4>2 DEF ThensTo
    <3>15. ThenStep(s, x).made.at = at + 1
      BY <3>11, StopGo, ReadingParts
    <3> QED BY <1>7, <2>2, <3>13, <3>14, <3>15 DEF ThensGo
  <2>6. CASE file[m + 1].kind # "then"
    <3>1. ~ LineFits(file, h)
      BY <1>3, <1>4, <2>4, <2>6, Fits
    <3>2. ~ WellFormed(file)
      BY <1>1, <1>3, <3>1, Misfit
    <3>3. Wrong(file, Report(s, x))
      BY <1>6, <3>2, ReportWrong
    <3>4. Wrong(file, SkipLine(s, Report(s, x)))
      BY <3>3, WrongOn
    <3>5. Kind(s, x) \in LineKind /\ Kind(s, x) # "then"
      BY <1>2, <1>7, <2>1, <2>3, <2>6 DEF On
    <3>6. ThenStep(s, x) = Going(SkipLine(s, Report(s, x)))
      BY <3>5 DEF ThenStep, LineKind
    <3> QED BY <1>7, <2>2, <3>4, <3>6, StopGo DEF ThensGo
  <2> QED BY <2>5, <2>6
<1>10. CASE d[m + 1] < 3
  <2>1. m # h
    BY <1>10
  <2>2. 3 \in Nat /\ d[m + 1] <= 3 /\ 3 <= d[m] /\ 3 # d[m + 1] /\ d[m + 1] <= 2
    BY <1>2, <1>3, <1>8, <1>10, <2>1
  <2>3. at \in 1 .. Len(s) /\ s[at].kind = "DEDENT"
    BY <1>3, <1>8, <2>1, <2>2, SpotKinds
  <2>4. ThenStep(s, x) = Stopped(x)
    BY <1>7, <2>3 DEF On, ThenStep
  <2> QED BY <1>7, <2>1, <2>2, <2>3, <2>4, StopGo DEF ThensGo
<1>11. CASE ~ (d[m + 1] <= 3)
  <2>1. m # h
    BY <1>11
  <2>2. ~ (d[m + 1] <= d[m])
    BY <1>8, <1>11, <2>1
  <2>3. /\ at \in 1 .. Len(s) /\ s[at].kind = "INDENT"
        /\ m + 1 \in 1 .. Len(file) /\ d[m + 1] = d[m] + 1
    BY <1>3, <1>8, <2>1, <2>2, IndentKinds
  <2>4. m + 1 \in Block(file, m)
    <3>1. m \in 1 .. Len(file) /\ m + 1 \in m + 1 .. Len(file) /\ m + 1 .. (m + 1) - 1 = {}
      BY <1>1, <1>3, <2>3
    <3> QED BY <2>3, <3>1, JoinsBlock
  <2>5. ~ WellFormed(file)
    <3>1. ~ LineFits(file, m) /\ m \in 1 .. Len(file)
      BY <1>1, <1>3, <1>8, <2>1, <2>4, Fits
    <3> QED BY <3>1, Misfit
  <2>6. Wrong(file, Report(s, x))
    BY <1>6, <2>5, ReportWrong
  <2>7. Wrong(file, SkipLine(s, Report(s, x)))
    BY <2>6, WrongOn
  <2>8. ThenStep(s, x) = Going(SkipLine(s, Report(s, x)))
    BY <1>7, <2>3 DEF On, ThenStep
  <2> QED BY <1>7, <2>3, <2>7, <2>8, StopGo DEF ThensGo
<1>12. d[m + 1] \in Nat
  BY <1>2, <1>3
<1> QED BY <1>9, <1>10, <1>11, <1>12

-----------------------------------------------------------------------------
BranchEnd(file, d, h, m) == ThensTo(file, d, h, m) /\ m # h /\ d[m + 1] <= 2

LEMMA ThensParsed ==
  ASSUME NEW file, NEW s, NEW a, NEW d, Parsing(file, s, a, d), NEW h, BranchLine(file, d, h),
         d[h + 1] = 3, NEW im, NEW got, NEW p, p = Reading(a[h + 1], {}, im, got)
  PROVE  \/ Wrong(file, ParseThens(s, p))
         \/ \E m : BranchEnd(file, d, h, m) /\ ParseThens(s, p) = ThensRead(file, a, im, h, m)
<1>1. PICK n \in Nat : n = Len(s)
  <2>1. 0 \in 0 .. Len(file) + 1
    BY ParsingParts
  <2> QED BY <2>1, Ascending
<1>2. PICK b, first : b = [s |-> s] /\ first = [p EXCEPT !.got = <<>>]
  OBVIOUS
<1>3. PICK g : Recurs(g, "thens", b, Going(first), n) /\ ParseThens(s, p) = g[n].made
  BY <1>1, <1>2, ThensLoop
<1>4. first = ThensRead(file, a, im, h, h) /\ ThensTo(file, d, h, h)
  <2>1. With(p, a[h + 1], {}, im, got, <<>>)
    BY ReadingWith, Zenon
  <2>2. InOrder(Block(file, h), h) = <<>>
    BY BlockBefore DEF BranchLine
  <2>3. first = ThensRead(file, a, im, h, h)
    BY <1>2, <2>1, <2>2 DEF With, ThensRead, ThensAt
  <2>4. h \in Nat /\ h \in h .. Len(file)
    BY ParsingParts DEF BranchLine
  <2>5. h + 1 .. h = {}
    BY <2>4
  <2> QED BY <2>3, <2>4, <2>5 DEF ThensTo
<1>5. PICK R : R = {ThensRead(file, a, im, h, m) : m \in {m \in Nat : ThensTo(file, d, h, m)}}
  OBVIOUS
<1>6. PICK F : F = {ThensRead(file, a, im, h, m) : m \in {m \in Nat : BranchEnd(file, d, h, m)}}
  OBVIOUS
<1>7. \A m : ThensTo(file, d, h, m) => m \in Nat
  <2>1. h \in Nat
    BY ParsingParts DEF BranchLine
  <2> QED BY <2>1 DEF ThensTo
<1>8. ASSUME NEW x \in R
      PROVE  /\ x.at \in 1 .. n
             /\ \/ Wrong(file, Body("thens", b, x).made)
                \/ /\ Body("thens", b, x).on /\ Body("thens", b, x).made \in R
                   /\ x.at < Body("thens", b, x).made.at
                \/ ~ Body("thens", b, x).on /\ Body("thens", b, x).made \in F
  <2>1. PICK m : ThensTo(file, d, h, m) /\ x = ThensRead(file, a, im, h, m)
    BY <1>5
  <2>2. PICK y : y = ThenStep(s, x) /\ y = Body("thens", b, x)
    BY <1>2 DEF Body
  <2>3. ThensGo(file, s, a, d, h, im, m, x, y)
    BY <2>1, <2>2, ThensTurn, Zenon
  <2>4. ThensTo(file, d, h, m + 1) => ThensRead(file, a, im, h, m + 1) \in R
    BY <1>5, <1>7
  <2>5. BranchEnd(file, d, h, m) => x \in F
    BY <1>6, <1>7, <2>1
  <2> QED BY <1>1, <2>1, <2>2, <2>3, <2>4, <2>5 DEF BranchEnd, ThensGo
<1>9. Goes(file, "thens", b, n, R, F)
  <2>1. \A x : Body("thens", b, x) = ThenStep(s, x)
    BY <1>2 DEF Body
  <2>2. \A x : Wrong(file, x) => Wrong(file, Body("thens", b, x).made)
    BY <2>1, ThenStepWrong
  <2> QED BY <1>8, <2>2 DEF Goes
<1>10. first \in R
  BY <1>4, <1>5, <1>7
<1>11. Wrong(file, g[n].made) \/ g[n].made \in F
  <2>1. "thens" \in {"thens", "elifs", "top"}
    OBVIOUS
  <2> QED BY <1>3, <1>9, <1>10, <2>1, LoopGoes, Zenon
<1> QED BY <1>3, <1>6, <1>11

LEMMA LineToken ==
  ASSUME NEW file, NEW s, NEW a, NEW d, Parsing(file, s, a, d), NEW k \in 1 .. Len(file) + 1
  PROVE  s[a[k]].kind = KindOf(file, k) /\ s[a[k]].line = k
<1>1. s[a[k]] = Token(KindOf(file, k), k)
  BY DEF Parsing, Layout, Placed
<1> QED BY <1>1 DEF Token

LEMMA KindsOf ==
  ASSUME NEW file, NEW s, NEW a, NEW d, Parsing(file, s, a, d), NEW k \in 1 .. Len(file) + 1
  PROVE  /\ KindOf(file, k) \in LineKind \union {"EOF"}
         /\ k \in 1 .. Len(file) => KindOf(file, k) = file[k].kind /\ file[k].kind \in LineKind
         /\ k = Len(file) + 1 => KindOf(file, k) = "EOF"
<1>1. PICK N \in Nat : N = Len(file)
  BY ParsingParts
<1>2. \A i \in 1 .. N : file[i].kind \in LineKind
  BY <1>1, ParsingParts
<1>3. k \in 1 .. N \/ k = N + 1
  BY <1>1
<1> QED BY <1>1, <1>2, <1>3 DEF KindOf

(* A branch and its actions, as they are read declaratively.               *)
BranchOf(file, n) == [kind |-> file[n].kind, line |-> n, thens |-> BlockInOrder(file, n)]

LEMMA BranchFits ==
  ASSUME NEW file, NEW s, NEW a, NEW d, Parsing(file, s, a, d), NEW h, BranchLine(file, d, h),
         NEW m, BranchEnd(file, d, h, m)
  PROVE  /\ h + 1 \in Block(file, h) /\ h + 1 \in 1 .. m
         /\ InOrder(Block(file, h), m) = BlockInOrder(file, h)
         /\ \A i \in h .. m : LineFits(file, i)
<1>1. PICK N \in Nat : N = Len(file) /\ file \in Seq(Line)
  BY ParsingParts
<1>2. \A k \in 0 .. N + 1 : d[k] \in Nat /\ a[k] \in Nat
  BY <1>1, ParsingParts
<1>3. /\ h \in 1 .. N /\ m \in h + 1 .. N /\ h + 1 \in h + 1 .. m
      /\ d[h] = 2 /\ file[h].kind \in BranchKinds
      /\ \A i \in h + 1 .. m : d[i] = 3 /\ file[i].kind = "then"
      /\ d[m + 1] <= 2 /\ m + 1 \in 0 .. N + 1
  BY <1>1 DEF BranchLine, BranchEnd, ThensTo
<1>4. h + 1 \in Block(file, h)
  <2>1. h \in 1 .. Len(file) /\ h + 1 \in h + 1 .. Len(file) /\ h + 1 .. (h + 1) - 1 = {}
        /\ d[h + 1] = d[h] + 1
    BY <1>1, <1>3
  <2> QED BY <2>1, JoinsBlock
<1>5. \A i \in Block(file, h) : i \in h + 1 .. m
  <2>1. h \in 1 .. Len(file) /\ m \in h .. Len(file) /\ d[m + 1] <= d[h]
    BY <1>1, <1>3
  <2> QED BY <2>1, BlockEnds
<1>6. InOrder(Block(file, h), m) = BlockInOrder(file, h)
  <2>1. m \in Nat /\ m <= N /\ \A i \in m + 1 .. N : i \notin Block(file, h)
    BY <1>3, <1>5
  <2>2. InOrder(Block(file, h), N) = InOrder(Block(file, h), m)
    BY <2>1, InOrderSkips
  <2> QED BY <1>1, <2>2 DEF BlockInOrder
<1>7. LineFits(file, h)
  BY <1>3, <1>4, <1>5, Fits
<1>8. ASSUME NEW i \in h + 1 .. m
      PROVE  LineFits(file, i)
  <2>1. i \in 1 .. Len(file) /\ d[i] = 3 /\ file[i].kind = "then" /\ i + 1 \in 0 .. N + 1
    BY <1>1, <1>3
  <2>2. d[i + 1] <= 3
    <3>1. i = m \/ i + 1 \in h + 1 .. m
      BY <1>3
    <3>2. d[i + 1] \in Nat
      BY <1>2, <2>1
    <3> QED BY <1>3, <3>1, <3>2
  <2>3. Block(file, i) = {}
    BY <2>1, <2>2, NoBlock
  <2> QED BY <2>1, <2>3, Fits
<1>9. \A i \in h .. m : i = h \/ i \in h + 1 .. m
  BY <1>3
<1>10. h + 1 \in 1 .. m
  BY <1>3
<1> QED BY <1>4, <1>6, <1>7, <1>8, <1>9, <1>10

LEMMA BranchParsed ==
  ASSUME NEW file, NEW s, NEW a, NEW d, Parsing(file, s, a, d), NEW h, BranchLine(file, d, h),
         NEW im, NEW got, NEW p, p = Reading(a[h], {}, im, got), NEW branches
  PROVE  \/ Wrong(file, ParseBranch(s, p, branches))
         \/ \E m : /\ BranchEnd(file, d, h, m)
                   /\ ParseBranch(s, p, branches)
                        = Reading(Spot(a, d, m, 2), {}, im, Append(branches, BranchOf(file, h)))
<1>1. PICK N \in Nat : N = Len(file) /\ file \in Seq(Line)
  BY ParsingParts
<1>2. /\ \A k \in 0 .. N + 1 : d[k] \in Nat /\ a[k] \in Nat
      /\ \A k \in 1 .. N : file[k].kind \in LineKind
  BY <1>1, ParsingParts
<1>3. h \in 1 .. N /\ h \in 0 .. Len(file) /\ h + 1 \in 1 .. N + 1 /\ h \in 0 .. N + 1
      /\ d[h] = 2 /\ file[h].kind \in BranchKinds
  BY <1>1 DEF BranchLine
<1>4. Len(s) \in Nat
  BY <1>1, <1>3, Ascending
<1>5. s[p.at].kind = file[h].kind /\ s[p.at].line = h
  <2>1. h \in 1 .. Len(file) + 1 /\ h \in 1 .. Len(file)
    BY <1>1, <1>3
  <2>2. p.at = a[h]
    BY ReadingParts
  <2> QED BY <2>1, <2>2, LineToken, KindsOf
<1>6. PICK t : t = Step(p)
  OBVIOUS
<1>7. t = Reading(a[h] + 1, {}, im, got)
  <2>1. On(s, p, a[h], {}, im, got)
    BY ReadingOn, Zenon
  <2> QED BY <1>6, <2>1 DEF On
<1>8. On(s, t, a[h] + 1, {}, im, got)
  BY <1>7, ReadingOn, Zenon
<1>9. PICK e, q : e = Expect(s, "INDENT", t) /\ q = ParseThens(s, e)
  OBVIOUS
<1>10. ParseBranch(s, p, branches) = EndBranch(s, s[p.at], q, branches)
  BY <1>6, <1>9 DEF ParseBranch
<1>11. CASE d[h + 1] <= 2
  <2>1. Spot(a, d, h, 2) = a[h] + 1
    BY <1>2, <1>3 DEF Spot
  <2>2. s[a[h] + 1].kind # "INDENT"
    <3>1. 2 \in Nat /\ 2 <= d[h]
      BY <1>3
    <3>2. \/ s[a[h] + 1] = Token(KindOf(file, h + 1), h + 1)
          \/ s[a[h] + 1].kind = "DEDENT"
      BY <1>3, <1>11, <2>1, <3>1, SpotKinds
    <3>3. KindOf(file, h + 1) # "INDENT"
      <4>1. KindOf(file, h + 1) \in LineKind \union {"EOF"}
        BY <1>1, <1>3, KindsOf
      <4> QED BY <4>1 DEF LineKind
    <3> QED BY <3>2, <3>3 DEF Token
  <2>3. e = Report(s, t)
    BY <1>8, <1>9, <2>2 DEF Expect, On
  <2>4. ~ WellFormed(file)
    <3>1. Block(file, h) = {}
      BY <1>1, <1>3, <1>11, NoBlock
    <3>2. ~ LineFits(file, h) /\ h \in 1 .. Len(file)
      BY <1>1, <1>3, <3>1, Fits
    <3> QED BY <3>2, Misfit
  <2>5. Wrong(file, e)
    BY <1>7, <2>3, <2>4, ReportWrong
  <2>6. Wrong(file, q)
    BY <1>4, <1>9, <2>5, ThensWrong
  <2> QED BY <1>10, <2>6, EndBranchWrong
<1>12. CASE ~ (d[h + 1] <= 2)
  <2>1. ~ (d[h + 1] <= d[h])
    BY <1>3, <1>12
  <2>2. d[h + 1] = 3 /\ s[a[h] + 1].kind = "INDENT" /\ a[h + 1] = a[h] + 2
    BY <1>3, <2>1, IndentKinds
  <2>3. e = Step(t)
    BY <1>8, <1>9, <2>2 DEF Expect, On
  <2>4. e = Reading(a[h + 1], {}, im, got)
    <3>1. (a[h] + 1) + 1 = a[h + 1]
      BY <1>2, <1>3, <2>2
    <3> QED BY <1>8, <2>3, <3>1 DEF On
  <2>5. CASE Wrong(file, q)
    BY <1>10, <2>5, EndBranchWrong
  <2>6. CASE ~ Wrong(file, q)
    <3>1. PICK m : BranchEnd(file, d, h, m) /\ q = ThensRead(file, a, im, h, m)
      BY <1>9, <2>2, <2>4, <2>6, ThensParsed
    <3>2. /\ h + 1 \in Block(file, h) /\ h + 1 \in 1 .. m
          /\ InOrder(Block(file, h), m) = BlockInOrder(file, h)
      BY <3>1, BranchFits
    <3>3. PICK l : l = BlockInOrder(file, h)
      OBVIOUS
    <3>4. l # <<>>
      <4>1. m \in Nat
        BY <1>3, <3>1 DEF BranchEnd, ThensTo
      <4>2. Lists(l, Block(file, h), m)
        BY <3>2, <3>3, <4>1, InOrderLists
      <4>3. PICK i \in DOMAIN l : l[i] = h + 1
        BY <3>2, <4>2 DEF Lists
      <4>4. DOMAIN <<>> = {}
        OBVIOUS
      <4> QED BY <4>3, <4>4
    <3>5. /\ m \in 0 .. Len(file) /\ m \in 0 .. N + 1 /\ m # h /\ d[m] = 3 /\ d[m + 1] <= 2
          /\ m + 1 \in 0 .. N + 1
      <4>1. m \in h + 1 .. N /\ m \in h + 1 .. m /\ d[m + 1] <= 2
        BY <1>1, <1>3, <3>1 DEF BranchEnd, ThensTo
      <4> QED BY <1>1, <1>3, <3>1, <4>1 DEF BranchEnd, ThensTo
    <3>6. q = Reading(a[m] + 1, {}, im, l)
      BY <3>1, <3>2, <3>3, <3>5 DEF ThensRead, ThensAt
    <3>7. q.got = l /\ On(s, q, a[m] + 1, {}, im, l)
      BY <3>6, ReadingParts, ReadingOn
    <3>8. s[a[m] + 1].kind = "DEDENT"
      <4>1. 3 \in Nat /\ d[m + 1] <= 3 /\ 3 <= d[m] /\ 3 # d[m + 1]
        BY <1>2, <3>5
      <4>2. Spot(a, d, m, 3) = a[m] + 1
        BY <1>2, <3>5 DEF Spot
      <4> QED BY <3>5, <4>1, <4>2, SpotKinds
    <3>9. PICK f : f = Expect(s, "DEDENT", q)
      OBVIOUS
    <3>10. f = Reading(Spot(a, d, m, 2), {}, im, l)
      <4>1. f = Reading((a[m] + 1) + 1, {}, im, l)
        BY <3>7, <3>8, <3>9 DEF Expect, On
      <4>2. (a[m] + 1) + 1 = Spot(a, d, m, 2)
        BY <1>2, <3>5 DEF Spot
      <4> QED BY <4>1, <4>2
    <3>11. PICK r : r = Append(branches, BranchOf(file, h))
      OBVIOUS
    <3>12. EndBranch(s, s[p.at], q, branches) = [f EXCEPT !.got = r]
      <4>1. r = Append(branches, [kind |-> s[p.at].kind, line |-> s[p.at].line, thens |-> q.got])
        BY <1>5, <3>3, <3>7, <3>11 DEF BranchOf
      <4> QED BY <3>4, <3>7, <3>9, <4>1 DEF EndBranch
    <3>13. With(f, Spot(a, d, m, 2), {}, im, l, r)
      BY <3>10, ReadingWith, Zenon
    <3>14. [f EXCEPT !.got = r] = Reading(Spot(a, d, m, 2), {}, im, r)
      BY <3>13 DEF With
    <3> QED BY <1>10, <3>1, <3>11, <3>12, <3>14
  <2> QED BY <2>5, <2>6
<1> QED BY <1>11, <1>12

-----------------------------------------------------------------------------
(* What is listed up to a line is listed first.                            *)
Begins(q, r) == \A i \in 1 .. Len(q) : i \in 1 .. Len(r) /\ r[i] = q[i]

LEMMA InOrderBegins ==
  ASSUME NEW S, NEW m \in Nat, NEW n \in Nat, m <= n
  PROVE  Begins(InOrder(S, m), InOrder(S, n))
<1> DEFINE T == {k \in Nat : m + k <= n => Begins(InOrder(S, m), InOrder(S, m + k))}
<1>1. 0 \in T
  <2>1. m + 0 = m
    OBVIOUS
  <2>2. Begins(InOrder(S, m), InOrder(S, m))
    BY DEF Begins
  <2> QED BY <2>1, <2>2
<1>2. ASSUME NEW k \in Nat, k \in T
      PROVE  k + 1 \in T
  <2>1. ASSUME m + (k + 1) <= n
        PROVE  Begins(InOrder(S, m), InOrder(S, m + (k + 1)))
    <3>1. PICK j \in Nat \ {0} : j = m + (k + 1) /\ j - 1 = m + k /\ j - 1 <= n /\ j - 1 \in Nat
      BY <2>1
    <3>2. PICK p, q, r : p = InOrder(S, m) /\ q = InOrder(S, j - 1) /\ r = InOrder(S, j)
      OBVIOUS
    <3>3. Begins(p, q)
      BY <1>2, <3>1, <3>2
    <3>4. r = IF j \in S THEN Append(q, j) ELSE q
      BY <3>2, InOrderSteps
    <3>5. q \in Seq(1 .. j - 1)
      BY <3>1, <3>2, InOrderLists DEF Lists
    <3>6. Begins(q, r)
      <4>1. CASE r = q
        BY <4>1 DEF Begins
      <4>2. CASE r = Append(q, j)
        BY <3>5, <4>2 DEF Begins
      <4> QED BY <3>4, <4>1, <4>2
    <3>7. Begins(p, r)
      BY <3>3, <3>6 DEF Begins
    <3> QED BY <3>1, <3>2, <3>7
  <2> QED BY <2>1
<1>3. \A k \in Nat : k \in T => k + 1 \in T
  BY <1>2
<1> HIDE DEF T
<1>4. n - m \in T /\ m + (n - m) = n
  <2>1. n - m \in Nat /\ m + (n - m) = n
    OBVIOUS
  <2> QED BY <1>1, <1>3, <2>1, Successors
<1> QED BY <1>4 DEF T

LEMMA InOrderSeq ==
  ASSUME NEW S, NEW n \in Nat
  PROVE  InOrder(S, n) \in Seq(Nat) /\ Len(InOrder(S, n)) \in Nat
<1>1. InOrder(S, n) \in Seq(1 .. n)
  BY InOrderLists DEF Lists
<1>2. \A i \in 1 .. n : i \in Nat
  OBVIOUS
<1> QED BY <1>1, <1>2

(* The branches and the rules of a list of lines.                          *)
BranchesOf(file, q) == [b \in DOMAIN q |-> BranchOf(file, q[b])]

KindsOn(file, q) == [i \in DOMAIN q |-> file[q[i]].kind]

LEMMA OneMore ==
  ASSUME NEW q \in Seq(Nat), NEW n \in Nat, NEW r, r = Append(q, n)
  PROVE  /\ r \in Seq(Nat) /\ Len(r) = Len(q) + 1 /\ Len(q) \in Nat
         /\ DOMAIN r = 1 .. Len(q) + 1 /\ DOMAIN q = 1 .. Len(q)
         /\ r[Len(q) + 1] = n /\ \A i \in 1 .. Len(q) : r[i] = q[i]
OBVIOUS

(* A list of what is made of each of some numbers.                         *)
LEMMA MoreMade ==
  ASSUME NEW q \in Seq(Nat), NEW n \in Nat, NEW r, r = Append(q, n),
         NEW f, NEW u, NEW v,
         u = [i \in DOMAIN q |-> f[q[i]]], v = [i \in DOMAIN r |-> f[r[i]]]
  PROVE  v = Append(u, f[n])
<1>1. PICK l \in Nat : l = Len(q)
  OBVIOUS
<1>2. /\ DOMAIN r = 1 .. l + 1 /\ DOMAIN q = 1 .. l /\ r[l + 1] = n
      /\ \A i \in 1 .. l : r[i] = q[i]
  BY <1>1, OneMore
<1>3. PICK A : \A i \in Nat : f[i] \in A
  <2>1. \A i \in Nat : f[i] \in {f[j] : j \in Nat}
    OBVIOUS
  <2> QED BY <2>1
<1>4. u \in Seq(A) /\ Len(u) = l /\ \A i \in 1 .. l : u[i] = f[q[i]]
  <2>1. \A i \in 1 .. l : q[i] \in Nat
    BY <1>1
  <2> QED BY <1>2, <1>3, <2>1
<1>5. PICK w : w = Append(u, f[n])
  OBVIOUS
<1>6. /\ w \in Seq(A) /\ Len(w) = l + 1 /\ w[l + 1] = f[n] /\ \A i \in 1 .. l : w[i] = u[i]
  BY <1>3, <1>4, <1>5
<1>7. w = [i \in 1 .. l + 1 |-> w[i]]
  BY <1>6
<1>8. ASSUME NEW i \in 1 .. l + 1
      PROVE  v[i] = w[i]
  <2>1. v[i] = f[r[i]]
    BY <1>2
  <2>2. CASE i = l + 1
    BY <1>2, <1>6, <2>1, <2>2
  <2>3. CASE i # l + 1
    <3>1. i \in 1 .. l
      BY <2>3
    <3> QED BY <1>2, <1>4, <1>6, <2>1, <3>1
  <2> QED BY <2>2, <2>3
<1>9. v = [i \in 1 .. l + 1 |-> v[i]]
  BY <1>2
<1>10. v = w
  BY <1>7, <1>8, <1>9
<1> QED BY <1>5, <1>10

LEMMA MoreBranches ==
  ASSUME NEW file, NEW q \in Seq(Nat), NEW n \in Nat
  PROVE  /\ BranchesOf(file, Append(q, n)) = Append(BranchesOf(file, q), BranchOf(file, n))
         /\ KindsOn(file, Append(q, n)) = Append(KindsOn(file, q), file[n].kind)
<1>1. PICK r : r = Append(q, n)
  OBVIOUS
<1>2. r \in Seq(Nat)
  BY <1>1, OneMore
<1>3. BranchesOf(file, r) = Append(BranchesOf(file, q), BranchOf(file, n))
  <2>1. PICK f : f = [i \in Nat |-> BranchOf(file, i)]
    OBVIOUS
  <2>2. BranchesOf(file, q) = [i \in DOMAIN q |-> f[q[i]]]
    BY <2>1 DEF BranchesOf
  <2>3. BranchesOf(file, r) = [i \in DOMAIN r |-> f[r[i]]]
    BY <1>2, <2>1 DEF BranchesOf
  <2>4. BranchesOf(file, r) = Append(BranchesOf(file, q), f[n])
    BY <1>1, <2>2, <2>3, MoreMade
  <2> QED BY <2>1, <2>4
<1>4. KindsOn(file, r) = Append(KindsOn(file, q), file[n].kind)
  <2>1. PICK f : f = [i \in Nat |-> file[i].kind]
    OBVIOUS
  <2>2. KindsOn(file, q) = [i \in DOMAIN q |-> f[q[i]]]
    BY <2>1 DEF KindsOn
  <2>3. KindsOn(file, r) = [i \in DOMAIN r |-> f[r[i]]]
    BY <1>2, <2>1 DEF KindsOn
  <2>4. KindsOn(file, r) = Append(KindsOn(file, q), f[n])
    BY <1>1, <2>2, <2>3, MoreMade
  <2> QED BY <2>1, <2>4
<1> QED BY <1>1, <1>3, <1>4

-----------------------------------------------------------------------------
(* The branches of a rule.                                                 *)
RuleHead(file, d, r) == r \in 1 .. Len(file) /\ d[r] = 1 /\ file[r].kind = "rule"

InRule(file, d, r, m) ==
  m \in r .. Len(file) /\ \A i \in r + 1 .. m : 2 <= d[i] /\ LineFits(file, i)

BranchesRead(file, a, d, im, r, m) ==
  Reading(Spot(a, d, m, 2), {}, im, BranchesOf(file, InOrder(Block(file, r), m)))

Further(file, a, d, r, m, to) ==
  /\ InRule(file, d, r, to) /\ to # r /\ d[to + 1] <= 2 /\ m + 1 \in Block(file, r)
  /\ InOrder(Block(file, r), to) = Append(InOrder(Block(file, r), m), m + 1)
  /\ Spot(a, d, to, 2) > a[m + 1]

LEMMA BranchFurther ==
  ASSUME NEW file, NEW s, NEW a, NEW d, Parsing(file, s, a, d), NEW r, RuleHead(file, d, r),
         NEW m, InRule(file, d, r, m), BranchLine(file, d, m + 1), NEW to, BranchEnd(file, d, m + 1, to)
  PROVE  Further(file, a, d, r, m, to)
<1>1. PICK N \in Nat : N = Len(file) /\ file \in Seq(Line)
  BY ParsingParts
<1>2. \A k \in 0 .. N + 1 : d[k] \in Nat /\ a[k] \in Nat
  BY <1>1, ParsingParts
<1>3. /\ r \in 1 .. N /\ m \in r .. N /\ m + 1 \in 1 .. N /\ to \in m + 2 .. N /\ d[m + 1] = 2
      /\ to \in r .. Len(file) /\ to # r /\ to + 1 \in 0 .. N + 1
      /\ d[r] = 1 /\ d[to + 1] <= 2
      /\ \A i \in m + 2 .. to : d[i] = 3
  <2>1. r \in 1 .. N /\ m \in r .. N /\ m + 1 \in 1 .. N /\ to \in m + 1 .. N /\ to # m + 1
        /\ d[m + 1] = 2 /\ d[r] = 1 /\ d[to + 1] <= 2
    BY <1>1 DEF RuleHead, InRule, BranchLine, BranchEnd, ThensTo
  <2>2. to \in m + 2 .. N /\ to \in r .. Len(file) /\ to # r /\ to + 1 \in 0 .. N + 1
        /\ \A i \in m + 2 .. to : i \in (m + 1) + 1 .. to
    BY <1>1, <2>1
  <2>3. \A i \in m + 2 .. to : d[i] = 3
    BY <2>2 DEF BranchEnd, ThensTo
  <2> QED BY <2>1, <2>2, <2>3
<1>4. m + 1 \in Block(file, r)
  <2>1. r \in 1 .. Len(file) /\ m + 1 \in r + 1 .. Len(file) /\ r + 1 .. (m + 1) - 1 = r + 1 .. m
        /\ d[m + 1] = d[r] + 1
    BY <1>1, <1>3
  <2>2. ASSUME NEW i \in r + 1 .. m
        PROVE  d[r] < d[i]
    <3>1. 2 <= d[i] /\ i \in 0 .. N + 1
      BY <1>1, <1>3 DEF InRule
    <3>2. d[i] \in Nat
      BY <1>2, <3>1
    <3> QED BY <1>3, <3>1, <3>2
  <2> QED BY <2>1, <2>2, JoinsBlock
<1>5. \A i \in m + 1 .. to : LineFits(file, i)
  BY BranchFits
<1>6. InRule(file, d, r, to)
  <2>1. ASSUME NEW i \in r + 1 .. to
        PROVE  2 <= d[i] /\ LineFits(file, i)
    <3>1. CASE i \in r + 1 .. m
      BY <3>1 DEF InRule
    <3>2. CASE i = m + 1
      <4>1. i \in m + 1 .. to
        BY <1>3, <3>2
      <4> QED BY <1>3, <1>5, <3>2, <4>1
    <3>3. CASE i \in m + 2 .. to
      <4>1. i \in m + 1 .. to
        BY <1>3, <3>3
      <4> QED BY <1>3, <1>5, <3>3, <4>1
    <3> QED BY <1>3, <3>1, <3>2, <3>3
  <2> QED BY <1>3, <2>1 DEF InRule
<1>7. InOrder(Block(file, r), to) = Append(InOrder(Block(file, r), m), m + 1)
  <2>1. \A i \in (m + 1) + 1 .. to : i \notin Block(file, r)
    <3>1. \A i \in Block(file, r) : d[i] = 2
      BY <1>1, <1>3, BlockLevels
    <3>2. \A i \in (m + 1) + 1 .. to : i \in m + 2 .. to
      BY <1>3
    <3> QED BY <1>3, <3>1, <3>2
  <2>2. m + 1 \in Nat /\ to \in Nat /\ m + 1 <= to /\ m \in Nat
    BY <1>3
  <2>3. InOrder(Block(file, r), to) = InOrder(Block(file, r), m + 1)
    BY <2>1, <2>2, InOrderSkips
  <2>4. InOrder(Block(file, r), m + 1) = Append(InOrder(Block(file, r), m), m + 1)
    BY <1>4, <2>2, InOrderJoin
  <2> QED BY <2>3, <2>4
<1>8. Spot(a, d, to, 2) > a[m + 1]
  <2>1. /\ to \in m + 2 .. to /\ to \in 0 .. N + 1 /\ m + 1 \in 0 .. N + 1
        /\ to \in 0 .. Len(file) + 1 /\ m + 1 \in 0 .. to
    BY <1>1, <1>3
  <2>2. d[to] = 3
    BY <1>3, <2>1
  <2>3. a[m + 1] <= a[to]
    BY <2>1, Climbing
  <2>4. a[m + 1] \in Nat /\ a[to] \in Nat
    BY <1>2, <2>1
  <2>5. Spot(a, d, to, 2) = a[to] + 2
    BY <2>2, <2>4 DEF Spot
  <2> QED BY <2>3, <2>4, <2>5
<1> QED BY <1>3, <1>4, <1>6, <1>7, <1>8 DEF Further

(* One more branch is read.                                                *)
BranchMore(file, a, d, im, r, m, y) ==
  \/ Wrong(file, y)
  \/ \E to : Further(file, a, d, r, m, to) /\ y = BranchesRead(file, a, d, im, r, to)

LEMMA BranchNext ==
  ASSUME NEW file, NEW s, NEW a, NEW d, Parsing(file, s, a, d), NEW r, RuleHead(file, d, r),
         NEW m, InRule(file, d, r, m), BranchLine(file, d, m + 1), NEW im, NEW got,
         NEW p, p = Reading(a[m + 1], {}, im, got),
         NEW branches, branches = BranchesOf(file, InOrder(Block(file, r), m))
  PROVE  BranchMore(file, a, d, im, r, m, ParseBranch(s, p, branches))
<1>1. PICK y : y = ParseBranch(s, p, branches)
  OBVIOUS
<1>2. CASE Wrong(file, y)
  BY <1>1, <1>2 DEF BranchMore
<1>3. CASE ~ Wrong(file, y)
  <2>1. PICK h : h = m + 1
    OBVIOUS
  <2>2. PICK to : /\ BranchEnd(file, d, h, to)
                  /\ y = Reading(Spot(a, d, to, 2), {}, im, Append(branches, BranchOf(file, h)))
    BY <1>1, <1>3, <2>1, BranchParsed
  <2>3. Further(file, a, d, r, m, to)
    BY <2>1, <2>2, BranchFurther
  <2>4. PICK q : q = InOrder(Block(file, r), m)
    OBVIOUS
  <2>5. m \in Nat /\ h \in Nat
    <3>1. Len(file) \in Nat /\ m \in r .. Len(file) /\ r \in 1 .. Len(file)
      BY ParsingParts DEF InRule, RuleHead
    <3> QED BY <2>1, <3>1
  <2>6. q \in Seq(Nat)
    BY <2>4, <2>5, InOrderSeq
  <2>7. BranchesOf(file, Append(q, h)) = Append(branches, BranchOf(file, h))
    BY <2>4, <2>5, <2>6, MoreBranches
  <2>8. y = BranchesRead(file, a, d, im, r, to)
    BY <2>1, <2>2, <2>3, <2>4, <2>7 DEF BranchesRead, Further
  <2> QED BY <1>1, <2>3, <2>8 DEF BranchMore
<1> QED BY <1>2, <1>3

-----------------------------------------------------------------------------
(* The kinds of the branches read so far.                                  *)
SoFar(file, r, m) == KindsOn(file, InOrder(Block(file, r), m))

OnlyElifs(k) == Len(k) >= 1 /\ k[1] = "when" /\ \A i \in 2 .. Len(k) : k[i] = "elif"

WithElse(k) ==
  /\ Len(k) >= 2 /\ k[1] = "when" /\ k[Len(k)] = "else"
  /\ \A i \in 2 .. Len(k) - 1 : k[i] = "elif"

LEMMA Lengthened ==
  ASSUME NEW A, NEW k \in Seq(A), NEW x \in A
  PROVE  /\ k = <<>> /\ x = "when" => OnlyElifs(Append(k, x))
         /\ OnlyElifs(k) /\ x = "elif" => OnlyElifs(Append(k, x))
         /\ OnlyElifs(k) /\ x = "else" => WithElse(Append(k, x))
<1>0. PICK l \in Nat : l = Len(k)
  OBVIOUS
<1>1. PICK t : l = Len(k) /\ t = Append(k, x)
  BY <1>0
<1>2. Len(t) = l + 1 /\ t[l + 1] = x /\ \A i \in 1 .. l : t[i] = k[i]
  BY <1>1
<1>3. k = <<>> => l = 0
  BY <1>1
<1> QED BY <1>1, <1>2, <1>3 DEF OnlyElifs, WithElse

LEMMA BranchLists ==
  ASSUME NEW k
  PROVE  /\ OnlyElifs(k) /\ Len(k) \in Nat => IsBranchList(k)
         /\ WithElse(k) /\ Len(k) \in Nat => IsBranchList(k)
<1>1. Len(k) >= 1 => k # <<>>
  OBVIOUS
<1>2. ASSUME OnlyElifs(k)
      PROVE  IsBranchList(k)
  BY <1>1, <1>2 DEF OnlyElifs, IsBranchList
<1>3. ASSUME WithElse(k), Len(k) \in Nat
      PROVE  IsBranchList(k)
  <2>1. Len(k) >= 1
    BY <1>3 DEF WithElse
  <2>2. \A i \in 2 .. Len(k) : i = Len(k) \/ i \in 2 .. Len(k) - 1
    BY <1>3
  <2>3. \A i \in 2 .. Len(k) : k[i] = "elif" \/ (k[i] = "else" /\ i = Len(k))
    BY <1>3, <2>2 DEF WithElse
  <2> QED BY <1>1, <1>3, <2>1, <2>3 DEF WithElse, IsBranchList
<1> QED BY <1>2, <1>3

LEMMA KindsLen ==
  ASSUME NEW file, NEW q \in Seq(Nat)
  PROVE  /\ Len(KindsOn(file, q)) = Len(q) /\ KindsOn(file, q) \in Seq({file[i].kind : i \in Nat})
         /\ \A i \in 1 .. Len(q) : KindsOn(file, q)[i] = file[q[i]].kind
<1>1. PICK l \in Nat : l = Len(q) /\ DOMAIN q = 1 .. l
  OBVIOUS
<1>2. PICK k : k = KindsOn(file, q)
  OBVIOUS
<1>3. k = [i \in 1 .. l |-> file[q[i]].kind]
  BY <1>1, <1>2 DEF KindsOn
<1>4. \A i \in 1 .. l : q[i] \in Nat
  BY <1>1
<1>5. k \in Seq({file[i].kind : i \in Nat}) /\ Len(k) = l
  BY <1>3, <1>4
<1> QED BY <1>1, <1>2, <1>3, <1>5

(* A rule is misfit by one branch in the wrong place.                      *)
LEMMA NotBranches ==
  ASSUME NEW file, Len(file) \in Nat, NEW r \in 1 .. Len(file), file[r].kind = "rule",
         NEW m \in Nat, m <= Len(file), NEW q, q = InOrder(Block(file, r), m),
         NEW j \in 1 .. Len(q),
         \/ j = 1 /\ file[q[j]].kind # "when"
         \/ j > 1 /\ file[q[j]].kind \notin {"elif", "else"}
         \/ j > 1 /\ j < Len(q) /\ file[q[j]].kind = "else"
  PROVE  ~ WellFormed(file)
<1>1. PICK t : t = BlockInOrder(file, r)
  OBVIOUS
<1>2. Begins(q, t)
  BY <1>1, InOrderBegins DEF BlockInOrder
<1>3. t \in Seq(Nat) /\ q \in Seq(Nat)
  BY <1>1, InOrderSeq DEF BlockInOrder
<1>4. PICK l \in Nat, u \in Nat : l = Len(q) /\ u = Len(t)
  BY <1>3
<1>5. j \in 1 .. u /\ t[j] = q[j]
  BY <1>2, <1>4 DEF Begins
<1>6. l <= u
  <2>1. l \in 1 .. l
    BY <1>4
  <2>2. l \in 1 .. u
    BY <1>2, <1>4, <2>1 DEF Begins
  <2> QED BY <1>4, <2>2
<1>7. PICK k : k = KindsIn(file, r)
  OBVIOUS
<1>8. k = KindsOn(file, t)
  BY <1>1, <1>7 DEF KindsIn, KindsOn
<1>9. Len(k) = u /\ k[j] = file[q[j]].kind
  <2>1. /\ Len(k) = Len(t)
        /\ \A i \in 1 .. Len(t) : k[i] = file[t[i]].kind
    BY <1>3, <1>8, KindsLen, Zenon
  <2> QED BY <1>4, <1>5, <2>1, Zenon
<1>10. ~ IsBranchList(k)
  <2>1. ASSUME IsBranchList(k)
        PROVE  FALSE
    <3>1. k[1] = "when" /\ \A i \in 2 .. u : k[i] = "elif" \/ (k[i] = "else" /\ i = u)
      BY <1>9, <2>1 DEF IsBranchList
    <3>2. CASE j = 1
      BY <1>9, <3>1, <3>2
    <3>3. CASE j > 1
      <4>1. j \in 2 .. u
        BY <1>5, <3>3
      <4>2. k[j] = "elif" \/ (k[j] = "else" /\ j = u)
        BY <3>1, <4>1
      <4>3. j = u => ~ (j < l)
        BY <1>4, <1>5, <1>6
      <4> QED BY <1>4, <1>9, <3>3, <4>2, <4>3
    <3>4. j = 1 \/ j > 1
      BY <1>5
    <3> QED BY <3>2, <3>3, <3>4
  <2> QED BY <2>1
<1>11. ~ LineFits(file, r)
  BY <1>7, <1>10, Fits
<1> QED BY <1>11, Misfit

LEMMA RuleRange ==
  ASSUME NEW file, NEW s, NEW a, NEW d, Parsing(file, s, a, d), NEW r, RuleHead(file, d, r),
         NEW m, InRule(file, d, r, m)
  PROVE  /\ Len(file) \in Nat /\ r \in 1 .. Len(file) /\ m \in r .. Len(file) /\ m \in Nat
         /\ r \in Nat /\ m \in 0 .. Len(file) /\ m <= Len(file) /\ m + 1 \in 0 .. Len(file) + 1
         /\ m + 1 \in 1 .. Len(file) + 1 /\ m \in 0 .. Len(file) + 1 /\ r <= m
         /\ d[r] = 1 /\ file[r].kind = "rule"
         /\ d[m] \in Nat /\ d[m + 1] \in Nat /\ d[m + 1] > 0 /\ a[m] \in Nat /\ a[m + 1] \in Nat
         /\ m # r => 2 <= d[m]
<1>1. PICK N \in Nat : N = Len(file)
  BY ParsingParts
<1>2. r \in 1 .. N /\ m \in r .. N /\ d[r] = 1 /\ file[r].kind = "rule"
  BY <1>1 DEF RuleHead, InRule
<1>3. m \in Nat /\ r \in Nat /\ m \in 0 .. N /\ m <= N /\ m + 1 \in 0 .. N + 1 /\ m \in 0 .. N + 1
      /\ r <= m /\ m + 1 \in 1 .. N + 1
  BY <1>2
<1>4. d[m] \in Nat /\ d[m + 1] \in Nat /\ d[m + 1] > 0 /\ a[m] \in Nat /\ a[m + 1] \in Nat
  BY <1>1, <1>3, ParsingParts
<1>5. m # r => m \in r + 1 .. m
  BY <1>3
<1>6. m # r => 2 <= d[m]
  BY <1>5 DEF InRule
<1> QED BY <1>1, <1>2, <1>3, <1>4, <1>6

(* What stands after a branch: another line of the rule's block, or its    *)
(* end.                                                                    *)
Stands(file, s, a, d, r, m) ==
  /\ Spot(a, d, m, 2) \in 1 .. Len(s)
  /\ \/ /\ d[m + 1] = 2 /\ m + 1 \in Block(file, r) /\ m + 1 \in 1 .. Len(file)
        /\ Spot(a, d, m, 2) = a[m + 1] /\ s[Spot(a, d, m, 2)].kind = file[m + 1].kind
     \/ d[m + 1] = 1 /\ s[Spot(a, d, m, 2)].kind = "DEDENT"

LEMMA BranchSpot ==
  ASSUME NEW file, NEW s, NEW a, NEW d, Parsing(file, s, a, d), NEW r, RuleHead(file, d, r),
         NEW m, InRule(file, d, r, m), m # r, d[m + 1] <= 2
  PROVE  Stands(file, s, a, d, r, m)
<1>1. PICK N \in Nat : N = Len(file)
  BY ParsingParts
<1>2. /\ r \in 1 .. N /\ m \in r .. N /\ m \in 0 .. Len(file) /\ m + 1 \in 1 .. N + 1
      /\ d[r] = 1 /\ d[m + 1] \in Nat /\ d[m + 1] > 0 /\ 2 <= d[m]
  BY <1>1, RuleRange
<1>3. 2 \in Nat /\ d[N + 1] = 1
  BY <1>1 DEF Parsing, Layout
<1>4. /\ Spot(a, d, m, 2) \in 1 .. Len(s)
      /\ 2 = d[m + 1] => Spot(a, d, m, 2) = a[m + 1]
                         /\ s[Spot(a, d, m, 2)] = Token(KindOf(file, m + 1), m + 1)
      /\ 2 # d[m + 1] => s[Spot(a, d, m, 2)].kind = "DEDENT"
  BY <1>2, <1>3, SpotKinds
<1>5. CASE d[m + 1] = 1
  BY <1>4, <1>5 DEF Stands
<1>6. CASE d[m + 1] = 2
  <2>1. m + 1 \in 1 .. N
    <3>1. m # N
      BY <1>3, <1>6
    <3> QED BY <1>2, <3>1
  <2>2. s[Spot(a, d, m, 2)].kind = file[m + 1].kind
    <3>1. KindOf(file, m + 1) = file[m + 1].kind
      BY <1>1, <2>1 DEF KindOf
    <3> QED BY <1>4, <1>6, <3>1 DEF Token
  <2>3. m + 1 \in Block(file, r)
    <3>1. r \in 1 .. Len(file) /\ m + 1 \in r + 1 .. Len(file) /\ r + 1 .. (m + 1) - 1 = r + 1 .. m
          /\ d[m + 1] = d[r] + 1
      BY <1>1, <1>2, <1>6, <2>1
    <3>2. ASSUME NEW i \in r + 1 .. m
          PROVE  d[r] < d[i]
      <4>1. 2 <= d[i] /\ i \in 0 .. N + 1
        BY <1>2 DEF InRule
      <4>2. d[i] \in Nat
        BY <1>1, <4>1, ParsingParts
      <4> QED BY <1>2, <4>1, <4>2
    <3> QED BY <3>1, <3>2, JoinsBlock
  <2> QED BY <1>1, <1>4, <1>6, <2>1, <2>2, <2>3 DEF Stands
<1>7. d[m + 1] = 1 \/ d[m + 1] = 2
  BY <1>2
<1> QED BY <1>5, <1>6, <1>7

-----------------------------------------------------------------------------
(* Where a rule stands after its when and some elifs.                      *)
ElifsTo(file, d, r, m) ==
  InRule(file, d, r, m) /\ m # r /\ d[m + 1] <= 2 /\ OnlyElifs(SoFar(file, r, m))

LEMMA FurtherKinds ==
  ASSUME NEW file, NEW s, NEW a, NEW d, Parsing(file, s, a, d), NEW r, RuleHead(file, d, r),
         NEW m, InRule(file, d, r, m), NEW to, Further(file, a, d, r, m, to)
  PROVE  /\ SoFar(file, r, m) = <<>> /\ file[m + 1].kind = "when" => ElifsTo(file, d, r, to)
         /\ OnlyElifs(SoFar(file, r, m)) /\ file[m + 1].kind = "elif" => ElifsTo(file, d, r, to)
         /\ OnlyElifs(SoFar(file, r, m)) /\ file[m + 1].kind = "else" => WithElse(SoFar(file, r, to))
<1>1. m \in Nat /\ m + 1 \in Nat
  BY RuleRange
<1>2. PICK q, k, x : q = InOrder(Block(file, r), m) /\ k = SoFar(file, r, m) /\ x = file[m + 1].kind
  OBVIOUS
<1>3. q \in Seq(Nat)
  BY <1>1, <1>2, InOrderSeq
<1>4. k = KindsOn(file, q)
  BY <1>2 DEF SoFar
<1>5. SoFar(file, r, to) = Append(k, x)
  BY <1>1, <1>2, <1>3, <1>4, MoreBranches DEF Further, SoFar
<1>6. k \in Seq({file[i].kind : i \in Nat}) /\ x \in {file[i].kind : i \in Nat}
  BY <1>1, <1>2, <1>3, <1>4, KindsLen
<1>7. /\ k = <<>> /\ x = "when" => OnlyElifs(Append(k, x))
      /\ OnlyElifs(k) /\ x = "elif" => OnlyElifs(Append(k, x))
      /\ OnlyElifs(k) /\ x = "else" => WithElse(Append(k, x))
  BY <1>6, Lengthened
<1>8. InRule(file, d, r, to) /\ to # r /\ d[to + 1] <= 2
  BY DEF Further
<1> QED BY <1>2, <1>5, <1>7, <1>8 DEF ElifsTo

LEMMA BranchHead ==
  ASSUME NEW file, NEW s, NEW a, NEW d, Parsing(file, s, a, d), NEW r, NEW m,
         Stands(file, s, a, d, r, m), s[Spot(a, d, m, 2)].kind \in BranchKinds
  PROVE  /\ BranchLine(file, d, m + 1) /\ Spot(a, d, m, 2) = a[m + 1]
         /\ file[m + 1].kind = s[Spot(a, d, m, 2)].kind
<1>1. "DEDENT" \notin BranchKinds
  BY DEF BranchKinds
<1>2. /\ d[m + 1] = 2 /\ m + 1 \in 1 .. Len(file) /\ Spot(a, d, m, 2) = a[m + 1]
      /\ s[Spot(a, d, m, 2)].kind = file[m + 1].kind
  BY <1>1 DEF Stands
<1> QED BY <1>2 DEF BranchLine

(* The elifs and the else after the branches up to line m.                 *)
ElifGo(file, s, a, d, im, r, m, x, y) ==
  /\ x.at \in 1 .. Len(s)
  /\ \/ Wrong(file, y.made)
     \/ /\ y.on /\ x.at < y.made.at
        /\ \E to : ElifsTo(file, d, r, to) /\ y.made = BranchesRead(file, a, d, im, r, to)
     \/ ~ y.on /\ s[Spot(a, d, m, 2)].kind # "elif" /\ y.made = x

LEMMA ElifTurn ==
  ASSUME NEW file, NEW s, NEW a, NEW d, Parsing(file, s, a, d), NEW r, RuleHead(file, d, r),
         NEW m, ElifsTo(file, d, r, m), NEW im, NEW x, x = BranchesRead(file, a, d, im, r, m)
  PROVE  ElifGo(file, s, a, d, im, r, m, x, ElifStep(s, x))
<1>1. PICK at, got, y : /\ at = Spot(a, d, m, 2) /\ y = ElifStep(s, x)
                        /\ got = BranchesOf(file, InOrder(Block(file, r), m))
  OBVIOUS
<1>2. x = Reading(at, {}, im, got)
  BY <1>1 DEF BranchesRead
<1>3. x.at = at /\ x.got = got /\ Kind(s, x) = s[at].kind
  BY <1>2, ReadingParts DEF Kind
<1>4. /\ InRule(file, d, r, m) /\ m # r /\ d[m + 1] <= 2 /\ OnlyElifs(SoFar(file, r, m))
  BY DEF ElifsTo
<1>5. Stands(file, s, a, d, r, m)
  BY <1>4, BranchSpot
<1>6. x.at \in 1 .. Len(s)
  BY <1>1, <1>3, <1>5 DEF Stands
<1>7. CASE s[at].kind # "elif"
  <2>1. y = Stopped(x)
    BY <1>1, <1>3, <1>7 DEF ElifStep
  <2> QED BY <1>1, <1>6, <1>7, <2>1, StopGo DEF ElifGo
<1>8. CASE s[at].kind = "elif"
  <2>1. PICK z : z = ParseBranch(s, x, got)
    OBVIOUS
  <2>2. y = Going(z)
    BY <1>1, <1>3, <1>8, <2>1 DEF ElifStep
  <2>3. y.on /\ y.made = z
    BY <2>2, StopGo
  <2>4. "elif" \in BranchKinds
    BY DEF BranchKinds
  <2>5. BranchLine(file, d, m + 1) /\ at = a[m + 1] /\ file[m + 1].kind = "elif"
    BY <1>1, <1>5, <1>8, <2>4, BranchHead
  <2>6. BranchMore(file, a, d, im, r, m, z)
    BY <1>1, <1>2, <1>4, <2>1, <2>5, BranchNext
  <2>7. ASSUME NEW to, Further(file, a, d, r, m, to), z = BranchesRead(file, a, d, im, r, to)
        PROVE  ElifsTo(file, d, r, to) /\ x.at < z.at
    <3>1. ElifsTo(file, d, r, to)
      BY <1>4, <2>5, <2>7, FurtherKinds
    <3>2. z.at = Spot(a, d, to, 2)
      BY <2>7, ReadingParts DEF BranchesRead
    <3>3. Spot(a, d, to, 2) > a[m + 1]
      BY <2>7 DEF Further
    <3> QED BY <1>3, <2>5, <3>1, <3>2, <3>3
  <2> QED BY <1>1, <1>6, <2>3, <2>6, <2>7 DEF BranchMore, ElifGo
<1> QED BY <1>7, <1>8

ElifsDone(file, s, a, d, im, r, y) ==
  \/ Wrong(file, y)
  \/ \E m : /\ ElifsTo(file, d, r, m) /\ s[Spot(a, d, m, 2)].kind # "elif"
            /\ y = BranchesRead(file, a, d, im, r, m)

LEMMA ElifsParsed ==
  ASSUME NEW file, NEW s, NEW a, NEW d, Parsing(file, s, a, d), NEW r, RuleHead(file, d, r),
         NEW from, ElifsTo(file, d, r, from), NEW im,
         NEW p, p = BranchesRead(file, a, d, im, r, from)
  PROVE  ElifsDone(file, s, a, d, im, r, ParseElifs(s, p))
<1>1. PICK n \in Nat : n = Len(s)
  <2>1. 0 \in 0 .. Len(file) + 1
    BY ParsingParts
  <2> QED BY <2>1, Ascending
<1>2. PICK b : b = [s |-> s]
  OBVIOUS
<1>3. PICK g : Recurs(g, "elifs", b, Going(p), n) /\ ParseElifs(s, p) = g[n].made
  BY <1>1, <1>2, ElifsLoop
<1>4. \A m : ElifsTo(file, d, r, m) => m \in Nat
  <2>1. ASSUME NEW m, ElifsTo(file, d, r, m)
        PROVE  m \in Nat
    <3>1. InRule(file, d, r, m)
      BY <2>1 DEF ElifsTo
    <3> QED BY <3>1, RuleRange
  <2> QED BY <2>1
<1>5. PICK R : R = {BranchesRead(file, a, d, im, r, m) : m \in {m \in Nat : ElifsTo(file, d, r, m)}}
  OBVIOUS
<1>6. PICK F : F = {BranchesRead(file, a, d, im, r, m) :
                      m \in {m \in Nat : /\ ElifsTo(file, d, r, m)
                                         /\ s[Spot(a, d, m, 2)].kind # "elif"}}
  OBVIOUS
<1>7. ASSUME NEW x \in R
      PROVE  /\ x.at \in 1 .. n
             /\ \/ Wrong(file, Body("elifs", b, x).made)
                \/ /\ Body("elifs", b, x).on /\ Body("elifs", b, x).made \in R
                   /\ x.at < Body("elifs", b, x).made.at
                \/ ~ Body("elifs", b, x).on /\ Body("elifs", b, x).made \in F
  <2>1. PICK m \in Nat : ElifsTo(file, d, r, m) /\ x = BranchesRead(file, a, d, im, r, m)
    BY <1>5
  <2>2. PICK y : y = ElifStep(s, x) /\ y = Body("elifs", b, x)
    BY <1>2 DEF Body
  <2>3. ElifGo(file, s, a, d, im, r, m, x, y)
    BY <2>1, <2>2, ElifTurn, Zenon
  <2>4. \A to : ElifsTo(file, d, r, to) => BranchesRead(file, a, d, im, r, to) \in R
    BY <1>4, <1>5
  <2>5. s[Spot(a, d, m, 2)].kind # "elif" => x \in F
    BY <1>6, <2>1
  <2> QED BY <1>1, <2>2, <2>3, <2>4, <2>5 DEF ElifGo
<1>8. Goes(file, "elifs", b, n, R, F)
  <2>1. \A x : Body("elifs", b, x) = ElifStep(s, x)
    BY <1>2 DEF Body
  <2>2. \A x : Wrong(file, x) => Wrong(file, Body("elifs", b, x).made)
    BY <1>1, <2>1, ElifStepWrong
  <2> QED BY <1>7, <2>2 DEF Goes
<1>9. p \in R
  BY <1>4, <1>5
<1>10. Wrong(file, g[n].made) \/ g[n].made \in F
  <2>1. "elifs" \in {"thens", "elifs", "top"}
    OBVIOUS
  <2> QED BY <1>3, <1>8, <1>9, <2>1, LoopGoes, Zenon
<1> QED BY <1>3, <1>6, <1>10 DEF ElifsDone

(* All the branches of a rule are read.                                    *)
RuleTo(file, s, a, d, r, m) ==
  /\ InRule(file, d, r, m) /\ m # r /\ d[m + 1] <= 2
  /\ \/ OnlyElifs(SoFar(file, r, m)) /\ s[Spot(a, d, m, 2)].kind \notin {"elif", "else"}
     \/ WithElse(SoFar(file, r, m))

RuleDone(file, s, a, d, im, r, y) ==
  \/ Wrong(file, y)
  \/ \E m : RuleTo(file, s, a, d, r, m) /\ y = BranchesRead(file, a, d, im, r, m)

LEMMA ElseParsed ==
  ASSUME NEW file, NEW s, NEW a, NEW d, Parsing(file, s, a, d), NEW r, RuleHead(file, d, r),
         NEW im, NEW x, ElifsDone(file, s, a, d, im, r, x)
  PROVE  RuleDone(file, s, a, d, im, r, ParseElse(s, x))
<1>1. PICK y : y = ParseElse(s, x)
  OBVIOUS
<1>2. CASE Wrong(file, x)
  <2>1. Len(s) \in Nat
    <3>1. 0 \in 0 .. Len(file) + 1
      BY ParsingParts
    <3> QED BY <3>1, Ascending
  <2> QED BY <1>2, <2>1, ElseWrong DEF RuleDone
<1>3. CASE ~ Wrong(file, x)
  <2>1. PICK m : /\ ElifsTo(file, d, r, m) /\ s[Spot(a, d, m, 2)].kind # "elif"
                 /\ x = BranchesRead(file, a, d, im, r, m)
    BY <1>3 DEF ElifsDone
  <2>2. PICK at, got : /\ at = Spot(a, d, m, 2)
                       /\ got = BranchesOf(file, InOrder(Block(file, r), m))
    OBVIOUS
  <2>3. x = Reading(at, {}, im, got)
    BY <2>1, <2>2 DEF BranchesRead
  <2>4. x.at = at /\ x.got = got /\ Kind(s, x) = s[at].kind
    BY <2>3, ReadingParts DEF Kind
  <2>5. InRule(file, d, r, m) /\ m # r /\ d[m + 1] <= 2 /\ OnlyElifs(SoFar(file, r, m))
    BY <2>1 DEF ElifsTo
  <2>6. CASE s[at].kind # "else"
    <3>1. y = x
      BY <1>1, <2>4, <2>6 DEF ParseElse
    <3>2. RuleTo(file, s, a, d, r, m)
      BY <2>1, <2>2, <2>5, <2>6 DEF RuleTo
    <3> QED BY <1>1, <2>1, <3>1, <3>2 DEF RuleDone
  <2>7. CASE s[at].kind = "else"
    <3>1. y = ParseBranch(s, x, got)
      BY <1>1, <2>4, <2>7 DEF ParseElse
    <3>2. "else" \in BranchKinds
      BY DEF BranchKinds
    <3>3. Stands(file, s, a, d, r, m)
      BY <2>5, BranchSpot
    <3>4. BranchLine(file, d, m + 1) /\ at = a[m + 1] /\ file[m + 1].kind = "else"
      BY <2>2, <2>7, <3>2, <3>3, BranchHead
    <3>5. BranchMore(file, a, d, im, r, m, y)
      BY <2>2, <2>3, <2>5, <3>1, <3>4, BranchNext
    <3>6. ASSUME NEW to, Further(file, a, d, r, m, to)
          PROVE  RuleTo(file, s, a, d, r, to)
      <4>1. WithElse(SoFar(file, r, to))
        BY <2>5, <3>4, <3>6, FurtherKinds
      <4> QED BY <3>6, <4>1 DEF Further, RuleTo
    <3> QED BY <1>1, <3>5, <3>6 DEF BranchMore, RuleDone
  <2> QED BY <2>6, <2>7
<1> QED BY <1>2, <1>3

-----------------------------------------------------------------------------
(* A rule, as it is read declaratively.                                    *)
RuleOf(file, n) == [line |-> n, branches |-> BranchesOf(file, BlockInOrder(file, n))]

LEMMA RuleFits ==
  ASSUME NEW file, NEW s, NEW a, NEW d, Parsing(file, s, a, d), NEW r, RuleHead(file, d, r),
         NEW m, RuleTo(file, s, a, d, r, m), d[m + 1] = 1
  PROVE  LineFits(file, r) /\ InOrder(Block(file, r), m) = BlockInOrder(file, r)
<1>1. InRule(file, d, r, m)
  BY DEF RuleTo
<1>2. PICK N \in Nat : N = Len(file)
  BY ParsingParts
<1>3. r \in 1 .. N /\ m \in r .. N /\ m \in Nat /\ m <= N /\ d[r] = 1 /\ file[r].kind = "rule"
  BY <1>1, <1>2, RuleRange
<1>4. \A i \in Block(file, r) : i \in r + 1 .. m
  <2>1. r \in 1 .. Len(file) /\ m \in r .. Len(file) /\ d[m + 1] <= d[r]
    BY <1>2, <1>3
  <2> QED BY <2>1, BlockEnds
<1>5. InOrder(Block(file, r), m) = BlockInOrder(file, r)
  <2>1. \A i \in m + 1 .. N : i \notin Block(file, r)
    BY <1>3, <1>4
  <2>2. InOrder(Block(file, r), N) = InOrder(Block(file, r), m)
    BY <1>3, <2>1, InOrderSkips
  <2> QED BY <1>2, <2>2 DEF BlockInOrder
<1>6. PICK k : k = SoFar(file, r, m)
  OBVIOUS
<1>7. k = KindsIn(file, r)
  BY <1>5, <1>6 DEF SoFar, KindsOn, KindsIn
<1>8. Len(k) \in Nat
  <2>1. PICK q : q = InOrder(Block(file, r), m)
    OBVIOUS
  <2>2. q \in Seq(Nat)
    BY <1>3, <2>1, InOrderSeq
  <2>3. k = KindsOn(file, q)
    BY <1>6, <2>1 DEF SoFar
  <2>4. Len(k) = Len(q)
    BY <2>2, <2>3, KindsLen
  <2>5. Len(q) \in Nat
    BY <2>2
  <2> QED BY <2>4, <2>5
<1>9. OnlyElifs(k) \/ WithElse(k)
  BY <1>6 DEF RuleTo
<1>10. IsBranchList(k)
  BY <1>8, <1>9, BranchLists
<1> QED BY <1>3, <1>5, <1>7, <1>10, Fits

LEMMA RuleRuns ==
  ASSUME NEW file, NEW s, NEW a, NEW d, Parsing(file, s, a, d), NEW r, RuleHead(file, d, r),
         NEW m, RuleTo(file, s, a, d, r, m), d[m + 1] # 1
  PROVE  ~ WellFormed(file)
<1>1. InRule(file, d, r, m) /\ m # r /\ d[m + 1] <= 2
  BY DEF RuleTo
<1>2. Stands(file, s, a, d, r, m)
  BY <1>1, BranchSpot
<1>3. PICK N \in Nat : N = Len(file)
  BY ParsingParts
<1>4. r \in 1 .. N /\ m \in Nat /\ m <= N /\ file[r].kind = "rule"
  BY <1>1, <1>3, RuleRange
<1>5. /\ m + 1 \in 1 .. N /\ m + 1 \in Block(file, r)
      /\ s[Spot(a, d, m, 2)].kind = file[m + 1].kind
  BY <1>2, <1>3 DEF Stands
<1>6. PICK q, t : q = InOrder(Block(file, r), m) /\ t = InOrder(Block(file, r), m + 1)
  OBVIOUS
<1>7. t = Append(q, m + 1)
  BY <1>4, <1>5, <1>6, InOrderJoin
<1>8. q \in Seq(Nat)
  BY <1>4, <1>6, InOrderSeq
<1>9. PICK l \in Nat : /\ l = Len(q) /\ Len(t) = l + 1 /\ t[l + 1] = m + 1
                       /\ \A i \in 1 .. l : t[i] = q[i]
  <2>1. m + 1 \in Nat
    BY <1>4
  <2> QED BY <1>7, <1>8, <2>1, OneMore
<1>10. PICK k : k = SoFar(file, r, m)
  OBVIOUS
<1>11. Len(k) = l /\ \A i \in 1 .. l : k[i] = file[q[i]].kind
  BY <1>6, <1>8, <1>9, <1>10, KindsLen DEF SoFar
<1>12. CASE OnlyElifs(k) /\ s[Spot(a, d, m, 2)].kind \notin {"elif", "else"}
  <2>1. PICK j \in Nat : j = l + 1 /\ j > 1 /\ j \in 1 .. Len(t)
    BY <1>9, <1>11, <1>12 DEF OnlyElifs
  <2>2. file[t[j]].kind \notin {"elif", "else"}
    BY <1>5, <1>9, <1>12, <2>1
  <2>3. m + 1 \in Nat /\ m + 1 <= Len(file)
    BY <1>3, <1>4, <1>5
  <2> QED BY <1>3, <1>4, <1>6, <2>1, <2>2, <2>3, NotBranches
<1>13. CASE WithElse(k)
  <2>1. l \in 1 .. Len(t) /\ l > 1 /\ l < Len(t) /\ l \in 1 .. l
    BY <1>9, <1>11, <1>13 DEF WithElse
  <2>2. file[t[l]].kind = "else"
    BY <1>9, <1>11, <1>13, <2>1 DEF WithElse
  <2>3. m + 1 \in Nat /\ m + 1 <= Len(file)
    BY <1>3, <1>4, <1>5
  <2> QED BY <1>3, <1>4, <1>6, <2>1, <2>2, <2>3, NotBranches
<1> QED BY <1>10, <1>12, <1>13 DEF RuleTo

(* A rule is read whole.                                                   *)
RuleEnd(file, d, r, m) ==
  InRule(file, d, r, m) /\ m # r /\ d[m + 1] = 1 /\ LineFits(file, r)

RuleMade(file, a, d, im, rules, r, y) ==
  \/ Wrong(file, y)
  \/ \E m : /\ RuleEnd(file, d, r, m)
            /\ y = Reading(Spot(a, d, m, 1), {}, im, Append(rules, RuleOf(file, r)))

LEMMA RuleClosed ==
  ASSUME NEW file, NEW s, NEW a, NEW d, Parsing(file, s, a, d), NEW r, RuleHead(file, d, r),
         NEW im, NEW rules, NEW p, s[p.at].line = r,
         NEW body, body = ParseBranches(s, Expect(s, "INDENT", Step(p))),
         RuleDone(file, s, a, d, im, r, body)
  PROVE  RuleMade(file, a, d, im, rules, r, ParseRule(s, p, rules))
<1>1. CASE Wrong(file, body)
  BY <1>1, RuleEndWrong DEF RuleMade
<1>2. CASE ~ Wrong(file, body)
  <2>1. PICK m : RuleTo(file, s, a, d, r, m) /\ body = BranchesRead(file, a, d, im, r, m)
    BY <1>2 DEF RuleDone
  <2>2. PICK at, got, e, y : /\ at = Spot(a, d, m, 2) /\ e = Expect(s, "DEDENT", body)
                             /\ got = BranchesOf(file, InOrder(Block(file, r), m))
                             /\ y = ParseRule(s, p, rules)
    OBVIOUS
  <2>3. body = Reading(at, {}, im, got)
    BY <2>1, <2>2 DEF BranchesRead
  <2>4. body.got = got /\ On(s, body, at, {}, im, got)
    BY <2>3, ReadingParts, ReadingOn
  <2>5. PICK v : v = Append(rules, [line |-> r, branches |-> got])
    OBVIOUS
  <2>6. y = [e EXCEPT !.got = v]
    BY <2>2, <2>4, <2>5, Zenon DEF ParseRule
  <2>7. InRule(file, d, r, m) /\ m # r /\ d[m + 1] <= 2
    BY <2>1 DEF RuleTo
  <2>8. Stands(file, s, a, d, r, m)
    BY <2>7, BranchSpot
  <2>9. CASE d[m + 1] = 1
    <3>1. s[at].kind = "DEDENT"
      BY <2>2, <2>8, <2>9 DEF Stands
    <3>2. e = Reading(at + 1, {}, im, got)
      BY <2>2, <2>4, <3>1 DEF Expect, On
    <3>3. at + 1 = Spot(a, d, m, 1)
      <4>1. d[m] \in Nat /\ a[m] \in Nat
        BY <2>7, RuleRange
      <4> QED BY <2>2, <4>1 DEF Spot
    <3>4. With(e, at + 1, {}, im, got, v)
      BY <3>2, ReadingWith, Zenon
    <3>5. y = Reading(at + 1, {}, im, v)
      BY <2>6, <3>4 DEF With
    <3>6. LineFits(file, r) /\ InOrder(Block(file, r), m) = BlockInOrder(file, r)
      BY <2>1, <2>9, RuleFits
    <3>7. v = Append(rules, RuleOf(file, r))
      BY <2>2, <2>5, <3>6 DEF RuleOf
    <3> QED BY <2>2, <2>7, <2>9, <3>3, <3>5, <3>6, <3>7 DEF RuleEnd, RuleMade
  <2>10. CASE d[m + 1] # 1
    <3>1. ~ WellFormed(file)
      BY <2>1, <2>10, RuleRuns
    <3>2. /\ d[m + 1] = 2 /\ m + 1 \in 1 .. Len(file) /\ s[at].kind = file[m + 1].kind
      BY <2>2, <2>8, <2>10 DEF Stands
    <3>3. file[m + 1].kind \in LineKind
      BY <3>2, ParsingParts
    <3>4. "DEDENT" \notin LineKind
      BY DEF LineKind
    <3>5. e = Report(s, body)
      BY <2>2, <2>4, <3>2, <3>3, <3>4 DEF Expect, On
    <3>6. Wrong(file, e)
      BY <2>3, <3>1, <3>5, ReportWrong
    <3>7. Wrong(file, y)
      BY <2>6, <3>6, WrongOn
    <3> QED BY <2>2, <3>7 DEF RuleMade
  <2> QED BY <2>9, <2>10
<1> QED BY <1>1, <1>2

LEMMA BranchesParsed ==
  ASSUME NEW file, NEW s, NEW a, NEW d, Parsing(file, s, a, d), NEW r, RuleHead(file, d, r),
         d[r + 1] = 2, NEW im, NEW got, NEW p, p = Reading(a[r + 1], {}, im, got)
  PROVE  RuleDone(file, s, a, d, im, r, ParseBranches(s, p))
<1>1. PICK N \in Nat : N = Len(file) /\ Len(s) \in Nat
  <2>1. 0 \in 0 .. Len(file) + 1
    BY ParsingParts
  <2>2. Len(s) \in Nat
    BY <2>1, Ascending
  <2> QED BY <2>2, ParsingParts
<1>2. r \in 1 .. N /\ r + 1 \in 1 .. N /\ d[r] = 1 /\ file[r].kind = "rule" /\ r \in Nat
  <2>1. d[N + 1] = 1
    BY <1>1 DEF Parsing, Layout
  <2>2. r \in 1 .. N /\ d[r] = 1 /\ file[r].kind = "rule"
    BY <1>1 DEF RuleHead
  <2>3. r # N
    BY <2>1
  <2> QED BY <2>2, <2>3
<1>3. s[a[r + 1]].kind = file[r + 1].kind
  <2>1. r + 1 \in 1 .. Len(file) + 1 /\ r + 1 \in 1 .. Len(file)
    BY <1>1, <1>2
  <2> QED BY <2>1, LineToken, KindsOf
<1>4. Kind(s, p) = file[r + 1].kind /\ p.at = a[r + 1]
  BY <1>3, ReadingParts DEF Kind
<1>5. r + 1 \in Block(file, r)
  <2>1. r \in 1 .. Len(file) /\ r + 1 \in r + 1 .. Len(file) /\ r + 1 .. (r + 1) - 1 = {}
        /\ d[r + 1] = d[r] + 1
    BY <1>1, <1>2
  <2> QED BY <2>1, JoinsBlock
<1>6. InOrder(Block(file, r), r) = <<>>
  <2>1. r \in 1 .. Len(file)
    BY <1>1, <1>2
  <2> QED BY <2>1, BlockBefore
<1>7. CASE file[r + 1].kind # "when"
  <2>1. PICK q : q = InOrder(Block(file, r), r + 1)
    OBVIOUS
  <2>2. q = Append(<<>>, r + 1)
    BY <1>2, <1>5, <1>6, <2>1, InOrderJoin
  <2>3. 1 \in 1 .. Len(q) /\ q[1] = r + 1
    BY <2>2
  <2>4. r + 1 \in Nat /\ r + 1 <= Len(file) /\ Len(file) \in Nat /\ r \in 1 .. Len(file)
    BY <1>1, <1>2
  <2>5. ~ WellFormed(file)
    BY <1>2, <1>7, <2>1, <2>3, <2>4, NotBranches
  <2>6. Wrong(file, Report(s, p))
    BY <2>5, ReportWrong
  <2>7. Wrong(file, [Report(s, p) EXCEPT !.got = <<>>])
    BY <2>6, WrongOn
  <2>8. ParseBranches(s, p) = [Report(s, p) EXCEPT !.got = <<>>]
    BY <1>4, <1>7 DEF ParseBranches
  <2> QED BY <2>7, <2>8 DEF RuleDone
<1>8. CASE file[r + 1].kind = "when"
  <2>1. PICK x, y, z : /\ x = ParseBranch(s, p, <<>>) /\ y = ParseElifs(s, x)
                       /\ z = ParseElse(s, y)
    OBVIOUS
  <2>2. ParseBranches(s, p) = z
    BY <1>4, <1>8, <2>1 DEF ParseBranches
  <2>3. BranchLine(file, d, r + 1)
    BY <1>1, <1>2, <1>8 DEF BranchLine, BranchKinds
  <2>4. InRule(file, d, r, r)
    <3>1. r \in r .. Len(file) /\ r + 1 .. r = {}
      BY <1>1, <1>2
    <3> QED BY <3>1 DEF InRule
  <2>5. BranchesOf(file, <<>>) = <<>> /\ KindsOn(file, <<>>) = <<>>
    BY DEF BranchesOf, KindsOn
  <2>6. <<>> = BranchesOf(file, InOrder(Block(file, r), r)) /\ SoFar(file, r, r) = <<>>
    BY <1>6, <2>5 DEF SoFar
  <2>7. BranchMore(file, a, d, im, r, r, x)
    BY <2>1, <2>3, <2>4, <2>6, BranchNext
  <2>8. ElifsDone(file, s, a, d, im, r, y)
    <3>1. CASE Wrong(file, x)
      BY <1>1, <2>1, <3>1, ElifsWrong DEF ElifsDone
    <3>2. CASE ~ Wrong(file, x)
      <4>1. PICK to : Further(file, a, d, r, r, to) /\ x = BranchesRead(file, a, d, im, r, to)
        BY <2>7, <3>2 DEF BranchMore
      <4>2. ElifsTo(file, d, r, to)
        BY <1>8, <2>4, <2>6, <4>1, FurtherKinds
      <4> QED BY <2>1, <4>1, <4>2, ElifsParsed
    <3> QED BY <3>1, <3>2
  <2>9. RuleDone(file, s, a, d, im, r, z)
    BY <2>1, <2>8, ElseParsed
  <2> QED BY <2>2, <2>9
<1> QED BY <1>7, <1>8

LEMMA RuleParsed ==
  ASSUME NEW file, NEW s, NEW a, NEW d, Parsing(file, s, a, d), NEW r, RuleHead(file, d, r),
         NEW im, NEW rules, NEW p, p = Reading(a[r], {}, im, rules)
  PROVE  RuleMade(file, a, d, im, rules, r, ParseRule(s, p, rules))
<1>1. PICK N \in Nat : N = Len(file) /\ Len(s) \in Nat
  <2>1. 0 \in 0 .. Len(file) + 1
    BY ParsingParts
  <2>2. Len(s) \in Nat
    BY <2>1, Ascending
  <2> QED BY <2>2, ParsingParts
<1>2. r \in 1 .. N /\ d[r] = 1 /\ file[r].kind = "rule" /\ r \in Nat /\ r + 1 \in 1 .. N + 1
  BY <1>1 DEF RuleHead
<1>3. /\ r \in 1 .. Len(file) /\ r \in 0 .. Len(file) /\ r \in 1 .. Len(file) + 1
      /\ a[r] \in Nat /\ d[r + 1] \in Nat /\ d[r + 1] > 0
  <2>1. r \in 0 .. N + 1 /\ r + 1 \in 0 .. N + 1
    BY <1>2
  <2> QED BY <1>1, <1>2, <2>1, ParsingParts
<1>4. s[p.at].line = r
  <2>1. p.at = a[r]
    BY ReadingParts
  <2> QED BY <1>3, <2>1, LineToken
<1>5. PICK t, e, body : t = Step(p) /\ e = Expect(s, "INDENT", t) /\ body = ParseBranches(s, e)
  OBVIOUS
<1>6. t = Reading(a[r] + 1, {}, im, rules)
  <2>1. On(s, p, a[r], {}, im, rules)
    BY ReadingOn, Zenon
  <2> QED BY <1>5, <2>1 DEF On
<1>7. On(s, t, a[r] + 1, {}, im, rules)
  BY <1>6, ReadingOn, Zenon
<1>8. CASE d[r + 1] <= 1
  <2>1. Spot(a, d, r, 1) = a[r] + 1
    BY <1>2, <1>3 DEF Spot
  <2>2. s[a[r] + 1].kind # "INDENT"
    <3>1. 1 \in Nat /\ 1 <= d[r] /\ 1 = d[r + 1]
      BY <1>2, <1>3, <1>8
    <3>2. s[a[r] + 1] = Token(KindOf(file, r + 1), r + 1)
      BY <1>3, <1>8, <2>1, <3>1, SpotKinds
    <3>3. KindOf(file, r + 1) # "INDENT"
      <4>1. KindOf(file, r + 1) \in LineKind \union {"EOF"}
        BY <1>1, <1>2, KindsOf
      <4> QED BY <4>1 DEF LineKind
    <3> QED BY <3>2, <3>3 DEF Token
  <2>3. e = Report(s, t)
    BY <1>5, <1>7, <2>2 DEF Expect, On
  <2>4. ~ WellFormed(file)
    <3>1. Block(file, r) = {}
      BY <1>2, <1>3, <1>8, NoBlock
    <3>2. BlockInOrder(file, r) = <<>>
      <4>1. PICK q : q = BlockInOrder(file, r)
        OBVIOUS
      <4>2. q \in Seq(Nat)
        BY <1>1, <4>1, InOrderSeq DEF BlockInOrder
      <4>3. \A i \in DOMAIN q : q[i] \in {}
        BY <1>1, <3>1, <4>1, InOrderLists DEF BlockInOrder, Lists
      <4>4. Len(q) = 0
        <5>1. PICK l \in Nat : l = Len(q) /\ DOMAIN q = 1 .. l
          BY <4>2
        <5>2. l # 0 => 1 \in DOMAIN q
          BY <5>1
        <5> QED BY <4>3, <5>1, <5>2
      <4> QED BY <4>1, <4>2, <4>4
    <3>3. KindsIn(file, r) = <<>>
      BY <3>2 DEF KindsIn
    <3>4. ~ IsBranchList(KindsIn(file, r))
      BY <3>3 DEF IsBranchList
    <3>5. ~ LineFits(file, r)
      BY <1>2, <3>4, Fits
    <3> QED BY <1>3, <3>5, Misfit
  <2>5. Wrong(file, e)
    BY <1>6, <2>3, <2>4, ReportWrong
  <2>6. Wrong(file, body)
    BY <1>1, <1>5, <2>5, BranchesWrong
  <2> QED BY <1>5, <2>6, RuleEndWrong DEF RuleMade
<1>9. CASE ~ (d[r + 1] <= 1)
  <2>1. ~ (d[r + 1] <= d[r])
    BY <1>2, <1>9
  <2>2. d[r + 1] = 2 /\ s[a[r] + 1].kind = "INDENT" /\ a[r + 1] = a[r] + 2
    BY <1>2, <1>3, <2>1, IndentKinds
  <2>3. e = Reading(a[r + 1], {}, im, rules)
    <3>1. (a[r] + 1) + 1 = a[r + 1]
      BY <1>3, <2>2
    <3>2. e = Step(t)
      BY <1>5, <1>7, <2>2 DEF Expect, On
    <3> QED BY <1>7, <3>1, <3>2 DEF On
  <2>4. RuleDone(file, s, a, d, im, r, body)
    BY <1>5, <2>2, <2>3, BranchesParsed
  <2> QED BY <1>4, <1>5, <2>4, RuleClosed
<1> QED BY <1>8, <1>9

-----------------------------------------------------------------------------
(* The lines of the file's own block, and the rules read of some of them.  *)
TopSet(file, kind) == {i \in Block(file, 0) : file[i].kind = kind}

RulesOn(file, q) == [i \in DOMAIN q |-> RuleOf(file, q[i])]

LEMMA MoreRules ==
  ASSUME NEW file, NEW q \in Seq(Nat), NEW n \in Nat
  PROVE  RulesOn(file, Append(q, n)) = Append(RulesOn(file, q), RuleOf(file, n))
<1>1. PICK r, f : r = Append(q, n) /\ f = [i \in Nat |-> RuleOf(file, i)]
  OBVIOUS
<1>2. r \in Seq(Nat)
  BY <1>1, OneMore
<1>3. RulesOn(file, q) = [i \in DOMAIN q |-> f[q[i]]]
  BY <1>1 DEF RulesOn
<1>4. RulesOn(file, r) = [i \in DOMAIN r |-> f[r[i]]]
  BY <1>1, <1>2 DEF RulesOn
<1>5. RulesOn(file, r) = Append(RulesOn(file, q), f[n])
  BY <1>1, <1>3, <1>4, MoreMade
<1> QED BY <1>1, <1>5

TopRead(file, a, d, m) ==
  Reading(Spot(a, d, m, 1), {}, InOrder(TopSet(file, "import"), m),
          RulesOn(file, InOrder(TopSet(file, "rule"), m)))

(* The lines up to m are imports and whole rules.                          *)
TopTo(file, d, m) ==
  /\ m \in 0 .. Len(file)
  /\ m # 0 => d[1] = 1
  /\ d[m + 1] = 1 \/ (d[m] = 1 /\ (m = 0 \/ file[m].kind = "import"))
  /\ \A i \in 1 .. m : /\ d[i] = 1 => file[i].kind \in {"import", "rule"}
                       /\ LineFits(file, i) \/ (i = m /\ file[m].kind = "import")

LEMMA TopRange ==
  ASSUME NEW file, NEW s, NEW a, NEW d, Parsing(file, s, a, d), NEW m \in 0 .. Len(file)
  PROVE  /\ Len(file) \in Nat /\ Len(s) \in Nat /\ m \in Nat /\ m + 1 \in 1 .. Len(file) + 1
         /\ m + 1 \in Nat
         /\ m + 1 \in 0 .. Len(file) + 1 /\ m \in 0 .. Len(file) + 1 /\ m <= Len(file)
         /\ d[m] \in Nat /\ d[m] > 0 /\ d[m + 1] \in Nat /\ d[m + 1] > 0
         /\ a[m] \in Nat /\ a[m + 1] \in Nat /\ a[0] = 0 /\ d[0] = 1 /\ d[Len(file) + 1] = 1
<1>1. PICK N \in Nat : N = Len(file)
  BY ParsingParts
<1>2. /\ m \in Nat /\ m \in 0 .. N /\ m <= N /\ m + 1 \in 0 .. N + 1 /\ m \in 0 .. N + 1
      /\ m + 1 \in 1 .. N + 1
  BY <1>1
<1>3. /\ d[m] \in Nat /\ d[m] > 0 /\ d[m + 1] \in Nat /\ d[m + 1] > 0
      /\ a[m] \in Nat /\ a[m + 1] \in Nat
  BY <1>1, <1>2, ParsingParts
<1>4. Len(s) \in Nat
  BY <1>1, <1>2, Ascending
<1>5. a[0] = 0 /\ d[0] = 1 /\ d[N + 1] = 1
  BY <1>1 DEF Parsing, Layout
<1> QED BY <1>1, <1>2, <1>3, <1>4, <1>5

LEMMA TopFits ==
  ASSUME NEW file, NEW s, NEW a, NEW d, Parsing(file, s, a, d), NEW m, TopTo(file, d, m),
         d[m + 1] = 1
  PROVE  \A i \in 1 .. m : LineFits(file, i)
<1>1. m \in 0 .. Len(file)
  BY DEF TopTo
<1>2. Len(file) \in Nat /\ m \in Nat /\ m <= Len(file) /\ d[m] \in Nat /\ d[m] > 0
  BY <1>1, TopRange
<1>3. ASSUME m # 0, file[m].kind = "import"
      PROVE  LineFits(file, m)
  <2>1. m \in 1 .. Len(file) /\ d[m + 1] <= d[m]
    BY <1>2, <1>3
  <2>2. Block(file, m) = {}
    BY <2>1, NoBlock
  <2> QED BY <1>3, <2>2, Fits
<1>4. ASSUME NEW i \in 1 .. m
      PROVE  LineFits(file, i)
  <2>1. LineFits(file, i) \/ (i = m /\ file[m].kind = "import")
    BY DEF TopTo
  <2>2. i # 0
    OBVIOUS
  <2> QED BY <1>3, <2>1, <2>2
<1> QED BY <1>4

(* One turn of the parser at the top level.                                *)
TopGo(file, s, a, d, m, x, y) ==
  /\ x.at \in 1 .. Len(s)
  /\ \/ Wrong(file, y.made)
     \/ /\ y.on /\ x.at < y.made.at
        /\ \E to : TopTo(file, d, to) /\ y.made = TopRead(file, a, d, to)
     \/ ~ y.on /\ m = Len(file) /\ y.made = x

LEMMA TopIndented ==
  ASSUME NEW file, NEW s, NEW a, NEW d, Parsing(file, s, a, d), NEW m, TopTo(file, d, m),
         d[m + 1] # 1, NEW x, x = TopRead(file, a, d, m)
  PROVE  TopGo(file, s, a, d, m, x, TopStep(s, x))
<1>1. PICK at, im, rules, y : /\ at = Spot(a, d, m, 1) /\ y = TopStep(s, x)
                              /\ im = InOrder(TopSet(file, "import"), m)
                              /\ rules = RulesOn(file, InOrder(TopSet(file, "rule"), m))
  OBVIOUS
<1>2. x = Reading(at, {}, im, rules)
  BY <1>1 DEF TopRead
<1>3. x.at = at /\ Kind(s, x) = s[at].kind
  BY <1>2, ReadingParts DEF Kind
<1>4. m \in 0 .. Len(file) /\ d[m] = 1 /\ (m = 0 \/ file[m].kind = "import")
  BY DEF TopTo
<1>5. /\ Len(file) \in Nat /\ m \in Nat /\ m <= Len(file)
      /\ d[m + 1] \in Nat /\ d[m + 1] > 0 /\ a[m] \in Nat
  BY <1>4, TopRange
<1>6. at = a[m] + 1
  BY <1>1, <1>4, <1>5 DEF Spot
<1>7. ~ (d[m + 1] <= d[m])
  BY <1>4, <1>5
<1>8. /\ m + 1 \in 1 .. Len(file) /\ d[m + 1] = d[m] + 1
      /\ at \in 1 .. Len(s) /\ s[at].kind = "INDENT"
  BY <1>4, <1>6, <1>7, IndentKinds
<1>9. ~ WellFormed(file)
  <2>1. CASE m = 0
    <3>1. d[1] # 1
      BY <2>1
    <3> QED BY <3>1 DEF Parsing, BlocksAsLaid
  <2>2. CASE m # 0
    <3>1. m \in 1 .. Len(file) /\ m + 1 \in m + 1 .. Len(file) /\ m + 1 .. (m + 1) - 1 = {}
      BY <1>5, <1>8, <2>2
    <3>2. m + 1 \in Block(file, m)
      BY <1>8, <3>1, JoinsBlock
    <3>3. ~ LineFits(file, m)
      BY <1>4, <2>2, <3>2, Fits
    <3> QED BY <3>1, <3>3, Misfit
  <2> QED BY <2>1, <2>2
<1>10. Wrong(file, Report(s, x))
  BY <1>2, <1>9, ReportWrong
<1>11. Wrong(file, SkipLine(s, Report(s, x)))
  BY <1>10, WrongOn
<1>12. y = Going(SkipLine(s, Report(s, x)))
  BY <1>1, <1>3, <1>8 DEF TopStep
<1>13. Wrong(file, y.made)
  BY <1>11, <1>12, StopGo
<1> QED BY <1>1, <1>3, <1>8, <1>13 DEF TopGo

(* The next line is one of the file's block.                               *)
TopNext(file, s, a, d, m, at) ==
  /\ m \in 0 .. Len(file) /\ m + 1 \in 1 .. Len(file) /\ d[m + 1] = 1 /\ d[1] = 1
  /\ m + 1 \in Block(file, 0)
  /\ at = a[m + 1] /\ at \in 1 .. Len(s) /\ s[at].kind = file[m + 1].kind /\ s[at].line = m + 1
  /\ \A i \in 1 .. m : LineFits(file, i) /\ (d[i] = 1 => file[i].kind \in {"import", "rule"})

LEMMA TopStands ==
  ASSUME NEW file, NEW s, NEW a, NEW d, Parsing(file, s, a, d), NEW m, TopTo(file, d, m),
         d[m + 1] = 1, NEW at, at = Spot(a, d, m, 1)
  PROVE  /\ at \in 1 .. Len(s)
         /\ m = Len(file) => s[at].kind = "EOF"
         /\ m # Len(file) => TopNext(file, s, a, d, m, at)
<1>1. m \in 0 .. Len(file) /\ (m # 0 => d[1] = 1)
  BY DEF TopTo
<1>2. PICK N \in Nat : N = Len(file) /\ m \in Nat /\ m <= N
  BY <1>1, TopRange
<1>3. 1 \in Nat /\ d[m + 1] <= 1 /\ 1 <= d[m] /\ 1 = d[m + 1] /\ m + 1 \in 1 .. Len(file) + 1
  BY <1>1, TopRange
<1>4. at \in 1 .. Len(s) /\ at = a[m + 1] /\ s[at] = Token(KindOf(file, m + 1), m + 1)
  BY <1>1, <1>3, SpotKinds
<1>5. s[at].kind = KindOf(file, m + 1) /\ s[at].line = m + 1
  BY <1>4 DEF Token
<1>6. CASE m = N
  <2>1. KindOf(file, m + 1) = "EOF"
    BY <1>2, <1>3, <1>6, KindsOf
  <2> QED BY <1>2, <1>4, <1>5, <1>6, <2>1
<1>7. CASE m # N
  <2>1. m + 1 \in 1 .. Len(file)
    BY <1>2, <1>7
  <2>2. KindOf(file, m + 1) = file[m + 1].kind
    BY <1>3, <2>1, KindsOf
  <2>3. m + 1 \in Block(file, 0)
    BY <2>1, TopBlock
  <2>4. d[1] = 1
    <3>1. m = 0 => d[1] = d[m + 1]
      OBVIOUS
    <3> QED BY <1>1, <3>1
  <2>5. \A i \in 1 .. m : LineFits(file, i)
    BY TopFits
  <2>6. \A i \in 1 .. m : d[i] = 1 => file[i].kind \in {"import", "rule"}
    BY DEF TopTo
  <2>7. TopNext(file, s, a, d, m, at)
    BY <1>1, <1>4, <1>5, <2>1, <2>2, <2>3, <2>4, <2>5, <2>6 DEF TopNext
  <2> QED BY <1>2, <1>4, <1>7, <2>7
<1> QED BY <1>6, <1>7

LEMMA TopImport ==
  ASSUME NEW file, NEW s, NEW a, NEW d, Parsing(file, s, a, d), NEW m, TopTo(file, d, m),
         NEW at, at = Spot(a, d, m, 1), TopNext(file, s, a, d, m, at),
         file[m + 1].kind = "import", NEW x, x = TopRead(file, a, d, m)
  PROVE  TopGo(file, s, a, d, m, x, TopStep(s, x))
<1>1. PICK im, rules, y : /\ y = TopStep(s, x)
                          /\ im = InOrder(TopSet(file, "import"), m)
                          /\ rules = RulesOn(file, InOrder(TopSet(file, "rule"), m))
  OBVIOUS
<1>2. x = Reading(at, {}, im, rules)
  BY <1>1 DEF TopRead
<1>3. x.at = at /\ x.imports = im /\ Kind(s, x) = s[at].kind /\ On(s, x, at, {}, im, rules)
  BY <1>2, ReadingParts, ReadingOn DEF Kind
<1>4. /\ m \in 0 .. Len(file) /\ m + 1 \in 1 .. Len(file) /\ d[m + 1] = 1 /\ d[1] = 1
      /\ m + 1 \in Block(file, 0) /\ at = a[m + 1] /\ at \in 1 .. Len(s)
      /\ s[at].kind = "import" /\ s[at].line = m + 1
  BY DEF TopNext
<1>5. m \in Nat /\ m + 1 \in Nat /\ Len(file) \in Nat /\ a[m + 1] \in Nat
  BY <1>4, TopRange
<1>6. PICK t : t = Step(x)
  OBVIOUS
<1>7. t = Reading(at + 1, {}, im, rules)
  BY <1>3, <1>6 DEF On
<1>8. PICK v : v = Append(im, m + 1)
  OBVIOUS
<1>9. t.imports = im
  BY <1>7, ReadingParts
<1>10. [t EXCEPT !.imports = Append(@, s[x.at].line)] = [t EXCEPT !.imports = v]
  BY <1>3, <1>4, <1>8, <1>9
<1>11. With(t, at + 1, {}, im, rules, v)
  BY <1>7, ReadingWith, Zenon
<1>12. [t EXCEPT !.imports = v] = Reading(at + 1, {}, v, rules)
  BY <1>11 DEF With
<1>13. y = Going([t EXCEPT !.imports = Append(@, s[x.at].line)])
  BY <1>1, <1>3, <1>4, <1>6 DEF TopStep
<1>14. y = Going(Reading(at + 1, {}, v, rules))
  BY <1>10, <1>12, <1>13
<1>15. y.on /\ y.made = Reading(at + 1, {}, v, rules)
  BY <1>14, StopGo
<1>16. v = InOrder(TopSet(file, "import"), m + 1)
  <2>1. m + 1 \in TopSet(file, "import")
    BY <1>4 DEF TopSet
  <2> QED BY <1>1, <1>5, <1>8, <2>1, InOrderJoin
<1>17. rules = RulesOn(file, InOrder(TopSet(file, "rule"), m + 1))
  <2>1. m + 1 \notin TopSet(file, "rule")
    BY DEF TopSet
  <2>2. \A i \in m + 1 .. m + 1 : i \notin TopSet(file, "rule")
    BY <1>5, <2>1
  <2>3. m <= m + 1
    BY <1>5
  <2>4. InOrder(TopSet(file, "rule"), m + 1) = InOrder(TopSet(file, "rule"), m)
    BY <1>5, <2>2, <2>3, InOrderSkips
  <2> QED BY <1>1, <2>4
<1>18. Spot(a, d, m + 1, 1) = at + 1
  BY <1>4, <1>5 DEF Spot
<1>19. y.made = TopRead(file, a, d, m + 1)
  BY <1>15, <1>16, <1>17, <1>18 DEF TopRead
<1>20. TopTo(file, d, m + 1)
  <2>1. m + 1 \in 0 .. Len(file)
    BY <1>4, <1>5
  <2>2. \A i \in 1 .. m + 1 : i = m + 1 \/ i \in 1 .. m
    BY <1>5
  <2>3. ASSUME NEW i \in 1 .. m + 1
        PROVE  /\ d[i] = 1 => file[i].kind \in {"import", "rule"}
               /\ LineFits(file, i) \/ (i = m + 1 /\ file[m + 1].kind = "import")
    <3>1. CASE i = m + 1
      BY <3>1
    <3>2. CASE i \in 1 .. m
      BY <3>2 DEF TopNext
    <3> QED BY <2>2, <3>1, <3>2
  <2> QED BY <1>4, <2>1, <2>3 DEF TopTo
<1>21. x.at < y.made.at
  <2>1. y.made.at = at + 1
    BY <1>15, ReadingParts
  <2> QED BY <1>3, <1>4, <1>5, <2>1
<1> QED BY <1>1, <1>3, <1>4, <1>15, <1>19, <1>20, <1>21 DEF TopGo

-----------------------------------------------------------------------------
(* A rule of the file is read and the top level goes on after it.          *)
TopOn(file, a, d, m, at, y) ==
  \/ Wrong(file, y)
  \/ /\ at < y.at
     /\ \E to : TopTo(file, d, to) /\ y = TopRead(file, a, d, to)

LEMMA TopRuleEnd ==
  ASSUME NEW file, NEW s, NEW a, NEW d, Parsing(file, s, a, d), NEW m, NEW at,
         TopNext(file, s, a, d, m, at), file[m + 1].kind = "rule",
         NEW to, RuleEnd(file, d, m + 1, to), NEW im, im = InOrder(TopSet(file, "import"), m),
         NEW rules, rules = RulesOn(file, InOrder(TopSet(file, "rule"), m)),
         NEW y, y = Reading(Spot(a, d, to, 1), {}, im, Append(rules, RuleOf(file, m + 1)))
  PROVE  TopOn(file, a, d, m, at, y)
<1>1. /\ m \in 0 .. Len(file) /\ m + 1 \in 1 .. Len(file) /\ d[m + 1] = 1 /\ d[1] = 1
      /\ m + 1 \in Block(file, 0) /\ at = a[m + 1]
      /\ \A i \in 1 .. m : LineFits(file, i) /\ (d[i] = 1 => file[i].kind \in {"import", "rule"})
  BY DEF TopNext
<1>2. m \in Nat /\ m + 1 \in Nat /\ a[m + 1] \in Nat
  BY <1>1, TopRange
<1>3. RuleHead(file, d, m + 1)
  BY <1>1 DEF RuleHead
<1>4. InRule(file, d, m + 1, to) /\ to # m + 1 /\ d[to + 1] = 1 /\ LineFits(file, m + 1)
  BY DEF RuleEnd
<1>5. /\ to \in m + 1 .. Len(file) /\ to \in Nat /\ to \in 0 .. Len(file)
      /\ m + 1 <= to /\ Len(file) \in Nat /\ d[to] \in Nat /\ a[to] \in Nat
      /\ to \in 0 .. Len(file) + 1 /\ to # m + 1 => 2 <= d[to]
  BY <1>3, <1>4, RuleRange
<1>6. \A i \in (m + 1) + 1 .. to : 2 <= d[i] /\ LineFits(file, i)
  BY <1>4 DEF InRule
<1>7. \A i \in (m + 1) + 1 .. to : i \notin Block(file, 0)
  <2>1. ASSUME NEW i \in (m + 1) + 1 .. to
        PROVE  i \notin Block(file, 0)
    <3>1. i \in 1 .. Len(file)
      BY <1>2, <1>5
    <3>2. d[i] # 1
      BY <1>6
    <3> QED BY <1>1, <3>1, <3>2, TopBlock
  <2> QED BY <2>1
<1>8. InOrder(TopSet(file, "import"), to) = im
  <2>1. \A i \in m + 1 .. to : i = m + 1 \/ i \in (m + 1) + 1 .. to
    BY <1>2, <1>5
  <2>2. \A i \in m + 1 .. to : i \notin TopSet(file, "import")
    BY <1>7, <2>1 DEF TopSet
  <2>3. m <= to
    BY <1>2, <1>5
  <2> QED BY <1>2, <1>5, <2>2, <2>3, InOrderSkips
<1>9. InOrder(TopSet(file, "rule"), to) = Append(InOrder(TopSet(file, "rule"), m), m + 1)
  <2>1. \A i \in (m + 1) + 1 .. to : i \notin TopSet(file, "rule")
    BY <1>7 DEF TopSet
  <2>2. InOrder(TopSet(file, "rule"), to) = InOrder(TopSet(file, "rule"), m + 1)
    BY <1>2, <1>5, <2>1, InOrderSkips
  <2>3. m + 1 \in TopSet(file, "rule")
    BY <1>1 DEF TopSet
  <2> QED BY <1>2, <2>2, <2>3, InOrderJoin
<1>10. Append(rules, RuleOf(file, m + 1)) = RulesOn(file, InOrder(TopSet(file, "rule"), to))
  <2>1. InOrder(TopSet(file, "rule"), m) \in Seq(Nat)
    BY <1>2, InOrderSeq
  <2> QED BY <1>2, <1>9, <2>1, MoreRules
<1>11. y = TopRead(file, a, d, to)
  BY <1>8, <1>10 DEF TopRead
<1>12. at < y.at
  <2>1. y.at = Spot(a, d, to, 1)
    BY ReadingParts
  <2>2. a[m + 1] <= a[to]
    <3>1. m + 1 \in 0 .. to
      BY <1>2, <1>5
    <3> QED BY <1>5, <3>1, Climbing
  <2>3. 2 <= d[to]
    BY <1>4, <1>5
  <2> QED BY <1>1, <1>2, <1>5, <2>1, <2>2, <2>3 DEF Spot
<1>13. TopTo(file, d, to)
  <2>1. ASSUME NEW i \in 1 .. to
        PROVE  /\ d[i] = 1 => file[i].kind \in {"import", "rule"}
               /\ LineFits(file, i)
    <3>1. i \in 1 .. m \/ i = m + 1 \/ i \in (m + 1) + 1 .. to
      BY <1>2, <1>5
    <3>2. CASE i \in 1 .. m
      BY <1>1, <3>2
    <3>3. CASE i = m + 1
      BY <1>4, <3>3
    <3>4. CASE i \in (m + 1) + 1 .. to
      BY <1>6, <3>4
    <3> QED BY <3>1, <3>2, <3>3, <3>4
  <2> QED BY <1>1, <1>4, <1>5, <2>1 DEF TopTo
<1> QED BY <1>11, <1>12, <1>13 DEF TopOn

LEMMA TopTurn ==
  ASSUME NEW file, NEW s, NEW a, NEW d, Parsing(file, s, a, d), NEW m, TopTo(file, d, m),
         NEW x, x = TopRead(file, a, d, m)
  PROVE  TopGo(file, s, a, d, m, x, TopStep(s, x))
<1>1. CASE d[m + 1] # 1
  BY <1>1, TopIndented
<1>2. CASE d[m + 1] = 1
  <2>1. PICK at, im, rules, y : /\ at = Spot(a, d, m, 1) /\ y = TopStep(s, x)
                                /\ im = InOrder(TopSet(file, "import"), m)
                                /\ rules = RulesOn(file, InOrder(TopSet(file, "rule"), m))
    OBVIOUS
  <2>2. x = Reading(at, {}, im, rules)
    BY <2>1 DEF TopRead
  <2>3. x.at = at /\ x.got = rules /\ Kind(s, x) = s[at].kind
    BY <2>2, ReadingParts DEF Kind
  <2>4. /\ at \in 1 .. Len(s)
        /\ m = Len(file) => s[at].kind = "EOF"
        /\ m # Len(file) => TopNext(file, s, a, d, m, at)
    BY <1>2, <2>1, TopStands
  <2>5. CASE m = Len(file)
    <3>1. y = Stopped(x)
      BY <2>1, <2>3, <2>4, <2>5 DEF TopStep
    <3>2. ~ y.on /\ y.made = x
      BY <3>1, StopGo
    <3> QED BY <2>1, <2>3, <2>4, <2>5, <3>2 DEF TopGo
  <2>6. CASE m # Len(file)
    <3>1. TopNext(file, s, a, d, m, at)
      BY <2>4, <2>6
    <3>2. /\ m + 1 \in 1 .. Len(file) /\ s[at].kind = file[m + 1].kind /\ d[m + 1] = 1
          /\ m + 1 \in Block(file, 0) /\ at = a[m + 1]
      BY <3>1 DEF TopNext
    <3>3. CASE file[m + 1].kind = "import"
      BY <2>1, <3>1, <3>3, TopImport
    <3>4. CASE file[m + 1].kind = "rule"
      <4>1. PICK z : z = ParseRule(s, x, rules)
        OBVIOUS
      <4>2. y = Going(z)
        BY <2>1, <2>3, <3>2, <3>4, <4>1 DEF TopStep
      <4>3. y.on /\ y.made = z
        BY <4>2, StopGo
      <4>4. RuleHead(file, d, m + 1)
        BY <3>2, <3>4 DEF RuleHead
      <4>5. RuleMade(file, a, d, im, rules, m + 1, z)
        BY <2>2, <3>2, <4>1, <4>4, RuleParsed
      <4>6. TopOn(file, a, d, m, at, z)
        <5>1. CASE Wrong(file, z)
          BY <5>1 DEF TopOn
        <5>2. CASE ~ Wrong(file, z)
          <6>1. PICK to : /\ RuleEnd(file, d, m + 1, to)
                          /\ z = Reading(Spot(a, d, to, 1), {}, im,
                                         Append(rules, RuleOf(file, m + 1)))
            BY <4>5, <5>2 DEF RuleMade
          <6> QED BY <2>1, <3>1, <3>4, <6>1, TopRuleEnd
        <5> QED BY <5>1, <5>2
      <4> QED BY <2>1, <2>3, <2>4, <4>3, <4>6 DEF TopOn, TopGo
    <3>5. CASE file[m + 1].kind \notin {"import", "rule"}
      <4>1. ~ WellFormed(file)
        BY <3>2, <3>5 DEF WellFormed
      <4>2. Wrong(file, Report(s, x))
        BY <2>2, <4>1, ReportWrong
      <4>3. Wrong(file, SkipLine(s, Report(s, x)))
        BY <4>2, WrongOn
      <4>4. file[m + 1].kind \in LineKind
        BY <3>2, ParsingParts
      <4>5. Kind(s, x) \notin {"EOF", "import", "rule"}
        BY <2>3, <3>2, <3>5, <4>4 DEF LineKind
      <4>6. y = Going(SkipLine(s, Report(s, x)))
        BY <2>1, <4>5 DEF TopStep
      <4>7. Wrong(file, y.made)
        BY <4>3, <4>6, StopGo
      <4> QED BY <2>1, <2>3, <2>4, <4>7 DEF TopGo
    <3> QED BY <3>3, <3>4, <3>5
  <2> QED BY <2>5, <2>6
<1> QED BY <1>1, <1>2

-----------------------------------------------------------------------------
(* The whole file.                                                         *)
FileRead(file, a, d, y) ==
  \/ Wrong(file, y)
  \/ /\ TopTo(file, d, Len(file)) /\ y = TopRead(file, a, d, Len(file))

LEMMA TopParsed ==
  ASSUME NEW file, NEW s, NEW a, NEW d, Parsing(file, s, a, d)
  PROVE  FileRead(file, a, d, ParseTop(s, Reading(1, {}, <<>>, <<>>)))
<1>1. 0 \in 0 .. Len(file)
  BY ParsingParts
<1>2. PICK n \in Nat : n = Len(s)
  BY <1>1, TopRange
<1>3. PICK b, p : b = [s |-> s] /\ p = Reading(1, {}, <<>>, <<>>)
  OBVIOUS
<1>4. PICK g : Recurs(g, "top", b, Going(p), n) /\ ParseTop(s, p) = g[n].made
  BY <1>2, <1>3, TopLoop
<1>5. PICK R : R = {TopRead(file, a, d, m) : m \in {m \in Nat : TopTo(file, d, m)}}
  OBVIOUS
<1>6. PICK F : F = {TopRead(file, a, d, m) : m \in {m \in Nat : TopTo(file, d, m) /\ m = Len(file)}}
  OBVIOUS
<1>7. \A m : TopTo(file, d, m) => m \in Nat
  BY DEF TopTo
<1>8. ASSUME NEW x \in R
      PROVE  /\ x.at \in 1 .. n
             /\ \/ Wrong(file, Body("top", b, x).made)
                \/ /\ Body("top", b, x).on /\ Body("top", b, x).made \in R
                   /\ x.at < Body("top", b, x).made.at
                \/ ~ Body("top", b, x).on /\ Body("top", b, x).made \in F
  <2>1. PICK m \in Nat : TopTo(file, d, m) /\ x = TopRead(file, a, d, m)
    BY <1>5
  <2>2. PICK y : y = TopStep(s, x) /\ y = Body("top", b, x)
    BY <1>3 DEF Body
  <2>3. TopGo(file, s, a, d, m, x, y)
    BY <2>1, <2>2, TopTurn, Zenon
  <2>4. \A to : TopTo(file, d, to) => TopRead(file, a, d, to) \in R
    BY <1>5, <1>7
  <2>5. m = Len(file) => x \in F
    BY <1>6, <2>1
  <2> QED BY <1>2, <2>2, <2>3, <2>4, <2>5 DEF TopGo
<1>9. Goes(file, "top", b, n, R, F)
  <2>1. \A x : Body("top", b, x) = TopStep(s, x)
    BY <1>3 DEF Body
  <2>2. \A x : Wrong(file, x) => Wrong(file, Body("top", b, x).made)
    BY <1>2, <2>1, TopStepWrong
  <2> QED BY <1>8, <2>2 DEF Goes
<1>10. p \in R
  <2>1. TopTo(file, d, 0)
    <3>1. d[0] = 1 /\ 1 .. 0 = {}
      BY <1>1, TopRange
    <3> QED BY <1>1, <3>1 DEF TopTo
  <2>2. Spot(a, d, 0, 1) = 1
    <3>1. a[0] = 0 /\ d[0] = 1
      BY <1>1, TopRange
    <3> QED BY <3>1 DEF Spot
  <2>3. \A S : InOrder(S, 0) = <<>>
    BY InOrderSteps
  <2>4. RulesOn(file, <<>>) = <<>>
    BY DEF RulesOn
  <2>5. p = TopRead(file, a, d, 0)
    BY <1>3, <2>2, <2>3, <2>4 DEF TopRead
  <2> QED BY <1>5, <2>1, <2>5
<1>11. Wrong(file, g[n].made) \/ g[n].made \in F
  <2>1. "top" \in {"thens", "elifs", "top"}
    OBVIOUS
  <2> QED BY <1>4, <1>9, <1>10, <2>1, LoopGoes, Zenon
<1> QED BY <1>3, <1>4, <1>6, <1>11 DEF FileRead

(* A file of which every line is read is well formed.                      *)
LEMMA FileFits ==
  ASSUME NEW file, NEW s, NEW a, NEW d, Parsing(file, s, a, d), TopTo(file, d, Len(file))
  PROVE  WellFormed(file)
<1>1. PICK N \in Nat : N = Len(file) /\ N \in 0 .. Len(file)
  BY ParsingParts
<1>2. d[N + 1] = 1
  BY <1>1, TopRange
<1>3. \A n \in 1 .. Len(file) : LineFits(file, n)
  BY <1>1, <1>2, TopFits
<1>4. d[1] = 1
  <2>1. N # 0 => d[1] = 1
    BY <1>1 DEF TopTo
  <2>2. N = 0 => d[1] = 1
    BY <1>2
  <2> QED BY <2>1, <2>2
<1>5. ASSUME NEW i \in Block(file, 0)
      PROVE  file[i].kind \in {"import", "rule"}
  <2>1. i \in 1 .. Len(file)
    BY DEF Block
  <2>2. d[i] = 1
    BY <1>4, <2>1, TopBlock
  <2> QED BY <1>1, <2>1, <2>2 DEF TopTo
<1> QED BY <1>3, <1>4, <1>5, AllFit

(* What the lexer and the parser make of the lines of a file.              *)
ReadAsWritten(file) ==
  /\ ParseBlocks(file).errs = {} /\ ~ ParseBlocks(file).bad <=> WellFormed(file)
  /\ WellFormed(file) => /\ ParseBlocks(file).imports = ImportsOf(file)
                         /\ ParseBlocks(file).rules = RulesOf(file)

LEMMA BlocksRead ==
  ASSUME NEW file \in Seq(Line)
  PROVE  ReadAsWritten(file)
<1>1. PICK x, s : x = Lex(file) /\ s = x.tokens
  OBVIOUS
<1>2. PICK st, bad, a, d : Laid(file, x, st, bad, a, d)
  BY <1>1, LexLaid
<1>3. PICK p, end : p = Reading(1, {}, <<>>, <<>>) /\ end = ParseTop(s, p)
  OBVIOUS
<1>4. ParseBlocks(file) = [imports |-> end.imports, rules |-> end.got, errs |-> end.errs,
                           bad |-> x.bad]
  <2>1. p = [at |-> 1, errs |-> {}, imports |-> <<>>, got |-> <<>>]
    BY <1>3 DEF Reading
  <2> QED BY <1>1, <1>3, <2>1, Zenon DEF ParseBlocks, ParseLexed
<1>5. /\ ParseBlocks(file).imports = end.imports /\ ParseBlocks(file).rules = end.got
      /\ ParseBlocks(file).errs = end.errs /\ ParseBlocks(file).bad = x.bad
  BY <1>4
<1>6. CASE x.bad
  <2>1. ~ WellFormed(file)
    BY <1>2, <1>6, BadBlocks
  <2> QED BY <1>5, <1>6, <2>1 DEF ReadAsWritten
<1>7. CASE ~ x.bad
  <2>1. Parsing(file, s, a, d)
    <3>1. BlocksAsLaid(file, d)
      BY <1>2, <1>7, GoodBlocks
    <3> QED BY <1>1, <1>2, <3>1 DEF Laid, Parsing
  <2>2. FileRead(file, a, d, end)
    BY <1>3, <2>1, TopParsed
  <2>3. CASE Wrong(file, end)
    <3>1. ~ WellFormed(file)
      BY <2>3 DEF Wrong
    <3>2. PICK at, errs, imports, got : end = Reading(at, errs, imports, got) /\ errs # {}
      BY <2>3 DEF Wrong
    <3>3. end.errs # {}
      BY <3>2, ReadingParts
    <3> QED BY <1>5, <3>1, <3>3 DEF ReadAsWritten
  <2>4. CASE ~ Wrong(file, end)
    <3>1. TopTo(file, d, Len(file)) /\ end = TopRead(file, a, d, Len(file))
      BY <2>2, <2>4 DEF FileRead
    <3>2. WellFormed(file)
      BY <2>1, <3>1, FileFits
    <3>3. /\ end.errs = {} /\ end.imports = InOrder(TopSet(file, "import"), Len(file))
          /\ end.got = RulesOn(file, InOrder(TopSet(file, "rule"), Len(file)))
      BY <3>1, ReadingParts DEF TopRead
    <3>4. end.imports = ImportsOf(file)
      BY <3>3 DEF ImportsOf, TopLines, TopSet
    <3>5. end.got = RulesOf(file)
      <4>1. PICK q : q = TopLines(file, "rule")
        OBVIOUS
      <4>2. q = InOrder(TopSet(file, "rule"), Len(file))
        BY <4>1 DEF TopLines, TopSet
      <4>3. RulesOn(file, q) = RulesOf(file)
        BY <4>1 DEF RulesOn, RuleOf, BranchesOf, BranchOf, RulesOf
      <4> QED BY <3>3, <4>2, <4>3
    <3> QED BY <1>5, <1>7, <3>2, <3>3, <3>4, <3>5 DEF ReadAsWritten
  <2> QED BY <2>3, <2>4
<1> QED BY <1>6, <1>7

-----------------------------------------------------------------------------
(* The lines of a file are always lines, and what was parsed and whether   *)
(* it is accepted are those of the lines as they stand.                    *)
FileWritten ==
  /\ task \in Tasks
  /\ lines \in Seq(Line)
  /\ task.kind = "file" => /\ parsed = ParseBlocks(lines)
                           /\ accepted = FileAccepted(parsed)

LEMMA FileWrittenInvariant == Spec => []FileWritten
<1>1. Init => FileWritten
  BY DEF Init, FileWritten, Parse, Accepts
<1>2. FileWritten /\ [Next]_vars => FileWritten'
  <2> SUFFICES ASSUME FileWritten, [Next]_vars
               PROVE  FileWritten'
    OBVIOUS
  <2>1. task \in Task
    BY TasksAssumption DEF FileWritten
  <2>2. CASE AddLine
    <3>1. PICK kind \in LineKind, indent \in task.indents :
            lines' = Append(lines, [indent |-> indent, kind |-> kind])
      BY <2>2 DEF AddLine
    <3>2. [indent |-> indent, kind |-> kind] \in Line
      BY <2>1 DEF Line, Task
    <3>3. lines' \in Seq(Line)
      BY <3>1, <3>2 DEF FileWritten
    <3> QED BY <2>2, <3>3 DEF AddLine, FileWritten, Parse, Accepts
  <2>3. CASE AddWord
    BY <2>3 DEF AddWord, FileWritten
  <2>4. CASE UNCHANGED vars
    BY <2>4 DEF vars, FileWritten
  <2> QED BY <2>2, <2>3, <2>4 DEF Next
<1> QED BY <1>1, <1>2, PTL DEF Spec

(* Whatever its lines, a file is accepted exactly if it has the shape of   *)
(* rules, branches and actions that its indentation says, and then these   *)
(* are its imports, rules, branches and actions.                           *)
THEOREM BlocksFollowIndentationAlways == Spec => []BlocksFollowIndentation
<1>1. FileWritten => BlocksFollowIndentation
  <2> SUFFICES ASSUME FileWritten, task.kind = "file"
               PROVE  /\ accepted <=> WellFormed(lines)
                      /\ accepted => /\ parsed.imports = ImportsOf(lines)
                                     /\ parsed.rules = RulesOf(lines)
    BY DEF BlocksFollowIndentation
  <2>1. lines \in Seq(Line) /\ parsed = ParseBlocks(lines)
    BY DEF FileWritten
  <2>2. accepted <=> parsed.errs = {} /\ ~ parsed.bad
    BY DEF FileWritten, FileAccepted
  <2>3. ReadAsWritten(lines)
    BY <2>1, BlocksRead
  <2> QED BY <2>1, <2>2, <2>3 DEF ReadAsWritten
<1> QED BY <1>1, FileWrittenInvariant, PTL
=============================================================================

--------------------------- MODULE FrontEndProofs ---------------------------
(***************************************************************************)
(* What holds of every text the front end accepts, however deep and long.  *)
(***************************************************************************)
EXTENDS FrontEnd, WellFoundedInduction, SequenceTheorems, FiniteSetTheorems, TLAPS

(* What holds of 0 and of the successors of what it holds of holds of      *)
(* every natural number.                                                   *)
LEMMA Successors ==
  ASSUME NEW S, 0 \in S, \A n \in Nat : n \in S => n + 1 \in S
  PROVE  \A n \in Nat : n \in S
<1> DEFINE R == {ss \in Nat \X Nat : ss[1] < ss[2]}
           T == {n \in Nat : n \notin S}
<1>1. R = OpToRel(<, Nat)
  BY DEF OpToRel
<1>2. IsWellFoundedOn(R, Nat)
  BY <1>1, NatLessThanWellFounded, Zenon
<1>3. \A y, z \in Nat : y < z => <<y, z>> \in R
  OBVIOUS
<1> HIDE DEF R
<1>4. ASSUME T # {}
      PROVE  FALSE
  <2>1. PICK x \in T : \A y \in T : ~ (<<y, x>> \in R)
    BY <1>2, <1>4, WFMin
  <2>2. x \in Nat /\ x # 0 /\ x - 1 \in Nat /\ x - 1 < x
    OBVIOUS
  <2>3. x - 1 \notin T
    BY <1>3, <2>1, <2>2
  <2>4. (x - 1) + 1 \in S
    BY <2>2, <2>3
  <2> QED BY <2>2, <2>4
<1> QED BY <1>4

-----------------------------------------------------------------------------
(* The recursions of the front end: what each makes in turn k of what it   *)
(* made in the turn before.  The loops of the parser turn until their body *)
(* stops; the walks over a tree go one level deeper.                       *)
FromKids(t, node, p) ==
  [i \in 1 .. Len(At(node, p).kids) |-> t[Append(p, i)]]

Body(which, a, q) ==
  CASE which = "args"    -> ParseArg(a.s, q, a.sub)
    [] which = "postfix" -> PostfixStep(a.s, q, a.sub)
    [] which = "infix"   -> InfixStep(a.s, q, a.bp, a.sub)
    [] which = "verb"    -> VerbArgsStep(a.s, q)

Turn(which, a, k, x) ==
  CASE which = "at"      -> x.kids[a.path[k]]
    [] which \in {"args", "postfix", "infix", "verb"} ->
         IF x.on THEN Body(which, a, x.made) ELSE x
    [] which = "parse"   ->
         [c \in Nat \X Nat |-> ParseFrom(a.s, ParsePrefix(a.s, c[1], x), c[2], x)]
    [] which = "types"   ->
         [p \in Path |-> InferNode(At(a.node, p), FromKids(x, a.node, p), a.e)]
    [] which = "values"  ->
         [p \in Path |-> EvalNode(At(a.node, p), FromKids(x, a.node, p), a.e)]
    [] which = "reached" -> x \union UNION {Evaluated(y) : y \in x}
    [] which = "walked"  -> x \union UNION {Under(y) : y \in x}
    [] which = "total"   -> Plus(x, a.s[k])
    [] which = "ema"     -> Plus(Times(Plus(a.s[k + 1], Minus(x)), a.weight), x)

Recurs(f, which, a, base, n) ==
  f = [k \in 0 .. n |-> IF k = 0 THEN base ELSE Turn(which, a, k, f[k - 1])]

LEMMA Recursion ==
  ASSUME NEW which, NEW a, NEW base, NEW N \in Nat
  PROVE  \E f : Recurs(f, which, a, base, N)
<1> DEFINE Value(f, k) == IF k = 0 THEN base ELSE Turn(which, a, k, f[k - 1])
           S == {m \in Nat : \E f : Recurs(f, which, a, base, m)}
<1>1. 0 \in S
  <2>1. PICK f : f = [k \in 0 .. 0 |-> base]
    OBVIOUS
  <2>2. f = [k \in 0 .. 0 |-> Value(f, k)]
    BY <2>1
  <2> QED BY <2>2 DEF Recurs
<1>2. ASSUME NEW m \in Nat, m \in S
      PROVE  m + 1 \in S
  <2>1. PICK f : Recurs(f, which, a, base, m)
    BY <1>2
  <2>2. f = [k \in 0 .. m |-> Value(f, k)]
    BY <2>1 DEF Recurs
  <2>3. PICK g : g = [k \in 0 .. m + 1 |-> IF k = m + 1 THEN Value(f, k) ELSE f[k]]
    OBVIOUS
  <2>4. ASSUME NEW k \in 0 .. m + 1
        PROVE  g[k] = Value(g, k)
    <3>1. k # 0 => g[k - 1] = f[k - 1]
      BY <2>3
    <3>2. Value(g, k) = Value(f, k)
      BY <3>1
    <3>3. k # m + 1 => k \in 0 .. m /\ f[k] = Value(f, k)
      BY <2>2
    <3> QED BY <2>3, <3>2, <3>3
  <2>5. g = [k \in 0 .. m + 1 |-> Value(g, k)]
    BY <2>3, <2>4
  <2> QED BY <2>5 DEF Recurs
<1>3. \A m \in Nat : m \in S => m + 1 \in S
  BY <1>2
<1> HIDE DEF S
<1>4. N \in S
  BY <1>1, <1>3, Successors
<1> QED BY <1>4 DEF S

LEMMA RecursionTurns ==
  ASSUME NEW which, NEW a, NEW base, NEW N \in Nat, NEW f, Recurs(f, which, a, base, N)
  PROVE  /\ f[0] = base
         /\ \A k \in 1 .. N : f[k] = Turn(which, a, k, f[k - 1])
<1>1. \A k \in 0 .. N : f[k] = IF k = 0 THEN base ELSE Turn(which, a, k, f[k - 1])
  BY Zenon DEF Recurs
<1> QED BY <1>1

-----------------------------------------------------------------------------
(* Ways through a tree.                                                    *)
LEMMA AtTurns ==
  ASSUME NEW node, NEW path \in Path
  PROVE  \E at : /\ at[0] = node
                 /\ \A k \in 1 .. Len(path) : at[k] = at[k - 1].kids[path[k]]
                 /\ At(node, path) = at[Len(path)]
<1>1. Len(path) \in Nat
  BY DEF Path
<1> DEFINE a == [path |-> path]
<1>2. PICK at : at = CHOOSE f : Recurs(f, "at", a, node, Len(path))
  OBVIOUS
<1>3. Recurs(at, "at", a, node, Len(path))
  BY <1>1, <1>2, Recursion
<1>4. \A k \in 1 .. Len(path) : Turn("at", a, k, at[k - 1]) = at[k - 1].kids[path[k]]
  BY DEF Turn
<1>5. PICK f : f = CHOOSE x : x = [k \in 0 .. Len(path) |-> IF k = 0 THEN node ELSE x[k - 1].kids[path[k]]]
  OBVIOUS
<1>6. at = [k \in 0 .. Len(path) |-> IF k = 0 THEN node ELSE at[k - 1].kids[path[k]]]
  BY <1>3, <1>4 DEF Recurs
<1>7. f = [k \in 0 .. Len(path) |-> IF k = 0 THEN node ELSE f[k - 1].kids[path[k]]]
  BY <1>5, <1>6, Zenon
<1>8. At(node, path) = f[Len(path)]
  BY <1>5, Zenon DEF At
<1>9. \A k \in 0 .. Len(path) : f[k] = IF k = 0 THEN node ELSE f[k - 1].kids[path[k]]
  BY <1>7, Zenon
<1> QED BY <1>1, <1>8, <1>9

LEMMA AtHere ==
  ASSUME NEW node
  PROVE  <<>> \in Path /\ At(node, <<>>) = node
<1>1. <<>> \in Path /\ Len(<<>>) = 0
  BY DEF Path
<1> QED BY <1>1, AtTurns

LEMMA AtKid ==
  ASSUME NEW node, NEW i \in Nat, NEW p \in Path
  PROVE  <<i>> \o p \in Path /\ At(node, <<i>> \o p) = At(node.kids[i], p)
<1> DEFINE q == <<i>> \o p
<1>1. /\ q \in Path /\ Len(p) \in Nat /\ Len(q) = Len(p) + 1 /\ q[1] = i
      /\ \A k \in 1 .. Len(p) : q[k + 1] = p[k]
  BY DEF Path
<1> HIDE DEF q
<1>2. PICK at : /\ at[0] = node
                /\ \A k \in 1 .. Len(q) : at[k] = at[k - 1].kids[q[k]]
                /\ At(node, q) = at[Len(q)]
  BY <1>1, AtTurns
<1>3. PICK to : /\ to[0] = node.kids[i]
                /\ \A k \in 1 .. Len(p) : to[k] = to[k - 1].kids[p[k]]
                /\ At(node.kids[i], p) = to[Len(p)]
  BY AtTurns
<1> DEFINE S == {k \in Nat : k <= Len(p) => at[k + 1] = to[k]}
<1>4. 0 \in S
  BY <1>1, <1>2, <1>3
<1>5. ASSUME NEW k \in Nat, k \in S
      PROVE  k + 1 \in S
  <2>1. CASE k + 1 <= Len(p)
    <3>1. at[k + 2] = at[k + 1].kids[q[k + 2]]
      <4>1. k + 2 \in 1 .. Len(q) /\ (k + 2) - 1 = k + 1
        BY <1>1, <2>1
      <4> QED BY <1>2, <4>1
    <3>2. to[k + 1] = to[k].kids[p[k + 1]]
      <4>1. k + 1 \in 1 .. Len(p) /\ (k + 1) - 1 = k
        BY <1>1, <2>1
      <4> QED BY <1>3, <4>1
    <3>3. q[k + 2] = p[k + 1]
      <4>1. k + 1 \in 1 .. Len(p) /\ (k + 1) + 1 = k + 2
        BY <1>1, <2>1
      <4> QED BY <1>1, <4>1
    <3>4. at[k + 1] = to[k]
      BY <1>5, <2>1
    <3> QED BY <3>1, <3>2, <3>3, <3>4
  <2>2. CASE ~ (k + 1 <= Len(p))
    BY <2>2
  <2> QED BY <2>1, <2>2
<1>6. \A k \in Nat : k \in S => k + 1 \in S
  BY <1>5
<1> HIDE DEF S
<1>7. Len(p) \in S
  BY <1>1, <1>4, <1>6, Successors
<1>8. at[Len(p) + 1] = to[Len(p)]
  BY <1>1, <1>7 DEF S
<1> QED BY <1>1, <1>2, <1>3, <1>8 DEF q

LEMMA AtLast ==
  ASSUME NEW node, NEW p \in Path, NEW i \in Nat
  PROVE  Append(p, i) \in Path /\ At(node, Append(p, i)) = At(node, p).kids[i]
<1> DEFINE q == Append(p, i)
<1>1. /\ q \in Path /\ Len(p) \in Nat /\ Len(q) = Len(p) + 1 /\ q[Len(p) + 1] = i
      /\ \A k \in 1 .. Len(p) : q[k] = p[k]
  BY DEF Path
<1> HIDE DEF q
<1>2. PICK at : /\ at[0] = node
                /\ \A k \in 1 .. Len(q) : at[k] = at[k - 1].kids[q[k]]
                /\ At(node, q) = at[Len(q)]
  BY <1>1, AtTurns
<1>3. PICK to : /\ to[0] = node
                /\ \A k \in 1 .. Len(p) : to[k] = to[k - 1].kids[p[k]]
                /\ At(node, p) = to[Len(p)]
  BY AtTurns
<1> DEFINE S == {k \in Nat : k <= Len(p) => at[k] = to[k]}
<1>4. 0 \in S
  BY <1>2, <1>3
<1>5. ASSUME NEW k \in Nat, k \in S
      PROVE  k + 1 \in S
  <2>1. CASE k + 1 <= Len(p)
    <3>1. k + 1 \in 1 .. Len(p) /\ k + 1 \in 1 .. Len(q) /\ (k + 1) - 1 = k
      BY <1>1, <2>1
    <3>2. at[k + 1] = at[k].kids[q[k + 1]] /\ to[k + 1] = to[k].kids[p[k + 1]]
      BY <1>2, <1>3, <3>1
    <3>3. q[k + 1] = p[k + 1] /\ at[k] = to[k]
      BY <1>1, <1>5, <2>1, <3>1
    <3> QED BY <3>2, <3>3
  <2>2. CASE ~ (k + 1 <= Len(p))
    BY <2>2
  <2> QED BY <2>1, <2>2
<1>6. \A k \in Nat : k \in S => k + 1 \in S
  BY <1>5
<1> HIDE DEF S
<1>7. Len(p) \in S
  BY <1>1, <1>4, <1>6, Successors
<1>8. at[Len(p)] = to[Len(p)]
  BY <1>1, <1>7 DEF S
<1>9. at[Len(q)] = at[Len(p)].kids[i]
  <2>1. Len(q) \in 1 .. Len(q) /\ Len(q) - 1 = Len(p)
    BY <1>1
  <2> QED BY <1>1, <1>2, <2>1
<1> QED BY <1>1, <1>2, <1>3, <1>8, <1>9 DEF q

-----------------------------------------------------------------------------
(* Trees.  The nodes of a tree are a set in which every node has its kids: *)
(* one node of a literal or a name, one kid of an attribute or an operator *)
(* before its operand, two of an operator between its operands; a call has *)
(* what is called as its first.                                            *)
HasShape(kind, tok, n) ==
  \/ kind = "literal" /\ tok \in Literal /\ n = 0
  \/ kind = "name" /\ tok \in Ident /\ n = 0
  \/ kind = "attribute" /\ n = 1
  \/ kind = "unary" /\ tok \in {"not", "+", "-"} /\ n = 1
  \/ kind = "binary" /\ tok \notin Comparison /\ n = 2
  \/ kind = "compare" /\ tok \in Comparison /\ n = 2
  \/ kind = "call" /\ n > 0

IsNode(x, T) ==
  /\ x \in [kind: {x.kind}, tok: {x.tok}, kids: Seq(T), kw: Seq(T)]
  /\ HasShape(x.kind, x.tok, Len(x.kids))
  /\ x.kind # "call" => x.kw = <<>>

Grown(T) == \A x \in T : IsNode(x, T)

IsTree(x) == \E T : x \in T /\ Grown(T)

(* Trees side by side.                                                     *)
Grove(s) == \E T : s \in Seq(T) /\ Grown(T)

LEMMA NodeInMore ==
  ASSUME NEW T, NEW U, T \subseteq U, NEW x, IsNode(x, T)
  PROVE  IsNode(x, U)
<1>1. \A s \in Seq(T) : s \in Seq(U)
  OBVIOUS
<1> QED BY <1>1 DEF IsNode

LEMMA GrownTogether ==
  ASSUME NEW T, NEW U, Grown(T), Grown(U)
  PROVE  Grown(T \union U)
<1>1. ASSUME NEW x \in T \union U
      PROVE  IsNode(x, T \union U)
  <2>1. CASE x \in T
    BY <2>1, NodeInMore DEF Grown
  <2>2. CASE x \in U
    BY <2>2, NodeInMore DEF Grown
  <2> QED BY <2>1, <2>2
<1> QED BY <1>1 DEF Grown

LEMMA Groves ==
  /\ Grove(<<>>)
  /\ \A s, x : Grove(s) /\ IsTree(x) => Grove(Append(s, x))
  /\ \A x : IsTree(x) => Grove(<<x>>)
  /\ \A x, y : IsTree(x) /\ IsTree(y) => Grove(<<x, y>>)
<1>1. Grove(<<>>)
  <2>1. Grown({}) /\ <<>> \in Seq({})
    BY DEF Grown
  <2> QED BY <2>1 DEF Grove
<1>2. ASSUME NEW s, NEW x, Grove(s), IsTree(x)
      PROVE  Grove(Append(s, x))
  <2>1. PICK T : s \in Seq(T) /\ Grown(T)
    BY <1>2 DEF Grove
  <2>2. PICK U : x \in U /\ Grown(U)
    BY <1>2 DEF IsTree
  <2>3. Append(s, x) \in Seq(T \union U)
    BY <2>1, <2>2
  <2>4. Grown(T \union U)
    BY <2>1, <2>2, GrownTogether
  <2> QED BY <2>3, <2>4 DEF Grove
<1>3. ASSUME NEW x, IsTree(x)
      PROVE  Grove(<<x>>)
  <2>1. <<x>> = Append(<<>>, x)
    OBVIOUS
  <2> QED BY <1>1, <1>2, <1>3, <2>1
<1>4. ASSUME NEW x, NEW y, IsTree(x), IsTree(y)
      PROVE  Grove(<<x, y>>)
  <2>1. <<x, y>> = Append(<<x>>, y)
    OBVIOUS
  <2> QED BY <1>2, <1>3, <1>4, <2>1
<1> QED BY <1>1, <1>2, <1>3, <1>4

LEMMA MakeTree ==
  ASSUME NEW kind, NEW tok, NEW kids, NEW kw, Grove(kids), Grove(kw),
         HasShape(kind, tok, Len(kids)), kind # "call" => kw = <<>>
  PROVE  IsTree([kind |-> kind, tok |-> tok, kids |-> kids, kw |-> kw])
<1> DEFINE x == [kind |-> kind, tok |-> tok, kids |-> kids, kw |-> kw]
<1>1. PICK T : kids \in Seq(T) /\ Grown(T)
  BY DEF Grove
<1>2. PICK U : kw \in Seq(U) /\ Grown(U)
  BY DEF Grove
<1> DEFINE V == (T \union U) \union {x}
<1>3. kids \in Seq(V) /\ kw \in Seq(V)
  BY <1>1, <1>2
<1>4. IsNode(x, V)
  BY <1>3 DEF IsNode
<1>5. ASSUME NEW y \in V
      PROVE  IsNode(y, V)
  <2>1. CASE y = x
    BY <1>4, <2>1
  <2>2. CASE y \in T \union U
    <3>1. IsNode(y, T \union U)
      BY <1>1, <1>2, <2>2, GrownTogether DEF Grown
    <3>2. T \union U \subseteq V
      OBVIOUS
    <3> HIDE DEF V
    <3> QED BY <3>1, <3>2, NodeInMore
  <2> QED BY <2>1, <2>2
<1>6. x \in V
  OBVIOUS
<1> HIDE DEF V, x
<1>7. IsTree(x)
  BY <1>5, <1>6 DEF IsTree, Grown
<1> QED BY <1>7 DEF x

LEMMA TreeParts ==
  ASSUME NEW x, IsTree(x)
  PROVE  /\ x = [kind |-> x.kind, tok |-> x.tok, kids |-> x.kids, kw |-> x.kw]
         /\ x # NoNode /\ Len(x.kids) \in Nat
         /\ HasShape(x.kind, x.tok, Len(x.kids))
         /\ Grove(x.kids) /\ Grove(x.kw)
         /\ x.kind # "call" => x.kw = <<>>
<1>1. PICK T : x \in T /\ Grown(T)
  BY DEF IsTree
<1>2. IsNode(x, T)
  BY <1>1 DEF Grown
<1>3. x \in [kind: {x.kind}, tok: {x.tok}, kids: Seq(T), kw: Seq(T)]
  BY <1>2 DEF IsNode
<1>4. x = [kind |-> x.kind, tok |-> x.tok, kids |-> x.kids, kw |-> x.kw]
      /\ x.kids \in Seq(T) /\ x.kw \in Seq(T)
  BY <1>3
<1>5. HasShape(x.kind, x.tok, Len(x.kids)) /\ (x.kind # "call" => x.kw = <<>>)
  BY <1>2 DEF IsNode
<1>6. x.kind # NoNode.kind
  BY <1>5 DEF HasShape, NoNode, Node
<1>7. Grove(x.kids) /\ Grove(x.kw)
  BY <1>1, <1>4 DEF Grove
<1> QED BY <1>4, <1>5, <1>6, <1>7

-----------------------------------------------------------------------------
(* What the parser makes: a tree, or nothing, and a position.              *)
IsMade(q) == q = Made(q.node, q.at, q.errs) /\ q.at \in Nat

Grew(q) == IsMade(q) /\ IsTree(q.node)

Whole(q) == IsMade(q) /\ (q.node = NoNode \/ IsTree(q.node))

Subs(sub) == \A i, bp \in Nat : Whole(sub[<<i, bp>>])

LEMMA MadeParts ==
  ASSUME NEW node, NEW at \in Nat, NEW errs
  PROVE  /\ IsMade(Made(node, at, errs))
         /\ Made(node, at, errs).node = node /\ Made(node, at, errs).at = at
BY DEF IsMade, Made

LEMMA MadeWith ==
  ASSUME NEW p, IsMade(p), NEW x
  PROVE  /\ [p EXCEPT !.at = x] = Made(p.node, x, p.errs)
         /\ [p EXCEPT !.errs = x] = Made(p.node, p.at, x)
         /\ [p EXCEPT !.node = x] = Made(x, p.at, p.errs)
<1>1. p = [node |-> p.node, at |-> p.at, errs |-> p.errs]
  BY DEF IsMade, Made
<1> QED BY <1>1 DEF Made

LEMMA ExpectedMade ==
  ASSUME NEW s, NEW tok, NEW p, IsMade(p)
  PROVE  IsMade(Expected(s, tok, p)) /\ Expected(s, tok, p).node = p.node
<1>1. \/ Expected(s, tok, p) = Made(p.node, p.at + 1, p.errs)
      \/ Expected(s, tok, p) = Made(p.node, p.at, p.errs \union {p.at})
  BY MadeWith DEF Expected
<1>2. p.at \in Nat /\ p.at + 1 \in Nat
  BY DEF IsMade
<1> QED BY <1>1, <1>2, MadeParts

LEMMA TreeWith ==
  ASSUME NEW x, IsTree(x), NEW y
  PROVE  /\ [x EXCEPT !.kids = y] = [kind |-> x.kind, tok |-> x.tok, kids |-> y, kw |-> x.kw]
         /\ [x EXCEPT !.kw = y] = [kind |-> x.kind, tok |-> x.tok, kids |-> x.kids, kw |-> y]
<1>1. x = [kind |-> x.kind, tok |-> x.tok, kids |-> x.kids, kw |-> x.kw]
  BY TreeParts
<1> QED BY <1>1

LEMMA TreeOfOne ==
  ASSUME NEW kind, kind \in {"unary", "attribute", "call"}, NEW tok, NEW x, IsTree(x),
         kind = "unary" => tok \in {"not", "+", "-"}
  PROVE  IsTree(Node(kind, tok, <<x>>)) /\ Node(kind, tok, <<x>>).kind = kind
<1>1. Grove(<<x>>) /\ Grove(<<>>) /\ Len(<<x>>) = 1
  BY Groves
<1>3. HasShape(kind, tok, 1)
  BY DEF HasShape
<1>4. HasShape(kind, tok, Len(<<x>>))
  BY <1>1, <1>3
<1> QED BY <1>1, <1>4, MakeTree DEF Node

LEMMA TreeOfNone ==
  ASSUME NEW kind, kind \in {"literal", "name"}, NEW tok,
         kind = "literal" => tok \in Literal, kind = "name" => tok \in Ident
  PROVE  IsTree(Node(kind, tok, <<>>))
<1>1. Grove(<<>>) /\ Len(<<>>) = 0
  BY Groves
<1>3. HasShape(kind, tok, 0)
  BY DEF HasShape
<1>4. HasShape(kind, tok, Len(<<>>))
  BY <1>1, <1>3
<1> QED BY <1>1, <1>4, MakeTree DEF Node

LEMMA TreeOfTwo ==
  ASSUME NEW kind, kind \in {"binary", "compare"}, NEW tok, NEW x, IsTree(x), NEW y, IsTree(y),
         kind = "compare" <=> tok \in Comparison
  PROVE  IsTree(Node(kind, tok, <<x, y>>))
<1>1. Grove(<<x, y>>) /\ Grove(<<>>) /\ Len(<<x, y>>) = 2
  BY Groves
<1>3. HasShape(kind, tok, 2)
  BY DEF HasShape
<1>4. HasShape(kind, tok, Len(<<x, y>>))
  BY <1>1, <1>3
<1> QED BY <1>1, <1>4, MakeTree DEF Node

LEMMA PrimaryWhole ==
  ASSUME NEW s, NEW i \in Nat, NEW sub, Subs(sub)
  PROVE  Whole(ParsePrimary(s, i, sub))
<1>0. PICK t : t = Peek(s, i)
  OBVIOUS
<1>1. CASE t \in Literal
  <2>1. IsTree(Node("literal", t, <<>>))
    BY <1>1, TreeOfNone
  <2>2. ParsePrimary(s, i, sub) = Made(Node("literal", t, <<>>), i + 1, {})
    BY <1>0, <1>1, TokensAssumption DEF ParsePrimary
  <2> QED BY <2>1, <2>2, MadeParts DEF Whole
<1>2. CASE t \in Ident
  <2>1. IsTree(Node("name", t, <<>>))
    BY <1>2, TreeOfNone
  <2>2. ParsePrimary(s, i, sub) = Made(Node("name", t, <<>>), i + 1, {})
    BY <1>0, <1>2, TokensAssumption DEF ParsePrimary
  <2> QED BY <2>1, <2>2, MadeParts DEF Whole
<1>3. CASE t \notin Literal /\ t \notin Ident /\ t = "("
  <2>1. ParsePrimary(s, i, sub) = Expected(s, ")", sub[<<i + 1, 0>>])
    BY <1>0, <1>3 DEF ParsePrimary
  <2>2. Whole(sub[<<i + 1, 0>>])
    BY DEF Subs
  <2> QED BY <2>1, <2>2, ExpectedMade DEF Whole
<1>4. CASE t \notin Literal /\ t \notin Ident /\ t # "("
  <2>1. ParsePrimary(s, i, sub) = Made(NoNode, Next1(s, i), {i})
    BY <1>0, <1>4 DEF ParsePrimary
  <2>2. Next1(s, i) \in Nat
    BY DEF Next1
  <2> QED BY <2>1, <2>2, MadeParts DEF Whole
<1> QED BY <1>1, <1>2, <1>3, <1>4

LEMMA PrefixWhole ==
  ASSUME NEW s, NEW i \in Nat, NEW sub, Subs(sub)
  PROVE  Whole(ParsePrefix(s, i, sub))
<1>1. CASE Peek(s, i) \in {"not", "+", "-"}
  <2>1. PICK p : p = sub[<<i + 1, 60>>]
    OBVIOUS
  <2>2. Whole(p) /\ ParsePrefix(s, i, sub) = OfOperand(Peek(s, i), p)
    BY <1>1, <2>1 DEF Subs, ParsePrefix
  <2>3. CASE p.node = NoNode
    BY <2>2, <2>3 DEF OfOperand
  <2>4. CASE p.node # NoNode
    <3>1. IsTree(Node("unary", Peek(s, i), <<p.node>>))
      BY <1>1, <2>2, <2>4, TreeOfOne DEF Whole
    <3>2. OfOperand(Peek(s, i), p) = Made(Node("unary", Peek(s, i), <<p.node>>), p.at, p.errs)
      BY <2>2, <2>4 DEF OfOperand, Whole, IsMade, Made
    <3>3. p.at \in Nat
      BY <2>2 DEF Whole, IsMade
    <3> QED BY <2>2, <3>1, <3>2, <3>3, MadeParts DEF Whole
  <2> QED BY <2>3, <2>4
<1>2. CASE Peek(s, i) \notin {"not", "+", "-"}
  BY <1>2, PrimaryWhole DEF ParsePrefix
<1> QED BY <1>1, <1>2

(* A call being parsed stays a call.                                       *)
Calling(q) == Grew(q) /\ q.node.kind = "call"

LEMMA CallingOn ==
  ASSUME NEW d, Calling(d)
  PROVE  Calling([d EXCEPT !.at = @ + 1])
<1>1. IsMade(d) /\ d.at + 1 \in Nat /\ IsTree(d.node) /\ d.node.kind = "call"
  BY DEF Calling, Grew, IsMade
<1>2. PICK e : e = Made(d.node, d.at + 1, d.errs)
  OBVIOUS
<1>3. [d EXCEPT !.at = @ + 1] = e
  BY <1>1, <1>2, MadeWith, Zenon
<1>4. IsMade(e) /\ e.node = d.node
  BY <1>1, <1>2, MadeParts
<1>5. Grew(e) /\ e.node.kind = "call"
  BY <1>1, <1>4, Zenon DEF Grew
<1> QED BY <1>3, <1>5, Zenon DEF Calling

LEMMA ArgMade ==
  ASSUME NEW s, NEW c, NEW sub, NEW d,
         LET named == Peek(s, c.at) \in Ident /\ Peek(s, c.at + 1) = "="
         IN  d = WithValue(c, named, sub[<<IF named THEN c.at + 2 ELSE c.at, 0>>]),
         Calling(d)
  PROVE  Calling(ParseArg(s, c, sub).made) /\ ParseArg(s, c, sub).on \in BOOLEAN
<1>1. ParseArg(s, c, sub) = IF Peek(s, d.at) = "," THEN Going([d EXCEPT !.at = @ + 1]) ELSE Stopped(d)
  BY Zenon DEF ParseArg
<1>2. PICK e : e = [d EXCEPT !.at = @ + 1]
  OBVIOUS
<1>3. Calling(e)
  BY <1>2, CallingOn, Zenon
<1>4. ParseArg(s, c, sub) \in {Going(e), Stopped(d)}
  BY <1>1, <1>2
<1>5. /\ Going(e).made = e /\ Going(e).on \in BOOLEAN
      /\ Stopped(d).made = d /\ Stopped(d).on \in BOOLEAN
  BY DEF Going, Stopped
<1> QED BY <1>3, <1>4, <1>5

LEMMA ValueCalling ==
  ASSUME NEW c, Calling(c), NEW named \in BOOLEAN, NEW v, Whole(v)
  PROVE  Calling(WithValue(c, named, v))
<1>1. IsTree(c.node) /\ c.node.kind = "call" /\ v.at \in Nat
  BY DEF Calling, Grew, Whole, IsMade
<1>2. PICK d : d = WithValue(c, named, v)
  OBVIOUS
<1>3. ASSUME NEW node, IsTree(node), node.kind = "call", d = Made(node, v.at, c.errs \union v.errs)
      PROVE  Calling(d)
  BY <1>1, <1>3, MadeParts DEF Calling, Grew
<1>4. PICK x : x = c.node
  OBVIOUS
<1>5. /\ IsTree(x) /\ x.kind = "call" /\ Grove(x.kids) /\ Grove(x.kw)
      /\ Len(x.kids) \in Nat /\ Len(x.kids) > 0
  BY <1>1, <1>4, TreeParts DEF HasShape
<1>6. CASE v.node = NoNode
  <2>1. d = Made(c.node, v.at, c.errs \union v.errs)
    BY <1>2, <1>6 DEF WithValue
  <2> QED BY <1>1, <1>2, <1>3, <2>1
<1>7. CASE v.node # NoNode /\ named
  <2>1. PICK node : node = [x EXCEPT !.kw = Append(@, v.node)]
    OBVIOUS
  <2>2. d = Made(node, v.at, c.errs \union v.errs)
    BY <1>2, <1>4, <1>7, <2>1 DEF WithValue
  <2>3. node = [kind |-> x.kind, tok |-> x.tok, kids |-> x.kids, kw |-> Append(x.kw, v.node)]
    BY <1>5, <2>1, TreeWith
  <2>4. IsTree(v.node)
    BY <1>7 DEF Whole
  <2>5. Grove(Append(x.kw, v.node))
    BY <1>5, <2>4, Groves
  <2>6. HasShape(x.kind, x.tok, Len(x.kids))
    BY <1>5, TreeParts
  <2>7. IsTree(node) /\ node.kind = "call"
    BY <1>5, <2>3, <2>5, <2>6, MakeTree
  <2> QED BY <1>2, <1>3, <2>2, <2>7
<1>8. CASE v.node # NoNode /\ ~ named
  <2>1. PICK node : node = [x EXCEPT !.kids = Append(@, v.node)]
    OBVIOUS
  <2>2. d = Made(node, v.at, c.errs \union v.errs)
    BY <1>2, <1>4, <1>8, <2>1 DEF WithValue
  <2>3. node = [kind |-> x.kind, tok |-> x.tok, kids |-> Append(x.kids, v.node), kw |-> x.kw]
    BY <1>5, <2>1, TreeWith
  <2>4. IsTree(v.node)
    BY <1>8 DEF Whole
  <2>5. Grove(Append(x.kids, v.node))
    BY <1>5, <2>4, Groves
  <2>6. Len(Append(x.kids, v.node)) > 0
    <3>1. PICK T : x.kids \in Seq(T)
      BY <1>5 DEF Grove
    <3>2. x.kids \in Seq(T \union {v.node})
      BY <3>1
    <3> QED BY <3>2
  <2>7. HasShape(x.kind, x.tok, Len(Append(x.kids, v.node)))
    BY <1>5, <2>6, TreeParts DEF HasShape
  <2>8. IsTree(node) /\ node.kind = "call"
    BY <1>5, <2>3, <2>5, <2>7, MakeTree
  <2> QED BY <1>2, <1>3, <2>2, <2>8
<1> QED BY <1>6, <1>7, <1>8

LEMMA ArgCalling ==
  ASSUME NEW s, NEW c, Calling(c), NEW sub, Subs(sub)
  PROVE  Calling(ParseArg(s, c, sub).made) /\ ParseArg(s, c, sub).on \in BOOLEAN
<1>1. PICK named : named = (Peek(s, c.at) \in Ident /\ Peek(s, c.at + 1) = "=")
  OBVIOUS
<1>2. PICK v : v = sub[<<IF named THEN c.at + 2 ELSE c.at, 0>>]
  OBVIOUS
<1>3. c.at \in Nat /\ named \in BOOLEAN
  BY <1>1 DEF Calling, Grew, IsMade
<1>4. Whole(v)
  BY <1>2, <1>3 DEF Subs
<1>5. PICK d : d = WithValue(c, named, v)
  OBVIOUS
<1>6. Calling(d)
  BY <1>3, <1>4, <1>5, ValueCalling
<1> QED BY <1>1, <1>2, <1>5, <1>6, ArgMade

(* A verb call being parsed: each argument so far has a tree, or nothing.  *)
Supplied(args) ==
  \E A : args \in Seq(A) /\ \A a \in A : a.node = NoNode \/ IsTree(a.node)

IsCalled(c) ==
  c = Called(c.verb, c.args, c.at, c.errs) /\ c.at \in Nat /\ Supplied(c.args)

(* What a loop keeps true of what it has made.                             *)
Good(which, q) ==
  CASE which = "args"                -> Calling(q)
    [] which \in {"postfix", "infix"} -> Grew(q)
    [] which = "verb"                -> IsCalled(q)

LEMMA LoopKeeps ==
  ASSUME NEW which, which \in {"args", "postfix", "infix", "verb"},
         NEW a, NEW x, Good(which, x), NEW bound \in Nat,
         \A q : Good(which, q) => Good(which, Body(which, a, q).made),
         NEW f, Recurs(f, which, a, Going(x), bound)
  PROVE  Good(which, f[bound].made)
<1> DEFINE S == {k \in Nat : k <= bound => Good(which, f[k].made)}
<1>1. f[0] = Going(x) /\ \A k \in 1 .. bound : f[k] = Turn(which, a, k, f[k - 1])
  <2>1. \A k \in 0 .. bound : f[k] = IF k = 0 THEN Going(x) ELSE Turn(which, a, k, f[k - 1])
    BY Zenon DEF Recurs
  <2> QED BY <2>1
<1>2. 0 \in S
  BY <1>1 DEF Going
<1>3. ASSUME NEW k \in Nat, k \in S
      PROVE  k + 1 \in S
  <2>1. ASSUME k + 1 <= bound
        PROVE  Good(which, f[k + 1].made)
    <3>1. k + 1 \in 1 .. bound /\ (k + 1) - 1 = k /\ k <= bound
      BY <2>1
    <3>2. f[k + 1] = Turn(which, a, k + 1, f[k]) /\ Good(which, f[k].made)
      BY <1>1, <1>3, <3>1
    <3>3. Turn(which, a, k + 1, f[k]) = IF f[k].on THEN Body(which, a, f[k].made) ELSE f[k]
      BY DEF Turn
    <3> QED BY <3>2, <3>3
  <2> QED BY <2>1
<1>4. \A k \in Nat : k \in S => k + 1 \in S
  BY <1>3
<1> HIDE DEF S
<1>5. bound \in S
  BY <1>2, <1>4, Successors
<1> QED BY <1>5 DEF S

LEMMA ArgsCalling ==
  ASSUME NEW s, Len(s) \in Nat, NEW c, Calling(c), NEW sub, Subs(sub)
  PROVE  Calling(ParseArgs(s, c, sub))
<1> DEFINE a == [s |-> s, sub |-> sub]
           n == Len(s) + 1
           Next2(x) == IF x.on THEN ParseArg(s, x.made, sub) ELSE x
<1>0. n \in Nat
  OBVIOUS
<1>1. PICK f : Recurs(f, "args", a, Going(c), n)
  BY <1>0, Recursion, Zenon
<1>2. \A x, k : Turn("args", a, k, x) = Next2(x)
  BY DEF Turn, Body
<1>3. f = [k \in 0 .. n |-> IF k = 0 THEN Going(c) ELSE Next2(f[k - 1])]
  BY <1>1, <1>2 DEF Recurs
<1>4. PICK g : g = CHOOSE x : x = [k \in 0 .. n |-> IF k = 0 THEN Going(c) ELSE Next2(x[k - 1])]
  OBVIOUS
<1>5. g = [k \in 0 .. n |-> IF k = 0 THEN Going(c) ELSE Next2(g[k - 1])]
  BY <1>3, <1>4, Zenon
<1>6. ParseArgs(s, c, sub) = g[n].made
  BY <1>4, Zenon DEF ParseArgs, Loop
<1>7. Recurs(g, "args", a, Going(c), n)
  BY <1>2, <1>5 DEF Recurs
<1>8. \A q : Good("args", q) => Good("args", Body("args", a, q).made)
  BY ArgCalling DEF Good, Body
<1>9. Good("args", g[n].made)
  <2>1. n \in Nat /\ Good("args", c)
    BY DEF Good
  <2> HIDE DEF n, a
  <2> QED BY <1>7, <1>8, <2>1, LoopKeeps
<1> QED BY <1>6, <1>9 DEF Good

LEMMA CallGrows ==
  ASSUME NEW s, Len(s) \in Nat, NEW p, Grew(p), NEW sub, Subs(sub)
  PROVE  Grew(ParseCall(s, p, sub))
<1>1. PICK call : call = Made(Node("call", Peek(s, p.at), <<p.node>>), p.at + 1, p.errs)
  OBVIOUS
<1>2. IsTree(p.node) /\ p.at + 1 \in Nat
  BY DEF Grew, IsMade
<1>3. Calling(call)
  BY <1>1, <1>2, TreeOfOne, MadeParts DEF Calling, Grew
<1>4. PICK x : x = IF Peek(s, call.at) = ")" THEN call ELSE ParseArgs(s, call, sub)
  OBVIOUS
<1>5. Calling(x)
  BY <1>3, <1>4, ArgsCalling
<1>6. ParseCall(s, p, sub) = Expected(s, ")", x)
  BY <1>1, <1>4, Zenon DEF ParseCall
<1>7. Grew(Expected(s, ")", x))
  BY <1>5, ExpectedMade DEF Calling, Grew
<1> QED BY <1>6, <1>7

LEMMA PostfixStepGrows ==
  ASSUME NEW s, Len(s) \in Nat, NEW p, Grew(p), NEW sub, Subs(sub)
  PROVE  Grew(PostfixStep(s, p, sub).made)
<1>0. PICK t, attr : t = Peek(s, p.at) /\ attr = Peek(s, p.at + 1)
  OBVIOUS
<1>1. IsMade(p) /\ IsTree(p.node) /\ p.at + 1 \in Nat /\ p.at + 2 \in Nat
  BY DEF Grew, IsMade
<1>2. CASE t = "." /\ attr \in Ident
  <2>1. PICK q : q = Made(Node("attribute", attr, <<p.node>>), p.at + 2, p.errs)
    OBVIOUS
  <2>2. Grew(q)
    BY <1>1, <2>1, TreeOfOne, MadeParts DEF Grew
  <2>3. PostfixStep(s, p, sub) = Going(q)
    BY <1>0, <1>2, <2>1 DEF PostfixStep
  <2> QED BY <2>2, <2>3 DEF Going
<1>3. CASE t = "." /\ attr \notin Ident
  <2>1. PICK q : q = Made(p.node, p.at + 1, p.errs \union {p.at + 1})
    OBVIOUS
  <2>2. Grew(q)
    BY <1>1, <2>1, MadeParts DEF Grew
  <2>3. PostfixStep(s, p, sub) = Stopped(q)
    BY <1>0, <1>3, <2>1 DEF PostfixStep
  <2> QED BY <2>2, <2>3 DEF Stopped
<1>4. CASE t = "("
  <2>1. PostfixStep(s, p, sub) = Going(ParseCall(s, p, sub))
    BY <1>0, <1>4 DEF PostfixStep
  <2> QED BY <2>1, CallGrows DEF Going
<1>5. CASE t # "." /\ t # "("
  <2>1. PostfixStep(s, p, sub) = Stopped(p)
    BY <1>0, <1>5 DEF PostfixStep
  <2> QED BY <2>1 DEF Stopped
<1> QED BY <1>2, <1>3, <1>4, <1>5

LEMMA PostfixGrows ==
  ASSUME NEW s, Len(s) \in Nat, NEW p, Grew(p), NEW sub, Subs(sub)
  PROVE  Grew(ParsePostfix(s, p, sub))
<1> DEFINE a == [s |-> s, sub |-> sub]
           n == Len(s) + 1
           Next2(x) == IF x.on THEN PostfixStep(s, x.made, sub) ELSE x
<1>0. n \in Nat
  OBVIOUS
<1>1. PICK f : Recurs(f, "postfix", a, Going(p), n)
  BY <1>0, Recursion, Zenon
<1>2. \A x, k : Turn("postfix", a, k, x) = Next2(x)
  BY DEF Turn, Body
<1>3. f = [k \in 0 .. n |-> IF k = 0 THEN Going(p) ELSE Next2(f[k - 1])]
  BY <1>1, <1>2 DEF Recurs
<1>4. PICK g : g = CHOOSE x : x = [k \in 0 .. n |-> IF k = 0 THEN Going(p) ELSE Next2(x[k - 1])]
  OBVIOUS
<1>5. g = [k \in 0 .. n |-> IF k = 0 THEN Going(p) ELSE Next2(g[k - 1])]
  BY <1>3, <1>4, Zenon
<1>6. ParsePostfix(s, p, sub) = g[n].made
  BY <1>4, Zenon DEF ParsePostfix, Loop
<1>7. Recurs(g, "postfix", a, Going(p), n)
  BY <1>2, <1>5 DEF Recurs
<1>8. \A q : Good("postfix", q) => Good("postfix", Body("postfix", a, q).made)
  BY PostfixStepGrows DEF Good, Body
<1>9. Good("postfix", g[n].made)
  <2>1. n \in Nat /\ Good("postfix", p)
    BY DEF Good
  <2> HIDE DEF n, a
  <2> QED BY <1>7, <1>8, <2>1, LoopKeeps
<1> QED BY <1>6, <1>9 DEF Good

LEMMA InfixStepGrows ==
  ASSUME NEW s, Len(s) \in Nat, NEW p, Grew(p), NEW bp, NEW sub, Subs(sub)
  PROVE  Grew(InfixStep(s, p, bp, sub).made)
<1>0. PICK t : t = Peek(s, p.at)
  OBVIOUS
<1>1. IsMade(p) /\ IsTree(p.node) /\ p.at \in Nat /\ p.at + 1 \in Nat
  BY DEF Grew, IsMade
<1>2. CASE t \in {EOF, ")", ","} \/ Lbp(t) < bp
  <2>1. InfixStep(s, p, bp, sub) = Stopped(p)
    BY <1>0, <1>2 DEF InfixStep
  <2> QED BY <2>1 DEF Stopped
<1>3. CASE ~ (t \in {EOF, ")", ","} \/ Lbp(t) < bp) /\ p.node.kind = "compare" /\ t \in Comparison
  <2>1. PICK q : q = [p EXCEPT !.errs = @ \union {p.at}]
    OBVIOUS
  <2>2. InfixStep(s, p, bp, sub) = Stopped(q)
    BY <1>0, <1>3, <2>1 DEF InfixStep
  <2>3. q = Made(p.node, p.at, p.errs \union {p.at})
    BY <1>1, <2>1, MadeWith
  <2>4. Grew(q)
    BY <1>1, <2>3, MadeParts DEF Grew
  <2> QED BY <2>2, <2>4 DEF Stopped
<1>4. CASE ~ (t \in {EOF, ")", ","} \/ Lbp(t) < bp) /\ ~ (p.node.kind = "compare" /\ t \in Comparison)
  <2>1. PICK r : r = sub[<<p.at + 1, Lbp(t) + 1>>]
    OBVIOUS
  <2>2. InfixStep(s, p, bp, sub) = ParseRight(s, p, r, sub)
    BY <1>0, <1>4, <2>1 DEF InfixStep
  <2>3. Lbp(t) + 1 \in Nat
    BY DEF Lbp
  <2>4. Whole(r) /\ r.at \in Nat
    BY <1>1, <2>1, <2>3 DEF Subs, Whole, IsMade
  <2>5. CASE r.node = NoNode
    <3>1. PICK q : q = Made(p.node, r.at, p.errs \union r.errs)
      OBVIOUS
    <3>2. ParseRight(s, p, r, sub) = Stopped(q)
      BY <2>5, <3>1 DEF ParseRight
    <3>3. Grew(q)
      BY <1>1, <2>4, <3>1, MadeParts DEF Grew
    <3> QED BY <2>2, <3>2, <3>3 DEF Stopped
  <2>6. CASE r.node # NoNode
    <3>1. PICK q : q = Operated(t, p, r)
      OBVIOUS
    <3>2. ParseRight(s, p, r, sub) = Going(ParsePostfix(s, q, sub))
      BY <1>0, <2>6, <3>1 DEF ParseRight
    <3>3. IsTree(r.node)
      BY <2>4, <2>6 DEF Whole
    <3>4. PICK kind : kind = IF t \in Comparison THEN "compare" ELSE "binary"
      OBVIOUS
    <3>5. kind \in {"binary", "compare"} /\ (kind = "compare" <=> t \in Comparison)
      BY <3>4
    <3>6. IsTree(Node(kind, t, <<p.node, r.node>>))
      BY <1>1, <3>3, <3>5, TreeOfTwo
    <3>7. q = Made(Node(kind, t, <<p.node, r.node>>), r.at, p.errs \union r.errs)
      BY <3>1, <3>4 DEF Operated
    <3>8. Grew(q)
      BY <2>4, <3>6, <3>7, MadeParts DEF Grew
    <3> QED BY <2>2, <3>2, <3>8, PostfixGrows DEF Going
  <2> QED BY <2>5, <2>6
<1> QED BY <1>2, <1>3, <1>4

LEMMA InfixGrows ==
  ASSUME NEW s, Len(s) \in Nat, NEW p, Grew(p), NEW bp, NEW sub, Subs(sub)
  PROVE  Grew(ParseInfix(s, p, bp, sub))
<1> DEFINE a == [s |-> s, bp |-> bp, sub |-> sub]
           n == Len(s) + 1
           Next2(x) == IF x.on THEN InfixStep(s, x.made, bp, sub) ELSE x
<1>0. n \in Nat
  OBVIOUS
<1>1. PICK f : Recurs(f, "infix", a, Going(p), n)
  BY <1>0, Recursion, Zenon
<1>2. \A x, k : Turn("infix", a, k, x) = Next2(x)
  BY DEF Turn, Body
<1>3. f = [k \in 0 .. n |-> IF k = 0 THEN Going(p) ELSE Next2(f[k - 1])]
  BY <1>1, <1>2 DEF Recurs
<1>4. PICK g : g = CHOOSE x : x = [k \in 0 .. n |-> IF k = 0 THEN Going(p) ELSE Next2(x[k - 1])]
  OBVIOUS
<1>5. g = [k \in 0 .. n |-> IF k = 0 THEN Going(p) ELSE Next2(g[k - 1])]
  BY <1>3, <1>4, Zenon
<1>6. ParseInfix(s, p, bp, sub) = g[n].made
  BY <1>4, Zenon DEF ParseInfix, Loop
<1>7. Recurs(g, "infix", a, Going(p), n)
  BY <1>2, <1>5 DEF Recurs
<1>8. \A q : Good("infix", q) => Good("infix", Body("infix", a, q).made)
  BY InfixStepGrows DEF Good, Body
<1>9. Good("infix", g[n].made)
  <2>1. n \in Nat /\ Good("infix", p)
    BY DEF Good
  <2> HIDE DEF n, a
  <2> QED BY <1>7, <1>8, <2>1, LoopKeeps
<1> QED BY <1>6, <1>9 DEF Good

LEMMA ParseFromWhole ==
  ASSUME NEW s, Len(s) \in Nat, NEW p, Whole(p), NEW bp, NEW sub, Subs(sub)
  PROVE  Whole(ParseFrom(s, p, bp, sub))
<1>1. CASE p.node = NoNode
  BY <1>1 DEF ParseFrom
<1>2. CASE p.node # NoNode
  <2>1. Grew(ParsePostfix(s, p, sub))
    BY <1>2, PostfixGrows DEF Whole, Grew
  <2>2. Grew(ParseInfix(s, ParsePostfix(s, p, sub), bp, sub))
    BY <2>1, InfixGrows
  <2> QED BY <1>2, <2>2 DEF ParseFrom, Whole, Grew
<1> QED BY <1>1, <1>2

(* What parse_expr returns with more and more levels left.                 *)
Parses(g, s, i, bp) ==
  /\ g[0] = [c \in Nat \X Nat |-> Made(NoNode, c[1], {c[1]})]
  /\ \A n \in 1 .. Levels :
       g[n] = [c \in Nat \X Nat |->
                 ParseFrom(s, ParsePrefix(s, c[1], g[n - 1]), c[2], g[n - 1])]
  /\ ParseExpr(s, i, bp) = g[Levels][<<i, bp>>]

LEMMA ParseLevels ==
  ASSUME NEW s, NEW i \in Nat, NEW bp \in Nat
  PROVE  \E g : Parses(g, s, i, bp)
<1> DEFINE a == [s |-> s]
           base == [c \in Nat \X Nat |-> Made(NoNode, c[1], {c[1]})]
           Deeper(x) == [c \in Nat \X Nat |-> ParseFrom(s, ParsePrefix(s, c[1], x), c[2], x)]
           Level(t, n) ==
             [c \in Nat \X Nat |->
                IF n = 0 THEN Made(NoNode, c[1], {c[1]})
                ELSE ParseFrom(s, ParsePrefix(s, c[1], t[n - 1]), c[2], t[n - 1])]
<1>1. PICK f : Recurs(f, "parse", a, base, Levels)
  BY Recursion, LevelsAssumption
<1>2. ASSUME NEW t, NEW n \in 0 .. Levels
      PROVE  Level(t, n) = IF n = 0 THEN base ELSE Turn("parse", a, n, t[n - 1])
  BY DEF Turn
<1> HIDE DEF Level, base, a
<1>3. f = [n \in 0 .. Levels |-> Level(f, n)]
  BY <1>1, <1>2 DEF Recurs
<1>4. PICK g : g = CHOOSE x : x = [n \in 0 .. Levels |-> Level(x, n)]
  OBVIOUS
<1>5. g = [n \in 0 .. Levels |-> Level(g, n)]
  BY <1>3, <1>4, Zenon
<1>6. ParseExpr(s, i, bp) = g[Levels][<<i, bp>>]
  BY <1>4, Zenon DEF ParseExpr, Level
<1>7. g[0] = base /\ \A n \in 1 .. Levels : g[n] = Deeper(g[n - 1])
  <2>1. \A n \in 0 .. Levels : g[n] = IF n = 0 THEN base ELSE Turn("parse", a, n, g[n - 1])
    BY <1>2, <1>5
  <2>2. \A n, x : Turn("parse", a, n, x) = Deeper(x)
    BY DEF Turn, a
  <2> HIDE DEF Deeper
  <2> QED BY <2>1, <2>2, LevelsAssumption
<1> QED BY <1>6, <1>7, Zenon DEF base, Parses

(* Whatever the tokens, parse_expr returns a tree or nothing.              *)
LEMMA ParseExprWhole ==
  ASSUME NEW s, Len(s) \in Nat, NEW i \in Nat, NEW bp \in Nat
  PROVE  Whole(ParseExpr(s, i, bp))
<1>0. PICK g : Parses(g, s, i, bp)
  BY ParseLevels
<1>1. /\ g[0] = [c \in Nat \X Nat |-> Made(NoNode, c[1], {c[1]})]
      /\ \A n \in 1 .. Levels :
           g[n] = [c \in Nat \X Nat |->
                     ParseFrom(s, ParsePrefix(s, c[1], g[n - 1]), c[2], g[n - 1])]
      /\ ParseExpr(s, i, bp) = g[Levels][<<i, bp>>]
  BY <1>0 DEF Parses
<1> DEFINE S == {n \in Nat : n <= Levels => Subs(g[n])}
<1>2. 0 \in S
  <2>1. \A j, k \in Nat : g[0][<<j, k>>] = Made(NoNode, j, {j})
    BY <1>1
  <2>2. \A j, k \in Nat : Whole(g[0][<<j, k>>])
    <3>1. \A j \in Nat : Whole(Made(NoNode, j, {j}))
      BY MadeParts DEF Whole
    <3> QED BY <2>1, <3>1
  <2> QED BY <2>2 DEF Subs
<1>3. ASSUME NEW n \in Nat, n \in S
      PROVE  n + 1 \in S
  <2>1. ASSUME n + 1 <= Levels, NEW j \in Nat, NEW k \in Nat
        PROVE  Whole(g[n + 1][<<j, k>>])
    <3>1. n + 1 \in 1 .. Levels /\ (n + 1) - 1 = n /\ n <= Levels
      BY <2>1, LevelsAssumption
    <3>2. Subs(g[n])
      BY <1>3, <3>1
    <3>3. g[n + 1][<<j, k>>] = ParseFrom(s, ParsePrefix(s, j, g[n]), k, g[n])
      <4>1. g[n + 1] = [c \in Nat \X Nat |->
                          ParseFrom(s, ParsePrefix(s, c[1], g[n]), c[2], g[n])]
        BY <1>1, <3>1
      <4> QED BY <4>1
    <3> QED BY <3>2, <3>3, PrefixWhole, ParseFromWhole
  <2> QED BY <2>1 DEF Subs
<1>4. \A n \in Nat : n \in S => n + 1 \in S
  BY <1>3
<1> HIDE DEF S
<1>5. Levels \in S
  BY <1>2, <1>4, Successors, LevelsAssumption
<1>6. Subs(g[Levels])
  BY <1>5, LevelsAssumption DEF S
<1> QED BY <1>1, <1>6 DEF Subs

LEMMA ParseUntilWhole ==
  ASSUME NEW s, Len(s) \in Nat
  PROVE  Whole(ParseUntil(s))
<1>1. Whole(ParseTokens(s))
  <2>1. CASE s = <<>>
    BY <2>1, MadeParts DEF ParseTokens, Whole
  <2>2. CASE s # <<>>
    <3>1. PICK p : p = ParseExpr(s, 1, 0)
      OBVIOUS
    <3>2. Whole(p) /\ IsMade(p)
      BY <3>1, ParseExprWhole DEF Whole
    <3>3. AllRead(s, p) \in {p, Made(p.node, p.at, p.errs \union {p.at})}
      BY <3>2, MadeWith DEF AllRead
    <3>4. Whole(Made(p.node, p.at, p.errs \union {p.at}))
      BY <3>2, MadeParts DEF Whole, IsMade
    <3>5. ParseTokens(s) = AllRead(s, p)
      BY <2>2, <3>1 DEF ParseTokens
    <3> QED BY <3>2, <3>3, <3>4, <3>5
  <2> QED BY <2>1, <2>2
<1>2. PICK p : p = ParseTokens(s)
  OBVIOUS
<1>3. PICK errs : ParseUntil(s) = [p EXCEPT !.errs = errs]
  BY <1>2, Zenon DEF ParseUntil
<1>4. ParseUntil(s) = Made(p.node, p.at, errs)
  BY <1>1, <1>2, <1>3, MadeWith DEF Whole
<1> QED BY <1>1, <1>2, <1>4, MadeParts DEF Whole, IsMade

-----------------------------------------------------------------------------
(* Evaluation and typing go down a tree level by level.                    *)
Values(t, node, ev) ==
  t = [n \in 0 .. Levels |->
         [p \in Path |->
            LET x == At(node, p)
            IN  IF n = 0 THEN Raise("RecursionError")
                ELSE EvalNode(x, [i \in 1 .. Len(x.kids) |-> t[n - 1][Append(p, i)]], ev)]]

Types(t, node, env) ==
  t = [n \in 0 .. Levels |->
         [p \in Path |->
            LET x == At(node, p)
            IN  IF n = 0 THEN Typed("Unknown", FALSE)
                ELSE InferNode(x, [i \in 1 .. Len(x.kids) |-> t[n - 1][Append(p, i)]], env)]]

(* What a tree evaluates to, and its type, with n levels left.             *)
EvalTo(node, ev, n) == (CHOOSE t : Values(t, node, ev))[n][<<>>]

InferTo(node, env, n) == (CHOOSE t : Types(t, node, env))[n][<<>>]

(* Both walks at once: what the node of a tree comes out as from what its  *)
(* kids do, and what a tree comes out as when no level is left.            *)
NodeOf(which, x, kid, e) ==
  IF which = "types" THEN InferNode(x, kid, e) ELSE EvalNode(x, kid, e)

Deepest(which) ==
  IF which = "types" THEN Typed("Unknown", FALSE) ELSE Raise("RecursionError")

OutOf(which, node, e, n) ==
  IF which = "types" THEN InferTo(node, e, n) ELSE EvalTo(node, e, n)

Walks(t, which, node, e) ==
  /\ \A p \in Path : t[0][p] = Deepest(which)
  /\ \A n \in 1 .. Levels, p \in Path :
       t[n][p] = NodeOf(which, At(node, p), FromKids(t[n - 1], node, p), e)

LEMMA ValuesWalk ==
  ASSUME NEW node, NEW ev
  PROVE  \E t : /\ Walks(t, "values", node, ev)
                /\ \A n \in Nat : OutOf("values", node, ev, n) = t[n][<<>>]
<1> DEFINE a == [node |-> node, e |-> ev]
           base == [p \in Path |-> Raise("RecursionError")]
           Level(t, n) ==
             [p \in Path |->
                LET x == At(node, p)
                IN  IF n = 0 THEN Raise("RecursionError")
                    ELSE EvalNode(x, [i \in 1 .. Len(x.kids) |-> t[n - 1][Append(p, i)]], ev)]
<1>1. PICK u : Recurs(u, "values", a, base, Levels)
  BY Recursion, LevelsAssumption
<1>2. ASSUME NEW t, NEW n \in 0 .. Levels
      PROVE  Level(t, n) = IF n = 0 THEN base ELSE Turn("values", a, n, t[n - 1])
  <2>1. CASE n = 0
    BY <2>1
  <2>2. CASE n # 0
    BY <2>2 DEF Turn, FromKids
  <2> QED BY <2>1, <2>2
<1>3. u = [n \in 0 .. Levels |-> Level(u, n)]
  BY <1>1, <1>2 DEF Recurs
<1>4. Values(u, node, ev)
  BY <1>3, Zenon DEF Values
<1>5. PICK t : t = CHOOSE x : Values(x, node, ev)
  OBVIOUS
<1>6. Values(t, node, ev)
  BY <1>4, <1>5, Zenon
<1>7. t = [n \in 0 .. Levels |-> Level(t, n)]
  BY <1>6, Zenon DEF Values
<1>8. t = [n \in 0 .. Levels |-> IF n = 0 THEN base ELSE Turn("values", a, n, t[n - 1])]
  BY <1>2, <1>7
<1>9. t[0] = base /\ \A n \in 1 .. Levels : t[n] = Turn("values", a, n, t[n - 1])
  <2> HIDE DEF base, a
  <2>1. \A n \in 0 .. Levels :
          t[n] = IF n = 0 THEN base ELSE Turn("values", a, n, t[n - 1])
    BY <1>8, Zenon
  <2> QED BY <2>1, LevelsAssumption
<1>10. \A n \in 1 .. Levels, p \in Path :
         t[n][p] = EvalNode(At(node, p), FromKids(t[n - 1], node, p), ev)
  <2>1. ASSUME NEW n \in 1 .. Levels, NEW p \in Path
        PROVE  t[n][p] = EvalNode(At(node, p), FromKids(t[n - 1], node, p), ev)
    <3>1. Turn("values", a, n, t[n - 1]) =
            [q \in Path |-> EvalNode(At(node, q), FromKids(t[n - 1], node, q), ev)]
      BY DEF Turn
    <3>2. t[n] = [q \in Path |-> EvalNode(At(node, q), FromKids(t[n - 1], node, q), ev)]
      BY <1>9, <3>1, Zenon
    <3> QED BY <3>2, Zenon
  <2> QED BY <2>1
<1>11. \A p \in Path : t[0][p] = Raise("RecursionError")
  BY <1>9
<1> HIDE DEF a, base, Level
<1>12. Walks(t, "values", node, ev)
  BY <1>10, <1>11 DEF Walks, NodeOf, Deepest
<1>13. \A n \in Nat : OutOf("values", node, ev, n) = t[n][<<>>]
  BY <1>5 DEF OutOf, EvalTo
<1> QED BY <1>12, <1>13

LEMMA TypesWalk ==
  ASSUME NEW node, NEW env
  PROVE  \E t : /\ Walks(t, "types", node, env)
                /\ \A n \in Nat : OutOf("types", node, env, n) = t[n][<<>>]
<1> DEFINE a == [node |-> node, e |-> env]
           base == [p \in Path |-> Typed("Unknown", FALSE)]
           Level(t, n) ==
             [p \in Path |->
                LET x == At(node, p)
                IN  IF n = 0 THEN Typed("Unknown", FALSE)
                    ELSE InferNode(x, [i \in 1 .. Len(x.kids) |-> t[n - 1][Append(p, i)]], env)]
<1>1. PICK u : Recurs(u, "types", a, base, Levels)
  BY Recursion, LevelsAssumption
<1>2. ASSUME NEW t, NEW n \in 0 .. Levels
      PROVE  Level(t, n) = IF n = 0 THEN base ELSE Turn("types", a, n, t[n - 1])
  <2>1. CASE n = 0
    BY <2>1
  <2>2. CASE n # 0
    BY <2>2 DEF Turn, FromKids
  <2> QED BY <2>1, <2>2
<1>3. u = [n \in 0 .. Levels |-> Level(u, n)]
  BY <1>1, <1>2 DEF Recurs
<1>4. Types(u, node, env)
  BY <1>3, Zenon DEF Types
<1>5. PICK t : t = CHOOSE x : Types(x, node, env)
  OBVIOUS
<1>6. Types(t, node, env)
  BY <1>4, <1>5, Zenon
<1>7. t = [n \in 0 .. Levels |-> Level(t, n)]
  BY <1>6, Zenon DEF Types
<1>8. t = [n \in 0 .. Levels |-> IF n = 0 THEN base ELSE Turn("types", a, n, t[n - 1])]
  BY <1>2, <1>7
<1>9. t[0] = base /\ \A n \in 1 .. Levels : t[n] = Turn("types", a, n, t[n - 1])
  <2> HIDE DEF base, a
  <2>1. \A n \in 0 .. Levels :
          t[n] = IF n = 0 THEN base ELSE Turn("types", a, n, t[n - 1])
    BY <1>8, Zenon
  <2> QED BY <2>1, LevelsAssumption
<1>10. \A n \in 1 .. Levels, p \in Path :
         t[n][p] = InferNode(At(node, p), FromKids(t[n - 1], node, p), env)
  <2>1. ASSUME NEW n \in 1 .. Levels, NEW p \in Path
        PROVE  t[n][p] = InferNode(At(node, p), FromKids(t[n - 1], node, p), env)
    <3>1. Turn("types", a, n, t[n - 1]) =
            [q \in Path |-> InferNode(At(node, q), FromKids(t[n - 1], node, q), env)]
      BY DEF Turn
    <3>2. t[n] = [q \in Path |-> InferNode(At(node, q), FromKids(t[n - 1], node, q), env)]
      BY <1>9, <3>1, Zenon
    <3> QED BY <3>2, Zenon
  <2> QED BY <2>1
<1>11. \A p \in Path : t[0][p] = Typed("Unknown", FALSE)
  BY <1>9
<1> HIDE DEF a, base, Level
<1>12. Walks(t, "types", node, env)
  BY <1>10, <1>11 DEF Walks, NodeOf, Deepest
<1>13. \A n \in Nat : OutOf("types", node, env, n) = t[n][<<>>]
  BY <1>5 DEF OutOf, InferTo
<1> QED BY <1>12, <1>13

LEMMA WalkThrough ==
  ASSUME NEW which, which \in {"types", "values"}, NEW node, NEW e
  PROVE  \E t : /\ Walks(t, which, node, e)
                /\ \A n \in Nat : OutOf(which, node, e, n) = t[n][<<>>]
<1>1. CASE which = "types"
  BY <1>1, TypesWalk
<1>2. CASE which = "values"
  BY <1>2, ValuesWalk
<1> QED BY <1>1, <1>2

SameBelow(t, u, x, i, T) ==
  \A n \in 0 .. Levels, p \in Path : At(x, p) \in T => t[n][<<i>> \o p] = u[n][p]

(* The walk through a tree goes through those below it as a walk of its    *)
(* own does.                                                               *)
LEMMA WalkBelow ==
  ASSUME NEW T, Grown(T), NEW which, NEW node, NEW e, NEW i \in Nat,
         NEW t, Walks(t, which, node, e), NEW u, Walks(u, which, node.kids[i], e)
  PROVE  SameBelow(t, u, node.kids[i], i, T)
<1> DEFINE S == {n \in Nat : n <= Levels =>
                   \A p \in Path : At(node.kids[i], p) \in T => t[n][<<i>> \o p] = u[n][p]}
<1>1. 0 \in S
  BY AtKid DEF Walks
<1>2. ASSUME NEW n \in Nat, n \in S
      PROVE  n + 1 \in S
  <2>1. ASSUME n + 1 <= Levels, NEW p \in Path, At(node.kids[i], p) \in T
        PROVE  t[n + 1][<<i>> \o p] = u[n + 1][p]
    <3> DEFINE q == <<i>> \o p
               x == At(node.kids[i], p)
    <3>1. q \in Path /\ At(node, q) = x
      BY AtKid
    <3>2. \A j \in Nat : Append(p, j) \in Path /\ Append(q, j) = <<i>> \o Append(p, j)
      BY DEF Path
    <3>3. ASSUME NEW j \in 1 .. Len(x.kids)
          PROVE  t[n][Append(q, j)] = u[n][Append(p, j)]
      <4>1. x.kids \in Seq(T)
        BY <2>1 DEF Grown, IsNode
      <4>2. j \in Nat /\ x.kids[j] \in T
        BY <4>1
      <4>3. At(node.kids[i], Append(p, j)) \in T
        BY <4>2, AtLast
      <4>4. n <= Levels
        BY <2>1, LevelsAssumption
      <4> QED BY <1>2, <3>2, <4>2, <4>3, <4>4
    <3>4. FromKids(t[n], node, q) = FromKids(u[n], node.kids[i], p)
      BY <3>1, <3>3 DEF FromKids
    <3>5. n + 1 \in 1 .. Levels /\ (n + 1) - 1 = n
      BY <2>1, LevelsAssumption
    <3> HIDE DEF q
    <3>6. t[n + 1][q] = NodeOf(which, At(node, q), FromKids(t[n], node, q), e)
      BY <3>1, <3>5 DEF Walks
    <3>7. u[n + 1][p] = NodeOf(which, x, FromKids(u[n], node.kids[i], p), e)
      BY <3>5 DEF Walks
    <3> QED BY <3>1, <3>4, <3>6, <3>7 DEF q
  <2> QED BY <2>1
<1>3. \A n \in Nat : n \in S => n + 1 \in S
  BY <1>2
<1> HIDE DEF S
<1>4. \A n \in Nat : n \in S
  BY <1>1, <1>3, Successors
<1> QED BY <1>4, LevelsAssumption DEF S, SameBelow

OutOfKids(which, node, e, n) ==
  [i \in 1 .. Len(node.kids) |-> OutOf(which, node.kids[i], e, n)]

(* What a tree comes out as with n levels left is what its node does from  *)
(* what the trees below it come out as, with one level less left.          *)
LEMMA GoesDown ==
  ASSUME NEW T, Grown(T), NEW node \in T, NEW e,
         NEW which, which \in {"types", "values"}
  PROVE  /\ OutOf(which, node, e, 0) = Deepest(which)
         /\ \A n \in 1 .. Levels :
              OutOf(which, node, e, n) =
                NodeOf(which, node, OutOfKids(which, node, e, n - 1), e)
<1>1. PICK t : /\ Walks(t, which, node, e)
               /\ \A n \in Nat : OutOf(which, node, e, n) = t[n][<<>>]
  BY WalkThrough
<1>2. <<>> \in Path /\ At(node, <<>>) = node
  BY AtHere
<1>3. OutOf(which, node, e, 0) = Deepest(which)
  BY <1>1, <1>2 DEF Walks
<1>4. ASSUME NEW n \in 1 .. Levels
      PROVE  OutOf(which, node, e, n) =
               NodeOf(which, node, OutOfKids(which, node, e, n - 1), e)
  <2>1. ASSUME NEW i \in 1 .. Len(node.kids)
        PROVE  t[n - 1][Append(<<>>, i)] = OutOf(which, node.kids[i], e, n - 1)
    <3>0. node.kids \in Seq(T)
      BY DEF Grown, IsNode
    <3>1. i \in Nat /\ n - 1 \in 0 .. Levels /\ node.kids[i] \in T
      BY <3>0, LevelsAssumption
    <3>2. PICK u : /\ Walks(u, which, node.kids[i], e)
                   /\ \A k \in Nat : OutOf(which, node.kids[i], e, k) = u[k][<<>>]
      BY WalkThrough
    <3>3. SameBelow(t, u, node.kids[i], i, T)
      BY <1>1, <3>1, <3>2, WalkBelow
    <3>4. <<i>> \o <<>> = Append(<<>>, i) /\ At(node.kids[i], <<>>) \in T /\ n - 1 \in Nat
      BY <3>1, AtHere, LevelsAssumption
    <3>5. t[n - 1][<<i>> \o <<>>] = u[n - 1][<<>>]
      BY <1>2, <3>1, <3>3, <3>4 DEF SameBelow
    <3> QED BY <3>2, <3>4, <3>5
  <2>2. FromKids(t[n - 1], node, <<>>) = OutOfKids(which, node, e, n - 1)
    BY <1>2, <2>1 DEF FromKids, OutOfKids
  <2>3. n \in Nat
    BY LevelsAssumption
  <2> QED BY <1>1, <1>2, <2>2, <2>3 DEF Walks
<1> QED BY <1>3, <1>4

(* The two walks, each by its own name.                                    *)
KidValues(node, ev, n) == [i \in 1 .. Len(node.kids) |-> EvalTo(node.kids[i], ev, n)]

KidTypes(node, env, n) == [i \in 1 .. Len(node.kids) |-> InferTo(node.kids[i], env, n)]

LEMMA EvalGoesDown ==
  ASSUME NEW T, Grown(T), NEW node \in T, NEW ev
  PROVE  /\ EvalTo(node, ev, 0) = Raise("RecursionError")
         /\ \A n \in 1 .. Levels :
              EvalTo(node, ev, n) = EvalNode(node, KidValues(node, ev, n - 1), ev)
         /\ Eval(node, ev) = EvalTo(node, ev, Levels)
<1>1. /\ OutOf("values", node, ev, 0) = Deepest("values")
      /\ \A n \in 1 .. Levels :
           OutOf("values", node, ev, n) =
             NodeOf("values", node, OutOfKids("values", node, ev, n - 1), ev)
  BY GoesDown
<1>2. /\ \A n : OutOf("values", node, ev, n) = EvalTo(node, ev, n)
      /\ \A n : OutOfKids("values", node, ev, n) = KidValues(node, ev, n)
      /\ \A kid : NodeOf("values", node, kid, ev) = EvalNode(node, kid, ev)
      /\ Deepest("values") = Raise("RecursionError")
  BY DEF OutOf, OutOfKids, KidValues, NodeOf, Deepest
<1>3. Eval(node, ev) = EvalTo(node, ev, Levels)
  BY Zenon DEF Eval, EvalTo, Values
<1> QED BY <1>1, <1>2, <1>3

LEMMA InferGoesDown ==
  ASSUME NEW T, Grown(T), NEW node \in T, NEW env
  PROVE  /\ InferTo(node, env, 0) = Typed("Unknown", FALSE)
         /\ \A n \in 1 .. Levels :
              InferTo(node, env, n) = InferNode(node, KidTypes(node, env, n - 1), env)
         /\ Infer(node, env) = InferTo(node, env, Levels)
<1>1. /\ OutOf("types", node, env, 0) = Deepest("types")
      /\ \A n \in 1 .. Levels :
           OutOf("types", node, env, n) =
             NodeOf("types", node, OutOfKids("types", node, env, n - 1), env)
  BY GoesDown
<1>2. /\ \A n : OutOf("types", node, env, n) = InferTo(node, env, n)
      /\ \A n : OutOfKids("types", node, env, n) = KidTypes(node, env, n)
      /\ \A kid : NodeOf("types", node, kid, env) = InferNode(node, kid, env)
      /\ Deepest("types") = Typed("Unknown", FALSE)
  BY DEF OutOf, OutOfKids, KidTypes, NodeOf, Deepest
<1>3. Infer(node, env) = InferTo(node, env, Levels)
  BY Zenon DEF Infer, InferTo, Types
<1> QED BY <1>1, <1>2, <1>3

-----------------------------------------------------------------------------
(* Unknown metrics.  What an expression comes out as at a snapshot, and at *)
(* one where more metrics are known: if neither raises and the first is    *)
(* known, the two are the same value.                                      *)
Alike(v, w) == v.sort = w.sort /\ v.is = w.is

Sharper(v, w) == v.sort \in {"unknown", "raise"} \/ w.sort = "raise" \/ Alike(v, w)

LEMMA DecimalsAlike ==
  ASSUME NEW v, NEW w, Alike(v, w)
  PROVE  Alike(AsDecimal(v), AsDecimal(w))
BY DEF Alike, AsDecimal, Raise, Num

LEMMA UnarySharper ==
  ASSUME NEW op, NEW v, NEW w, Sharper(v, w)
  PROVE  Sharper(EvalUnary(op, v), EvalUnary(op, w))
<1>1. CASE v.sort \in {"unknown", "raise"} \/ w.sort \in {"unknown", "raise"}
  BY <1>1 DEF Sharper, Alike, EvalUnary
<1>2. CASE v.sort \notin {"unknown", "raise"} /\ Alike(v, w) /\ op = "not"
  BY <1>2 DEF Sharper, Alike, EvalUnary, Bool, Raise
<1>3. CASE v.sort \notin {"unknown", "raise"} /\ Alike(v, w) /\ op # "not"
  <2>1. Alike(AsDecimal(v), AsDecimal(w))
    BY <1>3, DecimalsAlike
  <2>2. w.sort \notin {"unknown", "raise"}
    BY <1>3 DEF Alike
  <2>3. /\ EvalUnary(op, v) = IF AsDecimal(v).sort = "raise" \/ op = "+"
                              THEN AsDecimal(v) ELSE Minus(AsDecimal(v))
        /\ EvalUnary(op, w) = IF AsDecimal(w).sort = "raise" \/ op = "+"
                              THEN AsDecimal(w) ELSE Minus(AsDecimal(w))
    BY <1>3, <2>2 DEF EvalUnary
  <2>4. Minus(AsDecimal(v)) = Minus(AsDecimal(w))
    BY <2>1 DEF Alike, Minus
  <2> QED BY <2>1, <2>3, <2>4 DEF Sharper, Alike
<1> QED BY <1>1, <1>2, <1>3 DEF Sharper

Decided(decides, l, r) ==
  CASE l.sort = "raise" -> l
    [] l.sort = "bool" /\ l.is = decides -> l
    [] l.sort = "unknown" /\ r.sort = "bool" /\ r.is # decides -> UnknownV
    [] l.sort = "unknown" /\ ~ (r.sort = "bool" /\ r.is # decides) -> r
    [] l.sort = "bool" /\ l.is # decides -> r

LEMMA BooleanSharper ==
  ASSUME NEW d \in BOOLEAN, NEW v1, NEW w1, NEW v2, NEW w2,
         Sharper(v1, w1), Sharper(v2, w2)
  PROVE  Sharper(EvalBoolean(d, v1, v2), EvalBoolean(d, w1, w2))
<1>1. /\ Sharper(Truth(v1), Truth(w1)) /\ Sharper(Truth(v2), Truth(w2))
      /\ Truth(v1).sort \in {"raise", "bool", "unknown"}
      /\ Truth(w1).sort \in {"raise", "bool", "unknown"}
      /\ Truth(v2).sort \in {"raise", "bool", "unknown"}
      /\ Truth(w2).sort \in {"raise", "bool", "unknown"}
  BY DEF Truth, Sharper, Alike, Raise
<1>2. ASSUME NEW l, NEW r, NEW x, NEW y,
             Sharper(l, x), Sharper(r, y),
             l.sort \in {"raise", "bool", "unknown"}, x.sort \in {"raise", "bool", "unknown"},
             r.sort \in {"raise", "bool", "unknown"}, y.sort \in {"raise", "bool", "unknown"}
      PROVE  Sharper(Decided(d, l, r), Decided(d, x, y))
  BY <1>2 DEF Decided, Sharper, Alike, UnknownV
<1>3. /\ EvalBoolean(d, v1, v2) = Decided(d, Truth(v1), Truth(v2))
      /\ EvalBoolean(d, w1, w2) = Decided(d, Truth(w1), Truth(w2))
  BY Zenon DEF EvalBoolean, Decided
<1> QED BY <1>1, <1>2, <1>3

Operation(op, x, y) ==
  CASE op = "+" -> Plus(x, y)
    [] op = "-" -> Plus(x, Minus(y))
    [] op = "*" -> Times(x, y)
    [] op = "/" -> IF op = "/" /\ y.is[1] = 0 THEN Raise("DivisionByZero") ELSE Over(x, y)
    [] OTHER    -> Raise("operator")

Holds(op, x, y) ==
  CASE op = "==" -> Same(x, y)
    [] op = "!=" -> ~ Same(x, y)
    [] op = "<"  -> Below(x, y)
    [] op = "<=" -> ~ Below(y, x)
    [] op = ">"  -> Below(y, x)
    [] op = ">=" -> ~ Below(x, y)

Compared(op, l, r, x, y) ==
  IF "bool" \in {l.sort, r.sort} THEN Raise("type")
  ELSE IF "raise" \in {x.sort, y.sort} THEN Unless(x, y, x)
  ELSE IF op \in Comparison THEN Bool(Holds(op, x, y)) ELSE Raise("operator")

LEMMA ArithmeticSharper ==
  ASSUME NEW op, NEW l, NEW x, NEW r, NEW y, Sharper(l, x), Sharper(r, y)
  PROVE  Sharper(EvalArithmetic(op, l, r), EvalArithmetic(op, x, y))
<1>1. CASE {l.sort, r.sort} \intersect {"unknown", "raise"} # {}
           \/ {x.sort, y.sort} \intersect {"raise"} # {}
  BY <1>1 DEF Sharper, EvalArithmetic, Unless, UnknownV
<1>2. CASE /\ {l.sort, r.sort} \intersect {"unknown", "raise"} = {}
           /\ {x.sort, y.sort} \intersect {"raise"} = {}
  <2>1. Alike(l, x) /\ Alike(r, y)
    BY <1>2 DEF Sharper
  <2>2. {x.sort, y.sort} \intersect {"unknown", "raise"} = {}
    BY <1>2, <2>1 DEF Alike
  <2>3. Alike(AsDecimal(l), AsDecimal(x)) /\ Alike(AsDecimal(r), AsDecimal(y))
    BY <2>1, DecimalsAlike
  <2>4. ASSUME NEW a, NEW b, NEW p, NEW q, Alike(a, p), Alike(b, q)
        PROVE  Plus(a, b) = Plus(p, q) /\ Times(a, b) = Times(p, q)
               /\ Minus(b) = Minus(q) /\ Over(a, b) = Over(p, q)
    BY <2>4 DEF Alike, Plus, Times, Minus, Over
  <2>5. Plus(AsDecimal(l), Minus(AsDecimal(r))) = Plus(AsDecimal(x), Minus(AsDecimal(y)))
    BY <2>3 DEF Alike, Plus, Minus
  <2>6. EvalArithmetic(op, l, r) = Unless(AsDecimal(l), AsDecimal(r),
          Operation(op, AsDecimal(l), AsDecimal(r)))
        /\ EvalArithmetic(op, x, y) = Unless(AsDecimal(x), AsDecimal(y),
          Operation(op, AsDecimal(x), AsDecimal(y)))
    BY <1>2, <2>2 DEF EvalArithmetic, Operation
  <2>7. Operation(op, AsDecimal(l), AsDecimal(r)) = Operation(op, AsDecimal(x), AsDecimal(y))
    BY <2>3, <2>4, <2>5 DEF Operation, Alike
  <2> QED BY <2>3, <2>6, <2>7 DEF Unless, Sharper, Alike
<1> QED BY <1>1, <1>2

LEMMA CompareSharper ==
  ASSUME NEW op, NEW l, NEW x, NEW r, NEW y, Sharper(l, x), Sharper(r, y)
  PROVE  Sharper(EvalCompare(op, l, r), EvalCompare(op, x, y))
<1>1. CASE {l.sort, r.sort} \intersect {"unknown", "raise"} # {}
           \/ {x.sort, y.sort} \intersect {"raise"} # {}
  BY <1>1 DEF Sharper, EvalCompare, Unless, UnknownV
<1>2. CASE /\ {l.sort, r.sort} \intersect {"unknown", "raise"} = {}
           /\ {x.sort, y.sort} \intersect {"raise"} = {}
  <2>1. Alike(l, x) /\ Alike(r, y)
    BY <1>2 DEF Sharper
  <2>2. {x.sort, y.sort} \intersect {"unknown", "raise"} = {}
    BY <1>2, <2>1 DEF Alike
  <2>3. Alike(AsDecimal(l), AsDecimal(x)) /\ Alike(AsDecimal(r), AsDecimal(y))
    BY <2>1, DecimalsAlike
  <2>4. Same(AsDecimal(l), AsDecimal(r)) = Same(AsDecimal(x), AsDecimal(y))
        /\ Below(AsDecimal(l), AsDecimal(r)) = Below(AsDecimal(x), AsDecimal(y))
        /\ Below(AsDecimal(r), AsDecimal(l)) = Below(AsDecimal(y), AsDecimal(x))
    BY <2>3 DEF Alike, Same, Below
  <2>5. /\ EvalCompare(op, l, r) = Compared(op, l, r, AsDecimal(l), AsDecimal(r))
        /\ EvalCompare(op, x, y) = Compared(op, x, y, AsDecimal(x), AsDecimal(y))
    BY <1>2, <2>2, Zenon DEF EvalCompare, Compared, Holds
  <2>6. op \in Comparison => Holds(op, AsDecimal(l), AsDecimal(r)) = Holds(op, AsDecimal(x), AsDecimal(y))
    BY <2>4 DEF Holds, Comparison
  <2>7. CASE "bool" \in {l.sort, r.sort}
    BY <2>1, <2>5, <2>7 DEF Compared, Sharper, Alike
  <2>8. CASE "bool" \notin {l.sort, r.sort} /\ "raise" \in {AsDecimal(l).sort, AsDecimal(r).sort}
    BY <2>5, <2>8 DEF Compared, Sharper, Unless
  <2>9. CASE /\ "bool" \notin {l.sort, r.sort}
             /\ "raise" \notin {AsDecimal(l).sort, AsDecimal(r).sort}
    <3>1. /\ "bool" \notin {x.sort, y.sort}
          /\ "raise" \notin {AsDecimal(x).sort, AsDecimal(y).sort}
      BY <2>1, <2>3, <2>9 DEF Alike
    <3>2. Compared(op, l, r, AsDecimal(l), AsDecimal(r))
          = Compared(op, x, y, AsDecimal(x), AsDecimal(y))
      BY <2>6, <2>9, <3>1, Zenon DEF Compared
    <3> QED BY <2>5, <3>2 DEF Sharper, Alike
  <2> QED BY <2>7, <2>8, <2>9
<1> QED BY <1>1, <1>2

LEMMA AbsSharper ==
  ASSUME NEW v, NEW w, Sharper(v, w)
  PROVE  Sharper(EvalAbs(v, AsDecimal(v)), EvalAbs(w, AsDecimal(w)))
<1>1. CASE v.sort \in {"unknown", "raise"} \/ w.sort = "raise"
  BY <1>1 DEF Sharper, EvalAbs, Unless, AsDecimal
<1>2. CASE v.sort \notin {"unknown", "raise"} /\ w.sort # "raise"
  <2>1. Alike(v, w) /\ Alike(AsDecimal(v), AsDecimal(w))
    BY <1>2, DecimalsAlike DEF Sharper
  <2>2. Absolute(AsDecimal(v)) = Absolute(AsDecimal(w))
        \/ Alike(Absolute(AsDecimal(v)), Absolute(AsDecimal(w)))
    BY <2>1 DEF Absolute, Alike, Below, Minus
  <2> QED BY <1>2, <2>1, <2>2 DEF EvalAbs, Unless, Sharper, Alike
<1> QED BY <1>1, <1>2

(* A call in a chain rule.                                                 *)
LEMMA CallSharper ==
  ASSUME NEW ev, NEW c, ev.context = "chain", c.context = "chain",
         NEW fn, NEW node, NEW v, NEW w, Sharper(v, w)
  PROVE  Sharper(EvalNamedCall(fn, node, v, ev), EvalNamedCall(fn, node, w, c))
<1>1. CASE fn \notin FunctionNames \/ node.kw # <<>>
  BY <1>1 DEF EvalNamedCall, Sharper, Raise
<1>2. CASE ~ (fn \notin FunctionNames \/ node.kw # <<>>)
  <2>1. CASE fn = "abs" /\ Len(node.kids) - 1 = 1
    BY <1>2, <2>1, AbsSharper DEF EvalNamedCall
  <2>2. CASE ~ (fn = "abs" /\ Len(node.kids) - 1 = 1)
    BY <1>2, <2>2 DEF EvalNamedCall, Sharper, Raise
  <2> QED BY <2>1, <2>2
<1> QED BY <1>1, <1>2

(* The fields of a snapshot and of one where more of the metrics are known.*)
FieldsSharper(ev, c) ==
  \A dn : Sharper(FieldValue(dn, RuntimeEnv(ev)), FieldValue(dn, RuntimeEnv(c)))

LEMMA NodeSharper ==
  ASSUME NEW T, Grown(T), NEW x \in T,
         NEW ev, NEW c, ev.context = "chain", c.context = "chain", FieldsSharper(ev, c),
         NEW v, NEW w, \A i \in 1 .. Len(x.kids) : Sharper(v[i], w[i])
  PROVE  Sharper(EvalNode(x, v, ev), EvalNode(x, w, c))
<1>1. IsNode(x, T) /\ Len(x.kids) \in Nat
  BY DEF Grown, IsNode, HasShape
<1>2. CASE x.kind \in {"literal", "name"}
  <2>1. CASE x.kind = "literal"
    <3>1. EvalNode(x, v, ev) = EvalNode(x, w, c)
      BY <2>1 DEF EvalNode
    <3> QED BY <3>1 DEF Sharper, Alike
  <2>2. CASE x.kind = "name" /\ x.tok \in FunctionNames \union Verbs
    <3>1. EvalNode(x, v, ev) = EvalNode(x, w, c)
      BY <2>2 DEF EvalNode
    <3> QED BY <3>1 DEF Sharper, Alike
  <2>3. CASE x.kind = "name" /\ x.tok \notin FunctionNames \union Verbs
    <3>1. /\ EvalNode(x, v, ev) = FieldValue(DottedName(x), RuntimeEnv(ev))
          /\ EvalNode(x, w, c) = FieldValue(DottedName(x), RuntimeEnv(c))
      BY <2>3 DEF EvalNode
    <3> QED BY <3>1 DEF FieldsSharper
  <2> QED BY <1>2, <2>1, <2>2, <2>3
<1>3. CASE x.kind = "attribute"
  <2>1. /\ EvalNode(x, v, ev) = FieldValue(DottedName(x), RuntimeEnv(ev))
        /\ EvalNode(x, w, c) = FieldValue(DottedName(x), RuntimeEnv(c))
    BY <1>3 DEF EvalNode
  <2> QED BY <2>1 DEF FieldsSharper
<1>4. CASE x.kind = "unary"
  <2>0. Len(x.kids) = 1
    BY <1>1, <1>4 DEF IsNode, HasShape
  <2>1. Sharper(v[1], w[1])
    BY <2>0
  <2>2. EvalNode(x, v, ev) = EvalUnary(x.tok, v[1]) /\ EvalNode(x, w, c) = EvalUnary(x.tok, w[1])
    BY <1>4 DEF EvalNode
  <2> QED BY <2>1, <2>2, UnarySharper
<1>5. CASE x.kind \in {"binary", "compare"}
  <2>0. Len(x.kids) = 2
    BY <1>1, <1>5 DEF IsNode, HasShape
  <2>1. Sharper(v[1], w[1]) /\ Sharper(v[2], w[2])
    BY <2>0
  <2>2. CASE x.kind = "binary" /\ x.tok \in {"and", "or"}
    <3>1. /\ EvalNode(x, v, ev) = EvalBoolean(x.tok = "or", v[1], v[2])
          /\ EvalNode(x, w, c) = EvalBoolean(x.tok = "or", w[1], w[2])
      BY <2>2 DEF EvalNode
    <3>2. PICK d \in BOOLEAN : d = (x.tok = "or")
      OBVIOUS
    <3>3. Sharper(EvalBoolean(d, v[1], v[2]), EvalBoolean(d, w[1], w[2]))
      BY <2>1, BooleanSharper
    <3> QED BY <3>1, <3>2, <3>3
  <2>3. CASE x.kind = "binary" /\ x.tok \notin {"and", "or"}
    <3>1. /\ EvalNode(x, v, ev) = EvalArithmetic(x.tok, v[1], v[2])
          /\ EvalNode(x, w, c) = EvalArithmetic(x.tok, w[1], w[2])
      BY <2>3 DEF EvalNode
    <3> QED BY <2>1, <3>1, ArithmeticSharper
  <2>4. CASE x.kind = "compare"
    <3>1. /\ EvalNode(x, v, ev) = EvalCompare(x.tok, v[1], v[2])
          /\ EvalNode(x, w, c) = EvalCompare(x.tok, w[1], w[2])
      BY <2>4 DEF EvalNode
    <3> QED BY <2>1, <3>1, CompareSharper
  <2> QED BY <1>5, <2>2, <2>3, <2>4
<1>6. CASE x.kind = "call"
  <2>0. Len(x.kids) \in 1 .. Len(x.kids)
    BY <1>1, <1>6 DEF IsNode, HasShape
  <2>1. Sharper(v[Len(x.kids)], w[Len(x.kids)])
    BY <2>0, Zenon
  <2>2. /\ EvalNode(x, v, ev) = EvalCall(x, v, ev)
        /\ EvalNode(x, w, c) = EvalCall(x, w, c)
    BY <1>6 DEF EvalNode
  <2> QED BY <2>1, <2>2, CallSharper DEF EvalCall
<1> QED BY <1>1, <1>2, <1>3, <1>4, <1>5, <1>6 DEF IsNode, HasShape

LEMMA EvalSharper ==
  ASSUME NEW T, Grown(T), NEW ev, NEW c, ev.context = "chain", c.context = "chain",
         FieldsSharper(ev, c)
  PROVE  \A x \in T : Sharper(Eval(x, ev), Eval(x, c))
<1> DEFINE S == {n \in Nat : n <= Levels =>
                   \A x \in T : Sharper(EvalTo(x, ev, n), EvalTo(x, c, n))}
<1>1. 0 \in S
  <2>1. ASSUME NEW x \in T
        PROVE  Sharper(EvalTo(x, ev, 0), EvalTo(x, c, 0))
    BY EvalGoesDown DEF Sharper, Raise
  <2> QED BY <2>1
<1>2. ASSUME NEW n \in Nat, n \in S
      PROVE  n + 1 \in S
  <2>1. ASSUME n + 1 <= Levels, NEW x \in T
        PROVE  Sharper(EvalTo(x, ev, n + 1), EvalTo(x, c, n + 1))
    <3>1. n + 1 \in 1 .. Levels /\ (n + 1) - 1 = n /\ n <= Levels
      BY <2>1, LevelsAssumption
    <3>2. EvalTo(x, ev, n + 1) = EvalNode(x, KidValues(x, ev, n), ev)
          /\ EvalTo(x, c, n + 1) = EvalNode(x, KidValues(x, c, n), c)
      BY <3>1, EvalGoesDown
    <3>3. x.kids \in Seq(T)
      BY DEF Grown, IsNode
    <3>4. ASSUME NEW i \in 1 .. Len(x.kids)
          PROVE  Sharper(KidValues(x, ev, n)[i], KidValues(x, c, n)[i])
      <4>1. x.kids[i] \in T
        BY <3>3
      <4>2. Sharper(EvalTo(x.kids[i], ev, n), EvalTo(x.kids[i], c, n))
        BY <1>2, <3>1, <4>1
      <4> QED BY <4>2 DEF KidValues
    <3> QED BY <3>2, <3>4, NodeSharper
  <2> QED BY <2>1
<1>3. \A n \in Nat : n \in S => n + 1 \in S
  BY <1>2
<1> HIDE DEF S
<1>4. Levels \in S
  BY <1>1, <1>3, Successors, LevelsAssumption
<1>5. \A x \in T : Sharper(EvalTo(x, ev, Levels), EvalTo(x, c, Levels))
  BY <1>4, LevelsAssumption DEF S
<1> QED BY <1>5, EvalGoesDown

LEMMA CompletionSharper ==
  ASSUME NEW ev, IsChainEvent(ev), NEW c \in Completions(ev)
  PROVE  c.context = "chain" /\ FieldsSharper(ev, c)
<1> DEFINE open == {k \in DOMAIN ev.metrics : Named(k) /\ ev.metrics[k].sort = "unknown"}
<1>1. PICK m \in [open -> MetricValues \union {UnknownV}] : c = [ev EXCEPT !.metrics = m ++ @]
  BY Zenon DEF Completions
<1>2. /\ c.context = ev.context /\ c.fresh = ev.fresh /\ c.complete = ev.complete
      /\ c.flagged = ev.flagged /\ c.unknowns = ev.unknowns /\ ev.context = "chain"
      /\ c.metrics = m ++ ev.metrics
  BY <1>1 DEF IsChainEvent
<1>3. /\ DOMAIN c.metrics = DOMAIN ev.metrics
      /\ \A k \in DOMAIN ev.metrics : Sharper(ev.metrics[k], c.metrics[k])
  BY <1>2 DEF Sharper, Alike, ++
<1> DEFINE M(e) == [n \in Within("chain", DOMAIN e.metrics) |-> e.metrics[n[2]]]
           R == Of(Str("a timestamp"), Within("chain", {"as_of", "time"}))
                ++ Of(Bool(ev.fresh /\ ~ ev.flagged), {<<"chain", "is_fresh">>})
                ++ Of(Bool(ev.complete), {<<"chain", "is_complete">>})
                ++ Of(Bool(ev.unknowns), {<<"chain", "has_unknowns">>})
                ++ Of(Bool(ev.complete /\ ev.fresh /\ ~ ev.flagged),
                      {<<"chain", "quality_ok">>})
<1>4. RuntimeEnv(ev) = R ++ M(ev) /\ RuntimeEnv(c) = R ++ M(c)
  BY <1>2 DEF RuntimeEnv
<1>5. /\ DOMAIN M(ev) = DOMAIN M(c)
      /\ \A n \in DOMAIN M(ev) : Sharper(M(ev)[n], M(c)[n])
  BY <1>3 DEF Within
<1> HIDE DEF R, M
<1>6. ASSUME NEW dn
      PROVE  Sharper(FieldValue(dn, R ++ M(ev)), FieldValue(dn, R ++ M(c)))
  BY <1>5 DEF FieldValue, Sharper, Alike, ++
<1> QED BY <1>2, <1>4, <1>6 DEF FieldsSharper

(* No tree raises wherever it is evaluated.                                *)
LEMMA NothingOut ==
  ASSUME NEW e, NEW which, which \in {"types", "values"}, Levels > 0
  PROVE  \E kid : OutOf(which, NoNode, e, Levels) = NodeOf(which, NoNode, kid, e)
<1>1. PICK t : /\ Walks(t, which, NoNode, e)
               /\ \A n \in Nat : OutOf(which, NoNode, e, n) = t[n][<<>>]
  BY WalkThrough
<1>2. <<>> \in Path /\ At(NoNode, <<>>) = NoNode
  BY AtHere
<1>3. Levels \in 1 .. Levels
  BY LevelsAssumption
<1>4. t[Levels][<<>>] = NodeOf(which, NoNode, FromKids(t[Levels - 1], NoNode, <<>>), e)
  BY <1>1, <1>2, <1>3 DEF Walks
<1> QED BY <1>1, <1>4, LevelsAssumption

LEMMA NothingDeep ==
  ASSUME NEW e, NEW which, which \in {"types", "values"}
  PROVE  OutOf(which, NoNode, e, 0) = Deepest(which)
<1>1. PICK t : /\ Walks(t, which, NoNode, e)
               /\ \A n \in Nat : OutOf(which, NoNode, e, n) = t[n][<<>>]
  BY WalkThrough
<1>2. <<>> \in Path
  BY AtHere
<1> QED BY <1>1, <1>2 DEF Walks

LEMMA NothingRaises ==
  ASSUME NEW ev
  PROVE  Eval(NoNode, ev).sort = "raise"
<1>1. Eval(NoNode, ev) = EvalTo(NoNode, ev, Levels)
  BY Zenon DEF Eval, EvalTo, Values
<1>2. CASE Levels = 0
  <2>1. EvalTo(NoNode, ev, 0) = Raise("RecursionError")
    BY NothingDeep DEF OutOf, Deepest
  <2> QED BY <1>1, <1>2, <2>1 DEF Raise
<1>3. CASE Levels > 0
  <2>1. PICK kid : EvalTo(NoNode, ev, Levels) = EvalNode(NoNode, kid, ev)
    BY <1>3, NothingOut DEF OutOf, NodeOf
  <2>2. EvalNode(NoNode, kid, ev) = Raise("empty")
    BY DEF EvalNode, NoNode, Node
  <2> QED BY <1>1, <2>1, <2>2 DEF Raise
<1> QED BY <1>2, <1>3, LevelsAssumption

LEMMA NothingTyped ==
  ASSUME NEW env
  PROVE  Infer(NoNode, env) = Typed("Unknown", Levels > 0)
<1>1. Infer(NoNode, env) = InferTo(NoNode, env, Levels)
  BY Zenon DEF Infer, InferTo, Types
<1>2. CASE Levels = 0
  <2>1. InferTo(NoNode, env, 0) = Typed("Unknown", FALSE)
    BY NothingDeep DEF OutOf, Deepest
  <2>2. (Levels > 0) = FALSE
    BY <1>2
  <2> QED BY <1>1, <1>2, <2>1, <2>2
<1>3. CASE Levels > 0
  <2>1. PICK kid : InferTo(NoNode, env, Levels) = InferNode(NoNode, kid, env)
    BY <1>3, NothingOut DEF OutOf, NodeOf
  <2>2. InferNode(NoNode, kid, env) = Typed("Unknown", TRUE)
    BY DEF InferNode, NoNode, Node
  <2>3. (Levels > 0) = TRUE
    BY <1>3
  <2> QED BY <1>1, <1>3, <2>1, <2>2, <2>3
<1> QED BY <1>2, <1>3, LevelsAssumption

(* What a tree decides at a snapshot it decides whatever is unknown there. *)
LEMMA DecidedIsSettled ==
  ASSUME NEW x, x = NoNode \/ IsTree(x), NEW ev, IsChainEvent(ev),
         Predicate(x, ev).sort = "bool", NEW c \in Completions(ev)
  PROVE  IsOrRaises(Predicate(x, c), Predicate(x, ev).is)
<1>1. ev.context = "chain" /\ c.context = "chain" /\ FieldsSharper(ev, c)
  BY CompletionSharper DEF IsChainEvent
<1>2. PICK v : v = Eval(x, ev)
  OBVIOUS
<1>3. PICK w : w = Eval(x, c)
  OBVIOUS
<1>4. Predicate(x, ev) = AsPredicate(v, "chain") /\ Predicate(x, c) = AsPredicate(w, "chain")
  BY <1>1, <1>2, <1>3 DEF Predicate
<1>5. v.sort = "bool" /\ Predicate(x, ev) = v
  BY <1>4 DEF AsPredicate, Raise
<1>6. x # NoNode
  BY <1>2, <1>5, NothingRaises
<1>7. PICK T : x \in T /\ Grown(T)
  BY <1>6 DEF IsTree
<1>8. Sharper(v, w)
  BY <1>1, <1>2, <1>3, <1>7, EvalSharper
<1>9. w.sort = "raise" \/ (w.sort = "bool" /\ w.is = v.is)
  BY <1>5, <1>8 DEF Sharper, Alike
<1> QED BY <1>4, <1>5, <1>9 DEF AsPredicate, IsOrRaises

-----------------------------------------------------------------------------
(* Types.                                                                  *)
Judged == [type: Type, ok: BOOLEAN]

LEMMA JudgedTyped ==
  ASSUME NEW t \in Type, NEW ok \in BOOLEAN
  PROVE  Typed(t, ok) \in Judged
BY DEF Typed, Judged

LEMMA WidenedType ==
  ASSUME NEW t \in Type
  PROVE  Widened(t) \in Type /\ Widened(t) \notin LiteralTypes
         /\ (t \in Numeric => Widened(t) \in Numeric)
BY DEF Widened, Type, Numeric, LiteralTypes

AllTypes(env) == \A dn \in DOMAIN env : env[dn] \in Type

LEMMA TypesTogether ==
  /\ \A t, names : t \in Type => AllTypes(Of(t, names))
  /\ \A f, g : AllTypes(f) /\ AllTypes(g) => AllTypes(f ++ g)
BY DEF AllTypes, Of, ++

LEMMA FieldsTyped ==
  ASSUME NEW context \in {"underlying", "option", "chain"}
  PROVE  AllTypes(EnvTypes(context))
<1>1. {"Bool", "Percent", "Price", "Quantity", "Timestamp", "String", "Date", "Decimal"}
        \subseteq Type
  BY DEF Type, Numeric, LiteralTypes
<1>2. AllTypes(GuardTypes)
  BY <1>1, TypesTogether DEF GuardTypes
<1>3. CASE context = "underlying"
  BY <1>1, <1>2, <1>3, TypesTogether DEF EnvTypes
<1>4. CASE context = "option"
  BY <1>1, <1>2, <1>4, TypesTogether DEF EnvTypes
<1>5. CASE context = "chain"
  BY <1>1, <1>5, TypesTogether DEF EnvTypes
<1> QED BY <1>3, <1>4, <1>5

LEMMA CallTyped ==
  ASSUME NEW fn \in FunctionNames, NEW args \in Seq(Judged)
  PROVE  InferCall(fn, args) \in Judged
<1> DEFINE n == Len(args)
<1>1. n \in Nat /\ \A i \in 1 .. n : args[i] \in Judged
  OBVIOUS
<1>2. ASSUME NEW t \in Judged
      PROVE  t.type \in Type /\ t.ok \in BOOLEAN
  BY DEF Judged
<1>3. "Unknown" \in Type /\ "Percent" \in Type /\ "Price" \in Type
  BY DEF Type, Numeric, LiteralTypes
<1>4. CASE n \notin Arity(fn)
  <2>1. InferCall(fn, args) = Typed("Unknown", FALSE)
    BY <1>4 DEF InferCall
  <2> QED BY <1>3, <2>1, JudgedTyped
<1>5. CASE n \in Arity(fn) /\ fn = "abs"
  <2>1. args[1] \in Judged
    BY <1>1, <1>5 DEF Arity
  <2>2. Typed(Widened(args[1].type), args[1].ok) \in Judged /\ Typed("Unknown", FALSE) \in Judged
    BY <1>2, <1>3, <2>1, WidenedType, JudgedTyped
  <2>3. InferCall(fn, args) \in {Typed(Widened(args[1].type), args[1].ok), Typed("Unknown", FALSE)}
    BY <1>5 DEF InferCall
  <2> QED BY <2>2, <2>3
<1>6. CASE n \in Arity(fn) /\ fn \in {"highest", "lowest", "ema"}
  <2>1. args[1] \in Judged
    BY <1>1, <1>6 DEF Arity
  <2>2. InferCall(fn, args) = Typed(Widened(args[1].type), args[1].ok /\ IsLength(args[2]))
    BY <1>6 DEF InferCall
  <2> QED BY <1>2, <2>1, <2>2, WidenedType, JudgedTyped
<1>7. CASE n \in Arity(fn) /\ fn = "rsi"
  <2>1. InferCall(fn, args) = Typed("Percent", args[1].ok /\ IsLength(args[2]))
    BY <1>7 DEF InferCall
  <2> QED BY <1>3, <2>1, JudgedTyped
<1>8. CASE n \in Arity(fn) /\ fn \in {"prior_high", "prior_low", "atr", "vwap"}
  <2>1. InferCall(fn, args) = Typed("Price", n = 1 => IsLength(args[1]))
    BY <1>8 DEF InferCall
  <2> QED BY <1>3, <2>1, JudgedTyped
<1> QED BY <1>4, <1>5, <1>6, <1>7, <1>8 DEF FunctionNames

LEMMA BinaryTyped ==
  ASSUME NEW op, NEW l \in Judged, NEW r \in Judged
  PROVE  /\ InferBinary(op, l, r) \in Judged
         /\ InferCompare(l, r) \in Judged
         /\ InferUnary(op, l) \in Judged
<1>1. /\ l.type \in Type /\ l.ok \in BOOLEAN /\ r.type \in Type /\ r.ok \in BOOLEAN
      /\ Widened(l.type) \in Type /\ Widened(r.type) \in Type
      /\ "Unknown" \in Type /\ "Bool" \in Type /\ "Decimal" \in Type
  BY WidenedType DEF Judged, Type, Numeric, LiteralTypes
<1>2. InferBoolean(l, r) \in Judged
  BY <1>1, JudgedTyped DEF InferBoolean
<1>3. InferArithmetic(op, l, r) \in Judged
  <2>1. PICK t : t = InferArithmetic(op, l, r).type
    OBVIOUS
  <2>2. InferArithmetic(op, l, r) = Typed(t, l.ok /\ r.ok /\ t # "Unknown")
    BY <2>1 DEF InferArithmetic, Typed
  <2>3. t \in Type
    BY <1>1, <2>1 DEF InferArithmetic, Typed
  <2> QED BY <2>2, <2>3, JudgedTyped
<1>4. InferBinary(op, l, r) \in
        {Typed("Unknown", l.ok /\ r.ok), InferBoolean(l, r), InferArithmetic(op, l, r)}
  BY DEF InferBinary
<1>5. Typed("Unknown", l.ok /\ r.ok) \in Judged
  BY <1>1, JudgedTyped
<1>6. InferCompare(l, r) \in Judged
  BY <1>1, JudgedTyped DEF InferCompare
<1>7. InferUnary(op, l) \in Judged
  BY <1>1, JudgedTyped DEF InferUnary
<1> QED BY <1>2, <1>3, <1>4, <1>5, <1>6, <1>7

(* What a node is judged to be is a type and whether all is well.          *)
LEMMA NodeTyped ==
  ASSUME NEW T, Grown(T), NEW x \in T, NEW env, \A dn \in DOMAIN env : env[dn] \in Type,
         NEW kid, kid = [i \in 1 .. Len(x.kids) |-> kid[i]],
         \A i \in 1 .. Len(x.kids) : kid[i] \in Judged
  PROVE  InferNode(x, kid, env) \in Judged
<1>1. IsNode(x, T) /\ Len(x.kids) \in Nat
  BY DEF Grown, IsNode, HasShape
<1>2. Typed("Unknown", TRUE) \in Judged /\ Typed("Unknown", FALSE) \in Judged
  BY JudgedTyped DEF Type, Numeric, LiteralTypes
<1>3. CASE x.kind = "literal"
  <2>1. LiteralType[x.tok] \in Type
    BY <1>1, <1>3, LiteralTypeAssumption DEF IsNode, HasShape, Type, Numeric, LiteralTypes
  <2>2. InferNode(x, kid, env) = Typed(LiteralType[x.tok], TRUE)
    BY <1>3 DEF InferNode
  <2> QED BY <2>1, <2>2, JudgedTyped
<1>4. CASE x.kind \in {"name", "attribute"}
  <2>1. InferNode(x, kid, env) =
          IF DottedName(x) \in DOMAIN env THEN Typed(env[DottedName(x)], TRUE)
          ELSE Typed("Unknown", x.kind = "name" /\ x.tok \in FunctionNames)
    BY <1>4 DEF InferNode
  <2> QED BY <2>1, JudgedTyped DEF Type, Numeric, LiteralTypes
<1>5. CASE x.kind = "unary"
  <2>1. Len(x.kids) = 1
    BY <1>1, <1>5 DEF IsNode, HasShape
  <2>2. InferNode(x, kid, env) = InferUnary(x.tok, kid[1]) /\ kid[1] \in Judged
    BY <1>5, <2>1 DEF InferNode
  <2> QED BY <2>2, BinaryTyped
<1>6. CASE x.kind \in {"binary", "compare"}
  <2>1. Len(x.kids) = 2
    BY <1>1, <1>6 DEF IsNode, HasShape
  <2>2. kid[1] \in Judged /\ kid[2] \in Judged
    BY <2>1
  <2>3. InferNode(x, kid, env) \in {InferBinary(x.tok, kid[1], kid[2]), InferCompare(kid[1], kid[2])}
    BY <1>6 DEF InferNode
  <2>4. InferBinary(x.tok, kid[1], kid[2]) \in Judged /\ InferCompare(kid[1], kid[2]) \in Judged
    BY <2>2, BinaryTyped
  <2> QED BY <2>3, <2>4
<1>7. CASE x.kind = "call"
  <2>1. PICK fn : fn = DottedName(x.kids[1])
    OBVIOUS
  <2>2. InferNode(x, kid, env) = IF fn \notin {<<f>> : f \in FunctionNames} \/ x.kw # <<>>
                                 THEN Typed("Unknown", FALSE)
                                 ELSE InferCall(fn[1], Tail(kid))
    BY <1>7, <2>1 DEF InferNode
  <2>3. CASE fn \notin {<<f>> : f \in FunctionNames} \/ x.kw # <<>>
    BY <1>2, <2>2, <2>3
  <2>4. CASE ~ (fn \notin {<<f>> : f \in FunctionNames} \/ x.kw # <<>>)
    <3>1. fn[1] \in FunctionNames
      BY <2>4
    <3>2. Len(x.kids) > 0
      BY <1>1, <1>7 DEF IsNode, HasShape
    <3>3. kid \in Seq(Judged) /\ kid # <<>>
      BY <1>1, <3>2
    <3>4. Tail(kid) \in Seq(Judged)
      BY <3>3
    <3> QED BY <2>2, <2>4, <3>1, <3>4, CallTyped
  <2> QED BY <2>3, <2>4
<1> QED BY <1>1, <1>3, <1>4, <1>5, <1>6, <1>7 DEF IsNode, HasShape

LEMMA TreeTyped ==
  ASSUME NEW T, Grown(T), NEW env, \A dn \in DOMAIN env : env[dn] \in Type
  PROVE  \A n \in 0 .. Levels : \A x \in T : InferTo(x, env, n) \in Judged
<1> DEFINE S == {n \in Nat : n <= Levels => \A x \in T : InferTo(x, env, n) \in Judged}
<1>1. 0 \in S
  <2>1. Typed("Unknown", FALSE) \in Judged
    BY JudgedTyped DEF Type, Numeric, LiteralTypes
  <2>2. \A x \in T : InferTo(x, env, 0) = Typed("Unknown", FALSE)
    BY InferGoesDown
  <2> QED BY <2>1, <2>2
<1>2. ASSUME NEW n \in Nat, n \in S
      PROVE  n + 1 \in S
  <2>1. ASSUME n + 1 <= Levels, NEW x \in T
        PROVE  InferTo(x, env, n + 1) \in Judged
    <3>1. n + 1 \in 1 .. Levels /\ (n + 1) - 1 = n /\ n <= Levels
      BY <2>1, LevelsAssumption
    <3>2. InferTo(x, env, n + 1) = InferNode(x, KidTypes(x, env, n), env)
      BY <3>1, InferGoesDown
    <3>3. x.kids \in Seq(T)
      BY DEF Grown, IsNode
    <3>4. PICK kid : kid = KidTypes(x, env, n)
      OBVIOUS
    <3>5. kid = [i \in 1 .. Len(x.kids) |-> kid[i]]
      BY <3>4 DEF KidTypes
    <3>6. \A i \in 1 .. Len(x.kids) : kid[i] \in Judged
      BY <1>2, <3>1, <3>3, <3>4 DEF KidTypes
    <3> QED BY <3>2, <3>4, <3>5, <3>6, NodeTyped
  <2> QED BY <2>1
<1>3. \A n \in Nat : n \in S => n + 1 \in S
  BY <1>2
<1> HIDE DEF S
<1>4. \A n \in Nat : n \in S
  BY <1>1, <1>3, Successors
<1> QED BY <1>4, LevelsAssumption DEF S

LEMMA ConditionTyped ==
  ASSUME NEW x, x = NoNode \/ IsTree(x), NEW context \in {"underlying", "option", "chain"}
  PROVE  Infer(x, EnvTypes(context)) \in Judged
<1>1. CASE x = NoNode
  <2>1. (Levels > 0) \in BOOLEAN /\ "Unknown" \in Type
    BY DEF Type, Numeric, LiteralTypes
  <2>2. Typed("Unknown", Levels > 0) \in Judged
    BY <2>1, JudgedTyped
  <2> QED BY <1>1, <2>2, NothingTyped
<1>2. CASE IsTree(x)
  <2>1. PICK T : x \in T /\ Grown(T)
    BY <1>2 DEF IsTree
  <2>2. Infer(x, EnvTypes(context)) = InferTo(x, EnvTypes(context), Levels)
    BY <2>1, InferGoesDown
  <2>3. \A dn \in DOMAIN EnvTypes(context) : EnvTypes(context)[dn] \in Type
    BY FieldsTyped DEF AllTypes
  <2>4. InferTo(x, EnvTypes(context), Levels) \in Judged
    BY <2>1, <2>3, TreeTyped, LevelsAssumption
  <2> QED BY <2>2, <2>4
<1> QED BY <1>1, <1>2

-----------------------------------------------------------------------------
(* The text being written.  What was parsed and whether it is accepted are *)
(* always those of the text as it stands.                                  *)
Written ==
  /\ task \in Tasks
  /\ lines \in Seq(Line)
  /\ text \in Seq(STRING)
  /\ left \in 0 .. task.max
  /\ parsed = Parse(task, lines, text)
  /\ accepted = Accepts(task, parsed)

LEMMA WrittenInit == Init => Written
<1> SUFFICES ASSUME Init
             PROVE  Written
  OBVIOUS
<1>1. task \in Task
  BY TasksAssumption DEF Init
<1>2. left \in 0 .. task.max
  BY <1>1 DEF Init, Task
<1>3. lines \in Seq(Line) /\ text \in Seq(STRING)
  BY DEF Init
<1> QED BY <1>2, <1>3 DEF Init, Written

LEMMA WrittenNext == Written /\ [Next]_vars => Written'
<1> SUFFICES ASSUME Written, [Next]_vars
             PROVE  Written'
  OBVIOUS
<1>1. task \in Task /\ task.max \in Nat
  BY TasksAssumption DEF Written, Task
<1>2. CASE AddLine
  <2>1. PICK kind \in LineKind, indent \in task.indents :
          lines' = Append(lines, [indent |-> indent, kind |-> kind])
    BY <1>2 DEF AddLine
  <2>2. [indent |-> indent, kind |-> kind] \in Line
    BY <1>1 DEF Line, Task
  <2>3. lines' \in Seq(Line)
    BY <2>1, <2>2 DEF Written
  <2>4. left' \in 0 .. task.max
    BY <1>1, <1>2 DEF AddLine, Written
  <2> QED BY <1>2, <2>3, <2>4 DEF AddLine, Written
<1>3. CASE AddWord
  <2>1. PICK w \in task.words : text' = text \o w
    BY <1>3 DEF AddWord
  <2>2. w \in Seq(STRING)
    BY <1>1 DEF Task
  <2>3. text' \in Seq(STRING)
    BY <2>1, <2>2 DEF Written
  <2>4. left' \in 0 .. task.max
    BY <1>1, <1>3 DEF AddWord, Written
  <2> QED BY <1>3, <2>3, <2>4 DEF AddWord, Written
<1>4. CASE UNCHANGED vars
  BY <1>4 DEF vars, Written
<1> QED BY <1>2, <1>3, <1>4 DEF Next

THEOREM WrittenAlways == Spec => []Written
BY WrittenInit, WrittenNext, PTL DEF Spec

(* A condition that comes out true or false although metrics are Unknown   *)
(* does so whatever they are, for every text, every snapshot and every     *)
(* number a metric may turn out to have.                                   *)
LEMMA UnknownNeverDecidesWritten == Written => UnknownNeverDecides
<1> SUFFICES ASSUME Written, AcceptedChainCondition,
                    NEW ev \in Events, ev.context = "chain",
                    Predicate(parsed.node, ev).sort = "bool"
             PROVE  Settled(Predicate(parsed.node, ev).is, ev)
  BY DEF UnknownNeverDecides, Outcomes
<1>1. IsChainEvent(ev)
  BY EventsAssumption DEF IsEvent, IsUnderlyingEvent, IsOptionEvent
<1>2. parsed = ParseUntil(text) /\ Len(text) \in Nat
  BY DEF Written, Parse, AcceptedChainCondition, AcceptedCondition
<1>3. parsed.node = NoNode \/ IsTree(parsed.node)
  BY <1>2, ParseUntilWhole DEF Whole
<1> QED BY <1>1, <1>3, DecidedIsSettled DEF Settled

THEOREM UnknownNeverDecidesAlways == Spec => []UnknownNeverDecides
BY WrittenAlways, UnknownNeverDecidesWritten, PTL

(* The text and its bounds; every condition is judged to have a type, and  *)
(* an accepted one comes out as a Bool or Unknown or raises.               *)
LEMMA TypeOKWritten == Written => TypeOK
<1> SUFFICES ASSUME Written
             PROVE  TypeOK
  OBVIOUS
<1>1. task \in Task
  BY TasksAssumption DEF Written
<1>2. task.kind \in {"file", "condition", "call"} /\ task.context \in {"underlying", "option", "chain"}
  BY <1>1 DEF Task
<1>3. accepted \in BOOLEAN
  BY <1>2 DEF Written, Accepts, FileAccepted, ConditionAccepted, CallAccepted
<1>4. ASSUME task.kind = "condition"
      PROVE  Infer(parsed.node, EnvTypes(task.context)) \in [type: Type, ok: BOOLEAN]
  <2>1. parsed = ParseUntil(text) /\ Len(text) \in Nat
    BY <1>4 DEF Written, Parse
  <2>2. parsed.node = NoNode \/ IsTree(parsed.node)
    BY <2>1, ParseUntilWhole DEF Whole
  <2> QED BY <1>2, <2>2, ConditionTyped DEF Judged
<1>5. ASSUME NEW ev
      PROVE  Predicate(parsed.node, ev).sort \in {"bool", "unknown", "raise"}
  BY DEF Predicate, AsPredicate, Raise
<1> QED BY <1>3, <1>4, <1>5 DEF Written, TypeOK

THEOREM TypeOKAlways == Spec => []TypeOK
BY WrittenAlways, TypeOKWritten, PTL

-----------------------------------------------------------------------------
(* Numbers are fractions with a positive denominator, and stay so.         *)
LEMMA NumberParts ==
  ASSUME NEW x \in Number
  PROVE  /\ x.sort = "num" /\ x.is[1] \in Int /\ x.is[2] \in Nat /\ x.is[2] > 0
         /\ x = [sort |-> "num", is |-> <<x.is[1], x.is[2]>>]
BY DEF Number

LEMMA NumNumber ==
  ASSUME NEW n \in Int, NEW d \in Int, d # 0
  PROVE  Num(n, d) \in Number
<1>1. CASE d < 0
  <2>1. 0 - d \in Nat \ {0} /\ 0 - n \in Int
    BY <1>1
  <2> QED BY <1>1, <2>1 DEF Num, Number
<1>2. CASE d > 0
  <2>1. d \in Nat \ {0} /\ ~ (d < 0)
    BY <1>2
  <2> QED BY <2>1 DEF Num, Number
<1> QED BY <1>1, <1>2

LEMMA Product ==
  ASSUME NEW a \in Int, NEW b \in Int, a > 0, b > 0
  PROVE  a * b \in Int /\ a * b > 0
OBVIOUS

LEMMA Arithmetic ==
  ASSUME NEW x \in Number, NEW y \in Number
  PROVE  /\ Plus(x, y) \in Number /\ Times(x, y) \in Number
         /\ Minus(x) \in Number /\ Absolute(x) \in Number
         /\ y.is[1] # 0 => Over(x, y) \in Number
<1>1. /\ x.is[1] \in Int /\ x.is[2] \in Int /\ x.is[2] > 0
      /\ y.is[1] \in Int /\ y.is[2] \in Int /\ y.is[2] > 0
  BY NumberParts
<1>2. x.is[2] * y.is[2] \in Int /\ x.is[2] * y.is[2] # 0
  BY <1>1, Product
<1>3. x.is[1] * y.is[2] + y.is[1] * x.is[2] \in Int /\ x.is[1] * y.is[1] \in Int
      /\ 0 - x.is[1] \in Int
  BY <1>1
<1>4. Plus(x, y) \in Number /\ Times(x, y) \in Number
  BY <1>2, <1>3, NumNumber DEF Plus, Times
<1>5. Minus(x) \in Number
  BY <1>1, <1>3, NumNumber DEF Minus
<1>6. Absolute(x) \in Number
  BY <1>5 DEF Absolute
<1>7. ASSUME y.is[1] # 0
      PROVE  Over(x, y) \in Number
  <2>1. Num(y.is[2], y.is[1]) \in Number
    BY <1>1, <1>7, NumNumber
  <2>2. PICK z \in Number : z = Num(y.is[2], y.is[1])
    BY <2>1
  <2>3. z.is[1] \in Int /\ z.is[2] \in Int /\ z.is[2] > 0
    BY NumberParts
  <2>4. x.is[2] * z.is[2] \in Int /\ x.is[2] * z.is[2] # 0
    BY <1>1, <2>3, Product
  <2>5. x.is[1] * z.is[1] \in Int
    BY <1>1, <2>3
  <2> QED BY <2>2, <2>4, <2>5, NumNumber DEF Over, Times
<1> QED BY <1>4, <1>5, <1>6, <1>7

LEMMA ZeroOne == Zero \in Number /\ One \in Number
BY NumNumber DEF Zero, One

(* They are ordered.                                                       *)
LEMMA Ordered ==
  ASSUME NEW x \in Number, NEW y \in Number
  PROVE  Below(x, y) => ~ Below(y, x)
<1>1. /\ x.is[1] \in Int /\ x.is[2] \in Int
      /\ y.is[1] \in Int /\ y.is[2] \in Int
  BY NumberParts
<1>2. x.is[1] * y.is[2] \in Int /\ y.is[1] * x.is[2] \in Int
  BY <1>1
<1> QED BY <1>2 DEF Below

LEMMA OrderedFractions ==
  ASSUME NEW a \in Int, NEW b \in Int, NEW c \in Int, NEW d \in Int, NEW e \in Int, NEW f \in Int,
         b > 0, d > 0, f > 0, a * d <= c * b, c * f <= e * d
  PROVE  a * f <= e * b
<1>1. (a * d) * f <= (c * b) * f
  <2>1. a * d \in Int /\ c * b \in Int
    OBVIOUS
  <2> QED BY <2>1
<1>2. (c * f) * b <= (e * d) * b
  <2>1. c * f \in Int /\ e * d \in Int
    OBVIOUS
  <2> QED BY <2>1
<1>3. (a * f) * d <= (e * b) * d
  <2>1. (a * d) * f = (a * f) * d /\ (c * b) * f = (c * f) * b /\ (e * d) * b = (e * b) * d
    OBVIOUS
  <2>2. (a * f) * d \in Int /\ (c * f) * b \in Int /\ (e * b) * d \in Int
    OBVIOUS
  <2> QED BY <1>1, <1>2, <2>1, <2>2
<1>4. a * f \in Int /\ e * b \in Int
  OBVIOUS
<1> QED BY <1>3, <1>4

LEMMA NotBelow ==
  ASSUME NEW x \in Number, NEW y \in Number, NEW z \in Number,
         ~ Below(y, x), ~ Below(z, y)
  PROVE  ~ Below(z, x)
<1>1. /\ x.is[1] \in Int /\ x.is[2] \in Int /\ x.is[2] > 0
      /\ y.is[1] \in Int /\ y.is[2] \in Int /\ y.is[2] > 0
      /\ z.is[1] \in Int /\ z.is[2] \in Int /\ z.is[2] > 0
  BY NumberParts
<1>2. x.is[1] * y.is[2] <= y.is[1] * x.is[2] /\ y.is[1] * z.is[2] <= z.is[1] * y.is[2]
  BY <1>1 DEF Below
<1> DEFINE a == x.is[1]
           b == x.is[2]
           c == y.is[1]
           d == y.is[2]
           e == z.is[1]
           f == z.is[2]
<1>3. a \in Int /\ b \in Int /\ c \in Int /\ d \in Int /\ e \in Int /\ f \in Int
      /\ b > 0 /\ d > 0 /\ f > 0 /\ a * d <= c * b /\ c * f <= e * d
  BY <1>1, <1>2
<1> HIDE DEF a, b, c, d, e, f
<1>4. a * f <= e * b
  BY <1>3, OrderedFractions
<1>5. ~ (e * b < a * f)
  <2>1. a * f \in Int /\ e * b \in Int
    BY <1>3
  <2> QED BY <1>4, <2>1
<1> QED BY <1>5 DEF Below, a, b, e, f

(* Of the numbers of a series there is a greatest and a smallest.          *)
LEMMA Extremes ==
  ASSUME NEW n \in Nat, n > 0, NEW w, \A i \in 1 .. n : w[i] \in Number
  PROVE  /\ \E i \in 1 .. n : \A j \in 1 .. n : ~ Below(w[i], w[j])
         /\ \E i \in 1 .. n : \A j \in 1 .. n : ~ Below(w[j], w[i])
<1> DEFINE S == {m \in Nat : m + 1 <= n =>
                   /\ \E i \in 1 .. m + 1 : \A j \in 1 .. m + 1 : ~ Below(w[i], w[j])
                   /\ \E i \in 1 .. m + 1 : \A j \in 1 .. m + 1 : ~ Below(w[j], w[i])}
<1>1. 0 \in S
  <2>1. 1 .. 0 + 1 = {1} /\ w[1] \in Number
    OBVIOUS
  <2>2. ~ Below(w[1], w[1])
    BY <2>1, Ordered
  <2> QED BY <2>1, <2>2
<1>2. ASSUME NEW m \in Nat, m \in S
      PROVE  m + 1 \in S
  <2>1. ASSUME m + 2 <= n
        PROVE  /\ \E i \in 1 .. m + 2 : \A j \in 1 .. m + 2 : ~ Below(w[i], w[j])
               /\ \E i \in 1 .. m + 2 : \A j \in 1 .. m + 2 : ~ Below(w[j], w[i])
    <3>1. PICK g \in 1 .. m + 1 : \A j \in 1 .. m + 1 : ~ Below(w[g], w[j])
      BY <1>2, <2>1
    <3>2. PICK l \in 1 .. m + 1 : \A j \in 1 .. m + 1 : ~ Below(w[j], w[l])
      BY <1>2, <2>1
    <3>3. /\ \A j \in 1 .. m + 1 : j \in 1 .. m + 2 /\ w[j] \in Number
          /\ m + 2 \in 1 .. m + 2 /\ w[m + 2] \in Number
          /\ \A j \in 1 .. m + 2 : j \in 1 .. m + 1 \/ j = m + 2
      BY <2>1
    <3>4. ~ Below(w[m + 2], w[m + 2])
      BY <3>3, Ordered
    <3>5. \E i \in 1 .. m + 2 : \A j \in 1 .. m + 2 : ~ Below(w[i], w[j])
      <4>1. CASE Below(w[g], w[m + 2])
        <5>1. ~ Below(w[m + 2], w[g])
          BY <3>3, <4>1, Ordered
        <5>2. \A j \in 1 .. m + 1 : ~ Below(w[m + 2], w[j])
          BY <3>1, <3>3, <5>1, NotBelow
        <5> QED BY <3>3, <3>4, <5>2
      <4>2. CASE ~ Below(w[g], w[m + 2])
        BY <3>1, <3>3, <4>2
      <4> QED BY <4>1, <4>2
    <3>6. \E i \in 1 .. m + 2 : \A j \in 1 .. m + 2 : ~ Below(w[j], w[i])
      <4>1. CASE Below(w[m + 2], w[l])
        <5>1. ~ Below(w[l], w[m + 2])
          BY <3>3, <4>1, Ordered
        <5>2. \A j \in 1 .. m + 1 : ~ Below(w[j], w[m + 2])
          BY <3>2, <3>3, <5>1, NotBelow
        <5> QED BY <3>3, <3>4, <5>2
      <4>2. CASE ~ Below(w[m + 2], w[l])
        BY <3>2, <3>3, <4>2
      <4> QED BY <4>1, <4>2
    <3> QED BY <3>5, <3>6
  <2>2. (m + 1) + 1 = m + 2
    OBVIOUS
  <2> QED BY <2>1, <2>2
<1>3. \A m \in Nat : m \in S => m + 1 \in S
  BY <1>2
<1> HIDE DEF S
<1>4. n - 1 \in Nat /\ (n - 1) + 1 = n
  OBVIOUS
<1>5. n - 1 \in S
  BY <1>1, <1>3, <1>4, Successors
<1> QED BY <1>4, <1>5 DEF S

LEMMA ExtremesIn ==
  ASSUME NEW n \in Nat, n > 0, NEW w, \A i \in 1 .. n : w[i] \in Number,
         NEW S, S = {w[i] : i \in 1 .. n}
  PROVE  Greatest(S) \in S /\ Smallest(S) \in S /\ S \subseteq Number
<1>1. PICK g \in 1 .. n : \A j \in 1 .. n : ~ Below(w[g], w[j])
  BY Extremes
<1>2. PICK l \in 1 .. n : \A j \in 1 .. n : ~ Below(w[j], w[l])
  BY Extremes
<1>3. w[g] \in S /\ \A y \in S : ~ Below(w[g], y)
  BY <1>1
<1>4. w[l] \in S /\ \A y \in S : ~ Below(y, w[l])
  BY <1>2
<1>5. Greatest(S) \in S
  BY <1>3 DEF Greatest
<1>6. Smallest(S) \in S
  BY <1>4 DEF Smallest
<1> QED BY <1>5, <1>6

-----------------------------------------------------------------------------
(* What the indicators compute with: sums and means.                       *)
LEMMA TotalTurns ==
  ASSUME NEW s, Len(s) \in Nat
  PROVE  \E t : /\ t[0] = Zero
                /\ \A k \in 1 .. Len(s) : t[k] = Plus(t[k - 1], s[k])
                /\ Total(s) = t[Len(s)]
<1> DEFINE a == [s |-> s]
<1>1. PICK t : t = CHOOSE f : Recurs(f, "total", a, Zero, Len(s))
  OBVIOUS
<1>2. Recurs(t, "total", a, Zero, Len(s))
  BY <1>1, Recursion
<1>3. \A k \in 1 .. Len(s) : Turn("total", a, k, t[k - 1]) = Plus(t[k - 1], s[k])
  BY DEF Turn
<1>4. PICK f : f = CHOOSE x : x = [i \in 0 .. Len(s) |-> IF i = 0 THEN Zero ELSE Plus(x[i - 1], s[i])]
  OBVIOUS
<1>5. t = [i \in 0 .. Len(s) |-> IF i = 0 THEN Zero ELSE Plus(t[i - 1], s[i])]
  BY <1>2, <1>3, SMTT(30) DEF Recurs
<1>6. f = [i \in 0 .. Len(s) |-> IF i = 0 THEN Zero ELSE Plus(f[i - 1], s[i])]
  BY <1>4, <1>5, Zenon
<1>7. Total(s) = f[Len(s)]
  BY <1>4, Zenon DEF Total
<1>8. \A k \in 0 .. Len(s) : f[k] = IF k = 0 THEN Zero ELSE Plus(f[k - 1], s[k])
  BY <1>6, Zenon
<1> QED BY <1>7, <1>8

Positive(x) == x \in Number /\ x.is[1] >= 0

LEMMA NumPositive ==
  ASSUME NEW n \in Int, NEW d \in Int, n >= 0, d > 0
  PROVE  Positive(Num(n, d)) /\ Num(n, d).is[1] = n
BY NumNumber DEF Positive, Num

LEMMA Products ==
  ASSUME NEW a \in Int, NEW b \in Int, a >= 0, b > 0
  PROVE  a * b \in Int /\ a * b >= 0
OBVIOUS

LEMMA PlusPositive ==
  ASSUME NEW x, NEW y, Positive(x), Positive(y)
  PROVE  Positive(Plus(x, y))
<1>1. /\ x.is[1] \in Int /\ x.is[2] \in Int /\ x.is[2] > 0 /\ x.is[1] >= 0
      /\ y.is[1] \in Int /\ y.is[2] \in Int /\ y.is[2] > 0 /\ y.is[1] >= 0
  BY NumberParts DEF Positive
<1>2. x.is[2] * y.is[2] \in Int /\ x.is[2] * y.is[2] > 0
  BY <1>1, Product
<1>3. x.is[1] * y.is[2] \in Int /\ x.is[1] * y.is[2] >= 0
      /\ y.is[1] * x.is[2] \in Int /\ y.is[1] * x.is[2] >= 0
  BY <1>1, Products
<1>4. x.is[1] * y.is[2] + y.is[1] * x.is[2] \in Int
      /\ x.is[1] * y.is[2] + y.is[1] * x.is[2] >= 0
  BY <1>3
<1> QED BY <1>2, <1>4, NumPositive DEF Plus

LEMMA TotalNumber ==
  ASSUME NEW s, Len(s) \in Nat, \A i \in 1 .. Len(s) : s[i] \in Number
  PROVE  /\ Total(s) \in Number
         /\ (\A i \in 1 .. Len(s) : Positive(s[i])) => Positive(Total(s))
<1>1. PICK t : /\ t[0] = Zero
               /\ \A k \in 1 .. Len(s) : t[k] = Plus(t[k - 1], s[k])
               /\ Total(s) = t[Len(s)]
  BY TotalTurns
<1> DEFINE all == \A i \in 1 .. Len(s) : Positive(s[i])
           S == {k \in Nat : k <= Len(s) => t[k] \in Number /\ (all => Positive(t[k]))}
<1>2. 0 \in S
  <2>1. Zero \in Number /\ Positive(Zero)
    <3>1. Positive(Num(0, 1))
      BY NumPositive
    <3> QED BY <3>1, ZeroOne DEF Zero
  <2> QED BY <1>1, <2>1
<1>3. ASSUME NEW k \in Nat, k \in S
      PROVE  k + 1 \in S
  <2>1. CASE k + 1 <= Len(s)
    <3>1. k + 1 \in 1 .. Len(s) /\ (k + 1) - 1 = k /\ k <= Len(s)
      BY <2>1
    <3>2. t[k + 1] = Plus(t[k], s[k + 1]) /\ s[k + 1] \in Number /\ t[k] \in Number
          /\ (all => Positive(t[k]))
      BY <1>1, <1>3, <3>1
    <3>3. t[k + 1] \in Number
      BY <3>2, Arithmetic
    <3>4. all => Positive(t[k + 1])
      BY <3>1, <3>2, PlusPositive
    <3> HIDE DEF all
    <3> QED BY <3>3, <3>4
  <2>2. CASE ~ (k + 1 <= Len(s))
    BY <2>2
  <2> QED BY <2>1, <2>2
<1>4. \A k \in Nat : k \in S => k + 1 \in S
  BY <1>3
<1> HIDE DEF S
<1>5. Len(s) \in S
  BY <1>2, <1>4, Successors
<1> QED BY <1>1, <1>5 DEF S

LEMMA OverPositive ==
  ASSUME NEW x, NEW y, Positive(x), Positive(y), y.is[1] # 0
  PROVE  Positive(Over(x, y))
<1>1. /\ x.is[1] \in Int /\ x.is[2] \in Int /\ x.is[2] > 0 /\ x.is[1] >= 0
      /\ y.is[1] \in Int /\ y.is[2] \in Int /\ y.is[2] > 0 /\ y.is[1] > 0
  BY NumberParts DEF Positive
<1>2. Num(y.is[2], y.is[1]) = [sort |-> "num", is |-> <<y.is[2], y.is[1]>>]
  BY <1>1 DEF Num
<1>3. Over(x, y) = Num(x.is[1] * y.is[2], x.is[2] * y.is[1])
  BY <1>2 DEF Over, Times
<1>4. x.is[1] * y.is[2] \in Int /\ x.is[1] * y.is[2] >= 0
  BY <1>1, Products
<1>5. x.is[2] * y.is[1] \in Int /\ x.is[2] * y.is[1] > 0
  BY <1>1, Product
<1> QED BY <1>3, <1>4, <1>5, NumPositive

LEMMA MeanNumber ==
  ASSUME NEW s, Len(s) \in Nat, Len(s) > 0, \A i \in 1 .. Len(s) : s[i] \in Number
  PROVE  /\ Mean(s) \in Number
         /\ (\A i \in 1 .. Len(s) : Positive(s[i])) => Positive(Mean(s))
<1>1. Total(s) \in Number /\ ((\A i \in 1 .. Len(s) : Positive(s[i])) => Positive(Total(s)))
  BY TotalNumber
<1>2. Positive(Num(Len(s), 1)) /\ Num(Len(s), 1).is[1] = Len(s)
  BY NumPositive
<1>3. Num(Len(s), 1) \in Number /\ Num(Len(s), 1).is[1] # 0
  BY <1>2 DEF Positive
<1>4. Mean(s) \in Number
  BY <1>1, <1>3, Arithmetic DEF Mean
<1>5. Positive(Total(s)) => Positive(Mean(s))
  BY <1>2, <1>3, OverPositive DEF Mean
<1> QED BY <1>1, <1>4, <1>5

(* The indicators are numbers, as are the extremes of a window.            *)
LEMMA LastPart ==
  ASSUME NEW S, NEW s \in Seq(S), s # <<>>, NEW k \in Nat, k > 0
  PROVE  /\ LastOf(s, k) \in Seq(S) /\ Len(LastOf(s, k)) \in Nat /\ Len(LastOf(s, k)) > 0
         /\ \A i \in 1 .. Len(LastOf(s, k)) : LastOf(s, k)[i] \in S
         /\ DOMAIN LastOf(s, k) = 1 .. Len(LastOf(s, k))
<1> DEFINE from == IF k < Len(s) THEN Len(s) - k + 1 ELSE 1
<1>1. Len(s) \in Nat /\ Len(s) > 0
  OBVIOUS
<1>2. from \in 1 .. Len(s)
  BY <1>1
<1>3. LastOf(s, k) = SubSeq(s, from, Len(s))
  BY DEF LastOf
<1> HIDE DEF from
<1>4. PICK w : w = SubSeq(s, from, Len(s))
  OBVIOUS
<1>5. w \in Seq(S) /\ Len(w) = Len(s) - from + 1
  BY <1>1, <1>2, <1>4
<1>6. Len(w) \in Nat /\ Len(w) > 0
  BY <1>1, <1>2, <1>5
<1>7. (\A i \in 1 .. Len(w) : w[i] \in S) /\ DOMAIN w = 1 .. Len(w)
  BY <1>5
<1> QED BY <1>3, <1>4, <1>5, <1>6, <1>7

Bar == [BarFields -> Number]

LEMMA WindowNumber ==
  ASSUME NEW bars \in Seq(Bar), bars # <<>>, NEW n \in Nat, n > 0, NEW field \in BarFields
  PROVE  Greatest(InWindow(bars, n, field)) \in Number
         /\ Smallest(InWindow(bars, n, field)) \in Number
<1>1. PICK w : w = LastOf(bars, n)
  OBVIOUS
<1>2. /\ Len(w) \in Nat /\ Len(w) > 0 /\ DOMAIN w = 1 .. Len(w)
      /\ \A i \in 1 .. Len(w) : w[i] \in Bar
  BY <1>1, LastPart
<1> DEFINE v == [i \in 1 .. Len(w) |-> w[i][field]]
           S == {v[i] : i \in 1 .. Len(w)}
<1>3. \A i \in 1 .. Len(w) : v[i] = w[i][field] /\ v[i] \in Number
  BY <1>2 DEF Bar
<1>4. InWindow(bars, n, field) = S
  BY <1>1, <1>2, <1>3 DEF InWindow
<1> HIDE DEF v
<1>5. Greatest(S) \in S /\ Smallest(S) \in S /\ S \subseteq Number
  BY <1>2, <1>3, ExtremesIn
<1> QED BY <1>4, <1>5

LEMMA SeriesNumbers ==
  ASSUME NEW bars \in Seq(Bar), bars # <<>>, NEW field \in BarFields
  PROVE  /\ SeriesOf(bars, field) \in Seq(Number)
         /\ Len(SeriesOf(bars, field)) = Len(bars)
         /\ Len(bars) \in Nat /\ Len(bars) > 0
         /\ \A i \in 1 .. Len(bars) : SeriesOf(bars, field)[i] \in Number
<1>1. Len(bars) \in Nat /\ Len(bars) > 0 /\ DOMAIN bars = 1 .. Len(bars)
      /\ \A i \in 1 .. Len(bars) : bars[i] \in Bar
  OBVIOUS
<1>2. SeriesOf(bars, field) = [i \in 1 .. Len(bars) |-> bars[i][field]]
  BY <1>1 DEF SeriesOf
<1>3. \A i \in 1 .. Len(bars) : bars[i][field] \in Number
  BY <1>1 DEF Bar
<1>4. [i \in 1 .. Len(bars) |-> bars[i][field]] \in [1 .. Len(bars) -> Number]
  BY <1>3
<1>5. PICK s : s = [i \in 1 .. Len(bars) |-> bars[i][field]]
  OBVIOUS
<1>6. s \in Seq(Number) /\ Len(s) = Len(bars)
  BY <1>1, <1>4, <1>5
<1> QED BY <1>1, <1>2, <1>3, <1>5, <1>6

LEMMA EmaTurns ==
  ASSUME NEW s, Len(s) \in Nat, Len(s) > 0, NEW n \in Nat
  PROVE  \E e : /\ e[0] = s[1]
                /\ \A k \in 1 .. Len(s) - 1 :
                     e[k] = Plus(Times(Plus(s[k + 1], Minus(e[k - 1])), Num(2, n + 1)), e[k - 1])
                /\ Ema(s, n) = e[Len(s) - 1]
<1> DEFINE weight == Num(2, n + 1)
           a == [s |-> s, weight |-> weight]
           smooth(e, v) == Plus(Times(Plus(v, Minus(e)), weight), e)
<1>0. Len(s) - 1 \in Nat
  OBVIOUS
<1>1. PICK t : t = CHOOSE f : Recurs(f, "ema", a, s[1], Len(s) - 1)
  OBVIOUS
<1>2. Recurs(t, "ema", a, s[1], Len(s) - 1)
  BY <1>0, <1>1, Recursion
<1>3. \A k \in 1 .. Len(s) - 1 : Turn("ema", a, k, t[k - 1]) = smooth(t[k - 1], s[k + 1])
  BY DEF Turn
<1>4. PICK f : f = CHOOSE x : x = [i \in 0 .. Len(s) - 1 |->
                 IF i = 0 THEN s[1] ELSE smooth(x[i - 1], s[i + 1])]
  OBVIOUS
<1>5. t = [i \in 0 .. Len(s) - 1 |-> IF i = 0 THEN s[1] ELSE smooth(t[i - 1], s[i + 1])]
  <2>1. t = [k \in 0 .. Len(s) - 1 |-> IF k = 0 THEN s[1] ELSE Turn("ema", a, k, t[k - 1])]
    BY <1>2, Zenon DEF Recurs
  <2>2. \A k \in 0 .. Len(s) - 1 : k = 0 \/ k \in 1 .. Len(s) - 1
    BY <1>0
  <2> HIDE DEF a, smooth
  <2> QED BY <1>3, <2>1, <2>2
<1>6. f = [i \in 0 .. Len(s) - 1 |-> IF i = 0 THEN s[1] ELSE smooth(f[i - 1], s[i + 1])]
  BY <1>4, <1>5, Zenon
<1>7. Ema(s, n) = f[Len(s) - 1]
  BY <1>4, Zenon DEF Ema
<1>8. \A k \in 0 .. Len(s) - 1 : f[k] = IF k = 0 THEN s[1] ELSE smooth(f[k - 1], s[k + 1])
  BY <1>6, Zenon
<1>9. \A k \in 1 .. Len(s) - 1 : f[k] = smooth(f[k - 1], s[k + 1])
  BY <1>0, <1>8
<1>10. f[0] = s[1]
  BY <1>0, <1>8
<1> QED BY <1>7, <1>9, <1>10

LEMMA EmaNumber ==
  ASSUME NEW s, Len(s) \in Nat, Len(s) > 0, \A i \in 1 .. Len(s) : s[i] \in Number,
         NEW n \in Nat
  PROVE  Ema(s, n) \in Number
<1>1. PICK e : /\ e[0] = s[1]
               /\ \A k \in 1 .. Len(s) - 1 :
                    e[k] = Plus(Times(Plus(s[k + 1], Minus(e[k - 1])), Num(2, n + 1)), e[k - 1])
               /\ Ema(s, n) = e[Len(s) - 1]
  BY EmaTurns
<1>2. Num(2, n + 1) \in Number
  BY NumNumber
<1> DEFINE S == {k \in Nat : k <= Len(s) - 1 => e[k] \in Number}
<1>3. 0 \in S
  BY <1>1
<1>4. ASSUME NEW k \in Nat, k \in S
      PROVE  k + 1 \in S
  <2>1. CASE k + 1 <= Len(s) - 1
    <3>1. k + 1 \in 1 .. Len(s) - 1 /\ (k + 1) - 1 = k /\ (k + 1) + 1 \in 1 .. Len(s)
      BY <2>1
    <3>2. /\ e[k + 1] = Plus(Times(Plus(s[(k + 1) + 1], Minus(e[k])), Num(2, n + 1)), e[k])
          /\ s[(k + 1) + 1] \in Number /\ e[k] \in Number
      BY <1>1, <1>4, <2>1, <3>1
    <3>3. Minus(e[k]) \in Number
      BY <3>2, Arithmetic
    <3>4. Plus(s[(k + 1) + 1], Minus(e[k])) \in Number
      BY <3>2, <3>3, Arithmetic
    <3>5. Times(Plus(s[(k + 1) + 1], Minus(e[k])), Num(2, n + 1)) \in Number
      BY <1>2, <3>4, Arithmetic
    <3>6. e[k + 1] \in Number
      BY <3>2, <3>5, Arithmetic
    <3> QED BY <3>6
  <2>2. CASE ~ (k + 1 <= Len(s) - 1)
    BY <2>2
  <2> QED BY <2>1, <2>2
<1>5. \A k \in Nat : k \in S => k + 1 \in S
  BY <1>4
<1> HIDE DEF S
<1>6. Len(s) - 1 \in Nat
  OBVIOUS
<1>7. Len(s) - 1 \in S
  BY <1>3, <1>5, <1>6, Successors
<1> QED BY <1>1, <1>6, <1>7 DEF S

LEMMA SignOf ==
  ASSUME NEW x \in Number
  PROVE  /\ Below(Zero, x) <=> x.is[1] > 0
         /\ Below(x, Zero) <=> x.is[1] < 0
         /\ Same(x, Zero) <=> x.is[1] = 0
         /\ Below(x, Zero) => Positive(Minus(x))
<1>1. x.is[1] \in Int /\ x.is[2] \in Int /\ x.is[2] > 0
  BY NumberParts
<1>2. Zero.is[1] = 0 /\ Zero.is[2] = 1
  BY DEF Zero, Num
<1>3. Below(Zero, x) <=> x.is[1] > 0
  BY <1>1, <1>2 DEF Below
<1>4. Below(x, Zero) <=> x.is[1] < 0
  BY <1>1, <1>2 DEF Below
<1>5. Same(x, Zero) <=> x.is[1] = 0
  BY <1>1, <1>2 DEF Same
<1>6. ASSUME x.is[1] < 0
      PROVE  Positive(Minus(x))
  <2>1. 0 - x.is[1] \in Int /\ 0 - x.is[1] >= 0
    BY <1>1, <1>6
  <2> QED BY <1>1, <2>1, NumPositive DEF Minus
<1> QED BY <1>3, <1>4, <1>5, <1>6

LEMMA StrengthNumber ==
  ASSUME NEW gain, NEW loss, Positive(gain), Positive(loss), ~ Same(loss, Zero)
  PROVE  Plus(One, Minus(Over(One, Plus(One, Over(gain, loss))))) \in Number
<1>1. gain \in Number /\ loss \in Number /\ loss.is[1] # 0
  BY SignOf DEF Positive
<1>2. PICK strength : strength = Over(gain, loss)
  OBVIOUS
<1>3. Positive(strength)
  BY <1>1, <1>2, OverPositive
<1>4. /\ One.is[1] = 1 /\ One.is[2] = 1 /\ One \in Number
  BY ZeroOne DEF One, Num
<1>5. strength.is[1] \in Int /\ strength.is[2] \in Int /\ strength.is[2] > 0
      /\ strength.is[1] >= 0
  BY <1>3, NumberParts DEF Positive
<1>6. PICK n : n = 1 * strength.is[2] + strength.is[1] * 1
  OBVIOUS
<1>7. n \in Int /\ n > 0
  BY <1>5, <1>6
<1>8. PICK d : d = 1 * strength.is[2]
  OBVIOUS
<1>9. d \in Int /\ d > 0
  BY <1>5, <1>8
<1>10. Plus(One, strength) = Num(n, d)
  BY <1>4, <1>6, <1>8 DEF Plus
<1>11. Positive(Num(n, d)) /\ Num(n, d).is[1] = n
  BY <1>7, <1>9, NumPositive
<1>12. Plus(One, strength) \in Number /\ Plus(One, strength).is[1] # 0
  BY <1>7, <1>10, <1>11 DEF Positive
<1>13. Over(One, Plus(One, strength)) \in Number
  BY <1>4, <1>12, Arithmetic
<1>14. Minus(Over(One, Plus(One, strength))) \in Number
  BY <1>13, Arithmetic
<1> QED BY <1>2, <1>4, <1>14, Arithmetic

LEMMA RsiNumber ==
  ASSUME NEW s \in Seq(Number), Len(s) > 0, NEW n \in Nat
  PROVE  Rsi(s, n) \in Number
<1> DEFINE diffs == [i \in 1 .. Len(s) - 1 |-> Plus(s[i + 1], Minus(s[i]))]
           m == IF n > 1 THEN n - 1 ELSE 1
           window == LastOf(diffs, m)
           gains == [i \in DOMAIN window |-> IF Below(Zero, window[i]) THEN window[i] ELSE Zero]
           losses == [i \in DOMAIN window |->
                        IF Below(window[i], Zero) THEN Minus(window[i]) ELSE Zero]
<1>1. Len(s) \in Nat /\ \A i \in 1 .. Len(s) : s[i] \in Number
  OBVIOUS
<1>2. Zero \in Number /\ One \in Number /\ Num(1, 2) \in Number /\ Positive(Zero)
  <2>1. Positive(Num(0, 1)) /\ Num(1, 2) \in Number
    BY NumPositive, NumNumber
  <2> QED BY <2>1, ZeroOne DEF Zero
<1>3. CASE Len(s) < 2
  BY <1>2, <1>3 DEF Rsi
<1>4. CASE ~ (Len(s) < 2)
  <2>1. \A i \in 1 .. Len(s) - 1 : diffs[i] \in Number
    <3>1. ASSUME NEW i \in 1 .. Len(s) - 1
          PROVE  Plus(s[i + 1], Minus(s[i])) \in Number
      <4>1. s[i + 1] \in Number /\ s[i] \in Number
        BY <1>1
      <4>2. Minus(s[i]) \in Number
        BY <4>1, Arithmetic
      <4> QED BY <4>1, <4>2, Arithmetic
    <3> QED BY <3>1
  <2>2. diffs \in [1 .. Len(s) - 1 -> Number] /\ Len(s) - 1 \in Nat
    BY <1>1, <1>4, <2>1
  <2> HIDE DEF diffs
  <2>3. diffs \in Seq(Number) /\ diffs # <<>>
    <3>1. diffs \in Seq(Number) /\ Len(diffs) = Len(s) - 1
      BY <2>2
    <3> QED BY <1>4, <3>1
  <2>4. m \in Nat /\ m > 0
    OBVIOUS
  <2>5. PICK w : w = window
    OBVIOUS
  <2> HIDE DEF m
  <2>6. /\ Len(w) \in Nat /\ Len(w) > 0 /\ DOMAIN w = 1 .. Len(w)
        /\ \A i \in 1 .. Len(w) : w[i] \in Number
    BY <2>3, <2>4, <2>5, LastPart
  <2> HIDE DEF window
  <2>7. /\ gains = [i \in 1 .. Len(w) |-> IF Below(Zero, w[i]) THEN w[i] ELSE Zero]
        /\ losses = [i \in 1 .. Len(w) |-> IF Below(w[i], Zero) THEN Minus(w[i]) ELSE Zero]
    BY <2>5, <2>6
  <2>8. PICK g, l : g = gains /\ l = losses
    OBVIOUS
  <2>9. Len(g) = Len(w) /\ \A i \in 1 .. Len(w) : Positive(g[i])
    <3>1. ASSUME NEW i \in 1 .. Len(w)
          PROVE  Positive(g[i])
      <4>1. w[i] \in Number /\ g[i] = IF Below(Zero, w[i]) THEN w[i] ELSE Zero
        BY <2>6, <2>7, <2>8
      <4>2. Below(Zero, w[i]) => Positive(w[i])
        <5>1. w[i].is[1] \in Int
          BY <4>1, NumberParts
        <5> QED BY <4>1, <5>1, SignOf DEF Positive
      <4> QED BY <1>2, <4>1, <4>2
    <3>2. Len(g) = Len(w)
      BY <2>6, <2>7, <2>8
    <3> QED BY <3>1, <3>2
  <2>10. Len(l) = Len(w) /\ \A i \in 1 .. Len(w) : Positive(l[i])
    <3>1. ASSUME NEW i \in 1 .. Len(w)
          PROVE  Positive(l[i])
      <4>1. w[i] \in Number /\ l[i] = IF Below(w[i], Zero) THEN Minus(w[i]) ELSE Zero
        BY <2>6, <2>7, <2>8
      <4> QED BY <1>2, <4>1, SignOf
    <3>2. Len(l) = Len(w)
      BY <2>6, <2>7, <2>8
    <3> QED BY <3>1, <3>2
  <2>11. PICK gain, loss : gain = Mean(g) /\ loss = Mean(l)
    OBVIOUS
  <2>12. Positive(gain) /\ Positive(loss)
    <3>1. \A i \in 1 .. Len(w) : g[i] \in Number /\ l[i] \in Number
      BY <2>9, <2>10 DEF Positive
    <3>2. Positive(Mean(g))
      BY <2>6, <2>9, <3>1, MeanNumber
    <3>3. Positive(Mean(l))
      BY <2>6, <2>10, <3>1, MeanNumber
    <3> QED BY <2>11, <3>2, <3>3
  <2>13. Rsi(s, n) = IF Len(s) < 2 \/ (Same(gain, Zero) /\ Same(loss, Zero)) THEN Num(1, 2)
                     ELSE IF Same(loss, Zero) THEN One
                     ELSE IF Same(gain, Zero) THEN Zero
                     ELSE Plus(One, Minus(Over(One, Plus(One, Over(gain, loss)))))
    BY <2>8, <2>11 DEF Rsi, window, diffs, m
  <2>14. ~ Same(loss, Zero) =>
           Plus(One, Minus(Over(One, Plus(One, Over(gain, loss))))) \in Number
    BY <2>12, StrengthNumber
  <2> QED BY <1>2, <2>13, <2>14
<1> QED BY <1>3, <1>4

LEMMA VwapNumber ==
  ASSUME NEW bars \in Seq(Bar), bars # <<>>
  PROVE  Vwap(bars) \in Number
<1>1. Len(bars) \in Nat /\ Len(bars) > 0 /\ DOMAIN bars = 1 .. Len(bars)
      /\ \A i \in 1 .. Len(bars) : bars[i] \in Bar
  OBVIOUS
<1>2. \A i \in 1 .. Len(bars) : bars[i].close \in Number /\ bars[i].volume \in Number
  BY <1>1 DEF Bar, BarFields
<1>3. PICK traded : traded = Total(SeriesOf(bars, "volume"))
  OBVIOUS
<1>4. traded \in Number
  <2>1. "volume" \in BarFields
    BY DEF BarFields
  <2>2. PICK s : s = SeriesOf(bars, "volume")
    OBVIOUS
  <2>3. Len(s) \in Nat /\ \A i \in 1 .. Len(s) : s[i] \in Number
    BY <2>1, <2>2, SeriesNumbers
  <2> QED BY <1>3, <2>2, <2>3, TotalNumber
<1>5. PICK v : v = [i \in DOMAIN bars |-> Times(bars[i].close, bars[i].volume)]
  OBVIOUS
<1>6. Len(v) = Len(bars) /\ \A i \in 1 .. Len(v) : v[i] \in Number
  <2>1. v = [i \in 1 .. Len(bars) |-> Times(bars[i].close, bars[i].volume)]
    BY <1>1, <1>5
  <2>2. Len(v) = Len(bars)
    BY <1>1, <2>1
  <2>3. ASSUME NEW i \in 1 .. Len(bars)
        PROVE  v[i] \in Number
    BY <1>2, <2>1, <2>3, Arithmetic
  <2> QED BY <2>2, <2>3
<1>7. Total(v) \in Number
  BY <1>1, <1>6, TotalNumber
<1>8. ~ Same(traded, Zero) => Over(Total(v), traded) \in Number
  BY <1>4, <1>7, Arithmetic, SignOf
<1>9. Vwap(bars) = IF Same(traded, Zero) THEN bars[Len(bars)].close ELSE Over(Total(v), traded)
  BY <1>3, <1>5 DEF Vwap
<1> QED BY <1>1, <1>2, <1>8, <1>9

LEMMA GreatestOfThree ==
  ASSUME NEW x \in Number, NEW y \in Number, NEW z \in Number
  PROVE  Greatest({x, y, z}) \in Number
<1> DEFINE w == [i \in 1 .. 3 |-> IF i = 1 THEN x ELSE IF i = 2 THEN y ELSE z]
           S == {w[i] : i \in 1 .. 3}
<1>1. w[1] = x /\ w[2] = y /\ w[3] = z /\ 1 .. 3 = {1, 2, 3}
  OBVIOUS
<1>2. \A i \in 1 .. 3 : w[i] \in Number
  OBVIOUS
<1>3. S = {x, y, z}
  <2> HIDE DEF w
  <2> QED BY <1>1
<1> HIDE DEF w
<1>4. PICK T : T = S
  OBVIOUS
<1>5. Greatest(T) \in T /\ T \subseteq Number
  BY <1>2, <1>4, ExtremesIn
<1> QED BY <1>3, <1>4, <1>5

LEMMA AtrNumber ==
  ASSUME NEW bars \in Seq(Bar), bars # <<>>, NEW n \in Nat, n > 0
  PROVE  Atr(bars, n) \in Number
<1> DEFINE before(i) == bars[IF i > 1 THEN i - 1 ELSE 1].close
           range(i) == Greatest({Plus(bars[i].high, Minus(bars[i].low)),
                                 Absolute(Plus(bars[i].high, Minus(before(i)))),
                                 Absolute(Plus(bars[i].low, Minus(before(i))))})
<1>1. Len(bars) \in Nat /\ Len(bars) > 0 /\ DOMAIN bars = 1 .. Len(bars)
      /\ \A i \in 1 .. Len(bars) : bars[i] \in Bar
  OBVIOUS
<1>2. \A i \in 1 .. Len(bars) :
        bars[i].close \in Number /\ bars[i].high \in Number /\ bars[i].low \in Number
  BY <1>1 DEF Bar, BarFields
<1>3. ASSUME NEW i \in 1 .. Len(bars)
      PROVE  range(i) \in Number
  <2>1. PICK b : b = before(i)
    OBVIOUS
  <2>2. b \in Number
    <3>1. (IF i > 1 THEN i - 1 ELSE 1) \in 1 .. Len(bars)
      BY <1>1
    <3> QED BY <1>2, <2>1, <3>1
  <2>3. PICK h, l : h = bars[i].high /\ l = bars[i].low
    OBVIOUS
  <2>4. h \in Number /\ l \in Number
    BY <1>2, <2>3
  <2>5. Minus(l) \in Number /\ Minus(b) \in Number
    BY <2>2, <2>4, Arithmetic
  <2>6. Plus(h, Minus(l)) \in Number /\ Plus(h, Minus(b)) \in Number
        /\ Plus(l, Minus(b)) \in Number
    BY <2>4, <2>5, Arithmetic
  <2>7. Absolute(Plus(h, Minus(b))) \in Number /\ Absolute(Plus(l, Minus(b))) \in Number
    BY <2>6, Arithmetic
  <2>8. Greatest({Plus(h, Minus(l)), Absolute(Plus(h, Minus(b))),
                  Absolute(Plus(l, Minus(b)))}) \in Number
    BY <2>6, <2>7, GreatestOfThree
  <2> QED BY <2>1, <2>3, <2>8
<1>4. PICK r : r = [i \in DOMAIN bars |-> range(i)]
  OBVIOUS
<1>5. r \in Seq(Number) /\ r # <<>>
  <2>1. r \in [1 .. Len(bars) -> Number]
    <3>1. \A i \in 1 .. Len(bars) : range(i) \in Number
      BY <1>3
    <3> HIDE DEF range
    <3> QED BY <1>1, <1>4, <3>1
  <2>2. r \in Seq(Number) /\ Len(r) = Len(bars)
    BY <1>1, <2>1
  <2> QED BY <1>1, <2>2
<1>6. PICK w : w = LastOf(r, n)
  OBVIOUS
<1>7. Len(w) \in Nat /\ Len(w) > 0 /\ \A i \in 1 .. Len(w) : w[i] \in Number
  BY <1>5, <1>6, LastPart
<1>8. Mean(w) \in Number
  BY <1>7, MeanNumber
<1>9. Atr(bars, n) = Mean(LastOf(r, n))
  BY <1>4 DEF Atr
<1> QED BY <1>6, <1>8, <1>9

(* A call over the bars: what it needs to come out as a number.            *)
LEMMA SeriesCallNumber ==
  ASSUME NEW bars \in Seq(Bar), bars # <<>>, NEW n \in Nat, n > 0, NEW fn, NEW dn,
         fn \in FunctionNames \ {"abs"},
         fn \in {"highest", "lowest", "ema", "rsi"} => SeriesField(dn) \in BarFields
  PROVE  EvalSeriesCall(fn, dn, n, bars) \in Number
<1>1. "high" \in BarFields /\ "low" \in BarFields
  BY DEF BarFields
<1>2. PICK prior : prior = IF Len(bars) > 1 THEN SubSeq(bars, 1, Len(bars) - 1) ELSE bars
  OBVIOUS
<1>3. prior \in Seq(Bar) /\ prior # <<>>
  <2>1. CASE Len(bars) > 1
    <3>1. prior = SubSeq(bars, 1, Len(bars) - 1) /\ Len(bars) - 1 \in 1 .. Len(bars)
      BY <1>2, <2>1
    <3>2. prior \in Seq(Bar) /\ Len(prior) = Len(bars) - 1
      BY <3>1
    <3> QED BY <2>1, <3>2
  <2>2. CASE ~ (Len(bars) > 1)
    BY <1>2, <2>2
  <2> QED BY <2>1, <2>2
<1>4. Greatest(InWindow(prior, n, "high")) \in Number
      /\ Smallest(InWindow(prior, n, "low")) \in Number
  BY <1>1, <1>3, WindowNumber
<1>5. LastOf(bars, n) \in Seq(Bar) /\ LastOf(bars, n) # <<>>
  BY LastPart
<1>6. Atr(bars, n) \in Number /\ Vwap(LastOf(bars, n)) \in Number
  BY <1>5, AtrNumber, VwapNumber
<1>7. CASE fn = "prior_high"
  BY <1>2, <1>4, <1>7 DEF EvalSeriesCall
<1>8. CASE fn = "prior_low"
  BY <1>2, <1>4, <1>8 DEF EvalSeriesCall
<1>9. CASE fn \in {"atr", "vwap"}
  BY <1>6, <1>9 DEF EvalSeriesCall
<1>10. CASE fn \in {"highest", "lowest", "ema", "rsi"}
  <2>1. PICK field : field = SeriesField(dn)
    OBVIOUS
  <2>2. field \in BarFields
    BY <1>10, <2>1
  <2>3. Greatest(InWindow(bars, n, field)) \in Number
        /\ Smallest(InWindow(bars, n, field)) \in Number
    BY <2>2, WindowNumber
  <2>4. PICK s : s = SeriesOf(bars, field)
    OBVIOUS
  <2>5. s \in Seq(Number) /\ Len(s) \in Nat /\ Len(s) > 0
        /\ \A i \in 1 .. Len(s) : s[i] \in Number
    BY <2>2, <2>4, SeriesNumbers
  <2>6. Ema(s, n) \in Number
    BY <2>5, EmaNumber
  <2>7. Rsi(s, n) \in Number
    BY <2>5, RsiNumber
  <2> QED BY <1>10, <2>1, <2>2, <2>3, <2>4, <2>6, <2>7 DEF EvalSeriesCall
<1> QED BY <1>7, <1>8, <1>9, <1>10 DEF FunctionNames

-----------------------------------------------------------------------------
(* The dotted name of a name is the name; what is neither a name nor an    *)
(* attribute has none.                                                     *)
Ends(x, k) ==
  /\ \A j \in 0 .. k - 1 : Base(x, j).kind = "attribute"
  /\ k < Levels => ~ (Base(x, k).kind = "attribute")

Parts(x, n) ==
  IF Base(x, n).kind = "name" THEN [i \in 1 .. n + 1 |-> Base(x, n + 1 - i).tok] ELSE <<>>

LEMMA NameItself ==
  ASSUME NEW x, x.kind # "attribute"
  PROVE  DottedName(x) = IF x.kind = "name" THEN <<x.tok>> ELSE <<>>
<1> DEFINE n == CHOOSE k \in 0 .. Levels : Ends(x, k)
<1>1. DottedName(x) = Parts(x, n)
  BY Zenon DEF DottedName, Parts, Ends
<1>2. Base(x, 0) = x
  <2>1. [j \in 1 .. 0 |-> 1] = <<>>
    OBVIOUS
  <2> QED BY <2>1, AtHere DEF Base
<1>3. n = 0
  <2>1. 0 \in 0 .. Levels /\ Ends(x, 0)
    BY <1>2, LevelsAssumption DEF Ends
  <2>2. n \in 0 .. Levels /\ Ends(x, n)
    BY <2>1
  <2> HIDE DEF n
  <2>3. n # 0 => 0 \in 0 .. n - 1
    BY <2>2, LevelsAssumption
  <2> QED BY <1>2, <2>2, <2>3 DEF Ends
<1>4. Parts(x, 0) = IF x.kind = "name" THEN <<x.tok>> ELSE <<>>
  <2>1. [i \in 1 .. 1 |-> Base(x, 1 - i).tok] = <<Base(x, 0).tok>>
    OBVIOUS
  <2> QED BY <1>2, <2>1 DEF Parts
<1> HIDE DEF n
<1> QED BY <1>1, <1>3, <1>4

(* The types of a context's fields.                                        *)
LEMMA EitherFunction ==
  /\ \A f, g, n : n \in DOMAIN (f ++ g) => n \in DOMAIN f \/ n \in DOMAIN g
  /\ \A f, g, n : n \in DOMAIN f => n \in DOMAIN (f ++ g) /\ (f ++ g)[n] = f[n]
  /\ \A f, g, n : n \in DOMAIN g /\ n \notin DOMAIN f =>
                    n \in DOMAIN (f ++ g) /\ (f ++ g)[n] = g[n]
  /\ \A t, names : DOMAIN Of(t, names) = names /\ \A n \in names : Of(t, names)[n] = t
BY DEF ++, Of

LEMMA NameParts ==
  /\ \A base, attrs, dn : dn \in Within(base, attrs) =>
       Len(dn) = 2 /\ dn[1] = base /\ dn[2] \in attrs
  /\ \A f : Len(<<f>>) = 1 /\ <<f>>[1] = f
  /\ \A a, b : Len(<<a, b>>) = 2 /\ <<a, b>>[1] = a /\ <<a, b>>[2] = b
BY DEF Within

(* The series of an underlying are fields of its bars and are numbers.     *)
LEMMA SeriesParts ==
  ASSUME NEW dn \in Series
  PROVE  /\ dn # <<>> /\ SeriesField(dn) \in BarFields
         /\ dn \in DOMAIN EnvTypes("underlying")
         /\ EnvTypes("underlying")[dn] \in Numeric
<1>1. CASE \E f \in BarFields : dn = <<f>>
  <2>1. PICK f \in BarFields : dn = <<f>>
    BY <1>1
  <2> QED BY <2>1, EitherFunction DEF EnvTypes, SeriesField, BarFields, Numeric, Within
<1>2. CASE \E f \in BarFields : dn = <<"bar", f>>
  <2>1. PICK f \in BarFields : dn = <<"bar", f>>
    BY <1>2
  <2> QED BY <2>1, EitherFunction DEF EnvTypes, SeriesField, BarFields, Numeric, Within
<1> QED BY <1>1, <1>2 DEF Series, Within

(* Values that are what a type says; but the field may be missing, a       *)
(* division by zero, and in a chain a metric Unknown.                      *)
Fine(v, type, context) ==
  \/ v.sort = "raise" /\ v.is \in {"missing", "DivisionByZero"}
  \/ v.sort = "unknown" /\ context = "chain"
  \/ type \in Numeric /\ v \in Number
  \/ type = "Bool" /\ v.sort = "bool"
  \/ type \in {"String", "Timestamp"} /\ v.sort = "str"
  \/ type = "Date" /\ v.sort = "date"

(* A field of a context is of a known type, and at every event of that     *)
(* context it is missing or has a value of that type.                      *)
FieldFine(dn, env, types, context) ==
  types[dn] # "Unknown" /\ Fine(FieldValue(dn, env), types[dn], context)

LEMMA UnderlyingFields ==
  ASSUME NEW ev, IsUnderlyingEvent(ev), NEW dn \in DOMAIN EnvTypes("underlying")
  PROVE  FieldFine(dn, RuntimeEnv(ev), EnvTypes("underlying"), "underlying")
<1> DEFINE types == EnvTypes("underlying")
           env == RuntimeEnv(ev)
           prices == {"open", "high", "low", "close"}
           series == {<<f>> : f \in BarFields} \union Within("bar", BarFields)
           bar == ev.bars[Len(ev.bars)]
           values == [n \in series |-> bar[n[Len(n)]]]
<1>1. /\ ev.context = "underlying" /\ bar \in Bar
      /\ \E some \in SUBSET {<<"underlying", "return_5m">>} : ev.optional \in [some -> Number]
  <2>1. ev.bars \in Seq([BarFields -> Number]) /\ ev.bars # <<>> /\ ev.context = "underlying"
    BY DEF IsUnderlyingEvent
  <2>2. Len(ev.bars) \in 1 .. Len(ev.bars)
    BY <2>1
  <2> QED BY <2>1, <2>2 DEF IsUnderlyingEvent, HasSome, Bar
<1>2. \/ types[dn] = "Price" /\ dn \in {<<"open">>, <<"high">>, <<"low">>, <<"close">>}
                                       \union Within("bar", prices)
      \/ types[dn] = "Quantity" /\ dn \in {<<"volume">>, <<"bar", "volume">>}
      \/ types[dn] = "Timestamp" /\ dn = <<"bar", "time">>
      \/ types[dn] = "Bool" /\ dn \in {<<"session", "is_regular">>, <<"data", "is_fresh">>}
      \/ types[dn] = "Percent" /\ dn = <<"underlying", "return_5m">>
  BY EitherFunction DEF EnvTypes, GuardTypes
<1>3. ASSUME dn \in DOMAIN env
      PROVE  \/ dn \in series /\ env[dn] \in Number
             \/ dn = <<"bar", "time">> /\ env[dn].sort = "str"
             \/ dn \in {<<"session", "is_regular">>, <<"data", "is_fresh">>}
                /\ env[dn].sort = "bool"
             \/ dn = <<"underlying", "return_5m">> /\ env[dn] \in Number
  <2>1. env = values ++ Of(Str("a timestamp"), {<<"bar", "time">>}) ++ Guards(ev) ++ ev.optional
    BY <1>1 DEF RuntimeEnv
  <2>2. DOMAIN values = series /\ \A n \in series : values[n] \in Number
    <3>1. ASSUME NEW n \in series
          PROVE  n[Len(n)] \in BarFields
      BY NameParts
    <3>2. \A f \in BarFields : bar[f] \in Number
      BY <1>1 DEF Bar
    <3> HIDE DEF series, bar
    <3> QED BY <3>1, <3>2
  <2> HIDE DEF values, series, env
  <2>3. dn \in DOMAIN Guards(ev) =>
          /\ dn \in {<<"session", "is_regular">>, <<"data", "is_fresh">>}
          /\ Guards(ev)[dn].sort = "bool"
    BY EitherFunction DEF Guards, Bool
  <2>4. dn \in DOMAIN ev.optional => dn = <<"underlying", "return_5m">> /\ ev.optional[dn] \in Number
    BY <1>1
  <2>5. PICK time : time = Of(Str("a timestamp"), {<<"bar", "time">>})
    OBVIOUS
  <2>6. dn \in DOMAIN time => dn = <<"bar", "time">> /\ time[dn].sort = "str"
    <3>1. DOMAIN time = {<<"bar", "time">>} /\ \A n \in {<<"bar", "time">>} : time[n] = Str("a timestamp")
      BY <2>5 DEF Of
    <3>2. Str("a timestamp").sort = "str"
      BY DEF Str
    <3> QED BY <3>1, <3>2
  <2>7. PICK f : f = values ++ time
    OBVIOUS
  <2>8. PICK g : g = f ++ Guards(ev)
    OBVIOUS
  <2>9. env = g ++ ev.optional
    BY <2>1, <2>5, <2>7, <2>8
  <2>10. CASE dn \in DOMAIN g
    <3>1. env[dn] = g[dn]
      BY <2>9, <2>10, EitherFunction
    <3>2. CASE dn \in DOMAIN f
      <4>1. g[dn] = f[dn]
        BY <2>8, <3>2, EitherFunction
      <4>2. CASE dn \in DOMAIN values
        <5>1. f[dn] = values[dn]
          BY <2>7, <4>2, EitherFunction
        <5> QED BY <2>2, <3>1, <4>1, <4>2, <5>1
      <4>3. CASE dn \notin DOMAIN values
        <5>1. f[dn] = time[dn] /\ dn \in DOMAIN time
          BY <2>7, <3>2, <4>3, EitherFunction
        <5> QED BY <2>6, <3>1, <4>1, <5>1
      <4> QED BY <4>2, <4>3
    <3>3. CASE dn \notin DOMAIN f
      <4>1. g[dn] = Guards(ev)[dn] /\ dn \in DOMAIN Guards(ev)
        BY <2>8, <2>10, <3>3, EitherFunction
      <4> QED BY <2>3, <3>1, <4>1
    <3> QED BY <3>2, <3>3
  <2>11. CASE dn \notin DOMAIN g
    <3>1. env[dn] = ev.optional[dn] /\ dn \in DOMAIN ev.optional
      BY <1>3, <2>9, <2>11, EitherFunction
    <3> QED BY <2>4, <3>1
  <2> QED BY <2>10, <2>11
<1> HIDE DEF env, types
<1>4. dn \notin DOMAIN env => FieldValue(dn, env) = Raise("missing")
  BY DEF FieldValue
<1>5. dn \in DOMAIN env => FieldValue(dn, env) = env[dn]
  BY DEF FieldValue
<1>6. types[dn] # "Unknown"
  BY <1>2
<1>7. CASE dn \notin DOMAIN env
  BY <1>4, <1>6, <1>7 DEF FieldFine, Fine, Raise, env, types
<1>8. CASE dn \in DOMAIN env
  <2>1. PICK v : v = env[dn]
    OBVIOUS
  <2>2. PICK type : type = types[dn]
    OBVIOUS
  <2>3. \/ type \in Numeric /\ v \in Number
        \/ type = "Bool" /\ v.sort = "bool"
        \/ type \in {"String", "Timestamp"} /\ v.sort = "str"
    <3>1. CASE type = "Price" \/ type = "Quantity"
      <4>1. dn \in series
        BY <1>2, <2>2, <3>1 DEF series, prices, BarFields, Within
      <4>2. dn[Len(dn)] \in BarFields
        BY <4>1, NameParts DEF series
      <4>3. v \in Number
        <5>1. dn # <<"bar", "time">> /\ dn \notin {<<"session", "is_regular">>, <<"data", "is_fresh">>}
          BY <4>2, NameParts DEF BarFields
        <5> QED BY <1>3, <1>8, <2>1, <5>1
      <4> QED BY <3>1, <4>3 DEF Numeric
    <3>2. CASE type \notin {"Price", "Quantity"}
      <4>1. ASSUME dn \in series
            PROVE  dn[Len(dn)] \in BarFields
        BY <4>1, NameParts DEF series
      <4>2. dn \notin series
        BY <1>2, <2>2, <3>2, <4>1, NameParts DEF BarFields
      <4> HIDE DEF series
      <4> QED BY <1>2, <1>3, <1>8, <2>1, <2>2, <3>2, <4>2, NameParts DEF Numeric
    <3> QED BY <3>1, <3>2
  <2> QED BY <1>5, <1>6, <1>8, <2>1, <2>2, <2>3 DEF FieldFine, Fine, env, types
<1> QED BY <1>7, <1>8

(* What a context's fields hold comes from one of the groups they are      *)
(* listed in.                                                              *)
Gives(f, dn, v) == dn \in DOMAIN f /\ f[dn] = v

LEMMA FromGroups ==
  /\ \A f, g, dn, v : Gives(f ++ g, dn, v) => Gives(f, dn, v) \/ Gives(g, dn, v)
  /\ \A t, names, dn, v : Gives(Of(t, names), dn, v) => dn \in names /\ v = t
BY DEF Gives, ++, Of

LEMMA FromOne ==
  ASSUME NEW f, NEW t, NEW n, f = Of(t, {n}), NEW dn, NEW v
  PROVE  Gives(f, dn, v) => v = t /\ dn \in {n}
BY FromGroups

LEMMA OptionFields ==
  ASSUME NEW ev, IsOptionEvent(ev), NEW dn \in DOMAIN EnvTypes("option")
  PROVE  FieldFine(dn, RuntimeEnv(ev), EnvTypes("option"), "option")
<1> DEFINE types == EnvTypes("option")
           env == RuntimeEnv(ev)
<1>0. PICK type, v, one, two : /\ type = types[dn] /\ v = FieldValue(dn, env)
                              /\ one = Num(1, 1) /\ two = Num(2, 1)
  OBVIOUS
<1>1. /\ ev.context = "option"
      /\ \E some \in SUBSET ({<<"underlying", "return_5m">>}
               \union Within("option", {"bid", "ask", "last", "close", "iv", "delta",
                                        "gamma", "theta", "vega"})) :
           ev.optional \in [some -> Number]
  BY DEF IsOptionEvent, HasSome
<1>2. \/ type = "Price" /\ dn \in Within("option", {"strike", "bid", "ask", "last", "close"})
      \/ type = "String" /\ dn \in Within("option", {"contract_id", "type"})
      \/ type = "Date" /\ dn \in {<<"option", "expiry">>}
      \/ type = "Quantity" /\ dn \in {<<"option", "lot">>}
      \/ type = "Percent" /\ dn \in {<<"option", "iv">>}
      \/ type = "Decimal" /\ dn \in Within("option", {"delta", "gamma", "theta", "vega"})
      \/ type = "Bool" /\ dn \in {<<"session", "is_regular">>, <<"data", "is_fresh">>}
      \/ type = "Percent" /\ dn \in {<<"underlying", "return_5m">>}
  <2>1. Gives(types, dn, type)
    BY <1>0 DEF Gives
  <2> HIDE DEF types
  <2> QED BY <2>1, FromGroups DEF EnvTypes, GuardTypes, types
<1>3. ASSUME dn \in DOMAIN env
      PROVE  \/ v = Str("an id") /\ dn \in {<<"option", "contract_id">>}
             \/ v = two /\ dn \in {<<"option", "strike">>}
             \/ v = Date("a date") /\ dn \in {<<"option", "expiry">>}
             \/ v = Str("CALL") /\ dn \in {<<"option", "type">>}
             \/ v = one /\ dn \in {<<"option", "lot">>}
             \/ v = Bool(ev.fresh) /\ dn \in {<<"data", "is_fresh">>}
             \/ v = Bool(ev.regular) /\ dn \in {<<"session", "is_regular">>}
             \/ v \in Number /\ dn \in {<<"underlying", "return_5m">>}
                    \union Within("option", {"bid", "ask", "last", "close", "iv", "delta",
                                             "gamma", "theta", "vega"})
  <2>1. Gives(env, dn, v)
    BY <1>0, <1>3 DEF Gives, FieldValue
  <2>2. env = Of(Str("an id"), {<<"option", "contract_id">>})
              ++ Of(Num(2, 1), {<<"option", "strike">>})
              ++ Of(Date("a date"), {<<"option", "expiry">>})
              ++ Of(Str("CALL"), {<<"option", "type">>})
              ++ Of(Num(1, 1), {<<"option", "lot">>})
              ++ Guards(ev) ++ ev.optional
    BY <1>1 DEF RuntimeEnv
  <2>3. Gives(ev.optional, dn, v) =>
          v \in Number /\ dn \in {<<"underlying", "return_5m">>}
                    \union Within("option", {"bid", "ask", "last", "close", "iv", "delta",
                                             "gamma", "theta", "vega"})
    BY <1>1 DEF Gives
  <2> HIDE DEF env
  <2>4. PICK f1, f2, f3, f4, f5, f6, f7 :
             /\ f1 = Of(Str("an id"), {<<"option", "contract_id">>})
             /\ f2 = Of(two, {<<"option", "strike">>})
             /\ f3 = Of(Date("a date"), {<<"option", "expiry">>})
             /\ f4 = Of(Str("CALL"), {<<"option", "type">>})
             /\ f5 = Of(one, {<<"option", "lot">>})
             /\ f6 = Of(Bool(ev.fresh), {<<"data", "is_fresh">>})
             /\ f7 = Of(Bool(ev.regular), {<<"session", "is_regular">>})
    OBVIOUS
  <2>5. env = f1 ++ f2 ++ f3 ++ f4 ++ f5 ++ (f6 ++ f7) ++ ev.optional
    BY <1>0, <2>2, <2>4 DEF Guards
  <2>6. \/ Gives(f1, dn, v) \/ Gives(f2, dn, v) \/ Gives(f3, dn, v) \/ Gives(f4, dn, v)
        \/ Gives(f5, dn, v) \/ Gives(f6, dn, v) \/ Gives(f7, dn, v)
        \/ Gives(ev.optional, dn, v)
    BY <2>1, <2>5, FromGroups
  <2>7. /\ Gives(f1, dn, v) => v = Str("an id") /\ dn \in {<<"option", "contract_id">>}
        /\ Gives(f2, dn, v) => v = two /\ dn \in {<<"option", "strike">>}
        /\ Gives(f3, dn, v) => v = Date("a date") /\ dn \in {<<"option", "expiry">>}
        /\ Gives(f4, dn, v) => v = Str("CALL") /\ dn \in {<<"option", "type">>}
        /\ Gives(f5, dn, v) => v = one /\ dn \in {<<"option", "lot">>}
        /\ Gives(f6, dn, v) => v = Bool(ev.fresh) /\ dn \in {<<"data", "is_fresh">>}
        /\ Gives(f7, dn, v) => v = Bool(ev.regular) /\ dn \in {<<"session", "is_regular">>}
    <3>1. Gives(f1, dn, v) => v = Str("an id") /\ dn \in {<<"option", "contract_id">>}
      BY <2>4, FromOne
    <3>2. Gives(f2, dn, v) => v = two /\ dn \in {<<"option", "strike">>}
      BY <2>4, FromOne
    <3>3. Gives(f3, dn, v) => v = Date("a date") /\ dn \in {<<"option", "expiry">>}
      BY <2>4, FromOne
    <3>4. Gives(f4, dn, v) => v = Str("CALL") /\ dn \in {<<"option", "type">>}
      BY <2>4, FromOne
    <3>5. Gives(f5, dn, v) => v = one /\ dn \in {<<"option", "lot">>}
      BY <2>4, FromOne
    <3>6. Gives(f6, dn, v) => v = Bool(ev.fresh) /\ dn \in {<<"data", "is_fresh">>}
      BY <2>4, FromOne
    <3>7. Gives(f7, dn, v) => v = Bool(ev.regular) /\ dn \in {<<"session", "is_regular">>}
      BY <2>4, FromOne
    <3> QED BY <3>1, <3>2, <3>3, <3>4, <3>5, <3>6, <3>7, Zenon
  <2> QED BY <2>3, <2>6, <2>7, Zenon
<1>4. dn \notin DOMAIN env => v = Raise("missing")
  BY <1>0 DEF FieldValue
<1>5. one \in Number /\ two \in Number
  BY <1>0, NumNumber
<1> HIDE DEF env, types
<1>6. type # "Unknown"
  BY <1>2
<1>7. dn \in DOMAIN env => \/ type \in Numeric /\ v \in Number
                           \/ type = "Bool" /\ v.sort = "bool"
                           \/ type = "String" /\ v.sort = "str"
                           \/ type = "Date" /\ v.sort = "date"
  <2>1. PICK head, part : head = dn[1] /\ part = dn[2]
    OBVIOUS
  <2>2. \/ type = "Price" /\ head = "option" /\ part \in {"strike", "bid", "ask", "last", "close"}
        \/ type = "String" /\ head = "option" /\ part \in {"contract_id", "type"}
        \/ type = "Date" /\ head = "option" /\ part = "expiry"
        \/ type = "Quantity" /\ head = "option" /\ part = "lot"
        \/ type = "Percent" /\ head = "option" /\ part = "iv"
        \/ type = "Decimal" /\ head = "option" /\ part \in {"delta", "gamma", "theta", "vega"}
        \/ type = "Bool" /\ head \in {"session", "data"}
        \/ type = "Percent" /\ head = "underlying"
    BY <1>2, <2>1, NameParts
  <2>3. dn \in DOMAIN env =>
          \/ v.sort = "str" /\ head = "option" /\ part \in {"contract_id", "type"}
          \/ v.sort = "date" /\ head = "option" /\ part = "expiry"
          \/ v.sort = "bool" /\ head \in {"session", "data"}
          \/ v \in Number /\ head = "underlying"
          \/ v \in Number /\ head = "option"
             /\ part \in {"strike", "lot", "bid", "ask", "last", "close", "iv", "delta",
                         "gamma", "theta", "vega"}
    <3>1. Str("an id").sort = "str" /\ Str("CALL").sort = "str" /\ Date("a date").sort = "date"
          /\ Bool(ev.fresh).sort = "bool" /\ Bool(ev.regular).sort = "bool"
      BY DEF Str, Date, Bool
    <3>2. ASSUME dn \in {<<"underlying", "return_5m">>}
                  \union Within("option", {"bid", "ask", "last", "close", "iv", "delta",
                                           "gamma", "theta", "vega"})
          PROVE  \/ head = "underlying"
                 \/ head = "option" /\ part \in {"bid", "ask", "last", "close", "iv", "delta",
                                                "gamma", "theta", "vega"}
      BY <2>1, <3>2, NameParts
    <3>3. /\ dn \in {<<"option", "contract_id">>} => head = "option" /\ part = "contract_id"
          /\ dn \in {<<"option", "strike">>} => head = "option" /\ part = "strike"
          /\ dn \in {<<"option", "expiry">>} => head = "option" /\ part = "expiry"
          /\ dn \in {<<"option", "type">>} => head = "option" /\ part = "type"
          /\ dn \in {<<"option", "lot">>} => head = "option" /\ part = "lot"
          /\ dn \in {<<"data", "is_fresh">>} => head = "data"
          /\ dn \in {<<"session", "is_regular">>} => head = "session"
      BY <2>1, NameParts
    <3> QED BY <1>3, <1>5, <3>1, <3>2, <3>3
  <2> QED BY <2>2, <2>3 DEF Numeric
<1>8. Fine(v, type, "option")
  BY <1>4, <1>7 DEF Fine, Raise
<1> QED BY <1>0, <1>6, <1>8 DEF FieldFine, env, types

LEMMA ChainFields ==
  ASSUME NEW ev, IsChainEvent(ev), NEW dn \in DOMAIN EnvTypes("chain")
  PROVE  FieldFine(dn, RuntimeEnv(ev), EnvTypes("chain"), "chain")
<1> DEFINE types == EnvTypes("chain")
           env == RuntimeEnv(ev)
           metrics == [n \in Within("chain", Metrics) |-> ev.metrics[n[2]]]
<1>0. PICK type, v : type = types[dn] /\ v = FieldValue(dn, env)
  OBVIOUS
<1>1. /\ ev.context = "chain" /\ DOMAIN ev.metrics = Metrics
      /\ \A k \in Metrics : ev.metrics[k] \in Number \union {UnknownV}
  BY DEF IsChainEvent
<1>2. \/ type = "Timestamp" /\ dn \in Within("chain", {"as_of", "time"})
      \/ type = "Bool" /\ dn \in Within("chain", {"is_fresh", "is_complete",
                                                  "has_unknowns", "quality_ok"})
      \/ type = "Decimal" /\ dn \in Within("chain", {"pcr_oi", "pcr_volume"})
      \/ type = "Quantity" /\ dn \in Within("chain", {"oi_change", "oi_change_puts",
                                                      "oi_change_calls"})
      \/ type = "Percent" /\ dn \in Within("chain", {"iv_skew"})
  <2>1. Gives(types, dn, type)
    BY <1>0 DEF Gives
  <2> HIDE DEF types
  <2> QED BY <2>1, FromGroups DEF EnvTypes, types
<1>3. ASSUME dn \in DOMAIN env
      PROVE  \/ v.sort = "str" /\ dn \in Within("chain", {"as_of", "time"})
             \/ v.sort = "bool" /\ \/ dn \in {<<"chain", "is_fresh">>}
                                   \/ dn \in {<<"chain", "is_complete">>}
                                   \/ dn \in {<<"chain", "has_unknowns">>}
                                   \/ dn \in {<<"chain", "quality_ok">>}
             \/ v \in Number \union {UnknownV} /\ dn \in Within("chain", Metrics)
  <2>1. Gives(env, dn, v)
    BY <1>0, <1>3 DEF Gives, FieldValue
  <2>2. PICK t, b2, b3, b4, b5 :
             /\ t = Str("a timestamp") /\ b2 = Bool(ev.fresh /\ ~ ev.flagged)
             /\ b3 = Bool(ev.complete) /\ b4 = Bool(ev.unknowns)
             /\ b5 = Bool(ev.complete /\ ev.fresh /\ ~ ev.flagged)
    OBVIOUS
  <2>3. /\ t.sort = "str" /\ b2.sort = "bool" /\ b3.sort = "bool" /\ b4.sort = "bool"
        /\ b5.sort = "bool"
    BY <2>2 DEF Str, Bool
  <2>4. PICK f1, f2, f3, f4, f5, f6 :
             /\ f1 = Of(t, Within("chain", {"as_of", "time"}))
             /\ f2 = Of(b2, {<<"chain", "is_fresh">>})
             /\ f3 = Of(b3, {<<"chain", "is_complete">>})
             /\ f4 = Of(b4, {<<"chain", "has_unknowns">>})
             /\ f5 = Of(b5, {<<"chain", "quality_ok">>})
             /\ f6 = metrics
    OBVIOUS
  <2>5. env = f1 ++ f2 ++ f3 ++ f4 ++ f5 ++ f6
    BY <1>1, <2>2, <2>4 DEF RuntimeEnv
  <2>6. \/ Gives(f1, dn, v) \/ Gives(f2, dn, v) \/ Gives(f3, dn, v) \/ Gives(f4, dn, v)
        \/ Gives(f5, dn, v) \/ Gives(f6, dn, v)
    BY <2>1, <2>5, FromGroups
  <2>7. Gives(f1, dn, v) => v = t /\ dn \in Within("chain", {"as_of", "time"})
    BY <2>4, FromGroups
  <2>8. Gives(f2, dn, v) => v = b2 /\ dn \in {<<"chain", "is_fresh">>}
    BY <2>4, FromOne
  <2>9. Gives(f3, dn, v) => v = b3 /\ dn \in {<<"chain", "is_complete">>}
    BY <2>4, FromOne
  <2>10. Gives(f4, dn, v) => v = b4 /\ dn \in {<<"chain", "has_unknowns">>}
    BY <2>4, FromOne
  <2>11. Gives(f5, dn, v) => v = b5 /\ dn \in {<<"chain", "quality_ok">>}
    BY <2>4, FromOne
  <2>12. Gives(f6, dn, v) => v \in Number \union {UnknownV} /\ dn \in Within("chain", Metrics)
    <3>1. ASSUME NEW n \in Within("chain", Metrics)
          PROVE  metrics[n] \in Number \union {UnknownV}
      <4>1. n[2] \in Metrics
        BY NameParts
      <4> QED BY <1>1, <4>1
    <3>2. DOMAIN metrics = Within("chain", Metrics)
      OBVIOUS
    <3> HIDE DEF metrics
    <3> QED BY <2>4, <3>1, <3>2 DEF Gives
  <2> QED BY <2>3, <2>6, <2>7, <2>8, <2>9, <2>10, <2>11, <2>12
<1>4. dn \notin DOMAIN env => v = Raise("missing")
  BY <1>0 DEF FieldValue
<1> HIDE DEF env, types, metrics
<1>5. type # "Unknown"
  BY <1>2
<1>6. dn \in DOMAIN env => \/ type \in Numeric /\ v \in Number \union {UnknownV}
                           \/ type = "Bool" /\ v.sort = "bool"
                           \/ type = "Timestamp" /\ v.sort = "str"
  <2>1. PICK part : part = dn[2]
    OBVIOUS
  <2>2. \/ type = "Timestamp" /\ part \in {"as_of", "time"}
        \/ type = "Bool" /\ part \in {"is_fresh", "is_complete", "has_unknowns", "quality_ok"}
        \/ type \in Numeric /\ part \in Metrics
    BY <1>2, <2>1, NameParts DEF Numeric, Metrics
  <2>3. dn \in DOMAIN env =>
          \/ v.sort = "str" /\ part \in {"as_of", "time"}
          \/ v.sort = "bool" /\ part \in {"is_fresh", "is_complete", "has_unknowns", "quality_ok"}
          \/ v \in Number \union {UnknownV} /\ part \in Metrics
    BY <1>3, <2>1, NameParts
  <2> QED BY <2>2, <2>3 DEF Metrics
<1>7. Fine(v, type, "chain")
  BY <1>4, <1>6 DEF Fine, Raise, UnknownV
<1> QED BY <1>0, <1>5, <1>7 DEF FieldFine, env, types

LEMMA FieldsFine ==
  ASSUME NEW ev, IsEvent(ev)
  PROVE  /\ ev.context \in {"underlying", "option", "chain"}
         /\ \A dn \in DOMAIN EnvTypes(ev.context) :
              FieldFine(dn, RuntimeEnv(ev), EnvTypes(ev.context), ev.context)
<1>1. CASE IsUnderlyingEvent(ev)
  BY <1>1, UnderlyingFields DEF IsUnderlyingEvent
<1>2. CASE IsOptionEvent(ev)
  BY <1>2, OptionFields DEF IsOptionEvent
<1>3. CASE IsChainEvent(ev)
  <2>1. ev.context = "chain"
    BY <1>3 DEF IsChainEvent
  <2> QED BY <1>3, <2>1, ChainFields
<1> QED BY <1>1, <1>2, <1>3 DEF IsEvent

-----------------------------------------------------------------------------
(* What is judged to be well is of a known type, and comes out as that.    *)
Sound(t, v, context) == t.ok => t.type # "Unknown" /\ Fine(v, t.type, context)

LEMMA NumbersSimple ==
  ASSUME NEW v \in Number
  PROVE  AsDecimal(v) = v /\ v.sort = "num"
BY NumberParts DEF AsDecimal

LEMMA TypedParts == \A t, ok : Typed(t, ok).type = t /\ Typed(t, ok).ok = ok
BY DEF Typed

LEMMA WidenedNumeric ==
  /\ \A t : Widened(t) \in Numeric <=> t \in Numeric
  /\ \A t : Widened(t) = "Unknown" <=> t = "Unknown"
BY DEF Widened, Numeric, LiteralTypes

(* What a number that a tree should come out as may be.                    *)
NumberFine(v, context) ==
  \/ v.sort = "raise" /\ v.is \in {"missing", "DivisionByZero"}
  \/ v.sort = "unknown" /\ context = "chain"
  \/ v \in Number

LEMMA FineNumber ==
  ASSUME NEW v, NEW t \in Numeric, NEW context
  PROVE  Fine(v, t, context) <=> NumberFine(v, context)
BY DEF Fine, NumberFine, Numeric, LiteralTypes

LEMMA UnarySound ==
  ASSUME NEW op \in {"not", "+", "-"}, NEW o \in Judged, NEW v, NEW context, Sound(o, v, context)
  PROVE  Sound(InferUnary(op, o), EvalUnary(op, v), context)
<1>1. CASE op = "not"
  <2>1. ASSUME InferUnary(op, o).ok
        PROVE  Fine(v, "Bool", context)
    BY <1>1, <2>1, TypedParts DEF InferUnary, Sound
  <2>2. ASSUME Fine(v, "Bool", context)
        PROVE  Fine(EvalUnary(op, v), "Bool", context)
    BY <1>1, <2>2, NumbersSimple DEF Fine, EvalUnary, Bool, Numeric, LiteralTypes
  <2>3. InferUnary(op, o).type = "Bool"
    BY <1>1, TypedParts DEF InferUnary
  <2> QED BY <2>1, <2>2, <2>3 DEF Sound
<1>2. CASE op # "not"
  <2>1. /\ InferUnary(op, o).type = Widened(o.type)
        /\ InferUnary(op, o).ok => o.type \in Numeric /\ Fine(v, o.type, context)
    BY <1>2, TypedParts DEF InferUnary, Sound
  <2>2. ASSUME NumberFine(v, context)
        PROVE  NumberFine(EvalUnary(op, v), context)
    <3>1. CASE v \in Number
      <4>1. EvalUnary(op, v) \in {v, Minus(v)}
        BY <1>2, <3>1, NumbersSimple DEF EvalUnary
      <4> QED BY <3>1, <4>1, Arithmetic DEF NumberFine
    <3>2. CASE v.sort \in {"raise", "unknown"}
      BY <2>2, <3>2 DEF EvalUnary
    <3> QED BY <2>2, <3>1, <3>2 DEF NumberFine
  <2>3. ASSUME o.type \in Numeric
        PROVE  Widened(o.type) \in Numeric /\ Widened(o.type) # "Unknown"
    BY <2>3, WidenedNumeric DEF Numeric, LiteralTypes
  <2> QED BY <2>1, <2>2, <2>3, FineNumber DEF Sound
<1> QED BY <1>1, <1>2

LEMMA BooleanSound ==
  ASSUME NEW op \in {"and", "or"}, NEW l \in Judged, NEW r \in Judged, NEW v, NEW w,
         NEW context, Sound(l, v, context), Sound(r, w, context)
  PROVE  Sound(InferBinary(op, l, r), EvalBoolean(op = "or", v, w), context)
<1>1. ASSUME InferBinary(op, l, r).ok
      PROVE  InferBinary(op, l, r).type = "Bool" /\ Fine(v, "Bool", context) /\ Fine(w, "Bool", context)
  <2>1. l.ok /\ r.ok
    BY <1>1, TypedParts DEF InferBinary, InferBoolean
  <2>2. l.type # "Unknown" /\ r.type # "Unknown"
    BY <2>1 DEF Sound
  <2>3. InferBinary(op, l, r) = InferBoolean(l, r)
    BY <2>2 DEF InferBinary
  <2> QED BY <1>1, <2>1, <2>3, TypedParts DEF InferBoolean, Sound
<1>2. ASSUME Fine(v, "Bool", context), Fine(w, "Bool", context)
      PROVE  Fine(EvalBoolean(op = "or", v, w), "Bool", context)
  <2>1. PICK d : d = (op = "or")
    OBVIOUS
  <2>2. Truth(v) = v /\ Truth(w) = w /\ v.sort \in {"raise", "unknown", "bool"}
    BY <1>2 DEF Truth, Fine, Numeric, LiteralTypes
  <2>3. CASE v.sort \in {"raise", "bool"}
    <3>1. EvalBoolean(d, v, w) \in {v, w}
      BY <2>2, <2>3 DEF EvalBoolean
    <3> QED BY <1>2, <2>1, <3>1
  <2>4. CASE v.sort = "unknown"
    <3>1. EvalBoolean(d, v, w) \in {UnknownV, w}
      BY <2>2, <2>4 DEF EvalBoolean
    <3>2. context = "chain"
      BY <1>2, <2>4 DEF Fine, Numeric, LiteralTypes
    <3>3. Fine(UnknownV, "Bool", context)
      BY <3>2 DEF Fine, UnknownV
    <3> QED BY <1>2, <2>1, <3>1, <3>3
  <2> QED BY <2>2, <2>3, <2>4
<1> QED BY <1>1, <1>2 DEF Sound

LEMMA ArithmeticSound ==
  ASSUME NEW op \in {"+", "-", "*", "/"}, NEW l \in Judged, NEW r \in Judged, NEW v, NEW w,
         NEW context, Sound(l, v, context), Sound(r, w, context)
  PROVE  Sound(InferBinary(op, l, r), EvalArithmetic(op, v, w), context)
<1>1. ASSUME InferBinary(op, l, r).ok
      PROVE  /\ InferBinary(op, l, r).type \in Numeric
             /\ NumberFine(v, context) /\ NumberFine(w, context)
  <2>1. l.ok /\ r.ok
    BY <1>1, TypedParts DEF InferBinary, InferBoolean, InferArithmetic
  <2>2. l.type # "Unknown" /\ r.type # "Unknown" /\ Fine(v, l.type, context) /\ Fine(w, r.type, context)
    BY <2>1 DEF Sound
  <2>3. InferBinary(op, l, r) = InferArithmetic(op, l, r)
    BY <2>2 DEF InferBinary
  <2>4. InferArithmetic(op, l, r).type # "Unknown"
    <3>1. PICK t : t = InferArithmetic(op, l, r).type
      OBVIOUS
    <3>2. InferArithmetic(op, l, r) = Typed(t, l.ok /\ r.ok /\ t # "Unknown")
      BY <3>1 DEF InferArithmetic, Typed
    <3>3. PICK ok \in BOOLEAN : ok = (l.ok /\ r.ok /\ t # "Unknown")
      OBVIOUS
    <3>4. InferBinary(op, l, r).ok = ok
      BY <2>3, <3>2, <3>3, TypedParts
    <3> QED BY <1>1, <3>1, <3>3, <3>4
  <2>5. /\ InferArithmetic(op, l, r).type \in Numeric
        /\ Widened(l.type) \in Numeric /\ Widened(r.type) \in Numeric
    BY <2>4 DEF InferArithmetic, Typed, Numeric, LiteralTypes
  <2>6. l.type \in Numeric /\ r.type \in Numeric
    BY <2>5, WidenedNumeric
  <2> QED BY <2>2, <2>3, <2>5, <2>6, FineNumber
<1>2. ASSUME NumberFine(v, context), NumberFine(w, context)
      PROVE  NumberFine(EvalArithmetic(op, v, w), context)
  <2>1. CASE v.sort = "raise" \/ w.sort = "raise"
    <3>1. EvalArithmetic(op, v, w) = IF v.sort = "raise" THEN v ELSE w
      BY <2>1 DEF EvalArithmetic, Unless
    <3> QED BY <1>2, <2>1, <3>1
  <2>2. CASE v.sort # "raise" /\ w.sort # "raise" /\ (v.sort = "unknown" \/ w.sort = "unknown")
    <3>1. EvalArithmetic(op, v, w) = UnknownV
      BY <2>2 DEF EvalArithmetic
    <3>2. context = "chain"
      BY <1>2, <2>2, NumbersSimple DEF NumberFine
    <3> QED BY <3>1, <3>2 DEF NumberFine, UnknownV
  <2>3. CASE v.sort \notin {"raise", "unknown"} /\ w.sort \notin {"raise", "unknown"}
    <3>1. v \in Number /\ w \in Number
      BY <1>2, <2>3 DEF NumberFine
    <3>2. AsDecimal(v) = v /\ AsDecimal(w) = w
      BY <3>1, NumbersSimple
    <3>3. EvalArithmetic(op, v, w) =
            Unless(v, w, CASE op = "+" -> Plus(v, w)
                           [] op = "-" -> Plus(v, Minus(w))
                           [] op = "*" -> Times(v, w)
                           [] op = "/" -> IF op = "/" /\ w.is[1] = 0
                                          THEN Raise("DivisionByZero") ELSE Over(v, w)
                           [] OTHER    -> Raise("operator"))
      BY <2>3, <3>2 DEF EvalArithmetic
    <3>4. EvalArithmetic(op, v, w) =
            CASE op = "+" -> Plus(v, w)
              [] op = "-" -> Plus(v, Minus(w))
              [] op = "*" -> Times(v, w)
              [] op = "/" -> IF op = "/" /\ w.is[1] = 0
                             THEN Raise("DivisionByZero") ELSE Over(v, w)
              [] OTHER    -> Raise("operator")
      BY <2>3, <3>3 DEF Unless
    <3>5. Plus(v, w) \in Number /\ Times(v, w) \in Number /\ Plus(v, Minus(w)) \in Number
          /\ (w.is[1] # 0 => Over(v, w) \in Number)
      BY <3>1, Arithmetic
    <3>6. NumberFine(Raise("DivisionByZero"), context)
      BY DEF NumberFine, Raise
    <3>7. CASE op = "/"
      BY <3>4, <3>5, <3>6, <3>7 DEF NumberFine
    <3>8. CASE op # "/"
      BY <3>4, <3>5, <3>8 DEF NumberFine
    <3> QED BY <3>7, <3>8
  <2> QED BY <2>1, <2>2, <2>3
<1>3. InferBinary(op, l, r).type \in Numeric => InferBinary(op, l, r).type # "Unknown"
  BY DEF Numeric, LiteralTypes
<1> QED BY <1>1, <1>2, <1>3, FineNumber DEF Sound

LEMMA CompareSound ==
  ASSUME NEW op \in Comparison, NEW l \in Judged, NEW r \in Judged, NEW v, NEW w,
         NEW context, Sound(l, v, context), Sound(r, w, context),
         l.ok /\ r.ok => l.type \in Numeric /\ r.type \in Numeric
  PROVE  Sound(InferCompare(l, r), EvalCompare(op, v, w), context)
<1>1. /\ InferCompare(l, r).type = "Bool"
      /\ InferCompare(l, r).ok => NumberFine(v, context) /\ NumberFine(w, context)
  BY TypedParts, FineNumber DEF InferCompare, Sound
<1>2. ASSUME NumberFine(v, context), NumberFine(w, context)
      PROVE  Fine(EvalCompare(op, v, w), "Bool", context)
  <2>1. CASE v.sort = "raise" \/ w.sort = "raise"
    <3>1. EvalCompare(op, v, w) = IF v.sort = "raise" THEN v ELSE w
      BY <2>1 DEF EvalCompare, Unless
    <3>2. \A x : x.sort = "raise" /\ NumberFine(x, context) => Fine(x, "Bool", context)
      BY NumbersSimple DEF NumberFine, Fine
    <3> QED BY <1>2, <2>1, <3>1, <3>2
  <2>2. CASE v.sort # "raise" /\ w.sort # "raise" /\ (v.sort = "unknown" \/ w.sort = "unknown")
    <3>1. EvalCompare(op, v, w) = UnknownV
      BY <2>2 DEF EvalCompare
    <3>2. context = "chain"
      BY <1>2, <2>2, NumbersSimple DEF NumberFine
    <3> QED BY <3>1, <3>2 DEF Fine, UnknownV
  <2>3. CASE v.sort \notin {"raise", "unknown"} /\ w.sort \notin {"raise", "unknown"}
    <3>1. v \in Number /\ w \in Number
      BY <1>2, <2>3 DEF NumberFine
    <3>2. AsDecimal(v) = v /\ AsDecimal(w) = w /\ v.sort = "num" /\ w.sort = "num"
      BY <3>1, NumbersSimple
    <3>3. \E holds : EvalCompare(op, v, w) = Bool(holds)
      BY <3>2 DEF EvalCompare
    <3> QED BY <3>3 DEF Fine, Bool
  <2> QED BY <2>1, <2>2, <2>3
<1> QED BY <1>1, <1>2 DEF Sound

LEMMA AbsSound ==
  ASSUME NEW o \in Judged, NEW v, NEW context, Sound(o, v, context), NEW args, args = <<o>>
  PROVE  Sound(InferCall("abs", args), EvalAbs(v, AsDecimal(v)), context)
<1>1. Len(args) = 1 /\ args[1] = o
  OBVIOUS
<1>2. InferCall("abs", args) = IF o.type \in {"Unknown"} \union Numeric
                              THEN Typed(Widened(o.type), o.ok) ELSE Typed("Unknown", FALSE)
  BY <1>1 DEF InferCall, Arity
<1>3. InferCall("abs", args).ok =>
        /\ InferCall("abs", args).type = Widened(o.type) /\ o.type \in Numeric
        /\ NumberFine(v, context)
  <2>1. ASSUME InferCall("abs", args).ok
        PROVE  /\ InferCall("abs", args).type = Widened(o.type) /\ o.ok
               /\ o.type \in {"Unknown"} \union Numeric
    <3>1. \/ /\ InferCall("abs", args) = Typed(Widened(o.type), o.ok)
             /\ o.type \in {"Unknown"} \union Numeric
          \/ InferCall("abs", args) = Typed("Unknown", FALSE)
      BY <1>2
    <3>2. InferCall("abs", args) # Typed("Unknown", FALSE)
      BY <2>1, TypedParts
    <3>3. PICK t : t = InferCall("abs", args)
      OBVIOUS
    <3>4. t = Typed(Widened(o.type), o.ok) /\ o.type \in {"Unknown"} \union Numeric
      BY <3>1, <3>2, <3>3
    <3>5. t.type = Widened(o.type) /\ t.ok = o.ok
      BY <3>4, TypedParts
    <3> QED BY <2>1, <3>3, <3>4, <3>5
  <2>2. ASSUME o.ok, o.type \in {"Unknown"} \union Numeric
        PROVE  o.type \in Numeric /\ NumberFine(v, context)
    BY <2>2, FineNumber DEF Sound
  <2> QED BY <2>1, <2>2
<1>4. ASSUME NumberFine(v, context)
      PROVE  NumberFine(EvalAbs(v, AsDecimal(v)), context)
  <2>1. CASE v \in Number
    <3>1. EvalAbs(v, AsDecimal(v)) = Absolute(v)
      BY <2>1, NumbersSimple DEF EvalAbs
    <3>2. Absolute(v) \in Number
      BY <2>1, Arithmetic
    <3> QED BY <3>1, <3>2 DEF NumberFine
  <2>2. CASE v.sort \in {"raise", "unknown"}
    <3>1. EvalAbs(v, AsDecimal(v)) = v
      BY <2>2 DEF EvalAbs, AsDecimal
    <3> QED BY <1>4, <3>1
  <2> QED BY <1>4, <2>1, <2>2 DEF NumberFine
<1>5. ASSUME o.type \in Numeric
      PROVE  Widened(o.type) \in Numeric /\ Widened(o.type) # "Unknown"
  BY <1>5, WidenedNumeric DEF Numeric, LiteralTypes
<1> QED BY <1>3, <1>4, <1>5, FineNumber DEF Sound

(* A length that is a positive literal is one.                             *)
LEMMA LengthPositive ==
  ASSUME NEW x, x.tok \in Literal, IsPositive(x), NEW v, v = LiteralValue[x.tok]
  PROVE  AsDecimal(v) = v /\ v.sort # "raise" /\ Truncated(v) \in Nat /\ Truncated(v) > 0
<1>1. v \in [sort: {"num"}, is: Nat \X {1}]
  BY LiteralValueAssumption DEF IsPositive, ValueOfLiteral
<1>2. v.sort = "num" /\ v.is[1] \in Nat /\ v.is[2] = 1
  BY <1>1
<1>3. Zero.is[1] = 0 /\ Zero.is[2] = 1
  BY DEF Zero, Num
<1>4. v.is[1] > 0
  <2>1. Below(Zero, v)
    BY DEF IsPositive, Zero
  <2>2. Zero.is[1] * v.is[2] < v.is[1] * Zero.is[2]
    BY <2>1 DEF Below
  <2>3. 0 * 1 < v.is[1] * 1
    BY <1>2, <1>3, <2>2
  <2> QED BY <1>2, <2>3
<1>5. Truncated(v) = v.is[1]
  BY <1>2 DEF Truncated
<1> QED BY <1>2, <1>4, <1>5 DEF AsDecimal

LEMMA WindowSound ==
  ASSUME NEW ev, IsUnderlyingEvent(ev), NEW fn \in FunctionNames \ {"abs"}, NEW dn,
         dn # <<>>, fn \in {"highest", "lowest", "ema", "rsi"} => SeriesField(dn) \in BarFields,
         NEW v, v.sort # "raise", Truncated(v) \in Nat, Truncated(v) > 0
  PROVE  EvalWindow(fn, dn, v, ev.bars) \in Number
<1>1. ev.bars \in Seq(Bar) /\ ev.bars # <<>>
  BY DEF IsUnderlyingEvent, Bar
<1>2. EvalSeriesCall(fn, dn, Truncated(v), ev.bars) \in Number
  BY <1>1, SeriesCallNumber
<1> QED BY <1>2 DEF EvalWindow

LEMMA NamedCallSound ==
  ASSUME NEW ev, IsUnderlyingEvent(ev), NEW fn \in FunctionNames \ {"abs"}, NEW node,
         node.kw = <<>>, Len(node.kids) \in Nat, Len(node.kids) > 0,
         Len(node.kids) - 1 \in Arity(fn), NEW value,
         Len(node.kids) = 3 => DottedName(node.kids[2]) \in Series,
         Len(node.kids) > 1 => /\ AsDecimal(value) = value /\ value.sort # "raise"
                               /\ Truncated(value) \in Nat /\ Truncated(value) > 0
  PROVE  EvalNamedCall(fn, node, value, ev) \in Number
<1> DEFINE n == Len(node.kids) - 1
<1>0. n \in Nat /\ Len(node.kids) = n + 1
  OBVIOUS
<1>1. PICK length : length = IF n = 0 THEN Num(Len(ev.bars), 1) ELSE AsDecimal(value)
  OBVIOUS
<1>2. PICK series : series = IF fn \in {"highest", "lowest", "ema", "rsi"}
                             THEN DottedName(node.kids[2]) ELSE <<"close">>
  OBVIOUS
<1>3. EvalNamedCall(fn, node, value, ev) = EvalWindow(fn, series, length, ev.bars)
  BY <1>1, <1>2 DEF EvalNamedCall, IsUnderlyingEvent
<1>4. /\ length.sort # "raise" /\ Truncated(length) \in Nat /\ Truncated(length) > 0
  <2>1. CASE n = 0
    <3>1. PICK k \in Nat : k = Len(ev.bars) /\ k > 0
      BY DEF IsUnderlyingEvent
    <3>2. length = [sort |-> "num", is |-> <<k, 1>>]
      BY <1>1, <2>1, <3>1 DEF Num
    <3>3. Truncated(length) = k
      BY <3>2 DEF Truncated
    <3> QED BY <3>1, <3>2, <3>3
  <2>2. CASE n # 0
    <3>1. Len(node.kids) > 1
      <4> HIDE DEF n
      <4> QED BY <1>0, <2>2
    <3>2. length = AsDecimal(value)
      <4> HIDE DEF n
      <4> QED BY <1>1, <2>2
    <3> QED BY <3>1, <3>2
  <2> QED BY <2>1, <2>2
<1>5. CASE fn \in {"highest", "lowest", "ema", "rsi"}
  <2>1. Len(node.kids) = 3
    <3>1. Arity(fn) = {2}
      BY <1>5 DEF Arity
    <3> QED BY <3>1
  <2>2. series \in Series
    BY <1>2, <1>5, <2>1
  <2> QED BY <1>3, <1>4, <2>2, SeriesParts, WindowSound
<1>6. CASE fn \notin {"highest", "lowest", "ema", "rsi"}
  <2>1. series # <<>>
    BY <1>2, <1>6
  <2> QED BY <1>3, <1>4, <1>6, <2>1, WindowSound
<1> QED BY <1>5, <1>6

(* The type of a series, and the value of a length, wherever they are      *)
(* found to be well.                                                       *)
LEMMA WellIsDeep ==
  ASSUME NEW T, Grown(T), NEW x \in T, NEW env, NEW m \in 0 .. Levels, InferTo(x, env, m).ok
  PROVE  m \in 1 .. Levels
<1>1. InferTo(x, env, 0) = Typed("Unknown", FALSE)
  BY InferGoesDown
<1>2. ~ Typed("Unknown", FALSE).ok
  BY DEF Typed
<1>3. m # 0
  BY <1>1, <1>2
<1> QED BY <1>3, LevelsAssumption

LEMMA SeriesType ==
  ASSUME NEW T, Grown(T), NEW x \in T, DottedName(x) \in Series,
         NEW m \in 0 .. Levels, InferTo(x, EnvTypes("underlying"), m).ok
  PROVE  InferTo(x, EnvTypes("underlying"), m).type \in Numeric
<1> DEFINE env == EnvTypes("underlying")
<1>2. m \in 1 .. Levels
  BY WellIsDeep
<1>3. PICK kid : InferTo(x, env, m) = InferNode(x, kid, env)
  BY <1>2, InferGoesDown
<1>4. /\ DottedName(x) # <<>> /\ DottedName(x) \in DOMAIN env /\ env[DottedName(x)] \in Numeric
  BY SeriesParts
<1>5. x.kind \in {"name", "attribute"}
  BY <1>4, NameItself
<1> HIDE DEF env
<1>6. InferNode(x, kid, env) = Typed(env[DottedName(x)], TRUE)
  BY <1>4, <1>5 DEF InferNode
<1>7. Typed(env[DottedName(x)], TRUE).type = env[DottedName(x)]
  BY DEF Typed
<1> QED BY <1>3, <1>4, <1>6, <1>7 DEF env

LEMMA LengthValue ==
  ASSUME NEW T, Grown(T), NEW x \in T, IsPositive(x), NEW env, NEW ev,
         NEW m \in 0 .. Levels, InferTo(x, env, m).ok, NEW v, v = EvalTo(x, ev, m)
  PROVE  AsDecimal(v) = v /\ v.sort # "raise" /\ Truncated(v) \in Nat /\ Truncated(v) > 0
<1>2. m \in 1 .. Levels
  BY WellIsDeep
<1>3. PICK kid : EvalTo(x, ev, m) = EvalNode(x, kid, ev)
  BY <1>2, EvalGoesDown
<1>4. x.kind = "literal"
  BY DEF IsPositive
<1>5. x.tok \in Literal
  BY <1>4 DEF Grown, IsNode, HasShape
<1>6. v = LiteralValue[x.tok]
  BY <1>3, <1>4 DEF EvalNode
<1> QED BY <1>5, <1>6, LengthPositive

(* The arguments of a call are judged as they stand.                       *)
LEMMA ArgTypes ==
  ASSUME NEW T, Grown(T), NEW x \in T, x.kind = "call", NEW env, NEW m,
         NEW args, args = Tail(KidTypes(x, env, m))
  PROVE  /\ Len(x.kids) \in Nat /\ Len(x.kids) > 0
         /\ Len(args) = Len(x.kids) - 1
         /\ Len(Tail(x.kids)) = Len(x.kids) - 1
         /\ \A i \in 1 .. Len(x.kids) - 1 :
              /\ args[i] = InferTo(x.kids[i + 1], env, m)
              /\ Tail(x.kids)[i] = x.kids[i + 1] /\ x.kids[i + 1] \in T
<1>1. x.kids \in Seq(T) /\ HasShape(x.kind, x.tok, Len(x.kids))
  BY DEF Grown, IsNode
<1>2. PICK n \in Nat : n = Len(x.kids) /\ n > 0
  BY <1>1 DEF HasShape
<1>3. PICK kid : kid = KidTypes(x, env, m)
  OBVIOUS
<1>4. kid = [i \in 1 .. n |-> InferTo(x.kids[i], env, m)]
  BY <1>2, <1>3 DEF KidTypes
<1>5. kid \in Seq({InferTo(x.kids[i], env, m) : i \in 1 .. n}) /\ Len(kid) = n
  BY <1>4
<1>6. Len(args) = n - 1 /\ \A i \in 1 .. n - 1 : args[i] = kid[i + 1]
  BY <1>2, <1>3, <1>5
<1>7. Len(Tail(x.kids)) = n - 1 /\ \A i \in 1 .. n - 1 : Tail(x.kids)[i] = x.kids[i + 1]
  BY <1>1, <1>2
<1>8. \A i \in 1 .. n - 1 : i + 1 \in 1 .. n
  OBVIOUS
<1>9. ASSUME NEW i \in 1 .. Len(x.kids) - 1
      PROVE  /\ args[i] = InferTo(x.kids[i + 1], env, m)
             /\ Tail(x.kids)[i] = x.kids[i + 1] /\ x.kids[i + 1] \in T
  <2>1. i \in 1 .. n - 1 /\ i + 1 \in 1 .. n
    BY <1>2
  <2>2. kid[i + 1] = InferTo(x.kids[i + 1], env, m)
    BY <1>4, <2>1
  <2>3. x.kids[i + 1] \in T
    BY <1>1, <1>2, <2>1
  <2> QED BY <1>6, <1>7, <2>1, <2>2, <2>3
<1> QED BY <1>2, <1>6, <1>7, <1>9

(* What a call in which all is well has: a function and no keywords.       *)
CallFine(x, kid, env) ==
  LET fn == FunctionOf(x)
  IN  /\ fn \in FunctionNames /\ x.kw = <<>>
      /\ InferNode(x, kid, env) = InferCall(fn, Tail(kid))
      /\ Len(x.kids) - 1 \in Arity(fn)
      /\ NameOf(DottedName(x.kids[1])) = fn

LEMMA CallParts ==
  ASSUME NEW T, Grown(T), NEW x \in T, x.kind = "call", NEW env, NEW m,
         InferNode(x, KidTypes(x, env, m), env).ok
  PROVE  CallFine(x, KidTypes(x, env, m), env)
<1>1. PICK dn : dn = DottedName(x.kids[1])
  OBVIOUS
<1>2. PICK args : args = Tail(KidTypes(x, env, m))
  OBVIOUS
<1>3. PICK t : t = InferNode(x, KidTypes(x, env, m), env)
  OBVIOUS
<1>4. t = IF dn \notin {<<f>> : f \in FunctionNames} \/ x.kw # <<>>
          THEN Typed("Unknown", FALSE) ELSE InferCall(dn[1], args)
  BY <1>1, <1>2, <1>3 DEF InferNode
<1>5. ~ Typed("Unknown", FALSE).ok
  BY DEF Typed
<1>6. dn \in {<<f>> : f \in FunctionNames} /\ x.kw = <<>> /\ t = InferCall(dn[1], args)
  BY <1>3, <1>4, <1>5
<1>7. PICK f \in FunctionNames : dn = <<f>>
  BY <1>6
<1>8. Len(dn) = 1 /\ dn[1] = f
  BY <1>7
<1>9. Len(args) \in Arity(f)
  BY <1>3, <1>5, <1>6, <1>8 DEF InferCall
<1>10. Len(args) = Len(x.kids) - 1
  BY <1>2, ArgTypes
<1>11. FunctionOf(x) = f /\ NameOf(DottedName(x.kids[1])) = f
  BY <1>1, <1>8 DEF NameOf, FunctionOf
<1> QED BY <1>2, <1>3, <1>6, <1>7, <1>8, <1>9, <1>10, <1>11 DEF CallFine

LEMMA AbsCallSound ==
  ASSUME NEW T, Grown(T), NEW x \in T, x.kind = "call", NEW ev, NEW env, NEW context,
         AllTypes(env), NEW m \in 0 .. Levels, FunctionOf(x) = "abs",
         \A y \in Evaluated(x) : y \in T => Sound(InferTo(y, env, m), EvalTo(y, ev, m), context)
  PROVE  Sound(InferNode(x, KidTypes(x, env, m), env),
               EvalNode(x, KidValues(x, ev, m), ev), context)
<1>1. PICK t : t = InferNode(x, KidTypes(x, env, m), env)
  OBVIOUS
<1>2. PICK args : args = Tail(KidTypes(x, env, m))
  OBVIOUS
<1>3. SUFFICES ASSUME t.ok
               PROVE  Sound(t, EvalNode(x, KidValues(x, ev, m), ev), context)
  BY <1>1 DEF Sound
<1>4. /\ x.kw = <<>> /\ t = InferCall("abs", args) /\ Len(x.kids) - 1 \in Arity("abs")
      /\ NameOf(DottedName(x.kids[1])) = "abs"
  <2>1. InferNode(x, KidTypes(x, env, m), env).ok
    BY <1>1, <1>3
  <2>2. CallFine(x, KidTypes(x, env, m), env)
    BY <2>1, CallParts
  <2> QED BY <1>1, <1>2, <2>2 DEF CallFine
<1>5. /\ Len(x.kids) = 2 /\ x.kids[2] \in T /\ Len(args) = 1 /\ args[1] = InferTo(x.kids[2], env, m)
  <2>1. Len(x.kids) - 1 = 1
    BY <1>4 DEF Arity
  <2>2. Len(x.kids) \in Nat /\ Len(args) = Len(x.kids) - 1
    BY <1>2, ArgTypes
  <2>3. 1 \in 1 .. Len(x.kids) - 1 /\ 1 + 1 = 2
    <3>1. 1 \in 1 .. 1 /\ 1 + 1 = 2
      OBVIOUS
    <3> QED BY <2>1, <3>1, Zenon
  <2>4. \A i \in 1 .. Len(x.kids) - 1 : args[i] = InferTo(x.kids[i + 1], env, m) /\ x.kids[i + 1] \in T
    BY <1>2, ArgTypes, SMTT(30)
  <2>5. args[1] = InferTo(x.kids[1 + 1], env, m) /\ x.kids[1 + 1] \in T
    BY <2>3, <2>4
  <2> QED BY <2>1, <2>2, <2>3, <2>5
<1>6. PICK y : y = x.kids[2]
  OBVIOUS
<1>7. PICK o : o = InferTo(y, env, m)
  OBVIOUS
<1>8. PICK v : v = EvalTo(y, ev, m)
  OBVIOUS
<1>9. y \in Evaluated(x)
  BY <1>6 DEF Evaluated
<1>10. Sound(o, v, context)
  BY <1>5, <1>6, <1>7, <1>8, <1>9
<1>11. o \in Judged
  BY <1>5, <1>6, <1>7, TreeTyped DEF AllTypes
<1>12. args = <<o>>
  <2>1. args \in Seq({args[i] : i \in 1 .. Len(args)})
    <3>1. args = [i \in 1 .. Len(args) |-> args[i]]
      BY <1>2, <1>5, ArgTypes DEF KidTypes
    <3> QED BY <1>5, <3>1
  <2> QED BY <1>5, <1>6, <1>7, <2>1
<1>13. KidValues(x, ev, m)[Len(x.kids)] = v
  <2>1. Len(x.kids) \in 1 .. Len(x.kids)
    BY <1>5
  <2> QED BY <1>5, <1>6, <1>8, <2>1 DEF KidValues
<1>14. EvalNode(x, KidValues(x, ev, m), ev) = EvalAbs(v, AsDecimal(v))
  <2>1. EvalNode(x, KidValues(x, ev, m), ev) = EvalNamedCall("abs", x, v, ev)
    BY <1>4, <1>13 DEF EvalNode, EvalCall
  <2>2. Len(x.kids) - 1 = 1 /\ "abs" \in FunctionNames
    BY <1>5 DEF FunctionNames
  <2> QED BY <1>4, <2>1, <2>2 DEF EvalNamedCall
<1> QED BY <1>4, <1>10, <1>11, <1>12, <1>14, AbsSound

-----------------------------------------------------------------------------
LEMMA WindowCallType ==
  ASSUME NEW fn \in FunctionNames \ {"abs"}, NEW args, Len(args) \in Nat,
         Len(args) \in Arity(fn), InferCall(fn, args).ok,
         Len(args) = 2 => (args[1].ok => args[1].type \in Numeric)
  PROVE  /\ InferCall(fn, args).type \in Numeric
         /\ Len(args) \in {0, 1, 2}
         /\ Len(args) # 0 => args[Len(args)].ok
<1>1. PICK n \in Nat : n = Len(args)
  OBVIOUS
<1>2. n \in Arity(fn) /\ n \in {0, 1, 2} /\ (n = 2 => (args[1].ok => args[1].type \in Numeric))
  BY <1>1 DEF Arity, FunctionNames
<1>3. "Price" \in Numeric /\ "Percent" \in Numeric
  BY DEF Numeric
<1>4. CASE fn \in {"highest", "lowest", "ema"}
  <2>1. n = 2
    BY <1>2, <1>4 DEF Arity
  <2>2. InferCall(fn, args) = Typed(Widened(args[1].type), args[1].ok /\ IsLength(args[2]))
    BY <1>1, <1>2, <1>4 DEF InferCall
  <2>3. args[1].ok /\ IsLength(args[2]) /\ InferCall(fn, args).type = Widened(args[1].type)
    BY <2>2, TypedParts
  <2> QED BY <1>1, <1>2, <2>1, <2>3, WidenedNumeric DEF IsLength
<1>5. CASE fn = "rsi"
  <2>1. n = 2
    BY <1>2, <1>5 DEF Arity
  <2>2. InferCall(fn, args) = Typed("Percent", args[1].ok /\ IsLength(args[2]))
    BY <1>1, <1>2, <1>5 DEF InferCall
  <2>3. IsLength(args[2]) /\ InferCall(fn, args).type = "Percent"
    BY <2>2, TypedParts
  <2> QED BY <1>1, <1>3, <2>1, <2>3 DEF IsLength
<1>6. CASE fn \in {"prior_high", "prior_low", "atr", "vwap"}
  <2>1. n \in {0, 1}
    BY <1>2, <1>6 DEF Arity
  <2>2. InferCall(fn, args) = Typed("Price", n = 1 => IsLength(args[1]))
    BY <1>1, <1>2, <1>6 DEF InferCall
  <2>3. (n = 1 => IsLength(args[1])) /\ InferCall(fn, args).type = "Price"
    BY <2>2, TypedParts
  <2> QED BY <1>1, <1>3, <2>1, <2>3 DEF IsLength
<1> QED BY <1>4, <1>5, <1>6 DEF FunctionNames

LEMMA WindowCallSound ==
  ASSUME NEW T, Grown(T), NEW x \in T, x.kind = "call", FunctionOf(x) # "abs",
         NEW ev, IsUnderlyingEvent(ev), NEW m \in 0 .. Levels, GuardedNode(x, "underlying"),
         NEW env, env = EnvTypes("underlying")
  PROVE  Sound(InferNode(x, KidTypes(x, env, m), env),
               EvalNode(x, KidValues(x, ev, m), ev), "underlying")
<1>1. PICK t : t = InferNode(x, KidTypes(x, env, m), env)
  OBVIOUS
<1>2. PICK args : args = Tail(KidTypes(x, env, m))
  OBVIOUS
<1>3. PICK fn : fn = FunctionOf(x)
  OBVIOUS
<1>4. SUFFICES ASSUME t.ok
               PROVE  Sound(t, EvalNode(x, KidValues(x, ev, m), ev), "underlying")
  BY <1>1 DEF Sound
<1>5. CallFine(x, KidTypes(x, env, m), env)
  BY <1>1, <1>4, CallParts
<1>6. /\ fn \in FunctionNames \ {"abs"} /\ x.kw = <<>> /\ t = InferCall(fn, args)
      /\ Len(x.kids) - 1 \in Arity(fn) /\ NameOf(DottedName(x.kids[1])) = fn
  BY <1>1, <1>2, <1>3, <1>5 DEF CallFine
<1>7. /\ Len(x.kids) \in Nat /\ Len(x.kids) > 0 /\ Len(args) = Len(x.kids) - 1
      /\ Len(Tail(x.kids)) = Len(x.kids) - 1
      /\ \A i \in 1 .. Len(x.kids) - 1 :
           /\ args[i] = InferTo(x.kids[i + 1], env, m)
           /\ Tail(x.kids)[i] = x.kids[i + 1] /\ x.kids[i + 1] \in T
  BY <1>2, ArgTypes
<1>8. PICK n \in Nat : n = Len(x.kids) - 1 /\ Len(x.kids) = n + 1
  BY <1>7
<1>9. /\ Len(args) = n /\ Len(Tail(x.kids)) = n /\ n \in Arity(fn)
      /\ \A i \in 1 .. n :
           /\ args[i] = InferTo(x.kids[i + 1], env, m)
           /\ Tail(x.kids)[i] = x.kids[i + 1] /\ x.kids[i + 1] \in T
  BY <1>6, <1>7, <1>8
<1>10. /\ n = 2 => DottedName(Tail(x.kids)[1]) \in Series
       /\ Tail(x.kids) # <<>> => IsPositive(Tail(x.kids)[n])
  BY <1>9 DEF GuardedNode
<1>11. n = 2 => /\ DottedName(x.kids[2]) \in Series /\ x.kids[2] \in T
                /\ args[1] = InferTo(x.kids[2], env, m)
  <2>1. n = 2 => 1 \in 1 .. n /\ 1 + 1 = 2
    OBVIOUS
  <2> QED BY <1>9, <1>10, <2>1
<1>12. n = 2 => (args[1].ok => args[1].type \in Numeric)
  BY <1>11, SeriesType
<1>13. /\ t.type \in Numeric /\ n \in {0, 1, 2} /\ (n # 0 => args[n].ok)
  BY <1>4, <1>6, <1>9, <1>12, WindowCallType
<1>14. PICK last : last = x.kids[n + 1]
  OBVIOUS
<1>15. PICK value : value = KidValues(x, ev, m)[n + 1]
  OBVIOUS
<1>16. n # 0 => /\ AsDecimal(value) = value /\ value.sort # "raise"
                /\ Truncated(value) \in Nat /\ Truncated(value) > 0
  <2>1. SUFFICES ASSUME n # 0
                 PROVE  /\ AsDecimal(value) = value /\ value.sort # "raise"
                        /\ Truncated(value) \in Nat /\ Truncated(value) > 0
    OBVIOUS
  <2>2. n \in 1 .. n /\ n + 1 \in 1 .. n + 1
    BY <2>1
  <2>3. args[n] = InferTo(last, env, m) /\ Tail(x.kids)[n] = last /\ last \in T
    BY <1>9, <1>14, <2>2
  <2>4. Tail(x.kids) # <<>>
    <3>1. Len(<<>>) = 0
      OBVIOUS
    <3> QED BY <1>9, <2>1, <3>1
  <2>5. IsPositive(last) /\ InferTo(last, env, m).ok
    BY <1>10, <1>13, <2>1, <2>3, <2>4
  <2>6. value = EvalTo(last, ev, m)
    BY <1>8, <1>14, <1>15, <2>2 DEF KidValues
  <2> QED BY <2>3, <2>5, <2>6, LengthValue
<1>17. EvalNode(x, KidValues(x, ev, m), ev) = EvalNamedCall(fn, x, value, ev)
  BY <1>6, <1>8, <1>15 DEF EvalNode, EvalCall
<1>18. EvalNamedCall(fn, x, value, ev) \in Number
  <2>1. Len(x.kids) = 3 => DottedName(x.kids[2]) \in Series
    BY <1>8, <1>11
  <2>2. Len(x.kids) > 1 => /\ AsDecimal(value) = value /\ value.sort # "raise"
                           /\ Truncated(value) \in Nat /\ Truncated(value) > 0
    <3>1. Len(x.kids) > 1 => n # 0
      BY <1>8
    <3> QED BY <1>16, <3>1
  <2>3. x.kw = <<>> /\ Len(x.kids) - 1 \in Arity(fn) /\ Len(x.kids) \in Nat /\ Len(x.kids) > 0
    BY <1>6, <1>7
  <2> QED BY <1>6, <2>1, <2>2, <2>3, NamedCallSound
<1>19. t.type # "Unknown" /\ Fine(EvalNamedCall(fn, x, value, ev), t.type, "underlying")
  BY <1>13, <1>18 DEF Fine, Numeric, LiteralTypes
<1> QED BY <1>17, <1>19 DEF Sound

(* A type that is inferred with all well on the way is the one that is     *)
(* inferred with more levels left.                                         *)
LEMMA ArgsWell ==
  ASSUME NEW fn \in FunctionNames, NEW args, Len(args) \in Nat, InferCall(fn, args).ok
  PROVE  \A i \in 1 .. Len(args) : args[i].ok
<1>1. PICK n \in Nat : n = Len(args)
  OBVIOUS
<1>2. ~ Typed("Unknown", FALSE).ok
  BY DEF Typed
<1>3. n \in Arity(fn)
  BY <1>1, <1>2 DEF InferCall
<1>4. CASE fn = "abs"
  <2>1. n = 1
    BY <1>3, <1>4 DEF Arity
  <2>2. InferCall(fn, args) = IF args[1].type \in {"Unknown"} \union Numeric
                              THEN Typed(Widened(args[1].type), args[1].ok)
                              ELSE Typed("Unknown", FALSE)
    BY <1>1, <1>3, <1>4 DEF InferCall
  <2>3. InferCall(fn, args) = Typed(Widened(args[1].type), args[1].ok)
    BY <1>2, <2>2
  <2>4. args[1].ok
    BY <2>3, TypedParts
  <2> QED BY <1>1, <2>1, <2>4
<1>5. CASE fn \in {"highest", "lowest", "ema", "rsi"}
  <2>1. n = 2
    BY <1>3, <1>5 DEF Arity
  <2>2. \/ InferCall(fn, args) = Typed(Widened(args[1].type), args[1].ok /\ IsLength(args[2]))
        \/ InferCall(fn, args) = Typed("Percent", args[1].ok /\ IsLength(args[2]))
    BY <1>1, <1>3, <1>5 DEF InferCall
  <2>3. args[1].ok /\ IsLength(args[2])
    BY <2>2, TypedParts
  <2> QED BY <1>1, <2>1, <2>3 DEF IsLength
<1>6. CASE fn \in {"prior_high", "prior_low", "atr", "vwap"}
  <2>1. n \in {0, 1}
    BY <1>3, <1>6 DEF Arity
  <2>2. InferCall(fn, args) = Typed("Price", n = 1 => IsLength(args[1]))
    BY <1>1, <1>3, <1>6 DEF InferCall
  <2>3. n = 1 => IsLength(args[1])
    BY <2>2, TypedParts
  <2> QED BY <1>1, <2>1, <2>3 DEF IsLength
<1> QED BY <1>4, <1>5, <1>6 DEF FunctionNames

LEMMA TailParts ==
  ASSUME NEW S, NEW s \in Seq(S), NEW n \in Nat, n = Len(s), n > 0
  PROVE  Tail(s) = [i \in 1 .. n - 1 |-> s[i + 1]] /\ Len(Tail(s)) = n - 1
<1>1. s # <<>>
  OBVIOUS
<1>2. /\ Tail(s) \in Seq(S) /\ Len(Tail(s)) = n - 1
      /\ \A i \in 1 .. Len(Tail(s)) : Tail(s)[i] = s[i + 1]
  BY <1>1
<1>3. PICK u : u = Tail(s)
  OBVIOUS
<1>4. u \in Seq(S) /\ Len(u) = n - 1 /\ \A i \in 1 .. n - 1 : u[i] = s[i + 1]
  BY <1>2, <1>3
<1>5. u = [i \in 1 .. n - 1 |-> s[i + 1]]
  BY <1>4
<1> QED BY <1>2, <1>3, <1>5

(* Nothing is reported of a node only if nothing is of its kids, that are  *)
(* all typed but the base of an attribute and what a call calls.           *)
LEMMA KidsWell ==
  ASSUME NEW T, Grown(T), NEW x \in T, NEW env, NEW kid,
         kid = [i \in 1 .. Len(x.kids) |-> kid[i]], InferNode(x, kid, env).ok
  PROVE  /\ x.kind \in {"unary", "binary", "compare"} => \A i \in 1 .. Len(x.kids) : kid[i].ok
         /\ x.kind = "attribute" => DottedName(x) \in DOMAIN env
         /\ x.kind = "call" => /\ DottedName(x.kids[1]) \in {<<f>> : f \in FunctionNames}
                               /\ x.kw = <<>> /\ \A i \in 2 .. Len(x.kids) : kid[i].ok
<1>0. ~ Typed("Unknown", FALSE).ok
  BY DEF Typed
<1>1. HasShape(x.kind, x.tok, Len(x.kids)) /\ x.kids \in Seq(T)
  BY DEF Grown, IsNode
<1>2. CASE x.kind \in {"literal", "name"}
  BY <1>2
<1>3. CASE x.kind = "attribute"
  <2>1. InferNode(x, kid, env) = IF DottedName(x) \in DOMAIN env THEN Typed(env[DottedName(x)], TRUE)
                                 ELSE Typed("Unknown", FALSE)
    BY <1>3 DEF InferNode
  <2> QED BY <1>0, <1>3, <2>1
<1>4. CASE x.kind = "unary"
  <2>1. Len(x.kids) = 1
    BY <1>1, <1>4 DEF HasShape
  <2>2. InferNode(x, kid, env) = InferUnary(x.tok, kid[1])
    BY <1>4 DEF InferNode
  <2>3. InferUnary(x.tok, kid[1]).ok => kid[1].ok
    BY TypedParts DEF InferUnary
  <2> QED BY <1>4, <2>1, <2>2, <2>3
<1>5. CASE x.kind \in {"binary", "compare"}
  <2>1. Len(x.kids) = 2
    BY <1>1, <1>5 DEF HasShape
  <2>2. \/ InferNode(x, kid, env) = InferBinary(x.tok, kid[1], kid[2])
        \/ InferNode(x, kid, env) = InferCompare(kid[1], kid[2])
    BY <1>5 DEF InferNode
  <2>3. InferBinary(x.tok, kid[1], kid[2]).ok => kid[1].ok /\ kid[2].ok
    <3>1. PICK op, l, r : op = x.tok /\ l = kid[1] /\ r = kid[2]
      OBVIOUS
    <3>2. PICK t : t = InferArithmetic(op, l, r).type
      OBVIOUS
    <3>3. /\ InferArithmetic(op, l, r) = Typed(t, l.ok /\ r.ok /\ t # "Unknown")
          /\ InferBoolean(l, r) = Typed("Bool", l.ok /\ r.ok /\ l.type = "Bool" /\ r.type = "Bool")
      BY <3>2 DEF InferArithmetic, InferBoolean, Typed
    <3>4. InferBinary(op, l, r) \in
            {Typed("Unknown", l.ok /\ r.ok), InferBoolean(l, r), InferArithmetic(op, l, r)}
      BY DEF InferBinary
    <3>5. InferBinary(op, l, r).ok => l.ok /\ r.ok
      <4>1. CASE InferBinary(op, l, r) = Typed("Unknown", l.ok /\ r.ok)
        BY <4>1, TypedParts
      <4>2. CASE InferBinary(op, l, r) = InferBoolean(l, r)
        <5>1. InferBoolean(l, r).ok => l.ok /\ r.ok
          BY DEF InferBoolean, Typed
        <5> QED BY <4>2, <5>1
      <4>3. CASE InferBinary(op, l, r) = InferArithmetic(op, l, r)
        <5>1. InferArithmetic(op, l, r).ok => l.ok /\ r.ok
          BY TypedParts DEF InferArithmetic
        <5> QED BY <4>3, <5>1
      <4> QED BY <3>4, <4>1, <4>2, <4>3
    <3> QED BY <3>1, <3>5
  <2>4. InferCompare(kid[1], kid[2]).ok => kid[1].ok /\ kid[2].ok
    BY TypedParts DEF InferCompare
  <2>5. kid[1].ok /\ kid[2].ok
    BY <2>2, <2>3, <2>4
  <2> QED BY <1>5, <2>1, <2>5
<1>6. CASE x.kind = "call"
  <2>1. PICK n \in Nat : n = Len(x.kids) /\ n > 0
    BY <1>1, <1>6 DEF HasShape
  <2>2. PICK dn : dn = DottedName(x.kids[1])
    OBVIOUS
  <2>3. InferNode(x, kid, env) = IF dn \notin {<<f>> : f \in FunctionNames} \/ x.kw # <<>>
                                 THEN Typed("Unknown", FALSE) ELSE InferCall(dn[1], Tail(kid))
    BY <1>6, <2>2 DEF InferNode
  <2>4. dn \in {<<f>> : f \in FunctionNames} /\ x.kw = <<>>
    <3>1. InferNode(x, kid, env) # Typed("Unknown", FALSE)
      BY <1>0
    <3> QED BY <2>3, <3>1
  <2>5. InferNode(x, kid, env) = InferCall(dn[1], Tail(kid)) /\ dn[1] \in FunctionNames
    <3>1. InferNode(x, kid, env) = InferCall(dn[1], Tail(kid))
      BY <2>3, <2>4
    <3>2. dn[1] \in FunctionNames
      BY <2>4
    <3> QED BY <3>1, <3>2
  <2>6. kid \in Seq({kid[i] : i \in 1 .. n}) /\ Len(kid) = n
    BY <2>1
  <2>7. Tail(kid) = [i \in 1 .. n - 1 |-> kid[i + 1]] /\ Len(Tail(kid)) = n - 1
    BY <2>1, <2>6, TailParts
  <2>8. \A i \in 1 .. n - 1 : Tail(kid)[i].ok
    <3>1. InferCall(dn[1], Tail(kid)).ok
      BY <2>5
    <3>2. Len(Tail(kid)) \in Nat
      BY <2>1, <2>7
    <3>3. \A i \in 1 .. Len(Tail(kid)) : Tail(kid)[i].ok
      BY <2>5, <3>1, <3>2, ArgsWell
    <3> QED BY <2>7, <3>3
  <2>9. \A i \in 1 .. n - 1 : kid[i + 1].ok
    BY <2>7, <2>8
  <2>10. \A i \in 2 .. n : kid[i].ok
    <3>1. \A i \in 2 .. n : i - 1 \in 1 .. n - 1 /\ (i - 1) + 1 = i
      OBVIOUS
    <3> QED BY <2>9, <3>1
  <2> QED BY <1>6, <2>1, <2>2, <2>4, <2>10
<1> QED BY <1>1, <1>2, <1>3, <1>4, <1>5, <1>6 DEF HasShape

LEMMA NodeSteady ==
  ASSUME NEW T, Grown(T), NEW x \in T, NEW env, NEW kid, NEW more,
         kid = [i \in 1 .. Len(x.kids) |-> kid[i]], more = [i \in 1 .. Len(x.kids) |-> more[i]],
         \A i \in 1 .. Len(x.kids) : kid[i].ok => more[i] = kid[i],
         InferNode(x, kid, env).ok
  PROVE  InferNode(x, more, env) = InferNode(x, kid, env)
<1>1. HasShape(x.kind, x.tok, Len(x.kids)) /\ x.kids \in Seq(T)
  BY DEF Grown, IsNode
<1>2. CASE x.kind \in {"literal", "name", "attribute"}
  BY <1>2 DEF InferNode
<1>3. CASE x.kind \in {"unary", "binary", "compare"}
  <2>1. \A i \in 1 .. Len(x.kids) : more[i] = kid[i]
    BY <1>3, KidsWell
  <2>2. more = kid
    BY <2>1
  <2> QED BY <2>2
<1>4. CASE x.kind = "call"
  <2>1. PICK n \in Nat : n = Len(x.kids) /\ n > 0
    BY <1>1, <1>4 DEF HasShape
  <2>2. \A k : InferNode(x, k, env) =
               IF DottedName(x.kids[1]) \notin {<<f>> : f \in FunctionNames} \/ x.kw # <<>>
               THEN Typed("Unknown", FALSE) ELSE InferCall(DottedName(x.kids[1])[1], Tail(k))
    BY <1>4 DEF InferNode
  <2>3. \A i \in 1 .. n - 1 : more[i + 1] = kid[i + 1]
    <3>0. \A i \in 2 .. n : kid[i].ok
      BY <1>4, <2>1, KidsWell
    <3>1. ASSUME NEW i \in 2 .. n
          PROVE  more[i] = kid[i]
      <4>1. kid[i].ok
        BY <3>0, Zenon
      <4>2. i \in 1 .. n
        OBVIOUS
      <4>3. i \in 1 .. Len(x.kids)
        BY <2>1, <4>2, Zenon
      <4> QED BY <4>1, <4>3, Zenon
    <3>2. \A i \in 1 .. n - 1 : i + 1 \in 2 .. n
      OBVIOUS
    <3> QED BY <3>1, <3>2
  <2>4. /\ kid \in Seq({kid[i] : i \in 1 .. n}) /\ Len(kid) = n
        /\ more \in Seq({more[i] : i \in 1 .. n}) /\ Len(more) = n
    BY <2>1
  <2>5. /\ Tail(kid) = [i \in 1 .. n - 1 |-> kid[i + 1]]
        /\ Tail(more) = [i \in 1 .. n - 1 |-> more[i + 1]]
    BY <2>1, <2>4, TailParts
  <2>6. Tail(more) = Tail(kid)
    BY <2>3, <2>5
  <2> QED BY <2>2, <2>6
<1> QED BY <1>1, <1>2, <1>3, <1>4 DEF HasShape

Steady(x, env, n) ==
  InferTo(x, env, n).ok => InferTo(x, env, n + 1) = InferTo(x, env, n)

LEMMA StepsSteady ==
  ASSUME NEW T, Grown(T), NEW env, NEW n \in Nat, n < Levels
  PROVE  \A x \in T : Steady(x, env, n)
<1> DEFINE S == {k \in Nat : k < Levels => \A x \in T : Steady(x, env, k)}
<1>1. 0 \in S
  <2>1. ~ Typed("Unknown", FALSE).ok
    BY DEF Typed
  <2> QED BY <2>1, InferGoesDown DEF Steady
<1>2. ASSUME NEW k \in Nat, k \in S
      PROVE  k + 1 \in S
  <2>1. ASSUME k + 1 < Levels, NEW x \in T, InferTo(x, env, k + 1).ok
        PROVE  InferTo(x, env, (k + 1) + 1) = InferTo(x, env, k + 1)
    <3>1. k + 1 \in 1 .. Levels /\ (k + 1) - 1 = k /\ k < Levels
          /\ (k + 1) + 1 \in 1 .. Levels /\ ((k + 1) + 1) - 1 = k + 1
      BY <2>1, LevelsAssumption
    <3>2. InferTo(x, env, k + 1) = InferNode(x, KidTypes(x, env, k), env)
          /\ InferTo(x, env, (k + 1) + 1) = InferNode(x, KidTypes(x, env, k + 1), env)
      BY <3>1, InferGoesDown
    <3>3. x.kids \in Seq(T)
      BY DEF Grown, IsNode
    <3>4. PICK kid : kid = KidTypes(x, env, k)
      OBVIOUS
    <3>5. PICK more : more = KidTypes(x, env, k + 1)
      OBVIOUS
    <3>6. /\ kid = [i \in 1 .. Len(x.kids) |-> kid[i]]
          /\ more = [i \in 1 .. Len(x.kids) |-> more[i]]
      BY <3>4, <3>5 DEF KidTypes
    <3>7. ASSUME NEW i \in 1 .. Len(x.kids), kid[i].ok
          PROVE  more[i] = kid[i]
      <4>1. x.kids[i] \in T
        BY <3>3
      <4>2. Steady(x.kids[i], env, k)
        BY <1>2, <3>1, <4>1
      <4>3. kid[i] = InferTo(x.kids[i], env, k) /\ more[i] = InferTo(x.kids[i], env, k + 1)
        BY <3>4, <3>5 DEF KidTypes
      <4> QED BY <3>7, <4>2, <4>3 DEF Steady
    <3>8. InferNode(x, kid, env).ok
      BY <2>1, <3>2, <3>4
    <3>9. InferNode(x, more, env) = InferNode(x, kid, env)
      BY <3>6, <3>7, <3>8, NodeSteady
    <3> QED BY <3>2, <3>4, <3>5, <3>9
  <2> QED BY <2>1 DEF Steady
<1>3. \A k \in Nat : k \in S => k + 1 \in S
  BY <1>2
<1> HIDE DEF S
<1>4. n \in S
  BY <1>1, <1>3, Successors
<1> QED BY <1>4 DEF S

LEMMA TypeSteady ==
  ASSUME NEW T, Grown(T), NEW env, NEW x \in T, NEW n \in 0 .. Levels,
         InferTo(x, env, n).ok
  PROVE  Infer(x, env) = InferTo(x, env, n)
<1> DEFINE S == {k \in Nat : n + k <= Levels => InferTo(x, env, n + k) = InferTo(x, env, n)}
<1>1. n \in Nat
  BY LevelsAssumption
<1>2. 0 \in S
  <2>1. n + 0 = n
    BY <1>1
  <2> QED BY <2>1
<1>3. ASSUME NEW k \in Nat, k \in S
      PROVE  k + 1 \in S
  <2>1. ASSUME n + (k + 1) <= Levels
        PROVE  InferTo(x, env, n + (k + 1)) = InferTo(x, env, n)
    <3>1. n + k \in Nat /\ n + k < Levels /\ n + k <= Levels /\ n + (k + 1) = (n + k) + 1
      BY <1>1, <2>1, LevelsAssumption
    <3>2. InferTo(x, env, n + k) = InferTo(x, env, n)
      BY <1>3, <3>1
    <3>3. Steady(x, env, n + k)
      BY <3>1, StepsSteady
    <3> QED BY <3>1, <3>2, <3>3 DEF Steady
  <2> QED BY <2>1
<1>4. \A k \in Nat : k \in S => k + 1 \in S
  BY <1>3
<1> HIDE DEF S
<1>5. Levels - n \in Nat /\ n + (Levels - n) = Levels
  BY <1>1, LevelsAssumption
<1>6. Levels - n \in S
  BY <1>2, <1>4, <1>5, Successors
<1>7. InferTo(x, env, Levels) = InferTo(x, env, n)
  BY <1>5, <1>6, LevelsAssumption DEF S
<1> QED BY <1>7, InferGoesDown

-----------------------------------------------------------------------------
LEMMA LiteralSound ==
  ASSUME NEW tok \in Literal, NEW context
  PROVE  Sound(Typed(LiteralType[tok], TRUE), LiteralValue[tok], context)
<1>1. PICK t, v : t = LiteralType[tok] /\ v = LiteralValue[tok]
  OBVIOUS
<1>2. /\ t \in {"Bool", "String", "IntLiteral", "DecimalLiteral", "PercentLiteral"}
      /\ v \in ValueOfLiteral(t)
  BY <1>1, LiteralTypeAssumption, LiteralValueAssumption
<1>3. SUFFICES Fine(v, t, context)
  BY <1>1, <1>2, TypedParts DEF Sound
<1>4. CASE t = "Bool"
  BY <1>2, <1>4 DEF ValueOfLiteral, Fine, Bool
<1>5. CASE t = "String"
  BY <1>2, <1>5 DEF ValueOfLiteral, Fine
<1>6. CASE t = "IntLiteral"
  <2>1. v \in [sort: {"num"}, is: Nat \X {1}]
    BY <1>2, <1>6 DEF ValueOfLiteral
  <2>2. v \in Number
    BY <2>1 DEF Number
  <2> QED BY <1>6, <2>2 DEF Fine, Numeric, LiteralTypes
<1>7. CASE t \in {"DecimalLiteral", "PercentLiteral"}
  <2>1. v \in Number
    BY <1>2, <1>7 DEF ValueOfLiteral
  <2> QED BY <1>7, <2>1 DEF Fine, Numeric, LiteralTypes
<1> QED BY <1>2, <1>4, <1>5, <1>6, <1>7

(* No verb and no function is a field.                                     *)
LEMMA FieldsOnly ==
  ASSUME NEW context \in {"underlying", "option", "chain"}, NEW tok \in Verbs
  PROVE  <<tok>> \notin DOMAIN EnvTypes(context)
<1>1. tok \notin {"open", "high", "low", "close", "volume"}
  BY DEF Verbs
<1>2. \A base, attrs : <<tok>> \notin Within(base, attrs)
  BY DEF Within
<1>3. DOMAIN GuardTypes = {<<"session", "is_regular">>, <<"data", "is_fresh">>,
                           <<"underlying", "return_5m">>}
  BY DEF GuardTypes, Of, ++
<1>4. <<tok>> \notin DOMAIN GuardTypes
  BY <1>3
<1>5. \A f, g : <<tok>> \notin DOMAIN f /\ <<tok>> \notin DOMAIN g => <<tok>> \notin DOMAIN (f ++ g)
  BY DEF ++
<1>6. \A t, names : <<tok>> \notin names => <<tok>> \notin DOMAIN Of(t, names)
  BY DEF Of
<1>7. CASE context = "underlying"
  BY <1>1, <1>2, <1>4, <1>5, <1>6, <1>7 DEF EnvTypes
<1>8. CASE context = "option"
  BY <1>1, <1>2, <1>4, <1>5, <1>6, <1>8 DEF EnvTypes
<1>9. CASE context = "chain"
  BY <1>1, <1>2, <1>5, <1>6, <1>9 DEF EnvTypes
<1> QED BY <1>7, <1>8, <1>9

LEMMA FieldSound ==
  ASSUME NEW ev, IsEvent(ev), NEW env, env = EnvTypes(ev.context), NEW dn \in DOMAIN env
  PROVE  Sound(Typed(env[dn], TRUE), FieldValue(dn, RuntimeEnv(ev)), ev.context)
<1>1. FieldFine(dn, RuntimeEnv(ev), env, ev.context)
  BY FieldsFine
<1> QED BY <1>1, TypedParts DEF FieldFine, Sound

LEMMA NodeSound ==
  ASSUME NEW T, Grown(T), NEW x \in T, NEW ev, IsEvent(ev),
         NEW env, env = EnvTypes(ev.context), NEW m \in 0 .. Levels,
         GuardedNode(x, ev.context),
         \A y \in Evaluated(x) : y \in T => Sound(InferTo(y, env, m), EvalTo(y, ev, m), ev.context)
  PROVE  Sound(InferNode(x, KidTypes(x, env, m), env),
               EvalNode(x, KidValues(x, ev, m), ev), ev.context)
<1>1. HasShape(x.kind, x.tok, Len(x.kids)) /\ x.kids \in Seq(T)
  BY DEF Grown, IsNode
<1>2. PICK context : context = ev.context
  OBVIOUS
<1>3. context \in {"underlying", "option", "chain"} /\ AllTypes(env)
  BY <1>2, FieldsFine, FieldsTyped
<1>4. PICK kid : kid = KidTypes(x, env, m)
  OBVIOUS
<1>5. PICK val : val = KidValues(x, ev, m)
  OBVIOUS
<1>6. PICK dn : dn = DottedName(x)
  OBVIOUS
<1>7. \A y \in T : InferTo(y, env, m) \in Judged
  BY <1>3, TreeTyped DEF AllTypes
<1>8. ASSUME x.kind \in {"unary", "binary", "compare"}, NEW i \in 1 .. Len(x.kids)
      PROVE  /\ kid[i] = InferTo(x.kids[i], env, m) /\ kid[i] \in Judged /\ x.kids[i] \in T
             /\ Sound(kid[i], val[i], context)
  <2>1. x.kids[i] \in T /\ i \in DOMAIN x.kids
    BY <1>1
  <2>2. x.kids[i] \in Evaluated(x)
    BY <1>8, <2>1 DEF Evaluated
  <2>3. kid[i] = InferTo(x.kids[i], env, m) /\ val[i] = EvalTo(x.kids[i], ev, m)
    BY <1>4, <1>5 DEF KidTypes, KidValues
  <2> QED BY <1>2, <1>7, <2>1, <2>2, <2>3
<1>9. CASE x.kind = "literal"
  <2>1. x.tok \in Literal
    BY <1>1, <1>9 DEF HasShape
  <2>2. InferNode(x, kid, env) = Typed(LiteralType[x.tok], TRUE)
        /\ EvalNode(x, val, ev) = LiteralValue[x.tok]
    BY <1>9 DEF InferNode, EvalNode
  <2> QED BY <1>4, <1>5, <2>1, <2>2, LiteralSound
<1>10. CASE x.kind \in {"name", "attribute"}
  <2>1. x.kind = "name" => x.tok \notin FunctionNames
    BY <1>10 DEF GuardedNode
  <2>2. InferNode(x, kid, env) = IF dn \in DOMAIN env THEN Typed(env[dn], TRUE)
          ELSE Typed("Unknown", x.kind = "name" /\ x.tok \in FunctionNames)
    BY <1>6, <1>10 DEF InferNode
  <2>3. CASE dn \notin DOMAIN env
    <3>1. (x.kind = "name" /\ x.tok \in FunctionNames) = FALSE
      BY <2>1
    <3>2. InferNode(x, kid, env) = Typed("Unknown", FALSE)
      BY <2>2, <2>3, <3>1
    <3>3. ~ Typed("Unknown", FALSE).ok
      BY DEF Typed
    <3> QED BY <1>4, <3>2, <3>3 DEF Sound
  <2>4. CASE dn \in DOMAIN env
    <3>1. x.kind = "name" => dn = <<x.tok>>
      BY <1>6, NameItself
    <3>2. x.kind = "name" => x.tok \notin Verbs
      BY <1>2, <1>3, <2>4, <3>1, FieldsOnly
    <3>3. ~ (x.kind = "name" /\ x.tok \in FunctionNames \union Verbs)
      BY <2>1, <3>2
    <3>4. EvalNode(x, val, ev) = FieldValue(dn, RuntimeEnv(ev))
      BY <1>6, <1>10, <3>3 DEF EvalNode
    <3>5. InferNode(x, kid, env) = Typed(env[dn], TRUE)
      BY <2>2, <2>4
    <3> QED BY <1>4, <1>5, <2>4, <3>4, <3>5, FieldSound
  <2> QED BY <2>3, <2>4
<1>11. CASE x.kind = "unary"
  <2>1. Len(x.kids) = 1 /\ x.tok \in {"not", "+", "-"}
    BY <1>1, <1>11 DEF HasShape
  <2>2. kid[1] \in Judged /\ Sound(kid[1], val[1], context)
    BY <1>8, <1>11, <2>1
  <2>3. InferNode(x, kid, env) = InferUnary(x.tok, kid[1])
        /\ EvalNode(x, val, ev) = EvalUnary(x.tok, val[1])
    BY <1>11 DEF InferNode, EvalNode
  <2> QED BY <1>2, <1>4, <1>5, <2>1, <2>2, <2>3, UnarySound
<1>12. CASE x.kind = "binary"
  <2>1. Len(x.kids) = 2 /\ x.tok \notin Comparison
    BY <1>1, <1>12 DEF HasShape
  <2>2. x.tok \in {"or", "and", "+", "-", "*", "/"}
    BY <1>12, <2>1 DEF GuardedNode, Documented
  <2>3. /\ kid[1] \in Judged /\ Sound(kid[1], val[1], context)
        /\ kid[2] \in Judged /\ Sound(kid[2], val[2], context)
    BY <1>8, <1>12, <2>1
  <2>4. InferNode(x, kid, env) = InferBinary(x.tok, kid[1], kid[2])
    BY <1>12 DEF InferNode
  <2>5. CASE x.tok \in {"and", "or"}
    <3>1. EvalNode(x, val, ev) = EvalBoolean(x.tok = "or", val[1], val[2])
      BY <1>12, <2>5 DEF EvalNode
    <3>2. Sound(InferBinary(x.tok, kid[1], kid[2]),
                EvalBoolean(x.tok = "or", val[1], val[2]), context)
      BY <2>3, <2>5, BooleanSound
    <3> QED BY <1>2, <1>4, <1>5, <2>4, <3>1, <3>2
  <2>6. CASE x.tok \in {"+", "-", "*", "/"}
    <3>1. EvalNode(x, val, ev) = EvalArithmetic(x.tok, val[1], val[2])
      BY <1>12, <2>6 DEF EvalNode
    <3>2. Sound(InferBinary(x.tok, kid[1], kid[2]),
                EvalArithmetic(x.tok, val[1], val[2]), context)
      BY <2>3, <2>6, ArithmeticSound
    <3> QED BY <1>2, <1>4, <1>5, <2>4, <3>1, <3>2
  <2> QED BY <2>2, <2>5, <2>6
<1>13. CASE x.kind = "compare"
  <2>1. Len(x.kids) = 2 /\ x.tok \in Comparison
    BY <1>1, <1>13 DEF HasShape
  <2>2. /\ kid[1] \in Judged /\ Sound(kid[1], val[1], context)
        /\ kid[2] \in Judged /\ Sound(kid[2], val[2], context)
    BY <1>8, <1>13, <2>1
  <2>3. ASSUME NEW i \in 1 .. Len(x.kids), kid[i].ok
        PROVE  kid[i].type \in Numeric
    <3>1. kid[i] = InferTo(x.kids[i], env, m) /\ x.kids[i] \in T
      BY <1>8, <1>13
    <3>2. Infer(x.kids[i], env) = kid[i]
      BY <2>3, <3>1, TypeSteady
    <3>3. i \in DOMAIN x.kids
      BY <1>1
    <3>4. Infer(x.kids[i], EnvTypes(ev.context)).type \in Numeric
      BY <1>13, <3>3 DEF GuardedNode
    <3> QED BY <3>2, <3>4
  <2>4. kid[1].ok /\ kid[2].ok => kid[1].type \in Numeric /\ kid[2].type \in Numeric
    BY <2>1, <2>3
  <2>5. InferNode(x, kid, env) = InferCompare(kid[1], kid[2])
        /\ EvalNode(x, val, ev) = EvalCompare(x.tok, val[1], val[2])
    BY <1>13 DEF InferNode, EvalNode
  <2>6. Sound(InferCompare(kid[1], kid[2]), EvalCompare(x.tok, val[1], val[2]), context)
    BY <2>1, <2>2, <2>4, CompareSound
  <2> QED BY <1>2, <1>4, <1>5, <2>5, <2>6
<1>14. CASE x.kind = "call"
  <2>1. CASE FunctionOf(x) = "abs"
    BY <1>3, <1>14, <2>1, AbsCallSound
  <2>2. CASE FunctionOf(x) # "abs"
    <3>1. ev.context = "underlying"
      BY <1>14, <2>2 DEF GuardedNode
    <3>2. IsUnderlyingEvent(ev)
      BY <3>1 DEF IsEvent, IsOptionEvent, IsChainEvent
    <3> QED BY <1>14, <2>2, <3>1, <3>2, WindowCallSound
  <2> QED BY <2>1, <2>2
<1> QED BY <1>1, <1>9, <1>10, <1>11, <1>12, <1>13, <1>14 DEF HasShape

-----------------------------------------------------------------------------
(* The trees below a tree whose guards count, by how deep they are.        *)
Deeper(r, node) ==
  /\ r[0] = {node}
  /\ \A k \in 1 .. Levels : r[k] = r[k - 1] \union UNION {Evaluated(x) : x \in r[k - 1]}
  /\ Reached(node, Evaluated) = r[Levels]

LEMMA ReachedDeeper ==
  ASSUME NEW node
  PROVE  \E r : Deeper(r, node)
<1> DEFINE base == {node}
           Reach(x) == x \union UNION {Evaluated(y) : y \in x}
           Level(t, k) == IF k = 0 THEN {node}
                          ELSE t[k - 1] \union UNION {Evaluated(x) : x \in t[k - 1]}
<1>1. PICK f : Recurs(f, "reached", 0, base, Levels)
  BY Recursion, LevelsAssumption
<1>2. ASSUME NEW t, NEW k \in 0 .. Levels
      PROVE  Level(t, k) = IF k = 0 THEN base ELSE Turn("reached", 0, k, t[k - 1])
  BY DEF Turn
<1> HIDE DEF Level, base
<1>3. f = [k \in 0 .. Levels |-> Level(f, k)]
  BY <1>1, <1>2 DEF Recurs
<1>4. PICK r : r = CHOOSE t : t = [k \in 0 .. Levels |-> Level(t, k)]
  OBVIOUS
<1>5. r = [k \in 0 .. Levels |-> Level(r, k)]
  BY <1>3, <1>4, Zenon
<1>6. Reached(node, Evaluated) = r[Levels]
  BY <1>4, Zenon DEF Reached, Level
<1>7. \A k \in 0 .. Levels : r[k] = Level(r, k)
  BY <1>5, Zenon
<1>8. r[0] = {node}
  <2>1. 0 \in 0 .. Levels
    BY LevelsAssumption
  <2> QED BY <1>7, <2>1 DEF Level
<1>9. ASSUME NEW k \in 1 .. Levels
      PROVE  r[k] = r[k - 1] \union UNION {Evaluated(x) : x \in r[k - 1]}
  <2>1. k \in 0 .. Levels /\ k # 0
    BY LevelsAssumption
  <2> QED BY <1>7, <2>1, Zenon DEF Level
<1> QED BY <1>6, <1>8, <1>9, Zenon DEF Deeper

LEMMA NearerReached ==
  ASSUME NEW r, NEW node, Deeper(r, node), NEW k \in 0 .. Levels
  PROVE  r[k] \subseteq Reached(node, Evaluated)
<1> DEFINE S == {j \in Nat : k + j <= Levels => r[k] \subseteq r[k + j]}
<1>0. k \in Nat /\ Levels \in Nat
  BY LevelsAssumption
<1>1. 0 \in S
  <2>1. k + 0 = k
    BY <1>0
  <2> QED BY <2>1
<1>2. ASSUME NEW j \in Nat, j \in S
      PROVE  j + 1 \in S
  <2>1. ASSUME k + (j + 1) <= Levels
        PROVE  r[k] \subseteq r[k + (j + 1)]
    <3>1. k + (j + 1) \in 1 .. Levels /\ (k + (j + 1)) - 1 = k + j /\ k + j <= Levels
      BY <1>0, <2>1
    <3>2. r[k + j] \subseteq r[k + (j + 1)]
      BY <3>1 DEF Deeper
    <3>3. r[k] \subseteq r[k + j]
      BY <1>2, <3>1
    <3> QED BY <3>2, <3>3
  <2> QED BY <2>1
<1>3. \A j \in Nat : j \in S => j + 1 \in S
  BY <1>2
<1> HIDE DEF S
<1>4. Levels - k \in S /\ k + (Levels - k) = Levels
  <2>1. Levels - k \in Nat /\ k + (Levels - k) = Levels
    BY <1>0
  <2> QED BY <1>1, <1>3, <2>1, Successors
<1>5. r[k] \subseteq r[Levels]
  BY <1>0, <1>4 DEF S
<1> QED BY <1>5 DEF Deeper

(* Type soundness.  What a guarded tree in which all is well comes out as, *)
(* at any event of its context, is what its type says.                     *)
LEMMA TreeSound ==
  ASSUME NEW T, Grown(T), NEW node \in T, NEW ev, IsEvent(ev), Guarded(node, ev.context)
  PROVE  Sound(Infer(node, EnvTypes(ev.context)), Eval(node, ev), ev.context)
<1>1. PICK env : env = EnvTypes(ev.context)
  OBVIOUS
<1>2. PICK context : context = ev.context
  OBVIOUS
<1>3. PICK r : Deeper(r, node)
  BY ReachedDeeper
<1> DEFINE SoundTo(y, n) == Sound(InferTo(y, env, n), EvalTo(y, ev, n), context)
           S == {n \in Nat : n <= Levels =>
                   \A y \in r[Levels - n] : y \in T => SoundTo(y, n)}
<1>4. 0 \in S
  <2>1. ~ Typed("Unknown", FALSE).ok
    BY DEF Typed
  <2>2. \A y \in T : SoundTo(y, 0)
    BY <2>1, InferGoesDown DEF Sound
  <2> HIDE DEF SoundTo
  <2> QED BY <2>2
<1>5. ASSUME NEW n \in Nat, n \in S
      PROVE  n + 1 \in S
  <2>1. ASSUME n + 1 <= Levels, NEW y \in r[Levels - (n + 1)], y \in T
        PROVE  SoundTo(y, n + 1)
    <3>1. /\ n + 1 \in 1 .. Levels /\ (n + 1) - 1 = n /\ n <= Levels /\ n \in 0 .. Levels
          /\ Levels - (n + 1) \in 0 .. Levels /\ Levels - n \in 1 .. Levels
          /\ (Levels - n) - 1 = Levels - (n + 1)
      BY <2>1, LevelsAssumption
    <3>2. GuardedNode(y, context)
      <4>1. y \in Reached(node, Evaluated)
        BY <1>3, <2>1, <3>1, NearerReached
      <4> QED BY <1>2, <4>1 DEF Guarded
    <3>3. Evaluated(y) \subseteq r[Levels - n]
      BY <1>3, <2>1, <3>1 DEF Deeper
    <3>4. \A z \in Evaluated(y) : z \in T => Sound(InferTo(z, env, n), EvalTo(z, ev, n), context)
      BY <1>5, <3>1, <3>3
    <3>5. Sound(InferNode(y, KidTypes(y, env, n), env),
                EvalNode(y, KidValues(y, ev, n), ev), context)
      BY <1>1, <1>2, <2>1, <3>1, <3>2, <3>4, NodeSound
    <3>6. /\ InferTo(y, env, n + 1) = InferNode(y, KidTypes(y, env, n), env)
          /\ EvalTo(y, ev, n + 1) = EvalNode(y, KidValues(y, ev, n), ev)
      BY <2>1, <3>1, InferGoesDown, EvalGoesDown
    <3> QED BY <3>5, <3>6
  <2> HIDE DEF SoundTo
  <2> QED BY <2>1
<1>6. \A n \in Nat : n \in S => n + 1 \in S
  BY <1>5
<1> HIDE DEF S
<1>7. Levels \in S
  BY <1>4, <1>6, Successors, LevelsAssumption
<1>8. SoundTo(node, Levels)
  <2>1. Levels - Levels = 0 /\ node \in r[0]
    BY <1>3, LevelsAssumption DEF Deeper
  <2> HIDE DEF SoundTo
  <2> QED BY <1>7, <2>1, LevelsAssumption DEF S
<1> QED BY <1>1, <1>2, <1>8, InferGoesDown, EvalGoesDown

(* Nothing is not guarded.                                                 *)
LEMMA NothingUnguarded ==
  ASSUME NEW context
  PROVE  ~ Guarded(NoNode, context)
<1>1. PICK r : Deeper(r, NoNode)
  BY ReachedDeeper
<1>2. 0 \in 0 .. Levels /\ NoNode \in r[0]
  BY <1>1, LevelsAssumption DEF Deeper
<1>3. NoNode \in Reached(NoNode, Evaluated)
  BY <1>1, <1>2, NearerReached
<1>4. ~ GuardedNode(NoNode, context)
  BY DEF GuardedNode, NoNode, Node
<1> QED BY <1>3, <1>4 DEF Guarded

LEMMA GuardedSound ==
  ASSUME NEW x, x = NoNode \/ IsTree(x), NEW ev, IsEvent(ev), Guarded(x, ev.context)
  PROVE  Sound(Infer(x, EnvTypes(ev.context)), Eval(x, ev), ev.context)
<1>1. IsTree(x)
  BY NothingUnguarded
<1>2. PICK T : x \in T /\ Grown(T)
  BY <1>1 DEF IsTree
<1> QED BY <1>2, TreeSound

(* An accepted condition that is guarded is true, false or Unknown unless  *)
(* a field is missing or something is divided by zero.                     *)
LEMMA ConditionRuns ==
  ASSUME NEW x, x = NoNode \/ IsTree(x), NEW ev, IsEvent(ev), Guarded(x, ev.context),
         ConditionTypeOK(x, ev.context)
  PROVE  RaisesOnly({"missing", "DivisionByZero"}, Predicate(x, ev))
<1>1. PICK t : t = Infer(x, EnvTypes(ev.context))
  OBVIOUS
<1>2. PICK v : v = Eval(x, ev)
  OBVIOUS
<1>3. t.ok /\ t.type \in {"Bool", "Unknown"}
  BY <1>1 DEF ConditionTypeOK
<1>4. t.type # "Unknown" /\ Fine(v, t.type, ev.context)
  BY <1>1, <1>2, <1>3, GuardedSound DEF Sound
<1>5. Fine(v, "Bool", ev.context)
  BY <1>3, <1>4
<1>6. \/ v.sort = "raise" /\ v.is \in {"missing", "DivisionByZero"}
      \/ v.sort = "unknown" /\ ev.context = "chain"
      \/ v.sort = "bool"
  BY <1>5 DEF Fine, Numeric, LiteralTypes
<1>7. AsPredicate(v, ev.context) = v
  BY <1>6 DEF AsPredicate
<1> QED BY <1>2, <1>6, <1>7 DEF Predicate, RaisesOnly

-----------------------------------------------------------------------------
LEMMA LeastIn ==
  ASSUME NEW S \in SUBSET Nat, S # {}
  PROVE  Least(S) \in S /\ \A j \in S : Least(S) <= j
<1> DEFINE T == {n \in Nat : \A i \in 0 .. n : i \notin S}
<1>1. SUFFICES ASSUME \A i \in S : \E j \in S : ~ (i <= j)
               PROVE  FALSE
  BY DEF Least
<1>2. 0 \in T
  <2>1. 0 \notin S
    BY <1>1
  <2> QED BY <2>1
<1>3. ASSUME NEW n \in Nat, n \in T
      PROVE  n + 1 \in T
  <2>1. n + 1 \notin S
    BY <1>1, <1>3
  <2> QED BY <1>3, <2>1
<1>4. \A n \in Nat : n \in T => n + 1 \in T
  BY <1>3
<1> HIDE DEF T
<1>5. \A n \in Nat : n \in T
  BY <1>2, <1>4, Successors
<1>6. \A n \in Nat : n \notin S
  BY <1>5 DEF T
<1> QED BY <1>6

(* The parsing of a verb call: every argument has a tree, or nothing.      *)
LEMMA CalledParts ==
  ASSUME NEW verb, NEW args, NEW at \in Nat, NEW errs, Supplied(args)
  PROVE  IsCalled(Called(verb, args, at, errs))
BY DEF IsCalled, Called

LEMMA CalledWith ==
  ASSUME NEW c, IsCalled(c), NEW x
  PROVE  /\ [c EXCEPT !.at = x] = Called(c.verb, c.args, x, c.errs)
         /\ [c EXCEPT !.errs = x] = Called(c.verb, c.args, c.at, x)
<1>1. c = [verb |-> c.verb, args |-> c.args, at |-> c.at, errs |-> c.errs]
  BY DEF IsCalled, Called
<1> QED BY <1>1 DEF Called

LEMMA CalledOn ==
  ASSUME NEW c, IsCalled(c)
  PROVE  IsCalled([c EXCEPT !.at = @ + 1])
<1>1. c.at + 1 \in Nat /\ Supplied(c.args)
  BY DEF IsCalled
<1>2. [c EXCEPT !.at = @ + 1] = Called(c.verb, c.args, c.at + 1, c.errs)
  BY CalledWith
<1> QED BY <1>1, <1>2, CalledParts

LEMMA ExpectedCalled ==
  ASSUME NEW s, NEW tok, NEW c, IsCalled(c)
  PROVE  IsCalled(Expected(s, tok, c))
<1>1. c.at \in Nat /\ Supplied(c.args)
  BY DEF IsCalled
<1>2. PICK d : d = Called(c.verb, c.args, c.at, c.errs \union {c.at})
  OBVIOUS
<1>3. PICK e : e = [c EXCEPT !.at = @ + 1]
  OBVIOUS
<1>4. Expected(s, tok, c) \in {d, e}
  BY <1>2, <1>3, CalledWith DEF Expected
<1>5. IsCalled(d) /\ IsCalled(e)
  BY <1>1, <1>2, <1>3, CalledParts, CalledOn
<1> QED BY <1>4, <1>5

LEMMA StopAtNat ==
  ASSUME NEW s, Len(s) \in Nat, NEW i \in Nat
  PROVE  StopAt(s, i) \in Nat
<1> DEFINE S == {j \in i .. Len(s) : s[j] \in {",", ")"}} \union {Len(s) + 1}
<1>1. S \in SUBSET Nat /\ S # {}
  <2>1. PICK n \in Nat : n = Len(s)
    OBVIOUS
  <2>2. n + 1 \in S /\ n + 1 \in Nat /\ i .. n \subseteq Nat
    BY <2>1
  <2>3. S \subseteq (i .. n) \union {n + 1}
    BY <2>1
  <2> QED BY <2>2, <2>3
<1>2. StopAt(s, i) = Least(S)
  BY Zenon DEF StopAt
<1> HIDE DEF S
<1>3. Least(S) \in S
  BY <1>1, LeastIn
<1> QED BY <1>1, <1>2, <1>3

LEMMA VerbArgCalled ==
  ASSUME NEW s, Len(s) \in Nat, NEW c, IsCalled(c), NEW name
  PROVE  IsCalled(ParseVerbArg(s, c, name))
<1>1. c.at \in Nat /\ Supplied(c.args) /\ c = [verb |-> c.verb, args |-> c.args, at |-> c.at, errs |-> c.errs]
  BY DEF IsCalled, Called
<1>2. PICK stop \in Nat : stop = StopAt(s, c.at)
  BY <1>1, StopAtNat
<1>3. PICK part : part = SubSeq(s, c.at, stop - 1)
  OBVIOUS
<1>4. Len(part) \in Nat
  <2>1. Len(part) = IF c.at <= stop - 1 THEN (stop - 1) - c.at + 1 ELSE 0
    <3>1. PICK m \in Int, n \in Int : m = c.at /\ n = stop - 1
      BY <1>1
    <3>2. \A i \in m .. n : s[i] \in {s[j] : j \in m .. n}
      OBVIOUS
    <3>3. Len(SubSeq(s, m, n)) = IF m <= n THEN n - m + 1 ELSE 0
      BY <3>2, SubSeqProperties
    <3> QED BY <1>3, <3>1, <3>3
  <2> QED BY <1>1, <2>1
<1>5. PICK p : p = ParseUntil(part)
  OBVIOUS
<1>6. p.node = NoNode \/ IsTree(p.node)
  BY <1>4, <1>5, ParseUntilWhole DEF Whole
<1>7. PICK arg : arg = [name |-> name, node |-> p.node]
  OBVIOUS
<1>8. Supplied(Append(c.args, arg))
  <2>1. PICK A : c.args \in Seq(A) /\ \A a \in A : a.node = NoNode \/ IsTree(a.node)
    BY <1>1 DEF Supplied
  <2>2. Append(c.args, arg) \in Seq(A \union {arg})
    BY <2>1
  <2>3. arg.node = NoNode \/ IsTree(arg.node)
    BY <1>6, <1>7
  <2>4. \A a \in A \union {arg} : a.node = NoNode \/ IsTree(a.node)
    BY <2>1, <2>3
  <2> QED BY <2>2, <2>4 DEF Supplied
<1>9. ParseVerbArg(s, c, name) = WithArg(c, name, c.at, stop, p)
  BY <1>2, <1>3, <1>5 DEF ParseVerbArg
<1>10. PICK errs : errs = c.errs \union {c.at - 1 + e : e \in p.errs}
  OBVIOUS
<1>11. WithArg(c, name, c.at, stop, p) = Called(c.verb, Append(c.args, arg), stop, errs)
  <2>1. PICK args : args = Append(c.args, arg)
    OBVIOUS
  <2>2. WithArg(c, name, c.at, stop, p)
          = [c EXCEPT !.args = args, !.at = stop, !.errs = errs]
    BY <1>7, <1>10, <2>1, Zenon DEF WithArg
  <2>3. [c EXCEPT !.args = args, !.at = stop, !.errs = errs]
          = [verb |-> c.verb, args |-> args, at |-> stop, errs |-> errs]
    <3>1. [c EXCEPT !.args = args, !.at = stop, !.errs = errs]
            = [[[c EXCEPT !.args = args] EXCEPT !.at = stop] EXCEPT !.errs = errs]
      OBVIOUS
    <3>2. PICK d : d = [c EXCEPT !.args = args]
      OBVIOUS
    <3>3. PICK e : e = [d EXCEPT !.at = stop]
      OBVIOUS
    <3>4. d = [verb |-> c.verb, args |-> args, at |-> c.at, errs |-> c.errs]
      BY <1>1, <3>2
    <3>5. e = [verb |-> c.verb, args |-> args, at |-> stop, errs |-> c.errs]
      BY <3>3, <3>4
    <3>6. [e EXCEPT !.errs = errs]
            = [verb |-> c.verb, args |-> args, at |-> stop, errs |-> errs]
      BY <3>5
    <3> QED BY <3>1, <3>2, <3>3, <3>6
  <2> QED BY <2>1, <2>2, <2>3 DEF Called
<1> QED BY <1>8, <1>9, <1>11, CalledParts

LEMMA VerbStepCalled ==
  ASSUME NEW s, Len(s) \in Nat, NEW c, IsCalled(c)
  PROVE  IsCalled(VerbArgsStep(s, c).made)
<1>1. PICK e : e = Expected(s, "=", [c EXCEPT !.at = @ + 1])
  OBVIOUS
<1>2. PICK d : d = ParseVerbArg(s, e, Peek(s, c.at))
  OBVIOUS
<1>3. IsCalled(e)
  BY <1>1, CalledOn, ExpectedCalled
<1>4. IsCalled(d)
  BY <1>2, <1>3, VerbArgCalled
<1>5. PICK on : on = [d EXCEPT !.at = @ + 1]
  OBVIOUS
<1>6. IsCalled(on)
  BY <1>4, <1>5, CalledOn
<1>7. PICK bad : bad = [c EXCEPT !.errs = @ \union {c.at}]
  OBVIOUS
<1>8. IsCalled(bad)
  <2>1. bad = Called(c.verb, c.args, c.at, c.errs \union {c.at})
    BY <1>7, CalledWith
  <2> QED BY <2>1, CalledParts DEF IsCalled
<1>9. VerbArgsStep(s, c) \in {Stopped(bad), Going(on), Stopped(d)}
  BY <1>1, <1>2, <1>5, <1>7 DEF VerbArgsStep
<1>10. Stopped(bad).made = bad /\ Going(on).made = on /\ Stopped(d).made = d
  BY DEF Stopped, Going
<1> QED BY <1>4, <1>6, <1>8, <1>9, <1>10

LEMMA VerbArgsCalled ==
  ASSUME NEW s, Len(s) \in Nat, NEW c, IsCalled(c)
  PROVE  IsCalled(ParseVerbArgs(s, c))
<1> DEFINE a == [s |-> s]
           n == Len(s) + 1
           Next2(x) == IF x.on THEN VerbArgsStep(s, x.made) ELSE x
<1>0. n \in Nat
  OBVIOUS
<1>1. PICK f : Recurs(f, "verb", a, Going(c), n)
  BY <1>0, Recursion, Zenon
<1>2. \A x, k : Turn("verb", a, k, x) = Next2(x)
  BY DEF Turn, Body
<1>3. f = [k \in 0 .. n |-> IF k = 0 THEN Going(c) ELSE Next2(f[k - 1])]
  BY <1>1, <1>2 DEF Recurs
<1>4. PICK g : g = CHOOSE x : x = [k \in 0 .. n |-> IF k = 0 THEN Going(c) ELSE Next2(x[k - 1])]
  OBVIOUS
<1>5. g = [k \in 0 .. n |-> IF k = 0 THEN Going(c) ELSE Next2(g[k - 1])]
  BY <1>3, <1>4, Zenon
<1>6. ParseVerbArgs(s, c) = g[n].made
  BY <1>4, Zenon DEF ParseVerbArgs, Loop
<1>7. Recurs(g, "verb", a, Going(c), n)
  BY <1>2, <1>5 DEF Recurs
<1>8. \A q : Good("verb", q) => Good("verb", Body("verb", a, q).made)
  BY VerbStepCalled DEF Good, Body
<1>9. Good("verb", g[n].made)
  <2>1. n \in Nat /\ Good("verb", c)
    BY DEF Good
  <2> HIDE DEF n, a
  <2> QED BY <1>7, <1>8, <2>1, LoopKeeps
<1> QED BY <1>6, <1>9 DEF Good

LEMMA VerbCallCalled ==
  ASSUME NEW s, Len(s) \in Nat
  PROVE  IsCalled(ParseVerbCall(s))
<1>1. Supplied(<<>>)
  <2>1. PICK A : A = {}
    OBVIOUS
  <2>2. <<>> \in Seq(A) /\ \A a \in A : a.node = NoNode \/ IsTree(a.node)
    BY <2>1
  <2> QED BY <2>2 DEF Supplied
<1>2. CASE Peek(s, 1) \notin Ident
  BY <1>1, <1>2, CalledParts DEF ParseVerbCall
<1>3. CASE Peek(s, 1) \in Ident
  <2>1. PICK open : open = Expected(s, "(", Called(s[1], <<>>, 2, {}))
    OBVIOUS
  <2>2. IsCalled(open)
    BY <1>1, <2>1, CalledParts, ExpectedCalled
  <2>3. PICK list : list = Arglist(s, open)
    OBVIOUS
  <2>4. IsCalled(list)
    BY <2>2, <2>3, VerbArgsCalled DEF Arglist
  <2>5. ParseVerbCall(s) = Expected(s, EOF, Expected(s, ")", list))
    BY <1>3, <2>1, <2>3 DEF ParseVerbCall
  <2> QED BY <2>4, <2>5, ExpectedCalled
<1> QED BY <1>2, <1>3

-----------------------------------------------------------------------------
LEMMA NamedOnce ==
  ASSUME NEW A, NEW c, c.args \in Seq(A), Cardinality(Given(c)) = Len(c.args),
         NEW i \in DOMAIN c.args
  PROVE  LastNamed(c, c.args[i].name) = i
<1>1. PICK n \in Nat : n = Len(c.args) /\ DOMAIN c.args = 1 .. n
  OBVIOUS
<1>2. PICK f : f = [j \in 1 .. n |-> c.args[j].name]
  OBVIOUS
<1>3. f \in Surjection(1 .. n, Given(c))
  BY <1>1, <1>2 DEF Surjection, Given
<1>4. IsFiniteSet(1 .. n) /\ Cardinality(1 .. n) = n
  <2>1. 1 \in Int /\ n \in Int
    BY <1>1
  <2>2. Cardinality(1 .. n) = IF 1 > n THEN 0 ELSE n - 1 + 1
    BY <2>1, FS_Interval
  <2> QED BY <1>1, <2>1, <2>2, FS_Interval, SMTT(30)
<1>5. f \in Injection(1 .. n, Given(c))
  BY <1>1, <1>3, <1>4, FS_Surjection
<1>6. \A j, k \in 1 .. n : c.args[j].name = c.args[k].name => j = k
  <2>1. \A j, k \in 1 .. n : f[j] = f[k] => j = k
    BY <1>5 DEF Injection, IsInjective
  <2> QED BY <1>2, <2>1
<1>7. PICK at : at = {j \in DOMAIN c.args : c.args[j].name = c.args[i].name}
  OBVIOUS
<1>8. at = {i} /\ i \in Nat
  BY <1>1, <1>6, <1>7
<1>9. LastNamed(c, c.args[i].name) = CHOOSE j \in at : \A k \in at : k <= j
  BY <1>7, Zenon DEF LastNamed
<1> QED BY <1>8, <1>9

LEMMA VerbArgTypes ==
  ASSUME NEW verb \in Verbs, NEW name \in DOMAIN VerbArgs(verb)
  PROVE  VerbArgs(verb)[name] \in {"String", "Decimal", "Quantity", "Percent"}
BY DEF Verbs, VerbArgs

(* A value of a type that matches what a verb takes is of the sort that    *)
(* its decision takes, or none at all.                                     *)
LEMMA MatchingSort ==
  ASSUME NEW expected \in {"String", "Decimal", "Quantity", "Percent"}, NEW got,
         got # "Unknown", Matches(expected, got), NEW v, NEW context, Fine(v, got, context),
         v.sort # "raise"
  PROVE  v.sort \in {"unknown", SortOf(expected)}
<1>1. expected = got \/ expected \in CompatibleWith(got)
  BY DEF Matches
<1>2. CASE expected = "String"
  <2>1. got = "String"
    BY <1>1, <1>2 DEF CompatibleWith
  <2>2. got \notin Numeric
    BY <2>1 DEF Numeric, LiteralTypes
  <2> QED BY <1>2, <2>1, <2>2 DEF Fine, SortOf
<1>3. CASE expected # "String"
  <2>1. got \in Numeric
    BY <1>1, <1>3 DEF CompatibleWith, Numeric, LiteralTypes
  <2>2. NumberFine(v, context)
    BY <2>1, FineNumber
  <2>3. v.sort = "unknown" \/ v.sort = "num"
    BY <2>2, NumbersSimple DEF NumberFine
  <2> QED BY <1>3, <2>3 DEF SortOf
<1> QED BY <1>2, <1>3

LEMMA ArgumentSound ==
  ASSUME NEW c, IsCalled(c), NEW ev, IsEvent(ev), CallTypeOK(c, ev.context),
         \A i \in DOMAIN c.args : Guarded(c.args[i].node, ev.context),
         Cardinality(Given(c)) = Len(c.args), NEW i \in DOMAIN c.args,
         NEW v, v = Eval(c.args[i].node, ev)
  PROVE  /\ v.sort = "raise" => v.is \in {"missing", "DivisionByZero"}
         /\ v.sort # "raise" =>
              v.sort \in {"unknown", SortOf(VerbArgs(c.verb)[c.args[i].name])}
<1>1. PICK A : c.args \in Seq(A) /\ \A a \in A : a.node = NoNode \/ IsTree(a.node)
  BY DEF IsCalled, Supplied
<1>2. c.args[i] \in A
  BY <1>1
<1>3. PICK x : x = c.args[i].node
  OBVIOUS
<1>4. x = NoNode \/ IsTree(x)
  BY <1>1, <1>2, <1>3
<1>5. PICK name : name = c.args[i].name
  OBVIOUS
<1>6. PICK t : t = Infer(x, EnvTypes(ev.context))
  OBVIOUS
<1>7. Sound(t, v, ev.context)
  BY <1>3, <1>4, <1>6, GuardedSound
<1>8. name \in Given(c)
  BY <1>5 DEF Given
<1>9. LastNamed(c, name) = i
  BY <1>1, <1>5, NamedOnce
<1>10. t.ok /\ Matches(VerbArgs(c.verb)[name], t.type)
  <2>1. ArgOK(c, name, EnvTypes(ev.context))
    BY <1>8 DEF CallTypeOK
  <2> QED BY <1>3, <1>6, <1>9, <2>1 DEF ArgOK
<1>11. t.type # "Unknown" /\ Fine(v, t.type, ev.context)
  BY <1>7, <1>10 DEF Sound
<1>12. VerbArgs(c.verb)[name] \in {"String", "Decimal", "Quantity", "Percent"}
  BY <1>8, VerbArgTypes DEF CallTypeOK
<1>13. v.sort = "raise" => v.is \in {"missing", "DivisionByZero"}
  BY <1>11, NumbersSimple DEF Fine
<1> QED BY <1>5, <1>10, <1>11, <1>12, <1>13, MatchingSort

(* The arguments of an accepted call that are guarded are those its        *)
(* decision takes.                                                         *)
LEMMA ArgumentsRun ==
  ASSUME NEW c, IsCalled(c), NEW ev, IsEvent(ev), CallTypeOK(c, ev.context),
         \A i \in DOMAIN c.args : Guarded(c.args[i].node, ev.context),
         Cardinality(Given(c)) = Len(c.args)
  PROVE  RaisesOnly({"missing", "DivisionByZero", "unknown"}, Arguments(c, ev))
<1>1. PICK value : value = [i \in DOMAIN c.args |-> Eval(c.args[i].node, ev)]
  OBVIOUS
<1>2. Arguments(c, ev) = Checked(c, value)
  BY <1>1 DEF Arguments
<1>3. PICK A : c.args \in Seq(A)
  BY DEF IsCalled, Supplied
<1>4. \A i \in DOMAIN c.args :
        /\ value[i].sort = "raise" => value[i].is \in {"missing", "DivisionByZero"}
        /\ value[i].sort # "raise" =>
             value[i].sort \in {"unknown", SortOf(VerbArgs(c.verb)[c.args[i].name])}
  BY <1>1, ArgumentSound
<1> DEFINE raised == {i \in DOMAIN c.args : value[i].sort = "raise"}
           sorts == VerbArgs(c.verb)
           wrong == {name \in DOMAIN sorts :
                       IF name \in Given(c)
                       THEN value[LastNamed(c, name)].sort # SortOf(sorts[name])
                       ELSE name \in Required(c.verb)}
           unknown == {name \in wrong \intersect Given(c) :
                         value[LastNamed(c, name)].sort = "unknown"}
<1>5. CASE raised # {}
  <2>1. raised \in SUBSET Nat
    BY <1>3
  <2>2. Least(raised) \in raised
    BY <1>5, <2>1, LeastIn
  <2>3. value[Least(raised)].is \in {"missing", "DivisionByZero"}
    BY <1>4, <2>2
  <2>4. Checked(c, value) = value[Least(raised)]
    BY <1>5 DEF Checked
  <2> QED BY <1>2, <2>3, <2>4 DEF RaisesOnly
<1>6. CASE raised = {}
  <2>1. ASSUME NEW name \in wrong
        PROVE  name \in unknown
    <3>1. name \in Given(c)
      BY DEF CallTypeOK
    <3>2. PICK i \in DOMAIN c.args : name = c.args[i].name
      BY <3>1 DEF Given
    <3>3. LastNamed(c, name) = i
      BY <1>3, <3>2, NamedOnce
    <3>4. value[i].sort # "raise"
      BY <1>6, <3>2
    <3>5. value[i].sort # SortOf(sorts[name])
      BY <3>1, <3>3
    <3>6. value[i].sort = "unknown"
      BY <1>4, <3>2, <3>4, <3>5
    <3> QED BY <3>1, <3>3, <3>6
  <2>2. wrong = unknown
    BY <2>1
  <2>3. Checked(c, value) \in {Bool(TRUE), Raise("unknown")}
    <3>1. CASE wrong = {}
      BY <1>6, <3>1 DEF Checked
    <3>2. CASE wrong # {}
      BY <1>6, <2>2, <3>2 DEF Checked
    <3> QED BY <3>1, <3>2
  <2>4. Bool(TRUE).sort = "bool" /\ Raise("unknown").is = "unknown"
    BY DEF Bool, Raise
  <2> QED BY <1>2, <2>3, <2>4 DEF RaisesOnly
<1> QED BY <1>5, <1>6

(* An accepted condition that is guarded is true, false or Unknown, and    *)
(* the arguments of an accepted call that are guarded are those its        *)
(* decision takes, for every text and every event.                         *)
LEMMA AcceptedExpressionsRunWritten == Written => AcceptedExpressionsRun
<1> SUFFICES ASSUME Written, NEW ev \in Events, ev.context = task.context
             PROVE  /\ GuardedCondition => RaisesOnly({"missing", "DivisionByZero"},
                                                      Predicate(parsed.node, ev))
                    /\ GuardedCall => RaisesOnly({"missing", "DivisionByZero", "unknown"},
                                                 Arguments(parsed, ev))
  BY DEF AcceptedExpressionsRun
<1>1. IsEvent(ev) /\ Len(text) \in Nat
  BY EventsAssumption DEF Written
<1>2. ASSUME GuardedCondition
      PROVE  RaisesOnly({"missing", "DivisionByZero"}, Predicate(parsed.node, ev))
  <2>1. task.kind = "condition" /\ accepted /\ Guarded(parsed.node, ev.context)
    BY <1>2 DEF GuardedCondition, AcceptedCondition
  <2>2. parsed = ParseUntil(text)
    BY <2>1 DEF Written, Parse
  <2>3. parsed.node = NoNode \/ IsTree(parsed.node)
    BY <1>1, <2>2, ParseUntilWhole DEF Whole
  <2>4. ConditionTypeOK(parsed.node, ev.context)
    BY <2>1 DEF Written, Accepts, ConditionAccepted
  <2> QED BY <1>1, <2>1, <2>3, <2>4, ConditionRuns
<1>3. ASSUME GuardedCall
      PROVE  RaisesOnly({"missing", "DivisionByZero", "unknown"}, Arguments(parsed, ev))
  <2>1. /\ task.kind = "call" /\ accepted /\ Cardinality(Given(parsed)) = Len(parsed.args)
        /\ \A i \in DOMAIN parsed.args : Guarded(parsed.args[i].node, ev.context)
    BY <1>3 DEF GuardedCall, AcceptedCall
  <2>2. parsed = ParseVerbCall(text)
    BY <2>1 DEF Written, Parse
  <2>3. IsCalled(parsed)
    BY <1>1, <2>2, VerbCallCalled
  <2>4. CallTypeOK(parsed, ev.context)
    BY <2>1 DEF Written, Accepts, CallAccepted
  <2> QED BY <1>1, <2>1, <2>3, <2>4, ArgumentsRun
<1> QED BY <1>2, <1>3

THEOREM AcceptedExpressionsRunAlways == Spec => []AcceptedExpressionsRun
BY WrittenAlways, AcceptedExpressionsRunWritten, PTL

-----------------------------------------------------------------------------
(* From the dots of a text to the attributes of its tree.  A tree is       *)
(* inside another if every set of nodes in which the other grows has it.   *)
Inside(x, node) == \A T : node \in T /\ Grown(T) => x \in T

Attribute(x, node) == IsTree(node) /\ Inside(x, node) /\ x.kind = "attribute"

LEMMA KidsGrow ==
  ASSUME NEW T, Grown(T), NEW y \in T
  PROVE  Under(y) \subseteq T /\ y.kids \in Seq(T) /\ y.kw \in Seq(T)
<1>1. y.kids \in Seq(T) /\ y.kw \in Seq(T)
  BY DEF Grown, IsNode
<1> QED BY <1>1 DEF Under

LEMMA InsideDeeper ==
  ASSUME NEW y, IsTree(y), NEW z \in Under(y)
  PROVE  IsTree(z) /\ \A x : Inside(x, z) => Inside(x, y)
<1>1. PICK T : y \in T /\ Grown(T)
  BY DEF IsTree
<1>2. IsTree(z)
  BY <1>1, KidsGrow DEF IsTree
<1>3. ASSUME NEW x, Inside(x, z)
      PROVE  Inside(x, y)
  BY <1>3, KidsGrow DEF Inside
<1> QED BY <1>2, <1>3

(* What is inside a tree is the tree or inside one under it.               *)
LEMMA InsideParts ==
  ASSUME NEW y, IsTree(y), NEW x, Inside(x, y), x # y
  PROVE  \E z \in Under(y) : Inside(x, z)
<1>1. PICK T : y \in T /\ Grown(T)
  BY DEF IsTree
<1> DEFINE U == {w \in T : w = y \/ \E z \in Under(y) : Inside(w, z)}
<1>2. ASSUME NEW w \in U
      PROVE  Under(w) \subseteq U
  <2>1. Under(w) \subseteq T
    BY <1>1, KidsGrow
  <2>2. CASE w = y
    <3>1. \A z : Inside(z, z)
      BY DEF Inside
    <3> QED BY <2>1, <2>2, <3>1
  <2>3. CASE w # y
    <3>1. PICK z \in Under(y) : Inside(w, z)
      BY <2>3
    <3>2. \A v \in Under(w) : Inside(v, z)
      BY <3>1, KidsGrow DEF Inside
    <3> QED BY <2>1, <3>1, <3>2
  <2> QED BY <2>2, <2>3
<1>3. ASSUME NEW w \in U
      PROVE  IsNode(w, U)
  <2>1. IsNode(w, T)
    BY <1>1 DEF Grown
  <2>2. w.kids \in Seq(T) /\ w.kw \in Seq(T)
    BY <1>1, KidsGrow
  <2>3. \A i \in DOMAIN w.kids : w.kids[i] \in U
    BY <1>2 DEF Under
  <2>4. \A i \in DOMAIN w.kw : w.kw[i] \in U
    BY <1>2 DEF Under
  <2> HIDE DEF U
  <2>5. w.kids \in Seq(U)
    BY <2>2, <2>3
  <2>6. w.kw \in Seq(U)
    BY <2>2, <2>4
  <2> QED BY <2>1, <2>5, <2>6 DEF IsNode
<1>4. y \in U
  BY <1>1
<1>5. x \in U
  <2> HIDE DEF U
  <2> QED BY <1>3, <1>4 DEF Inside, Grown
<1> QED BY <1>5

LEMMA AttributeParts ==
  ASSUME NEW y, IsTree(y), NEW x
  PROVE  Attribute(x, y) <=> \/ x = y /\ y.kind = "attribute"
                             \/ \E z \in Under(y) : Attribute(x, z)
<1>1. Inside(y, y)
  BY DEF Inside
<1> QED BY <1>1, InsideDeeper, InsideParts DEF Attribute

-----------------------------------------------------------------------------
(* A name stands before position j if only closing parentheses are between *)
(* it and j; the dot of an attribute is at position j if the attribute's   *)
(* own name follows and, where the attribute is one of a name, that name   *)
(* stands before it.                                                       *)
StandsBefore(s, j, name) ==
  \E k \in 1 .. j - 1 : Peek(s, k) = name /\ \A l \in k + 1 .. j - 1 : Peek(s, l) = ")"

DotOf(s, j, x) ==
  /\ Peek(s, j) = "." /\ Peek(s, j + 1) = x.tok
  /\ x.kids[1].kind = "name" => StandsBefore(s, j, x.kids[1].tok)

(* Every attribute in the trees X has its dot; every dot from one position *)
(* up to another is that of an attribute in the trees X.                   *)
Dotted(s, X) ==
  \A z \in X : \A x : Attribute(x, z) => \E j \in Nat \ {0} : DotOf(s, j, x)

Covered(s, from, to, X) ==
  \A j \in from .. to - 1 :
    Peek(s, j) = "." => \E z \in X : \E x : Attribute(x, z) /\ DotOf(s, j, x)

(* What the parser made of the tokens from position i on, with nothing to  *)
(* report, tells of them.                                                  *)
Traced(s, i, q) ==
  /\ i <= q.at
  /\ q.node = NoNode => q.errs # {}
  /\ q.errs = {} => /\ q.node.kind = "name" => StandsBefore(s, q.at, q.node.tok)
                    /\ Dotted(s, {q.node})
                    /\ Covered(s, i, q.at, {q.node})

LEMMA NodeTraced ==
  ASSUME NEW s, NEW i, NEW at, i <= at, NEW errs, NEW node, IsTree(node),
         node.kind \notin {"name", "attribute"},
         errs = {} => Dotted(s, Under(node)) /\ Covered(s, i, at, Under(node))
  PROVE  Traced(s, i, Made(node, at, errs))
<1>0. PICK q : q = Made(node, at, errs)
  OBVIOUS
<1>1. q = Made(node, at, errs) /\ q.node = node /\ q.at = at /\ q.errs = errs
  BY <1>0 DEF Made
<1>2. node # NoNode
  BY TreeParts
<1>3. \A x : Attribute(x, node) <=> \E z \in Under(node) : Attribute(x, z)
  BY AttributeParts
<1>4. errs = {} => Dotted(s, {node})
  BY <1>3 DEF Dotted
<1>5. errs = {} => Covered(s, i, at, {node})
  BY <1>3 DEF Covered
<1> QED BY <1>1, <1>2, <1>4, <1>5 DEF Traced

LEMMA TracedUnder ==
  ASSUME NEW s, NEW i, NEW q, Traced(s, i, q), IsTree(q.node), q.node.kind # "attribute"
  PROVE  q.errs = {} => Dotted(s, Under(q.node)) /\ Covered(s, i, q.at, Under(q.node))
<1>1. \A x : Attribute(x, q.node) <=> \E z \in Under(q.node) : Attribute(x, z)
  BY AttributeParts
<1>2. q.errs = {} => Dotted(s, {q.node}) /\ Covered(s, i, q.at, {q.node})
  BY DEF Traced
<1>3. q.errs = {} => Dotted(s, Under(q.node))
  BY <1>1, <1>2 DEF Dotted
<1>4. q.errs = {} => Covered(s, i, q.at, Under(q.node))
  BY <1>1, <1>2 DEF Covered
<1> QED BY <1>3, <1>4

LEMMA DottedBoth ==
  ASSUME NEW s, NEW X, NEW Y, Dotted(s, X), Dotted(s, Y)
  PROVE  Dotted(s, X \union Y)
BY DEF Dotted

(* Two stretches side by side, with tokens that are no dots between them.  *)
LEMMA CoveredBoth ==
  ASSUME NEW s, NEW i \in Nat, NEW j \in Nat, NEW k \in Nat, NEW l \in Nat,
         NEW X, NEW Y, Covered(s, i, j, X), Covered(s, k, l, Y),
         \A m \in j .. k - 1 : Peek(s, m) # "."
  PROVE  Covered(s, i, l, X \union Y)
<1> SUFFICES ASSUME NEW m \in i .. l - 1, Peek(s, m) = "."
             PROVE  \E z \in X \union Y : \E x : Attribute(x, z) /\ DotOf(s, m, x)
  BY DEF Covered
<1>1. CASE m < j
  BY <1>1 DEF Covered
<1>2. CASE m >= k
  BY <1>2 DEF Covered
<1> QED BY <1>1, <1>2

LEMMA UnderOf ==
  /\ \A kind, tok : Under(Node(kind, tok, <<>>)) = {}
  /\ \A kind, tok, x : Under(Node(kind, tok, <<x>>)) = {x}
  /\ \A kind, tok, x, y : Under(Node(kind, tok, <<x, y>>)) = {x} \union {y}
BY DEF Under, Node

-----------------------------------------------------------------------------
(* Each function of the parser makes what is traced of what is traced.     *)
SubsTraced(s, sub) ==
  \A i \in Nat \ {0}, bp \in Nat : Traced(s, i, sub[<<i, bp>>])

LEMMA CoveredOn ==
  ASSUME NEW s, NEW i \in Nat, NEW j \in Nat, NEW X, Covered(s, i, j, X),
         Peek(s, j) # "."
  PROVE  Covered(s, i, j + 1, X)
BY DEF Covered

LEMMA ClosedBefore ==
  ASSUME NEW s, NEW j \in Nat, NEW name, StandsBefore(s, j, name), Peek(s, j) = ")"
  PROVE  StandsBefore(s, j + 1, name)
<1>1. PICK k \in 1 .. j - 1 : Peek(s, k) = name /\ \A l \in k + 1 .. j - 1 : Peek(s, l) = ")"
  BY DEF StandsBefore
<1>2. k \in 1 .. (j + 1) - 1 /\ \A l \in k + 1 .. (j + 1) - 1 : Peek(s, l) = ")"
  BY <1>1
<1> QED BY <1>1, <1>2 DEF StandsBefore

LEMMA ClosingTraced ==
  ASSUME NEW s, NEW i \in Nat, NEW p, IsMade(p), Traced(s, i, p)
  PROVE  Traced(s, i, Expected(s, ")", p))
<1>0. p.at \in Nat /\ i <= p.at
  BY DEF IsMade, Traced
<1>1. CASE Peek(s, p.at) = ")"
  <2>1. PICK q : q = Made(p.node, p.at + 1, p.errs)
    OBVIOUS
  <2>2. q.node = p.node /\ q.at = p.at + 1 /\ q.errs = p.errs
    BY <2>1 DEF Made
  <2>3. Expected(s, ")", p) = q
    BY <1>1, <2>1, MadeWith DEF Expected
  <2>4. p.errs = {} /\ p.node.kind = "name" => StandsBefore(s, p.at + 1, p.node.tok)
    BY <1>0, <1>1, ClosedBefore DEF Traced
  <2>5. p.errs = {} => Covered(s, i, p.at + 1, {p.node})
    BY <1>0, <1>1, CoveredOn DEF Traced
  <2>6. i <= q.at
    BY <1>0, <2>2
  <2> QED BY <2>2, <2>3, <2>4, <2>5, <2>6 DEF Traced
<1>2. CASE Peek(s, p.at) # ")"
  <2>1. PICK q : q = Made(p.node, p.at, p.errs \union {p.at})
    OBVIOUS
  <2>2. q.node = p.node /\ q.at = p.at /\ q.errs = p.errs \union {p.at}
    BY <2>1 DEF Made
  <2>3. Expected(s, ")", p) = q
    BY <1>2, <2>1, MadeWith, ZenonT(30) DEF Expected
  <2>4. q.errs # {}
    BY <2>2
  <2> QED BY <2>2, <2>3, <2>4 DEF Traced
<1> QED BY <1>1, <1>2

LEMMA PrimaryTraced ==
  ASSUME NEW s, NEW i \in Nat \ {0}, NEW sub, Subs(sub), SubsTraced(s, sub)
  PROVE  Traced(s, i, ParsePrimary(s, i, sub))
<1>0. PICK t : t = Peek(s, i)
  OBVIOUS
<1>1. CASE t \in Literal
  <2>1. IsTree(Node("literal", t, <<>>)) /\ Under(Node("literal", t, <<>>)) = {}
    BY <1>1, TreeOfNone, UnderOf
  <2>2. ParsePrimary(s, i, sub) = Made(Node("literal", t, <<>>), i + 1, {})
    BY <1>0, <1>1, TokensAssumption DEF ParsePrimary
  <2>3. t # "."
    BY <1>1, TokensAssumption
  <2>4. Covered(s, i, i + 1, {})
    BY <1>0, <2>3 DEF Covered
  <2>5. Dotted(s, {})
    BY DEF Dotted
  <2>6. Node("literal", t, <<>>).kind = "literal"
    BY DEF Node
  <2> QED BY <2>1, <2>2, <2>4, <2>5, <2>6, NodeTraced
<1>2. CASE t \in Ident
  <2>1. PICK node : node = Node("name", t, <<>>)
    OBVIOUS
  <2>2. IsTree(node) /\ Under(node) = {} /\ node.kind = "name" /\ node.tok = t
    BY <1>2, <2>1, TreeOfNone, UnderOf DEF Node
  <2>3. PICK q : q = Made(node, i + 1, {})
    OBVIOUS
  <2>4. q.node = node /\ q.at = i + 1 /\ q.errs = {}
    BY <2>3 DEF Made
  <2>5. ParsePrimary(s, i, sub) = q
    BY <1>0, <1>2, <2>1, <2>3, TokensAssumption DEF ParsePrimary
  <2>6. t # "."
    BY <1>2, TokensAssumption
  <2>7. Covered(s, i, i + 1, {node})
    BY <1>0, <2>6 DEF Covered
  <2>8. Dotted(s, {node})
    BY <2>2, AttributeParts DEF Dotted
  <2>9. StandsBefore(s, i + 1, t)
    <3>1. i \in 1 .. (i + 1) - 1 /\ \A l \in i + 1 .. (i + 1) - 1 : FALSE
      OBVIOUS
    <3> QED BY <1>0, <3>1 DEF StandsBefore
  <2>10. node # NoNode
    BY <2>2, TreeParts
  <2>11. /\ Covered(s, i, q.at, {q.node}) /\ Dotted(s, {q.node})
         /\ StandsBefore(s, q.at, q.node.tok) /\ i <= q.at /\ q.node # NoNode
    BY <2>2, <2>4, <2>7, <2>8, <2>9, <2>10
  <2> QED BY <2>5, <2>11 DEF Traced
<1>3. CASE t \notin Literal /\ t \notin Ident /\ t = "("
  <2>1. PICK p : p = sub[<<i + 1, 0>>]
    OBVIOUS
  <2>2. ParsePrimary(s, i, sub) = Expected(s, ")", p)
    BY <1>0, <1>3, <2>1 DEF ParsePrimary
  <2>3. IsMade(p) /\ Traced(s, i + 1, p)
    BY <2>1 DEF Subs, SubsTraced, Whole
  <2>4. i <= p.at /\ p.at \in Nat
    BY <2>3 DEF Traced, IsMade
  <2>5. p.errs = {} => Covered(s, i, p.at, {p.node})
    <3>1. ASSUME Covered(s, i + 1, p.at, {p.node})
          PROVE  Covered(s, i, p.at, {p.node})
      <4>1. \A j \in i .. p.at - 1 : j = i \/ j \in i + 1 .. p.at - 1
        BY <2>4
      <4>2. Peek(s, i) # "."
        BY <1>0, <1>3
      <4> QED BY <3>1, <4>1, <4>2 DEF Covered
    <3> QED BY <2>3, <3>1 DEF Traced
  <2>6. Traced(s, i, p)
    BY <2>3, <2>4, <2>5 DEF Traced
  <2> QED BY <2>2, <2>3, <2>6, ClosingTraced
<1>4. CASE t \notin Literal /\ t \notin Ident /\ t # "("
  <2>1. PICK q : q = Made(NoNode, Next1(s, i), {i})
    OBVIOUS
  <2>2. q.node = NoNode /\ q.at = Next1(s, i) /\ q.errs # {}
    BY <2>1 DEF Made
  <2>3. ParsePrimary(s, i, sub) = q
    BY <1>0, <1>4, <2>1 DEF ParsePrimary
  <2>4. i <= Next1(s, i)
    BY DEF Next1
  <2>5. NoNode.kind = "none" /\ ~ IsTree(NoNode)
    BY TreeParts DEF NoNode, Node
  <2>6. Dotted(s, {NoNode})
    BY <2>5 DEF Dotted, Attribute
  <2> QED BY <2>2, <2>3, <2>4, <2>5, <2>6 DEF Traced
<1> QED BY <1>1, <1>2, <1>3, <1>4

LEMMA PrefixTraced ==
  ASSUME NEW s, NEW i \in Nat \ {0}, NEW sub, Subs(sub), SubsTraced(s, sub)
  PROVE  Traced(s, i, ParsePrefix(s, i, sub))
<1>0. PICK t : t = Peek(s, i)
  OBVIOUS
<1>1. CASE t \in {"not", "+", "-"}
  <2>1. PICK p : p = sub[<<i + 1, 60>>]
    OBVIOUS
  <2>2. ParsePrefix(s, i, sub) = OfOperand(t, p)
    BY <1>0, <1>1, <2>1 DEF ParsePrefix
  <2>3. Whole(p) /\ Traced(s, i + 1, p) /\ IsMade(p)
    BY <2>1 DEF Subs, SubsTraced, Whole
  <2>4. i <= p.at /\ p.at \in Nat
    BY <2>3 DEF Traced, IsMade
  <2>5. \A j \in i .. p.at - 1 : j = i \/ j \in i + 1 .. p.at - 1
    BY <2>4
  <2>6. ASSUME p.errs = {}
        PROVE  Covered(s, i, p.at, {p.node})
    <3>1. Covered(s, i + 1, p.at, {p.node})
      BY <2>3, <2>6 DEF Traced
    <3>2. Peek(s, i) # "."
      BY <1>0, <1>1
    <3> QED BY <2>5, <3>1, <3>2 DEF Covered
  <2>7. CASE p.node = NoNode
    <3>1. OfOperand(t, p) = p
      BY <2>7 DEF OfOperand
    <3> QED BY <2>2, <2>3, <2>4, <2>6, <3>1 DEF Traced
  <2>8. CASE p.node # NoNode
    <3>1. PICK node : node = Node("unary", t, <<p.node>>)
      OBVIOUS
    <3>2. IsTree(node) /\ Under(node) = {p.node} /\ node.kind = "unary"
      BY <1>1, <2>3, <2>8, <3>1, TreeOfOne, UnderOf DEF Whole
    <3>3. OfOperand(t, p) = Made(node, p.at, p.errs)
      BY <2>3, <2>8, <3>1, MadeWith DEF OfOperand
    <3>4. p.errs = {} => Dotted(s, {p.node})
      BY <2>3 DEF Traced
    <3> QED BY <2>2, <2>4, <2>6, <3>2, <3>3, <3>4, NodeTraced
  <2> QED BY <2>7, <2>8
<1>2. CASE t \notin {"not", "+", "-"}
  <2>1. ParsePrefix(s, i, sub) = ParsePrimary(s, i, sub)
    BY <1>0, <1>2 DEF ParsePrefix
  <2> QED BY <2>1, PrimaryTraced
<1> QED BY <1>1, <1>2

(* Past a token that is no dot, but for a name.                            *)
LEMMA PastTraced ==
  ASSUME NEW s, NEW i \in Nat, NEW d, Grew(d), Traced(s, i, d), d.node.kind # "name",
         Peek(s, d.at) # "."
  PROVE  Traced(s, i, [d EXCEPT !.at = @ + 1])
<1>0. d.at \in Nat /\ i <= d.at /\ IsMade(d)
  BY DEF Grew, IsMade, Traced
<1>1. PICK q : q = Made(d.node, d.at + 1, d.errs)
  OBVIOUS
<1>2. q.node = d.node /\ q.at = d.at + 1 /\ q.errs = d.errs
  BY <1>1 DEF Made
<1>3. [d EXCEPT !.at = @ + 1] = q
  BY <1>0, <1>1, MadeWith
<1>4. d.errs = {} => Covered(s, i, d.at + 1, {d.node})
  BY <1>0, CoveredOn DEF Traced
<1>5. i <= q.at
  BY <1>0, <1>2
<1>6. Traced(s, i, q)
  BY <1>2, <1>4, <1>5 DEF Traced
<1> QED BY <1>3, <1>6

LEMMA UnderMore ==
  ASSUME NEW x, IsTree(x), NEW v
  PROVE  /\ Under([x EXCEPT !.kw = Append(@, v)]) = Under(x) \union {v}
         /\ Under([x EXCEPT !.kids = Append(@, v)]) = Under(x) \union {v}
<1>1. PICK kids, kw : kids = x.kids /\ kw = x.kw
  OBVIOUS
<1>2. \E T : kids \in Seq(T)
  BY <1>1, TreeParts DEF Grove
<1>3. \E T : kw \in Seq(T)
  BY <1>1, TreeParts DEF Grove
<1>4. ASSUME NEW q, \E T : q \in Seq(T)
      PROVE  {Append(q, v)[i] : i \in DOMAIN Append(q, v)} = {q[i] : i \in DOMAIN q} \union {v}
  <2>1. PICK T : q \in Seq(T)
    BY <1>4
  <2>2. PICK n \in Nat : n = Len(q) /\ DOMAIN q = 1 .. n
    BY <2>1
  <2>3. PICK more : more = Append(q, v)
    OBVIOUS
  <2>4. q \in Seq(T \union {v})
    BY <2>1
  <2>5. /\ DOMAIN more = 1 .. n + 1 /\ more[n + 1] = v
        /\ \A i \in 1 .. n : more[i] = q[i]
    BY <2>2, <2>3, <2>4
  <2>6. \A i \in 1 .. n + 1 : i \in 1 .. n \/ i = n + 1
    OBVIOUS
  <2>7. {more[i] : i \in 1 .. n + 1} = {q[i] : i \in 1 .. n} \union {v}
    BY <2>5, <2>6
  <2> QED BY <2>2, <2>3, <2>5, <2>7
<1>5. PICK y, z : /\ y = [x EXCEPT !.kw = Append(@, v)]
                  /\ z = [x EXCEPT !.kids = Append(@, v)]
  OBVIOUS
<1>6. /\ y.kids = kids /\ y.kw = Append(kw, v)
      /\ z.kids = Append(kids, v) /\ z.kw = kw
  BY <1>1, <1>5, TreeParts, TreeWith
<1> DEFINE Of1(q) == {q[i] : i \in DOMAIN q}
<1>7. /\ Under(x) = Of1(kids) \union Of1(kw)
      /\ Under(y) = Of1(kids) \union Of1(Append(kw, v))
      /\ Under(z) = Of1(Append(kids, v)) \union Of1(kw)
  BY <1>1, <1>6, Zenon DEF Under
<1>8. Of1(Append(kw, v)) = Of1(kw) \union {v} /\ Of1(Append(kids, v)) = Of1(kids) \union {v}
  BY <1>2, <1>3, <1>4
<1> HIDE DEF Of1
<1> QED BY <1>5, <1>7, <1>8

(* An argument, from position a on, after what has been made of a call.    *)
LEMMA ValueTraced ==
  ASSUME NEW s, NEW i \in Nat, NEW c, Calling(c), Traced(s, i, c),
         NEW a \in Nat, c.at <= a, \A m \in c.at .. a - 1 : Peek(s, m) # ".",
         NEW v, Whole(v), Traced(s, a, v), NEW named \in BOOLEAN
  PROVE  Traced(s, i, WithValue(c, named, v))
<1>1. /\ IsMade(c) /\ c.at \in Nat /\ i <= c.at /\ IsMade(v) /\ v.at \in Nat /\ a <= v.at
      /\ IsTree(c.node) /\ c.node.kind = "call" /\ c.node # NoNode
  BY TreeParts DEF Calling, Grew, Whole, IsMade, Traced
<1>2. i <= v.at
  BY <1>1
<1>3. CASE v.node = NoNode
  <2>1. PICK q : q = Made(c.node, v.at, c.errs \union v.errs)
    OBVIOUS
  <2>2. WithValue(c, named, v) = q
    BY <1>3, <2>1 DEF WithValue
  <2>3. q.node = c.node /\ q.at = v.at /\ q.errs = c.errs \union v.errs
    BY <2>1 DEF Made
  <2>4. v.errs # {}
    BY <1>3 DEF Traced
  <2>5. q.errs # {} /\ q.node # NoNode
    BY <1>1, <2>3, <2>4
  <2> QED BY <1>2, <2>2, <2>3, <2>5 DEF Traced
<1>4. CASE v.node # NoNode
  <2>1. PICK node : node = IF named THEN [c.node EXCEPT !.kw = Append(@, v.node)]
                                    ELSE [c.node EXCEPT !.kids = Append(@, v.node)]
    OBVIOUS
  <2>2. WithValue(c, named, v) = Made(node, v.at, c.errs \union v.errs)
    BY <1>4, <2>1 DEF WithValue
  <2>3. Under(node) = Under(c.node) \union {v.node}
    BY <1>1, <2>1, UnderMore
  <2>4. IsTree(v.node)
    BY <1>4 DEF Whole
  <2>5. IsTree(node) /\ node.kind = "call"
    BY <2>2, ValueCalling DEF Calling, Grew, Made
  <2>6. ASSUME c.errs = {}, v.errs = {}
        PROVE  Dotted(s, Under(node)) /\ Covered(s, i, v.at, Under(node))
    <3>1. /\ Dotted(s, Under(c.node)) /\ Covered(s, i, c.at, Under(c.node))
          /\ Dotted(s, {v.node}) /\ Covered(s, a, v.at, {v.node})
      BY <1>1, <2>6, TracedUnder DEF Traced
    <3> QED BY <1>1, <2>3, <3>1, DottedBoth, CoveredBoth
  <2> QED BY <1>2, <2>2, <2>5, <2>6, NodeTraced
<1> QED BY <1>3, <1>4

LEMMA ArgTraced ==
  ASSUME NEW s, NEW i \in Nat \ {0}, NEW c, Calling(c), Traced(s, i, c),
         NEW sub, Subs(sub), SubsTraced(s, sub)
  PROVE  Traced(s, i, ParseArg(s, c, sub).made)
<1>1. PICK named : named = (Peek(s, c.at) \in Ident /\ Peek(s, c.at + 1) = "=")
  OBVIOUS
<1>2. PICK a : a = IF named THEN c.at + 2 ELSE c.at
  OBVIOUS
<1>3. PICK v : v = sub[<<a, 0>>]
  OBVIOUS
<1>4. PICK d : d = WithValue(c, named, v)
  OBVIOUS
<1>5. c.at \in Nat \ {0} /\ named \in BOOLEAN
  BY <1>1 DEF Calling, Grew, IsMade, Traced
<1>6. a \in Nat \ {0} /\ c.at <= a
  BY <1>2, <1>5
<1>7. Whole(v) /\ Traced(s, a, v)
  BY <1>3, <1>6 DEF Subs, SubsTraced
<1>8. \A m \in c.at .. a - 1 : Peek(s, m) # "."
  <2>1. \A m \in c.at .. (c.at + 2) - 1 : m = c.at \/ m = c.at + 1
    BY <1>5
  <2>2. "." \notin Ident
    BY TokensAssumption
  <2>3. CASE named
    <3>1. a = c.at + 2 /\ Peek(s, c.at) \in Ident /\ Peek(s, c.at + 1) = "="
      BY <1>1, <1>2, <2>3
    <3>2. Peek(s, c.at) # "." /\ Peek(s, c.at + 1) # "."
      BY <2>2, <3>1
    <3> QED BY <2>1, <3>1, <3>2
  <2>4. CASE ~ named
    <3>1. a = c.at
      BY <1>2, <2>4
    <3> QED BY <1>5, <3>1
  <2> QED BY <2>3, <2>4
<1>9. Traced(s, i, d)
  BY <1>4, <1>5, <1>6, <1>7, <1>8, ValueTraced
<1>10. Calling(d)
  BY <1>1, <1>2, <1>3, <1>4, <1>7, ValueCalling
<1>11. ParseArg(s, c, sub) = IF Peek(s, d.at) = "," THEN Going([d EXCEPT !.at = @ + 1]) ELSE Stopped(d)
  BY <1>1, <1>2, <1>3, <1>4, Zenon DEF ParseArg
<1>12. Peek(s, d.at) = "," => Traced(s, i, [d EXCEPT !.at = @ + 1])
  BY <1>9, <1>10, PastTraced DEF Calling
<1>13. PICK e : e = [d EXCEPT !.at = @ + 1]
  OBVIOUS
<1>14. \A x : Going(x).made = x /\ Stopped(x).made = x
  BY DEF Going, Stopped
<1>15. CASE Peek(s, d.at) = ","
  <2>1. ParseArg(s, c, sub).made = e
    BY <1>11, <1>13, <1>14, <1>15
  <2> QED BY <1>12, <1>13, <1>15, <2>1
<1>16. CASE Peek(s, d.at) # ","
  <2>1. ParseArg(s, c, sub).made = d
    BY <1>11, <1>14, <1>16
  <2> QED BY <1>9, <2>1
<1> QED BY <1>15, <1>16

(* The loops.  Where the loop over postfixes has stopped no dot follows;   *)
(* while it goes on it is past one token more with every turn.             *)
Undotted(s, q) == q.errs = {} => Peek(s, q.at) # "."

Keeps(which, a, k, x) ==
  /\ Traced(a.s, a.from, x.made)
  /\ IF which = "args" THEN Calling(x.made) ELSE Grew(x.made)
  /\ which = "postfix" => IF x.on THEN x.made.at > k ELSE Undotted(a.s, x.made)
  /\ which = "infix" => Undotted(a.s, x.made)

LEMMA LoopTraced ==
  ASSUME NEW which, NEW a, NEW x, Keeps(which, a, 0, Going(x)), NEW bound \in Nat,
         \A k \in Nat : \A y : Keeps(which, a, k, y) => Keeps(which, a, k + 1, Turn(which, a, k + 1, y)),
         NEW f, Recurs(f, which, a, Going(x), bound)
  PROVE  Keeps(which, a, bound, f[bound])
<1> DEFINE S == {k \in Nat : k <= bound => Keeps(which, a, k, f[k])}
<1>1. f[0] = Going(x) /\ \A k \in 1 .. bound : f[k] = Turn(which, a, k, f[k - 1])
  BY RecursionTurns
<1>2. 0 \in S
  BY <1>1
<1>3. ASSUME NEW k \in Nat, k \in S
      PROVE  k + 1 \in S
  <2>1. ASSUME k + 1 <= bound
        PROVE  Keeps(which, a, k + 1, f[k + 1])
    <3>1. k + 1 \in 1 .. bound /\ (k + 1) - 1 = k /\ k <= bound
      BY <2>1
    <3>2. f[k + 1] = Turn(which, a, k + 1, f[k]) /\ Keeps(which, a, k, f[k])
      BY <1>1, <1>3, <3>1
    <3> QED BY <3>2
  <2> QED BY <2>1
<1>4. \A k \in Nat : k \in S => k + 1 \in S
  BY <1>3
<1> HIDE DEF S
<1>5. bound \in S
  BY <1>2, <1>4, Successors
<1> QED BY <1>5 DEF S

LEMMA ArgsTraced ==
  ASSUME NEW s, Len(s) \in Nat, NEW i \in Nat \ {0}, NEW c, Calling(c), Traced(s, i, c),
         NEW sub, Subs(sub), SubsTraced(s, sub)
  PROVE  Traced(s, i, ParseArgs(s, c, sub))
<1> DEFINE a == [s |-> s, sub |-> sub, from |-> i]
           n == Len(s) + 1
           Next2(x) == IF x.on THEN ParseArg(s, x.made, sub) ELSE x
<1>0. n \in Nat
  OBVIOUS
<1>1. PICK f : Recurs(f, "args", a, Going(c), n)
  BY <1>0, Recursion, Zenon
<1>2. \A x, k : Turn("args", a, k, x) = Next2(x)
  BY DEF Turn, Body
<1>3. f = [k \in 0 .. n |-> IF k = 0 THEN Going(c) ELSE Next2(f[k - 1])]
  BY <1>1, <1>2 DEF Recurs
<1>4. PICK g : g = CHOOSE x : x = [k \in 0 .. n |-> IF k = 0 THEN Going(c) ELSE Next2(x[k - 1])]
  OBVIOUS
<1>5. g = [k \in 0 .. n |-> IF k = 0 THEN Going(c) ELSE Next2(g[k - 1])]
  BY <1>3, <1>4, Zenon
<1>6. ParseArgs(s, c, sub) = g[n].made
  BY <1>4, Zenon DEF ParseArgs, Loop
<1>7. Recurs(g, "args", a, Going(c), n)
  BY <1>2, <1>5 DEF Recurs
<1>8. \A k, x : Keeps("args", a, k, x) <=> Traced(s, i, x.made) /\ Calling(x.made)
  BY DEF Keeps
<1>9. Keeps("args", a, 0, Going(c))
  BY <1>8 DEF Going
<1>10. ASSUME NEW k \in Nat, NEW x, Keeps("args", a, k, x)
       PROVE  Keeps("args", a, k + 1, Turn("args", a, k + 1, x))
  <2>1. Traced(s, i, x.made) /\ Calling(x.made)
    BY <1>8, <1>10
  <2>2. Traced(s, i, ParseArg(s, x.made, sub).made) /\ Calling(ParseArg(s, x.made, sub).made)
    BY <2>1, ArgTraced, ArgCalling
  <2>3. Turn("args", a, k + 1, x) \in {ParseArg(s, x.made, sub), x}
    BY <1>2
  <2> QED BY <1>8, <2>1, <2>2, <2>3
<1>11. Keeps("args", a, n, g[n])
  <2> HIDE DEF n, a
  <2> QED BY <1>0, <1>7, <1>9, <1>10, LoopTraced
<1> QED BY <1>6, <1>8, <1>11

LEMMA CallTraced ==
  ASSUME NEW s, Len(s) \in Nat, NEW i \in Nat \ {0}, NEW p, Grew(p), Traced(s, i, p),
         Peek(s, p.at) = "(", NEW sub, Subs(sub), SubsTraced(s, sub)
  PROVE  Traced(s, i, ParseCall(s, p, sub)) /\ ParseCall(s, p, sub).at > p.at
<1>1. PICK call : call = Made(Node("call", Peek(s, p.at), <<p.node>>), p.at + 1, p.errs)
  OBVIOUS
<1>2. IsTree(p.node) /\ p.at \in Nat /\ p.at + 1 \in Nat /\ i <= p.at /\ i <= p.at + 1
  BY DEF Grew, IsMade, Traced
<1>3. Calling(call) /\ call.at = p.at + 1
  BY <1>1, <1>2, TreeOfOne, MadeParts DEF Calling, Grew
<1>4. Traced(s, i, call)
  <2>1. PICK node : node = Node("call", Peek(s, p.at), <<p.node>>)
    OBVIOUS
  <2>2. IsTree(node) /\ Under(node) = {p.node} /\ node.kind = "call"
    BY <1>2, <2>1, TreeOfOne, UnderOf
  <2>3. p.errs = {} => Dotted(s, {p.node}) /\ Covered(s, i, p.at + 1, {p.node})
    BY <1>2, CoveredOn DEF Traced
  <2> QED BY <1>1, <1>2, <2>1, <2>2, <2>3, NodeTraced
<1>5. PICK x : x = IF Peek(s, call.at) = ")" THEN call ELSE ParseArgs(s, call, sub)
  OBVIOUS
<1>6. Traced(s, i, x) /\ Calling(x)
  BY <1>3, <1>4, <1>5, ArgsTraced, ArgsCalling
<1>7. ParseCall(s, p, sub) = Expected(s, ")", x)
  BY <1>1, <1>5, Zenon DEF ParseCall
<1>8. Traced(s, i, Expected(s, ")", x))
  BY <1>6, ClosingTraced DEF Calling, Grew
<1>9. Traced(s, call.at, x)
  <2>1. Covered(s, call.at, call.at, {call.node})
    BY <1>2, <1>3 DEF Covered
  <2>2. Traced(s, call.at, call)
    BY <1>2, <1>3, <1>4, <2>1 DEF Traced
  <2>3. call.at \in Nat \ {0}
    BY <1>2, <1>3
  <2> QED BY <1>3, <1>5, <2>2, <2>3, ArgsTraced
<1>10. call.at <= Expected(s, ")", x).at
  <2>1. Traced(s, call.at, Expected(s, ")", x))
    BY <1>2, <1>3, <1>6, <1>9, ClosingTraced DEF Calling, Grew
  <2> QED BY <2>1 DEF Traced
<1>11. Expected(s, ")", x).at \in Nat
  BY <1>6, ExpectedMade DEF Calling, Grew, IsMade
<1> QED BY <1>2, <1>3, <1>7, <1>8, <1>10, <1>11

LEMMA PostfixStepTraced ==
  ASSUME NEW s, Len(s) \in Nat, NEW i \in Nat \ {0}, NEW p, Grew(p), Traced(s, i, p),
         NEW sub, Subs(sub), SubsTraced(s, sub)
  PROVE  LET next == PostfixStep(s, p, sub)
         IN  /\ Traced(s, i, next.made)
             /\ IF next.on THEN next.made.at > p.at ELSE Undotted(s, next.made)
<1>0. PICK t, attr : t = Peek(s, p.at) /\ attr = Peek(s, p.at + 1)
  OBVIOUS
<1>1. IsMade(p) /\ IsTree(p.node) /\ p.at \in Nat \ {0} /\ i <= p.at
  BY DEF Grew, IsMade, Traced
<1>2. CASE t = "." /\ attr \in Ident
  <2>1. PICK node : node = Node("attribute", attr, <<p.node>>)
    OBVIOUS
  <2>2. PICK q : q = Made(node, p.at + 2, p.errs)
    OBVIOUS
  <2>3. q.node = node /\ q.at = p.at + 2 /\ q.errs = p.errs
    BY <2>2 DEF Made
  <2>4. PostfixStep(s, p, sub) = Going(q)
    BY <1>0, <1>2, <2>1, <2>2 DEF PostfixStep
  <2>5. /\ IsTree(node) /\ Under(node) = {p.node} /\ node.kind = "attribute"
        /\ node.tok = attr /\ node.kids[1] = p.node /\ node # NoNode
    BY <1>1, <2>1, TreeOfOne, TreeParts, UnderOf DEF Node
  <2>6. \A x : Attribute(x, node) <=> x = node \/ Attribute(x, p.node)
    BY <2>5, AttributeParts
  <2>7. ASSUME p.errs = {}
        PROVE  DotOf(s, p.at, node) /\ Dotted(s, {node}) /\ Covered(s, i, p.at + 2, {node})
    <3>1. Dotted(s, {p.node}) /\ Covered(s, i, p.at, {p.node})
      BY <2>7 DEF Traced
    <3>2. DotOf(s, p.at, node)
      BY <1>0, <1>2, <2>5, <2>7 DEF DotOf, Traced
    <3>3. Dotted(s, {node})
      <4>1. \A x : Attribute(x, p.node) => \E j \in Nat \ {0} : DotOf(s, j, x)
        BY <3>1 DEF Dotted
      <4> QED BY <1>1, <2>6, <3>2, <4>1 DEF Dotted
    <3>4. \A j \in i .. (p.at + 2) - 1 : j \in i .. p.at - 1 \/ j = p.at \/ j = p.at + 1
      BY <1>1
    <3>5. Peek(s, p.at + 1) # "."
      BY <1>0, <1>2, TokensAssumption
    <3>6. ASSUME NEW j \in i .. p.at - 1, Peek(s, j) = "."
          PROVE  \E x : Attribute(x, node) /\ DotOf(s, j, x)
      BY <2>6, <3>1, <3>6 DEF Covered
    <3>7. Attribute(node, node)
      BY <2>6
    <3>8. Covered(s, i, p.at + 2, {node})
      BY <3>2, <3>4, <3>5, <3>6, <3>7 DEF Covered
    <3> QED BY <3>2, <3>3, <3>8
  <2>8. Traced(s, i, q)
    <3>1. i <= q.at /\ q.node # NoNode /\ q.node.kind # "name"
      BY <1>1, <2>3, <2>5
    <3>2. q.errs = {} => Dotted(s, {q.node}) /\ Covered(s, i, q.at, {q.node})
      BY <2>3, <2>7
    <3> QED BY <3>1, <3>2 DEF Traced
  <2> QED BY <1>1, <2>3, <2>4, <2>8 DEF Going
<1>3. CASE t = "." /\ attr \notin Ident
  <2>1. PICK q : q = Made(p.node, p.at + 1, p.errs \union {p.at + 1})
    OBVIOUS
  <2>2. q.node = p.node /\ q.at = p.at + 1 /\ q.errs = p.errs \union {p.at + 1}
    BY <2>1 DEF Made
  <2>3. PostfixStep(s, p, sub) = Stopped(q)
    BY <1>0, <1>3, <2>1 DEF PostfixStep
  <2>4. q.errs # {} /\ i <= q.at /\ q.node # NoNode
    BY <1>1, <2>2, TreeParts
  <2> QED BY <2>3, <2>4 DEF Stopped, Undotted, Traced
<1>4. CASE t = "("
  <2>1. PostfixStep(s, p, sub) = Going(ParseCall(s, p, sub))
    BY <1>0, <1>4 DEF PostfixStep
  <2>2. /\ Traced(s, i, ParseCall(s, p, sub))
        /\ ParseCall(s, p, sub).at > p.at
    BY <1>0, <1>4, CallTraced
  <2> QED BY <2>1, <2>2 DEF Going
<1>5. CASE t # "." /\ t # "("
  <2>1. PostfixStep(s, p, sub) = Stopped(p)
    BY <1>0, <1>5 DEF PostfixStep
  <2> QED BY <1>0, <1>5, <2>1 DEF Stopped, Undotted
<1> QED BY <1>2, <1>3, <1>4, <1>5

LEMMA PostfixTraced ==
  ASSUME NEW s, Len(s) \in Nat, NEW i \in Nat \ {0}, NEW p, Grew(p), Traced(s, i, p),
         NEW sub, Subs(sub), SubsTraced(s, sub)
  PROVE  Traced(s, i, ParsePostfix(s, p, sub)) /\ Undotted(s, ParsePostfix(s, p, sub))
<1> DEFINE a == [s |-> s, sub |-> sub, from |-> i]
           n == Len(s) + 1
           Next2(x) == IF x.on THEN PostfixStep(s, x.made, sub) ELSE x
<1>0. n \in Nat
  OBVIOUS
<1>1. PICK f : Recurs(f, "postfix", a, Going(p), n)
  BY <1>0, Recursion, Zenon
<1>2. \A x, k : Turn("postfix", a, k, x) = Next2(x)
  BY DEF Turn, Body
<1>3. f = [k \in 0 .. n |-> IF k = 0 THEN Going(p) ELSE Next2(f[k - 1])]
  BY <1>1, <1>2 DEF Recurs
<1>4. PICK g : g = CHOOSE x : x = [k \in 0 .. n |-> IF k = 0 THEN Going(p) ELSE Next2(x[k - 1])]
  OBVIOUS
<1>5. g = [k \in 0 .. n |-> IF k = 0 THEN Going(p) ELSE Next2(g[k - 1])]
  BY <1>3, <1>4, Zenon
<1>6. ParsePostfix(s, p, sub) = g[n].made
  BY <1>4, Zenon DEF ParsePostfix, Loop
<1>7. Recurs(g, "postfix", a, Going(p), n)
  BY <1>2, <1>5 DEF Recurs
<1>8. \A k, x : Keeps("postfix", a, k, x) <=>
                  /\ Traced(s, i, x.made) /\ Grew(x.made)
                  /\ IF x.on THEN x.made.at > k ELSE Undotted(s, x.made)
  BY DEF Keeps
<1>9. Keeps("postfix", a, 0, Going(p))
  <2>1. p.at > 0
    BY DEF Grew, IsMade, Traced
  <2> QED BY <1>8, <2>1 DEF Going
<1>10. ASSUME NEW k \in Nat, NEW x, Keeps("postfix", a, k, x)
       PROVE  Keeps("postfix", a, k + 1, Turn("postfix", a, k + 1, x))
  <2>1. Traced(s, i, x.made) /\ Grew(x.made)
    BY <1>8, <1>10
  <2>2. CASE x.on
    <3>1. PICK next : next = PostfixStep(s, x.made, sub)
      OBVIOUS
    <3>2. Turn("postfix", a, k + 1, x) = next
      BY <1>2, <2>2, <3>1
    <3>3. /\ Traced(s, i, next.made) /\ Grew(next.made)
          /\ IF next.on THEN next.made.at > x.made.at ELSE Undotted(s, next.made)
      BY <2>1, <3>1, PostfixStepTraced, PostfixStepGrows
    <3>4. x.made.at > k /\ x.made.at \in Nat /\ next.made.at \in Nat
      BY <1>8, <1>10, <2>1, <2>2, <3>3 DEF Grew, IsMade
    <3>5. next.on => next.made.at > k + 1
      BY <3>3, <3>4
    <3> QED BY <1>8, <3>2, <3>3, <3>5
  <2>3. CASE ~ x.on
    <3>1. Turn("postfix", a, k + 1, x) = x
      BY <1>2, <2>3
    <3> QED BY <1>8, <1>10, <2>3, <3>1
  <2> QED BY <2>2, <2>3
<1>11. Keeps("postfix", a, n, g[n])
  <2> HIDE DEF n, a
  <2> QED BY <1>0, <1>7, <1>9, <1>10, LoopTraced
<1>12. PICK q : q = g[n].made
  OBVIOUS
<1>13. Traced(s, i, q) /\ Grew(q) /\ (g[n].on => q.at > n)
  BY <1>8, <1>11, <1>12
<1>14. Undotted(s, q)
  <2>1. CASE g[n].on
    <3>1. Peek(s, q.at) = EOF
      BY <1>13, <2>1 DEF Peek, Grew, IsMade
    <3> QED BY <3>1 DEF Undotted, EOF
  <2>2. CASE ~ g[n].on
    BY <1>8, <1>11, <1>12, <2>2
  <2> QED BY <2>1, <2>2
<1> QED BY <1>6, <1>12, <1>13, <1>14

LEMMA InfixStepTraced ==
  ASSUME NEW s, Len(s) \in Nat, NEW i \in Nat \ {0}, NEW p, Grew(p), Traced(s, i, p),
         Undotted(s, p), NEW bp, NEW sub, Subs(sub), SubsTraced(s, sub)
  PROVE  /\ Traced(s, i, InfixStep(s, p, bp, sub).made)
         /\ Undotted(s, InfixStep(s, p, bp, sub).made)
<1>0. PICK t : t = Peek(s, p.at)
  OBVIOUS
<1>1. IsMade(p) /\ IsTree(p.node) /\ p.node # NoNode /\ p.at \in Nat \ {0} /\ i <= p.at
  BY TreeParts DEF Grew, IsMade, Traced
<1>2. CASE t \in {EOF, ")", ","} \/ Lbp(t) < bp
  <2>1. InfixStep(s, p, bp, sub) = Stopped(p)
    BY <1>0, <1>2 DEF InfixStep
  <2> QED BY <2>1 DEF Stopped
<1>3. CASE ~ (t \in {EOF, ")", ","} \/ Lbp(t) < bp) /\ p.node.kind = "compare" /\ t \in Comparison
  <2>1. PICK q : q = Made(p.node, p.at, p.errs \union {p.at})
    OBVIOUS
  <2>2. q.node = p.node /\ q.at = p.at /\ q.errs = p.errs \union {p.at}
    BY <2>1 DEF Made
  <2>3. InfixStep(s, p, bp, sub) = Stopped(q)
    BY <1>0, <1>1, <1>3, <2>1, MadeWith DEF InfixStep
  <2>4. q.errs # {} /\ i <= q.at /\ q.node # NoNode
    BY <1>1, <2>2
  <2> QED BY <2>3, <2>4 DEF Stopped, Undotted, Traced
<1>4. CASE ~ (t \in {EOF, ")", ","} \/ Lbp(t) < bp) /\ ~ (p.node.kind = "compare" /\ t \in Comparison)
  <2>1. PICK r : r = sub[<<p.at + 1, Lbp(t) + 1>>]
    OBVIOUS
  <2>2. InfixStep(s, p, bp, sub) = ParseRight(s, p, r, sub)
    BY <1>0, <1>4, <2>1 DEF InfixStep
  <2>3. Lbp(t) + 1 \in Nat
    BY DEF Lbp
  <2>4. /\ Whole(r) /\ r.at \in Nat /\ Traced(s, p.at + 1, r) /\ p.at + 1 <= r.at /\ i <= r.at
    <3>1. p.at + 1 \in Nat \ {0}
      BY <1>1
    <3>2. Whole(r) /\ Traced(s, p.at + 1, r)
      BY <2>1, <2>3, <3>1 DEF Subs, SubsTraced
    <3>3. r.at \in Nat /\ p.at + 1 <= r.at
      BY <3>2 DEF Whole, IsMade, Traced
    <3> QED BY <1>1, <3>2, <3>3
  <2>5. CASE r.node = NoNode
    <3>1. PICK q : q = Made(p.node, r.at, p.errs \union r.errs)
      OBVIOUS
    <3>2. ParseRight(s, p, r, sub) = Stopped(q)
      BY <2>5, <3>1 DEF ParseRight
    <3>3. q.node = p.node /\ q.at = r.at /\ q.errs = p.errs \union r.errs
      BY <3>1 DEF Made
    <3>4. q.errs # {} /\ q.node # NoNode
      BY <1>1, <2>4, <2>5, <3>3 DEF Traced
    <3> QED BY <2>2, <2>4, <3>2, <3>3, <3>4 DEF Stopped, Undotted, Traced
  <2>6. CASE r.node # NoNode
    <3>1. PICK kind : kind = IF t \in Comparison THEN "compare" ELSE "binary"
      OBVIOUS
    <3>2. PICK node : node = Node(kind, t, <<p.node, r.node>>)
      OBVIOUS
    <3>3. kind \in {"binary", "compare"} /\ (kind = "compare" <=> t \in Comparison)
      BY <3>1
    <3>4. IsTree(r.node)
      BY <2>4, <2>6 DEF Whole
    <3>5. IsTree(node) /\ Under(node) = {p.node} \union {r.node} /\ node.kind = kind
      BY <1>1, <3>2, <3>3, <3>4, TreeOfTwo, UnderOf DEF Node
    <3>6. PICK q : q = Operated(t, p, r)
      OBVIOUS
    <3>7. q = Made(node, r.at, p.errs \union r.errs)
      BY <3>1, <3>2, <3>6 DEF Operated
    <3>8. ParseRight(s, p, r, sub) = Going(ParsePostfix(s, q, sub))
      BY <1>0, <2>6, <3>6 DEF ParseRight
    <3>9. Grew(q)
      BY <2>4, <3>5, <3>7, MadeParts DEF Grew
    <3>10. ASSUME p.errs = {}, r.errs = {}
           PROVE  Dotted(s, Under(node)) /\ Covered(s, i, r.at, Under(node))
      <4>1. /\ Dotted(s, {p.node}) /\ Covered(s, i, p.at, {p.node})
            /\ Dotted(s, {r.node}) /\ Covered(s, p.at + 1, r.at, {r.node})
        BY <2>4, <3>10 DEF Traced
      <4>2. \A m \in p.at .. (p.at + 1) - 1 : Peek(s, m) # "."
        BY <1>1, <3>10 DEF Undotted
      <4>3. Dotted(s, Under(node))
        BY <3>5, <4>1, DottedBoth
      <4>4. p.at + 1 \in Nat /\ i \in Nat /\ p.at \in Nat
        BY <1>1
      <4>5. Covered(s, i, r.at, {p.node} \union {r.node})
        BY <2>4, <4>1, <4>2, <4>4, CoveredBoth
      <4> QED BY <3>5, <4>3, <4>5
    <3>11. Traced(s, i, q)
      BY <2>4, <3>3, <3>5, <3>7, <3>10, NodeTraced
    <3> QED BY <2>2, <3>8, <3>9, <3>11, PostfixTraced DEF Going
  <2> QED BY <2>5, <2>6
<1> QED BY <1>2, <1>3, <1>4

LEMMA InfixTraced ==
  ASSUME NEW s, Len(s) \in Nat, NEW i \in Nat \ {0}, NEW p, Grew(p), Traced(s, i, p),
         Undotted(s, p), NEW bp, NEW sub, Subs(sub), SubsTraced(s, sub)
  PROVE  Traced(s, i, ParseInfix(s, p, bp, sub))
<1> DEFINE a == [s |-> s, bp |-> bp, sub |-> sub, from |-> i]
           n == Len(s) + 1
           Next2(x) == IF x.on THEN InfixStep(s, x.made, bp, sub) ELSE x
<1>0. n \in Nat
  OBVIOUS
<1>1. PICK f : Recurs(f, "infix", a, Going(p), n)
  BY <1>0, Recursion, Zenon
<1>2. \A x, k : Turn("infix", a, k, x) = Next2(x)
  BY DEF Turn, Body
<1>3. f = [k \in 0 .. n |-> IF k = 0 THEN Going(p) ELSE Next2(f[k - 1])]
  BY <1>1, <1>2 DEF Recurs
<1>4. PICK g : g = CHOOSE x : x = [k \in 0 .. n |-> IF k = 0 THEN Going(p) ELSE Next2(x[k - 1])]
  OBVIOUS
<1>5. g = [k \in 0 .. n |-> IF k = 0 THEN Going(p) ELSE Next2(g[k - 1])]
  BY <1>3, <1>4, Zenon
<1>6. ParseInfix(s, p, bp, sub) = g[n].made
  BY <1>4, Zenon DEF ParseInfix, Loop
<1>7. Recurs(g, "infix", a, Going(p), n)
  BY <1>2, <1>5 DEF Recurs
<1>8. \A k, x : Keeps("infix", a, k, x) <=>
                  Traced(s, i, x.made) /\ Grew(x.made) /\ Undotted(s, x.made)
  BY DEF Keeps
<1>9. Keeps("infix", a, 0, Going(p))
  BY <1>8 DEF Going
<1>10. ASSUME NEW k \in Nat, NEW x, Keeps("infix", a, k, x)
       PROVE  Keeps("infix", a, k + 1, Turn("infix", a, k + 1, x))
  <2>1. Traced(s, i, x.made) /\ Grew(x.made) /\ Undotted(s, x.made)
    BY <1>8, <1>10
  <2>2. PICK next : next = InfixStep(s, x.made, bp, sub)
    OBVIOUS
  <2>3. Traced(s, i, next.made) /\ Grew(next.made) /\ Undotted(s, next.made)
    BY <2>1, <2>2, InfixStepTraced, InfixStepGrows
  <2>4. Turn("infix", a, k + 1, x) \in {next, x}
    BY <1>2, <2>2
  <2> QED BY <1>8, <2>1, <2>3, <2>4
<1>11. Keeps("infix", a, n, g[n])
  <2> HIDE DEF n, a
  <2> QED BY <1>0, <1>7, <1>9, <1>10, LoopTraced
<1> QED BY <1>6, <1>8, <1>11

LEMMA ParseFromTraced ==
  ASSUME NEW s, Len(s) \in Nat, NEW i \in Nat \ {0}, NEW p, Whole(p), Traced(s, i, p),
         NEW bp, NEW sub, Subs(sub), SubsTraced(s, sub)
  PROVE  Traced(s, i, ParseFrom(s, p, bp, sub))
<1>1. CASE p.node = NoNode
  BY <1>1 DEF ParseFrom
<1>2. CASE p.node # NoNode
  <2>1. PICK q : q = ParsePostfix(s, p, sub)
    OBVIOUS
  <2>2. Grew(p)
    BY <1>2 DEF Whole, Grew
  <2>3. Grew(q) /\ Traced(s, i, q) /\ Undotted(s, q)
    BY <2>1, <2>2, PostfixGrows, PostfixTraced
  <2>4. Traced(s, i, ParseInfix(s, q, bp, sub))
    BY <2>3, InfixTraced
  <2> QED BY <1>2, <2>1, <2>4 DEF ParseFrom
<1> QED BY <1>1, <1>2

LEMMA ParseExprTraced ==
  ASSUME NEW s, Len(s) \in Nat, NEW i \in Nat \ {0}, NEW bp \in Nat
  PROVE  Traced(s, i, ParseExpr(s, i, bp))
<1>0. PICK g : Parses(g, s, i, bp)
  BY ParseLevels
<1>1. /\ g[0] = [c \in Nat \X Nat |-> Made(NoNode, c[1], {c[1]})]
      /\ \A n \in 1 .. Levels :
           g[n] = [c \in Nat \X Nat |->
                     ParseFrom(s, ParsePrefix(s, c[1], g[n - 1]), c[2], g[n - 1])]
      /\ ParseExpr(s, i, bp) = g[Levels][<<i, bp>>]
  BY <1>0 DEF Parses
<1> DEFINE S == {n \in Nat : n <= Levels => Subs(g[n]) /\ SubsTraced(s, g[n])}
<1>2. 0 \in S
  <2>1. ASSUME NEW j \in Nat, NEW k \in Nat
        PROVE  Whole(g[0][<<j, k>>]) /\ Traced(s, j, g[0][<<j, k>>])
    <3>1. g[0][<<j, k>>] = Made(NoNode, j, {j})
      BY <1>1
    <3>2. PICK q : q = Made(NoNode, j, {j})
      OBVIOUS
    <3>3. q.node = NoNode /\ q.at = j /\ q.errs = {j} /\ IsMade(q)
      BY <3>2, MadeParts DEF Made
    <3>4. Whole(q) /\ Traced(s, j, q)
      BY <3>3 DEF Whole, Traced
    <3> QED BY <3>1, <3>2, <3>4
  <2> QED BY <2>1 DEF Subs, SubsTraced
<1>3. ASSUME NEW n \in Nat, n \in S
      PROVE  n + 1 \in S
  <2>1. ASSUME n + 1 <= Levels, NEW j \in Nat, NEW k \in Nat
        PROVE  /\ Whole(g[n + 1][<<j, k>>])
               /\ j # 0 => Traced(s, j, g[n + 1][<<j, k>>])
    <3>1. n + 1 \in 1 .. Levels /\ (n + 1) - 1 = n /\ n <= Levels
      BY <2>1, LevelsAssumption
    <3>2. Subs(g[n]) /\ SubsTraced(s, g[n])
      BY <1>3, <3>1
    <3>3. g[n + 1][<<j, k>>] = ParseFrom(s, ParsePrefix(s, j, g[n]), k, g[n])
      <4>1. g[n + 1] = [c \in Nat \X Nat |->
                          ParseFrom(s, ParsePrefix(s, c[1], g[n]), c[2], g[n])]
        BY <1>1, <3>1
      <4> QED BY <4>1
    <3>4. PICK p : p = ParsePrefix(s, j, g[n])
      OBVIOUS
    <3>5. Whole(p) /\ (j # 0 => Traced(s, j, p))
      BY <3>2, <3>4, PrefixWhole, PrefixTraced
    <3> QED BY <3>2, <3>3, <3>4, <3>5, ParseFromWhole, ParseFromTraced
  <2> QED BY <2>1 DEF Subs, SubsTraced
<1>4. \A n \in Nat : n \in S => n + 1 \in S
  BY <1>3
<1> HIDE DEF S
<1>5. Levels \in S
  BY <1>2, <1>4, Successors, LevelsAssumption
<1>6. SubsTraced(s, g[Levels])
  BY <1>5, LevelsAssumption DEF S
<1> QED BY <1>1, <1>6 DEF SubsTraced

(* An accepted text: the dots of its attributes are all its dots.          *)
LEMMA ParseUntilTraced ==
  ASSUME NEW s \in Seq(STRING), ParseUntil(s).errs = {}
  PROVE  IF ParseUntil(s).node = NoNode THEN s = <<>>
         ELSE LET X == {ParseUntil(s).node} IN Dotted(s, X) /\ Covered(s, 1, Len(s) + 1, X)
<1>1. Len(s) \in Nat
  OBVIOUS
<1>2. PICK p : p = ParseTokens(s)
  OBVIOUS
<1>3. PICK open : ParseUntil(s) = [p EXCEPT !.errs = p.errs \union open]
  <2>1. PICK a, b, c : ParseUntil(s) = [p EXCEPT !.errs = ((p.errs \union a) \union b) \union c]
    BY <1>2, Zenon DEF ParseUntil
  <2>2. ((p.errs \union a) \union b) \union c = p.errs \union (a \union b \union c)
    OBVIOUS
  <2> QED BY <2>1, <2>2
<1>4. CASE s = <<>>
  <2>1. p = Made(NoNode, 1, {})
    BY <1>2, <1>4 DEF ParseTokens
  <2>2. ParseUntil(s).node = NoNode
    BY <1>3, <2>1, MadeWith, MadeParts DEF Made
  <2> QED BY <1>4, <2>2
<1>5. CASE s # <<>>
  <2>1. PICK q : q = ParseExpr(s, 1, 0)
    OBVIOUS
  <2>2. Whole(q) /\ IsMade(q) /\ Traced(s, 1, q) /\ q.at \in Nat
    BY <1>1, <2>1, ParseExprWhole, ParseExprTraced DEF Whole, IsMade
  <2>3. p = AllRead(s, q)
    BY <1>2, <1>5, <2>1 DEF ParseTokens
  <2>4. p = IF q.node # NoNode /\ q.at <= Len(s)
            THEN Made(q.node, q.at, q.errs \union {q.at}) ELSE q
    BY <2>2, <2>3, MadeWith, ZenonT(30) DEF AllRead
  <2>5. IsMade(p) /\ p.node = q.node /\ q.errs \subseteq p.errs
    BY <2>2, <2>4, MadeParts DEF Made
  <2>6. ParseUntil(s).node = q.node /\ p.errs \subseteq ParseUntil(s).errs
    BY <1>3, <2>5, MadeWith, MadeParts DEF Made, IsMade
  <2>7. q.errs = {} /\ p.errs = {}
    BY <2>5, <2>6
  <2>8. q.node # NoNode /\ Dotted(s, {q.node}) /\ Covered(s, 1, q.at, {q.node})
    BY <2>2, <2>7 DEF Traced
  <2>9. q.at >= Len(s) + 1
    BY <1>1, <2>2, <2>4, <2>7, <2>8 DEF Made
  <2>10. Covered(s, 1, Len(s) + 1, {q.node})
    BY <1>1, <2>2, <2>8, <2>9 DEF Covered
  <2> QED BY <2>6, <2>8, <2>10
<1> QED BY <1>4, <1>5

-----------------------------------------------------------------------------
(* The dotted name of an attribute.                                        *)
LEMMA EndsSomewhere ==
  ASSUME NEW x
  PROVE  \E k \in 0 .. Levels : Ends(x, k)
<1> SUFFICES ASSUME \A k \in 0 .. Levels : ~ Ends(x, k)
             PROVE  FALSE
  OBVIOUS
<1> DEFINE S == {k \in Nat : k <= Levels => \A j \in 0 .. k - 1 : Base(x, j).kind = "attribute"}
<1>1. 0 \in S
  OBVIOUS
<1>2. ASSUME NEW k \in Nat, k \in S
      PROVE  k + 1 \in S
  <2>1. ASSUME k + 1 <= Levels
        PROVE  \A j \in 0 .. (k + 1) - 1 : Base(x, j).kind = "attribute"
    <3>1. k \in 0 .. Levels /\ k <= Levels
      BY <2>1, LevelsAssumption
    <3>2. \A j \in 0 .. k - 1 : Base(x, j).kind = "attribute"
      BY <1>2, <3>1
    <3>3. Base(x, k).kind = "attribute"
      BY <3>1, <3>2 DEF Ends
    <3>4. \A j \in 0 .. (k + 1) - 1 : j \in 0 .. k - 1 \/ j = k
      OBVIOUS
    <3> QED BY <3>2, <3>3, <3>4
  <2> QED BY <2>1
<1>3. \A k \in Nat : k \in S => k + 1 \in S
  BY <1>2
<1> HIDE DEF S
<1>4. Levels \in S
  BY <1>1, <1>3, Successors, LevelsAssumption
<1>5. \A j \in 0 .. Levels - 1 : Base(x, j).kind = "attribute"
  BY <1>4, LevelsAssumption DEF S
<1> QED BY <1>5, LevelsAssumption DEF Ends

LEMMA AttributeName ==
  ASSUME NEW x, x.kind = "attribute", Levels > 0
  PROVE  /\ x.kids[1].kind = "name" => DottedName(x) = <<x.kids[1].tok, x.tok>>
         /\ Len(DottedName(x)) = 2 => x.kids[1].kind = "name"
         /\ Len(DottedName(x)) # 1
<1> DEFINE n == CHOOSE k \in 0 .. Levels : Ends(x, k)
<1>1. DottedName(x) = Parts(x, n)
  BY Zenon DEF DottedName, Parts, Ends
<1>2. Base(x, 0) = x /\ Base(x, 1) = x.kids[1]
  <2>1. [j \in 1 .. 0 |-> 1] = <<>> /\ [j \in 1 .. 1 |-> 1] = <<1>> /\ Append(<<>>, 1) = <<1>>
    OBVIOUS
  <2>2. <<>> \in Path /\ 1 \in Nat
    BY DEF Path
  <2>3. At(x, <<>>) = x /\ At(x, Append(<<>>, 1)) = At(x, <<>>).kids[1]
    BY <2>2, AtHere, AtLast, ZenonT(30)
  <2> QED BY <2>1, <2>3 DEF Base
<1>3. \E k \in 0 .. Levels : Ends(x, k)
  BY EndsSomewhere
<1>4. n \in 0 .. Levels /\ Ends(x, n)
  BY <1>3
<1> HIDE DEF n
<1>5. n # 0
  BY <1>2, <1>4 DEF Ends
<1>6. CASE Base(x, n).kind = "name"
  <2>1. DottedName(x) = [i \in 1 .. n + 1 |-> Base(x, n + 1 - i).tok]
    BY <1>1, <1>6 DEF Parts
  <2>2. Len(DottedName(x)) = n + 1
    BY <1>4, <2>1, LevelsAssumption
  <2>3. n = 1 => DottedName(x) = <<x.kids[1].tok, x.tok>>
    <3>1. ASSUME n = 1
          PROVE  DottedName(x) = <<x.kids[1].tok, x.tok>>
      <4>1. DottedName(x) = [i \in 1 .. 2 |-> Base(x, 2 - i).tok]
        BY <2>1, <3>1
      <4>2. [i \in 1 .. 2 |-> Base(x, 2 - i).tok] = <<Base(x, 1).tok, Base(x, 0).tok>>
        OBVIOUS
      <4> QED BY <1>2, <4>1, <4>2
    <3> QED BY <3>1
  <2>4. x.kids[1].kind = "name" => n = 1
    BY <1>2, <1>4, <1>5 DEF Ends
  <2> QED BY <1>2, <1>4, <1>5, <1>6, <2>2, <2>3, <2>4
<1>7. CASE Base(x, n).kind # "name"
  <2>1. DottedName(x) = <<>>
    BY <1>1, <1>7 DEF Parts
  <2>2. x.kids[1].kind = "name" => n = 1
    BY <1>2, <1>4, <1>5 DEF Ends
  <2> QED BY <1>2, <1>7, <2>1, <2>2
<1> QED BY <1>6, <1>7

(* The trees the walk over all of a tree gets to, by how deep they are.    *)
Walked(r, node) ==
  /\ r[0] = {node}
  /\ \A k \in 1 .. Levels : r[k] = r[k - 1] \union UNION {Under(x) : x \in r[k - 1]}
  /\ Reached(node, Under) = r[Levels]

LEMMA ReachedWalked ==
  ASSUME NEW node
  PROVE  \E r : Walked(r, node)
<1> DEFINE base == {node}
           Level(t, k) == IF k = 0 THEN {node}
                          ELSE t[k - 1] \union UNION {Under(x) : x \in t[k - 1]}
<1>1. PICK f : Recurs(f, "walked", 0, base, Levels)
  BY Recursion, LevelsAssumption
<1>2. ASSUME NEW t, NEW k \in 0 .. Levels
      PROVE  Level(t, k) = IF k = 0 THEN base ELSE Turn("walked", 0, k, t[k - 1])
  BY DEF Turn
<1> HIDE DEF Level, base
<1>3. f = [k \in 0 .. Levels |-> Level(f, k)]
  BY <1>1, <1>2 DEF Recurs
<1>4. PICK r : r = CHOOSE t : t = [k \in 0 .. Levels |-> Level(t, k)]
  OBVIOUS
<1>5. r = [k \in 0 .. Levels |-> Level(r, k)]
  BY <1>3, <1>4, Zenon
<1>6. Reached(node, Under) = r[Levels]
  BY <1>4, Zenon DEF Reached, Level
<1>7. \A k \in 0 .. Levels : r[k] = Level(r, k)
  BY <1>5, Zenon
<1>8. r[0] = {node}
  <2>1. 0 \in 0 .. Levels
    BY LevelsAssumption
  <2> QED BY <1>7, <2>1 DEF Level
<1>9. ASSUME NEW k \in 1 .. Levels
      PROVE  r[k] = r[k - 1] \union UNION {Under(x) : x \in r[k - 1]}
  <2>1. k \in 0 .. Levels /\ k # 0
    BY LevelsAssumption
  <2> QED BY <1>7, <2>1, Zenon DEF Level
<1> QED BY <1>6, <1>8, <1>9, Zenon DEF Walked

(* It gets to no other tree, and what it gets to it keeps.                 *)
LEMMA WalkedInside ==
  ASSUME NEW node, IsTree(node), NEW r, Walked(r, node)
  PROVE  \A x \in Reached(node, Under) : Inside(x, node)
<1> DEFINE S == {k \in Nat : k <= Levels => \A x \in r[k] : Inside(x, node)}
<1>1. 0 \in S
  BY DEF Walked, Inside
<1>2. ASSUME NEW k \in Nat, k \in S
      PROVE  k + 1 \in S
  <2>1. ASSUME k + 1 <= Levels, NEW x \in r[k + 1]
        PROVE  Inside(x, node)
    <3>1. k + 1 \in 1 .. Levels /\ (k + 1) - 1 = k /\ k <= Levels
      BY <2>1, LevelsAssumption
    <3>2. r[k + 1] = r[k] \union UNION {Under(y) : y \in r[k]}
      BY <3>1 DEF Walked
    <3>3. \A y \in r[k] : Inside(y, node)
      BY <1>2, <3>1
    <3>4. \A y \in r[k] : \A z \in Under(y) : Inside(z, node)
      BY <3>3, KidsGrow DEF Inside
    <3> QED BY <2>1, <3>2, <3>3, <3>4
  <2> QED BY <2>1
<1>3. \A k \in Nat : k \in S => k + 1 \in S
  BY <1>2
<1> HIDE DEF S
<1>4. Levels \in S
  BY <1>1, <1>3, Successors, LevelsAssumption
<1> QED BY <1>4, LevelsAssumption DEF S, Walked

LEMMA NearerWalked ==
  ASSUME NEW r, NEW node, Walked(r, node), NEW k \in 0 .. Levels
  PROVE  r[k] \subseteq Reached(node, Under)
<1> DEFINE S == {j \in Nat : k + j <= Levels => r[k] \subseteq r[k + j]}
<1>0. k \in Nat /\ Levels \in Nat
  BY LevelsAssumption
<1>1. 0 \in S
  <2>1. k + 0 = k
    BY <1>0
  <2> QED BY <2>1
<1>2. ASSUME NEW j \in Nat, j \in S
      PROVE  j + 1 \in S
  <2>1. ASSUME k + (j + 1) <= Levels
        PROVE  r[k] \subseteq r[k + (j + 1)]
    <3>1. k + (j + 1) \in 1 .. Levels /\ (k + (j + 1)) - 1 = k + j /\ k + j <= Levels
      BY <1>0, <2>1
    <3>2. r[k + j] \subseteq r[k + (j + 1)]
      BY <3>1 DEF Walked
    <3>3. r[k] \subseteq r[k + j]
      BY <1>2, <3>1
    <3> QED BY <3>2, <3>3
  <2> QED BY <2>1
<1>3. \A j \in Nat : j \in S => j + 1 \in S
  BY <1>2
<1> HIDE DEF S
<1>4. Levels - k \in S /\ k + (Levels - k) = Levels
  <2>1. Levels - k \in Nat /\ k + (Levels - k) = Levels
    BY <1>0
  <2> QED BY <1>1, <1>3, <2>1, Successors
<1>5. r[k] \subseteq r[Levels]
  BY <1>0, <1>4 DEF S
<1> QED BY <1>5 DEF Walked

-----------------------------------------------------------------------------
(* The attributes of a tree are among those of R, and each is that of a    *)
(* name.                                                                   *)
PlainIn(R, y) == \A x : Attribute(x, y) => x \in R /\ x.kids[1].kind = "name"

LEMMA LeafPlain ==
  ASSUME NEW y, IsTree(y), y.kind \in {"literal", "name"}, NEW R
  PROVE  PlainIn(R, y)
<1>1. PICK T : y \in T /\ Grown(T)
  BY DEF IsTree
<1>2. Len(y.kids) = 0 /\ y.kids \in Seq(T) /\ y.kw = <<>>
  BY <1>1 DEF Grown, IsNode, HasShape
<1>3. Under(y) = {}
  BY <1>2 DEF Under
<1> QED BY <1>3, AttributeParts DEF PlainIn

LEMMA ChainNames ==
  ASSUME NEW dn \in DOMAIN EnvTypes("chain")
  PROVE  Len(dn) = 2
<1>1. \E base, attrs : dn \in Within(base, attrs)
  BY EitherFunction DEF EnvTypes
<1> QED BY <1>1, NameParts

LEMMA NodePlain ==
  ASSUME NEW T, Grown(T), NEW y \in T, Levels > 0, NEW kid,
         kid = [i \in 1 .. Len(y.kids) |-> kid[i]], InferNode(y, kid, EnvTypes("chain")).ok,
         NEW R, y \in R, \A i \in 1 .. Len(y.kids) : kid[i].ok => PlainIn(R, y.kids[i])
  PROVE  PlainIn(R, y)
<1>1. IsTree(y) /\ \A z \in Under(y) : IsTree(z)
  BY KidsGrow DEF IsTree
<1>2. /\ HasShape(y.kind, y.tok, Len(y.kids)) /\ y.kids \in Seq(T)
      /\ y.kind # "call" => y.kw = <<>>
  BY DEF Grown, IsNode
<1>3. PICK n \in Nat : n = Len(y.kids) /\ DOMAIN y.kids = 1 .. n
  BY <1>2
<1>4. y.kw = <<>>
  BY <1>2, KidsWell
<1>5. Under(y) = {y.kids[i] : i \in 1 .. n}
  BY <1>3, <1>4 DEF Under
<1>6. CASE y.kind \in {"literal", "name"}
  BY <1>1, <1>6, LeafPlain
<1>7. CASE y.kind = "attribute"
  <2>1. DottedName(y) \in DOMAIN EnvTypes("chain")
    BY <1>7, KidsWell
  <2>2. Len(DottedName(y)) = 2
    BY <2>1, ChainNames
  <2>3. y.kids[1].kind = "name" /\ n = 1
    BY <1>2, <1>3, <1>7, <2>2, AttributeName DEF HasShape
  <2>4. Under(y) = {y.kids[1]}
    BY <1>5, <2>3
  <2>5. PlainIn({}, y.kids[1])
    BY <1>1, <2>3, <2>4, LeafPlain
  <2> QED BY <1>1, <2>3, <2>4, <2>5, AttributeParts DEF PlainIn
<1>8. CASE y.kind \in {"unary", "binary", "compare"}
  <2>1. \A i \in 1 .. Len(y.kids) : kid[i].ok
    BY <1>8, KidsWell
  <2>2. \A i \in 1 .. n : PlainIn(R, y.kids[i])
    BY <1>3, <2>1
  <2>3. y.kind # "attribute"
    BY <1>8
  <2> QED BY <1>1, <1>5, <2>2, <2>3, AttributeParts DEF PlainIn
<1>9. CASE y.kind = "call"
  <2>1. /\ DottedName(y.kids[1]) \in {<<f>> : f \in FunctionNames}
        /\ \A i \in 2 .. Len(y.kids) : kid[i].ok
    BY <1>9, KidsWell
  <2>2. 1 \in 1 .. n /\ IsTree(y.kids[1])
    <3>1. n > 0
      BY <1>2, <1>3, <1>9 DEF HasShape
    <3> QED BY <1>1, <1>3, <1>5, <3>1
  <2>3. Len(DottedName(y.kids[1])) = 1
    BY <2>1, NameParts
  <2>4. y.kids[1].kind # "attribute"
    BY <2>3, AttributeName
  <2>5. y.kids[1].kind = "name"
    <3>1. DottedName(y.kids[1]) # <<>>
      BY <2>3
    <3> QED BY <2>4, <3>1, NameItself
  <2>6. PlainIn(R, y.kids[1])
    BY <2>2, <2>5, LeafPlain
  <2>7. ASSUME NEW i \in 2 .. n
        PROVE  PlainIn(R, y.kids[i])
    <3>1. i \in 2 .. Len(y.kids) /\ i \in 1 .. Len(y.kids)
      BY <1>3
    <3>2. kid[i].ok
      BY <2>1, <3>1
    <3> QED BY <3>1, <3>2
  <2>8. \A i \in 1 .. n : PlainIn(R, y.kids[i])
    <3>1. \A i \in 1 .. n : i = 1 \/ i \in 2 .. n
      BY <1>3
    <3> QED BY <2>6, <2>7, <3>1
  <2>9. y.kind # "attribute"
    BY <1>9
  <2> QED BY <1>1, <1>5, <2>8, <2>9, AttributeParts DEF PlainIn
<1> QED BY <1>2, <1>6, <1>7, <1>8, <1>9 DEF HasShape

(* A tree that is well typed in a chain: each of its attributes is that of *)
(* a name, and the walk gets to it.                                        *)
LEMMA TreePlain ==
  ASSUME NEW node, IsTree(node), Infer(node, EnvTypes("chain")).ok
  PROVE  PlainIn(Reached(node, Under), node)
<1>1. PICK T : node \in T /\ Grown(T)
  BY DEF IsTree
<1>2. PICK r : Walked(r, node)
  BY ReachedWalked
<1>3. PICK env : env = EnvTypes("chain")
  OBVIOUS
<1>4. InferTo(node, env, Levels).ok /\ Levels > 0
  <2>1. InferTo(node, env, Levels).ok
    BY <1>1, <1>3, InferGoesDown
  <2> QED BY <1>1, <2>1, WellIsDeep, LevelsAssumption
<1>5. PICK R : R = Reached(node, Under)
  OBVIOUS
<1> DEFINE Plain(y, n) == InferTo(y, env, n).ok => PlainIn(R, y)
           S == {n \in Nat : n <= Levels => \A y \in r[Levels - n] : y \in T => Plain(y, n)}
<1>6. 0 \in S
  <2>1. ~ Typed("Unknown", FALSE).ok
    BY DEF Typed
  <2>2. \A y \in T : ~ InferTo(y, env, 0).ok
    BY <1>1, <2>1, InferGoesDown
  <2> QED BY <2>2
<1>7. ASSUME NEW n \in Nat, n \in S
      PROVE  n + 1 \in S
  <2>1. ASSUME n + 1 <= Levels, NEW y \in r[Levels - (n + 1)], y \in T,
               InferTo(y, env, n + 1).ok
        PROVE  PlainIn(R, y)
    <3>1. /\ n + 1 \in 1 .. Levels /\ (n + 1) - 1 = n /\ n <= Levels
          /\ Levels - (n + 1) \in 0 .. Levels /\ Levels - n \in 1 .. Levels
          /\ (Levels - n) - 1 = Levels - (n + 1)
      BY <2>1, LevelsAssumption
    <3>2. y \in R
      BY <1>2, <1>5, <2>1, <3>1, NearerWalked
    <3>3. PICK kid : kid = KidTypes(y, env, n)
      OBVIOUS
    <3>4. kid = [i \in 1 .. Len(y.kids) |-> kid[i]] /\ InferNode(y, kid, env).ok
      <4>1. kid = [i \in 1 .. Len(y.kids) |-> kid[i]]
        BY <3>3 DEF KidTypes
      <4>2. InferTo(y, env, n + 1) = InferNode(y, kid, env)
        BY <1>1, <2>1, <3>1, <3>3, InferGoesDown
      <4> QED BY <2>1, <4>1, <4>2
    <3>5. ASSUME NEW i \in 1 .. Len(y.kids), kid[i].ok
          PROVE  PlainIn(R, y.kids[i])
      <4>1. y.kids[i] \in T /\ y.kids[i] \in Under(y)
        <5>1. y.kids \in Seq(T)
          BY <1>1, <2>1, KidsGrow
        <5> QED BY <5>1 DEF Under
      <4>2. y.kids[i] \in r[Levels - n]
        BY <1>2, <2>1, <3>1, <4>1 DEF Walked
      <4>3. Plain(y.kids[i], n)
        BY <1>7, <3>1, <4>1, <4>2
      <4>4. kid[i] = InferTo(y.kids[i], env, n)
        BY <3>3 DEF KidTypes
      <4> QED BY <3>5, <4>3, <4>4
    <3> QED BY <1>1, <1>3, <1>4, <2>1, <3>2, <3>4, <3>5, NodePlain
  <2> QED BY <2>1
<1>8. \A n \in Nat : n \in S => n + 1 \in S
  BY <1>7
<1> HIDE DEF S
<1>9. Levels \in S
  BY <1>6, <1>8, Successors, LevelsAssumption
<1>10. Plain(node, Levels)
  <2>1. Levels - Levels = 0 /\ node \in r[0]
    BY <1>2, LevelsAssumption DEF Walked
  <2> QED BY <1>1, <1>9, <2>1, LevelsAssumption DEF S
<1> QED BY <1>4, <1>5, <1>10

-----------------------------------------------------------------------------
LEMMA NothingMentions == ~ MentionsQuality(NoNode)
<1>1. PICK r : Walked(r, NoNode)
  BY ReachedWalked
<1>2. Under(NoNode) = {}
  BY DEF Under, NoNode, Node
<1> DEFINE S == {k \in Nat : k <= Levels => r[k] = {NoNode}}
<1>3. 0 \in S
  BY <1>1 DEF Walked
<1>4. ASSUME NEW k \in Nat, k \in S
      PROVE  k + 1 \in S
  <2>1. ASSUME k + 1 <= Levels
        PROVE  r[k + 1] = {NoNode}
    <3>1. k + 1 \in 1 .. Levels /\ (k + 1) - 1 = k /\ k <= Levels
      BY <2>1, LevelsAssumption
    <3>2. r[k + 1] = r[k] \union UNION {Under(y) : y \in r[k]}
      BY <1>1, <3>1 DEF Walked
    <3>3. r[k] = {NoNode}
      BY <1>4, <3>1
    <3> QED BY <1>2, <3>2, <3>3
  <2> QED BY <2>1
<1>5. \A k \in Nat : k \in S => k + 1 \in S
  BY <1>4
<1> HIDE DEF S
<1>6. Levels \in S
  BY <1>3, <1>5, Successors, LevelsAssumption
<1>7. Reached(NoNode, Under) = {NoNode}
  BY <1>1, <1>6, LevelsAssumption DEF S, Walked
<1> QED BY <1>7 DEF MentionsQuality, NoNode, Node

LEMMA QualityParts ==
  ASSUME NEW a, NEW b
  PROVE  <<a, b>> \in QualityFields <=>
           a = "chain" /\ b \in {"is_fresh", "is_complete", "has_unknowns", "quality_ok"}
BY DEF QualityFields, Within

(* The tokens of a text up to its end.                                     *)
LEMMA PeekParts ==
  ASSUME NEW s \in Seq(STRING), NEW i \in Nat
  PROVE  /\ Peek(s, i) # EOF => i <= Len(s)
         /\ i <= Len(s) => Peek(s, i) = s[i]
BY DEF Peek

(* A quality field that is named is an attribute of the tree, and one that *)
(* is an attribute of the tree is named.                                   *)
LEMMA MentionedIsNamed ==
  ASSUME text \in Seq(STRING), NEW node, IsTree(node), Dotted(text, {node}),
         PlainIn(Reached(node, Under), node), Levels > 0, MentionsQuality(node)
  PROVE  QualityNamed
<1>1. PICK r : Walked(r, node)
  BY ReachedWalked
<1>2. PICK x \in Reached(node, Under) : x.kind = "attribute" /\ DottedName(x) \in QualityFields
  BY DEF MentionsQuality
<1>3. Attribute(x, node)
  BY <1>1, <1>2, WalkedInside DEF Attribute
<1>4. x.kids[1].kind = "name"
  BY <1>3 DEF PlainIn
<1>5. PICK base : base = x.kids[1].tok
  OBVIOUS
<1>6. DottedName(x) = <<base, x.tok>>
  BY <1>2, <1>4, <1>5, AttributeName
<1>7. PICK j \in Nat \ {0} : DotOf(text, j, x)
  BY <1>3 DEF Dotted
<1>8. Peek(text, j) = "." /\ Peek(text, j + 1) = x.tok /\ StandsBefore(text, j, base)
  BY <1>4, <1>5, <1>7 DEF DotOf
<1>9. PICK i \in 1 .. j - 1 :
        Peek(text, i) = base /\ \A l \in i + 1 .. j - 1 : Peek(text, l) = ")"
  BY <1>8 DEF StandsBefore
<1>10. <<base, x.tok>> \in QualityFields /\ x.tok # EOF
  <2>1. <<base, x.tok>> \in QualityFields
    BY <1>2, <1>6
  <2> QED BY <2>1, QualityParts DEF EOF
<1>11. j + 1 <= Len(text) /\ Len(text) \in Nat
  BY <1>8, <1>10, PeekParts
<1>12. /\ text[j] = "." /\ text[j + 1] = x.tok /\ text[i] = base
       /\ \A l \in i + 1 .. j - 1 : text[l] = ")"
  <2>1. \A l \in 1 .. j + 1 : Peek(text, l) = text[l]
    BY <1>11 DEF Peek
  <2>2. text[j] = "." /\ text[j + 1] = x.tok /\ text[i] = base
    BY <1>8, <1>9, <2>1
  <2>3. \A l \in i + 1 .. j - 1 : text[l] = ")"
    BY <1>9, <2>1
  <2> QED BY <2>2, <2>3
<1>13. i \in 1 .. Len(text) - 1 /\ j \in 1 .. Len(text) - 1 /\ i < j
  BY <1>11
<1> QED BY <1>10, <1>12, <1>13 DEF QualityNamed

LEMMA NamedIsMentioned ==
  ASSUME text \in Seq(STRING), NEW node, IsTree(node),
         Covered(text, 1, Len(text) + 1, {node}),
         PlainIn(Reached(node, Under), node), Levels > 0, QualityNamed
  PROVE  MentionsQuality(node)
<1>0. Len(text) \in Nat
  OBVIOUS
<1>1. PICK i \in 1 .. Len(text) - 1, j \in 1 .. Len(text) - 1 :
        /\ i < j /\ text[j] = "." /\ <<text[i], text[j + 1]>> \in QualityFields
        /\ \A k \in i + 1 .. j - 1 : text[k] = ")"
  BY DEF QualityNamed
<1>2. \A l \in 1 .. j + 1 : Peek(text, l) = text[l]
  BY <1>0 DEF Peek
<1>3. PICK x : Attribute(x, node) /\ DotOf(text, j, x)
  <2>1. Peek(text, j) = "." /\ j \in 1 .. (Len(text) + 1) - 1
    BY <1>0, <1>1, <1>2
  <2> QED BY <2>1 DEF Covered
<1>4. x \in Reached(node, Under) /\ x.kids[1].kind = "name" /\ x.kind = "attribute"
  BY <1>3 DEF PlainIn, Attribute
<1>5. PICK base : base = x.kids[1].tok
  OBVIOUS
<1>6. base \in Ident
  <2>1. PICK T : node \in T /\ Grown(T)
    BY DEF IsTree
  <2>2. x \in T
    BY <1>3, <2>1 DEF Attribute, Inside
  <2>3. Len(x.kids) = 1 /\ x.kids \in Seq(T)
    BY <1>4, <2>1, <2>2 DEF Grown, IsNode, HasShape
  <2>4. x.kids[1] \in T
    BY <2>3
  <2> QED BY <1>4, <1>5, <2>1, <2>4 DEF Grown, IsNode, HasShape
<1>7. text[j + 1] = x.tok /\ StandsBefore(text, j, base)
  <2>1. Peek(text, j + 1) = x.tok /\ StandsBefore(text, j, base)
    BY <1>3, <1>4, <1>5 DEF DotOf
  <2> QED BY <1>2, <2>1
<1>8. PICK k \in 1 .. j - 1 :
        Peek(text, k) = base /\ \A l \in k + 1 .. j - 1 : Peek(text, l) = ")"
  BY <1>7 DEF StandsBefore
<1>9. text[k] = base /\ text[k] # ")"
  <2>1. text[k] = base
    BY <1>2, <1>8
  <2> QED BY <1>6, <2>1, TokensAssumption
<1>10. text[i] = "chain" /\ text[i] # ")"
  BY <1>1, QualityParts
<1>11. k = i
  <2>1. ~ k < i
    <3>1. ASSUME k < i
          PROVE  FALSE
      <4>1. Peek(text, i) = ")"
        BY <1>1, <1>8, <3>1
      <4>2. Peek(text, i) = text[i]
        BY <1>1, <1>2
      <4> QED BY <1>10, <4>1, <4>2
    <3> QED BY <3>1
  <2>2. ~ i < k
    BY <1>1, <1>8, <1>9
  <2> QED BY <2>1, <2>2
<1>12. DottedName(x) = <<text[i], text[j + 1]>>
  BY <1>4, <1>5, <1>7, <1>9, <1>11, AttributeName
<1> QED BY <1>1, <1>4, <1>12 DEF MentionsQuality

(* What ChainBranch returns: a branch that decides and before which none   *)
(* does, or none if there is no such branch.                               *)
LEMMA ChainBranchPicks ==
  ASSUME NEW conds, DOMAIN conds \subseteq Nat,
         NEW unknowns
  PROVE  LET branch == ChainBranch(conds, unknowns)
         IN  \/ /\ branch.pick = IF unknowns THEN "none" ELSE "else"
                /\ \A i \in DOMAIN conds : ~ Decides(conds[i], unknowns)
             \/ /\ branch.at \in DOMAIN conds /\ Decides(conds[branch.at], unknowns)
                /\ \A i \in DOMAIN conds : i < branch.at => ~ Decides(conds[i], unknowns)
                /\ branch.pick = IF IsTrue(conds[branch.at].value) THEN "branch" ELSE "raise"
<1> DEFINE deciding == {i \in DOMAIN conds : Decides(conds[i], unknowns)}
           first    == CHOOSE i \in deciding : \A j \in deciding : i <= j
<1>1. CASE deciding = {}
  BY <1>1 DEF ChainBranch
<1>2. CASE deciding # {}
  <2>1. deciding \in SUBSET Nat
    OBVIOUS
  <2>2. PICK least : least = first
    OBVIOUS
  <2>3. least \in deciding /\ \A j \in deciding : least <= j
    BY <1>2, <2>1, <2>2, LeastIn DEF Least
  <2>4. ChainBranch(conds, unknowns) =
          [pick |-> IF IsTrue(conds[least].value) THEN "branch" ELSE "raise", at |-> least]
    BY <1>2, <2>2 DEF ChainBranch
  <2>5. \A i \in DOMAIN conds : i < least => i \notin deciding
    BY <2>1, <2>3
  <2> QED BY <2>3, <2>4, <2>5
<1> QED BY <1>1, <1>2

(* The conditions of a rule, with the one at hand in its place.            *)
Among(conds, before, own, place) ==
  /\ DOMAIN conds \subseteq Nat /\ place \in DOMAIN conds
  /\ conds[place] = own
  /\ DOMAIN before = {i \in DOMAIN conds : i < place}
  /\ \A i \in DOMAIN before : conds[i] = before[i]

LEMMA AmongNeighbours ==
  ASSUME NEW before \in Neighbours, NEW after \in Neighbours, NEW own
  PROVE  Among(before \o <<own>> \o after, before, own, Len(before) + 1)
<1> DEFINE conds == before \o <<own>> \o after
<1>1. PICK All : before \in Seq(All) /\ after \in Seq(All) /\ own \in All
  <2>1. \A some \in Neighbours : some \in Seq(Companion)
    <3>1. <<>> \in Seq(Companion) /\ \A other \in Companion : <<other>> \in Seq(Companion)
      OBVIOUS
    <3> QED BY <3>1, Zenon DEF Neighbours
  <2>2. before \in Seq(Companion \union {own}) /\ after \in Seq(Companion \union {own})
    BY <2>1
  <2> QED BY <2>2
<1>2. <<own>> \in Seq(All) /\ Len(<<own>>) = 1 /\ <<own>>[1] = own
  BY <1>1
<1>3. PICK mine : mine = <<own>>
  OBVIOUS
<1>4. PICK front : front = before \o mine
  OBVIOUS
<1>5. front \in Seq(All) /\ Len(front) = Len(before) + 1
  BY <1>1, <1>2, <1>3, <1>4
<1>6. front[Len(before) + 1] = own /\ \A i \in 1 .. Len(before) : front[i] = before[i]
  BY <1>1, <1>2, <1>3, <1>4
<1>7. PICK all : all = front \o after
  OBVIOUS
<1>8. all \in Seq(All) /\ Len(all) = Len(front) + Len(after)
      /\ \A i \in 1 .. Len(front) : all[i] = front[i]
  <2>1. PICK first, second : first = front /\ second = after
    OBVIOUS
  <2>2. first \in Seq(All) /\ second \in Seq(All)
    BY <1>1, <1>5, <2>1
  <2>3. /\ first \o second \in Seq(All)
        /\ Len(first \o second) = Len(first) + Len(second)
        /\ \A i \in 1 .. Len(first) : (first \o second)[i] = first[i]
    BY <2>2
  <2> QED BY <1>7, <2>1, <2>3, Zenon
<1>9. \A i \in 1 .. Len(front) : all[i] = front[i]
  BY <1>8
<1>10. conds = all
  BY <1>3, <1>4, <1>7
<1>11. Len(before) \in Nat /\ Len(after) \in Nat /\ DOMAIN before = 1 .. Len(before)
       /\ DOMAIN all = 1 .. Len(all)
  BY <1>1, <1>8
<1> HIDE DEF conds
<1>12. DOMAIN all \subseteq Nat /\ Len(before) + 1 \in DOMAIN all
  BY <1>5, <1>8, <1>11
<1>13. all[Len(before) + 1] = own
  BY <1>5, <1>6, <1>9, <1>11
<1>14. DOMAIN before = {i \in DOMAIN all : i < Len(before) + 1}
  BY <1>5, <1>8, <1>11
<1>15. \A i \in DOMAIN before : all[i] = before[i]
  BY <1>5, <1>6, <1>9, <1>11
<1>16. Among(conds, before, own, Len(before) + 1)
  BY <1>10, <1>12, <1>13, <1>14, <1>15 DEF Among
<1> QED BY <1>16 DEF conds

(* On a snapshot with unknowns no else branch is taken, and the branch of  *)
(* the condition, a when or an elif, only if the condition names a quality *)
(* field and holds whatever the metrics are; one that does so is passed    *)
(* over only for a branch before it: for every text and every snapshot.    *)
LEMMA UnknownsFailClosedWritten == Written => UnknownsFailClosed
<1> SUFFICES ASSUME Written, AcceptedChainCondition, NEW o \in Outcomes,
                    NEW before \in Neighbours, NEW after \in Neighbours
             PROVE  FailsClosed(o, before, after)
  BY DEF UnknownsFailClosed
<1>1. task.kind = "condition" /\ accepted /\ task.context = "chain"
  BY DEF AcceptedChainCondition, AcceptedCondition
<1>2. /\ text \in Seq(STRING) /\ parsed = ParseUntil(text)
      /\ parsed.errs = {} /\ Infer(parsed.node, EnvTypes("chain")).ok
  BY <1>1 DEF Written, Parse, Accepts, ConditionAccepted, ConditionTypeOK
<1>3. MentionsQuality(parsed.node) <=> QualityNamed
  <2>1. CASE parsed.node = NoNode
    <3>1. text = <<>>
      BY <1>2, <2>1, ParseUntilTraced
    <3>2. ~ QualityNamed
      BY <3>1 DEF QualityNamed
    <3> QED BY <2>1, <3>2, NothingMentions
  <2>2. CASE parsed.node # NoNode
    <3>1. PICK node : node = parsed.node
      OBVIOUS
    <3>2. Dotted(text, {node}) /\ Covered(text, 1, Len(text) + 1, {node})
      BY <1>2, <2>2, <3>1, ParseUntilTraced
    <3>3. IsTree(node)
      <4>1. Whole(ParseUntil(text))
        BY <1>2, ParseUntilWhole
      <4> QED BY <1>2, <2>2, <3>1, <4>1 DEF Whole
    <3>4. PlainIn(Reached(node, Under), node)
      BY <1>2, <3>1, <3>3, TreePlain
    <3>5. Levels > 0
      <4>1. PICK T : node \in T /\ Grown(T)
        BY <3>3 DEF IsTree
      <4>2. InferTo(node, EnvTypes("chain"), Levels).ok
        BY <1>2, <3>1, <4>1, InferGoesDown
      <4> QED BY <4>1, <4>2, WellIsDeep, LevelsAssumption
    <3> QED BY <1>2, <3>1, <3>2, <3>3, <3>4, <3>5, MentionedIsNamed, NamedIsMentioned
  <2> QED BY <2>1, <2>2
<1>4. IsTrue(o.value) => Settled(TRUE, o.event)
  <2>1. o.value.sort = "bool" => Settled(o.value.is, o.event)
    BY UnknownNeverDecidesWritten DEF UnknownNeverDecides
  <2>2. ASSUME IsTrue(o.value)
        PROVE  Settled(TRUE, o.event)
    <3>1. o.value.sort = "bool" /\ o.value.is
      BY <2>2 DEF IsTrue
    <3>2. Settled(o.value.is, o.event)
      BY <2>1, <3>1
    <3> QED BY <3>1, <3>2 DEF Settled, IsOrRaises
  <2> QED BY <2>2
<1>5. PICK own : own = [mentions |-> MentionsQuality(parsed.node), value |-> o.value]
  OBVIOUS
<1>6. PICK conds : conds = before \o <<own>> \o after
  OBVIOUS
<1>7. PICK place : place = Len(before) + 1
  OBVIOUS
<1>8. /\ DOMAIN conds \subseteq Nat /\ place \in DOMAIN conds
      /\ conds[place] = own
      /\ DOMAIN before = {i \in DOMAIN conds : i < place}
      /\ \A i \in DOMAIN before : conds[i] = before[i]
  <2>1. Among(conds, before, own, place)
    BY <1>6, <1>7, AmongNeighbours, Zenon
  <2> QED BY <2>1 DEF Among
<1>9. PICK branch : branch = ChainBranch(conds, TRUE)
  OBVIOUS
<1>10. \/ /\ branch.pick = "none"
          /\ \A i \in DOMAIN conds : ~ Decides(conds[i], TRUE)
       \/ /\ branch.at \in DOMAIN conds /\ Decides(conds[branch.at], TRUE)
          /\ \A i \in DOMAIN conds : i < branch.at => ~ Decides(conds[i], TRUE)
          /\ branch.pick = IF IsTrue(conds[branch.at].value) THEN "branch" ELSE "raise"
  BY <1>8, <1>9, ChainBranchPicks
<1>11. branch.pick # "else"
  BY <1>10
<1>12. IsTrue(own.value) /\ own.mentions => Decides(own, TRUE)
  BY DEF Decides
<1>13. Decides(own, TRUE) => own.mentions
  BY DEF Decides
<1> DEFINE taken == branch.pick = "branch" /\ branch.at = place
           free  == \A i \in DOMAIN before : ~ Decides(before[i], TRUE)
<1>14. taken => IsTrue(own.value) /\ own.mentions /\ free
  BY <1>8, <1>10, <1>13
<1>15. IsTrue(own.value) /\ own.mentions /\ free => taken
  <2> SUFFICES ASSUME IsTrue(own.value), own.mentions, free
               PROVE  taken
    OBVIOUS
  <2>1. Decides(conds[place], TRUE)
    BY <1>8, <1>12
  <2>2. \A i \in DOMAIN conds : i < place => ~ Decides(conds[i], TRUE)
    BY <1>8
  <2>3. branch.at = place
    <3>1. branch.at \in DOMAIN conds /\ Decides(conds[branch.at], TRUE)
      BY <1>8, <1>10, <2>1
    <3>2. ~ place < branch.at
      BY <1>8, <1>10, <2>1
    <3>3. ~ branch.at < place
      BY <2>2, <3>1
    <3>4. place \in Nat /\ branch.at \in Nat
      BY <1>8, <3>1
    <3> QED BY <3>2, <3>3, <3>4
  <2> QED BY <1>8, <1>10, <2>1, <2>3
<1>16. own.mentions = MentionsQuality(parsed.node) /\ own.value = o.value
  BY <1>5
<1>17. taken <=> IsTrue(o.value) /\ QualityNamed /\ free
  BY <1>3, <1>14, <1>15, <1>16
<1>18. taken => Settled(TRUE, o.event)
  BY <1>4, <1>17
<1> QED BY <1>5, <1>6, <1>7, <1>9, <1>11, <1>17, <1>18 DEF FailsClosed

THEOREM UnknownsFailClosedAlways == Spec => []UnknownsFailClosed
BY WrittenAlways, UnknownsFailClosedWritten, PTL
=============================================================================

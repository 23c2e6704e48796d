---------------------------- MODULE PlannerProofs ----------------------------
(***************************************************************************)
(* Type correctness of the planner, that it fails closed, and that what it *)
(* returns is a plan for each intent in effect, in the order of what the   *)
(* intents say, for streams of any length.                                 *)
(***************************************************************************)
EXTENDS Planner, FiniteSetTheorems, FunctionTheorems, TLAPS

(* Plans are cleared when they are made, and none is added or changed      *)
(* between that and the return.                                            *)
PInv ==
  /\ TypeOK
  /\ \A i \in 1 .. Len(stream) : stream[i].by # None
  /\ intents \subseteq Effective
  /\ \A n \in 1 .. Len(plans) : plans[n].status = "planned" => Cleared(plans[n])
  /\ output # None => output = plans /\ phase \notin {"collect", "plan"}

LEMMA LineTyped ==
  ASSUME TypeOK, NEW i \in 1 .. Len(stream) PROVE stream[i] \in Line
BY DEF TypeOK

LEMMA DiagsAreCounted == TypeOK => Cardinality(diags) \in Nat
<1> SUFFICES ASSUME TypeOK PROVE Cardinality(diags) \in Nat
  OBVIOUS
<1>1. Len(stream) \in Nat
  BY DEF TypeOK
<1>2. IsFiniteSet(1 .. Len(stream))
  BY <1>1, FS_Interval
<1>3. IsFiniteSet(diags)
  BY <1>2, FS_Subset DEF TypeOK
<1> QED
  BY <1>3, FS_CardinalityType

(* The reasons of a blocked plan are an id each with a rule or None.       *)
LEMMA ReasonsTyped ==
  ASSUME TypeOK, NEW by \in SUBSET Nat
  PROVE  Reasons(by) \in SUBSET (Nat \X ({None} \union Nat))
<1> DEFINE Rule(id) == IF \E i \in RiskConstraints : stream[i].id = id
                       THEN stream[CHOOSE i \in RiskConstraints : stream[i].id = id].rule
                       ELSE None
<1>1. ASSUME NEW id \in by PROVE Rule(id) \in {None} \union Nat
  <2>1. CASE \E i \in RiskConstraints : stream[i].id = id
    <3> DEFINE c == CHOOSE i \in RiskConstraints : stream[i].id = id
    <3>1. c \in RiskConstraints
      BY <2>1
    <3>2. c \in 1 .. Len(stream)
      BY <3>1 DEF RiskConstraints
    <3> HIDE DEF c
    <3>3. stream[c].rule \in {None} \union Nat
      BY <3>2, LineTyped DEF Line
    <3> QED
      BY <2>1, <3>3 DEF c
  <2>2. CASE ~ \E i \in RiskConstraints : stream[i].id = id
    BY <2>2
  <2> QED
    BY <2>1, <2>2
<1>2. Reasons(by) = {<<id, Rule(id)>> : id \in by}
  BY DEF Reasons
<1> HIDE DEF Rule
<1> QED
  BY <1>1, <1>2

LEMMA RiskTyped ==
  ASSUME TypeOK, NEW i \in 1 .. Len(stream)
  PROVE  Risk(stream[i]) \in {None} \union RiskMeta
<1> DEFINE l == stream[i]
<1>1. l.by \in SUBSET Nat /\ l.status \in {"allowed", "blocked", "odd", None}
  BY LineTyped DEF Line
<1>2. Reasons(l.by) \in SUBSET (Nat \X ({None} \union Nat))
  BY <1>1, ReasonsTyped
<1> HIDE DEF l
<1>3. CASE ~ withRisk
  BY <1>3 DEF Risk, l
<1>4. CASE withRisk /\ l.status = "blocked"
  BY <1>1, <1>2, <1>4 DEF Risk, RiskMeta, l
<1>5. CASE withRisk /\ l.status = "allowed"
  BY <1>1, <1>5 DEF Risk, RiskMeta, l
<1>6. CASE withRisk /\ l.status # "blocked" /\ l.status # "allowed"
  BY <1>1, <1>6 DEF Risk, RiskMeta, l
<1> QED
  BY <1>3, <1>4, <1>5, <1>6

LEMMA PlanTyped ==
  ASSUME PInv, NEW i \in 1 .. Len(stream), ~ Refused(stream[i])
  PROVE  /\ PlanOf(stream[i]) \in PlanIR
         /\ PlanOf(stream[i]).status = "planned" <=> PlanOf(stream[i]).by = None
<1> DEFINE l == stream[i]
<1>1. TypeOK
  BY DEF PInv
<1>2. l \in Line /\ l.by # None
  BY <1>1, LineTyped DEF PInv
<1>3. l.id \in Nat /\ l.event \in Nat /\ l.action \in {"cancel", "declare"}
  BY <1>2 DEF Refused, Invalid, Line
<1>4. Len(plans) + Cardinality(diags) + 1 \in Nat
  BY <1>1, DiagsAreCounted DEF TypeOK
<1>5. Risk(l) \in {None} \union RiskMeta
  BY <1>1, RiskTyped
<1>6. /\ Status(l) \in {"planned", "blocked"}
      /\ BlockedBy(l) \in {None} \union SUBSET Nat
      /\ Status(l) = "planned" <=> BlockedBy(l) = None
  BY <1>2 DEF Status, BlockedBy, Line
<1>7. l.symbol \in Nat
  BY <1>2 DEF Line
<1> HIDE DEF l
<1>8. PlanOf(l) \in PlanIR
  BY <1>3, <1>4, <1>5, <1>6, <1>7 DEF PlanOf, PlanIR
<1>9. PlanOf(l).status = Status(l) /\ PlanOf(l).by = BlockedBy(l)
  BY DEF PlanOf
<1> QED
  BY <1>6, <1>8, <1>9 DEF l

LEMMA InitPInv == Init => PInv
<1> SUFFICES ASSUME Init PROVE PInv
  OBVIOUS
<1>1. stream \in Seq(Line)
  BY StreamsAssumption DEF Init
<1>2. \A i \in 1 .. Len(stream) : stream[i].by # None
  BY NoneIsNoBlockers DEF Init
<1> QED
  BY <1>1, <1>2 DEF Init, PInv, TypeOK

LEMMA NextPInv == PInv /\ [Next]_vars => PInv'
<1> SUFFICES ASSUME PInv, [Next]_vars PROVE PInv'
  OBVIOUS
<1> USE DEF PInv
<1>1. CASE Collect
  <2>1. pos + 1 \in 1 .. Len(stream)
    BY <1>1 DEF Collect, TypeOK
  <2>2. intents' \subseteq intents \union {pos + 1} /\ diags' \subseteq diags \union {pos + 1}
    BY <1>1 DEF Collect
  <2>3. UNCHANGED <<stream, withRisk, phase, plans, output>>
    BY <1>1 DEF Collect
  <2>4. TypeOK'
    BY <1>1, <2>1, <2>2, <2>3 DEF Collect, TypeOK
  <2>5. intents' \subseteq Effective'
    BY <1>1, <2>1, <2>3 DEF Collect, Effective
  <2>6. \A n \in 1 .. Len(plans') : plans'[n].status = "planned" => Cleared(plans[n])'
    BY <2>3 DEF Cleared, Effective
  <2> QED
    BY <2>3, <2>4, <2>5, <2>6
<1>2. CASE EndCollect
  BY <1>2 DEF EndCollect, TypeOK, Cleared, Effective
<1>3. CASE RefuseIntent
  BY <1>3 DEF RefuseIntent, TypeOK, Cleared, Effective
<1>4. CASE QuantityRaises
  <2>1. phase' = "raised" /\ UNCHANGED <<stream, withRisk, pos, intents, diags, plans, output>>
    BY <1>4 DEF QuantityRaises
  <2> QED
    BY <2>1 DEF TypeOK, Cleared, Effective
<1>5. CASE PlanIntent
  <2>1. PICK i \in intents :
          /\ ~ Refused(stream[i])
          /\ plans' = Append(plans, PlanOf(stream[i]))
          /\ intents' = intents \ {i}
    BY <1>5 DEF PlanIntent
  <2>2. UNCHANGED <<stream, withRisk, phase, pos, diags, output>>
    BY <1>5 DEF PlanIntent
  <2> DEFINE p == PlanOf(stream[i])
  <2>3. i \in 1 .. Len(stream) /\ i \in Effective
    BY <2>1 DEF TypeOK
  <2>4. p \in PlanIR /\ (p.status = "planned" <=> p.by = None)
    BY <2>1, <2>3, PlanTyped
  <2>5. p.status = "planned" => Cleared(p)
    BY <2>3 DEF PlanOf, Status, Cleared
  <2> HIDE DEF p
  <2>6. /\ Len(plans') = Len(plans) + 1
        /\ \A n \in 1 .. Len(plans') :
             plans'[n] = IF n = Len(plans) + 1 THEN p ELSE plans[n]
        /\ plans' \in Seq(PlanIR)
    BY <2>1, <2>4 DEF TypeOK, p
  <2>7. TypeOK'
    BY <2>1, <2>2, <2>4, <2>6 DEF TypeOK
  <2>8. \A n \in 1 .. Len(plans') : plans'[n].status = "planned" => Cleared(plans'[n])
    BY <2>5, <2>6 DEF TypeOK
  <2>9. \A n \in 1 .. Len(plans') : plans'[n].status = "planned" => Cleared(plans[n])'
    BY <2>2, <2>8 DEF Cleared, Effective
  <2>10. intents' \subseteq Effective'
    BY <2>1, <2>2 DEF Effective
  <2>11. output' = None
    BY <1>5, <2>2 DEF PlanIntent
  <2> QED
    BY <2>2, <2>7, <2>9, <2>10, <2>11
<1>6. CASE Return
  BY <1>6 DEF Return, TypeOK, Cleared, Effective
<1>7. CASE UNCHANGED vars
  BY <1>7 DEF vars, TypeOK, Cleared, Effective
<1> QED
  BY <1>1, <1>2, <1>3, <1>4, <1>5, <1>6, <1>7 DEF Next

(* Every state of the planner has the declared types, and plans name       *)
(* blockers exactly when they are blocked.                                 *)
THEOREM PlannerTypeCorrect == Spec => []TypeOK
<1>1. PInv => TypeOK
  BY DEF PInv
<1> QED
  BY <1>1, InitPInv, NextPInv, PTL DEF Spec

(* Whatever the stream, a plan comes out as planned only for an intent in  *)
(* effect that is not blocked and, with risk, was declared allowed.        *)
THEOREM AlwaysFailsClosed == Spec => []FailsClosed
<1>1. PInv => FailsClosed
  BY DEF PInv, FailsClosed
<1> QED
  BY <1>1, InitPInv, NextPInv, PTL DEF Spec

-----------------------------------------------------------------------------
(* Which intent each plan was made of.                                     *)

Made(p, l) ==
  /\ p.source = l.id /\ p.event = l.event /\ p.symbol = l.symbol
  /\ p.status = Status(l) /\ p.by = BlockedBy(l) /\ p.risk = Risk(l)

(* f names the line of each plan: the plans are in the order of the lines  *)
(* and come before those of the intents still to be planned, and none is   *)
(* left out unless it was refused.                                         *)
Lines(f) ==
  /\ f \in [1 .. Len(plans) -> Effective]
  /\ \A m, n \in 1 .. Len(plans) : m < n => Precedes(f[m], f[n]) /\ f[m] # f[n]
  /\ \A n \in 1 .. Len(plans) :
       /\ ~ Refused(stream[f[n]]) /\ Made(plans[n], stream[f[n]])
       /\ \A j \in intents : Precedes(f[n], j) /\ f[n] # j
  /\ phase \in {"plan", "done"} /\ diags = {} =>
       \A i \in Effective : i \in intents \/ \E n \in 1 .. Len(plans) : f[n] = i

OInv ==
  /\ phase = "collect" =>
       /\ plans = <<>> /\ pos <= Len(stream)
       /\ intents = {i \in Effective : i <= pos}
       /\ \A i \in 1 .. pos : stream[i].kind = "junk" => i \in diags
  /\ phase \in {"plan", "done"} => \A i \in 1 .. Len(stream) : stream[i].kind # "junk"
  /\ diags = {} => \A n \in 1 .. Len(plans) : plans[n].plan = n
  /\ \E f : Lines(f)
  /\ output # None =>
       phase = "done" /\ diags = {} /\ intents = {} /\ output = plans

LEMMA InitOInv == Init => OInv
<1> SUFFICES ASSUME Init PROVE OInv
  OBVIOUS
<1>1. /\ stream \in Seq(Line) /\ Len(stream) \in Nat /\ plans = <<>>
      /\ Len(plans) = 0 /\ phase = "collect" /\ pos = 0 /\ intents = {}
      /\ output = None
  BY StreamsAssumption DEF Init
<1>2. 1 .. Len(plans) = {} /\ 1 .. pos = {}
  BY <1>1
<1>3. PICK f : f = [n \in 1 .. Len(plans) |-> 0]
  OBVIOUS
<1>4. f \in [1 .. Len(plans) -> Effective]
  BY <1>2, <1>3
<1>5. Lines(f)
  BY <1>1, <1>2, <1>4 DEF Lines
<1>6. {i \in Effective : i <= pos} = {}
  BY <1>1 DEF Effective
<1> QED BY <1>1, <1>2, <1>5, <1>6 DEF OInv

LEMMA CollectOInv ==
  ASSUME PInv, OInv, Collect
  PROVE  OInv'
<1>1. /\ phase = "collect" /\ pos < Len(stream) /\ pos \in Nat /\ Len(stream) \in Nat
      /\ pos' = pos + 1 /\ UNCHANGED <<stream, withRisk, phase, plans, output>>
      /\ output = None /\ plans = <<>> /\ pos + 1 \in 1 .. Len(stream)
  BY DEF Collect, PInv, TypeOK, OInv
<1>2. intents' = {i \in Effective : i <= pos + 1}
  <2>1. intents = {i \in Effective : i <= pos}
    BY <1>1 DEF OInv
  <2>2. intents' = IF pos + 1 \in Effective THEN intents \union {pos + 1} ELSE intents
    BY <1>1 DEF Collect, Effective
  <2>3. \A i \in Effective : i \in Nat
    BY DEF Effective
  <2> QED BY <1>1, <2>1, <2>2, <2>3
<1>3. \A i \in 1 .. pos + 1 : stream[i].kind = "junk" => i \in diags'
  <2>1. \A i \in 1 .. pos : stream[i].kind = "junk" => i \in diags
    BY <1>1 DEF OInv
  <2>2. diags \subseteq diags' /\ (stream[pos + 1].kind = "junk" => pos + 1 \in diags')
    BY DEF Collect
  <2> QED BY <1>1, <2>1, <2>2
<1>4. Len(plans) = 0 /\ 1 .. 0 = {} /\ Effective' = Effective
  BY <1>1 DEF Effective
<1>5. PICK f : Lines(f)
  BY DEF OInv
<1>6. Lines(f)'
  BY <1>1, <1>4, <1>5 DEF Lines
<1> QED BY <1>1, <1>2, <1>3, <1>4, <1>6 DEF OInv

LEMMA EndCollectOInv ==
  ASSUME PInv, OInv, EndCollect
  PROVE  OInv'
<1>1. /\ phase = "collect" /\ pos = Len(stream) /\ Len(stream) \in Nat
      /\ phase' = IF diags = {} THEN "plan" ELSE "rejected"
      /\ UNCHANGED <<stream, withRisk, pos, intents, diags, plans, output>>
      /\ output = None /\ plans = <<>>
  BY DEF EndCollect, PInv, TypeOK, OInv
<1>2. diags = {} => \A i \in 1 .. Len(stream) : stream[i].kind # "junk"
  BY <1>1 DEF OInv
<1>3. intents = Effective
  BY <1>1 DEF OInv, Effective
<1>4. Len(plans) = 0 /\ 1 .. 0 = {} /\ Effective' = Effective
  BY <1>1 DEF Effective
<1>5. PICK f : Lines(f)
  BY DEF OInv
<1>6. Lines(f)'
  BY <1>1, <1>3, <1>4, <1>5 DEF Lines
<1> QED BY <1>1, <1>2, <1>4, <1>6 DEF OInv

LEMMA RefuseIntentOInv ==
  ASSUME PInv, OInv, RefuseIntent
  PROVE  OInv'
<1>1. PICK i \in intents : diags' = diags \union {i} /\ intents' = intents \ {i}
  BY DEF RefuseIntent
<1>2. /\ phase = "plan" /\ UNCHANGED <<stream, withRisk, phase, pos, plans, output>>
      /\ output = None
  BY DEF RefuseIntent, PInv
<1>3. PICK f : Lines(f)
  BY DEF OInv
<1>4. \A m, n : Precedes(m, n)' = Precedes(m, n)
  BY <1>2 DEF Precedes, Key
<1>5. \A p, l : Made(p, l)' = Made(p, l)
  BY <1>2 DEF Made, Status, BlockedBy, Risk, Reasons, RiskConstraints
<1>6. Effective' = Effective
  BY <1>2 DEF Effective
<1>7. Lines(f)'
  BY <1>1, <1>2, <1>3, <1>4, <1>5, <1>6 DEF Lines, Refused
<1> QED BY <1>1, <1>2, <1>7 DEF OInv

LEMMA PlanIntentOInv ==
  ASSUME PInv, OInv, PlanIntent
  PROVE  OInv'
<1>1. PICK i, p :
        /\ i \in intents
        /\ IsNext(i) /\ ~ Refused(stream[i])
        /\ p = PlanOf(stream[i])
        /\ plans' = Append(plans, p)
        /\ intents' = intents \ {i}
  BY DEF PlanIntent
<1>2. /\ phase = "plan" /\ UNCHANGED <<stream, withRisk, phase, pos, diags, output>>
      /\ output = None /\ i \in 1 .. Len(stream) /\ i \in Effective
      /\ plans \in Seq(PlanIR)
  BY <1>1 DEF PlanIntent, PInv, TypeOK
<1>3. p \in PlanIR
  BY <1>1, <1>2, PlanTyped
<1>4. PICK n : n = Len(plans)
  OBVIOUS
<1>5. /\ n \in Nat /\ Len(plans') = n + 1 /\ plans'[n + 1] = p
      /\ \A m \in 1 .. n : plans'[m] = plans[m]
  BY <1>1, <1>2, <1>3, <1>4
<1>6. Made(p, stream[i])
  BY <1>1 DEF PlanOf, Made
<1>7. PICK f : Lines(f)
  BY DEF OInv
<1>8. PICK g : g = [m \in 1 .. n + 1 |-> IF m = n + 1 THEN i ELSE f[m]]
  OBVIOUS
<1>9. /\ f \in [1 .. n -> Effective]
      /\ g \in [1 .. n + 1 -> Effective]
      /\ g[n + 1] = i /\ \A m \in 1 .. n : g[m] = f[m] /\ g[m] \in Effective
  <2>1. f \in [1 .. n -> Effective]
    BY <1>4, <1>7 DEF Lines
  <2> QED BY <1>2, <1>5, <1>8, <2>1
<1>10. \A a, b : Precedes(a, b)' = Precedes(a, b)
  BY <1>2 DEF Precedes, Key
<1>11. \A q, l : Made(q, l)' = Made(q, l)
  BY <1>2 DEF Made, Status, BlockedBy, Risk, Reasons, RiskConstraints
<1>12. Effective' = Effective
  BY <1>2 DEF Effective
<1>13. \A m \in 1 .. n : /\ Precedes(f[m], i) /\ f[m] # i
                         /\ ~ Refused(stream[f[m]]) /\ Made(plans[m], stream[f[m]])
                         /\ \A j \in intents : Precedes(f[m], j) /\ f[m] # j
  BY <1>1, <1>4, <1>7 DEF Lines
<1>14. \A j \in intents' : j \in intents /\ Precedes(i, j) /\ i # j
  BY <1>1 DEF IsNext
<1>15. ASSUME NEW a \in 1 .. n + 1, NEW b \in 1 .. n + 1, a < b
       PROVE  Precedes(g[a], g[b]) /\ g[a] # g[b]
  <2>1. a \in 1 .. n
    BY <1>5, <1>15
  <2>2. CASE b = n + 1
    BY <1>9, <1>13, <2>1, <2>2
  <2>3. CASE b # n + 1
    <3>1. b \in 1 .. n
      BY <1>5, <2>3
    <3> QED BY <1>4, <1>7, <1>9, <1>15, <2>1, <3>1 DEF Lines
  <2> QED BY <2>2, <2>3
<1>16. ASSUME NEW a \in 1 .. n + 1
       PROVE  /\ ~ Refused(stream[g[a]]) /\ Made(plans'[a], stream[g[a]])
              /\ \A j \in intents' : Precedes(g[a], j) /\ g[a] # j
  <2>1. CASE a = n + 1
    BY <1>1, <1>5, <1>6, <1>9, <1>14, <2>1
  <2>2. CASE a # n + 1
    <3>1. a \in 1 .. n
      BY <1>5, <2>2
    <3> QED BY <1>5, <1>9, <1>13, <1>14, <3>1
  <2> QED BY <2>1, <2>2
<1>17. ASSUME diags = {}, NEW j \in Effective
       PROVE  j \in intents' \/ \E m \in 1 .. n + 1 : g[m] = j
  <2>1. CASE j = i
    BY <1>5, <1>9, <2>1
  <2>2. CASE j \in intents /\ j # i
    BY <1>1, <2>2
  <2>3. CASE j \notin intents
    <3>1. PICK m \in 1 .. n : f[m] = j
      BY <1>2, <1>4, <1>7, <1>17, <2>3 DEF Lines
    <3> QED BY <1>5, <1>9, <3>1
  <2> QED BY <2>1, <2>2, <2>3
<1>18. Lines(g)'
  <2>1. \A l : Refused(l)' = Refused(l)
    BY <1>2 DEF Refused
  <2> QED BY <1>2, <1>5, <1>9, <1>10, <1>11, <1>12, <1>15, <1>16, <1>17, <2>1
          DEF Lines
<1>19. diags = {} => \A m \in 1 .. n + 1 : plans'[m].plan = m
  <2>1. ASSUME diags = {}
        PROVE  p.plan = n + 1
    BY <1>1, <1>4, <1>5, <2>1, FS_EmptySet DEF PlanOf
  <2>2. diags = {} => \A m \in 1 .. n : plans[m].plan = m
    BY <1>4 DEF OInv
  <2> QED BY <1>5, <2>1, <2>2
<1> QED BY <1>2, <1>5, <1>18, <1>19 DEF OInv

LEMMA NextOInv ==
  ASSUME PInv, OInv, [Next]_vars
  PROVE  OInv'
<1>1. CASE Collect             BY <1>1, CollectOInv
<1>2. CASE EndCollect          BY <1>2, EndCollectOInv
<1>3. CASE RefuseIntent        BY <1>3, RefuseIntentOInv
<1>4. CASE PlanIntent          BY <1>4, PlanIntentOInv
<1>5. CASE QuantityRaises \/ Return \/ UNCHANGED vars
  <2>1. UNCHANGED <<stream, withRisk, pos, intents, diags, plans>>
    BY <1>5 DEF QuantityRaises, Return, vars
  <2>2. /\ phase' = "collect" => phase = "collect"
        /\ phase' \in {"plan", "done"} => phase \in {"plan", "done"}
        /\ output' # None =>
             phase' = "done" /\ diags = {} /\ intents = {} /\ output' = plans
    BY <1>5 DEF QuantityRaises, Return, vars, OInv, PInv
  <2>3. \A a, b : Precedes(a, b)' = Precedes(a, b)
    BY <2>1 DEF Precedes, Key
  <2>4. \A q, l : /\ Made(q, l)' = Made(q, l)
                  /\ Refused(l)' = Refused(l)
    BY <2>1 DEF Made, Status, BlockedBy, Risk, Reasons, RiskConstraints, Refused
  <2>5. Effective' = Effective
    BY <2>1 DEF Effective
  <2>6. PICK f : Lines(f)
    BY DEF OInv
  <2>7. Lines(f)'
    BY <2>1, <2>2, <2>3, <2>4, <2>5, <2>6 DEF Lines
  <2> QED BY <2>1, <2>2, <2>5, <2>7 DEF OInv
<1> QED BY <1>1, <1>2, <1>3, <1>4, <1>5 DEF Next

(* At every moment of the planner each plan is made of an intent in effect *)
(* of its own, in the order of what the intents say, and comes before      *)
(* every intent still to be planned; an intent is left out only if a       *)
(* diagnostic says so (generate_plans).                                    *)
THEOREM PlannerInvariant == Spec => [](PInv /\ OInv)
<1>1. PInv /\ OInv /\ [Next]_vars => (PInv /\ OInv)'
  BY NextPInv, NextOInv
<1> QED BY <1>1, InitPInv, InitOInv, PTL DEF Spec

-----------------------------------------------------------------------------
(* What the order of the lines says of intents that can be planned.        *)
LEMMA PrecedesByContent ==
  ASSUME TypeOK, NEW i \in 1 .. Len(stream), NEW j \in 1 .. Len(stream),
         ~ Refused(stream[i]), ~ Refused(stream[j]), Precedes(i, j)
  PROVE  LET k == stream[i]
             m == stream[j]
         IN  \/ k.event < m.event
             \/ k.event = m.event /\ k.symbol < m.symbol
             \/ k.event = m.event /\ k.symbol = m.symbol /\ k.id <= m.id
<1>0. PICK k, m : k = stream[i] /\ m = stream[j]
  OBVIOUS
<1> DEFINE Goal == \/ k.event < m.event
                   \/ k.event = m.event /\ k.symbol < m.symbol
                   \/ k.event = m.event /\ k.symbol = m.symbol /\ k.id <= m.id
<1>1. /\ k.id \in Nat /\ k.event \in Nat /\ k.symbol \in Nat
      /\ m.id \in Nat /\ m.event \in Nat /\ m.symbol \in Nat
  BY <1>0, LineTyped DEF Refused, Invalid, Line
<1>2. \/ \E n \in 1 .. 5 : /\ \A h \in 1 .. n - 1 : Key(k)[h] = Key(m)[h]
                           /\ Smaller(Key(k)[n], Key(m)[n])
      \/ Key(k) = Key(m)
  BY <1>0 DEF Precedes
<1>3. /\ Key(k)[1] = k.event /\ Key(k)[2] = k.symbol /\ Key(k)[3] = k.id
      /\ Key(m)[1] = m.event /\ Key(m)[2] = m.symbol /\ Key(m)[3] = m.id
  BY DEF Key
<1>4. ASSUME Key(k) = Key(m) PROVE Goal
  BY <1>1, <1>3, <1>4
<1>5. ASSUME \E n \in 1 .. 5 : /\ \A h \in 1 .. n - 1 : Key(k)[h] = Key(m)[h]
                               /\ Smaller(Key(k)[n], Key(m)[n])
      PROVE  Goal
  <2>1. PICK n \in 1 .. 5 : /\ \A h \in 1 .. n - 1 : Key(k)[h] = Key(m)[h]
                            /\ Smaller(Key(k)[n], Key(m)[n])
    BY <1>5
  <2>2. n = 1 \/ n = 2 \/ n = 3 \/ n = 4 \/ n = 5
    OBVIOUS
  <2>3. /\ n > 1 => Key(k)[1] = Key(m)[1]
        /\ n > 2 => Key(k)[2] = Key(m)[2]
        /\ n > 3 => Key(k)[3] = Key(m)[3]
    BY <2>1
  <2>4. CASE n = 1
    BY <1>1, <1>3, <2>1, <2>4, NoneIsNoNumber DEF Smaller
  <2>5. CASE n = 2
    BY <1>1, <1>3, <2>1, <2>3, <2>5, NoneIsNoNumber DEF Smaller
  <2>6. CASE n = 3
    BY <1>1, <1>3, <2>1, <2>3, <2>6, NoneIsNoNumber DEF Smaller
  <2>7. CASE n > 3
    BY <1>1, <1>3, <2>3, <2>7
  <2> QED BY <2>2, <2>4, <2>5, <2>6, <2>7
<1>6. Goal
  BY <1>2, <1>4, <1>5
<1> QED BY <1>0, <1>6

(* The order of the plans is that of their intents' events, symbols and    *)
(* ids, wherever the lines stand in the file (_intent_sort_key).           *)
THEOREM AlwaysOrderedByContent == Spec => []OrderedByContent
<1>1. ASSUME PInv, OInv, output # None
      PROVE  OrderedByContent
  <2>1. output = plans /\ TypeOK
    BY <1>1 DEF OInv, PInv
  <2>2. PICK f : Lines(f)
    BY <1>1 DEF OInv
  <2>3. \A n \in 1 .. Len(plans) : f[n] \in 1 .. Len(stream)
    BY <2>2 DEF Lines, Effective
  <2>4. ASSUME NEW m \in 1 .. Len(plans), NEW n \in 1 .. Len(plans), m < n
        PROVE  \/ plans[m].event < plans[n].event
               \/ plans[m].event = plans[n].event /\ plans[m].symbol < plans[n].symbol
               \/ /\ plans[m].event = plans[n].event /\ plans[m].symbol = plans[n].symbol
                  /\ plans[m].source <= plans[n].source
    <3>1. /\ Precedes(f[m], f[n])
          /\ ~ Refused(stream[f[m]]) /\ Made(plans[m], stream[f[m]])
          /\ ~ Refused(stream[f[n]]) /\ Made(plans[n], stream[f[n]])
      BY <2>2, <2>4 DEF Lines
    <3>2. LET k == stream[f[m]]
              l == stream[f[n]]
          IN  \/ k.event < l.event
              \/ k.event = l.event /\ k.symbol < l.symbol
              \/ k.event = l.event /\ k.symbol = l.symbol /\ k.id <= l.id
      BY <2>1, <2>3, <3>1, PrecedesByContent
    <3> QED BY <3>1, <3>2 DEF Made
  <2> QED BY <2>1, <2>4 DEF OrderedByContent
<1>2. PInv /\ OInv => OrderedByContent
  BY <1>1 DEF OrderedByContent
<1> QED BY <1>2, PlannerInvariant, PTL

-----------------------------------------------------------------------------
(* Counting: f pairs the plans with the intents in effect.                 *)
Pairs(f, N, E) ==
  /\ f \in [1 .. N -> E]
  /\ \A a, b \in 1 .. N : f[a] = f[b] => a = b
  /\ \A i \in E : \E n \in 1 .. N : f[n] = i

LEMMA Paired ==
  ASSUME NEW N \in Nat, NEW E, NEW f, Pairs(f, N, E),
         NEW A \in SUBSET (1 .. N), NEW B \in SUBSET E,
         \A n \in 1 .. N : n \in A <=> f[n] \in B
  PROVE  Cardinality(A) = Cardinality(B)
<1> USE DEF Pairs
<1> DEFINE g == [n \in A |-> f[n]]
<1>1. g \in [A -> B]
  OBVIOUS
<1>2. \A a, b \in A : g[a] = g[b] => a = b
  OBVIOUS
<1>3. \A i \in B : \E n \in A : g[n] = i
  <2>1. ASSUME NEW i \in B PROVE \E n \in A : g[n] = i
    <3>1. PICK n \in 1 .. N : f[n] = i
      OBVIOUS
    <3> QED BY <3>1
  <2> QED BY <2>1
<1> HIDE DEF g
<1>4. g \in Bijection(A, B)
  BY <1>1, <1>2, <1>3, Fun_IsBij
<1>5. ExistsBijection(A, B)
  BY <1>4, Fun_ExistsBij
<1>6. IsFiniteSet(A)
  <2>1. IsFiniteSet(1 .. N)
    BY FS_Interval
  <2> QED BY <2>1, FS_Subset
<1> QED BY <1>5, <1>6, FS_Bijection

(* All or nothing: plans are returned only for a stream without junk and   *)
(* without a refused intent, and then exactly one for each intent in       *)
(* effect, numbered without gaps (the early returns on diags).             *)
THEOREM AlwaysAllOrNothing == Spec => []AllOrNothing
<1>1. ASSUME PInv, OInv, output # None
      PROVE  AllOrNothing
  <2>1. /\ output = plans /\ diags = {} /\ phase = "done" /\ intents = {}
        /\ Len(plans) \in Nat
    BY <1>1 DEF OInv, PInv, TypeOK
  <2>2. \A i \in 1 .. Len(stream) : stream[i].kind # "junk"
    BY <1>1, <2>1 DEF OInv
  <2>3. PICK f, N : Lines(f) /\ N = Len(plans)
    BY <1>1 DEF OInv
  <2>4. /\ f \in [1 .. N -> Effective] /\ N \in Nat
        /\ \A i \in Effective : \E n \in 1 .. N : f[n] = i
    BY <2>1, <2>3 DEF Lines
  <2>5. \A a, b \in 1 .. N : f[a] = f[b] => a = b
    <3>1. \A a, b \in 1 .. N : a < b => f[a] # f[b]
      BY <2>3 DEF Lines
    <3> QED BY <3>1
  <2>6. \A n \in 1 .. N : ~ Refused(stream[f[n]]) /\ plans[n].source = stream[f[n]].id
    BY <2>3 DEF Lines, Made
  <2>7. \A i \in Effective : ~ Refused(stream[i])
    BY <2>4, <2>6
  <2>8. Pairs(f, N, Effective)
    BY <2>4, <2>5 DEF Pairs
  <2>9. Cardinality(Effective) = N
    <3>1. Cardinality(1 .. N) = N
      <4>1. Cardinality(1 .. N) = IF 1 > N THEN 0 ELSE N - 1 + 1
        BY <2>4, FS_Interval
      <4> QED BY <2>4, <4>1
    <3>2. PICK A, E : A = 1 .. N /\ E = Effective
      OBVIOUS
    <3>3. \A n \in 1 .. N : n \in A <=> f[n] \in E
      BY <2>4, <3>2
    <3>4. A \in SUBSET (1 .. N) /\ E \in SUBSET E /\ Pairs(f, N, E)
      BY <2>8, <3>2
    <3>5. Cardinality(A) = Cardinality(E)
      BY <2>4, <3>3, <3>4, Paired
    <3> QED BY <3>1, <3>2, <3>5
  <2>10. ASSUME NEW i \in Effective
        PROVE  Cardinality({n \in 1 .. N : plans[n].source = stream[i].id})
                 = Cardinality({j \in Effective : stream[j].id = stream[i].id})
    <3>1. PICK A, B : /\ A = {n \in 1 .. N : plans[n].source = stream[i].id}
                      /\ B = {j \in Effective : stream[j].id = stream[i].id}
      OBVIOUS
    <3>2. A \in SUBSET (1 .. N) /\ B \in SUBSET Effective
      BY <3>1
    <3>3. \A n \in 1 .. N : n \in A <=> f[n] \in B
      BY <2>4, <2>6, <3>1
    <3>4. Cardinality(A) = Cardinality(B)
      BY <2>4, <2>8, <3>2, <3>3, Paired
    <3> QED BY <3>1, <3>4
  <2>11. \A n \in 1 .. N : plans[n].plan = n
    BY <1>1, <2>1, <2>3 DEF OInv
  <2> QED BY <2>1, <2>2, <2>3, <2>7, <2>9, <2>10, <2>11 DEF AllOrNothing
<1>2. PInv /\ OInv => AllOrNothing
  BY <1>1 DEF AllOrNothing
<1> QED BY <1>2, PlannerInvariant, PTL

-----------------------------------------------------------------------------
(* Of the constraints with one id there is a last, which is the one kept.  *)
LEMMA LastOne ==
  ASSUME NEW N \in Nat, NEW T, T \subseteq 1 .. N, T # {}
  PROVE  \E x \in T : \A y \in T : y <= x
<1> DEFINE R == {ss \in Nat \X Nat : ss[1] < ss[2]}
           U == {N - y : y \in T}
<1>1. R = OpToRel(<, Nat)
  BY DEF OpToRel
<1>2. IsWellFoundedOn(R, Nat)
  BY <1>1, NatLessThanWellFounded, Zenon
<1>3. U \subseteq Nat /\ U # {}
  <2>1. \A y \in T : N - y \in Nat
    OBVIOUS
  <2> QED BY <2>1
<1> HIDE DEF R, U
<1>4. PICK u \in U : \A v \in U : ~ (<<v, u>> \in R)
  BY <1>2, <1>3, WFMin
<1>5. \A v, w \in Nat : v < w => <<v, w>> \in R
  BY DEF R
<1>6. PICK x \in T : u = N - x
  BY DEF U
<1>7. ASSUME NEW y \in T
      PROVE  y <= x
  <2>1. N - y \in U /\ N - y \in Nat /\ u \in Nat
    BY <1>3 DEF U
  <2>2. ~ (N - y < u)
    BY <1>4, <1>5, <2>1
  <2> QED BY <1>6, <2>1, <2>2
<1> QED BY <1>7

LEMMA ReasonsNameRules ==
  ASSUME TypeOK, NEW by \in SUBSET Nat
  PROVE  /\ {r[1] : r \in Reasons(by)} = by
         /\ \A r \in Reasons(by) :
              LET named == {i \in 1 .. Len(stream) :
                              /\ stream[i].kind = "constraint"
                              /\ stream[i].profile = "risk"
                              /\ stream[i].id = r[1]}
              IN  IF named = {} THEN r[2] = None
                  ELSE \E i \in named : r[2] = stream[i].rule
<1> DEFINE Found(id) == \E i \in RiskConstraints : stream[i].id = id
           Kept(id)  == CHOOSE i \in RiskConstraints : stream[i].id = id
           Rule(id)  == IF Found(id) THEN stream[Kept(id)].rule ELSE None
           Named(id) == {i \in 1 .. Len(stream) :
                           /\ stream[i].kind = "constraint"
                           /\ stream[i].profile = "risk"
                           /\ stream[i].id = id}
<1>1. Reasons(by) = {<<id, Rule(id)>> : id \in by}
  BY DEF Reasons
<1>2. ASSUME NEW id \in by
      PROVE  IF Named(id) = {} THEN Rule(id) = None
             ELSE \E i \in Named(id) : Rule(id) = stream[i].rule
  <2>1. CASE Named(id) = {}
    <3>1. ~ Found(id)
      BY <2>1 DEF RiskConstraints
    <3> QED BY <2>1, <3>1
  <2>2. CASE Named(id) # {}
    <3>1. Len(stream) \in Nat /\ id # None
      BY NoneIsNoNumber DEF TypeOK
    <3>2. PICK x \in Named(id) : \A y \in Named(id) : y <= x
      <4>1. PICK T : T = Named(id)
        OBVIOUS
      <4>2. T \subseteq 1 .. Len(stream) /\ T # {}
        BY <2>2, <4>1
      <4>3. \E z \in T : \A y \in T : y <= z
        BY <3>1, <4>2, LastOne
      <4> QED BY <4>1, <4>3
    <3>3. x \in RiskConstraints /\ stream[x].id = id
      BY <3>1, <3>2 DEF RiskConstraints
    <3>4. Kept(id) \in RiskConstraints /\ stream[Kept(id)].id = id
      BY <3>3
    <3>5. Kept(id) \in Named(id)
      <4> HIDE DEF Kept
      <4> QED BY <3>4 DEF RiskConstraints
    <3>6. Found(id)
      BY <3>3
    <3> QED BY <2>2, <3>5, <3>6
  <2> QED BY <2>1, <2>2
<1> HIDE DEF Rule, Named
<1>3. {r[1] : r \in Reasons(by)} = by
  <2>1. \A id \in by : <<id, Rule(id)>> \in Reasons(by) /\ <<id, Rule(id)>>[1] = id
    BY <1>1
  <2>2. \A r \in Reasons(by) : r[1] \in by
    BY <1>1
  <2> QED BY <2>1, <2>2
<1>4. \A r \in Reasons(by) :
        IF Named(r[1]) = {} THEN r[2] = None
        ELSE \E i \in Named(r[1]) : r[2] = stream[i].rule
  BY <1>1, <1>2
<1> QED BY <1>3, <1>4 DEF Named

(* The reasons of a blocked plan are one for each of its blockers and name *)
(* the rule of a risk constraint with that id, if the stream has one       *)
(* (risk_constraints_by_id).                                               *)
THEOREM ReasonsAlwaysMatchBlockers == Spec => []ReasonsMatchBlockers
<1>1. ASSUME PInv, OInv, output # None, withRisk,
             NEW n \in 1 .. Len(output), output[n].risk.status = "blocked"
      PROVE  \E by \in SUBSET Nat :
               output[n].risk.reasons = Reasons(by) /\ output[n].by = by
  <2>1. output = plans /\ TypeOK
    BY <1>1 DEF OInv, PInv
  <2>2. PICK f : Lines(f)
    BY <1>1 DEF OInv
  <2>3. PICK l : l = stream[f[n]]
    OBVIOUS
  <2>4. f[n] \in 1 .. Len(stream) /\ Made(plans[n], l)
    BY <2>1, <2>2, <2>3 DEF Lines, Effective
  <2>5. l \in Line
    BY <2>1, <2>3, <2>4, LineTyped
  <2>6. plans[n].risk = Risk(l) /\ plans[n].by = BlockedBy(l)
    BY <2>4 DEF Made
  <2>7. l.status = "blocked"
    BY <1>1, <2>1, <2>6 DEF Risk
  <2>8. Risk(l).reasons = Reasons(l.by) /\ BlockedBy(l) = l.by
    BY <1>1, <2>7 DEF Risk, BlockedBy, Status
  <2>9. l.by \in SUBSET Nat
    BY <2>5 DEF Line
  <2> QED BY <2>1, <2>6, <2>8, <2>9
<1>2. ASSUME PInv, OInv, output # None, withRisk
      PROVE  ReasonsMatchBlockers
  <2>1. TypeOK
    BY <1>2 DEF PInv
  <2> QED BY <1>1, <1>2, <2>1, ReasonsNameRules DEF ReasonsMatchBlockers
<1>3. PInv /\ OInv => ReasonsMatchBlockers
  BY <1>2 DEF ReasonsMatchBlockers
<1> QED BY <1>3, PlannerInvariant, PTL

=============================================================================

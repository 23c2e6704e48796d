------------------------- MODULE EventIntentsProofs -------------------------
(***************************************************************************)
(* What resolve_intents_for_event promises, for any set of raw intents     *)
(* with distinct ids: a winner exists among any of them, each loser ends   *)
(* at an intent in effect, and resolving again changes nothing.  All of it *)
(* holds of the intents of an event at every moment, because the ids the   *)
(* evaluator gives them count up.                                          *)
(***************************************************************************)
EXTENDS EventIntents, WellFoundedInduction, FiniteSetTheorems, TLAPS

Intents(S) ==
  /\ \A d \in S : RawIntent(d)
  /\ \A d, e \in S : d.id = e.id => d = e

-----------------------------------------------------------------------------
(* The order of winner_sort_key.                                           *)

LEMMA AbsQtyRange ==
  ASSUME NEW d, RawIntent(d)
  PROVE  AbsQty(d) \in 0 .. MaxQty
BY QuantityAssumption, NoneAssumption DEF RawIntent, AbsQty, Quantity

(* A nonempty set of numbers has a least one.                              *)
LEMMA LeastNatural ==
  ASSUME NEW T, T \subseteq Nat, T # {}
  PROVE  \E x \in T : \A y \in T : x <= y
<1> DEFINE R == {ss \in Nat \X Nat : ss[1] < ss[2]}
<1>1. R = OpToRel(<, Nat)
  BY DEF OpToRel
<1>2. IsWellFoundedOn(R, Nat)
  BY <1>1, NatLessThanWellFounded, Zenon
<1> HIDE DEF R
<1>3. PICK x \in T : \A y \in T : ~ (<<y, x>> \in R)
  BY <1>2, WFMin
<1>4. \A y, z \in Nat : y < z => <<y, z>> \in R
  BY DEF R
<1>5. ASSUME NEW y \in T
      PROVE  x <= y
  <2>1. x \in Nat /\ y \in Nat
    OBVIOUS
  <2>2. ~ (y < x)
    BY <1>3, <1>4, <2>1
  <2> QED BY <2>1, <2>2
<1> QED BY <1>5

LEMMA BeatsAsymmetric ==
  ASSUME NEW d, NEW e, RawIntent(d), RawIntent(e), Beats(d, e)
  PROVE  ~ Beats(e, d)
<1>1. AbsQty(d) \in Int /\ AbsQty(e) \in Int
  BY AbsQtyRange
<1>2. ActionRank(d) \in Int /\ ActionRank(e) \in Int
  BY DEF ActionRank
<1>3. d.id \in Int /\ e.id \in Int
  BY DEF RawIntent
<1> QED BY <1>1, <1>2, <1>3 DEF Beats

LEMMA BeatsTransitive ==
  ASSUME NEW d, NEW e, NEW f, RawIntent(d), RawIntent(e), RawIntent(f),
         Beats(d, e), Beats(e, f)
  PROVE  Beats(d, f)
<1>1. AbsQty(d) \in Int /\ AbsQty(e) \in Int /\ AbsQty(f) \in Int
  BY AbsQtyRange
<1>2. ActionRank(d) \in Int /\ ActionRank(e) \in Int /\ ActionRank(f) \in Int
  BY DEF ActionRank
<1>3. d.id \in Int /\ e.id \in Int /\ f.id \in Int
  BY DEF RawIntent
<1> QED BY <1>1, <1>2, <1>3 DEF Beats

LEMMA BeatsTotal ==
  ASSUME NEW d, NEW e, RawIntent(d), RawIntent(e), d.id # e.id
  PROVE  Beats(d, e) \/ Beats(e, d)
<1>1. AbsQty(d) \in Int /\ AbsQty(e) \in Int
  BY AbsQtyRange
<1>2. ActionRank(d) \in Int /\ ActionRank(e) \in Int
  BY DEF ActionRank
<1>3. d.id \in Int /\ e.id \in Int
  BY DEF RawIntent
<1> QED BY <1>1, <1>2, <1>3 DEF Beats

(* Whatever the intents, one of them beats the others: take the highest    *)
(* rank, of those the largest size, of those the earliest id.              *)
LEMMA WinnerExists ==
  ASSUME NEW S, Intents(S), S # {}
  PROVE  \E d \in S : \A e \in S \ {d} : Beats(d, e)
<1> DEFINE Rank(d)  == 2 - ActionRank(d)
           Short(d) == MaxQty - AbsQty(d)
<1>1. \A d \in S : /\ Rank(d) \in Nat /\ Short(d) \in Nat /\ d.id \in Nat
                   /\ AbsQty(d) \in Int
  BY AbsQtyRange, QuantityAssumption DEF Intents, RawIntent, ActionRank
<1> DEFINE T == {Rank(d) : d \in S}
<1>2. PICK a \in S : \A d \in S : Rank(a) <= Rank(d)
  <2>1. T \subseteq Nat /\ T # {}
    BY <1>1
  <2>2. PICK x \in T : \A y \in T : x <= y
    BY <2>1, LeastNatural
  <2> QED BY <2>2
<1> DEFINE A == {d \in S : Rank(d) = Rank(a)}
           U == {Short(d) : d \in A}
<1>3. PICK b \in A : \A d \in A : Short(b) <= Short(d)
  <2>1. U \subseteq Nat /\ U # {}
    BY <1>1
  <2>2. PICK x \in U : \A y \in U : x <= y
    BY <2>1, LeastNatural
  <2> QED BY <2>2
<1> DEFINE B == {d \in A : Short(d) = Short(b)}
           V == {d.id : d \in B}
<1>4. PICK c \in B : \A d \in B : c.id <= d.id
  <2>1. V \subseteq Nat /\ V # {}
    BY <1>1
  <2>2. PICK x \in V : \A y \in V : x <= y
    BY <2>1, LeastNatural
  <2> QED BY <2>2
<1>5. ASSUME NEW e \in S \ {c}
      PROVE  Beats(c, e)
  <2>1. ActionRank(c) \in 1 .. 2 /\ ActionRank(e) \in 1 .. 2
    BY DEF ActionRank
  <2>2. AbsQty(c) \in Int /\ AbsQty(e) \in Int /\ c.id \in Nat /\ e.id \in Nat
        /\ c.id # e.id
    BY <1>1 DEF Intents
  <2>3. ActionRank(c) >= ActionRank(e)
    BY <1>2, <2>1
  <2>4. ActionRank(c) = ActionRank(e) => e \in A
    BY <2>1
  <2>5. ActionRank(c) = ActionRank(e) => AbsQty(c) >= AbsQty(e)
    BY <1>3, <2>2, <2>4, QuantityAssumption
  <2>6. ActionRank(c) = ActionRank(e) /\ AbsQty(c) = AbsQty(e) => c.id < e.id
    BY <1>4, <2>2, <2>4, QuantityAssumption
  <2> QED BY <2>1, <2>2, <2>3, <2>5, <2>6 DEF Beats
<1> QED BY <1>5

LEMMA WinnerWins ==
  ASSUME NEW S, Intents(S), S # {}
  PROVE  /\ Winner(S) \in S
         /\ \A e \in S \ {Winner(S)} : Beats(Winner(S), e)
BY WinnerExists DEF Winner

(* Fewer rivals do not unseat a winner.                                    *)
LEMMA WinnerOfSubset ==
  ASSUME NEW S, Intents(S), NEW T, T \subseteq S, S # {}, Winner(S) \in T
  PROVE  Winner(T) = Winner(S)
<1>1. Intents(T) /\ T # {}
  BY DEF Intents
<1>2. /\ Winner(T) \in T
      /\ \A e \in T \ {Winner(T)} : Beats(Winner(T), e)
  BY <1>1, WinnerWins
<1>3. \A e \in S \ {Winner(S)} : Beats(Winner(S), e)
  BY WinnerWins
<1>4. RawIntent(Winner(S)) /\ RawIntent(Winner(T))
  BY <1>2 DEF Intents
<1> QED BY <1>2, <1>3, <1>4, BeatsAsymmetric

-----------------------------------------------------------------------------
(* Idempotency collapse.                                                   *)

LEMMA KeeperIsCandidate ==
  ASSUME NEW S, Intents(S), NEW d \in S
  PROVE  /\ Keeper(S, d) \in Candidates(S)
         /\ IdempotencyKey(Keeper(S, d)) = IdempotencyKey(d)
<1> DEFINE Same(x) == {e \in S : IdempotencyKey(e) = IdempotencyKey(x)}
           k == Keeper(S, d)
<1>1. Intents(Same(d)) /\ Same(d) # {}
  BY DEF Intents
<1>2. k \in Same(d)
  BY <1>1, WinnerWins DEF Keeper
<1>3. Same(k) = Same(d)
  BY <1>2
<1>4. Keeper(S, k) = k
  BY <1>3 DEF Keeper
<1> QED BY <1>2, <1>4 DEF Candidates

-----------------------------------------------------------------------------
(* Conflict resolution: whoever a candidate loses to is in effect.         *)

LEMMA CandidateLosesToEffective ==
  ASSUME NEW S, Intents(S), NEW d \in Candidates(S)
  PROVE  OverriddenBy(S, d) \in Effective(S)
<1>1. CASE Cancels(S, d.symbol) # {}
  <2> DEFINE w == Winner(Cancels(S, d.symbol))
  <2>1. Intents(Cancels(S, d.symbol))
    BY DEF Intents, Cancels, Candidates
  <2>2. w \in Cancels(S, d.symbol)
    BY <1>1, <2>1, WinnerWins
  <2>3. w \in Candidates(S) /\ w \in S /\ w.symbol = d.symbol
    BY <2>2 DEF Cancels, Candidates
  <2>4. OverriddenBy(S, d) = w /\ OverriddenBy(S, w) = w
    BY <1>1, <2>3 DEF OverriddenBy
  <2> QED BY <2>3, <2>4 DEF Effective
<1>2. CASE Cancels(S, d.symbol) = {}
  <2> DEFINE R == Declares(S, d.symbol, d.ikind)
             w == Winner(R)
  <2>1. Intents(R) /\ d \in R
    BY <1>2 DEF Intents, Cancels, Declares, Candidates
  <2>2. w \in R
    BY <2>1, WinnerWins
  <2>3. /\ w \in Candidates(S) /\ w \in S
        /\ w.symbol = d.symbol /\ w.ikind = d.ikind
    BY <2>2 DEF Declares, Candidates
  <2>4. OverriddenBy(S, d) = w /\ OverriddenBy(S, w) = w
    BY <1>2, <2>3 DEF OverriddenBy
  <2> QED BY <2>3, <2>4 DEF Effective
<1> QED BY <1>1, <1>2

LEMMA UltimateWinnerInEffect ==
  ASSUME NEW S, Intents(S), NEW d \in S
  PROVE  UltimateWinner(S, d) \in Effective(S)
<1>1. CASE d \in Candidates(S)
  BY <1>1, CandidateLosesToEffective DEF UltimateWinner, Effective
<1>2. CASE d \notin Candidates(S)
  <2>1. OverriddenBy(S, d) \in Candidates(S)
    BY <1>2, KeeperIsCandidate DEF OverriddenBy
  <2> QED BY <2>1, CandidateLosesToEffective DEF UltimateWinner
<1> QED BY <1>1, <1>2

(* The candidate an intent collapsed into, or itself, loses to a cancel or *)
(* to a declare of its kind that is at least as large.                     *)
LEMMA CandidateLosesToStronger ==
  ASSUME NEW S, Intents(S), NEW d \in Candidates(S), NEW w, w = OverriddenBy(S, d)
  PROVE  /\ w.symbol = d.symbol
         /\ \/ w.action = "cancel"
            \/ /\ d.action = "declare" /\ w.ikind = d.ikind
               /\ AbsQty(w) >= AbsQty(d)
<1>1. d \in S /\ d.action \in {"declare", "cancel"}
  BY DEF Candidates, Intents, RawIntent
<1>2. CASE Cancels(S, d.symbol) # {}
  <2>1. Intents(Cancels(S, d.symbol))
    BY DEF Intents, Cancels, Candidates
  <2>2. w \in Cancels(S, d.symbol)
    BY <1>2, <2>1, WinnerWins DEF OverriddenBy
  <2> QED BY <2>2 DEF Cancels
<1>3. CASE Cancels(S, d.symbol) = {}
  <2> DEFINE R == Declares(S, d.symbol, d.ikind)
  <2>1. Intents(R) /\ d \in R /\ d.action = "declare"
    BY <1>1, <1>3 DEF Intents, Cancels, Declares, Candidates
  <2>2. w = Winner(R)
    BY <1>3 DEF OverriddenBy
  <2>3. w \in R /\ (w = d \/ Beats(w, d))
    BY <2>1, <2>2, WinnerWins
  <2>4. w.symbol = d.symbol /\ w.ikind = d.ikind /\ w.action = "declare"
    BY <2>1, <2>3 DEF Declares, Intents, RawIntent
  <2>5. AbsQty(w) \in Int /\ AbsQty(d) \in Int
    BY <2>1, <2>3, AbsQtyRange DEF Intents
  <2>6. AbsQty(w) >= AbsQty(d)
    BY <2>1, <2>3, <2>4, <2>5 DEF Beats, ActionRank
  <2> QED BY <2>1, <2>4, <2>6
<1> QED BY <1>2, <1>3

LEMMA UltimateWinnerIsStronger ==
  ASSUME NEW S, Intents(S), NEW d \in S, NEW w, w = UltimateWinner(S, d)
  PROVE  /\ w.symbol = d.symbol
         /\ \/ w.action = "cancel"
            \/ /\ d.action = "declare" /\ w.ikind = d.ikind
               /\ AbsQty(w) >= AbsQty(d)
<1>1. CASE d \in Candidates(S)
  <2>1. OverriddenBy(S, d) \in Effective(S)
    BY <1>1, CandidateLosesToEffective
  <2>2. w = OverriddenBy(S, d)
    BY <2>1 DEF UltimateWinner, Effective
  <2> QED BY <1>1, <2>2, CandidateLosesToStronger
<1>2. CASE d \notin Candidates(S)
  <2>1. PICK k : k = Keeper(S, d)
    OBVIOUS
  <2>2. k \in Candidates(S) /\ IdempotencyKey(k) = IdempotencyKey(d)
    BY <2>1, KeeperIsCandidate
  <2>3. w = OverriddenBy(S, k)
    BY <1>2, <2>1 DEF UltimateWinner, OverriddenBy
  <2>4. /\ k.symbol = d.symbol /\ k.ikind = d.ikind
        /\ k.action = d.action /\ AbsQty(k) = AbsQty(d)
    BY <2>2 DEF IdempotencyKey, AbsQty
  <2> QED BY <2>2, <2>3, <2>4, CandidateLosesToStronger
<1> QED BY <1>1, <1>2

-----------------------------------------------------------------------------
(* The outcome without its computation: an intent is in effect exactly     *)
(* when it beats all its rivals, the cancels of its symbol and, for a      *)
(* declare, the declares of its symbol and kind.                           *)

Rivals(S, d) ==
  {e \in S \ {d} : /\ e.symbol = d.symbol
                   /\ \/ e.action = "cancel"
                      \/ d.action = "declare" /\ e.ikind = d.ikind}

Unbeaten(S) == {d \in S : \A e \in Rivals(S, d) : Beats(d, e)}

LEMMA EffectiveBeatsRivals ==
  ASSUME NEW S, Intents(S), NEW d \in Effective(S), NEW e \in Rivals(S, d)
  PROVE  Beats(d, e)
<1> DEFINE k    == Keeper(S, e)
           Same == {x \in S : IdempotencyKey(x) = IdempotencyKey(e)}
<1>1. /\ d \in S /\ e \in S /\ e # d
      /\ d \in Candidates(S) /\ OverriddenBy(S, d) = d
  BY DEF Effective, OverriddenBy, Candidates, Rivals
<1>2. k \in Candidates(S) /\ k \in S /\ IdempotencyKey(k) = IdempotencyKey(e)
  BY <1>1, KeeperIsCandidate DEF Candidates
<1>3. k.symbol = e.symbol /\ k.ikind = e.ikind /\ k.action = e.action
  BY <1>2 DEF IdempotencyKey
<1>4. k = e \/ Beats(k, e)
  <2>1. Intents(Same) /\ e \in Same
    BY <1>1 DEF Intents
  <2> QED BY <2>1, WinnerWins DEF Keeper
<1>5. d = k \/ Beats(d, k)
  <2>1. CASE Cancels(S, d.symbol) # {}
    <3>1. d = Winner(Cancels(S, d.symbol)) /\ Intents(Cancels(S, d.symbol))
      BY <1>1, <2>1 DEF OverriddenBy, Intents, Cancels, Candidates
    <3>2. d.action = "cancel"
      BY <2>1, <3>1, WinnerWins DEF Cancels
    <3>3. k \in Cancels(S, d.symbol)
      BY <1>2, <1>3, <3>2 DEF Rivals, Cancels
    <3> QED BY <3>1, <3>3, WinnerWins
  <2>2. CASE Cancels(S, d.symbol) = {}
    <3>1. d = Winner(Declares(S, d.symbol, d.ikind))
      BY <1>1, <2>2 DEF OverriddenBy
    <3>2. k.action # "cancel"
      BY <1>2, <1>3, <2>2 DEF Rivals, Cancels
    <3>3. k \in Declares(S, d.symbol, d.ikind)
      BY <1>2, <1>3, <3>2 DEF Rivals, Declares
    <3>4. Intents(Declares(S, d.symbol, d.ikind))
      BY DEF Intents, Declares, Candidates
    <3> QED BY <3>1, <3>3, <3>4, WinnerWins
  <2> QED BY <2>1, <2>2
<1>6. RawIntent(d) /\ RawIntent(k) /\ RawIntent(e)
  BY <1>1, <1>2 DEF Intents
<1> QED BY <1>1, <1>4, <1>5, <1>6, BeatsTransitive

LEMMA UnbeatenIsEffective ==
  ASSUME NEW S, Intents(S), NEW d \in Unbeaten(S)
  PROVE  d \in Effective(S)
<1>1. d \in S /\ RawIntent(d)
  BY DEF Unbeaten, Intents
<1>2. d \in Candidates(S)
  <2> DEFINE Same == {e \in S : IdempotencyKey(e) = IdempotencyKey(d)}
             k    == Winner(Same)
  <2>1. Intents(Same) /\ d \in Same
    BY <1>1 DEF Intents
  <2>2. k \in Same /\ (k = d \/ Beats(k, d))
    BY <2>1, WinnerWins
  <2>3. k = d \/ k \in Rivals(S, d)
    BY <1>1, <2>2 DEF IdempotencyKey, Rivals, RawIntent
  <2>4. k = d
    BY <1>1, <2>2, <2>3, BeatsAsymmetric DEF Unbeaten, Intents
  <2> QED BY <1>1, <2>4 DEF Candidates, Keeper
<1>3. CASE Cancels(S, d.symbol) # {}
  <2> DEFINE w == Winner(Cancels(S, d.symbol))
  <2>1. Intents(Cancels(S, d.symbol))
    BY DEF Intents, Cancels, Candidates
  <2>2. w \in Cancels(S, d.symbol)
    BY <1>3, <2>1, WinnerWins
  <2>3. w \in S /\ RawIntent(w) /\ w.action = "cancel" /\ w.symbol = d.symbol
    BY <2>2 DEF Cancels, Candidates, Intents
  <2>4. w = d \/ Beats(d, w)
    BY <2>3 DEF Unbeaten, Rivals
  <2>5. Beats(d, w) => d.action = "cancel"
    BY <2>3 DEF Beats, ActionRank
  <2>6. d.action = "cancel" => w = d \/ Beats(w, d)
    BY <1>2, <1>3, <2>1, WinnerWins DEF Cancels
  <2>7. w = d
    BY <1>1, <2>3, <2>4, <2>5, <2>6, BeatsAsymmetric
  <2> QED BY <1>1, <1>2, <1>3, <2>7 DEF Effective, OverriddenBy
<1>4. CASE Cancels(S, d.symbol) = {}
  <2> DEFINE R == Declares(S, d.symbol, d.ikind)
             w == Winner(R)
  <2>1. d.action = "declare"
    BY <1>1, <1>2, <1>4 DEF Cancels, RawIntent
  <2>2. Intents(R) /\ d \in R
    BY <1>2, <2>1 DEF Intents, Declares, Candidates
  <2>3. w \in R /\ (w = d \/ Beats(w, d))
    BY <2>2, WinnerWins
  <2>4. w \in S /\ RawIntent(w) /\ w.symbol = d.symbol /\ w.ikind = d.ikind
    BY <2>3 DEF Declares, Candidates, Intents
  <2>5. w = d \/ Beats(d, w)
    BY <2>1, <2>4 DEF Unbeaten, Rivals
  <2>6. w = d
    BY <1>1, <2>3, <2>4, <2>5, BeatsAsymmetric
  <2> QED BY <1>1, <1>2, <1>4, <2>6 DEF Effective, OverriddenBy
<1> QED BY <1>3, <1>4

(* resolve_intents_for_event computes the unbeaten intents.                *)
THEOREM EffectiveIsUnbeaten ==
  ASSUME NEW S, Intents(S)
  PROVE  Effective(S) = Unbeaten(S)
<1>1. Effective(S) \subseteq Unbeaten(S)
  BY EffectiveBeatsRivals DEF Unbeaten, Effective
<1> QED BY <1>1, UnbeatenIsEffective

(* Resolving the effective intents again keeps every one of them.          *)
LEMMA EffectiveIsStable ==
  ASSUME NEW S, Intents(S)
  PROVE  Effective(Effective(S)) = Effective(S)
<1>1. Effective(S) \subseteq S /\ Intents(Effective(S))
  BY DEF Effective, Intents
<1>2. Unbeaten(Unbeaten(S)) = Unbeaten(S)
  BY DEF Unbeaten, Rivals
<1> QED BY <1>1, <1>2, EffectiveIsUnbeaten

(* Who beats a loser also beats those the loser beats.                     *)
LEMMA RivalsTransitive ==
  ASSUME NEW S, Intents(S), NEW x \in S, NEW d \in Rivals(S, x),
         NEW w \in Rivals(S, d), Beats(w, d), Beats(d, x)
  PROVE  w \in Rivals(S, x) /\ Beats(w, x)
<1>1. d \in S /\ w \in S /\ RawIntent(x) /\ RawIntent(d) /\ RawIntent(w)
  BY DEF Rivals, Intents
<1>2. Beats(w, x) /\ ~ Beats(x, w)
  BY <1>1, BeatsTransitive, BeatsAsymmetric
<1>3. w # x
  BY <1>1, BeatsAsymmetric
<1>4. w.symbol = x.symbol
  BY DEF Rivals
<1>5. w.action = "cancel" \/ (x.action = "declare" /\ w.ikind = x.ikind)
  BY <1>1 DEF Rivals, RawIntent
<1> QED BY <1>1, <1>2, <1>3, <1>4, <1>5 DEF Rivals

(* A beaten intent is beaten by one that is in effect.                     *)
LEMMA BeatenByEffective ==
  ASSUME NEW S, Intents(S), NEW d \in S, d \notin Effective(S)
  PROVE  \E w \in Rivals(S, d) : w \in Effective(S) /\ Beats(w, d)
<1> DEFINE L == {e \in Rivals(S, d) : Beats(e, d)}
           w == Winner(L)
<1>1. L # {} /\ Intents(L) /\ L \subseteq S
  <2>1. PICK e \in Rivals(S, d) : ~ Beats(d, e)
    BY UnbeatenIsEffective DEF Unbeaten
  <2>2. e \in S /\ e # d /\ RawIntent(e) /\ RawIntent(d) /\ e.id # d.id
    BY <2>1 DEF Rivals, Intents
  <2>3. Beats(e, d)
    BY <2>1, <2>2, BeatsTotal
  <2> QED BY <2>1, <2>3 DEF Rivals, Intents
<1>2. w \in L /\ \A e \in L \ {w} : Beats(w, e)
  BY <1>1, WinnerWins
<1>3. ASSUME NEW r \in Rivals(S, w), ~ Beats(w, r)
      PROVE  FALSE
  <2>1. r \in S /\ r # w /\ RawIntent(r) /\ RawIntent(w) /\ r.id # w.id /\ w \in S
    BY <1>1, <1>2 DEF Rivals, Intents
  <2>2. Beats(r, w)
    BY <1>3, <2>1, BeatsTotal
  <2>3. r \in L
    BY <1>2, <2>2, RivalsTransitive
  <2> QED BY <1>2, <1>3, <2>1, <2>3
<1>4. w \in Unbeaten(S)
  BY <1>1, <1>2, <1>3 DEF Unbeaten
<1> QED BY <1>2, <1>4, UnbeatenIsEffective

(* Without an intent that lost, the same intents win.                      *)
LEMMA WithoutALoser ==
  ASSUME NEW S, Intents(S), NEW d \in S, d \notin Effective(S)
  PROVE  Effective(S \ {d}) = Effective(S)
<1> DEFINE T == S \ {d}
<1>1. Intents(T) /\ T \subseteq S
  BY DEF Intents
<1>2. Unbeaten(S) \subseteq Unbeaten(T)
  <2>1. d \notin Unbeaten(S)
    BY UnbeatenIsEffective
  <2> QED BY <2>1 DEF Unbeaten, Rivals
<1>3. ASSUME NEW x \in Unbeaten(T)
      PROVE  x \in Unbeaten(S)
  <2>1. x \in S /\ x # d /\ \A e \in Rivals(T, x) : Beats(x, e)
    BY DEF Unbeaten
  <2>2. SUFFICES ASSUME d \in Rivals(S, x), ~ Beats(x, d)
                 PROVE  FALSE
    BY <2>1 DEF Unbeaten, Rivals
  <2>3. Beats(d, x)
    <3>1. x.id # d.id /\ RawIntent(x) /\ RawIntent(d)
      BY <2>1 DEF Intents
    <3> QED BY <2>2, <3>1, BeatsTotal
  <2>4. PICK w \in Rivals(S, d) : Beats(w, d)
    BY BeatenByEffective
  <2>5. w \in Rivals(S, x) /\ Beats(w, x) /\ w # d
    BY <2>1, <2>2, <2>3, <2>4, RivalsTransitive DEF Rivals
  <2>6. w \in Rivals(T, x)
    BY <2>5 DEF Rivals
  <2> QED BY <2>1, <2>5, <2>6, BeatsAsymmetric DEF Intents, Rivals
<1> QED BY <1>1, <1>2, <1>3, EffectiveIsUnbeaten

-----------------------------------------------------------------------------
(* The intents of an event always are such a set.                          *)

Numbered ==
  /\ IsFiniteSet(raw)
  /\ \A d \in raw : RawIntent(d) /\ d.id \in 1 .. Cardinality(raw)
  /\ \A d \in raw : \E a \in Args : d = Intent(d.id, a)
  /\ \A d \in raw : d.action = "cancel" => d.qty = None
  /\ \A d, e \in raw : d.id = e.id => d = e

LEMMA NumberedInvariant == IntentSpec => []Numbered
<1>1. IntentInit => Numbered
  BY FS_EmptySet DEF IntentInit, Numbered
<1>2. Numbered /\ [EmitIntent]_raw => Numbered'
  <2> SUFFICES ASSUME Numbered, EmitIntent
               PROVE  Numbered'
    BY DEF Numbered
  <2> DEFINE n == Cardinality(raw) + 1
  <2>1. PICK a \in Args : raw' = raw \union {Intent(n, a)}
    BY DEF EmitIntent
  <2>2. n \in Nat /\ n > Cardinality(raw) /\ Cardinality(raw) \in Nat
    BY FS_CardinalityType DEF Numbered
  <2>3. /\ Intent(n, a).id = n /\ RawIntent(Intent(n, a))
        /\ Intent(n, a).action = "cancel" => Intent(n, a).qty = None
    BY <2>2, EventIntentsAssumption DEF Intent, RawIntent
  <2>4. Intent(n, a) \notin raw
    BY <2>2, <2>3 DEF Numbered
  <2>5. IsFiniteSet(raw') /\ Cardinality(raw') = n
    BY <2>1, <2>4, FS_AddElement DEF Numbered
  <2>6. \A d \in raw : d.id \in Nat
    BY DEF Numbered, RawIntent
  <2>7. \A d \in raw : RawIntent(d) /\ d.id <= Cardinality(raw) /\ d.id < n
    BY <2>2, <2>6 DEF Numbered
  <2>8. \A d \in raw' : RawIntent(d) /\ d.id \in 1 .. n
    BY <2>1, <2>2, <2>3, <2>6, <2>7 DEF Numbered
  <2>9. \A d, e \in raw' : d.id = e.id => d = e
    BY <2>1, <2>2, <2>3, <2>6, <2>7 DEF Numbered
  <2>10. \A d \in raw' : d.action = "cancel" => d.qty = None
    BY <2>1, <2>3 DEF Numbered
  <2>11. \A d \in raw' : \E b \in Args : d = Intent(d.id, b)
    BY <2>1, <2>3 DEF Numbered
  <2> QED BY <2>5, <2>8, <2>9, <2>10, <2>11 DEF Numbered
<1> QED BY <1>1, <1>2, PTL DEF IntentSpec

LEMMA NumberedIntents == Numbered => Intents(raw)
BY DEF Numbered, Intents

-----------------------------------------------------------------------------
(* At every moment each intent of the event that lost points to one that   *)
(* is in effect, through any chain of collapses and overrides              *)
(* (ultimate_winner).                                                      *)
THEOREM LosersPointToWinnersAlways == IntentSpec => []LosersPointToWinners
<1>1. Numbered => LosersPointToWinners
  BY NumberedIntents, UltimateWinnerInEffect DEF LosersPointToWinners
<1> QED BY <1>1, NumberedInvariant, PTL

(* At every moment the outcome of the resolution is free of conflicts:     *)
(* resolving it again keeps it (resolve_intents_for_event).                *)
THEOREM ResolutionIsStableAlways == IntentSpec => []ResolutionIsStable
<1>1. Numbered => ResolutionIsStable
  BY NumberedIntents, EffectiveIsStable DEF ResolutionIsStable
<1> QED BY <1>1, NumberedInvariant, PTL

(* At every moment an intent that lost could have been left out: the same  *)
(* intents would be in effect (overridden_by, ultimate_winner).            *)
THEOREM LosersAreIrrelevantAlways == IntentSpec => []LosersAreIrrelevant
<1>1. Numbered => LosersAreIrrelevant
  BY NumberedIntents, WithoutALoser DEF LosersAreIrrelevant
<1> QED BY <1>1, NumberedInvariant, PTL

-----------------------------------------------------------------------------
(* One more intent.                                                        *)

LEMMA OneMoreIntent ==
  ASSUME Numbered, Numbered', EmitIntent
  PROVE  \E i : /\ raw' = raw \union {i} /\ i \notin raw
                /\ \A d \in raw : d.id < i.id
<1> DEFINE n == Cardinality(raw) + 1
<1>1. PICK a \in Args : raw' = raw \union {Intent(n, a)}
  BY DEF EmitIntent
<1>2. Cardinality(raw) \in Nat /\ Intent(n, a).id = n
  BY FS_CardinalityType DEF Numbered, Intent
<1>3. \A d \in raw : d.id \in Nat /\ d.id < n
  BY <1>2 DEF Numbered, RawIntent
<1> QED BY <1>1, <1>2, <1>3

(* An effective intent that a later intent displaces was beaten by it.     *)
LEMMA DisplacedBy ==
  ASSUME Numbered, Numbered', NEW i, i \notin raw, raw' = raw \union {i},
         \A d \in raw : d.id < i.id,
         NEW d \in Effective(raw), d \notin Effective(raw')
  PROVE  /\ d.action = "declare"
         /\ \/ i.action = "cancel"
            \/ i.ikind = d.ikind /\ AbsQty(i) > AbsQty(d)
<1>1. Intents(raw) /\ Intents(raw')
  BY DEF Numbered, Intents
<1>2. d \in raw /\ RawIntent(d) /\ RawIntent(i) /\ d.id < i.id
  BY <1>1 DEF Effective, Intents
<1>3. \A e \in Rivals(raw, d) : Beats(d, e)
  BY <1>1, EffectiveBeatsRivals
<1>4. PICK e \in Rivals(raw', d) : ~ Beats(d, e)
  BY <1>1, <1>2, UnbeatenIsEffective DEF Unbeaten
<1>5. i \in Rivals(raw', d) /\ ~ Beats(d, i)
  BY <1>3, <1>4 DEF Rivals
<1>6. AbsQty(d) \in Int /\ AbsQty(i) \in Int /\ d.id \in Int /\ i.id \in Int
  BY <1>2, AbsQtyRange DEF RawIntent
<1>7. d.action = "declare"
  <2>1. SUFFICES ASSUME d.action = "cancel"
                 PROVE  FALSE
    BY <1>2 DEF RawIntent
  <2>2. i.action = "cancel"
    BY <1>5, <2>1 DEF Rivals
  <2>3. AbsQty(d) = 0 /\ AbsQty(i) = 0
    BY <1>2, <2>1, <2>2 DEF Numbered, AbsQty
  <2> QED BY <1>2, <1>5, <1>6, <2>1, <2>2, <2>3 DEF Beats, ActionRank
<1>8. i.action # "cancel" => i.ikind = d.ikind /\ AbsQty(i) > AbsQty(d)
  BY <1>2, <1>5, <1>6, <1>7 DEF Rivals, Beats, ActionRank, RawIntent
<1> QED BY <1>7, <1>8

(* An intent emitted later changes the outcome only by winning: otherwise  *)
(* the effective intents stay as they were, and one it displaces is a      *)
(* declare that it cancels or outsizes (winner_sort_key).                  *)
THEOREM DisplacedOnlyByWinnerAlways == IntentSpec => DisplacedOnlyByWinner
<1> DEFINE Step ==
      LET new == raw' \ raw IN
      /\ new \intersect Effective(raw') = {} => Effective(raw') = Effective(raw)
      /\ \A d \in Effective(raw) \ Effective(raw') :
           \E n \in new :
             /\ n \in Effective(raw')
             /\ d.action = "declare"
             /\ \/ n.action = "cancel"
                \/ n.ikind = d.ikind /\ AbsQty(n) > AbsQty(d)
<1>1. ASSUME Numbered, Numbered', EmitIntent
      PROVE  Step
  <2>1. PICK i : /\ raw' = raw \union {i} /\ i \notin raw
                 /\ \A d \in raw : d.id < i.id
    BY <1>1, OneMoreIntent
  <2>2. Intents(raw') /\ raw' \ raw = {i} /\ raw' \ {i} = raw
    BY <1>1, <2>1 DEF Numbered, Intents
  <2>3. i \notin Effective(raw') => Effective(raw') = Effective(raw)
    BY <2>1, <2>2, WithoutALoser
  <2>4. ASSUME NEW d \in Effective(raw) \ Effective(raw')
        PROVE  /\ i \in Effective(raw')
               /\ d.action = "declare"
               /\ \/ i.action = "cancel"
                  \/ i.ikind = d.ikind /\ AbsQty(i) > AbsQty(d)
    BY <1>1, <2>1, <2>3, DisplacedBy
  <2> QED BY <2>2, <2>3, <2>4
<1>2. Numbered /\ Numbered' /\ [EmitIntent]_raw => [Step]_raw
  BY <1>1
<1> QED BY <1>2, NumberedInvariant, PTL DEF IntentSpec, DisplacedOnlyByWinner

-----------------------------------------------------------------------------
(* The same intents in another order.                                      *)

(* What an outcome shows of an intent.                                     *)
Shown(d) == <<d.action, IF d.action = "cancel" THEN None ELSE d.ikind, AbsQty(d)>>

Indistinct(d, e) ==
  /\ d.symbol = e.symbol /\ d.action = e.action
  /\ d.ikind = e.ikind /\ d.qty = e.qty

(* Each intent of S has one of T that differs in the id only.              *)
Renames(h, S, T) ==
  /\ h \in [S -> T]
  /\ \A e \in T : \E d \in S : h[d] = e
  /\ \A d, e \in S : h[d] = h[e] => d = e
  /\ \A d \in S : Indistinct(d, h[d])

LEMMA RivalsRenamed ==
  ASSUME NEW S, NEW T, NEW h, Renames(h, S, T), NEW d \in S, NEW e \in S
  PROVE  e \in Rivals(S, d) <=> h[e] \in Rivals(T, h[d])
BY DEF Renames, Indistinct, Rivals

(* Two intents of which neither is stronger show the same.                 *)
LEMMA TiesShowTheSame ==
  ASSUME NEW S, Intents(S), NEW d \in S, NEW e \in Rivals(S, d),
         NEW x, NEW y, RawIntent(x), RawIntent(y), Indistinct(d, x), Indistinct(e, y),
         Beats(d, e), Beats(y, x)
  PROVE  Shown(d) = Shown(e)
<1>1. RawIntent(d) /\ RawIntent(e) /\ e \in S
  BY DEF Rivals, Intents
<1>2. /\ AbsQty(d) \in Int /\ AbsQty(e) \in Int
      /\ AbsQty(x) = AbsQty(d) /\ AbsQty(y) = AbsQty(e)
      /\ x.action = d.action /\ y.action = e.action
  BY <1>1, AbsQtyRange DEF Indistinct, AbsQty
<1>3. ActionRank(d) = ActionRank(e) /\ AbsQty(d) = AbsQty(e)
  BY <1>2 DEF Beats, ActionRank
<1>4. d.action = e.action
  BY <1>1, <1>3 DEF ActionRank, RawIntent
<1>5. d.action # "cancel" => e.ikind = d.ikind
  BY <1>4 DEF Rivals
<1> QED BY <1>3, <1>4, <1>5 DEF Shown

LEMMA AlikeShowTheSame ==
  ASSUME NEW d, NEW e, Indistinct(d, e)
  PROVE  Shown(d) = Shown(e)
BY DEF Indistinct, Shown, AbsQty

(* Whatever wins in S, something that shows the same wins in T.            *)
LEMMA WinnersRenamed ==
  ASSUME NEW S, Intents(S), NEW T, Intents(T), NEW h, Renames(h, S, T),
         NEW d \in Effective(S)
  PROVE  \E e \in Effective(T) : Shown(e) = Shown(d)
<1>1. d \in S /\ h[d] \in T /\ Indistinct(d, h[d])
  BY DEF Effective, Renames
<1>2. CASE h[d] \in Effective(T)
  BY <1>1, <1>2, AlikeShowTheSame
<1>3. CASE h[d] \notin Effective(T)
  <2>1. PICK v \in Rivals(T, h[d]) : v \in Effective(T) /\ Beats(v, h[d])
    BY <1>1, <1>3, BeatenByEffective
  <2>2. PICK w \in S : h[w] = v
    BY <2>1 DEF Rivals, Renames
  <2>3. w \in Rivals(S, d) /\ Indistinct(w, v)
    BY <1>1, <2>1, <2>2, RivalsRenamed DEF Renames
  <2>4. Beats(d, w)
    BY <2>3, EffectiveBeatsRivals
  <2>5. RawIntent(h[d]) /\ RawIntent(v)
    BY <1>1, <2>1 DEF Intents, Rivals
  <2>6. Shown(d) = Shown(w)
    BY <1>1, <2>1, <2>3, <2>4, <2>5, TiesShowTheSame
  <2>7. Shown(w) = Shown(v)
    BY <2>3, AlikeShowTheSame
  <2> QED BY <2>1, <2>6, <2>7
<1> QED BY <1>2, <1>3

(* And whatever wins in T.                                                 *)
LEMMA WinnersRenamedBack ==
  ASSUME NEW S, Intents(S), NEW T, Intents(T), NEW h, Renames(h, S, T),
         NEW e \in Effective(T)
  PROVE  \E d \in Effective(S) : Shown(d) = Shown(e)
<1>1. PICK d \in S : h[d] = e
  BY DEF Effective, Renames
<1>2. Indistinct(d, e) /\ Shown(d) = Shown(e)
  BY <1>1, AlikeShowTheSame DEF Renames
<1>3. CASE d \in Effective(S)
  BY <1>2, <1>3
<1>4. CASE d \notin Effective(S)
  <2>1. PICK w \in Rivals(S, d) : w \in Effective(S) /\ Beats(w, d)
    BY <1>4, BeatenByEffective
  <2>2. w \in S /\ h[w] \in Rivals(T, e) /\ Indistinct(w, h[w])
    BY <1>1, <2>1, RivalsRenamed DEF Rivals, Renames
  <2>3. Beats(e, h[w])
    BY <2>2, EffectiveBeatsRivals
  <2>4. RawIntent(d) /\ RawIntent(w) /\ e \in T
    BY <2>2 DEF Intents, Effective
  <2>5. Indistinct(e, d) /\ Indistinct(h[w], w)
    BY <1>2, <2>2 DEF Indistinct
  <2>6. Shown(e) = Shown(h[w])
    BY <2>1, <2>2, <2>3, <2>4, <2>5, TiesShowTheSame
  <2>7. Shown(h[w]) = Shown(w)
    BY <2>2, AlikeShowTheSame
  <2> QED BY <2>1, <2>6, <2>7
<1> QED BY <1>3, <1>4

(* Only the id of an intent changes.                                       *)
LEMMA Renumbered ==
  ASSUME NEW id, NEW a, NEW q, NEW g, g = [Intent(id, a) EXCEPT !.id = q]
  PROVE  g.id = q /\ Indistinct(Intent(id, a), g)
BY DEF Intent, Indistinct

LEMMA ReorderingRenames ==
  ASSUME Numbered, NEW p \in Orders
  PROVE  Intents(Reordered(p)) /\ \E h : Renames(h, raw, Reordered(p))
<1> DEFINE n == Cardinality(raw)
<1>1. /\ n \in Nat /\ p \in [1 .. n -> 1 .. n]
      /\ \A i, j \in 1 .. n : p[i] = p[j] => i = j
  BY FS_CardinalityType DEF Numbered, Orders
<1>2. PICK h : h = [d \in raw |-> [d EXCEPT !.id = p[d.id]]]
  OBVIOUS
<1>3. ASSUME NEW d \in raw
      PROVE  /\ d.id \in 1 .. n /\ h[d].id = p[d.id]
             /\ RawIntent(h[d]) /\ Indistinct(d, h[d])
  <2>1. PICK a \in Args : d = Intent(d.id, a)
    BY DEF Numbered
  <2>2. d.id \in 1 .. n /\ p[d.id] \in 1 .. n /\ RawIntent(d)
    BY <1>1 DEF Numbered
  <2>3. h[d] = [Intent(d.id, a) EXCEPT !.id = p[d.id]]
    BY <1>2, <2>1
  <2>5. h[d].id = p[d.id] /\ Indistinct(Intent(d.id, a), h[d])
    BY <2>3, Renumbered
  <2>6. h[d].action = d.action /\ h[d].qty = d.qty /\ Indistinct(d, h[d])
    BY <2>1, <2>5 DEF Indistinct
  <2> QED BY <1>1, <2>2, <2>5, <2>6 DEF RawIntent
<1>4. Reordered(p) = {h[d] : d \in raw}
  BY <1>2 DEF Reordered
<1>5. \A d, e \in raw : h[d].id = h[e].id => d = e
  BY <1>1, <1>3 DEF Numbered
<1>6. Intents(Reordered(p))
  BY <1>3, <1>4, <1>5 DEF Intents
<1>7. Renames(h, raw, Reordered(p))
  BY <1>2, <1>3, <1>4, <1>5 DEF Renames
<1> QED BY <1>6, <1>7

LEMMA OutcomeIsShown ==
  ASSUME NEW S
  PROVE  Outcome(S) = {Shown(d) : d \in Effective(S)}
BY DEF Outcome, Shown

(* At every moment, any other order of the same intents would leave an     *)
(* outcome of the same actions, kinds and sizes: the order of the rule     *)
(* files and of the rules decides only among intents equal in all of these *)
(* (winner_sort_key compares the id last).                                 *)
THEOREM OrderOnlyEverBreaksTies == IntentSpec => []OrderOnlyBreaksTies
<1>1. ASSUME Numbered, NEW p \in Orders
      PROVE  Outcome(Reordered(p)) = Outcome(raw)
  <2>1. PICK T : T = Reordered(p)
    OBVIOUS
  <2>2. PICK h : Intents(raw) /\ Intents(T) /\ Renames(h, raw, T)
    BY <1>1, <2>1, NumberedIntents, ReorderingRenames
  <2>3. {Shown(e) : e \in Effective(T)} = {Shown(d) : d \in Effective(raw)}
    BY <2>2, WinnersRenamed, WinnersRenamedBack
  <2> QED BY <2>1, <2>3, OutcomeIsShown
<1>2. Numbered => OrderOnlyBreaksTies
  BY <1>1 DEF OrderOnlyBreaksTies
<1> QED BY <1>2, NumberedInvariant, PTL

=============================================================================

--------------------------- MODULE SnapshotProofs ---------------------------
(***************************************************************************)
(* Theorems about SnapshotFiles: what the loaders and the selection of a   *)
(* contract make of a file with any number of rows.  First that sorting by *)
(* counting what comes before lists every member once; then one theorem    *)
(* for each property of the files.                                         *)
(***************************************************************************)
EXTENDS SnapshotFiles, FiniteSetTheorems, FunctionTheorems,
        WellFoundedInduction, TLAPS

-----------------------------------------------------------------------------
(* before[x]: x and the members of S that come before it in an order.      *)
Ranking(S, before) ==
  /\ before \in [S -> SUBSET S]
  /\ \A x \in S : x \in before[x]
  /\ \A x, y \in S : y \in before[x] => before[y] \subseteq before[x]
  /\ \A x, y \in S : x \in before[y] \/ y \in before[x]
  /\ \A x, y \in S : x \in before[y] /\ y \in before[x] => x = y

(* Counting tells who comes first.                                         *)
LEMMA RanksOrder ==
  ASSUME NEW S, IsFiniteSet(S), NEW before, Ranking(S, before),
         NEW x \in S, NEW y \in S
  PROVE  /\ Cardinality(before[x]) \in 1 .. Cardinality(S)
         /\ Cardinality(before[x]) <= Cardinality(before[y]) <=> x \in before[y]
<1>1. before[x] \in SUBSET S /\ before[y] \in SUBSET S
  BY DEF Ranking
<1>2. /\ IsFiniteSet(before[x]) /\ IsFiniteSet(before[y])
      /\ Cardinality(before[x]) <= Cardinality(S)
  BY <1>1, FS_Subset
<1>3. /\ Cardinality(before[x]) \in Nat /\ Cardinality(before[y]) \in Nat
      /\ Cardinality(S) \in Nat
  BY <1>2, FS_CardinalityType
<1>4. Cardinality(before[x]) # 0
  BY <1>2, FS_EmptySet DEF Ranking
<1>5. ASSUME x \in before[y]
      PROVE  Cardinality(before[x]) <= Cardinality(before[y])
  <2>1. before[x] \in SUBSET before[y]
    BY <1>5 DEF Ranking
  <2> QED BY <1>2, <2>1, FS_Subset
<1>6. ASSUME x \notin before[y]
      PROVE  ~ (Cardinality(before[x]) <= Cardinality(before[y]))
  <2>1. before[y] \in SUBSET before[x] /\ x \in before[x]
    BY <1>6 DEF Ranking
  <2>2. before[x] # before[y]
    BY <1>6, <2>1
  <2>3. Cardinality(before[y]) <= Cardinality(before[x])
    BY <1>2, <2>1, FS_Subset
  <2>4. Cardinality(before[x]) # Cardinality(before[y])
    BY <1>2, <2>1, <2>2, FS_Subset
  <2> QED BY <1>3, <2>3, <2>4
<1> QED BY <1>2, <1>3, <1>4, <1>5, <1>6

(* Each place from 1 to the number of members is taken, by one of them.    *)
LEMMA RanksTaken ==
  ASSUME NEW S, IsFiniteSet(S), NEW before, Ranking(S, before),
         NEW k \in 1 .. Cardinality(S)
  PROVE  /\ \E x \in S : Cardinality(before[x]) = k
         /\ \A x, y \in S : Cardinality(before[x]) = Cardinality(before[y]) => x = y
<1> DEFINE f == [x \in S |-> Cardinality(before[x])]
<1>1. Cardinality(S) \in Nat
  BY FS_CardinalityType
<1>2. ASSUME NEW x \in S, NEW y \in S, Cardinality(before[x]) = Cardinality(before[y])
      PROVE  x = y
  <2>1. /\ Cardinality(before[x]) \in Nat /\ Cardinality(before[y]) \in Nat
    BY <1>1, RanksOrder
  <2>2. x \in before[y] /\ y \in before[x]
    BY <1>2, <2>1, RanksOrder
  <2> QED BY <2>2 DEF Ranking
<1>3. f \in [S -> 1 .. Cardinality(S)]
  BY RanksOrder
<1>4. f \in Injection(S, 1 .. Cardinality(S))
  BY <1>2, <1>3 DEF Injection, IsInjective
<1>5. /\ IsFiniteSet(1 .. Cardinality(S))
      /\ Cardinality(1 .. Cardinality(S)) = Cardinality(S)
  BY <1>1, FS_Interval
<1>6. f \in Surjection(S, 1 .. Cardinality(S))
  BY <1>4, <1>5, FS_Injection
<1>7. \E x \in S : f[x] = k
  BY <1>6 DEF Surjection
<1> QED BY <1>2, <1>7

(* InOrder lists a finite set of numbers in ascending order.               *)
LEMMA InOrderAscends ==
  ASSUME NEW S, S \subseteq Int, IsFiniteSet(S)
  PROVE  /\ DOMAIN InOrder(S) = 1 .. Cardinality(S)
         /\ \A k \in 1 .. Cardinality(S) : InOrder(S)[k] \in S
         /\ \A n \in S : \E k \in 1 .. Cardinality(S) : InOrder(S)[k] = n
         /\ \A j, k \in 1 .. Cardinality(S) : InOrder(S)[j] <= InOrder(S)[k] <=> j <= k
<1> DEFINE before == [n \in S |-> {m \in S : m <= n}]
           s      == InOrder(S)
<1>0. \A n \in S : n \in Int
  OBVIOUS
<1>2. before \in [S -> SUBSET S] /\ \A n \in S : before[n] = {m \in S : m <= n}
  OBVIOUS
<1> HIDE DEF before
<1>1. Ranking(S, before)
  <2>1. \A x, y \in S : x \in before[y] <=> x <= y
    BY <1>2
  <2>2. \A x, y \in S : y \in before[x] => before[y] \subseteq before[x]
    <3> SUFFICES ASSUME NEW x \in S, NEW y \in S, y \in before[x], NEW z \in before[y]
                 PROVE  z \in before[x]
      OBVIOUS
    <3>1. z \in S
      BY <1>2
    <3> QED BY <1>0, <2>1, <3>1
  <2>3. /\ \A x \in S : x \in before[x]
        /\ \A x, y \in S : x \in before[y] \/ y \in before[x]
        /\ \A x, y \in S : x \in before[y] /\ y \in before[x] => x = y
    BY <1>0, <2>1
  <2> QED BY <1>2, <2>2, <2>3 DEF Ranking
<1>3. /\ DOMAIN s = 1 .. Cardinality(S)
      /\ \A k \in 1 .. Cardinality(S) :
           s[k] = CHOOSE n \in S : Cardinality(before[n]) = k
  BY <1>2 DEF InOrder
<1>4. \A k \in 1 .. Cardinality(S) : s[k] \in S /\ Cardinality(before[s[k]]) = k
  BY <1>1, <1>3, RanksTaken
<1>5. ASSUME NEW n \in S
      PROVE  \E k \in 1 .. Cardinality(S) : s[k] = n
  <2>1. Cardinality(before[n]) \in 1 .. Cardinality(S)
    BY <1>1, RanksOrder
  <2>2. s[Cardinality(before[n])] = n
    BY <1>1, <1>4, <2>1, RanksTaken
  <2> QED BY <2>1, <2>2
<1>6. ASSUME NEW j \in 1 .. Cardinality(S), NEW k \in 1 .. Cardinality(S)
      PROVE  s[j] <= s[k] <=> j <= k
  <2>1. /\ s[j] \in S /\ Cardinality(before[s[j]]) = j
        /\ s[k] \in S /\ Cardinality(before[s[k]]) = k
    BY <1>4
  <2>2. j <= k <=> s[j] \in before[s[k]]
    BY <1>1, <2>1, RanksOrder
  <2> QED BY <1>2, <2>1, <2>2
<1> QED BY <1>3, <1>4, <1>5, <1>6

LEMMA MinIsLeast ==
  ASSUME NEW S, S \subseteq Int, IsFiniteSet(S), S # {}
  PROVE  Min(S) \in S /\ \A n \in S : Min(S) <= n
<1>1. Cardinality(S) \in Nat /\ Cardinality(S) # 0
  BY FS_CardinalityType, FS_EmptySet
<1>2. 1 \in 1 .. Cardinality(S) /\ \A k \in 1 .. Cardinality(S) : 1 <= k
  BY <1>1
<1>3. PICK m : m = InOrder(S)[1]
  OBVIOUS
<1>4. m \in S
  BY <1>2, <1>3, InOrderAscends
<1>5. ASSUME NEW n \in S
      PROVE  m <= n
  <2>1. PICK k \in 1 .. Cardinality(S) : InOrder(S)[k] = n
    BY InOrderAscends
  <2> QED BY <1>2, <1>3, <2>1, InOrderAscends
<1> QED BY <1>4, <1>5 DEF Min

-----------------------------------------------------------------------------
(* What holds of any file.                                                 *)
File == Seq(Row)

LEMMA RowTypes ==
  ASSUME NEW f \in File, NEW i \in DOMAIN f
  PROVE  /\ DOMAIN f = 1 .. Len(f) /\ i \in Nat
         /\ f[i].id \in Spelling \union {None}
         /\ f[i].time \in Nat \union {None}
         /\ f[i].price \in Int \union {None}
         /\ f[i].delta \in Int \union {None}
         /\ f[i].id # None /\ Parses(f[i]) => Parsed[f[i].id] \in Contract
<1>1. DOMAIN f = 1 .. Len(f) /\ Len(f) \in Nat /\ f[i] \in Row
  BY DEF File
<1>2. f[i].id # None /\ Parses(f[i]) => Parsed[f[i].id] \in Contract
  BY <1>1, ContractAssumption DEF Row, Parses
<1> QED BY <1>1, <1>2 DEF Row

LEMMA IndexesFinite ==
  ASSUME NEW f \in File, NEW K, K \subseteq DOMAIN f
  PROVE  /\ IsFiniteSet(K) /\ Cardinality(K) \in Nat
         /\ K \subseteq Nat /\ K \subseteq Int
<1>1. DOMAIN f = 1 .. Len(f) /\ Len(f) \in Nat
  BY DEF File
<1>2. IsFiniteSet(1 .. Len(f))
  BY <1>1, FS_Interval
<1>3. IsFiniteSet(K)
  BY <1>1, <1>2, FS_Subset
<1> QED BY <1>1, <1>3, FS_CardinalityType

LEMMA TimesFinite ==
  ASSUME NEW f \in File
  PROVE  /\ IsFiniteSet(Times(f)) /\ Cardinality(Times(f)) \in Nat
         /\ Times(f) \subseteq Nat /\ Times(f) \subseteq Int
<1> DEFINE D == {i \in DOMAIN f : f[i].time # None}
           g == [i \in D |-> f[i].time]
<1>1. IsFiniteSet(D)
  BY IndexesFinite
<1>2. g \in Surjection(D, Times(f))
  BY DEF Surjection, Times
<1>3. IsFiniteSet(Times(f))
  BY <1>1, <1>2, FS_Surjection
<1>4. Times(f) \subseteq Nat
  BY RowTypes DEF Times
<1> QED BY <1>3, <1>4, FS_CardinalityType

(* A group that is not diagnosed is kept whole.                            *)
LEMMA KeptWhole ==
  ASSUME NEW f \in File, NEW t, ~ Diagnosed(f, Group(f, t))
  PROVE  /\ Kept(f, Group(f, t)) = Group(f, t)
         /\ \A i \in Group(f, t) : f[i].id # None /\ Parsed[f[i].id] \in Contract
BY RowTypes DEF Diagnosed, Kept, Group

(* Its snapshot has a contract for each row and is complete when all of    *)
(* them are usable.                                                        *)
LEMMA SnapshotAccounts ==
  ASSUME NEW f \in File, NEW t, ~ Diagnosed(f, Group(f, t))
  PROVE  /\ Len(Snapshot(f, t).contracts) = Cardinality(Group(f, t))
         /\ Snapshot(f, t).time = t
         /\ Snapshot(f, t).complete <=> \A i \in Group(f, t) : Usable(f[i])
<1> DEFINE G == Group(f, t)
           U == {i \in G : Usable(f[i])}
<1>1. Kept(f, G) = G /\ {i \in G : f[i].id # None} = G
  BY KeptWhole
<1>2. IsFiniteSet(G) /\ Cardinality(G) \in Nat
  BY IndexesFinite DEF Group
<1>3. U \in SUBSET G /\ (Cardinality(U) = Cardinality(G) <=> U = G)
  BY <1>2, FS_Subset
<1>4. Snapshot(f, t).complete
        <=> /\ Cardinality(U) = Cardinality(G)
            /\ \A i \in G : f[i].fresh
            /\ ~ \E i \in G : f[i].flagged
  BY <1>1 DEF Snapshot
<1>5. Snapshot(f, t).complete <=> \A i \in G : Usable(f[i])
  BY <1>3, <1>4 DEF Usable
<1>6. Snapshot(f, t).time = t
  BY DEF Snapshot
<1>7. Len(Snapshot(f, t).contracts) = Cardinality(G)
  BY <1>1, <1>2 DEF Snapshot
<1> QED BY <1>5, <1>6, <1>7

(* The events of a chain that loads are the snapshots of its times in      *)
(* order.                                                                  *)
LEMMA ChainEvents ==
  ASSUME NEW f \in File, NEW k \in DOMAIN ChainLoad(f).events
  PROVE  \E t \in Times(f) : /\ ChainLoad(f).events[k] = Snapshot(f, t)
                             /\ ~ Diagnosed(f, Group(f, t))
<1>1. /\ ~ \E t \in Times(f) : Diagnosed(f, Group(f, t))
      /\ ChainLoad(f).events = [j \in 1 .. Cardinality(Times(f)) |->
                                  Snapshot(f, InOrder(Times(f))[j])]
  BY DEF ChainLoad, Rejected, Raised, Loaded
<1>2. /\ k \in 1 .. Cardinality(Times(f))
      /\ ChainLoad(f).events[k] = Snapshot(f, InOrder(Times(f))[k])
  BY <1>1
<1>3. InOrder(Times(f))[k] \in Times(f)
  BY <1>2, TimesFinite, InOrderAscends
<1> QED BY <1>1, <1>2, <1>3

-----------------------------------------------------------------------------
(* No row is lost.                                                         *)
LosesNoRow(f) ==
  /\ LET load == ChainLoad(f)
     IN  \A k \in DOMAIN load.events :
           LET e == load.events[k]
           IN  /\ Len(e.contracts) = Cardinality({i \in DOMAIN f : f[i].time = e.time})
               /\ e.complete <=> \A i \in DOMAIN f : f[i].time = e.time => Usable(f[i])
  /\ \A s \in Spelling \union {None} :
       LET load == OptionLoad(f, s)
       IN  load.result = "loaded" =>
             /\ Len(load.events) = Cardinality({i \in DOMAIN f : s \in {None, f[i].id}})
             /\ \A i \in DOMAIN f : s \in {None, f[i].id} => Usable(f[i])
  /\ LET load == UnderlyingLoad(f)
     IN  load.result = "loaded" => Len(load.events) = Len(f)

LEMMA ChainsLoseNoRow ==
  ASSUME NEW f \in File, NEW k \in DOMAIN ChainLoad(f).events
  PROVE  LET e == ChainLoad(f).events[k]
         IN  /\ Len(e.contracts) = Cardinality({i \in DOMAIN f : f[i].time = e.time})
             /\ e.complete <=> \A i \in DOMAIN f : f[i].time = e.time => Usable(f[i])
<1> DEFINE e == ChainLoad(f).events[k]
<1> HIDE DEF e
<1>0. e = ChainLoad(f).events[k]
  BY DEF e
<1>1. PICK t \in Times(f) : e = Snapshot(f, t) /\ ~ Diagnosed(f, Group(f, t))
  BY <1>0, ChainEvents
<1>2. /\ Len(e.contracts) = Cardinality(Group(f, t)) /\ e.time = t
      /\ e.complete <=> \A i \in Group(f, t) : Usable(f[i])
  BY <1>1, SnapshotAccounts
<1>3. /\ Len(e.contracts) = Cardinality({i \in DOMAIN f : f[i].time = e.time})
      /\ e.complete <=> \A i \in DOMAIN f : f[i].time = e.time => Usable(f[i])
  BY <1>2 DEF Group
<1> QED BY <1>3 DEF e

LEMMA OptionEvents ==
  ASSUME NEW f \in File, NEW s, OptionLoad(f, s).result = "loaded"
  PROVE  /\ \A i \in DOMAIN f : f[i].id # None
         /\ \A i \in Mine(f, s) : Fit(f[i])
         /\ DOMAIN OptionLoad(f, s).events = 1 .. Cardinality(Mine(f, s))
         /\ Len(OptionLoad(f, s).events) = Cardinality(Mine(f, s))
         /\ \A k \in 1 .. Cardinality(Mine(f, s)) :
              OptionLoad(f, s).events[k] =
                [contract |-> Parsed[f[InOrder(Mine(f, s))[k]].id],
                 time     |-> f[InOrder(Mine(f, s))[k]].time]
<1>1. /\ ~ \E i \in DOMAIN f : f[i].id = None
      /\ ~ \E i \in Mine(f, s) : ~ Fit(f[i])
      /\ OptionLoad(f, s).events =
           [k \in 1 .. Cardinality(Mine(f, s)) |->
              [contract |-> Parsed[f[InOrder(Mine(f, s))[k]].id],
               time     |-> f[InOrder(Mine(f, s))[k]].time]]
  BY DEF OptionLoad, Rejected, Raised, Loaded
<1>2. Cardinality(Mine(f, s)) \in Nat
  BY IndexesFinite DEF Mine
<1> QED BY <1>1, <1>2

LEMMA OptionsLoseNoRow ==
  ASSUME NEW f \in File, NEW s, OptionLoad(f, s).result = "loaded"
  PROVE  /\ Len(OptionLoad(f, s).events)
              = Cardinality({i \in DOMAIN f : s \in {None, f[i].id}})
         /\ \A i \in DOMAIN f : s \in {None, f[i].id} => Usable(f[i])
<1>1. Mine(f, s) = {i \in DOMAIN f : s \in {None, f[i].id}}
  BY OptionEvents DEF Mine
<1>2. \A i \in DOMAIN f : s \in {None, f[i].id} => Usable(f[i])
  BY <1>1, OptionEvents DEF Fit
<1>3. Len(OptionLoad(f, s).events) = Cardinality(Mine(f, s))
  BY OptionEvents
<1> QED BY <1>1, <1>2, <1>3

LEMMA BarsLoseNoRow ==
  ASSUME NEW f \in File, UnderlyingLoad(f).result = "loaded"
  PROVE  Len(UnderlyingLoad(f).events) = Len(f)
<1>1. UnderlyingLoad(f).events =
        [i \in DOMAIN f |-> [symbol |-> f[i].id, time |-> f[i].time]]
  BY DEF UnderlyingLoad, Rejected, Loaded
<1>2. DOMAIN f = 1 .. Len(f) /\ Len(f) \in Nat
  BY DEF File
<1> QED BY <1>1, <1>2

LEMMA FilesLoseNoRow ==
  ASSUME NEW f \in File
  PROVE  LosesNoRow(f)
<1>1. \A k \in DOMAIN ChainLoad(f).events :
        LET e == ChainLoad(f).events[k]
        IN  /\ Len(e.contracts) = Cardinality({i \in DOMAIN f : f[i].time = e.time})
            /\ e.complete <=> \A i \in DOMAIN f : f[i].time = e.time => Usable(f[i])
  BY ChainsLoseNoRow, Zenon
<1>2. \A s : OptionLoad(f, s).result = "loaded" =>
        /\ Len(OptionLoad(f, s).events)
              = Cardinality({i \in DOMAIN f : s \in {None, f[i].id}})
        /\ \A i \in DOMAIN f : s \in {None, f[i].id} => Usable(f[i])
  BY OptionsLoseNoRow, Zenon
<1> QED BY <1>1, <1>2, BarsLoseNoRow, Zenon DEF LosesNoRow

(* The invariant of the writer.                                            *)
FileInv == rows \in Seq(Rows) /\ Len(rows) <= MaxRows

LEMMA FileInvIsFile == FileInv => rows \in File
BY RowsAssumption DEF FileInv, File

(* A file is at any moment a sequence of rows within its bound.            *)
THEOREM FileInvariant == Spec => []FileInv
<1>1. Init => FileInv
  BY RowsAssumption DEF Init, FileInv
<1>2. FileInv /\ [AppendRow]_rows => FileInv'
  <2> SUFFICES ASSUME FileInv, AppendRow \/ UNCHANGED rows
               PROVE  FileInv'
    OBVIOUS
  <2>1. CASE AppendRow
    <3>1. PICK row : row \in Rows /\ rows' = Append(rows, row) /\ Len(rows) < MaxRows
      BY <2>1 DEF AppendRow
    <3> QED BY <3>1, RowsAssumption DEF FileInv
  <2>2. CASE UNCHANGED rows
    BY <2>2 DEF FileInv
  <2> QED BY <2>1, <2>2
<1> QED BY <1>1, <1>2, PTL DEF Spec

(* Whatever loads accounts for every row it was asked for, in files with   *)
(* any number of rows: a row passed over is a row diagnosed                *)
(* (_load_chain_events_csv_impl, _load_option_events_csv_impl,             *)
(* _load_underlying_events_csv_impl).                                      *)
THEOREM NoRowIsEverLost == Spec => []NoRowLost
<1>1. FileInv => NoRowLost
  BY FileInvIsFile, FilesLoseNoRow, Zenon DEF NoRowLost, LosesNoRow
<1> QED BY <1>1, FileInvariant, PTL

-----------------------------------------------------------------------------
(* The order of the rows: g has the rows of f in other places, that of j   *)
(* in g being s[j] in f.                                                   *)
Rearranges(f, g, s) ==
  /\ f \in File /\ g \in File
  /\ DOMAIN g = DOMAIN f
  /\ s \in [DOMAIN f -> DOMAIN f]
  /\ \A j \in DOMAIN f : s[s[j]] = j /\ g[j] = f[s[j]]

(* A are the rows of g that are B in f.                                    *)
Carried(f, s, A, B) ==
  /\ A \subseteq DOMAIN f /\ B \subseteq DOMAIN f
  /\ \A j \in DOMAIN f : j \in A <=> s[j] \in B

LEMMA SwapRearranges ==
  ASSUME NEW f \in File, NEW i \in 1 .. Len(f) - 1, NEW g,
         g = [f EXCEPT ![i] = f[i + 1], ![i + 1] = f[i]]
  PROVE  \E s : Rearranges(f, g, s)
<1>1. DOMAIN f = 1 .. Len(f) /\ Len(f) \in Nat /\ \A j \in 1 .. Len(f) : f[j] \in Row
  BY DEF File
<1> DEFINE s == [j \in DOMAIN f |-> IF j = i THEN i + 1 ELSE IF j = i + 1 THEN i ELSE j]
<1>2. i \in DOMAIN f /\ i + 1 \in DOMAIN f /\ i \in Int /\ i # i + 1
  BY <1>1
<1>3. DOMAIN g = DOMAIN f /\ \A j \in DOMAIN f : g[j] = f[s[j]]
  BY <1>2
<1>4. s \in [DOMAIN f -> DOMAIN f] /\ \A j \in DOMAIN f : s[s[j]] = j
  BY <1>2
<1>5. g \in File
  <2>1. g \in [1 .. Len(f) -> Row]
    BY <1>1, <1>2
  <2> QED BY <1>1, <2>1 DEF File
<1> HIDE DEF s
<1>6. Rearranges(f, g, s)
  BY <1>3, <1>4, <1>5 DEF Rearranges
<1> QED BY <1>6

LEMMA CarriedSize ==
  ASSUME NEW f, NEW g, NEW s, Rearranges(f, g, s),
         NEW A, NEW B, Carried(f, s, A, B)
  PROVE  Cardinality(A) = Cardinality(B)
<1> DEFINE h == [j \in B |-> s[j]]
<1>1. \A j \in B : s[j] \in A
  BY DEF Rearranges, Carried
<1>2. \A j, k \in B : s[j] = s[k] => j = k
  BY DEF Rearranges, Carried
<1>3. \A j \in A : s[j] \in B /\ s[s[j]] = j
  BY DEF Rearranges, Carried
<1>4. h \in Bijection(B, A)
  <2>1. h \in [B -> A] /\ \A j, k \in B : h[j] = h[k] => j = k
    BY <1>1, <1>2
  <2>2. \A j \in A : \E k \in B : h[k] = j
    BY <1>3
  <2> QED BY <2>1, <2>2 DEF Bijection, Injection, Surjection, IsInjective
<1>5. IsFiniteSet(B)
  BY IndexesFinite DEF Carried, Rearranges
<1> QED BY <1>4, <1>5, FS_Bijection DEF ExistsBijection

LEMMA TimesCarried ==
  ASSUME NEW f, NEW g, NEW s, Rearranges(f, g, s)
  PROVE  Times(g) = Times(f)
BY DEF Rearranges, Times

LEMMA GroupCarried ==
  ASSUME NEW f, NEW g, NEW s, Rearranges(f, g, s), NEW t
  PROVE  Carried(f, s, Group(g, t), Group(f, t))
BY DEF Rearranges, Carried, Group

LEMMA KeptCarried ==
  ASSUME NEW f, NEW g, NEW s, Rearranges(f, g, s),
         NEW A, NEW B, Carried(f, s, A, B)
  PROVE  Carried(f, s, Kept(g, A), Kept(f, B))
BY DEF Rearranges, Carried, Kept

LEMMA ReportsCarried ==
  ASSUME NEW f, NEW g, NEW s, Rearranges(f, g, s),
         NEW A, NEW B, Carried(f, s, A, B)
  PROVE  /\ Duplicates(g, A) <=> Duplicates(f, B)
         /\ ChainsDiffer(g, A) <=> ChainsDiffer(f, B)
         /\ A = {} <=> B = {}
<1>1. /\ \A j \in A : s[j] \in B /\ g[j] = f[s[j]]
      /\ \A j \in B : s[j] \in A /\ g[s[j]] = f[j]
      /\ \A j, k \in DOMAIN f : s[j] = s[k] => j = k
      /\ A \subseteq DOMAIN f /\ B \subseteq DOMAIN f
  BY DEF Rearranges, Carried
<1>2. Duplicates(g, A) => Duplicates(f, B)
  BY <1>1 DEF Duplicates
<1>3. Duplicates(f, B) => Duplicates(g, A)
  BY <1>1 DEF Duplicates
<1>4. ChainsDiffer(g, A) <=> ChainsDiffer(f, B)
  BY <1>1 DEF ChainsDiffer
<1> QED BY <1>1, <1>2, <1>3, <1>4

LEMMA DiagnosesCarried ==
  ASSUME NEW f, NEW g, NEW s, Rearranges(f, g, s), NEW t
  PROVE  /\ GroupRaises(g, Group(g, t)) <=> GroupRaises(f, Group(f, t))
         /\ Diagnosed(g, Group(g, t)) <=> Diagnosed(f, Group(f, t))
<1> DEFINE A == Group(g, t)
           B == Group(f, t)
<1>1. Carried(f, s, A, B) /\ Carried(f, s, Kept(g, A), Kept(f, B))
  BY GroupCarried, KeptCarried
<1>2. /\ Duplicates(g, A) <=> Duplicates(f, B)
      /\ ChainsDiffer(g, Kept(g, A)) <=> ChainsDiffer(f, Kept(f, B))
      /\ Kept(g, A) = {} <=> Kept(f, B) = {}
  BY <1>1, ReportsCarried
<1>3. /\ \A j \in A : s[j] \in B /\ g[j] = f[s[j]]
      /\ \A j \in B : s[j] \in A /\ g[s[j]] = f[j]
  BY <1>1 DEF Rearranges, Carried
<1> HIDE DEF A, B
<1>4. GroupRaises(g, A) <=> GroupRaises(f, B)
  BY <1>2, <1>3 DEF GroupRaises
<1>5. Diagnosed(g, A) <=> Diagnosed(f, B)
  BY <1>2, <1>3 DEF Diagnosed
<1> QED BY <1>4, <1>5 DEF A, B

(* The rows of K name contracts.                                           *)
Named(f, K) ==
  /\ K \subseteq DOMAIN f
  /\ \A i \in K : f[i].id # None /\ Parsed[f[i].id] \in Contract

LEMMA PlacesTaken ==
  ASSUME NEW f \in File, NEW K, Named(f, K)
  PROVE  /\ \A p \in 1 .. Cardinality(K) : \E i \in K : Place(f, K, i) = p
         /\ \A i, j \in K : Place(f, K, i) = Place(f, K, j) => i = j
<1> DEFINE order(j) == Parsed[f[j].id].order
           Before(i) == {j \in K : \/ order(j) < order(i)
                                   \/ order(j) = order(i) /\ j <= i}
           before    == [i \in K |-> Before(i)]
<1>1. IsFiniteSet(K) /\ Cardinality(K) \in Nat /\ \A i \in K : i \in Nat
  BY IndexesFinite DEF Named
<1>2. \A i \in K : order(i) \in Nat
  BY ContractAssumption DEF Named
<1>3. before \in [K -> SUBSET K]
  OBVIOUS
<1>4. \A i, j \in K : j \in before[i] <=> \/ order(j) < order(i)
                                          \/ order(j) = order(i) /\ j <= i
  OBVIOUS
<1>5. \A i \in K : Cardinality(before[i]) = Place(f, K, i)
  BY DEF Place
<1> HIDE DEF before, order
<1>6. Ranking(K, before)
  <2>1. \A x, y \in K : y \in before[x] => before[y] \subseteq before[x]
    <3> SUFFICES ASSUME NEW x \in K, NEW y \in K, y \in before[x], NEW z \in before[y]
                 PROVE  z \in before[x]
      OBVIOUS
    <3>1. z \in K
      BY <1>3
    <3> QED BY <1>1, <1>2, <1>4, <3>1
  <2>2. /\ \A x \in K : x \in before[x]
        /\ \A x, y \in K : x \in before[y] \/ y \in before[x]
        /\ \A x, y \in K : x \in before[y] /\ y \in before[x] => x = y
    BY <1>1, <1>2, <1>4
  <2> QED BY <1>3, <2>1, <2>2 DEF Ranking
<1>7. ASSUME NEW p \in 1 .. Cardinality(K)
      PROVE  \E i \in K : Place(f, K, i) = p
  <2>1. \E i \in K : Cardinality(before[i]) = p
    BY <1>1, <1>6, RanksTaken
  <2> QED BY <1>5, <2>1
<1>8. ASSUME NEW i \in K, NEW j \in K, Place(f, K, i) = Place(f, K, j)
      PROVE  i = j
  <2>1. K # {} /\ Cardinality(K) # 0
    BY <1>1, FS_EmptySet
  <2>2. 1 \in 1 .. Cardinality(K)
    BY <1>1, <2>1
  <2> QED BY <1>1, <1>5, <1>6, <1>8, <2>2, RanksTaken
<1> QED BY <1>7, <1>8

CanonicalFile(f) ==
  \A i \in DOMAIN f :
    f[i].id = None \/ Parsed[f[i].id] = None \/ f[i].id = IdOf[Parsed[f[i].id]]

(* Rows spelled canonically are of one contract only if they are spelled   *)
(* the same.                                                               *)
LEMMA CanonicalIdsDiffer ==
  ASSUME NEW f, CanonicalFile(f), NEW K, Named(f, K), ~ Duplicates(f, K),
         NEW i \in K, NEW j \in K,
         Parsed[f[i].id].order = Parsed[f[j].id].order
  PROVE  i = j
<1>1. /\ i \in DOMAIN f /\ j \in DOMAIN f
      /\ Parsed[f[i].id] \in Contract /\ Parsed[f[j].id] \in Contract
      /\ f[i].id # None /\ f[j].id # None
  BY DEF Named
<1>2. Parsed[f[i].id] = Parsed[f[j].id]
  BY <1>1, ContractAssumption
<1>3. f[i].id = f[j].id
  BY <1>1, <1>2, ContractAssumption DEF CanonicalFile
<1> QED BY <1>1, <1>3 DEF Duplicates

LEMMA PlaceCarried ==
  ASSUME NEW f, NEW g, NEW s, Rearranges(f, g, s), CanonicalFile(f),
         NEW A, NEW B, Carried(f, s, A, B), Named(f, B), ~ Duplicates(f, B),
         NEW i \in A
  PROVE  Place(g, A, i) = Place(f, B, s[i])
<1> DEFINE before(h, K, x) ==
             {j \in K : \/ Parsed[h[j].id].order < Parsed[h[x].id].order
                        \/ Parsed[h[j].id].order = Parsed[h[x].id].order /\ j <= x}
           P == before(g, A, i)
           Q == before(f, B, s[i])
<1>1. /\ i \in DOMAIN f /\ s[i] \in B /\ g[i] = f[s[i]]
      /\ A \subseteq DOMAIN f /\ B \subseteq DOMAIN f
      /\ \A j \in DOMAIN f : /\ s[j] \in DOMAIN f /\ s[s[j]] = j /\ g[j] = f[s[j]]
                             /\ j \in A <=> s[j] \in B
  BY DEF Rearranges, Carried
<1>2. \A j \in DOMAIN f : j \in Nat
  BY IndexesFinite DEF Rearranges
<1>3. ASSUME NEW j \in A, Parsed[g[j].id].order = Parsed[g[i].id].order
      PROVE  j = i /\ j <= i /\ s[j] <= s[i]
  <2>1. s[j] = s[i]
    BY <1>1, <1>3, CanonicalIdsDiffer
  <2> QED BY <1>1, <1>2, <2>1
<1>4. ASSUME NEW j \in DOMAIN f
      PROVE  j \in P <=> s[j] \in Q
  <2>1. j \in A <=> s[j] \in B
    BY <1>1
  <2>2. g[j] = f[s[j]]
    BY <1>1
  <2> QED BY <1>1, <1>3, <2>1, <2>2
<1>5. Carried(f, s, P, Q)
  BY <1>1, <1>4 DEF Carried
<1>6. Cardinality(P) = Cardinality(Q)
  BY <1>5, CarriedSize
<1> QED BY <1>6 DEF Place

(* The row at a place is the same one.                                     *)
LEMMA NthCarried ==
  ASSUME NEW f, NEW g, NEW s, Rearranges(f, g, s), CanonicalFile(f),
         NEW A, NEW B, Carried(f, s, A, B), Named(f, B), ~ Duplicates(f, B),
         NEW p \in 1 .. Cardinality(B)
  PROVE  g[CHOOSE i \in A : Place(g, A, i) = p] = f[CHOOSE i \in B : Place(f, B, i) = p]
<1>1. PICK b : b = CHOOSE i \in B : Place(f, B, i) = p
  OBVIOUS
<1>2. /\ \E i \in B : Place(f, B, i) = p
      /\ \A i, j \in B : Place(f, B, i) = Place(f, B, j) => i = j
  BY PlacesTaken DEF Rearranges
<1>3. b \in B /\ Place(f, B, b) = p
  BY <1>1, <1>2
<1>4. /\ B \subseteq DOMAIN f /\ A \subseteq DOMAIN f
      /\ \A j \in DOMAIN f : /\ s[j] \in DOMAIN f /\ s[s[j]] = j /\ g[j] = f[s[j]]
                             /\ j \in A <=> s[j] \in B
  BY DEF Rearranges, Carried
<1>5. s[b] \in A /\ Place(g, A, s[b]) = p
  BY <1>3, <1>4, PlaceCarried
<1>6. PICK a : a = CHOOSE i \in A : Place(g, A, i) = p
  OBVIOUS
<1>7. a \in A /\ Place(g, A, a) = p
  BY <1>5, <1>6
<1>8. s[a] \in B /\ Place(f, B, s[a]) = p
  BY <1>4, <1>7, PlaceCarried
<1>9. s[a] = b
  BY <1>2, <1>3, <1>8
<1>10. g[a] = f[b]
  BY <1>4, <1>7, <1>9
<1> QED BY <1>1, <1>6, <1>10

LEMMA SnapshotCarried ==
  ASSUME NEW f, NEW g, NEW s, Rearranges(f, g, s), CanonicalFile(f),
         NEW t, ~ Diagnosed(f, Group(f, t))
  PROVE  Snapshot(g, t) = Snapshot(f, t)
<1> DEFINE G == Group(g, t)
           F == Group(f, t)
           A == Kept(g, G)
           B == Kept(f, F)
           gth(p) == g[CHOOSE i \in A : Place(g, A, i) = p]
           fth(p) == f[CHOOSE i \in B : Place(f, B, i) = p]
<1>1. /\ f \in File /\ B = F
      /\ Carried(f, s, G, F) /\ Carried(f, s, A, B)
  BY KeptWhole, GroupCarried, KeptCarried DEF Rearranges
<1>2. Named(f, B) /\ ~ Duplicates(f, B) /\ B # {}
  BY <1>1, KeptWhole DEF Named, Diagnosed, Group
<1>3. \A j \in DOMAIN f : /\ j \in A <=> s[j] \in B
                          /\ j \in G <=> s[j] \in F
                          /\ g[j] = f[s[j]] /\ s[j] \in DOMAIN f /\ s[s[j]] = j
  BY <1>1 DEF Carried, Rearranges
<1>4. A \subseteq DOMAIN f /\ B \subseteq DOMAIN f /\ G \subseteq DOMAIN f /\ F \subseteq DOMAIN f
  BY <1>1 DEF Carried
<1>5. Cardinality(A) = Cardinality(B) /\ Cardinality(B) \in Nat /\ Cardinality(B) # 0
  BY <1>1, <1>2, <1>4, CarriedSize, IndexesFinite, FS_EmptySet
<1>6. \A p \in 1 .. Cardinality(B) : gth(p) = fth(p)
  BY <1>1, <1>2, NthCarried
<1> HIDE DEF A, B, G, F
<1>7. /\ (\A i \in A : g[i].fresh) <=> \A i \in B : f[i].fresh
      /\ (\E i \in A : g[i].flagged) <=> \E i \in B : f[i].flagged
  BY <1>3, <1>4
<1>8. Cardinality({i \in A : Usable(g[i])}) = Cardinality({i \in B : Usable(f[i])})
  <2>1. Carried(f, s, {i \in A : Usable(g[i])}, {i \in B : Usable(f[i])})
    BY <1>3, <1>4 DEF Carried
  <2> QED BY <2>1, CarriedSize
<1>9. Cardinality({i \in G : g[i].id # None}) = Cardinality({i \in F : f[i].id # None})
  <2>1. Carried(f, s, {i \in G : g[i].id # None}, {i \in F : f[i].id # None})
    BY <1>3, <1>4 DEF Carried
  <2> QED BY <2>1, CarriedSize
<1> HIDE DEF gth, fth
<1>10. gth(1) = fth(1)
  BY <1>5, <1>6
<1>11. [p \in 1 .. Cardinality(A) |-> [contract |-> Parsed[gth(p).id], oi |-> gth(p).oi]]
         = [p \in 1 .. Cardinality(B) |-> [contract |-> Parsed[fth(p).id], oi |-> fth(p).oi]]
  BY <1>5, <1>6
<1> DEFINE Complete(h, K, H) ==
             /\ Cardinality({i \in K : Usable(h[i])}) = Cardinality({i \in H : h[i].id # None})
             /\ \A i \in K : h[i].fresh
             /\ ~ \E i \in K : h[i].flagged
           Made(first, contracts, fresh, flagged, complete) ==
             [chain |-> Parsed[first.id].chain, time |-> t, contracts |-> contracts,
              fresh |-> fresh, flagged |-> flagged,
              complete |-> complete, unknowns |-> ~ complete]
<1>12. Complete(g, A, G) = Complete(f, B, F)
  BY <1>7, <1>8, <1>9
<1>13. Snapshot(g, t) =
         Made(gth(1),
              [p \in 1 .. Cardinality(A) |-> [contract |-> Parsed[gth(p).id], oi |-> gth(p).oi]],
              \A i \in A : g[i].fresh, \E i \in A : g[i].flagged, Complete(g, A, G))
  BY DEF Snapshot, gth, A, G
<1>14. Snapshot(f, t) =
         Made(fth(1),
              [p \in 1 .. Cardinality(B) |-> [contract |-> Parsed[fth(p).id], oi |-> fth(p).oi]],
              \A i \in B : f[i].fresh, \E i \in B : f[i].flagged, Complete(f, B, F))
  BY DEF Snapshot, fth, B, F
<1> HIDE DEF Complete
<1>15. Made(gth(1),
            [p \in 1 .. Cardinality(A) |-> [contract |-> Parsed[gth(p).id], oi |-> gth(p).oi]],
            \A i \in A : g[i].fresh, \E i \in A : g[i].flagged, Complete(g, A, G))
       = Made(fth(1),
              [p \in 1 .. Cardinality(B) |-> [contract |-> Parsed[fth(p).id], oi |-> fth(p).oi]],
              \A i \in B : f[i].fresh, \E i \in B : f[i].flagged, Complete(f, B, F))
  BY <1>7, <1>10, <1>11, <1>12
<1> QED BY <1>13, <1>14, <1>15

LEMMA ChainCarried ==
  ASSUME NEW f, NEW g, NEW s, Rearranges(f, g, s), CanonicalFile(f)
  PROVE  ChainLoad(g) = ChainLoad(f)
<1> DEFINE T == Times(f)
           Events(h) == [k \in 1 .. Cardinality(T) |-> Snapshot(h, InOrder(T)[k])]
<1>1. Times(g) = T
  BY TimesCarried
<1>2. \A t : /\ GroupRaises(g, Group(g, t)) <=> GroupRaises(f, Group(f, t))
             /\ Diagnosed(g, Group(g, t)) <=> Diagnosed(f, Group(f, t))
  BY DiagnosesCarried
<1>3. /\ g = <<>> <=> f = <<>>
      /\ (\E i \in DOMAIN g : g[i].time = None) <=> \E i \in DOMAIN f : f[i].time = None
  <2>1. f \in File /\ g \in File /\ DOMAIN g = DOMAIN f
    BY DEF Rearranges
  <2>2. \A h \in File : h = <<>> <=> DOMAIN h = {}
    BY DEF File
  <2>3. \A j \in DOMAIN f : g[j] = f[s[j]] /\ s[j] \in DOMAIN f /\ s[s[j]] = j
    BY DEF Rearranges
  <2> QED BY <2>1, <2>2, <2>3
<1>4. ASSUME \A t \in T : ~ Diagnosed(f, Group(f, t))
      PROVE  Events(g) = Events(f)
  <2>1. \A k \in 1 .. Cardinality(T) : InOrder(T)[k] \in T
    BY TimesFinite, InOrderAscends DEF Rearranges
  <2>2. \A k \in 1 .. Cardinality(T) : Snapshot(g, InOrder(T)[k]) = Snapshot(f, InOrder(T)[k])
    BY <1>4, <2>1, SnapshotCarried
  <2> QED BY <2>2
<1>5. \A h : Times(h) = T =>
        ChainLoad(h) = IF h = <<>> \/ \E i \in DOMAIN h : h[i].time = None THEN Rejected
                       ELSE IF \E t \in T : GroupRaises(h, Group(h, t)) THEN Raised
                       ELSE IF \E t \in T : Diagnosed(h, Group(h, t)) THEN Rejected
                       ELSE Loaded(Events(h))
  BY DEF ChainLoad
<1> HIDE DEF T, Events
<1>6. \/ ChainLoad(f) = Rejected /\ ChainLoad(g) = Rejected
      \/ ChainLoad(f) = Raised /\ ChainLoad(g) = Raised
      \/ /\ \A t \in T : ~ Diagnosed(f, Group(f, t))
         /\ ChainLoad(f) = Loaded(Events(f)) /\ ChainLoad(g) = Loaded(Events(g))
  <2>1. Times(f) = T
    BY DEF T
  <2> QED BY <1>1, <1>2, <1>3, <1>5, <2>1
<1> QED BY <1>4, <1>6

LEMMA SelectionCarried ==
  ASSUME NEW f, NEW g, NEW s, Rearranges(f, g, s), NEW req
  PROVE  Selection(g, req) = Selection(f, req)
<1> DEFINE A == SelectionRows(g)
           B == SelectionRows(f)
<1>1. Times(g) = Times(f) /\ SelectionTime(g) = SelectionTime(f)
  BY TimesCarried DEF SelectionTime
<1>2. Carried(f, s, Group(g, SelectionTime(f)), Group(f, SelectionTime(f)))
  BY GroupCarried
<1>3. Carried(f, s, A, B)
  BY <1>1, <1>2 DEF Carried, SelectionRows, Rearranges
<1>4. Duplicates(g, A) <=> Duplicates(f, B)
  BY <1>3, ReportsCarried
<1>5. {g[i] : i \in A} = {f[i] : i \in B}
  BY <1>3 DEF Carried, Rearranges
<1> HIDE DEF A, B
<1> QED BY <1>1, <1>4, <1>5 DEF Selection, A, B

(* The rows of a file may come in any order: exchanging neighbours, and so *)
(* by and by any others, changes neither the snapshots of a chain nor the  *)
(* contract selected, in files of any length (the grouping by timestamp,   *)
(* the sort by canonical id, the tie-breaks of select_contract_id).        *)
THEOREM RowOrderIsIrrelevant == Spec => []RowOrderIrrelevant
<1>1. ASSUME FileInv, Canonical, NEW i \in 1 .. Len(rows) - 1
      PROVE  /\ ChainLoad(Swapped(i)) = ChainLoad(rows)
             /\ \A req \in Requests : Selection(Swapped(i), req) = Selection(rows, req)
  <2>1. rows \in File /\ CanonicalFile(rows)
    BY <1>1, FileInvIsFile DEF Canonical, CanonicalFile
  <2>2. \E s : Rearranges(rows, Swapped(i), s)
    BY <2>1, SwapRearranges DEF Swapped
  <2> QED BY <2>1, <2>2, ChainCarried, SelectionCarried
<1>2. FileInv => RowOrderIrrelevant
  BY <1>1 DEF RowOrderIrrelevant
<1> QED BY <1>2, FileInvariant, PTL

-----------------------------------------------------------------------------
(* The ranking of candidates.                                              *)
Sortable(C, req) ==
  /\ \A c \in C : ContractOf(c) \in Contract /\ Distance(c, req) \in Int
  /\ \A c, d \in C : ContractOf(c).order = ContractOf(d).order => c = d

LEMMA NearerOrders ==
  ASSUME NEW C, NEW req, Sortable(C, req), NEW a \in C, NEW b \in C, NEW c \in C
  PROVE  /\ ~ Nearer(a, a, req)
         /\ Nearer(a, b, req) => ~ Nearer(b, a, req)
         /\ a = b \/ Nearer(a, b, req) \/ Nearer(b, a, req)
         /\ Nearer(a, b, req) /\ Nearer(b, c, req) => Nearer(a, c, req)
<1> DEFINE D(x) == Distance(x, req)
           E(x) == ContractOf(x).expiry
           R(x) == RightOrder(x)
           O(x) == ContractOf(x).order
<1>1. ASSUME NEW x \in C
      PROVE  D(x) \in Int /\ E(x) \in Int /\ R(x) \in Int /\ O(x) \in Int
  BY ContractAssumption DEF Sortable, RightOrder
<1>2. O(a) = O(b) => a = b
  BY DEF Sortable
<1>3. \A x, y \in C : Nearer(x, y, req) <=>
        \/ D(x) < D(y)
        \/ D(x) = D(y) /\ E(x) < E(y)
        \/ D(x) = D(y) /\ E(x) = E(y) /\ R(x) < R(y)
        \/ D(x) = D(y) /\ E(x) = E(y) /\ R(x) = R(y) /\ O(x) < O(y)
  BY DEF Nearer
<1> HIDE DEF D, E, R, O
<1> QED BY <1>1, <1>2, <1>3

(* Who is no farther than whom.                                            *)
UpTo(C, req) == [c \in C |-> {d \in C : ~ Nearer(c, d, req)}]

(* The contract at a rank is that of the candidate with as many at or      *)
(* before it.                                                              *)
LEMMA RankedIsNth ==
  ASSUME NEW C, IsFiniteSet(C), NEW req, Sortable(C, req),
         NEW before, before = UpTo(C, req)
  PROVE  /\ Ranking(C, before)
         /\ \A r \in 1 .. Cardinality(C) :
              \E c \in C : Ranked(C, req, r) = ContractOf(c) /\ Cardinality(before[c]) = r
<1>1. before \in [C -> SUBSET C] /\ \A c, d \in C : d \in before[c] <=> ~ Nearer(c, d, req)
  BY DEF UpTo
<1>2. Ranking(C, before)
  <2>1. \A x, y \in C : y \in before[x] => before[y] \subseteq before[x]
    <3> SUFFICES ASSUME NEW x \in C, NEW y \in C, y \in before[x], NEW z \in before[y]
                 PROVE  z \in before[x]
      OBVIOUS
    <3>1. z \in C /\ ~ Nearer(x, y, req) /\ ~ Nearer(y, z, req)
      BY <1>1
    <3>2. ~ Nearer(x, z, req)
      BY <3>1, NearerOrders
    <3> QED BY <1>1, <3>1, <3>2
  <2>2. \A x, y \in C : x \in before[y] \/ y \in before[x]
    BY <1>1, NearerOrders
  <2>3. \A x, y \in C : x \in before[y] /\ y \in before[x] => x = y
    BY <1>1, NearerOrders
  <2>4. \A x \in C : x \in before[x]
    BY <1>1, NearerOrders
  <2> QED BY <1>1, <2>1, <2>2, <2>3, <2>4 DEF Ranking
<1>3. ASSUME NEW c \in C
      PROVE  /\ Cardinality(before[c]) \in Nat
             /\ Cardinality({d \in C : Nearer(d, c, req)}) = Cardinality(before[c]) - 1
             /\ Cardinality({d \in C : ~ Nearer(c, d, req)}) = Cardinality(before[c])
  <2>0. before[c] \subseteq C
    BY <1>1
  <2>1. \A d \in C : Nearer(d, c, req) <=> d \in before[c] /\ d # c
    BY <1>1, NearerOrders
  <2>4. {d \in C : Nearer(d, c, req)} = before[c] \ {c}
    BY <2>0, <2>1
  <2>2. c \in before[c] /\ IsFiniteSet(before[c])
    BY <1>1, <1>2, FS_Subset DEF Ranking
  <2>3. Cardinality(before[c]) \in Nat
    BY <2>2, FS_CardinalityType
  <2>5. before[c] = {d \in C : ~ Nearer(c, d, req)}
    BY DEF UpTo
  <2>6. Cardinality(before[c] \ {c}) = Cardinality(before[c]) - 1
    BY <2>2, FS_RemoveElement
  <2> QED BY <2>3, <2>4, <2>5, <2>6
<1>4. ASSUME NEW r \in 1 .. Cardinality(C)
      PROVE  \E c \in C : Ranked(C, req, r) = ContractOf(c) /\ Cardinality(before[c]) = r
  <2> DEFINE At(c) == /\ Cardinality({d \in C : Nearer(d, c, req)}) < r
                      /\ r <= Cardinality({d \in C : ~ Nearer(c, d, req)})
  <2>0. r \in Int
    BY FS_CardinalityType
  <2>1. ASSUME NEW c \in C
        PROVE  At(c) <=> Cardinality(before[c]) = r
    <3>1. PICK n : n = Cardinality(before[c])
      OBVIOUS
    <3>2. /\ n \in Nat
          /\ At(c) <=> n - 1 < r /\ r <= n
      BY <1>3, <3>1
    <3> QED BY <2>0, <3>1, <3>2
  <2>2. Ranked(C, req, r) = ContractOf(CHOOSE c \in C : At(c))
    BY DEF Ranked
  <2> HIDE DEF At
  <2>3. \E c \in C : At(c)
    BY <1>2, <2>1, RanksTaken
  <2> QED BY <2>1, <2>2, <2>3
<1> QED BY <1>2, <1>4

(* The usable rows at the earliest time.                                   *)
Candidates(f) == {f[i] : i \in {j \in SelectionRows(f) : Usable(f[j])}}

(* The files in which select_contract_id is asked at all.                  *)
Selectable(f) ==
  /\ Times(f) # {}
  /\ ~ Duplicates(f, SelectionRows(f))
  /\ \A i \in SelectionRows(f) : Parses(f[i])

LEMMA SelectionAsks ==
  ASSUME NEW f, NEW req, Selection(f, req).result = "selected"
  PROVE  /\ Selectable(f)
         /\ \A other : Selection(f, other) = SelectContractId(Candidates(f), other)
<1> DEFINE all == {f[i] : i \in SelectionRows(f)}
<1>1. {row \in all : Usable(row)} = Candidates(f)
  BY DEF Candidates
<1>2. /\ Times(f) # {} /\ ~ Duplicates(f, SelectionRows(f))
      /\ \A row \in all : Parses(row)
      /\ \A other :
           Selection(f, other) = SelectContractId({row \in all : Usable(row)}, other)
  BY DEF Selection, NoContract
<1> QED BY <1>1, <1>2 DEF Selectable

(* Candidates are finitely many rows of different contracts.               *)
LEMMA CandidatesNamed ==
  ASSUME NEW f \in File, CanonicalFile(f), Selectable(f)
  PROVE  /\ IsFiniteSet(Candidates(f))
         /\ Cardinality(Candidates(f)) <= Len(f)
         /\ \A c \in Candidates(f) :
              /\ ContractOf(c) \in Contract /\ Usable(c)
              /\ c.price \in Int \union {None} /\ c.delta \in Int \union {None}
              /\ \E i \in SelectionRows(f) : f[i] = c
         /\ \A c, d \in Candidates(f) :
              ContractOf(c).order = ContractOf(d).order => c = d
<1> DEFINE S == SelectionRows(f)
           U == {j \in S : Usable(f[j])}
           h == [i \in U |-> f[i]]
<1>1. /\ U \subseteq S /\ S \subseteq DOMAIN f /\ \A i \in S : f[i].id # None
      /\ Candidates(f) = {f[i] : i \in U}
  BY DEF Candidates, SelectionRows, Group
<1>2. IsFiniteSet(U)
  BY <1>1, IndexesFinite
<1>3. h \in Surjection(U, Candidates(f))
  BY <1>1 DEF Surjection
<1>4. /\ IsFiniteSet(Candidates(f)) /\ Cardinality(Candidates(f)) <= Cardinality(U)
  BY <1>2, <1>3, FS_Surjection
<1>5. DOMAIN f = 1 .. Len(f) /\ Len(f) \in Nat
  BY DEF File
<1>6. IsFiniteSet(1 .. Len(f)) /\ Cardinality(1 .. Len(f)) = Len(f)
  <2>1. \A n \in Nat : IsFiniteSet(1 .. n) /\ Cardinality(1 .. n) = n
    BY FS_Interval
  <2> QED BY <1>5, <2>1
<1>7. Cardinality(U) <= Len(f)
  BY <1>1, <1>5, <1>6, FS_Subset
<1>8. Cardinality(Candidates(f)) <= Len(f)
  BY <1>2, <1>4, <1>5, <1>7, FS_CardinalityType
<1>9. Named(f, S)
  BY <1>1, RowTypes DEF Named, Selectable
<1>10. ASSUME NEW c \in Candidates(f)
       PROVE  /\ ContractOf(c) \in Contract /\ Usable(c)
              /\ c.price \in Int \union {None} /\ c.delta \in Int \union {None}
              /\ \E i \in S : f[i] = c
  <2>1. PICK i \in U : c = f[i]
    BY <1>1
  <2> QED BY <1>1, <1>9, <2>1, RowTypes DEF Named, ContractOf
<1>11. ASSUME NEW c \in Candidates(f), NEW d \in Candidates(f),
              ContractOf(c).order = ContractOf(d).order
       PROVE  c = d
  <2>1. PICK i \in S, j \in S : c = f[i] /\ d = f[j]
    BY <1>10
  <2>2. Parsed[f[i].id].order = Parsed[f[j].id].order
    BY <1>11, <2>1 DEF ContractOf
  <2>3. i = j
    BY <1>9, <2>2, CanonicalIdsDiffer DEF Selectable
  <2> QED BY <2>1, <2>3
<1> QED BY <1>4, <1>8, <1>10, <1>11

LEMMA SubsetSortable ==
  ASSUME NEW f \in File, CanonicalFile(f), Selectable(f), NEW req,
         NEW C, C \subseteq Candidates(f), \A c \in C : Distance(c, req) \in Int
  PROVE  /\ Sortable(C, req) /\ IsFiniteSet(C)
         /\ Cardinality(C) \in Nat /\ Cardinality(C) <= Len(f)
<1>1. IsFiniteSet(C) /\ Cardinality(C) <= Cardinality(Candidates(f))
  BY CandidatesNamed, FS_Subset
<1>2. /\ Cardinality(C) \in Nat /\ Cardinality(Candidates(f)) \in Nat
      /\ Cardinality(Candidates(f)) <= Len(f) /\ Len(f) \in Nat
  BY <1>1, CandidatesNamed, FS_CardinalityType DEF File
<1>3. Sortable(C, req)
  BY CandidatesNamed DEF Sortable
<1> QED BY <1>1, <1>2, <1>3

(* Whoever is ranked is one of the candidates.                             *)
LEMMA RankedIsCandidate ==
  ASSUME NEW f \in File, CanonicalFile(f), Selectable(f), NEW req,
         NEW C, C \subseteq Candidates(f), \A c \in C : Distance(c, req) \in Int,
         NEW r \in 1 .. Cardinality(C)
  PROVE  \E c \in C : Ranked(C, req, r) = ContractOf(c)
<1>1. Sortable(C, req) /\ IsFiniteSet(C)
  BY SubsetSortable
<1>2. PICK before : before = UpTo(C, req)
  OBVIOUS
<1> QED BY <1>1, <1>2, RankedIsNth

(* The distances that are compared are numbers.                            *)
LEMMA StrikeDistance ==
  ASSUME NEW c, ContractOf(c) \in Contract, c.price \in Int, NEW req, req.kind # "delta"
  PROVE  Distance(c, req) \in Int
BY ContractAssumption DEF Distance, AbsDiff

LEMMA DeltaDistance ==
  ASSUME NEW c, c.delta \in Int, NEW req, req.target \in Int, req.kind = "delta"
  PROVE  Distance(c, req) \in Int
BY DEF Distance, AbsDiff

(* What is selected is the contract of a candidate.                        *)
LEMMA SelectedIsCandidate ==
  ASSUME NEW f \in File, CanonicalFile(f), NEW req \in Request,
         Selection(f, req).result = "selected"
  PROVE  \E c \in Candidates(f) : Selection(f, req).contract = ContractOf(c)
<1> DEFINE filtered == Filtered(Candidates(f), req)
           otm      == {row \in filtered : OutOfTheMoney(row, req.right)}
           known    == {row \in filtered : row.delta # None}
           picked   == Selection(f, req)
<1>1. /\ Selectable(f) /\ picked = SelectContractId(Candidates(f), req)
      /\ picked.result = "selected"
  BY SelectionAsks
<1>2. filtered \subseteq Candidates(f)
  BY DEF Filtered
<1>3. /\ IsFiniteSet(Candidates(f))
      /\ \A c \in Candidates(f) : /\ ContractOf(c) \in Contract
                                  /\ c.price \in Int \union {None}
                                  /\ c.delta \in Int \union {None}
  BY <1>1, CandidatesNamed
<1>4. /\ req.kind \in {"atm", "otm", "delta", "unsupported"}
      /\ req.target \in Int \union {None} /\ req.rank \in Int
  BY DEF Request
<1> HIDE DEF filtered, otm, known
<1>5. ASSUME NEW C, C \subseteq Candidates(f), \A c \in C : Distance(c, req) \in Int,
             NEW r \in 1 .. Cardinality(C), picked = Chosen(Ranked(C, req, r))
      PROVE  \E c \in Candidates(f) : picked.contract = ContractOf(c)
  BY <1>1, <1>5, RankedIsCandidate DEF Chosen
<1>6. ASSUME NEW C, C \subseteq Candidates(f), C # {}
      PROVE  1 \in 1 .. Cardinality(C)
  <2>1. IsFiniteSet(C)
    BY <1>3, <1>6, FS_Subset
  <2>2. Cardinality(C) \in Nat /\ Cardinality(C) # 0
    BY <1>6, <2>1, FS_CardinalityType, FS_EmptySet
  <2> QED BY <2>2
<1>7. CASE req.kind = "delta"
  <2>1. /\ req.target # None /\ known # {}
        /\ picked = Chosen(Ranked(known, req, 1))
    BY <1>1, <1>7 DEF SelectContractId, NearestDelta, NoContract, filtered, known
  <2>2. known \subseteq Candidates(f) /\ \A c \in known : c.delta # None
    BY <1>2 DEF known
  <2>3. \A c \in known : Distance(c, req) \in Int
    BY <1>3, <1>4, <1>7, <2>1, <2>2, DeltaDistance
  <2> QED BY <1>5, <1>6, <2>1, <2>2, <2>3
<1>8. CASE req.kind # "delta"
  <2>1. /\ filtered # {} /\ \A c \in filtered : c.price # None
        /\ \/ picked = Chosen(Ranked(filtered, req, 1))
           \/ /\ req.rank \in 1 .. Cardinality(otm)
              /\ picked = Chosen(Ranked(otm, req, req.rank))
    BY <1>1, <1>8 DEF SelectContractId, NearestStrike, NoContract, filtered, otm
  <2>2. otm \subseteq filtered
    BY DEF otm
  <2>3. \A c \in filtered : Distance(c, req) \in Int
    BY <1>2, <1>3, <1>8, <2>1, StrikeDistance
  <2>4. CASE picked = Chosen(Ranked(filtered, req, 1))
    BY <1>2, <1>5, <1>6, <2>1, <2>3, <2>4
  <2>5. CASE req.rank \in 1 .. Cardinality(otm) /\ picked = Chosen(Ranked(otm, req, req.rank))
    BY <1>2, <1>5, <2>2, <2>3, <2>5
  <2> QED BY <2>1, <2>4, <2>5
<1> QED BY <1>7, <1>8

(* An option file loads for an id of it unless a row is unfit.             *)
LEMMA OptionFileLoads ==
  ASSUME NEW f \in File, NEW c \in Contract,
         NEW i \in DOMAIN f, f[i].id = IdOf[c], f[i].time # None,
         \A j \in DOMAIN f : /\ f[j].id # None
                             /\ f[j].id = IdOf[c] => Fit(f[j]) /\ "fresh" \notin f[j].wrong
  PROVE  \E k \in DOMAIN OptionLoad(f, IdOf[c]).events :
           OptionLoad(f, IdOf[c]).events[k] = [contract |-> c, time |-> f[i].time]
<1> DEFINE id == IdOf[c]
           M  == Mine(f, id)
<1>1. id \in Spelling /\ id # None /\ Parsed[id] = c /\ c # None
  BY ContractAssumption
<1>2. i \in M /\ M \subseteq DOMAIN f /\ \A j \in M : f[j].id = id
  BY <1>1 DEF Mine
<1>3. ~ (Ids(f) = {} \/ id = None \/ Parsed[id] = None)
  BY <1>1, <1>2 DEF Ids
<1>4. /\ ~ \E j \in M : f[j].time # None /\ "fresh" \in f[j].wrong
      /\ ~ \E j \in DOMAIN f : f[j].id = None
      /\ ~ \E j \in M : ~ Fit(f[j])
      /\ M # {}
  BY <1>2
<1>5. OptionLoad(f, id).result = "loaded"
  BY <1>3, <1>4 DEF OptionLoad, Loaded
<1>6. IsFiniteSet(M) /\ M \subseteq Int
  BY <1>2, IndexesFinite
<1>7. PICK k \in 1 .. Cardinality(M) : InOrder(M)[k] = i
  BY <1>2, <1>6, InOrderAscends
<1>8. /\ DOMAIN OptionLoad(f, id).events = 1 .. Cardinality(M)
      /\ OptionLoad(f, id).events[k] = [contract |-> Parsed[f[InOrder(M)[k]].id],
                                        time     |-> f[InOrder(M)[k]].time]
  BY <1>5, <1>7, OptionEvents
<1> QED BY <1>1, <1>7, <1>8

(* A contract that is selected can be run: the loader, which reads the     *)
(* file once more, finds the snapshot it was selected by, or a row that    *)
(* makes the file unfit (run_option_from_csv_with_log,                     *)
(* select_option_contract_id_from_csv, _load_option_events_csv_impl).      *)
THEOREM SelectionAlwaysFindsItsContract == Spec => []SelectionFindsItsContract
<1>1. ASSUME FileInv, Canonical, NEW req \in Requests,
             Selection(rows, req).result = "selected",
             NEW c, c = Selection(rows, req).contract
      PROVE  \/ \E k \in DOMAIN OptionLoad(rows, IdOf[c]).events :
                  OptionLoad(rows, IdOf[c]).events[k]
                    = [contract |-> c, time |-> SelectionTime(rows)]
             \/ \E i \in DOMAIN rows :
                  \/ rows[i].id = None
                  \/ rows[i].id = IdOf[c] /\ (~ Fit(rows[i]) \/ "fresh" \in rows[i].wrong)
  <2>1. rows \in File /\ CanonicalFile(rows) /\ req \in Request
    BY <1>1, FileInvIsFile, RowsAssumption DEF Canonical, CanonicalFile
  <2>2. Selectable(rows)
    BY <1>1, SelectionAsks
  <2>3. PICK r \in Candidates(rows) : c = ContractOf(r)
    BY <1>1, <2>1, SelectedIsCandidate
  <2>4. PICK i \in SelectionRows(rows) : rows[i] = r
    BY <2>1, <2>2, CandidatesNamed
  <2>5. /\ i \in DOMAIN rows /\ rows[i].id # None
        /\ rows[i].time = SelectionTime(rows)
        /\ c = Parsed[rows[i].id] /\ c \in Contract
    BY <2>1, <2>2, <2>3, <2>4, CandidatesNamed DEF SelectionRows, Group, ContractOf
  <2>6. rows[i].id = IdOf[c]
    BY <2>1, <2>5, ContractAssumption DEF CanonicalFile
  <2>7. SelectionTime(rows) \in Times(rows) /\ SelectionTime(rows) # None
    BY <2>1, <2>2, TimesFinite, MinIsLeast, ContractAssumption
       DEF SelectionTime, Selectable, Times
  <2> SUFFICES ASSUME \A j \in DOMAIN rows :
                        /\ rows[j].id # None
                        /\ rows[j].id = IdOf[c] => /\ Fit(rows[j])
                                                  /\ "fresh" \notin rows[j].wrong
               PROVE  \E k \in DOMAIN OptionLoad(rows, IdOf[c]).events :
                        OptionLoad(rows, IdOf[c]).events[k]
                          = [contract |-> c, time |-> rows[i].time]
    BY <2>5
  <2> QED BY <2>1, <2>5, <2>6, <2>7, OptionFileLoads
<1>2. FileInv => SelectionFindsItsContract
  BY <1>1 DEF SelectionFindsItsContract
<1> QED BY <1>2, FileInvariant, PTL

-----------------------------------------------------------------------------
(* The ranks out of the money.                                             *)
OtmRequest(right, rank) ==
  [kind |-> "otm", right |-> right, expiry |-> None, rank |-> rank, target |-> None]

Beyond(c, right, price) == IF right = "CALL" THEN c.strike > price ELSE c.strike < price

(* If one rank can be selected, the candidates of that right have one      *)
(* price, and the ranks that can be selected are the places among those    *)
(* beyond it.                                                              *)
LEMMA OtmRanks ==
  ASSUME NEW f \in File, CanonicalFile(f), NEW right, NEW some,
         Selection(f, OtmRequest(right, some)).result = "selected"
  PROVE  \E price \in Int :
           LET F == {row \in Candidates(f) : ContractOf(row).right = right}
               O == {row \in F : Beyond(ContractOf(row), right, price)}
           IN  /\ F # {} /\ \A row \in F : row.price = price
               /\ \A rank : LET picked == Selection(f, OtmRequest(right, rank))
                            IN  /\ picked.result = "selected" <=> rank \in 1 .. Cardinality(O)
                                /\ rank \in 1 .. Cardinality(O) =>
                                     picked.contract = Ranked(O, OtmRequest(right, rank), rank)
<1> DEFINE F      == {row \in Candidates(f) : ContractOf(row).right = right}
           Out    == {row \in F : OutOfTheMoney(row, right)}
           prices == {row.price : row \in F}
           h      == [row \in F |-> row.price]
<1>1. /\ Selectable(f)
      /\ \A rank : Selection(f, OtmRequest(right, rank))
                     = SelectContractId(Candidates(f), OtmRequest(right, rank))
  BY SelectionAsks
<1>2. /\ IsFiniteSet(Candidates(f))
      /\ \A c \in Candidates(f) : c.price \in Int \union {None}
  BY <1>1, CandidatesNamed
<1>3. SelectContractId(Candidates(f), OtmRequest(right, some)).result = "selected"
  BY <1>1
<1>4. right # None
  BY <1>3 DEF SelectContractId, NoContract, OtmRequest
<1>5. \A rank : Filtered(Candidates(f), OtmRequest(right, rank)) = F
  BY <1>4 DEF Filtered, OtmRequest
<1>6. \A rank :
        /\ OtmRequest(right, rank).kind = "otm"
        /\ OtmRequest(right, rank).right = right
        /\ OtmRequest(right, rank).rank = rank
  BY DEF OtmRequest
<1> HIDE DEF F
<1>7. \A rank : SelectContractId(Candidates(f), OtmRequest(right, rank))
                  = IF F = {} THEN NoContract("rejected")
                    ELSE NearestStrike(F, OtmRequest(right, rank))
  BY <1>4, <1>5, <1>6 DEF SelectContractId
<1>8. \A rank : NearestStrike(F, OtmRequest(right, rank))
                  = IF Cardinality(prices) # 1 \/ \E row \in F : row.price = None
                    THEN NoContract("rejected")
                    ELSE IF rank \in 1 .. Cardinality(Out)
                    THEN Chosen(Ranked(Out, OtmRequest(right, rank), rank))
                    ELSE NoContract("rejected")
  BY <1>6 DEF NearestStrike
<1> HIDE DEF Out, prices
<1>9. F # {} /\ Cardinality(prices) = 1 /\ \A row \in F : row.price # None
  <2>1. NoContract("rejected").result # "selected"
    BY DEF NoContract
  <2>2. F # {} /\ NearestStrike(F, OtmRequest(right, some)).result = "selected"
    BY <1>3, <1>7, <2>1
  <2> QED BY <1>8, <2>1, <2>2
<1>10. IsFiniteSet(F) /\ \A row \in F : row.price \in Int \union {None}
  BY <1>2, FS_Subset DEF F
<1>11. h \in Surjection(F, prices)
  BY DEF Surjection, prices
<1>12. IsFiniteSet(prices)
  BY <1>10, <1>11, FS_Surjection
<1>13. PICK price : prices = {price}
  BY <1>9, <1>12, FS_Singleton
<1>14. price \in Int /\ \A row \in F : row.price = price
  BY <1>9, <1>10, <1>13 DEF prices
<1>15. Out = {row \in F : Beyond(ContractOf(row), right, price)}
  BY <1>14 DEF OutOfTheMoney, Beyond, Out
<1>16. ASSUME NEW rank
       PROVE  LET picked == Selection(f, OtmRequest(right, rank))
              IN  /\ picked.result = "selected" <=> rank \in 1 .. Cardinality(Out)
                  /\ rank \in 1 .. Cardinality(Out) =>
                       picked.contract = Ranked(Out, OtmRequest(right, rank), rank)
  BY <1>1, <1>7, <1>8, <1>9 DEF NoContract, Chosen
<1> QED BY <1>9, <1>14, <1>15, <1>16 DEF F

(* The rank asked for does not change the order.                           *)
LEMMA RankedOtm ==
  ASSUME NEW C, NEW right, NEW rank, NEW r
  PROVE  Ranked(C, OtmRequest(right, rank), r) = Ranked(C, OtmRequest(right, 1), r)
<1>1. \A c : Distance(c, OtmRequest(right, rank)) = Distance(c, OtmRequest(right, 1))
  BY DEF Distance, OtmRequest
<1>2. \A c, d : Nearer(c, d, OtmRequest(right, rank)) <=> Nearer(c, d, OtmRequest(right, 1))
  BY <1>1 DEF Nearer
<1> QED BY <1>2 DEF Ranked

RankedOtms(C, right) ==
  [r \in 1 .. Cardinality(C) |-> Ranked(C, OtmRequest(right, 1), r)]

GoesOutwards(at, O, price) ==
  /\ \A r \in 1 .. Cardinality(O) : \E row \in O : at[r] = ContractOf(row)
  /\ \A row \in O : \E r \in 1 .. Cardinality(O) : at[r] = ContractOf(row)
  /\ \A r, s \in 1 .. Cardinality(O) : r < s =>
       AbsDiff(at[r].strike, price) <= AbsDiff(at[s].strike, price)

(* Candidates beyond one price are ranked outwards, each once.             *)
LEMMA RanksGoOutwards ==
  ASSUME NEW f \in File, CanonicalFile(f), Selectable(f), NEW right, NEW price \in Int,
         NEW O, O \subseteq Candidates(f), \A row \in O : row.price = price,
         NEW at, at = RankedOtms(O, right)
  PROVE  GoesOutwards(at, O, price)
<1> DEFINE req == OtmRequest(right, 1)
<1>1. \A row \in O : ContractOf(row) \in Contract /\ row.price \in Int
  BY CandidatesNamed
<1>2. req.kind = "otm"
  BY DEF OtmRequest
<1> HIDE DEF req
<1>3. \A row \in O : /\ Distance(row, req) \in Int
                     /\ Distance(row, req) = AbsDiff(ContractOf(row).strike, price)
  BY <1>1, <1>2, StrikeDistance DEF Distance
<1>4. Sortable(O, req) /\ IsFiniteSet(O) /\ Cardinality(O) \in Nat
  BY <1>3, SubsetSortable
<1>5. PICK before : before = UpTo(O, req)
  OBVIOUS
<1>6. /\ Ranking(O, before)
      /\ \A r \in 1 .. Cardinality(O) :
           \E row \in O : at[r] = ContractOf(row) /\ Cardinality(before[row]) = r
  <2>1. \A r \in 1 .. Cardinality(O) : at[r] = Ranked(O, req, r)
    BY DEF req, RankedOtms
  <2>2. /\ Ranking(O, before)
        /\ \A r \in 1 .. Cardinality(O) :
             \E row \in O : /\ Ranked(O, req, r) = ContractOf(row)
                            /\ Cardinality(before[row]) = r
    BY <1>4, <1>5, RankedIsNth
  <2> QED BY <2>1, <2>2
<1>7. ASSUME NEW row \in O
      PROVE  \E r \in 1 .. Cardinality(O) : at[r] = ContractOf(row)
  <2>1. PICK r : r = Cardinality(before[row])
    OBVIOUS
  <2>2. r \in 1 .. Cardinality(O)
    BY <1>4, <1>6, <2>1, RanksOrder
  <2>3. PICK c \in O : at[r] = ContractOf(c) /\ Cardinality(before[c]) = r
    BY <1>6, <2>2
  <2>4. c = row
    BY <1>4, <1>6, <2>1, <2>2, <2>3, RanksTaken
  <2> QED BY <2>2, <2>3, <2>4
<1>8. ASSUME NEW r \in 1 .. Cardinality(O), NEW s \in 1 .. Cardinality(O), r < s
      PROVE  AbsDiff(at[r].strike, price) <= AbsDiff(at[s].strike, price)
  <2>1. PICK c \in O : at[r] = ContractOf(c) /\ Cardinality(before[c]) = r
    BY <1>6
  <2>2. PICK d \in O : at[s] = ContractOf(d) /\ Cardinality(before[d]) = s
    BY <1>6
  <2>3. r <= s
    BY <1>4, <1>8
  <2>4. c \in before[d]
    BY <1>4, <1>6, <2>1, <2>2, <2>3, RanksOrder
  <2>5. ~ Nearer(d, c, req)
    BY <1>5, <2>4 DEF UpTo
  <2>6. ~ (Distance(d, req) < Distance(c, req))
    BY <2>5 DEF Nearer
  <2>7. Distance(c, req) <= Distance(d, req)
    BY <1>3, <2>6
  <2> QED BY <1>3, <2>1, <2>2, <2>7
<1> QED BY <1>6, <1>7, <1>8 DEF GoesOutwards

(* The same, of the contracts named in the rows.                           *)
OtmAscends(f, right, max) ==
  LET at(rank) == Selection(f, OtmRequest(right, rank))
      ranks    == {rank \in 1 .. max : at(rank).result = "selected"}
      here     == {i \in DOMAIN f : /\ f[i].time = SelectionTime(f)
                                    /\ f[i].id # None /\ Usable(f[i])}
      price    == f[CHOOSE i \in here : Parsed[f[i].id].right = right].price
      beyond   == {c \in {Parsed[f[i].id] : i \in here} :
                     /\ c.right = right
                     /\ IF right = "CALL" THEN c.strike > price ELSE c.strike < price}
  IN  ranks # {} =>
        /\ ranks = 1 .. Cardinality(beyond)
        /\ {at(rank).contract : rank \in ranks} = beyond
        /\ \A r, s \in ranks : r < s =>
             AbsDiff(at(r).contract.strike, price) <= AbsDiff(at(s).contract.strike, price)

LEMMA FilesRankOutwards ==
  ASSUME NEW f \in File, CanonicalFile(f), NEW right, NEW max \in Nat, Len(f) <= max
  PROVE  OtmAscends(f, right, max)
<1> DEFINE at(rank) == Selection(f, OtmRequest(right, rank))
           ranks    == {rank \in 1 .. max : at(rank).result = "selected"}
           here     == {i \in DOMAIN f : /\ f[i].time = SelectionTime(f)
                                         /\ f[i].id # None /\ Usable(f[i])}
           price    == f[CHOOSE i \in here : Parsed[f[i].id].right = right].price
           beyond   == {c \in {Parsed[f[i].id] : i \in here} :
                          /\ c.right = right
                          /\ IF right = "CALL" THEN c.strike > price ELSE c.strike < price}
<1> SUFFICES ASSUME ranks # {}
             PROVE  /\ ranks = 1 .. Cardinality(beyond)
                    /\ {at(rank).contract : rank \in ranks} = beyond
                    /\ \A r, s \in ranks : r < s =>
                         AbsDiff(at(r).contract.strike, price)
                           <= AbsDiff(at(s).contract.strike, price)
  BY DEF OtmAscends
<1>1. PICK some : at(some).result = "selected"
  OBVIOUS
<1>2. Selectable(f)
  BY <1>1, SelectionAsks
<1> DEFINE F    == {row \in Candidates(f) : ContractOf(row).right = right}
           O(p) == {row \in F : Beyond(ContractOf(row), right, p)}
<1>3. PICK p \in Int :
        /\ F # {} /\ \A row \in F : row.price = p
        /\ \A rank : /\ at(rank).result = "selected" <=> rank \in 1 .. Cardinality(O(p))
                     /\ rank \in 1 .. Cardinality(O(p)) =>
                          at(rank).contract = Ranked(O(p), OtmRequest(right, rank), rank)
  BY <1>1, OtmRanks
<1>4. Candidates(f) = {f[i] : i \in here}
  BY DEF Candidates, SelectionRows, Group
<1>5. price = p
  <2>1. PICK row \in F : row.price = p
    BY <1>3
  <2>2. \E i \in here : Parsed[f[i].id].right = right
    BY <1>4, <2>1 DEF ContractOf
  <2>3. PICK i : i = CHOOSE j \in here : Parsed[f[j].id].right = right
    OBVIOUS
  <2>4. i \in here /\ Parsed[f[i].id].right = right
    BY <2>2, <2>3
  <2>5. f[i] \in F
    BY <1>4, <2>4 DEF ContractOf
  <2> QED BY <1>3, <2>3, <2>5
<1>6. PICK B : B = O(p)
  OBVIOUS
<1>7. /\ B \subseteq Candidates(f) /\ \A row \in B : row.price = p
  BY <1>3, <1>6
<1>8. beyond = {ContractOf(row) : row \in B}
  <2>1. beyond = {c \in {Parsed[f[i].id] : i \in here} : c.right = right /\ Beyond(c, right, p)}
    BY <1>5 DEF Beyond
  <2>2. \A c : c \in {Parsed[f[i].id] : i \in here}
                 <=> \E row \in Candidates(f) : c = ContractOf(row)
    BY <1>4 DEF ContractOf
  <2> HIDE DEF beyond, here
  <2>3. \A c : c \in beyond <=> \E row \in B : c = ContractOf(row)
    BY <1>6, <2>1, <2>2
  <2> QED BY <2>3
<1> HIDE DEF beyond, price, here, O, F
<1>9. /\ IsFiniteSet(B) /\ Cardinality(B) \in Nat /\ Cardinality(B) <= max
  <2>1. \A row \in B : Distance(row, OtmRequest(right, 1)) \in Int
    BY <1>2, <1>7, CandidatesNamed, StrikeDistance DEF OtmRequest
  <2>2. IsFiniteSet(B) /\ Cardinality(B) \in Nat /\ Cardinality(B) <= Len(f)
    BY <1>2, <1>7, <2>1, SubsetSortable
  <2>3. Len(f) \in Nat
    BY DEF File
  <2> QED BY <2>2, <2>3
<1>10. Cardinality(beyond) = Cardinality(B)
  <2> DEFINE h == [row \in B |-> ContractOf(row)]
  <2>1. \A c, d \in B : ContractOf(c) = ContractOf(d) => c = d
    BY <1>2, <1>7, CandidatesNamed
  <2>2. h \in [B -> beyond] /\ (\A c, d \in B : h[c] = h[d] => c = d)
    BY <1>8, <2>1
  <2>3. \A c \in beyond : \E row \in B : h[row] = c
    BY <1>8
  <2>4. h \in Bijection(B, beyond)
    BY <2>2, <2>3 DEF Bijection, Injection, Surjection, IsInjective
  <2> QED BY <1>9, <2>4, FS_Bijection DEF ExistsBijection
<1>11. ranks = 1 .. Cardinality(B)
  BY <1>3, <1>6, <1>9
<1>12. PICK ranked : ranked = RankedOtms(B, right)
  OBVIOUS
<1>13. \A r \in 1 .. Cardinality(B) : at(r).contract = ranked[r]
  <2> SUFFICES ASSUME NEW r \in 1 .. Cardinality(B)
               PROVE  at(r).contract = ranked[r]
    OBVIOUS
  <2>1. at(r).contract = Ranked(B, OtmRequest(right, r), r)
    BY <1>3, <1>6
  <2>2. ranked[r] = Ranked(B, OtmRequest(right, 1), r)
    BY <1>12 DEF RankedOtms
  <2> QED BY <2>1, <2>2, RankedOtm
<1> HIDE DEF at, ranks
<1>14. GoesOutwards(ranked, B, p)
  BY <1>2, <1>7, <1>12, RanksGoOutwards
<1>15. /\ \A r \in 1 .. Cardinality(B) : \E row \in B : ranked[r] = ContractOf(row)
       /\ \A row \in B : \E r \in 1 .. Cardinality(B) : ranked[r] = ContractOf(row)
       /\ \A r, s \in 1 .. Cardinality(B) : r < s =>
            AbsDiff(ranked[r].strike, p) <= AbsDiff(ranked[s].strike, p)
  BY <1>14 DEF GoesOutwards
<1>16. {at(rank).contract : rank \in ranks} = beyond
  BY <1>8, <1>11, <1>13, <1>15
<1>17. \A r, s \in ranks : r < s =>
         AbsDiff(at(r).contract.strike, price) <= AbsDiff(at(s).contract.strike, price)
  BY <1>5, <1>11, <1>13, <1>15
<1> QED BY <1>10, <1>11, <1>16, <1>17

(* Asked for ranks 1, 2, ... out of the money, the selection gives the     *)
(* contracts on that side of the price, each once, none nearer than the    *)
(* one before, in files with any number of rows (select_contract_id: otm). *)
THEOREM OtmRanksAlwaysAscend == Spec => []OtmRanksAscend
<1>1. ASSUME FileInv, Canonical, NEW right \in Right
      PROVE  OtmAscends(rows, right, MaxRows)
  <2>1. rows \in File /\ CanonicalFile(rows) /\ Len(rows) <= MaxRows /\ MaxRows \in Nat
    BY <1>1, FileInvIsFile, RowsAssumption DEF Canonical, CanonicalFile, FileInv
  <2> QED BY <2>1, FilesRankOutwards
<1>2. FileInv => OtmRanksAscend
  BY <1>1, Zenon DEF OtmRanksAscend, OtmAscends, OtmRequest
<1> QED BY <1>2, FileInvariant, PTL

-----------------------------------------------------------------------------
(* The metrics.  What holds of 0 and of the successors of what it holds of *)
(* holds of every natural number.                                          *)
LEMMA Successors ==
  ASSUME NEW S, 0 \in S, \A n \in Nat : n \in S => n + 1 \in S
  PROVE  \A n \in Nat : n \in S
<1> DEFINE R == {ss \in Nat \X Nat : ss[1] < ss[2]}
           T == {n \in Nat : n \notin S}
<1>1. R = OpToRel(<, Nat)
  BY DEF OpToRel
<1>2. IsWellFoundedOn(R, Nat)
  BY <1>1, NatLessThanWellFounded, Zenon
<1>3. \A y, z \in Nat : y < z => <<y, z>> \in R
  OBVIOUS
<1> HIDE DEF R
<1>4. ASSUME T # {}
      PROVE  FALSE
  <2>1. PICK x \in T : \A y \in T : ~ (<<y, x>> \in R)
    BY <1>2, <1>4, WFMin
  <2>2. x \in Nat /\ x # 0 /\ x - 1 \in Nat /\ x - 1 < x
    OBVIOUS
  <2>3. x - 1 \notin T
    BY <1>3, <2>1, <2>2
  <2>4. (x - 1) + 1 \in S
    BY <2>2, <2>3
  <2> QED BY <2>2, <2>4
<1> QED BY <1>4

Step(values, t, k) == IF k = 0 THEN 0 ELSE t[k - 1] + values[k]

(* The sums kept along the way.                                            *)
LEMMA SumsExist ==
  ASSUME NEW n \in Nat, NEW values \in [1 .. n -> Int]
  PROVE  \E t \in [0 .. n -> Int] : t = [k \in 0 .. n |-> Step(values, t, k)]
<1> DEFINE S == {m \in Nat : m <= n =>
                   \E t \in [0 .. m -> Int] : \A k \in 0 .. m : t[k] = Step(values, t, k)}
<1>1. 0 \in S
  <2>1. PICK t : t = [k \in 0 .. 0 |-> 0]
    OBVIOUS
  <2>2. t \in [0 .. 0 -> Int] /\ \A k \in 0 .. 0 : t[k] = Step(values, t, k)
    BY <2>1 DEF Step
  <2> QED BY <2>2
<1>2. ASSUME NEW m \in Nat, m \in S, m + 1 <= n
      PROVE  \E t \in [0 .. m + 1 -> Int] : \A k \in 0 .. m + 1 : t[k] = Step(values, t, k)
  <2>1. PICK t \in [0 .. m -> Int] : \A k \in 0 .. m : t[k] = Step(values, t, k)
    BY <1>2
  <2>2. PICK u : u = [k \in 0 .. m + 1 |-> IF k = m + 1 THEN t[m] + values[m + 1] ELSE t[k]]
    OBVIOUS
  <2>3. values[m + 1] \in Int /\ t[m] \in Int
    BY <1>2, <2>1
  <2>4. ASSUME NEW k \in 0 .. m + 1
        PROVE  u[k] \in Int /\ u[k] = Step(values, u, k)
    <3>1. CASE k = m + 1
      BY <2>2, <2>3, <3>1 DEF Step
    <3>2. CASE k # m + 1
      <4>1. k \in 0 .. m /\ u[k] = t[k] /\ t[k] \in Int
        BY <2>1, <2>2, <3>2
      <4>2. k # 0 => k - 1 \in 0 .. m + 1 /\ u[k - 1] = t[k - 1]
        BY <2>2, <4>1
      <4> QED BY <2>1, <4>1, <4>2 DEF Step
    <3> QED BY <3>1, <3>2
  <2>5. u \in [0 .. m + 1 -> Int]
    BY <2>2, <2>4
  <2> QED BY <2>4, <2>5
<1>3. \A m \in Nat : m \in S => m + 1 \in S
  BY <1>2
<1> HIDE DEF S
<1>4. n \in S
  BY <1>1, <1>3, Successors
<1>5. PICK t \in [0 .. n -> Int] : \A k \in 0 .. n : t[k] = Step(values, t, k)
  BY <1>4 DEF S
<1> QED BY <1>5

(* What _sum_ints returns is the last of them.                             *)
LEMMA SumIsLast ==
  ASSUME NEW n \in Nat, NEW values \in [1 .. n -> Int]
  PROVE  \E t \in [0 .. n -> Int] :
           /\ t[0] = 0 /\ \A k \in 0 .. n - 1 : t[k + 1] = t[k] + values[k + 1]
           /\ SumInts(values) = t[n]
<1>1. Len(values) = n
  OBVIOUS
<1>2. PICK t : t = CHOOSE sum : sum = [k \in 0 .. n |-> Step(values, sum, k)]
  OBVIOUS
<1>3. t = [k \in 0 .. n |-> Step(values, t, k)]
  BY <1>2, SumsExist
<1>4. SumInts(values) = t[n]
  BY <1>1, <1>2 DEF SumInts, Step
<1>5. \A k \in 0 .. n : t[k] \in Int
  <2> DEFINE S == {k \in Nat : k <= n => t[k] \in Int}
  <2>1. 0 \in S
    BY <1>3 DEF Step
  <2>2. ASSUME NEW k \in Nat, k \in S, k + 1 <= n
        PROVE  t[k + 1] \in Int
    <3>1. t[k + 1] = t[k] + values[k + 1]
      BY <1>3, <2>2 DEF Step
    <3> QED BY <2>2, <3>1
  <2>3. \A k \in Nat : k \in S => k + 1 \in S
    BY <2>2
  <2> HIDE DEF S
  <2>4. \A k \in Nat : k \in S
    BY <2>1, <2>3, Successors
  <2> QED BY <2>4 DEF S
<1>6. t \in [0 .. n -> Int]
  BY <1>3, <1>5
<1>7. t[0] = 0
  BY <1>3 DEF Step
<1>8. ASSUME NEW k \in 0 .. n - 1
      PROVE  t[k + 1] = t[k] + values[k + 1]
  BY <1>3 DEF Step
<1> QED BY <1>4, <1>6, <1>7, <1>8

(* Sums of as many numbers are added number by number.                     *)
LEMMA SumsAdd ==
  ASSUME NEW n \in Nat, NEW u \in [1 .. n -> Int], NEW v \in [1 .. n -> Int],
         NEW w \in [1 .. n -> Int], \A k \in 1 .. n : w[k] = u[k] + v[k]
  PROVE  /\ SumInts(u) \in Int /\ SumInts(v) \in Int
         /\ SumInts(w) = SumInts(u) + SumInts(v)
<1>1. PICK a \in [0 .. n -> Int] :
        /\ a[0] = 0 /\ \A k \in 0 .. n - 1 : a[k + 1] = a[k] + u[k + 1]
        /\ SumInts(u) = a[n]
  BY SumIsLast
<1>2. PICK b \in [0 .. n -> Int] :
        /\ b[0] = 0 /\ \A k \in 0 .. n - 1 : b[k + 1] = b[k] + v[k + 1]
        /\ SumInts(v) = b[n]
  BY SumIsLast
<1>3. PICK c \in [0 .. n -> Int] :
        /\ c[0] = 0 /\ \A k \in 0 .. n - 1 : c[k + 1] = c[k] + w[k + 1]
        /\ SumInts(w) = c[n]
  BY SumIsLast
<1> DEFINE S == {k \in Nat : k <= n => c[k] = a[k] + b[k]}
<1>4. 0 \in S
  BY <1>1, <1>2, <1>3
<1>5. ASSUME NEW k \in Nat, k \in S, k + 1 <= n
      PROVE  c[k + 1] = a[k + 1] + b[k + 1]
  <2>1. k \in 0 .. n /\ k \in 0 .. n - 1 /\ k + 1 \in 1 .. n /\ c[k] = a[k] + b[k]
    BY <1>5
  <2>2. /\ a[k + 1] = a[k] + u[k + 1] /\ b[k + 1] = b[k] + v[k + 1]
        /\ c[k + 1] = c[k] + w[k + 1]
    BY <1>1, <1>2, <1>3, <2>1
  <2>3. /\ a[k] \in Int /\ b[k] \in Int
        /\ u[k + 1] \in Int /\ v[k + 1] \in Int
        /\ w[k + 1] = u[k + 1] + v[k + 1]
    BY <2>1
  <2> QED BY <2>1, <2>2, <2>3
<1>6. \A k \in Nat : k \in S => k + 1 \in S
  BY <1>5
<1> HIDE DEF S
<1>7. n \in S
  BY <1>4, <1>6, Successors
<1>8. c[n] = a[n] + b[n] /\ a[n] \in Int /\ b[n] \in Int
  BY <1>7 DEF S
<1> QED BY <1>1, <1>2, <1>3, <1>8

(* What a snapshot holds, of the metrics' concern.                         *)
Chained(e) ==
  \E n \in Nat \ {0} :
    /\ Len(e.contracts) = n /\ DOMAIN e.contracts = 1 .. n
    /\ \A p \in 1 .. n : /\ e.contracts[p].contract.right \in Right
                         /\ e.contracts[p].oi \in Nat \union {None}
    /\ e.chain = e.contracts[1].contract.chain

LEMMA SnapshotsChained ==
  ASSUME NEW f \in File, NEW t, ~ Diagnosed(f, Group(f, t))
  PROVE  Chained(Snapshot(f, t))
<1> DEFINE nth(p) == f[CHOOSE i \in Kept(f, Group(f, t)) : Place(f, Kept(f, Group(f, t)), i) = p]
<1>1. PICK K : K = Kept(f, Group(f, t))
  OBVIOUS
<1>2. PICK e, n : e = Snapshot(f, t) /\ n = Cardinality(K)
  OBVIOUS
<1>3. Named(f, K) /\ K # {}
  BY <1>1, RowTypes DEF Named, Kept, Group, Diagnosed
<1>4. n \in Nat \ {0}
  BY <1>2, <1>3, IndexesFinite, FS_EmptySet DEF Named
<1>5. ASSUME NEW p \in 1 .. n
      PROVE  \E i \in K : nth(p) = f[i]
  <2>1. \E i \in K : Place(f, K, i) = p
    BY <1>2, <1>3, PlacesTaken
  <2> QED BY <1>1, <2>1
<1> HIDE DEF nth
<1>6. ASSUME NEW p \in 1 .. n
      PROVE  /\ Parsed[nth(p).id].right \in Right
             /\ nth(p).oi \in Nat \union {None}
  <2>1. PICK i \in K : nth(p) = f[i]
    BY <1>5
  <2>2. Parsed[f[i].id] \in Contract /\ i \in DOMAIN f
    BY <1>3 DEF Named
  <2>3. f[i] \in Row
    BY <2>2 DEF File
  <2> QED BY <2>1, <2>2, <2>3, ContractAssumption DEF Row
<1>7. /\ e.contracts = [p \in 1 .. n |-> [contract |-> Parsed[nth(p).id], oi |-> nth(p).oi]]
      /\ e.chain = Parsed[nth(1).id].chain
  BY <1>1, <1>2 DEF Snapshot, nth
<1>8. /\ Len(e.contracts) = n /\ DOMAIN e.contracts = 1 .. n
      /\ e.chain = e.contracts[1].contract.chain
  BY <1>4, <1>7
<1> QED BY <1>2, <1>4, <1>6, <1>7, <1>8 DEF Chained

Counted(e, rights) ==
  [p \in DOMAIN e.contracts |-> IF p \in Entries(e, rights) THEN e.contracts[p].oi ELSE 0]

(* The sum over all contracts is that over puts and that over calls.       *)
LEMMA SumsOfRights ==
  ASSUME NEW e, Chained(e), OiKnown(e, Right)
  PROVE  /\ OiSum(e, {"PUT"}) \in Int /\ OiSum(e, {"CALL"}) \in Int
         /\ OiSum(e, Right) = OiSum(e, {"PUT"}) + OiSum(e, {"CALL"})
<1>1. PICK n \in Nat :
        /\ DOMAIN e.contracts = 1 .. n
        /\ \A p \in 1 .. n : /\ e.contracts[p].contract.right \in Right
                             /\ e.contracts[p].oi \in Nat \union {None}
  BY DEF Chained
<1>2. \A p \in 1 .. n : e.contracts[p].oi \in Int
  BY <1>1 DEF OiKnown, Entries
<1>3. PICK u, v, w :
        u = Counted(e, {"PUT"}) /\ v = Counted(e, {"CALL"}) /\ w = Counted(e, Right)
  OBVIOUS
<1>4. u \in [1 .. n -> Int] /\ v \in [1 .. n -> Int] /\ w \in [1 .. n -> Int]
  BY <1>1, <1>2, <1>3 DEF Counted
<1>5. ASSUME NEW p \in 1 .. n
      PROVE  w[p] = u[p] + v[p]
  <2>1. /\ p \in Entries(e, Right)
        /\ p \in Entries(e, {"PUT"}) <=> p \notin Entries(e, {"CALL"})
    BY <1>1 DEF Entries, Right
  <2>2. PICK x \in Int : x = e.contracts[p].oi
    BY <1>2
  <2>3. /\ w[p] = x
        /\ u[p] = IF p \in Entries(e, {"PUT"}) THEN x ELSE 0
        /\ v[p] = IF p \in Entries(e, {"CALL"}) THEN x ELSE 0
    BY <1>1, <1>3, <2>1, <2>2 DEF Counted
  <2> QED BY <2>1, <2>3
<1>6. /\ SumInts(u) \in Int /\ SumInts(v) \in Int
      /\ SumInts(w) = SumInts(u) + SumInts(v)
  BY <1>4, <1>5, SumsAdd
<1> QED BY <1>3, <1>6 DEF OiSum, Counted

LEMMA KnownOfRights ==
  ASSUME NEW e, Chained(e)
  PROVE  OiKnown(e, Right) <=> OiKnown(e, {"PUT"}) /\ OiKnown(e, {"CALL"})
<1>1. \A p \in DOMAIN e.contracts : e.contracts[p].contract.right \in Right
  BY DEF Chained
<1> QED BY <1>1 DEF OiKnown, Entries, Right

(* What the loops agree on at one event, of any chain events.              *)
Agrees(events, k) ==
  LET all   == OiChange(events, k, Right)
      puts  == OiChange(events, k, {"PUT"})
      calls == OiChange(events, k, {"CALL"})
  IN  /\ all = Unknown <=> Unknown \in {puts, calls}
      /\ all # Unknown => all = puts + calls
      /\ k > 1 => LET was == PcrOi(events[k - 1])
                      is  == PcrOi(events[k])
                  IN  Unknown \notin {was, is} /\ SameContracts(events[k - 1], events[k]) =>
                        <<puts, calls>> = <<is[1] - was[1], is[2] - was[2]>>

Comparable(events, k) ==
  /\ HasPrevious(events, k)
  /\ MetricsAllowed(Previous(events, k)) /\ MetricsAllowed(events[k])
  /\ SameContracts(Previous(events, k), events[k])

BothKnown(events, k, rights) ==
  OiKnown(Previous(events, k), rights) /\ OiKnown(events[k], rights)

LEMMA ChangeCases ==
  ASSUME NEW events, NEW k, NEW rights
  PROVE  /\ Comparable(events, k) /\ BothKnown(events, k, rights) =>
              OiChange(events, k, rights)
                = OiSum(events[k], rights) - OiSum(Previous(events, k), rights)
         /\ ~ (Comparable(events, k) /\ BothKnown(events, k, rights)) =>
              OiChange(events, k, rights) = Unknown
BY DEF OiChange, Comparable, BothKnown

LEMMA EventsAgree ==
  ASSUME NEW events, NEW n \in Nat, DOMAIN events = 1 .. n, NEW k \in 1 .. n,
         \A j \in 1 .. n : Chained(events[j])
  PROVE  Agrees(events, k)
<1>1. PICK all, puts, calls :
        /\ all = OiChange(events, k, Right)
        /\ puts = OiChange(events, k, {"PUT"}) /\ calls = OiChange(events, k, {"CALL"})
  OBVIOUS
<1>2. PICK prev, curr : prev = Previous(events, k) /\ curr = events[k]
  OBVIOUS
<1>3. Chained(curr) /\ (k > 1 => Chained(prev) /\ prev = events[k - 1])
  BY <1>2 DEF Previous
<1>4. HasPrevious(events, k) => k > 1
  BY DEF HasPrevious
<1>5. Comparable(events, k) => k > 1
  BY <1>4 DEF Comparable
<1>6. ASSUME k > 1
      PROVE  BothKnown(events, k, Right)
               <=> BothKnown(events, k, {"PUT"}) /\ BothKnown(events, k, {"CALL"})
  BY <1>2, <1>3, <1>6, KnownOfRights DEF BothKnown
<1>7. ASSUME Comparable(events, k), BothKnown(events, k, Right)
      PROVE  \E p, q, r, s \in Int :
               /\ p = OiSum(curr, {"PUT"}) /\ q = OiSum(prev, {"PUT"})
               /\ r = OiSum(curr, {"CALL"}) /\ s = OiSum(prev, {"CALL"})
               /\ puts = p - q /\ calls = r - s /\ all = (p + r) - (q + s)
  <2>1. Chained(curr) /\ Chained(prev) /\ OiKnown(curr, Right) /\ OiKnown(prev, Right)
    BY <1>2, <1>3, <1>5, <1>7 DEF BothKnown
  <2>2. /\ BothKnown(events, k, {"PUT"}) /\ BothKnown(events, k, {"CALL"})
    BY <1>5, <1>6, <1>7
  <2>3. /\ all = OiSum(curr, Right) - OiSum(prev, Right)
        /\ puts = OiSum(curr, {"PUT"}) - OiSum(prev, {"PUT"})
        /\ calls = OiSum(curr, {"CALL"}) - OiSum(prev, {"CALL"})
    BY <1>1, <1>2, <1>7, <2>2, ChangeCases
  <2>4. PICK p, q, r, s : /\ p = OiSum(curr, {"PUT"}) /\ q = OiSum(prev, {"PUT"})
                          /\ r = OiSum(curr, {"CALL"}) /\ s = OiSum(prev, {"CALL"})
    OBVIOUS
  <2>5. /\ p \in Int /\ q \in Int /\ r \in Int /\ s \in Int
        /\ OiSum(curr, Right) = p + r /\ OiSum(prev, Right) = q + s
    BY <2>1, <2>4, SumsOfRights
  <2> QED BY <2>3, <2>4, <2>5
<1>8. all = Unknown <=> Unknown \in {puts, calls}
  <2>1. CASE Comparable(events, k) /\ BothKnown(events, k, Right)
    <3>1. all \in Int /\ puts \in Int /\ calls \in Int
      BY <1>7, <2>1
    <3> QED BY <3>1, UnknownAssumption
  <2>2. CASE ~ (Comparable(events, k) /\ BothKnown(events, k, Right))
    <3>1. all = Unknown
      BY <1>1, <2>2, ChangeCases
    <3>2. \/ ~ (Comparable(events, k) /\ BothKnown(events, k, {"PUT"}))
          \/ ~ (Comparable(events, k) /\ BothKnown(events, k, {"CALL"}))
      BY <1>5, <1>6, <2>2
    <3>3. puts = Unknown \/ calls = Unknown
      BY <1>1, <3>2, ChangeCases
    <3> QED BY <3>1, <3>3
  <2> QED BY <2>1, <2>2
<1>9. all # Unknown => all = puts + calls
  <2> SUFFICES ASSUME all # Unknown PROVE all = puts + calls
    OBVIOUS
  <2>1. Comparable(events, k) /\ BothKnown(events, k, Right)
    BY <1>1, ChangeCases
  <2> QED BY <1>7, <2>1
<1>10. ASSUME k > 1, PcrOi(prev) # Unknown, PcrOi(curr) # Unknown, SameContracts(prev, curr)
       PROVE  <<puts, calls>> =
                <<PcrOi(curr)[1] - PcrOi(prev)[1], PcrOi(curr)[2] - PcrOi(prev)[2]>>
  <2>1. /\ MetricsAllowed(prev) /\ OiKnown(prev, Right)
        /\ MetricsAllowed(curr) /\ OiKnown(curr, Right)
        /\ PcrOi(prev) = <<OiSum(prev, {"PUT"}), OiSum(prev, {"CALL"})>>
        /\ PcrOi(curr) = <<OiSum(curr, {"PUT"}), OiSum(curr, {"CALL"})>>
    BY <1>10 DEF PcrOi
  <2>2. prev.chain = curr.chain
    <3>1. /\ prev.chain = prev.contracts[1].contract.chain /\ 1 \in DOMAIN prev.contracts
          /\ curr.chain = curr.contracts[1].contract.chain
      BY <1>3, <1>10 DEF Chained
    <3>2. prev.contracts[1].contract = curr.contracts[1].contract
      BY <1>10, <3>1 DEF SameContracts
    <3> QED BY <3>1, <3>2
  <2>3. Comparable(events, k) /\ BothKnown(events, k, Right)
    BY <1>2, <1>10, <2>1, <2>2 DEF Comparable, BothKnown, HasPrevious
  <2>4. PICK p, q, r, s \in Int :
          /\ p = OiSum(curr, {"PUT"}) /\ q = OiSum(prev, {"PUT"})
          /\ r = OiSum(curr, {"CALL"}) /\ s = OiSum(prev, {"CALL"})
          /\ puts = p - q /\ calls = r - s
    BY <1>7, <2>3
  <2>5. PcrOi(prev) = <<q, s>> /\ PcrOi(curr) = <<p, r>>
    BY <2>1, <2>4
  <2>6. /\ PcrOi(prev)[1] = q /\ PcrOi(prev)[2] = s
        /\ PcrOi(curr)[1] = p /\ PcrOi(curr)[2] = r
    BY <2>5
  <2> QED BY <2>4, <2>6
<1> QED BY <1>1, <1>2, <1>3, <1>8, <1>9, <1>10 DEF Agrees

(* Wherever the metrics of a chain are known they tell one story, in files *)
(* with any number of rows and contracts (oi_change, oi_change_puts,       *)
(* oi_change_calls and pcr_oi).                                            *)
THEOREM MetricsAlwaysAgree == Spec => []MetricsAgree
<1>1. ASSUME NEW f \in File, NEW k \in DOMAIN ChainLoad(f).events
      PROVE  Agrees(ChainLoad(f).events, k)
  <2>1. PICK n, events : n = Cardinality(Times(f)) /\ events = ChainLoad(f).events
    OBVIOUS
  <2>2. n \in Nat /\ DOMAIN events = 1 .. n /\ k \in 1 .. n
    BY <1>1, <2>1, TimesFinite DEF ChainLoad, Rejected, Raised, Loaded
  <2>3. ASSUME NEW j \in 1 .. n
        PROVE  Chained(events[j])
    BY <2>1, <2>2, ChainEvents, SnapshotsChained
  <2> QED BY <2>1, <2>2, <2>3, EventsAgree
<1>2. FileInv => MetricsAgree
  BY <1>1, FileInvIsFile, Zenon DEF MetricsAgree, Agrees
<1> QED BY <1>2, FileInvariant, PTL

=============================================================================

--------------------------- MODULE AnalyzerProofs ---------------------------
(***************************************************************************)
(* Proofs about what the market analyzer reads, chooses, prices and is     *)
(* allowed: a strategy that a task of the scan chooses is a hedge on a     *)
(* book it holds, a price or book that is served is the venue's, a volume  *)
(* that is priced or filled exists, and what the risk gate lets through    *)
(* does not lose more to the books than it scores; for any pairs, markets, *)
(* listings, books, clocks, budgets, messages and opportunities.           *)
(***************************************************************************)
EXTENDS OpportunityScan, OpportunityPricing, RiskGate, QuoteCache, Sums, SequenceTheorems

-----------------------------------------------------------------------------
(***************************************************************************)
(* The quote cache.  The proof has three parts: what the stable sort and   *)
(* the filter return, what the normalisers make of an answer, and that     *)
(* every entry that is fresh under a key is the key's own, whole, and read *)
(* no more than one delay before its stamp (QuoteInv).                     *)
(***************************************************************************)
\* A side's top price is one of its prices.
LEMMA BestIsAPrice ==
    ASSUME NEW levels \in Seq(KalshiLevel)
    PROVE  IF levels = <<>> THEN BestPrice(levels) = NoEntry ELSE BestPrice(levels) \in 1..99
  <1> DEFINE P == {l.price : l \in Range(levels)}
             top == CHOOSE p \in P : \A l \in Range(levels) : l.price <= p
  <1>1. \A l \in Range(levels) : l.price \in 1..99
    <2>1. \A i \in DOMAIN levels : levels[i] \in KalshiLevel
      OBVIOUS
    <2>2. \A l \in KalshiLevel : l.price \in 1..99
      BY DEF KalshiLevel
    <2> QED BY <2>1, <2>2 DEF Range
  <1>2. CASE levels = <<>>
    BY <1>2 DEF BestPrice
  <1>3. CASE levels # <<>>
    <2>1. Range(levels) # {}
      <3>1. 1 \in DOMAIN levels
        BY <1>3
      <3> QED BY <3>1 DEF Range
    <2> DEFINE U == {100 - p : p \in P}
    <2>2. U \in SUBSET Nat /\ U # {}
      <3>1. \A p \in P : p \in 1..99
        BY <1>1
      <3>2. P # {}
        BY <2>1
      <3> HIDE DEF P
      <3>3. ASSUME NEW p \in P PROVE 100 - p \in Nat
        <4>1. PICK m \in 1..99 : m = p
          BY <3>1
        <4> QED BY <4>1
      <3> QED BY <3>2, <3>3
    <2>3. PICK u \in U : \A v \in U : u <= v
      <3> HIDE DEF U
      <3> QED BY <2>2, LeastNumber
    <2>4. PICK p \in P : u = 100 - p
      OBVIOUS
    <2>5. ASSUME NEW l \in Range(levels) PROVE l.price <= p
      <3>1. 100 - l.price \in U /\ l.price \in 1..99 /\ p \in 1..99
        BY <1>1
      <3>2. 100 - p <= 100 - l.price
        BY <2>3, <2>4, <3>1
      <3>3. PICK m, n \in 1..99 : m = l.price /\ n = p
        BY <3>1
      <3>4. 100 - n <= 100 - m
        BY <3>2, <3>3
      <3>5. m <= n
        <4>1. m \in Int /\ n \in Int
          BY <3>3
        <4> QED BY <3>4, <4>1
      <3> QED BY <3>3, <3>5
    <2>6. top \in P
      BY <2>5
    <2>7. BestPrice(levels) = top
      BY <1>3 DEF BestPrice
    <2>8. top \in 1..99
      <3> HIDE DEF top
      <3> QED BY <1>1, <2>6
    <2> HIDE DEF top
    <2> QED BY <1>3, <2>7, <2>8
  <1> QED BY <1>2, <1>3

\* A price in dollars or in cents comes out as the cents it stands for.
LEMMA CentsAreRead ==
    ASSUME NEW x \in 1..99, NEW shape \in {"fp", "legacy"}
    PROVE  CentsToDollars(OnWire(x, shape)) = x
  <1>1. x # NoEntry /\ x # NoEntry /\ 100 * x # NoEntry /\ 100 * x >= 100 /\ (100 * x) \div 100 = x
    BY QuoteAssumption DEF QuoteAssumption
  <1> QED BY <1>1 DEF CentsToDollars, OnWire

\* Of two different indices one comes first, and the order has no circles.
LEMMA PrecedesOrders ==
    ASSUME NEW I \in SUBSET Int, NEW rank, \A i \in I : rank[i] \in Int, NEW i \in I, NEW j \in I, NEW k \in I
    PROVE  /\ ~Precedes(rank, i, i) /\ (i # j => Precedes(rank, i, j) \/ Precedes(rank, j, i))
           /\ Precedes(rank, i, j) /\ Precedes(rank, j, k) => Precedes(rank, i, k)
           /\ Precedes(rank, i, j) => rank[i] <= rank[j]
  <1>1. PICK a, b, c, x, y, z \in Int : a = rank[i] /\ b = rank[j] /\ c = rank[k] /\ x = i /\ y = j /\ z = k
    OBVIOUS
  <1> QED BY <1>1 DEF Precedes

\* The indices that come before one.
Ahead(I, rank, i) == {j \in I : Precedes(rank, j, i)}
LEMMA AheadCounts ==
    ASSUME NEW I \in SUBSET Int, IsFiniteSet(I), NEW rank, \A i \in I : rank[i] \in Int
    PROVE  /\ \A i \in I : Cardinality(Ahead(I, rank, i)) \in 0..(Cardinality(I) - 1)
           /\ \A i, j \in I : Precedes(rank, i, j) => Cardinality(Ahead(I, rank, i)) < Cardinality(Ahead(I, rank, j))
  <1>1. \A i \in I : IsFiniteSet(Ahead(I, rank, i)) /\ Cardinality(Ahead(I, rank, i)) \in Nat
    BY FS_Subset, FS_CardinalityType DEF Ahead
  <1>2. ASSUME NEW A, IsFiniteSet(A), NEW B, IsFiniteSet(B), NEW x, x \notin A, x \in B, A \subseteq B
        PROVE  Cardinality(A) < Cardinality(B)
    <2>1. Cardinality(A \cup {x}) = Cardinality(A) + 1
      BY <1>2, FS_AddElement
    <2>2. Cardinality(A \cup {x}) <= Cardinality(B)
      <3>1. A \cup {x} \in SUBSET B
        BY <1>2
      <3> QED BY <1>2, <3>1, FS_Subset
    <2>3. Cardinality(A) \in Nat /\ Cardinality(B) \in Nat
      BY <1>2, FS_CardinalityType
    <2> QED BY <2>1, <2>2, <2>3
  <1>3. ASSUME NEW i \in I PROVE Cardinality(Ahead(I, rank, i)) \in 0..(Cardinality(I) - 1)
    <2>1. Ahead(I, rank, i) \subseteq I /\ i \notin Ahead(I, rank, i)
      BY PrecedesOrders DEF Ahead
    <2>2. Cardinality(Ahead(I, rank, i)) < Cardinality(I)
      BY <1>1, <1>2, <2>1
    <2>3. Cardinality(Ahead(I, rank, i)) \in Nat /\ Cardinality(I) \in Nat
      BY <1>1, FS_CardinalityType
    <2> QED BY <2>2, <2>3
  <1>4. ASSUME NEW i \in I, NEW j \in I, Precedes(rank, i, j)
        PROVE  Cardinality(Ahead(I, rank, i)) < Cardinality(Ahead(I, rank, j))
    <2>1. i \notin Ahead(I, rank, i) /\ i \in Ahead(I, rank, j)
      BY <1>4, PrecedesOrders DEF Ahead
    <2>2. Ahead(I, rank, i) \subseteq Ahead(I, rank, j)
      BY <1>4, PrecedesOrders DEF Ahead
    <2> QED BY <1>1, <1>2, <2>1, <2>2
  <1> QED BY <1>3, <1>4

\* The index at a place of an arrangement.
IndexAt(I, rank, k) == CHOOSE i \in I : Cardinality({j \in I : Precedes(rank, j, i)}) = k - 1

\* Every index has one place, every place has an index, and the ranks never fall.
LEMMA Places ==
    ASSUME NEW I \in SUBSET Int, IsFiniteSet(I), NEW rank, \A i \in I : rank[i] \in Int
    PROVE  /\ Cardinality(I) \in Nat
           /\ \A k \in 1..Cardinality(I) : IndexAt(I, rank, k) \in I
           /\ \A i \in I : \E k \in 1..Cardinality(I) : IndexAt(I, rank, k) = i
           /\ \A k, m \in 1..Cardinality(I) : IndexAt(I, rank, k) = IndexAt(I, rank, m) => k = m
           /\ \A k, m \in 1..Cardinality(I) : k < m => rank[IndexAt(I, rank, k)] <= rank[IndexAt(I, rank, m)]
  <1> DEFINE place(i) == Cardinality(Ahead(I, rank, i))
             f == [i \in I |-> place(i)]
  <1>0. PICK n \in Nat : n = Cardinality(I)
    BY FS_CardinalityType
  <1>1. /\ \A i \in I : place(i) \in 0..(n - 1)
        /\ \A i, j \in I : Precedes(rank, i, j) => place(i) < place(j)
    BY <1>0, AheadCounts
  <1>2. \A i, j \in I : place(i) = place(j) => i = j
    <2> SUFFICES ASSUME NEW i \in I, NEW j \in I, place(i) = place(j), i # j PROVE FALSE
      OBVIOUS
    <2>1. Precedes(rank, i, j) \/ Precedes(rank, j, i)
      BY PrecedesOrders
    <2>2. PICK a, b \in 0..(n - 1) : a = place(i) /\ b = place(j)
      BY <1>1
    <2>3. a < b \/ b < a
      BY <1>1, <2>1, <2>2
    <2> QED BY <2>2, <2>3
  <1>3. f \in Surjection(I, 0..(n - 1))
    <2>1. f \in Injection(I, 0..(n - 1))
      <3> HIDE DEF place
      <3> QED BY <1>1, <1>2 DEF Injection, IsInjective
    <2>2. IsFiniteSet(0..(n - 1)) /\ Cardinality(0..(n - 1)) = n
      <3>1. IsFiniteSet(0..(n - 1)) /\ Cardinality(0..(n - 1)) = IF 0 > n - 1 THEN 0 ELSE (n - 1) - 0 + 1
        BY FS_Interval
      <3> QED BY <3>1
    <2> HIDE DEF f
    <2> QED BY <1>0, <2>1, <2>2, FS_Injection
  <1>4. ASSUME NEW k \in 1..n PROVE IndexAt(I, rank, k) \in I /\ place(IndexAt(I, rank, k)) = k - 1
    <2>1. k - 1 \in 0..(n - 1)
      OBVIOUS
    <2>2. PICK i \in I : place(i) = k - 1
      <3> HIDE DEF place
      <3> QED BY <1>3, <2>1 DEF Surjection
    <2> QED BY <2>2 DEF IndexAt, Ahead
  <1>5. ASSUME NEW i \in I PROVE \E k \in 1..n : IndexAt(I, rank, k) = i
    <2>1. PICK a \in 0..(n - 1) : a = place(i)
      BY <1>1
    <2>2. a + 1 \in 1..n /\ (a + 1) - 1 = a
      OBVIOUS
    <2>3. IndexAt(I, rank, a + 1) \in I /\ place(IndexAt(I, rank, a + 1)) = a
      BY <1>4, <2>2
    <2> HIDE DEF place
    <2> QED BY <1>2, <2>1, <2>2, <2>3
  <1>6. ASSUME NEW k \in 1..n, NEW m \in 1..n, k < m PROVE rank[IndexAt(I, rank, k)] <= rank[IndexAt(I, rank, m)]
    <2>1. PICK i, j \in I : i = IndexAt(I, rank, k) /\ j = IndexAt(I, rank, m) /\ place(i) = k - 1 /\ place(j) = m - 1
      BY <1>4
    <2>2. i # j /\ ~Precedes(rank, j, i)
      <3>1. place(i) < place(j)
        BY <1>6, <2>1
      <3>2. PICK a, b \in 0..(n - 1) : a = place(i) /\ b = place(j)
        BY <1>1
      <3>3. a < b
        BY <3>1, <3>2
      <3>4. Precedes(rank, j, i) => b < a
        BY <1>1, <3>2
      <3> HIDE DEF place
      <3> QED BY <3>2, <3>3, <3>4
    <2> QED BY <2>1, <2>2, PrecedesOrders
  <1>7. ASSUME NEW k \in 1..n, NEW m \in 1..n, IndexAt(I, rank, k) = IndexAt(I, rank, m) PROVE k = m
    <2>1. place(IndexAt(I, rank, k)) = k - 1 /\ place(IndexAt(I, rank, m)) = m - 1
      BY <1>4
    <2> HIDE DEF place
    <2> QED BY <1>7, <2>1
  <1> QED BY <1>0, <1>4, <1>5, <1>6, <1>7

\* A list n that holds elements of s at indices of I, by non-decreasing rank.
Ranked(n, s, I, rank) ==
    \A k, m \in DOMAIN n : k < m => \E i, j \in I : n[k] = s[i] /\ n[m] = s[j] /\ rank[i] <= rank[j]

\* What is arranged is what the indices name, in the order of the ranks.
LEMMA ArrangedHas ==
    ASSUME NEW S, NEW s \in Seq(S), NEW I \in SUBSET DOMAIN s, NEW rank \in [I -> Int]
    PROVE  /\ Arranged(s, I, rank) \in Seq(S) /\ Range(Arranged(s, I, rank)) = {s[i] : i \in I}
           /\ Ranked(Arranged(s, I, rank), s, I, rank)
  <1> DEFINE n == Cardinality(I)
             at(k) == IndexAt(I, rank, k)
  <1>1. DOMAIN s = 1..Len(s) /\ Len(s) \in Nat /\ \A i \in DOMAIN s : s[i] \in S
    OBVIOUS
  <1>2. I \in SUBSET Int /\ IsFiniteSet(I)
    <2>1. IsFiniteSet(1..Len(s))
      BY <1>1, FS_Interval
    <2> QED BY <1>1, <2>1, FS_Subset
  <1>3. /\ n \in Nat
        /\ \A k \in 1..n : at(k) \in I
        /\ \A i \in I : \E k \in 1..n : at(k) = i
        /\ \A k, m \in 1..n : k < m => rank[at(k)] <= rank[at(m)]
    BY <1>2, Places
  <1>4. Arranged(s, I, rank) = [k \in 1..n |-> s[at(k)]]
    BY DEF Arranged, IndexAt
  <1> HIDE DEF n, at
  <1>5. PICK a : a = [k \in 1..n |-> s[at(k)]]
    OBVIOUS
  <1>6. a \in Seq(S)
    BY <1>1, <1>3, <1>5
  <1>7. Range(a) = {s[i] : i \in I}
    BY <1>3, <1>5 DEF Range
  <1>8. DOMAIN a = 1..n /\ \A k \in 1..n : a[k] = s[at(k)]
    BY <1>5
  <1>9. ASSUME NEW k \in DOMAIN a, NEW m \in DOMAIN a, k < m
        PROVE  \E i, j \in I : a[k] = s[i] /\ a[m] = s[j] /\ rank[i] <= rank[j]
    <2>1. at(k) \in I /\ at(m) \in I /\ rank[at(k)] <= rank[at(m)] /\ a[k] = s[at(k)] /\ a[m] = s[at(m)]
      BY <1>3, <1>8, <1>9
    <2> QED BY <2>1
  <1>10. Ranked(a, s, I, rank)
    BY <1>9 DEF Ranked
  <1> QED BY <1>4, <1>5, <1>6, <1>7, <1>10

\* An arrangement names the places of its elements: every index once, by non-decreasing rank.
Arranges(at, t, s, I, rank) ==
    /\ at \in [1..Cardinality(I) -> I] /\ Cardinality(I) \in Nat
    /\ \A i \in I : \E k \in 1..Cardinality(I) : at[k] = i
    /\ \A k, m \in 1..Cardinality(I) : at[k] = at[m] => k = m
    /\ \A k, m \in 1..Cardinality(I) : k < m => rank[at[k]] <= rank[at[m]]
    /\ t = [k \in 1..Cardinality(I) |-> s[at[k]]]
LEMMA ArrangedBy ==
    ASSUME NEW S, NEW s \in Seq(S), NEW I \in SUBSET DOMAIN s, NEW rank \in [I -> Int]
    PROVE  IsFiniteSet(I) /\ \E at : Arranges(at, Arranged(s, I, rank), s, I, rank)
  <1> DEFINE n == Cardinality(I)
             at == [k \in 1..n |-> IndexAt(I, rank, k)]
  <1>1. I \in SUBSET Int /\ IsFiniteSet(I)
    <2>1. DOMAIN s = 1..Len(s) /\ Len(s) \in Nat
      OBVIOUS
    <2>2. IsFiniteSet(1..Len(s))
      BY <2>1, FS_Interval
    <2> QED BY <2>1, <2>2, FS_Subset
  <1>2. /\ n \in Nat
        /\ \A k \in 1..n : IndexAt(I, rank, k) \in I
        /\ \A i \in I : \E k \in 1..n : IndexAt(I, rank, k) = i
        /\ \A k, m \in 1..n : IndexAt(I, rank, k) = IndexAt(I, rank, m) => k = m
        /\ \A k, m \in 1..n : k < m => rank[IndexAt(I, rank, k)] <= rank[IndexAt(I, rank, m)]
    BY <1>1, Places
  <1>3. Arranged(s, I, rank) = [k \in 1..n |-> s[at[k]]]
    BY DEF Arranged, IndexAt
  <1>4. at \in [1..n -> I] /\ \A k \in 1..n : at[k] = IndexAt(I, rank, k)
    BY <1>2
  <1> HIDE DEF at
  <1>5. Arranges(at, Arranged(s, I, rank), s, I, rank)
    BY <1>2, <1>3, <1>4 DEF Arranges
  <1> QED BY <1>1, <1>5

\* Numbers of the elements of an arrangement add up to the numbers of the indices.
LEMMA SumArranged ==
    ASSUME NEW s, NEW t, NEW I, IsFiniteSet(I), NEW rank, NEW at, Arranges(at, t, s, I, rank), NEW f, NEW g,
           \A i \in I : f[i] \in Int, \A k \in 1..Cardinality(I) : g[k] = f[at[k]]
    PROVE  SumFunctionOnSet(g, 1..Cardinality(I)) = SumFunctionOnSet(f, I)
  <1> DEFINE n == Cardinality(I)
  <1>1. n \in Nat /\ at \in [1..n -> I] /\ Moved(at, 1..n) = I /\ \A k, m \in 1..n : at[k] = at[m] => k = m
    BY DEF Arranges, Moved
  <1>2. IsFiniteSet(1..n)
    BY <1>1, FS_Interval
  <1>3. \A k \in 1..n : f[at[k]] \in Int /\ g[k] = f[at[k]]
    BY <1>1
  <1> HIDE DEF n
  <1>4. SumFunctionOnSet(g, 1..n) = SumFunctionOnSet(f, Moved(at, 1..n))
    BY <1>1, <1>2, <1>3, SumMoved
  <1> QED BY <1>1, <1>4 DEF n

\* What is kept of a list are the elements at the indices.
LEMMA OnlyHas ==
    ASSUME NEW S, NEW s \in Seq(S), NEW I \in SUBSET DOMAIN s
    PROVE  Only(s, I) \in Seq(S) /\ Range(Only(s, I)) = {s[i] : i \in I}
  <1>1. PICK rank : rank = [j \in I |-> 0]
    OBVIOUS
  <1>2. rank \in [I -> Int]
    BY <1>1
  <1>3. Arranged(s, I, rank) \in Seq(S) /\ Range(Arranged(s, I, rank)) = {s[i] : i \in I}
    BY <1>2, ArrangedHas
  <1> QED BY <1>1, <1>3 DEF Only

\* A level as it may come over the wire.
WireLevel == [price : Int, size : Int]
\* A level in the units of a shape.
InShape(l, shape) == IF shape = "fp" THEN l ELSE [l EXCEPT !.price = 100 * @]

\* A level is its price and its size, and reads the same in either shape.
LEMMA ALevel ==
    ASSUME NEW l \in KalshiLevel, NEW shape \in {"fp", "legacy"}
    PROVE  /\ l = [price |-> l.price, size |-> l.size] /\ l.price \in 1..99 /\ l.size \in Nat
           /\ InShape(l, shape) = [price |-> IF shape = "fp" THEN l.price ELSE 100 * l.price, size |-> l.size]
           /\ InShape(l, shape) \in WireLevel /\ InShape(l, shape) # Unreadable
  <1>1. l = [price |-> l.price, size |-> l.size] /\ l.price \in 1..99 /\ l.size \in Nat
    BY DEF KalshiLevel
  <1>2. PICK p \in 1..99, z \in Nat : p = l.price /\ z = l.size
    BY <1>1
  <1>3. l = [price |-> p, size |-> z]
    BY <1>1, <1>2
  <1>4. PICK q \in Int : q = (IF shape = "fp" THEN p ELSE 100 * p) /\ q > 0
    OBVIOUS
  <1>5. InShape(l, shape) = [price |-> q, size |-> z]
    <2>1. CASE shape = "fp"
      BY <1>3, <1>4, <2>1 DEF InShape
    <2>2. CASE shape = "legacy"
      BY <1>3, <1>4, <2>2 DEF InShape
    <2> QED BY <2>1, <2>2
  <1>6. [price |-> q, size |-> z] \in WireLevel
    BY DEF WireLevel
  <1>7. [price |-> q, size |-> z] # Unreadable
    <2>1. [price |-> q, size |-> z].price = q /\ Unreadable.price = -1
      BY DEF Unreadable
    <2> QED BY <1>4, <2>1
  <1> QED BY <1>1, <1>2, <1>4, <1>5, <1>6, <1>7

\* Encoding changes the units and nothing else.
LEMMA EncodedHas ==
    ASSUME NEW levels \in Seq(KalshiLevel), NEW shape \in {"fp", "legacy"}
    PROVE  /\ Encoded(levels, shape) \in Seq(WireLevel)
           /\ Range(Encoded(levels, shape)) = {InShape(l, shape) : l \in Range(levels)}
           /\ Unreadable \notin Range(Encoded(levels, shape))
  <1>1. DOMAIN levels = 1..Len(levels) /\ Len(levels) \in Nat /\ \A i \in DOMAIN levels : levels[i] \in KalshiLevel
    OBVIOUS
  <1>2. \A l \in KalshiLevel : InShape(l, shape) \in WireLevel /\ InShape(l, shape) # Unreadable
    BY ALevel
  <1>3. Encoded(levels, shape) = [i \in 1..Len(levels) |-> InShape(levels[i], shape)]
    <2>1. CASE shape = "fp"
      BY <1>1, <2>1 DEF Encoded, InShape
    <2>2. CASE shape = "legacy"
      BY <1>1, <2>2 DEF Encoded, InShape
    <2> QED BY <2>1, <2>2
  <1> HIDE DEF InShape
  <1>4. PICK e : e = [i \in 1..Len(levels) |-> InShape(levels[i], shape)]
    OBVIOUS
  <1>5. e \in Seq(WireLevel)
    BY <1>1, <1>2, <1>4
  <1>6. Range(e) = {InShape(l, shape) : l \in Range(levels)}
    BY <1>1, <1>4 DEF Range
  <1>7. Unreadable \notin Range(e)
    BY <1>1, <1>2, <1>4 DEF Range
  <1> QED BY <1>3, <1>4, <1>5, <1>6, <1>7

\* Normalising takes the units off again, and drops what is no level.
LEMMA NormalizedHas ==
    ASSUME NEW levels \in Seq(KalshiLevel), NEW shape \in {"fp", "legacy"}, NEW e \in Seq(WireLevel),
           Range(e) \ {Unreadable} = {InShape(l, shape) : l \in Range(levels)}
    PROVE  /\ NormalizeKalshiLevels(e, shape = "fp") \in Seq(KalshiLevel)
           /\ Range(NormalizeKalshiLevels(e, shape = "fp")) = Range(levels)
  <1> DEFINE I == {i \in DOMAIN e : e[i] # Unreadable}
             good == Only(e, I)
             Read(l) == IF shape = "fp" THEN l ELSE [l EXCEPT !.price = CentsToDollars(@)]
  <1>1. good \in Seq(WireLevel) /\ Range(good) = {e[i] : i \in I}
    BY OnlyHas
  <1>2. Range(good) = {InShape(l, shape) : l \in Range(levels)}
    <2>1. {e[i] : i \in I} = Range(e) \ {Unreadable}
      BY DEF Range
    <2> QED BY <1>1, <2>1
  <1>3. \A l \in Range(levels) : l \in KalshiLevel
    <2>1. \A i \in DOMAIN levels : levels[i] \in KalshiLevel
      OBVIOUS
    <2> QED BY <2>1 DEF Range
  <1>4. ASSUME NEW l \in KalshiLevel PROVE Read(InShape(l, shape)) = l
    <2>1. CASE shape = "fp"
      BY <2>1 DEF InShape
    <2>2. CASE shape = "legacy"
      <3>1. PICK p \in 1..99, z \in Nat : p = l.price /\ z = l.size /\ l = [price |-> p, size |-> z]
        <4>1. l = [price |-> l.price, size |-> l.size] /\ l.price \in 1..99 /\ l.size \in Nat
          BY ALevel, Zenon
        <4> QED BY ONLY <4>1, Zenon
      <3>2. CentsToDollars(100 * p) = p
        <4>1. CentsToDollars(OnWire(p, "legacy")) = p
          BY CentsAreRead
        <4>2. p # NoEntry
          BY QuoteAssumption DEF QuoteAssumption
        <4> QED BY <4>1, <4>2 DEF OnWire
      <3>3. InShape(l, shape) = [price |-> 100 * p, size |-> z]
        BY <2>2, <3>1, ALevel
      <3> QED BY <2>2, <3>1, <3>2, <3>3
    <2> QED BY <2>1, <2>2
  <1>5. PICK n : n = NormalizeKalshiLevels(e, shape = "fp")
    OBVIOUS
  <1>6. n = [i \in DOMAIN good |-> Read(good[i])]
    <2> HIDE DEF I
    <2>1. CASE shape = "fp"
      <3>1. n = good
        BY <1>5, <2>1 DEF NormalizeKalshiLevels, I
      <3> HIDE DEF good
      <3> QED BY <1>1, <2>1, <3>1
    <2>2. CASE shape = "legacy"
      BY <1>5, <2>2 DEF NormalizeKalshiLevels, I
    <2> QED BY <2>1, <2>2
  <1> HIDE DEF good, Read
  <1>7. DOMAIN good = 1..Len(good) /\ Len(good) \in Nat
    BY <1>1
  <1> HIDE DEF InShape, NormalizeKalshiLevels, I
  <1>8. ASSUME NEW i \in DOMAIN good PROVE n[i] \in Range(levels)
    <2>1. good[i] \in Range(good)
      BY DEF Range
    <2>2. PICK l \in Range(levels) : good[i] = InShape(l, shape)
      BY <1>2, <2>1
    <2>3. n[i] = l
      BY <1>3, <1>4, <1>6, <2>2
    <2> QED BY <2>3
  <1>9. ASSUME NEW l \in Range(levels) PROVE \E i \in DOMAIN good : n[i] = l
    <2>1. InShape(l, shape) \in Range(good)
      BY <1>2
    <2>2. PICK i \in DOMAIN good : good[i] = InShape(l, shape)
      BY <2>1 DEF Range
    <2>3. n[i] = l
      BY <1>3, <1>4, <1>6, <2>2
    <2> QED BY <2>3
  <1>10. Range(n) = Range(levels)
    <2>1. DOMAIN n = DOMAIN good
      BY <1>6
    <2>2. Range(n) = {n[i] : i \in DOMAIN good}
      BY <2>1 DEF Range
    <2>3. \A i \in DOMAIN good : n[i] \in Range(levels)
      BY <1>8
    <2>4. \A l \in Range(levels) : \E i \in DOMAIN good : n[i] = l
      BY <1>9
    <2> HIDE DEF good
    <2> QED BY <2>2, <2>3, <2>4
  <1>11. n \in Seq(KalshiLevel)
    BY <1>3, <1>6, <1>7, <1>8
  <1> QED BY <1>5, <1>10, <1>11

\* A level seen from the other outcome.
LEMMA AcrossTheBook ==
    ASSUME NEW l \in KalshiLevel
    PROVE  l.price > 0 /\ [l EXCEPT !.price = 100 - @] = [price |-> 100 - l.price, size |-> l.size]
  <1>1. PICK p \in 1..99 : p = l.price
    BY ALevel
  <1>2. PICK z \in Nat : z = l.size
    BY ALevel
  <1>3. l = [price |-> p, size |-> z]
    BY <1>1, <1>2, ALevel
  <1>4. [[price |-> p, size |-> z] EXCEPT !.price = 100 - @] = [price |-> 100 - p, size |-> z]
    OBVIOUS
  <1>5. p > 0
    OBVIOUS
  <1>6. l.price = p
    BY <1>1
  <1> QED BY <1>1, <1>2, <1>3, <1>4, <1>5, <1>6

\* The complement of a side flips its prices.
LEMMA ComplementsFlip ==
    ASSUME NEW s \in Seq(KalshiLevel), NEW t, Range(s) = Range(t)
    PROVE  Priced(Complements(s)) = Flipped(t)
  <1> DEFINE I == {i \in DOMAIN s : s[i].price > 0}
             positive == Only(s, I)
  <1>1. DOMAIN s = 1..Len(s) /\ \A i \in DOMAIN s : s[i] \in KalshiLevel
    OBVIOUS
  <1>2. \A l \in KalshiLevel : l.price > 0 /\ [l EXCEPT !.price = 100 - @] = [price |-> 100 - l.price, size |-> l.size]
    BY AcrossTheBook
  <1>3. I = DOMAIN s
    BY <1>1, <1>2
  <1>4. Range(positive) = {s[i] : i \in DOMAIN s} /\ positive \in Seq(KalshiLevel)
    BY <1>3, OnlyHas
  <1>5. Range(positive) = Range(t)
    BY <1>4 DEF Range
  <1>6. Complements(s) = [i \in DOMAIN positive |-> [positive[i] EXCEPT !.price = 100 - @]]
    BY DEF Complements
  <1> HIDE DEF positive
  <1>7. \A i \in DOMAIN positive : positive[i] \in KalshiLevel
    BY <1>4
  <1>8. PICK c : c = [i \in DOMAIN positive |-> [price |-> 100 - positive[i].price, size |-> positive[i].size]]
    OBVIOUS
  <1>9. Complements(s) = c
    BY <1>2, <1>6, <1>7, <1>8
  <1>10. Range(c) = {[price |-> 100 - l.price, size |-> l.size] : l \in Range(positive)}
    BY <1>8 DEF Range
  <1>11. Priced(c) = {<<100 - l.price, l.size>> : l \in Range(positive)}
    <2>1. Priced(c) = {<<l.price, l.size>> : l \in {[price |-> 100 - m.price, size |-> m.size] : m \in Range(positive)}}
      BY <1>10 DEF Priced
    <2>2. \A m : [price |-> 100 - m.price, size |-> m.size].price = 100 - m.price /\ [price |-> 100 - m.price, size |-> m.size].size = m.size
      OBVIOUS
    <2>3. {<<l.price, l.size>> : l \in {[price |-> 100 - m.price, size |-> m.size] : m \in Range(positive)}}
            = {<<[price |-> 100 - m.price, size |-> m.size].price, [price |-> 100 - m.price, size |-> m.size].size>> : m \in Range(positive)}
      OBVIOUS
    <2> QED BY <2>1, <2>2, <2>3
  <1> QED BY <1>5, <1>9, <1>11 DEF Flipped

\* What may be mixed into an answer is a level by its shape and none by its price.
LEMMA JunkOnTheWire ==
    /\ Unreadable \in WireLevel /\ ~IsValidProbability(Unreadable.price)
    /\ Improbable \in WireLevel /\ ~IsValidProbability(Improbable.price)
  <1>1. PICK a \in Int, b \in Int : a = -1 /\ b = 150
    OBVIOUS
  <1>2. Unreadable = [price |-> a, size |-> a]
    BY <1>1 DEF Unreadable
  <1>3. Improbable = [price |-> b, size |-> 1]
    BY <1>1 DEF Improbable
  <1> QED BY <1>1, <1>2, <1>3 DEF WireLevel, IsValidProbability

\* So a Kalshi answer in either shape is read as the venue's book.
LEMMA KalshiAnswerIsRead ==
    ASSUME NEW real, real.yes \in Seq(KalshiLevel), real.no \in Seq(KalshiLevel), NEW shape \in {"fp", "legacy"},
           NEW junk \in {<<>>, <<Unreadable>>}
    PROVE  SameKalshiBook(ParseOrderbookPayload(
               [shape |-> shape, sides |-> [yes |-> Encoded(real.yes, shape) \o junk, no |-> Encoded(real.no, shape)]]), real)
  <1>1. PICK y, n \in Seq(KalshiLevel) : y = real.yes /\ n = real.no
    OBVIOUS
  <1>2. PICK d, e : d = Encoded(y, shape) /\ e = Encoded(n, shape)
    OBVIOUS
  <1>3. /\ d \in Seq(WireLevel) /\ Range(d) = {InShape(l, shape) : l \in Range(y)} /\ Unreadable \notin Range(d)
        /\ e \in Seq(WireLevel) /\ Range(e) = {InShape(l, shape) : l \in Range(n)} /\ Unreadable \notin Range(e)
    BY <1>2, EncodedHas
  <1>4. d \o junk \in Seq(WireLevel) /\ Range(d \o junk) \ {Unreadable} = Range(d)
    <2>1. junk \in Seq(WireLevel) /\ Range(junk) \subseteq {Unreadable}
      <3>1. Unreadable \in WireLevel
        BY JunkOnTheWire
      <3>2. CASE junk = <<>>
        <4>1. junk \in Seq(WireLevel) /\ Len(junk) = 0
          BY <3>2, EmptySeq
        <4>2. DOMAIN junk = 1..Len(junk)
          BY <4>1, LenProperties
        <4>3. \A i : i \notin DOMAIN junk
          BY <4>1, <4>2
        <4> QED BY <4>1, <4>3 DEF Range
      <3>3. CASE junk = <<Unreadable>>
        <4>1. DOMAIN junk = {1} /\ junk[1] = Unreadable /\ junk \in Seq(WireLevel)
          BY <3>1, <3>3
        <4> QED BY <4>1 DEF Range
      <3> QED BY <3>2, <3>3
    <2>2. d \o junk \in Seq(WireLevel)
      BY <1>3, <2>1
    <2>3. Range(d \o junk) = Range(d) \cup Range(junk)
      BY <1>3, <2>1, RangeConcatenation
    <2> QED BY <1>3, <2>1, <2>2, <2>3
  <1>5. PICK b : b = ParseOrderbookPayload([shape |-> shape, sides |-> [yes |-> d \o junk, no |-> e]])
    OBVIOUS
  <1>6. PICK Y, N : Y = NormalizeKalshiLevels(d \o junk, shape = "fp") /\ N = NormalizeKalshiLevels(e, shape = "fp")
    OBVIOUS
  <1>7. b = [yes_bids |-> Y, no_bids |-> N, yes_asks |-> Complements(N), no_asks |-> Complements(Y)]
    BY <1>5, <1>6 DEF ParseOrderbookPayload
  <1>8. Y \in Seq(KalshiLevel) /\ Range(Y) = Range(y) /\ N \in Seq(KalshiLevel) /\ Range(N) = Range(n)
    <2>1. Range(d \o junk) \ {Unreadable} = {InShape(l, shape) : l \in Range(y)} /\ Range(e) \ {Unreadable} = {InShape(l, shape) : l \in Range(n)}
      BY <1>3, <1>4
    <2>2. Y \in Seq(KalshiLevel) /\ Range(Y) = Range(y)
      BY <1>4, <1>6, <2>1, NormalizedHas
    <2>3. N \in Seq(KalshiLevel) /\ Range(N) = Range(n)
      <3>1. e \in Seq(WireLevel)
        BY <1>3
      <3> HIDE DEF NormalizeKalshiLevels, InShape, Range
      <3> QED BY <1>6, <2>1, <3>1, NormalizedHas
    <2> QED BY <2>2, <2>3
  <1>9. Priced(Y) = Priced(y) /\ Priced(N) = Priced(n)
    BY <1>8 DEF Priced
  <1>10. Priced(Complements(N)) = Flipped(n) /\ Priced(Complements(Y)) = Flipped(y)
    BY <1>8, ComplementsFlip
  <1> QED BY <1>1, <1>2, <1>5, <1>7, <1>9, <1>10 DEF SameKalshiBook

\* Appending adds one element at the end.
LEMMA AppendHas ==
    ASSUME NEW S, NEW s \in Seq(S), NEW x \in S, NEW t, t = Append(s, x)
    PROVE  /\ t \in Seq(S) /\ DOMAIN t = 1..(Len(s) + 1) /\ t[Len(s) + 1] = x
           /\ \A i \in 1..Len(s) : t[i] = s[i]
  <1>1. Append(s, x) \in Seq(S) /\ Len(Append(s, x)) = Len(s) + 1
    BY AppendProperties
  <1>2. Append(s, x)[Len(s) + 1] = x
    BY AppendProperties
  <1>3. \A i \in 1..Len(s) : Append(s, x)[i] = s[i]
    BY AppendProperties
  <1>4. DOMAIN t = 1..Len(t)
    BY <1>1
  <1> QED BY <1>1, <1>2, <1>3, <1>4

\* A Polymarket side comes out whole and in order, whatever was mixed into it.
LEMMA PmSideIsRead ==
    ASSUME NEW real \in Seq(PmLevel), NEW levels \in Junk(real), NEW side
    PROVE  LET n == NormalizePolymarketLevels(levels, side) IN
           Priced(n) = Priced(real) /\ (IF side = "bids" THEN Falling(n) ELSE Falling(Reverse(n)))
  <1> DEFINE I == {i \in DOMAIN levels : IsValidProbability(levels[i].price) /\ levels[i].size > 0}
  <1>1. DOMAIN real = 1..Len(real) /\ Len(real) \in Nat /\ \A i \in DOMAIN real : real[i] \in PmLevel
    OBVIOUS
  <1>2. \A l \in PmLevel : l \in WireLevel /\ IsValidProbability(l.price) /\ l.size > 0
    <2> SUFFICES ASSUME NEW l \in PmLevel PROVE l \in WireLevel /\ IsValidProbability(l.price) /\ l.size > 0
      OBVIOUS
    <2>1. l = [price |-> l.price, size |-> l.size] /\ l.price \in 0..100 /\ l.size \in Nat \ {0}
      BY DEF PmLevel
    <2>2. PICK p \in 0..100, z \in Nat \ {0} : p = l.price /\ z = l.size
      BY <2>1
    <2>3. l \in WireLevel
      BY <2>1, <2>2 DEF WireLevel
    <2>4. IsValidProbability(p)
      BY QuoteAssumption DEF IsValidProbability, QuoteAssumption
    <2> QED BY <2>2, <2>3, <2>4
  <1>3. /\ Unreadable \in WireLevel /\ ~IsValidProbability(Unreadable.price)
        /\ Improbable \in WireLevel /\ ~IsValidProbability(Improbable.price)
    BY JunkOnTheWire
  <1>4. real \in Seq(WireLevel)
    BY <1>1, <1>2
  <1>5. levels \in Seq(WireLevel) /\ {levels[i] : i \in I} = Range(real)
    <2>1. CASE levels = real
      <3>1. I = DOMAIN real
        BY <1>1, <1>2, <2>1
      <3> QED BY <1>4, <2>1, <3>1 DEF Range
    <2>2. ASSUME NEW x \in {Unreadable, Improbable}, levels = Append(real, x) PROVE levels \in Seq(WireLevel) /\ {levels[i] : i \in I} = Range(real)
      <3>1. x \in WireLevel /\ ~IsValidProbability(x.price)
        BY <1>3
      <3>2. /\ levels \in Seq(WireLevel) /\ DOMAIN levels = 1..(Len(real) + 1) /\ levels[Len(real) + 1] = x
            /\ \A i \in 1..Len(real) : levels[i] = real[i]
        BY <1>4, <2>2, <3>1, AppendHas, SMTT(60)
      <3>3. I = 1..Len(real)
        BY <1>1, <1>2, <3>1, <3>2
      <3> HIDE DEF I
      <3> QED BY <1>1, <3>2, <3>3 DEF Range
    <2> QED BY <2>1, <2>2 DEF Junk
  <1>6. \A i \in DOMAIN levels : levels[i] \in WireLevel
    BY <1>5
  <1>7. PICK rank : rank = [i \in I |-> IF side = "bids" THEN -levels[i].price ELSE levels[i].price]
    OBVIOUS
  <1>8. \A i \in I : rank[i] \in Int
    BY <1>6, <1>7 DEF WireLevel
  <1>9. PICK n : n = NormalizePolymarketLevels(levels, side)
    OBVIOUS
  <1>10. n = Arranged(levels, I, rank)
    BY <1>7, <1>9 DEF NormalizePolymarketLevels
  <1>11. /\ n \in Seq(WireLevel) /\ Range(n) = {levels[i] : i \in I}
         /\ Ranked(n, levels, I, rank)
    <2>1. I \in SUBSET DOMAIN levels
      OBVIOUS
    <2> HIDE DEF I
    <2>2. levels \in Seq(WireLevel) /\ rank \in [I -> Int]
      BY <1>5, <1>7, <1>8
    <2> QED BY <1>10, <2>1, <2>2, ArrangedHas
  <1>12. Priced(n) = Priced(real)
    BY <1>5, <1>11 DEF Priced
  <1>13. ASSUME NEW k \in DOMAIN n, NEW m \in DOMAIN n, k < m
         PROVE  IF side = "bids" THEN n[k].price >= n[m].price ELSE n[m].price >= n[k].price
    <2>1. PICK i, j \in I : n[k] = levels[i] /\ n[m] = levels[j] /\ rank[i] <= rank[j]
      BY <1>11, <1>13 DEF Ranked
    <2>2. PICK p, q \in Int : p = levels[i].price /\ q = levels[j].price
      BY <1>6 DEF WireLevel
    <2>3. rank[i] = (IF side = "bids" THEN -p ELSE p) /\ rank[j] = (IF side = "bids" THEN -q ELSE q)
      BY <1>7, <2>2
    <2> QED BY <2>1, <2>2, <2>3
  <1>14. IF side = "bids" THEN Falling(n) ELSE Falling(Reverse(n))
    <2>1. CASE side = "bids"
      BY <1>13, <2>1 DEF Falling
    <2>2. CASE side # "bids"
      <3>1. Len(n) \in Nat /\ DOMAIN n = 1..Len(n)
        BY <1>11
      <3>2. PICK r : r = Reverse(n)
        OBVIOUS
      <3>3. DOMAIN r = 1..Len(n) /\ \A i \in 1..Len(n) : r[i] = n[(Len(n) - i) + 1]
        BY <3>2 DEF Reverse
      <3>4. ASSUME NEW i \in DOMAIN r, NEW j \in DOMAIN r, i < j PROVE r[i].price >= r[j].price
        <4>1. PICK k, m \in DOMAIN n : k = (Len(n) - j) + 1 /\ m = (Len(n) - i) + 1
          BY <3>1, <3>3
        <4>2. k < m /\ r[i] = n[m] /\ r[j] = n[k]
          BY <3>1, <3>3, <3>4, <4>1
        <4> QED BY <1>13, <2>2, <4>2
      <3> QED BY <2>2, <3>2, <3>4 DEF Falling
    <2> QED BY <2>1, <2>2
  <1> QED BY <1>9, <1>12, <1>14

\* A Polymarket book is read as the venue's.
LEMMA PmBookIsRead ==
    ASSUME NEW real, real.bids \in Seq(PmLevel), real.asks \in Seq(PmLevel),
           NEW buys \in Junk(real.bids), NEW sells \in Junk(real.asks)
    PROVE  SamePmBook([bids |-> NormalizePolymarketLevels(buys, "bids"), asks |-> NormalizePolymarketLevels(sells, "asks")], real)
  <1>1. PICK b, a : b = NormalizePolymarketLevels(buys, "bids") /\ a = NormalizePolymarketLevels(sells, "asks")
    OBVIOUS
  <1>2. Priced(b) = Priced(real.bids) /\ Falling(b)
    BY <1>1, PmSideIsRead
  <1>3. Priced(a) = Priced(real.asks) /\ Falling(Reverse(a))
    BY <1>1, PmSideIsRead
  <1> QED BY <1>1, <1>2, <1>3 DEF SamePmBook

\* The entry under a key is the key's own, and whole, as long as it is fresh.
Own(k, of) ==
    \A t \in ClientTokens(client) : k = t \/ (client = "polymarket" /\ k = PmOutcome[t]) => of = t
EntryOk(k, e) ==
    /\ e = [of |-> e.of, book |-> e.book, is |-> e.is, says |-> e.says]
    /\ e.is \in Int /\ e.says \in Int
    /\ e.says <= BookMaxAge => e.is <= e.says + Delay /\ Own(k, e.of) /\ Whole(e.book, truth[e.of])
FrameOk(f) ==
    /\ f = [type |-> f.type, of |-> f.of, named |-> f.named, shape |-> f.shape, age |-> f.age]
    /\ f.of \in ClientTokens(client) /\ f.shape \in {"fp", "legacy"} /\ f.age \in 0..Delay
    /\ client = "kalshi" => f.named = {"asset"}

RequestsOk ==
    /\ requests = [r \in DOMAIN requests |-> requests[r]]
    /\ \A r \in DOMAIN requests : requests[r] # NoEntry => requests[r] \in [of : ClientTokens(client), is : -1..Delay]
HeldOk == held = [k \in Keys |-> held[k]] /\ \A k \in Keys : held[k] # NoEntry => EntryOk(k, held[k])
QuotesOk == quotes = [k \in Keys |-> quotes[k]] /\ \A t \in ClientTokens(client) : PriceIsTheVenues(t)

QuoteInv ==
    /\ client \in {"kalshi", "polymarket"} /\ truth \in [ClientTokens(client) -> VenueBooks[client]]
    /\ wire # NoEntry => FrameOk(wire)
    /\ RequestsOk /\ HeldOk /\ QuotesOk

\* The client's tokens and its outcomes are keys.
LEMMA KeysOfClient ==
    ASSUME client \in {"kalshi", "polymarket"}
    PROVE  /\ ClientTokens(client) \subseteq Keys
           /\ \A t \in PmTokens : t \in Keys /\ PmOutcome[t] \in Keys
           /\ "default" \in Keys
  BY DEF ClientTokens, Keys, PmKeys

\* At the start the caches are empty.
LEMMA QuoteInitInv == QuoteInit => QuoteInv
  <1> SUFFICES ASSUME QuoteInit PROVE QuoteInv
    OBVIOUS
  <1>1. client \in {"kalshi", "polymarket"} /\ truth \in [ClientTokens(client) -> VenueBooks[client]] /\ wire = NoEntry
    BY DEF QuoteInit
  <1>2. requests = [r \in DOMAIN requests |-> requests[r]] /\ \A r \in DOMAIN requests : requests[r] = NoEntry
    BY DEF QuoteInit
  <1>3. held = [k \in Keys |-> held[k]] /\ \A k \in Keys : held[k] = NoEntry
    BY DEF QuoteInit
  <1>4. quotes = [k \in Keys |-> quotes[k]] /\ \A k \in Keys : quotes[k] = NoEntry
    BY DEF QuoteInit
  <1>5. \A t \in ClientTokens(client) : PriceIsTheVenues(t)
    BY <1>1, <1>4, KeysOfClient DEF PriceIsTheVenues
  <1> QED BY <1>1, <1>2, <1>3, <1>4, <1>5 DEF QuoteInv, RequestsOk, HeldOk, QuotesOk

\* What the client is does not change, nor what the venue's books are.
SameWorld == client' = client /\ truth' = truth

\* Then the parts of the invariant are about the variables they name only.
LEMMA PartsStay ==
    ASSUME QuoteInv, SameWorld
    PROVE  /\ client' \in {"kalshi", "polymarket"} /\ truth' \in [ClientTokens(client)' -> VenueBooks[client']]
           /\ ClientTokens(client)' = ClientTokens(client)
           /\ wire' = wire => (wire' # NoEntry => FrameOk(wire)')
           /\ requests' = requests => RequestsOk'
           /\ held' = held => HeldOk'
           /\ quotes' = quotes => QuotesOk'
  <1>1. ClientTokens(client)' = ClientTokens(client)
    BY DEF SameWorld, ClientTokens
  <1>2. wire' = wire => (wire' # NoEntry => FrameOk(wire)')
    BY <1>1 DEF SameWorld, QuoteInv, FrameOk
  <1>3. requests' = requests => RequestsOk'
    BY <1>1 DEF QuoteInv, RequestsOk
  <1>4. held' = held => HeldOk'
    BY <1>1 DEF SameWorld, QuoteInv, HeldOk, EntryOk, Own, Whole
  <1>5. quotes' = quotes => QuotesOk'
    BY <1>1 DEF SameWorld, QuoteInv, QuotesOk, PriceIsTheVenues
  <1> QED BY <1>1, <1>2, <1>3, <1>4, <1>5 DEF SameWorld, QuoteInv

\* An entry that is in order may be put under a key.
LEMMA StoreKeeps ==
    ASSUME NEW h, NEW k \in Keys, NEW e, h = [j \in Keys |-> h[j]], \A j \in Keys : h[j] # NoEntry => EntryOk(j, h[j]),
           EntryOk(k, e)
    PROVE  LET g == [h EXCEPT ![k] = e] IN g = [j \in Keys |-> g[j]] /\ \A j \in Keys : g[j] # NoEntry => EntryOk(j, g[j])
  <1> DEFINE g == [h EXCEPT ![k] = e]
  <1>1. g = [j \in Keys |-> IF j = k THEN e ELSE h[j]]
    OBVIOUS
  <1>2. \A j \in Keys : g[j] = IF j = k THEN e ELSE h[j]
    BY <1>1
  <1>3. g = [j \in Keys |-> g[j]]
    BY <1>1
  <1> HIDE DEF g
  <1> QED BY <1>2, <1>3 DEF g

\* The names of a Polymarket market.
LEMMA Names ==
    ASSUME client = "polymarket", NEW t \in PmTokens
    PROVE  Own(t, t) /\ Own(PmOutcome[t], t) /\ \A of : Own("default", of)
  <1>1. ClientTokens(client) = PmTokens
    BY DEF ClientTokens
  <1>2. /\ \A u \in PmTokens : PmOutcome[u] \notin PmTokens /\ PmOutcome[u] # "default" /\ u # "default"
        /\ \A u \in PmTokens : PmOutcome[u] = PmOutcome[t] => u = t
    BY QuoteAssumption DEF QuoteAssumption
  <1> QED BY <1>1, <1>2 DEF Own

\* The venue's own books are lists of levels.
LEMMA BooksOfTheVenue ==
    ASSUME QuoteInv, NEW t \in ClientTokens(client)
    PROVE  IF client = "kalshi" THEN truth[t].yes \in Seq(KalshiLevel) /\ truth[t].no \in Seq(KalshiLevel)
           ELSE truth[t].bids \in Seq(PmLevel) /\ truth[t].asks \in Seq(PmLevel)
  <1>1. truth[t] \in VenueBooks[client] /\ client \in {"kalshi", "polymarket"}
    BY DEF QuoteInv
  <1> QED BY <1>1, QuoteAssumption DEF QuoteAssumption

\* A book frame leaves an entry under its token, or under its outcome, or both.
LEMMA PmBookKeeps ==
    ASSUME QuoteInv, client = "polymarket", FrameOk(wire), HandlePmOrderbook(wire)
    PROVE  /\ held' = [k \in Keys |-> held'[k]] /\ \A k \in Keys : held'[k] # NoEntry => EntryOk(k, held'[k])
           /\ quotes' = quotes
  <1> DEFINE token == TokenId(wire)
             outcome == IF "outcome" \in wire.named \/ token \in PmTokens THEN PmOutcome[wire.of] ELSE "default"
             key == IF token = NoEntry THEN outcome ELSE token
  <1>1. wire.of \in PmTokens /\ wire.age \in 0..Delay
    BY DEF FrameOk, ClientTokens
  <1>2. Own(wire.of, wire.of) /\ Own(PmOutcome[wire.of], wire.of) /\ Own("default", wire.of)
    BY <1>1, Names
  <1>3. outcome \in {PmOutcome[wire.of], "default"} /\ key \in {wire.of, PmOutcome[wire.of], "default"}
    BY DEF TokenId
  <1>4. outcome \in Keys /\ key \in Keys /\ Own(outcome, wire.of) /\ Own(key, wire.of)
    <2> HIDE DEF outcome, key
    <2> QED BY <1>1, <1>2, <1>3, KeysOfClient
  <1> HIDE DEF outcome
  <1>5. ASSUME NEW b, NEW k, Own(k, wire.of), SamePmBook(b, truth[wire.of]) PROVE EntryOk(k, PmEntry(wire, b))
    <2>1. StampAge(wire) \in Int /\ wire.age <= StampAge(wire) + Delay
      BY <1>1, QuoteAssumption DEF StampAge, QuoteAssumption
    <2>2. PmEntry(wire, b) = [of |-> wire.of, book |-> b, is |-> wire.age, says |-> StampAge(wire)]
      BY DEF PmEntry
    <2> HIDE DEF StampAge
    <2>3. Whole(b, truth[wire.of])
      BY <1>5 DEF Whole
    <2> QED BY <1>1, <1>5, <2>1, <2>2, <2>3 DEF EntryOk
  <1>6. PICK b : \/ held' = held
                 \/ SamePmBook(b, truth[wire.of]) /\ held' = [held EXCEPT ![key] = PmEntry(wire, b)]
                 \/ /\ SamePmBook(b, truth[wire.of])
                    /\ held' = [[held EXCEPT ![key] = PmEntry(wire, b)] EXCEPT ![outcome] = PmEntry(wire, b)]
    <2>1. PICK buys, sells, b :
             /\ buys \in Junk(truth[wire.of].bids) /\ sells \in Junk(truth[wire.of].asks)
             /\ b = [bids |-> NormalizePolymarketLevels(buys, "bids"), asks |-> NormalizePolymarketLevels(sells, "asks")]
             /\ \/ held' = held
                \/ held' = [held EXCEPT ![key] = PmEntry(wire, b)]
                \/ held' = [[held EXCEPT ![key] = PmEntry(wire, b)] EXCEPT ![outcome] = PmEntry(wire, b)]
      BY DEF HandlePmOrderbook, outcome
    <2>2. truth[wire.of].bids \in Seq(PmLevel) /\ truth[wire.of].asks \in Seq(PmLevel)
      BY <1>1, BooksOfTheVenue DEF ClientTokens
    <2>3. SamePmBook(b, truth[wire.of])
      BY <2>1, <2>2, PmBookIsRead
    <2> HIDE DEF key
    <2> QED BY <2>1, <2>3
  <1> HIDE DEF key
  <1>7. held = [k \in Keys |-> held[k]] /\ \A k \in Keys : held[k] # NoEntry => EntryOk(k, held[k])
    BY DEF QuoteInv, HeldOk
  <1> SUFFICES ASSUME held' # held, SamePmBook(b, truth[wire.of])
               PROVE  /\ held' = [k \in Keys |-> held'[k]] /\ \A k \in Keys : held'[k] # NoEntry => EntryOk(k, held'[k])
                      /\ quotes' = quotes
    BY <1>6, <1>7 DEF HandlePmOrderbook
  <1>8. PICK h : h = [held EXCEPT ![key] = PmEntry(wire, b)]
    OBVIOUS
  <1>9. h = [k \in Keys |-> h[k]] /\ \A k \in Keys : h[k] # NoEntry => EntryOk(k, h[k])
    BY <1>4, <1>5, <1>7, <1>8, StoreKeeps
  <1>10. PICK g : g = [h EXCEPT ![outcome] = PmEntry(wire, b)]
    OBVIOUS
  <1>11. g = [k \in Keys |-> g[k]] /\ \A k \in Keys : g[k] # NoEntry => EntryOk(k, g[k])
    BY <1>4, <1>5, <1>9, <1>10, StoreKeeps
  <1>12. held' \in {held, h, g} /\ quotes' = quotes
    BY <1>6, <1>8, <1>10 DEF HandlePmOrderbook
  <1> QED BY <1>7, <1>9, <1>11, <1>12

\* A price frame stores the venue's price under the token or its name, or nothing.
LEMMA PmPriceKeeps ==
    ASSUME QuoteInv, SameWorld, client = "polymarket", FrameOk(wire), HandlePmPrice(wire)
    PROVE  QuotesOk' /\ held' = held
  <1> DEFINE key == IF TokenId(wire) = NoEntry THEN "default" ELSE TokenId(wire)
  <1>1. wire.of \in PmTokens /\ ClientTokens(client)' = PmTokens
    BY DEF FrameOk, ClientTokens, SameWorld
  <1>2. key \in {wire.of, PmOutcome[wire.of], "default"}
    BY DEF TokenId
  <1>3. \/ quotes' = quotes
        \/ quotes' = [quotes EXCEPT ![key] = BestPrice(truth[wire.of].bids)]
    <2>1. ~IsValidProbability(Improbable.price) /\ ~IsValidProbability(NoEntry)
      BY DEF IsValidProbability, Improbable
    <2> HIDE DEF key
    <2> QED BY <2>1 DEF HandlePmPrice, key
  <1> HIDE DEF key
  <1>4. quotes = [k \in Keys |-> quotes[k]] /\ \A t \in PmTokens : PriceIsTheVenues(t)
    BY <1>1 DEF QuoteInv, QuotesOk, ClientTokens
  <1>5. \A t \in PmTokens : quotes'[t] \in {quotes[t], BestPrice(truth[t].bids)}
    <2>1. \A t \in PmTokens : key = t => t = wire.of
      BY <1>1, <1>2, QuoteAssumption DEF QuoteAssumption
    <2>2. key \in Keys /\ \A t \in PmTokens : t \in Keys
      BY <1>1, <1>2, KeysOfClient
    <2> QED BY <1>3, <1>4, <2>1, <2>2
  <1>6. quotes' = [k \in Keys |-> quotes'[k]]
    BY <1>3, <1>4
  <1>7. \A t \in PmTokens : PriceIsTheVenues(t)'
    BY <1>4, <1>5 DEF PriceIsTheVenues, SameWorld
  <1>8. held' = held
    BY DEF HandlePmPrice
  <1> QED BY <1>1, <1>6, <1>7, <1>8 DEF QuotesOk

\* The sides of a Kalshi book and the prices they quote.
LEMMA KalshiSides ==
    ASSUME QuoteInv, client = "kalshi"
    PROVE  LET sides == truth[KalshiTicker] IN
           /\ BestPrice(sides.yes) \in (1..99) \cup {NoEntry} /\ BestPrice(sides.no) \in (1..99) \cup {NoEntry}
           /\ AskFor(sides.no) = IF BestPrice(sides.no) = NoEntry THEN NoEntry ELSE 100 - BestPrice(sides.no)
  <1>1. truth[KalshiTicker] \in VenueBooks["kalshi"]
    BY DEF QuoteInv, ClientTokens
  <1>2. PICK y, n \in Seq(KalshiLevel) : y = truth[KalshiTicker].yes /\ n = truth[KalshiTicker].no
    BY <1>1, QuoteAssumption DEF QuoteAssumption
  <1>3. BestPrice(y) \in (1..99) \cup {NoEntry} /\ BestPrice(n) \in (1..99) \cup {NoEntry}
    BY <1>2, BestIsAPrice
  <1>4. AskFor(n) = IF BestPrice(n) = NoEntry THEN NoEntry ELSE 100 - BestPrice(n)
    <2>1. CASE n = <<>>
      BY <2>1 DEF AskFor, BestPrice
    <2>2. CASE n # <<>>
      <3>1. BestPrice(n) # NoEntry
        BY <1>2, <2>2, BestIsAPrice, QuoteAssumption DEF QuoteAssumption
      <3> QED BY <2>2, <3>1 DEF AskFor
    <2> QED BY <2>1, <2>2
  <1> QED BY <1>2, <1>3, <1>4

\* A ticker frame's prices are the venue's: the cents are read off whatever shape they come in.
LEMMA KalshiPriceKeeps ==
    ASSUME QuoteInv, SameWorld, client = "kalshi", FrameOk(wire), HandleKalshiPrice(wire)
    PROVE  QuotesOk' /\ held' = held
  <1> DEFINE yes == BestPrice(truth[KalshiTicker].yes)
             no == BestPrice(truth[KalshiTicker].no)
             ask == AskFor(truth[KalshiTicker].no)
             read(x) == CentsToDollars(OnWire(x, wire.shape))
             quote == [yes_price |-> read(yes), no_price |-> read(no), yes_ask |-> read(ask)]
  <1>1. wire.of = KalshiTicker /\ wire.shape \in {"fp", "legacy"} /\ ClientTokens(client)' = {KalshiTicker}
    BY DEF FrameOk, ClientTokens, SameWorld
  <1>2. quotes' = [quotes EXCEPT ![KalshiTicker] = quote] /\ held' = held
    BY <1>1 DEF HandleKalshiPrice
  <1>3. yes \in (1..99) \cup {NoEntry} /\ no \in (1..99) \cup {NoEntry} /\ ask = IF no = NoEntry THEN NoEntry ELSE 100 - no
    BY KalshiSides
  <1> HIDE DEF yes, no, ask
  <1>4. ask \in (1..99) \cup {NoEntry}
    BY <1>3
  <1>5. ASSUME NEW x \in (1..99) \cup {NoEntry} PROVE read(x) \in {x, 50}
    <2>1. CASE x = NoEntry
      BY <2>1 DEF CentsToDollars, OnWire
    <2>2. CASE x \in 1..99
      BY <1>1, <2>2, CentsAreRead
    <2> QED BY <2>1, <2>2
  <1> HIDE DEF read
  <1>6. quotes = [k \in Keys |-> quotes[k]] /\ KalshiTicker \in Keys
    BY DEF QuoteInv, QuotesOk, Keys
  <1>7. quotes' = [k \in Keys |-> quotes'[k]] /\ quotes'[KalshiTicker] = quote
    BY <1>2, <1>6
  <1>8. quotes'[KalshiTicker].yes_price \in {yes, 50} /\ quotes'[KalshiTicker].no_price \in {no, 50} /\ quotes'[KalshiTicker].yes_ask \in {ask, 50}
    <2>1. read(yes) \in {yes, 50}
      BY <1>3, <1>5
    <2>2. read(no) \in {no, 50}
      BY <1>3, <1>5
    <2>3. read(ask) \in {ask, 50}
      BY <1>4, <1>5
    <2> QED BY <1>7, <2>1, <2>2, <2>3
  <1>9. PriceIsTheVenues(KalshiTicker)'
    BY <1>8 DEF PriceIsTheVenues, SameWorld, yes, no, ask
  <1> QED BY <1>1, <1>2, <1>7, <1>9 DEF QuotesOk

\* A price asked for over REST is the venue's too, unless it is one cent in cents.
LEMMA RestPriceKeeps ==
    ASSUME QuoteInv, SameWorld, FetchPricesViaRest
    PROVE  QuotesOk'
  <1> DEFINE yes == BestPrice(truth[KalshiTicker].yes)
             no == BestPrice(truth[KalshiTicker].no)
             ask == AskFor(truth[KalshiTicker].no)
             guard(x) == IF x > 100 THEN x \div 100 ELSE x
             number(x, shape) == IF x = NoEntry THEN 0 ELSE guard(OnWire(x, shape))
             orHalf(x) == IF x = 0 THEN 50 ELSE x
             quote(bid, offer) == [yes_price |-> orHalf(bid), no_price |-> IF offer = 0 THEN 50 ELSE 100 - offer, yes_ask |-> orHalf(offer)]
  <1>1. client = "kalshi" /\ ClientTokens(client)' = {KalshiTicker}
    BY DEF FetchPricesViaRest, ClientTokens, SameWorld
  <1>2. PICK shape \in {"fp", "legacy"} : quotes' = [quotes EXCEPT ![KalshiTicker] = quote(number(yes, shape), number(ask, shape))]
    BY DEF FetchPricesViaRest
  <1>3. yes \in (1..99) \cup {NoEntry} /\ no \in (1..99) \cup {NoEntry} /\ ask = IF no = NoEntry THEN NoEntry ELSE 100 - no
    BY <1>1, KalshiSides
  <1> HIDE DEF yes, no, ask
  <1>4. ask \in (1..99) \cup {NoEntry}
    BY <1>3
  <1>5. ASSUME NEW x \in (1..99) \cup {NoEntry}, x # 1 PROVE number(x, shape) = IF x = NoEntry THEN 0 ELSE x
    <2>1. CASE x = NoEntry
      BY <2>1
    <2>2. CASE x # NoEntry
      <3>1. PICK n \in 2..99 : n = x
        BY <1>5, <2>2
      <3>2. guard(n) = n /\ guard(100 * n) = n
        OBVIOUS
      <3> QED BY <2>2, <3>1, <3>2 DEF OnWire
    <2> QED BY <2>1, <2>2
  <1> HIDE DEF number, guard
  <1>6. quotes = [k \in Keys |-> quotes[k]] /\ KalshiTicker \in Keys
    BY DEF QuoteInv, QuotesOk, Keys
  <1>7. quotes' = [k \in Keys |-> quotes'[k]] /\ quotes'[KalshiTicker] = quote(number(yes, shape), number(ask, shape))
    BY <1>2, <1>6
  <1>8. ASSUME 1 \notin {yes, ask}
        PROVE  quotes'[KalshiTicker].yes_price \in {yes, 50} /\ quotes'[KalshiTicker].no_price \in {no, 50} /\ quotes'[KalshiTicker].yes_ask \in {ask, 50}
    <2>1. number(yes, shape) = (IF yes = NoEntry THEN 0 ELSE yes) /\ number(ask, shape) = (IF ask = NoEntry THEN 0 ELSE ask)
      BY <1>3, <1>4, <1>5, <1>8
    <2>2. orHalf(number(yes, shape)) \in {yes, 50} /\ orHalf(number(ask, shape)) \in {ask, 50}
      BY <2>1
    <2>3. (IF number(ask, shape) = 0 THEN 50 ELSE 100 - number(ask, shape)) \in {no, 50}
      <3>1. CASE no = NoEntry
        BY <1>3, <2>1, <3>1
      <3>2. CASE no # NoEntry
        <4>1. PICK n \in 1..99 : n = no
          BY <1>3, <3>2
        <4>2. ask = 100 - n /\ ask # NoEntry
          BY <1>3, <4>1, <3>2, QuoteAssumption DEF QuoteAssumption
        <4> QED BY <2>1, <4>1, <4>2
      <3> QED BY <3>1, <3>2
    <2> HIDE DEF orHalf
    <2> QED BY <1>7, <2>2, <2>3
  <1>9. PriceIsTheVenues(KalshiTicker)'
    BY <1>1, <1>8 DEF PriceIsTheVenues, SameWorld, yes, no, ask
  <1> QED BY <1>1, <1>7, <1>9 DEF QuotesOk

\* A frame leaves the caches in order.
LEMMA HandleMessageKeeps == ASSUME QuoteInv, HandleMessage PROVE QuoteInv'
  <1>1. SameWorld /\ requests' = requests /\ wire' = NoEntry /\ wire # NoEntry
    BY DEF HandleMessage, SameWorld
  <1>2. FrameOk(wire)
    BY <1>1 DEF QuoteInv
  <1>3. HeldOk' /\ QuotesOk'
    <2>1. CASE held' = held /\ quotes' = quotes
      BY <1>1, <2>1, PartsStay
    <2>2. ASSUME client = "kalshi", NEW m \in ParseKalshiMessage(wire), Dispatch(m) PROVE HeldOk' /\ QuotesOk'
      <3>1. m.frame = wire /\ m.channel \in {"orderbook", "ticker", "trade"}
        BY <2>2 DEF ParseKalshiMessage
      <3>2. CASE m.channel = "ticker"
        BY <1>1, <1>2, <2>2, <3>1, <3>2, KalshiPriceKeeps, PartsStay DEF Dispatch
      <3>3. CASE m.channel # "ticker"
        BY <1>1, <2>2, <3>1, <3>3, PartsStay DEF Dispatch, HandleKalshiOrderbook
      <3> QED BY <3>2, <3>3
    <2>3. ASSUME client = "polymarket", NEW m \in ParsePolymarketEvent(wire), Dispatch(m) PROVE HeldOk' /\ QuotesOk'
      <3>1. m.frame = wire /\ m.channel \in {"orderbook", "price"}
        BY <2>3 DEF ParsePolymarketEvent
      <3>2. CASE m.channel = "price"
        <4>1. HandlePmPrice(wire)
          BY <2>3, <3>1, <3>2 DEF Dispatch
        <4> QED BY <1>1, <1>2, <2>3, <4>1, PmPriceKeeps, PartsStay
      <3>3. CASE m.channel = "orderbook"
        <4>1. HandlePmOrderbook(wire)
          BY <2>3, <3>1, <3>3 DEF Dispatch
        <4>2. held' = [k \in Keys |-> held'[k]] /\ (\A k \in Keys : held'[k] # NoEntry => EntryOk(k, held'[k])) /\ quotes' = quotes
          BY <1>2, <2>3, <4>1, PmBookKeeps
        <4>3. HeldOk'
          BY <1>1, <4>2 DEF HeldOk, EntryOk, Own, Whole, ClientTokens, SameWorld
        <4> QED BY <1>1, <4>2, <4>3, PartsStay
      <3> QED BY <3>1, <3>2, <3>3
    <2>4. client \in {"kalshi", "polymarket"}
      BY DEF QuoteInv
    <2> QED BY <2>1, <2>2, <2>3, <2>4 DEF HandleMessage
  <1> QED BY <1>1, <1>3, PartsStay DEF QuoteInv

\* So does an answer to a REST request.
LEMMA RestBookKeeps == ASSUME QuoteInv, NEW r \in DOMAIN requests, RestBookArrives(r) PROVE QuoteInv'
  <1>1. SameWorld /\ wire' = wire /\ quotes' = quotes /\ requests' = [requests EXCEPT ![r] = NoEntry]
    BY DEF RestBookArrives, SameWorld
  <1>2. requests[r].of \in ClientTokens(client) /\ requests[r].is \in 0..Delay
    BY QuoteAssumption DEF RestBookArrives, QuoteInv, RequestsOk, QuoteAssumption
  <1>3. PICK t \in ClientTokens(client) : t = requests[r].of
    BY <1>2
  <1>4. PICK b : held' = [held EXCEPT ![t] = RestEntry(r, b)] /\ Whole(b, truth[t])
    <2>1. CASE client = "kalshi"
      <3>1. PICK shape, junk, b :
               /\ shape \in {"fp", "legacy"} /\ junk \in {<<>>, <<Unreadable>>}
               /\ b = ParseOrderbookPayload([shape |-> shape, sides |-> [yes |-> Encoded(truth[t].yes, shape) \o junk,
                                                                        no |-> Encoded(truth[t].no, shape)]])
               /\ held' = [held EXCEPT ![t] = RestEntry(r, b)]
        BY <1>3, <2>1 DEF RestBookArrives, FetchKalshiBook
      <3>2. truth[t].yes \in Seq(KalshiLevel) /\ truth[t].no \in Seq(KalshiLevel)
        BY <2>1, BooksOfTheVenue
      <3>3. SameKalshiBook(b, truth[t])
        BY <3>1, <3>2, KalshiAnswerIsRead
      <3> QED BY <2>1, <3>1, <3>3 DEF Whole
    <2>2. CASE client # "kalshi"
      <3>1. PICK bids, b :
               /\ bids \in Junk(truth[t].bids)
               /\ b = [bids |-> NormalizePolymarketLevels(bids, "bids"), asks |-> NormalizePolymarketLevels(truth[t].asks, "asks")]
               /\ held' = [held EXCEPT ![t] = RestEntry(r, b)]
        BY <1>3, <2>2 DEF RestBookArrives, FetchPmBook
      <3>2. truth[t].bids \in Seq(PmLevel) /\ truth[t].asks \in Seq(PmLevel) /\ truth[t].asks \in Junk(truth[t].asks)
        BY <2>2, BooksOfTheVenue DEF Junk
      <3>3. SamePmBook(b, truth[t])
        BY <3>1, <3>2, PmBookIsRead
      <3> QED BY <2>2, <3>1, <3>3 DEF Whole
    <2> QED BY <2>1, <2>2
  <1>5. Own(t, t)
    <2>1. CASE client = "polymarket"
      BY <2>1, Names DEF ClientTokens
    <2>2. CASE client = "kalshi"
      BY <2>2 DEF Own, ClientTokens
    <2> QED BY <2>1, <2>2 DEF QuoteInv
  <1>6. EntryOk(t, RestEntry(r, b))
    <2>1. RestEntry(r, b) = [of |-> t, book |-> b, is |-> requests[r].is, says |-> 0]
      BY <1>3 DEF RestEntry
    <2>2. PICK i \in 0..Delay : i = requests[r].is
      BY <1>2
    <2> QED BY <1>4, <1>5, <2>1, <2>2, QuoteAssumption DEF EntryOk, QuoteAssumption
  <1>7. HeldOk'
    <2>1. t \in Keys
      BY KeysOfClient DEF QuoteInv
    <2>2. held' = [k \in Keys |-> held'[k]] /\ \A k \in Keys : held'[k] # NoEntry => EntryOk(k, held'[k])
      BY <1>4, <1>6, <2>1, StoreKeeps DEF QuoteInv, HeldOk
    <2> QED BY <1>1, <2>2 DEF HeldOk, EntryOk, Own, Whole, ClientTokens, SameWorld
  <1>8. RequestsOk'
    BY <1>1, PartsStay DEF QuoteInv, RequestsOk
  <1> QED BY <1>1, <1>7, <1>8, PartsStay DEF QuoteInv

\* Asking, reading at the venue and failing leave the requests in order.
LEMMA RequestKeeps ==
    ASSUME QuoteInv, NEW r \in DOMAIN requests,
           VenueReads(r) \/ RestBookFails(r) \/ \E t \in ClientTokens(client) : AsksForBook(r, t)
    PROVE  QuoteInv'
  <1>1. SameWorld /\ wire' = wire /\ quotes' = quotes /\ held' = held
    BY DEF VenueReads, RestBookFails, AsksForBook, SameWorld
  <1>2. PICK q : requests' = [requests EXCEPT ![r] = q] /\ (q # NoEntry => q \in [of : ClientTokens(client), is : -1..Delay])
    <2>1. CASE VenueReads(r)
      <3>1. requests[r] \in [of : ClientTokens(client), is : -1..Delay]
        BY <2>1 DEF VenueReads, QuoteInv, RequestsOk
      <3>2. [requests[r] EXCEPT !.is = 0] \in [of : ClientTokens(client), is : -1..Delay]
        BY <3>1, QuoteAssumption DEF QuoteAssumption
      <3>3. requests' = [requests EXCEPT ![r] = [requests[r] EXCEPT !.is = 0]]
        BY <2>1 DEF VenueReads
      <3> QED BY <3>2, <3>3
    <2>2. CASE RestBookFails(r)
      BY <2>2 DEF RestBookFails
    <2>3. ASSUME NEW t \in ClientTokens(client), AsksForBook(r, t)
          PROVE  \E q : requests' = [requests EXCEPT ![r] = q] /\ (q # NoEntry => q \in [of : ClientTokens(client), is : -1..Delay])
      <3>1. [of |-> t, is |-> -1] \in [of : ClientTokens(client), is : -1..Delay]
        BY QuoteAssumption DEF QuoteAssumption
      <3> QED BY <2>3, <3>1 DEF AsksForBook
    <2> QED BY <2>1, <2>2, <2>3
  <1>3. RequestsOk'
    BY <1>1, <1>2, PartsStay DEF QuoteInv, RequestsOk
  <1> QED BY <1>1, <1>3, PartsStay DEF QuoteInv

\* Time ages the entries, the frame and the requests alike.
LEMMA TimeKeeps == ASSUME QuoteInv, TimePasses PROVE QuoteInv'
  <1>1. SameWorld /\ quotes' = quotes
    BY DEF TimePasses, SameWorld
  <1>2. wire' # NoEntry => FrameOk(wire)'
    <2> SUFFICES ASSUME wire # NoEntry PROVE FrameOk(wire)'
      BY DEF TimePasses
    <2>1. FrameOk(wire) /\ wire.age < Delay /\ wire' = [wire EXCEPT !.age = @ + 1]
      BY DEF TimePasses, QuoteInv
    <2>2. PICK a \in 0..Delay : a = wire.age
      BY <2>1 DEF FrameOk
    <2>3. wire' = [type |-> wire.type, of |-> wire.of, named |-> wire.named, shape |-> wire.shape, age |-> a + 1]
      BY <2>1, <2>2 DEF FrameOk
    <2>4. a + 1 \in 0..Delay
      BY <2>1, <2>2, QuoteAssumption DEF QuoteAssumption
    <2>5. ClientTokens(client)' = ClientTokens(client) /\ client' = client
      BY <1>1, PartsStay DEF SameWorld
    <2> QED BY <2>1, <2>3, <2>4, <2>5 DEF FrameOk
  <1>3. RequestsOk'
    <2>1. requests' = [r \in DOMAIN requests |->
              IF requests[r] # NoEntry /\ requests[r].is >= 0 THEN [requests[r] EXCEPT !.is = @ + 1] ELSE requests[r]]
      BY DEF TimePasses
    <2>2. ASSUME NEW r \in DOMAIN requests, requests[r] # NoEntry, requests[r].is >= 0
          PROVE  [requests[r] EXCEPT !.is = @ + 1] \in [of : ClientTokens(client), is : -1..Delay]
      <3>1. requests[r] \in [of : ClientTokens(client), is : -1..Delay] /\ requests[r].is < Delay
        BY <2>2 DEF TimePasses, QuoteInv, RequestsOk
      <3>2. requests[r].is + 1 \in -1..Delay
        BY <2>2, <3>1, QuoteAssumption DEF QuoteAssumption
      <3> QED BY <3>1, <3>2
    <2>3. \A r \in DOMAIN requests : requests[r] # NoEntry => requests[r] \in [of : ClientTokens(client), is : -1..Delay]
      BY DEF QuoteInv, RequestsOk
    <2>4. \A r \in DOMAIN requests : requests'[r] # NoEntry => requests'[r] \in [of : ClientTokens(client), is : -1..Delay]
      BY <2>1, <2>2, <2>3
    <2>5. DOMAIN requests' = DOMAIN requests /\ requests' = [r \in DOMAIN requests' |-> requests'[r]]
      BY <2>1
    <2> QED BY <1>1, <2>4, <2>5, PartsStay DEF RequestsOk
  <1>4. HeldOk'
    <2>1. held' = [k \in Keys |-> OneOlder(held[k])]
      BY DEF TimePasses
    <2>2. ASSUME NEW k \in Keys, held[k] # NoEntry PROVE EntryOk(k, OneOlder(held[k]))
      <3>1. EntryOk(k, held[k])
        BY <2>2 DEF QuoteInv, HeldOk
      <3>2. PICK e : e = held[k]
        OBVIOUS
      <3>3. e = [of |-> e.of, book |-> e.book, is |-> e.is, says |-> e.says] /\ e.is \in Int /\ e.says \in Int
        BY <3>1, <3>2 DEF EntryOk
      <3>4. CASE e.says >= BookMaxAge
        <4>1. OneOlder(e) = [of |-> NoEntry, book |-> <<>>, is |-> 0, says |-> BookMaxAge + 1]
          BY <2>2, <3>2, <3>4 DEF OneOlder, StaleBook
        <4> QED BY <3>2, <4>1, QuoteAssumption DEF EntryOk, QuoteAssumption
      <3>5. CASE ~(e.says >= BookMaxAge)
        <4>1. OneOlder(e) = [of |-> e.of, book |-> e.book, is |-> e.is + 1, says |-> e.says + 1]
          BY <2>2, <3>2, <3>3, <3>5 DEF OneOlder
        <4>2. e.is <= e.says + Delay /\ Own(k, e.of) /\ Whole(e.book, truth[e.of])
          BY <3>1, <3>2, <3>3, <3>5, QuoteAssumption DEF EntryOk, QuoteAssumption
        <4>3. e.is + 1 <= (e.says + 1) + Delay
          BY <3>3, <4>2, QuoteAssumption DEF QuoteAssumption
        <4> QED BY <3>2, <3>3, <4>1, <4>2, <4>3 DEF EntryOk
      <3> QED BY <3>4, <3>5
    <2>3. \A k \in Keys : held'[k] # NoEntry => EntryOk(k, held'[k])
      <3>1. OneOlder(NoEntry) = NoEntry
        BY DEF OneOlder
      <3> QED BY <2>1, <2>2, <3>1
    <2>4. held' = [k \in Keys |-> held'[k]]
      BY <2>1
    <2> QED BY <1>1, <2>3, <2>4 DEF HeldOk, EntryOk, Own, Whole, ClientTokens, SameWorld
  <1> QED BY <1>1, <1>2, <1>3, <1>4, PartsStay DEF QuoteInv

\* Every step of the client keeps the caches in order.
LEMMA QuoteStep == QuoteInv /\ [QuoteNext]_quoteVars => QuoteInv'
  <1> SUFFICES ASSUME QuoteInv, [QuoteNext]_quoteVars PROVE QuoteInv'
    OBVIOUS
  <1>1. CASE VenueSends
    <2>1. SameWorld /\ requests' = requests /\ held' = held /\ quotes' = quotes /\ wire' \in Frames(client)
      BY <1>1 DEF VenueSends, SameWorld
    <2>2. FrameOk(wire)'
      <3>1. \A f \in Frames(client) : FrameOk(f)
        <4>1. 0 \in 0..Delay
          BY QuoteAssumption DEF QuoteAssumption
        <4>2. CASE client = "kalshi"
          BY <4>1, <4>2 DEF Frames, FrameOk, ClientTokens
        <4>3. CASE client = "polymarket"
          BY <4>1, <4>3 DEF Frames, FrameOk, ClientTokens
        <4> QED BY <4>2, <4>3 DEF QuoteInv
      <3> QED BY <2>1, <3>1 DEF FrameOk, ClientTokens, SameWorld
    <2> QED BY <2>1, <2>2, PartsStay DEF QuoteInv
  <1>2. CASE HandleMessage
    BY <1>2, HandleMessageKeeps
  <1>3. CASE FetchPricesViaRest
    <2>1. SameWorld /\ wire' = wire /\ requests' = requests /\ held' = held
      BY <1>3 DEF FetchPricesViaRest, SameWorld
    <2> QED BY <1>3, <2>1, RestPriceKeeps, PartsStay DEF QuoteInv
  <1>4. CASE TimePasses
    BY <1>4, TimeKeeps
  <1>5. ASSUME NEW r \in DOMAIN requests,
               \/ VenueReads(r) \/ RestBookArrives(r) \/ RestBookFails(r)
               \/ \E t \in ClientTokens(client) : AsksForBook(r, t)
        PROVE  QuoteInv'
    BY <1>5, RestBookKeeps, RequestKeeps
  <1>6. CASE UNCHANGED quoteVars
    <2>1. SameWorld /\ wire' = wire /\ requests' = requests /\ held' = held /\ quotes' = quotes
      BY <1>6 DEF quoteVars, SameWorld
    <2> QED BY <2>1, PartsStay DEF QuoteInv
  <1> QED BY <1>1, <1>2, <1>3, <1>4, <1>5, <1>6 DEF QuoteNext

\* A book a client serves as fresh is the asked token's own, was read at the venue no longer
\* ago than the age limit and one delay and says what the venue's book says, level by level,
\* and a price is the venue's, whichever of frames and answers came last, in whatever shape
\* and whatever they left out (api_clients.py: the handlers, the REST fetches, the
\* normalisers and _is_fresh_orderbook).
THEOREM QuotesHold == QuoteSpec => []QuotesAreTheVenues
  <1>1. QuoteInv => QuotesAreTheVenues
    <2> SUFFICES ASSUME QuoteInv, NEW t \in ClientTokens(client) PROVE BookIsTheVenues(t) /\ PriceIsTheVenues(t)
      BY DEF QuotesAreTheVenues
    <2>1. PriceIsTheVenues(t)
      BY DEF QuoteInv, QuotesOk
    <2>2. ASSUME IsFreshBook(Cached(t))
          PROVE  Cached(t).of = t /\ Cached(t).is <= BookMaxAge + Delay /\ Whole(Cached(t).book, truth[t])
      <3>1. PICK k \in Keys : Cached(t) = held[k] /\ \A of : Own(k, of) => of = t
        <4>1. CASE client = "kalshi" \/ held[t] # NoEntry
          <5>1. Cached(t) = held[t] /\ t \in Keys
            BY <4>1, KeysOfClient DEF Cached, QuoteInv
          <5> QED BY <5>1 DEF Own
        <4>2. CASE ~(client = "kalshi" \/ held[t] # NoEntry)
          <5>1. client = "polymarket" /\ t \in PmTokens /\ Cached(t) = held[PmOutcome[t]]
            BY <4>2 DEF Cached, QuoteInv, ClientTokens
          <5>2. PmOutcome[t] \in Keys
            BY <5>1, KeysOfClient
          <5> QED BY <5>1, <5>2 DEF Own
        <4> QED BY <4>1, <4>2
      <3>2. EntryOk(k, held[k]) /\ held[k].says <= BookMaxAge
        BY <2>2, <3>1 DEF IsFreshBook, QuoteInv, HeldOk
      <3>3. /\ held[k].is <= held[k].says + Delay /\ Own(k, held[k].of) /\ Whole(held[k].book, truth[held[k].of])
            /\ held[k].is \in Int /\ held[k].says \in Int
        BY <3>2 DEF EntryOk
      <3> QED BY <3>1, <3>2, <3>3, QuoteAssumption DEF QuoteAssumption
    <2> QED BY <2>1, <2>2 DEF BookIsTheVenues, BookIsRecent, BookIsWhole
  <1> QED BY <1>1, QuoteInitInv, QuoteStep, PTL DEF QuoteSpec

-----------------------------------------------------------------------------
(***************************************************************************)
(* The pricing.  A walk takes what is asked for or all there is, which is  *)
(* proved of the sums over the first levels; and while the complementary   *)
(* walk runs, what it took of a level and what it left there are no more   *)
(* than the level offered (PricingInv).                                    *)
(***************************************************************************)
\* The smaller of two naturals.
Smaller(x, y) == IF x <= y THEN x ELSE y

\* What is taken of two levels, the nearer one first.
LEMMA SmallerOfSum ==
    ASSUME NEW n \in Nat, NEW a \in Nat, NEW b \in Nat
    PROVE  Smaller(n, a + b) = (IF n <= b THEN 0 ELSE Smaller(a, n - b)) + Smaller(n, b)
  BY DEF Smaller

\* What a walk takes of a level: no more than the level has, and all in all what is asked for,
\* or all there is.
LEMMA WalkTakes ==
    ASSUME NEW book, NEW m \in Nat, DOMAIN book = 1..m, \A i \in 1..m : book[i].size \in Nat, NEW n \in Nat
    PROVE  /\ TakenFrom(book, n) \in [1..m -> 0..n]
           /\ \A i \in 1..m : TakenFrom(book, n)[i] <= book[i].size
           /\ SumFunction(SizesOf(book)) \in Nat
           /\ SumFunction(TakenFrom(book, n)) = Smaller(n, SumFunction(SizesOf(book)))
  <1>0. PICK z : z = SizesOf(book)
    OBVIOUS
  <1>1. z = SizesOf(book) /\ DOMAIN z = 1..m /\ \A i \in 1..m : z[i] = book[i].size /\ z[i] \in Nat
    BY <1>0 DEF SizesOf
  <1>2. PICK p : p = [k \in 0..m |-> SumFunctionOnSet(z, 1..k)]
    OBVIOUS
  <1>3. /\ p \in [0..m -> Nat] /\ p[0] = 0 /\ p[m] = SumFunction(z)
        /\ \A k \in 1..m : p[k] = z[k] + p[k - 1]
        /\ \A k \in 1..m : p[k - 1] = SumFunctionOnSet(z, 1..(k - 1))
    <2>1. /\ SumFunctionOnSet(z, 1..0) = 0
          /\ \A k \in 0..m : SumFunctionOnSet(z, 1..k) \in Nat
          /\ \A k \in 1..m : SumFunctionOnSet(z, 1..k) = z[k] + SumFunctionOnSet(z, 1..(k - 1))
      BY <1>1, SumOfFirst
    <2>2. SumFunctionOnSet(z, 1..m) = SumFunction(z)
      BY <1>1 DEF SumFunction
    <2> QED BY <1>2, <2>1, <2>2
  <1>4. PICK t : t = TakenFrom(book, n)
    OBVIOUS
  <1>5. DOMAIN t = 1..m /\ \A i \in 1..m : t[i] = Max({0, Min({z[i], n - p[i - 1]})})
    <2>1. \A i \in 1..m : t[i] = Max({0, Min({book[i].size, n - SumFunctionOnSet(z, 1..(i - 1))})})
      BY <1>1, <1>4 DEF TakenFrom
    <2> QED BY <1>1, <1>3, <1>4, <2>1 DEF TakenFrom
  <1>6. ASSUME NEW i \in 1..m
        PROVE  /\ t[i] = IF n <= p[i - 1] THEN 0 ELSE Smaller(z[i], n - p[i - 1])
               /\ t[i] \in 0..n /\ t[i] <= z[i]
    <2>0. i - 1 \in 0..m
      OBVIOUS
    <2>1. PICK a, b \in Nat : a = z[i] /\ b = p[i - 1]
      BY <1>1, <1>3, <2>0
    <2>2. Min({a, n - b}) = IF a <= n - b THEN a ELSE n - b
      BY MinOfTwo
    <2>3. PICK c \in Int : c = Min({a, n - b})
      BY <2>2
    <2>4. Max({0, c}) = IF 0 <= c THEN c ELSE 0
      BY MaxOfTwo
    <2>5. t[i] = IF 0 <= c THEN c ELSE 0
      BY <1>5, <2>1, <2>3, <2>4
    <2>6. t[i] = IF n <= b THEN 0 ELSE Smaller(a, n - b)
      BY <2>2, <2>3, <2>5 DEF Smaller
    <2>7. t[i] \in 0..n /\ t[i] <= a
      BY <2>6 DEF Smaller
    <2> QED BY <2>1, <2>6, <2>7
  <1>7. PICK q : q = [k \in 0..m |-> SumFunctionOnSet(t, 1..k)]
    OBVIOUS
  <1>8. q \in [0..m -> Nat] /\ q[0] = 0 /\ q[m] = SumFunction(t) /\ \A k \in 1..m : q[k] = t[k] + q[k - 1]
    <2>1. /\ SumFunctionOnSet(t, 1..0) = 0
          /\ \A k \in 0..m : SumFunctionOnSet(t, 1..k) \in Nat
          /\ \A k \in 1..m : SumFunctionOnSet(t, 1..k) = t[k] + SumFunctionOnSet(t, 1..(k - 1))
      <3>1. \A i \in 1..m : t[i] \in Nat
        BY <1>6
      <3> QED BY <3>1, SumOfFirst
    <2>2. SumFunctionOnSet(t, 1..m) = SumFunction(t)
      BY <1>5 DEF SumFunction
    <2> QED BY <1>7, <2>1, <2>2
  <1>9. \A k \in 0..m : q[k] = Smaller(n, p[k])
    <2> DEFINE Bad == {k \in 0..m : q[k] # Smaller(n, p[k])}
    <2>1. SUFFICES ASSUME Bad # {} PROVE FALSE
      OBVIOUS
    <2>2. PICK k \in Bad : \A j \in Bad : k <= j
      <3>1. Bad \in SUBSET Nat
        OBVIOUS
      <3> HIDE DEF Bad
      <3> QED BY <2>1, <3>1, LeastNumber
    <2>3. k \in 1..m
      <3>1. q[0] = Smaller(n, p[0])
        BY <1>3, <1>8 DEF Smaller
      <3> QED BY <3>1
    <2>4. q[k - 1] = Smaller(n, p[k - 1])
      <3>1. k - 1 \in 0..m /\ ~(k <= k - 1)
        BY <2>3
      <3>2. k - 1 \notin Bad
        BY <2>2, <3>1
      <3> QED BY <3>1, <3>2
    <2>5. q[k] # Smaller(n, p[k])
      OBVIOUS
    <2>6. PICK a, b \in Nat : a = z[k] /\ b = p[k - 1]
      <3>1. k - 1 \in 0..m
        BY <2>3
      <3> QED BY <1>1, <1>3, <2>3, <3>1
    <2>7. p[k] = a + b
      BY <1>3, <2>3, <2>6
    <2>8. t[k] = IF n <= b THEN 0 ELSE Smaller(a, n - b)
      BY <1>6, <2>3, <2>6
    <2>9. q[k] = t[k] + Smaller(n, b)
      BY <1>8, <2>3, <2>4, <2>6
    <2>10. Smaller(n, a + b) = (IF n <= b THEN 0 ELSE Smaller(a, n - b)) + Smaller(n, b)
      BY SmallerOfSum
    <2> QED BY ONLY <2>5, <2>7, <2>8, <2>9, <2>10
  <1>10. SumFunction(t) = Smaller(n, SumFunction(z)) /\ SumFunction(z) \in Nat
    BY <1>3, <1>8, <1>9
  <1>11. t \in [1..m -> 0..n]
    <2>1. t = [i \in 1..m |-> t[i]]
      BY <1>1, <1>4, <1>5 DEF TakenFrom
    <2> QED BY <1>6, <2>1
  <1>12. \A i \in 1..m : t[i] <= book[i].size
    BY <1>1, <1>6
  <1> QED BY <1>1, <1>4, <1>10, <1>11, <1>12

\* A book of levels, as the analyzer keeps it.
BookList(levels) == levels \in Seq(BookLevel)
LEMMA LevelHas == ASSUME NEW l \in BookLevel PROVE l.price \in Int /\ l.size \in Nat
  BY DEF BookLevel

\* The levels that can be read make a book.
LEMMA NormalizedIsBook ==
    ASSUME NEW raw \in Seq(BookLevel \cup {Malformed})
    PROVE  BookList(Normalize(raw))
  <1> DEFINE S == BookLevel \cup {Malformed}
             I == {i \in DOMAIN raw : raw[i] # Malformed}
  <1>1. raw \in Seq(S) /\ I \in SUBSET DOMAIN raw /\ \A i \in DOMAIN raw : raw[i] \in S
    OBVIOUS
  <1> HIDE DEF S
  <1>2. PICK n : n = Only(raw, I)
    OBVIOUS
  <1>3. n \in Seq(S) /\ Range(n) = {raw[i] : i \in I}
    <2> HIDE DEF I
    <2> QED BY <1>1, <1>2, OnlyHas
  <1>4. ASSUME NEW k \in DOMAIN n PROVE n[k] \in BookLevel
    <2>1. n[k] \in Range(n)
      BY DEF Range
    <2>2. PICK i \in I : n[k] = raw[i]
      <3> HIDE DEF I
      <3> QED BY <1>3, <2>1
    <2> QED BY <1>1, <2>2 DEF S
  <1>5. n \in Seq(BookLevel)
    <2>1. DOMAIN n = 1..Len(n) /\ Len(n) \in Nat /\ n = [k \in 1..Len(n) |-> n[k]]
      BY <1>3
    <2> QED BY <1>4, <2>1
  <1> QED BY <1>2, <1>5 DEF Normalize, BookList

\* Sorting a book makes a book with the same sizes all in all.
LEMMA SortedIsBook ==
    ASSUME NEW levels, BookList(levels)
    PROVE  /\ BookList(Ascending(levels)) /\ BookList(Descending(levels))
           /\ (levels = <<>> => Ascending(levels) = <<>>) /\ (levels = <<>> => Descending(levels) = <<>>)
  <1>1. levels \in Seq(BookLevel) /\ \A i \in DOMAIN levels : levels[i].price \in Int
    BY LevelHas DEF BookList
  <1>2. [i \in DOMAIN levels |-> levels[i].price] \in [DOMAIN levels -> Int]
    BY <1>1
  <1>3. [i \in DOMAIN levels |-> -levels[i].price] \in [DOMAIN levels -> Int]
    BY <1>1
  <1>4. ASSUME NEW rank \in [DOMAIN levels -> Int]
        PROVE  /\ Arranged(levels, DOMAIN levels, rank) \in Seq(BookLevel)
               /\ levels = <<>> => Arranged(levels, DOMAIN levels, rank) = <<>>
    <2>1. PICK a : a = Arranged(levels, DOMAIN levels, rank)
      OBVIOUS
    <2>2. a \in Seq(BookLevel) /\ Range(a) = {levels[i] : i \in DOMAIN levels}
      BY <1>1, <2>1, ArrangedHas
    <2>3. ASSUME levels = <<>>, NEW k \in DOMAIN a PROVE FALSE
      <3>1. a[k] \in Range(a)
        BY DEF Range
      <3> QED BY <2>2, <2>3, <3>1
    <2> QED BY <2>1, <2>2, <2>3
  <1> QED BY <1>2, <1>3, <1>4 DEF Ascending, Descending, BookList

\* What a walk fills is a book, and all in all what is asked for or all there is.
LEMMA FillIsTarget ==
    ASSUME NEW levels, BookList(levels), NEW n \in Nat
    PROVE  /\ BookList(FillFrom(levels, n))
           /\ SumFunction(SizesOf(levels)) \in Nat /\ Filled(FillFrom(levels, n)) \in Nat
           /\ Filled(FillFrom(levels, n)) = Smaller(n, SumFunction(SizesOf(levels)))
  <1>1. PICK m \in Nat : DOMAIN levels = 1..m /\ \A i \in 1..m : levels[i] \in BookLevel
    BY DEF BookList
  <1>2. PICK t : t = TakenFrom(levels, n)
    OBVIOUS
  <1>3. /\ t \in [1..m -> 0..n] /\ SumFunction(SizesOf(levels)) \in Nat
        /\ SumFunction(t) = Smaller(n, SumFunction(SizesOf(levels)))
    BY <1>1, <1>2, WalkTakes, LevelHas
  <1>4. PICK s : s = [i \in DOMAIN levels |-> [price |-> levels[i].price, size |-> t[i]]]
    OBVIOUS
  <1>5. s \in Seq(BookLevel) /\ DOMAIN s = 1..m /\ \A i \in 1..m : s[i].size = t[i]
    <2>1. \A i \in 1..m : [price |-> levels[i].price, size |-> t[i]] \in BookLevel
      BY <1>1, <1>3, LevelHas DEF BookLevel
    <2> QED BY <1>1, <1>4, <2>1
  <1>6. PICK I : I = {i \in DOMAIN levels : t[i] > 0}
    OBVIOUS
  <1>7. PICK rank : rank = [i \in I |-> 0]
    OBVIOUS
  <1>8. PICK r : r = FillFrom(levels, n)
    OBVIOUS
  <1>9. r = Arranged(s, I, rank) /\ r = Only(s, I)
    BY <1>2, <1>4, <1>6, <1>7, <1>8 DEF FillFrom, Only
  <1>10. I \in SUBSET DOMAIN s /\ rank \in [I -> Int]
    BY <1>1, <1>5, <1>6, <1>7
  <1>11. r \in Seq(BookLevel)
    BY <1>5, <1>9, <1>10, OnlyHas
  <1>12. IsFiniteSet(I) /\ \E at : Arranges(at, r, s, I, rank)
    BY <1>5, <1>9, <1>10, ArrangedBy
  <1>13. PICK at : Arranges(at, r, s, I, rank)
    BY <1>12
  <1>14. PICK g : g = SizesOf(r)
    OBVIOUS
  <1>15. PICK c \in Nat : c = Cardinality(I) /\ at \in [1..c -> I] /\ r = [k \in 1..c |-> s[at[k]]]
    BY <1>13 DEF Arranges
  <1>16. DOMAIN g = 1..c /\ \A k \in 1..c : g[k] = t[at[k]]
    <2>1. \A k \in 1..c : at[k] \in 1..m
      BY <1>5, <1>10, <1>15
    <2> QED BY <1>5, <1>14, <1>15, <2>1 DEF SizesOf
  <1>17. SumFunctionOnSet(g, 1..c) = SumFunctionOnSet(t, I)
    <2>1. \A i \in I : t[i] \in Int
      BY <1>3, <1>5, <1>10
    <2>2. \A k \in 1..Cardinality(I) : g[k] = t[at[k]]
      BY <1>15, <1>16
    <2> QED BY <1>12, <1>13, <1>15, <2>1, <2>2, SumArranged
  <1>18. SumFunctionOnSet(t, 1..m) = SumFunctionOnSet(t, I)
    <2> DEFINE J == (1..m) \ I
    <2>1. IsFiniteSet(1..m) /\ IsFiniteSet(J) /\ I \cup J = 1..m /\ I \cap J = {}
      BY <1>5, <1>10, FS_Interval, FS_Subset
    <2>2. \A i \in J : t[i] = 0
      BY <1>1, <1>3, <1>6
    <2>3. \A i \in I \cup J : t[i] \in Int
      BY <1>3, <2>1
    <2> HIDE DEF J
    <2>4. SumFunctionOnSet(t, I \cup J) = SumFunctionOnSet(t, I) + SumFunctionOnSet(t, J)
      BY <1>12, <2>1, <2>3, SumOfBoth
    <2>5. SumFunctionOnSet(t, J) = 0
      BY <2>1, <2>2, SumOfZeros
    <2>6. SumFunctionOnSet(t, I) \in Int
      BY <1>12, <2>1, <2>3, SumIsNumber
    <2>7. PICK a \in Int : a = SumFunctionOnSet(t, I)
      BY <2>6
    <2>8. SumFunctionOnSet(t, 1..m) = a + 0
      BY <2>1, <2>4, <2>5, <2>7
    <2> QED BY <2>7, <2>8
  <1>19. SumFunction(g) = SumFunction(t)
    BY <1>3, <1>16, <1>17, <1>18 DEF SumFunction
  <1>20. Filled(r) = Smaller(n, SumFunction(SizesOf(levels)))
    BY <1>3, <1>14, <1>19 DEF Filled
  <1>21. Filled(r) \in Nat
    BY <1>3, <1>20 DEF Smaller
  <1> QED BY <1>3, <1>8, <1>11, <1>20, <1>21 DEF BookList

\* The priced trades are a list with a volume each.
PricedList(ts) == \E S : ts \in Seq(S) /\ \A t \in S : t.volume \in Nat
LEMMA VolumeIsNatural == ASSUME NEW ts, PricedList(ts) PROVE Volume(ts) \in Nat
  <1>1. PICK v : v = [i \in DOMAIN ts |-> ts[i].volume]
    OBVIOUS
  <1>2. PICK S : ts \in Seq(S) /\ \A t \in S : t.volume \in Nat
    BY DEF PricedList
  <1>3. PICK m \in Nat : DOMAIN ts = 1..m /\ \A i \in 1..m : ts[i] \in S
    BY <1>2
  <1>4. DOMAIN v = 1..m /\ \A i \in 1..m : v[i] \in Nat
    BY <1>1, <1>2, <1>3
  <1>5. IsFiniteSet(1..m)
    BY <1>3, FS_Interval
  <1>6. SumFunctionOnSet(v, 1..m) \in Nat
    BY <1>4, <1>5, SumIsNatural
  <1> QED BY <1>1, <1>4, <1>6 DEF Volume, SumFunction
LEMMA PricedGrows == ASSUME NEW ts, PricedList(ts), NEW t, t.volume \in Nat PROVE PricedList(Append(ts, t))
  <1>1. PICK S : ts \in Seq(S) /\ \A u \in S : u.volume \in Nat
    BY DEF PricedList
  <1>2. PICK T : T = S \cup {t}
    OBVIOUS
  <1>3. ts \in Seq(T) /\ t \in T /\ \A u \in T : u.volume \in Nat
    BY <1>1, <1>2
  <1>4. Append(ts, t) \in Seq(T)
    BY <1>3, AppendProperties
  <1> QED BY <1>3, <1>4 DEF PricedList

\* The offers of a book are naturals, and what was taken has an entry for each.
Offers(offers, taken, levels) ==
    /\ BookList(levels)
    /\ offers \in [DOMAIN levels -> Nat] /\ taken \in [DOMAIN levels -> Nat]
\* What was taken of a level and what is left there are no more than it offered.
Within(offers, taken, levels) == \A l \in DOMAIN levels : taken[l] + levels[l].size <= offers[l]

\* The simulated fill is as large on either side, and exists.
SimHolds ==
    /\ Filled(sim.buy) = Filled(sim.sell)
    /\ Filled(sim.buy) <= Volume(trades)
    /\ \A i \in 1..2 : Filled(sim.buy) <= SumFunction(depth[i])

PricingInv ==
    /\ PricedList(trades) /\ ia \in Nat \ {0} /\ ib \in Nat \ {0}
    /\ stage # "simulated" =>
         \E da, db, ta, tb :
           /\ depth = <<da, db>> /\ took = <<ta, tb>>
           /\ Offers(da, ta, bookA) /\ Offers(db, tb, bookB)
           /\ kind = "complementary" => Within(da, ta, bookA) /\ Within(db, tb, bookB)
    /\ stage = "simulated" => SimHolds

\* Before the first turn nothing is taken.
LEMMA FreshOffers ==
    ASSUME NEW levels, BookList(levels)
    PROVE  LET none == [i \in DOMAIN levels |-> 0]
           IN Offers(SizesOf(levels), none, levels) /\ Within(SizesOf(levels), none, levels)
  <1>1. \A i \in DOMAIN levels : levels[i] \in BookLevel
    BY DEF BookList
  <1>2. \A i \in DOMAIN levels : levels[i].size \in Nat
    BY <1>1, LevelHas
  <1> QED BY <1>2 DEF Offers, Within, SizesOf

LEMMA PricingInitInv == PricingInit => PricingInv
  <1> SUFFICES ASSUME PricingInit PROVE PricingInv
    OBVIOUS
  <1>1. PICK ra \in RawBooks, rb \in RawBooks :
           /\ bookA = Ascending(Normalize(ra))
           /\ bookB = IF kind = "complementary" THEN Ascending(Normalize(rb)) ELSE Descending(Normalize(rb))
    BY DEF PricingInit
  <1>2. ra \in Seq(BookLevel \cup {Malformed}) /\ rb \in Seq(BookLevel \cup {Malformed})
    BY PricingAssumption DEF PricingAssumption
  <1>3. BookList(bookA) /\ BookList(bookB)
    BY <1>1, <1>2, NormalizedIsBook, SortedIsBook
  <1>4. PICK da, db, ta, tb :
           /\ da = SizesOf(bookA) /\ db = SizesOf(bookB)
           /\ ta = [i \in DOMAIN bookA |-> 0] /\ tb = [i \in DOMAIN bookB |-> 0]
    OBVIOUS
  <1>5. depth = <<da, db>> /\ took = <<ta, tb>>
    BY <1>4 DEF PricingInit
  <1>6. Offers(da, ta, bookA) /\ Within(da, ta, bookA) /\ Offers(db, tb, bookB) /\ Within(db, tb, bookB)
    BY <1>3, <1>4, FreshOffers
  <1>7. PricedList(trades)
    <2>1. trades = <<>>
      BY DEF PricingInit
    <2>2. trades \in Seq({}) /\ \A t \in {} : t.volume \in Nat
      BY <2>1
    <2> QED BY <2>2 DEF PricedList
  <1>8. ia = 1 /\ ib = 1 /\ stage = "walk"
    BY DEF PricingInit
  <1> QED BY <1>5, <1>6, <1>7, <1>8 DEF PricingInv

\* One turn on one book: what is taken of a level was left there.
LEMMA TurnKeeps ==
    ASSUME NEW offers, NEW taken, NEW levels, Offers(offers, taken, levels),
           NEW i \in DOMAIN levels, NEW n \in Nat, n <= levels[i].size
    PROVE  /\ Offers(offers, [taken EXCEPT ![i] = @ + n], levels)
           /\ Offers(offers, taken, [levels EXCEPT ![i].size = @ - n])
           /\ Offers(offers, [taken EXCEPT ![i] = @ + n], [levels EXCEPT ![i].size = @ - n])
           /\ Within(offers, taken, levels) =>
                 /\ Within(offers, taken, [levels EXCEPT ![i].size = @ - n])
                 /\ Within(offers, [taken EXCEPT ![i] = @ + n], [levels EXCEPT ![i].size = @ - n])
  <1>1. PICK m \in Nat : DOMAIN levels = 1..m /\ levels \in [1..m -> BookLevel]
    BY DEF Offers, BookList
  <1>2. PICK less, more : less = [levels EXCEPT ![i].size = @ - n] /\ more = [taken EXCEPT ![i] = @ + n]
    OBVIOUS
  <1>3. PICK x \in Nat : x = levels[i].size
    BY <1>1, LevelHas
  <1>4. less \in [1..m -> BookLevel]
    <2>1. [levels[i] EXCEPT !.size = x - n] \in BookLevel
      <3>1. x - n \in Nat /\ levels[i] \in BookLevel
        BY <1>1, <1>3
      <3> QED BY <3>1 DEF BookLevel
    <2>2. less = [levels EXCEPT ![i] = [levels[i] EXCEPT !.size = x - n]]
      BY <1>1, <1>2, <1>3
    <2> QED BY <1>1, <2>1, <2>2
  <1>5. BookList(less) /\ DOMAIN less = DOMAIN levels
    BY <1>1, <1>4 DEF BookList
  <1>6. offers \in [DOMAIN levels -> Nat] /\ taken \in [DOMAIN levels -> Nat] /\ more \in [DOMAIN levels -> Nat]
    BY <1>2 DEF Offers
  <1>7. \A l \in DOMAIN levels : less[l].size = IF l = i THEN x - n ELSE levels[l].size
    <2>1. ASSUME NEW l \in DOMAIN levels PROVE less[l].size = IF l = i THEN x - n ELSE levels[l].size
      <3>1. levels[l] \in BookLevel
        BY <1>1
      <3> QED BY <1>1, <1>2, <1>3, <3>1 DEF BookLevel
    <2> QED BY <2>1
  <1>8. \A l \in DOMAIN levels : more[l] = IF l = i THEN taken[l] + n ELSE taken[l]
    BY <1>2, <1>6
  <1>9. ASSUME Within(offers, taken, levels) PROVE Within(offers, taken, less) /\ Within(offers, more, less)
    <2> SUFFICES ASSUME NEW l \in DOMAIN levels
                 PROVE  taken[l] + less[l].size <= offers[l] /\ more[l] + less[l].size <= offers[l]
      BY <1>5 DEF Within
    <2>1. taken[l] + levels[l].size <= offers[l]
      BY <1>9 DEF Within
    <2>2. PICK a, o \in Nat : a = taken[l] /\ o = offers[l]
      BY <1>6
    <2>3. PICK y \in Nat : y = levels[l].size
      BY <1>1, LevelHas
    <2>4. CASE l = i
      BY <1>3, <1>7, <1>8, <2>1, <2>2, <2>3, <2>4
    <2>5. CASE l # i
      BY <1>7, <1>8, <2>1, <2>2, <2>3, <2>5
    <2> QED BY <2>4, <2>5
  <1>10. Offers(offers, more, levels) /\ Offers(offers, taken, less) /\ Offers(offers, more, less)
    BY <1>5, <1>6 DEF Offers
  <1> QED BY <1>2, <1>9, <1>10

\* A turn of either walk keeps the offers, and the complementary one what is left.
LEMMA TakesKeeps ==
    ASSUME PricingInv, stage = "walk", Going, Tradeable >= MinVolume, NEW back \in BOOLEAN,
           kind = "complementary" => back, Takes(Tradeable, back)
    PROVE  PricingInv'
  <1>1. PICK da, db, ta, tb :
           /\ depth = <<da, db>> /\ took = <<ta, tb>>
           /\ Offers(da, ta, bookA) /\ Offers(db, tb, bookB)
           /\ kind = "complementary" => Within(da, ta, bookA) /\ Within(db, tb, bookB)
    BY DEF PricingInv
  <1>2. ia \in Nat \ {0} /\ ib \in Nat \ {0} /\ ia <= Len(bookA) /\ ib <= Len(bookB) /\ PricedList(trades)
    BY DEF PricingInv, Going
  <1>3. bookA \in Seq(BookLevel) /\ bookB \in Seq(BookLevel)
    BY <1>1 DEF Offers, BookList
  <1>4. ia \in DOMAIN bookA /\ ib \in DOMAIN bookB
    BY <1>2, <1>3
  <1>5. PICK x, y \in Nat : x = bookA[ia].size /\ y = bookB[ib].size
    BY <1>3, <1>4, LevelHas
  <1>6. PICK n \in Nat : n = Tradeable /\ n <= bookA[ia].size /\ n <= bookB[ib].size
    <2>1. Min({x, y}) = IF x <= y THEN x ELSE y
      BY MinOfTwo
    <2> QED BY <1>5, <2>1 DEF Tradeable
  <1>7. PICK na, nb : /\ na = IF Trade(n).net > 0 THEN [ta EXCEPT ![ia] = @ + n] ELSE ta
                      /\ nb = IF Trade(n).net > 0 THEN [tb EXCEPT ![ib] = @ + n] ELSE tb
    OBVIOUS
  <1>8. took' = <<na, nb>> /\ depth' = <<da, db>>
    BY <1>1, <1>6, <1>7 DEF Takes
  <1>9. /\ bookA' = IF back THEN [bookA EXCEPT ![ia].size = @ - n] ELSE bookA
        /\ bookB' = IF back THEN [bookB EXCEPT ![ib].size = @ - n] ELSE bookB
    BY <1>6 DEF Takes
  <1>10. Offers(da, na, bookA') /\ (kind = "complementary" => Within(da, na, bookA'))
    <2>1. CASE back
      BY <1>1, <1>4, <1>6, <1>7, <1>9, <2>1, TurnKeeps
    <2>2. CASE ~back
      BY <1>1, <1>4, <1>6, <1>7, <1>9, <2>2, TurnKeeps
    <2> QED BY <2>1, <2>2
  <1>11. Offers(db, nb, bookB') /\ (kind = "complementary" => Within(db, nb, bookB'))
    <2>1. CASE back
      BY <1>1, <1>4, <1>6, <1>7, <1>9, <2>1, TurnKeeps
    <2>2. CASE ~back
      BY <1>1, <1>4, <1>6, <1>7, <1>9, <2>2, TurnKeeps
    <2> QED BY <2>1, <2>2
  <1>12. PricedList(trades')
    <2>1. Trade(n).volume \in Nat
      BY DEF Trade
    <2>2. trades' = IF Trade(n).net > 0 THEN Append(trades, Trade(n)) ELSE trades
      BY <1>6 DEF Takes
    <2> QED BY <1>2, <2>1, <2>2, PricedGrows
  <1>13. ia' \in Nat \ {0} /\ ib' \in Nat \ {0} /\ stage' = "walk" /\ kind' = kind
    <2>1. /\ ia' = IF bookA[ia].size <= n THEN ia + 1 ELSE ia
          /\ ib' = IF bookB[ib].size <= n THEN ib + 1 ELSE ib
      BY <1>6 DEF Takes
    <2> QED BY <1>2, <2>1 DEF Takes, inputs
  <1> QED BY <1>8, <1>10, <1>11, <1>12, <1>13 DEF PricingInv

\* The execution of a market on two books: both sides are filled alike, no further than asked
\* and no further than the books go.
LEMMA ExecutedExists ==
    ASSUME NEW offered, BookList(offered), NEW wanted, BookList(wanted), NEW volume \in Nat, NEW bps
    PROVE  LET fill == ExecuteMarket(offered, wanted, volume, bps)
           IN /\ Filled(fill.buy) = Filled(fill.sell) /\ Filled(fill.buy) <= volume
              /\ Filled(fill.buy) <= SumFunction(SizesOf(Ascending(offered)))
              /\ Filled(fill.buy) <= SumFunction(SizesOf(Descending(wanted)))
  <1>1. PICK up, down : up = Ascending(offered) /\ down = Descending(wanted)
    OBVIOUS
  <1>2. BookList(up) /\ BookList(down)
    BY <1>1, SortedIsBook
  <1>3. PICK buys, sells : buys = FillFrom(up, volume) /\ sells = FillFrom(down, volume)
    OBVIOUS
  <1>4. PICK p, q \in Nat : p = SumFunction(SizesOf(up)) /\ q = SumFunction(SizesOf(down))
    BY <1>2, FillIsTarget
  <1>5. /\ BookList(buys) /\ Filled(buys) = Smaller(volume, p) /\ Filled(buys) = SumFunction(SizesOf(buys))
        /\ BookList(sells) /\ Filled(sells) = Smaller(volume, q) /\ Filled(sells) = SumFunction(SizesOf(sells))
    BY <1>2, <1>3, <1>4, FillIsTarget DEF Filled
  <1>6. PICK x, y \in Nat : x = Filled(buys) /\ y = Filled(sells)
    BY <1>2, <1>3, FillIsTarget
  <1>7. PICK f \in Nat : f = Min({Filled(buys), Filled(sells)}) /\ f = Smaller(x, y)
    <2>1. Min({x, y}) = IF x <= y THEN x ELSE y
      BY MinOfTwo
    <2> QED BY <1>6, <2>1 DEF Smaller
  <1>8. PICK buy, sell : buy = TruncateFills(buys, f) /\ sell = TruncateFills(sells, f)
    OBVIOUS
  <1>9. Filled(buy) = Smaller(f, x) /\ Filled(sell) = Smaller(f, y)
    BY <1>5, <1>6, <1>8, FillIsTarget DEF TruncateFills
  <1>10. Filled(buy) = f /\ Filled(sell) = f
    BY <1>7, <1>9 DEF Smaller
  <1>11. f <= volume /\ f <= p /\ f <= q
    BY <1>5, <1>6, <1>7 DEF Smaller
  <1>12. Filled(<<>>) = 0
    <2>1. SizesOf(<<>>) = <<>> /\ DOMAIN <<>> = {}
      BY DEF SizesOf
    <2> QED BY <2>1, SumOfNone DEF Filled, SumFunction
  <1>13. PICK fill : fill = ExecuteMarket(offered, wanted, volume, bps)
    OBVIOUS
  <1>14. fill = IF offered = <<>> \/ wanted = <<>> THEN [NoFill EXCEPT !.skipped = "empty_orderbook"]
                ELSE IF f <= 0 THEN [NoFill EXCEPT !.skipped = "no_liquidity"]
                ELSE [buy |-> buy, sell |-> sell, skipped |-> "none",
                      net |-> Notional(sell) - Notional(buy) - Fees(buyVenue, buy, bps)
                              - Fees(Other(buyVenue), sell, bps)]
    BY <1>1, <1>3, <1>7, <1>8, <1>13 DEF ExecuteMarket
  <1>15. \/ fill.buy = <<>> /\ fill.sell = <<>>
         \/ fill.buy = buy /\ fill.sell = sell
    BY <1>14 DEF NoFill
  <1>16. Filled(fill.buy) = Filled(fill.sell) /\ Filled(fill.buy) \in {0, f}
    BY <1>10, <1>12, <1>15
  <1> QED BY <1>1, <1>4, <1>11, <1>13, <1>16

\* The simulation of a priced trade.
LEMMA SimulateKeeps == ASSUME PricingInv, Simulate PROVE PricingInv'
  <1>1. stage = "priced" /\ stage' = "simulated" /\ UNCHANGED <<trades, ia, ib>>
    BY DEF Simulate
  <1>2. PICK v \in Nat : v = Volume(trades)
    BY VolumeIsNatural DEF PricingInv
  <1>3. Volume(trades)' = v
    BY <1>1, <1>2 DEF Volume
  <1>4. CASE kind = "complementary" /\ sim' = [NoFill EXCEPT !.skipped = "complementary"] /\ UNCHANGED depth
    <2>1. Filled(<<>>) = 0
      <3>1. SizesOf(<<>>) = <<>> /\ DOMAIN <<>> = {}
        BY DEF SizesOf
      <3> QED BY <3>1, SumOfNone DEF Filled, SumFunction
    <2>2. sim'.buy = <<>> /\ sim'.sell = <<>>
      BY <1>4 DEF NoFill
    <2>3. PICK da, db, ta, tb : depth = <<da, db>> /\ Offers(da, ta, bookA) /\ Offers(db, tb, bookB)
      BY <1>1 DEF PricingInv
    <2>4. ASSUME NEW o, NEW t, NEW levels, Offers(o, t, levels) PROVE SumFunction(o) \in Nat
      <3>1. PICK m \in Nat : DOMAIN o = 1..m /\ \A i \in 1..m : o[i] \in Nat
        BY <2>4 DEF Offers, BookList
      <3>2. IsFiniteSet(1..m)
        BY FS_Interval
      <3>3. SumFunctionOnSet(o, 1..m) \in Nat
        BY <3>1, <3>2, SumIsNatural
      <3> QED BY <3>1, <3>3 DEF SumFunction
    <2>5. PICK p, q \in Nat : p = SumFunction(da) /\ q = SumFunction(db)
      BY <2>3, <2>4
    <2>6. \A i \in 1..2 : 0 <= SumFunction(depth'[i])
      BY <1>4, <2>3, <2>5
    <2>7. SimHolds'
      BY <1>2, <1>3, <2>1, <2>2, <2>6 DEF SimHolds
    <2> QED BY <1>1, <2>7 DEF PricingInv
  <1>5. CASE kind = "same" /\ \E ra \in FreshBooks, rb \in FreshBooks, bps \in Rates :
               LET offered == Normalize(ra)
                   wanted == Normalize(rb)
               IN /\ sim' = ExecuteMarket(offered, wanted, Volume(trades), bps)
                  /\ depth' = <<SizesOf(Ascending(offered)), SizesOf(Descending(wanted))>>
    <2>1. PICK ra \in FreshBooks, rb \in FreshBooks, bps \in Rates :
                  /\ sim' = ExecuteMarket(Normalize(ra), Normalize(rb), v, bps)
                  /\ depth' = <<SizesOf(Ascending(Normalize(ra))), SizesOf(Descending(Normalize(rb)))>>
      BY <1>2, <1>5
    <2>2. ra \in Seq(BookLevel \cup {Malformed}) /\ rb \in Seq(BookLevel \cup {Malformed})
      BY PricingAssumption DEF PricingAssumption
    <2>3. BookList(Normalize(ra)) /\ BookList(Normalize(rb))
      BY <2>2, NormalizedIsBook
    <2>4. PICK offered, wanted : offered = Normalize(ra) /\ wanted = Normalize(rb)
      OBVIOUS
    <2>5. /\ Filled(sim'.buy) = Filled(sim'.sell) /\ Filled(sim'.buy) <= v
          /\ Filled(sim'.buy) <= SumFunction(SizesOf(Ascending(offered)))
          /\ Filled(sim'.buy) <= SumFunction(SizesOf(Descending(wanted)))
      BY <2>1, <2>3, <2>4, ExecutedExists
    <2>6. \A i \in 1..2 : Filled(sim'.buy) <= SumFunction(depth'[i])
      BY <2>1, <2>4, <2>5
    <2>7. SimHolds'
      BY <1>3, <2>5, <2>6 DEF SimHolds
    <2> QED BY <1>1, <2>7 DEF PricingInv
  <1> QED BY <1>4, <1>5 DEF Simulate

\* Every step of the pricing keeps what is taken within what is offered.
LEMMA PricingStep == PricingInv /\ [PricingNext]_pricingVars => PricingInv'
  <1> SUFFICES ASSUME PricingInv, [PricingNext]_pricingVars PROVE PricingInv'
    OBVIOUS
  <1>1. CASE SkipsSmall
    <2>1. ia' \in Nat \ {0} /\ ib' \in Nat \ {0}
      BY <1>1 DEF SkipsSmall, PricingInv
    <2>2. UNCHANGED <<stage, kind, bookA, bookB, depth, trades, took, sim>>
      BY <1>1 DEF SkipsSmall, inputs, books
    <2>3. stage = "walk"
      BY <1>1 DEF SkipsSmall
    <2> QED BY <2>1, <2>2, <2>3 DEF PricingInv
  <1>2. CASE TakesComplementary
    BY <1>2, TakesKeeps DEF TakesComplementary
  <1>3. CASE TakesSameOutcome
    BY <1>3, TakesKeeps DEF TakesSameOutcome
  <1>4. CASE Finish
    <2>1. UNCHANGED <<kind, bookA, bookB, depth, ia, ib, trades, took>> /\ stage = "walk" /\ stage' # "simulated"
      BY <1>4 DEF Finish, inputs, books
    <2> QED BY <2>1 DEF PricingInv
  <1>5. CASE Simulate
    BY <1>5, SimulateKeeps
  <1>6. CASE UNCHANGED pricingVars
    <2>1. UNCHANGED <<stage, kind, bookA, bookB, depth, ia, ib, trades, took, sim>>
      BY <1>6 DEF pricingVars, inputs, books
    <2>2. SimHolds => SimHolds'
      BY <2>1 DEF SimHolds, Volume
    <2> QED BY <2>1, <2>2 DEF PricingInv
  <1> QED BY <1>1, <1>2, <1>3, <1>4, <1>5, <1>6 DEF PricingNext

\* However the levels of two books interlock and whatever fees are charged, the complementary
\* walk prices no volume a level does not offer, and a simulated fill is as large on either
\* side, no larger than priced, and there in the books fetched again
\* (_calculate_complementary_volume, MockExecutionEngine.execute_market).
THEOREM VolumeExists == PricingSpec => []FilledWithinDepth
  <1>1. PricingInv => FilledWithinDepth
    <2> SUFFICES ASSUME PricingInv PROVE FilledWithinDepth
      OBVIOUS
    <2>1. ASSUME kind = "complementary", stage # "simulated", NEW i \in 1..2, NEW l \in DOMAIN took[i]
          PROVE  took[i][l] <= depth[i][l]
      <3>1. PICK da, db, ta, tb :
               /\ depth = <<da, db>> /\ took = <<ta, tb>>
               /\ Offers(da, ta, bookA) /\ Offers(db, tb, bookB)
               /\ Within(da, ta, bookA) /\ Within(db, tb, bookB)
        BY <2>1 DEF PricingInv
      <3>2. ASSUME NEW o, NEW t, NEW levels, Offers(o, t, levels), Within(o, t, levels), NEW k \in DOMAIN t
            PROVE  t[k] <= o[k]
        <4>1. k \in DOMAIN levels /\ levels[k] \in BookLevel
          BY <3>2 DEF Offers, BookList
        <4>2. PICK z \in Nat : z = levels[k].size
          BY <4>1, LevelHas
        <4>3. PICK a, b \in Nat : a = t[k] /\ b = o[k]
          BY <3>2, <4>1 DEF Offers
        <4>4. a + z <= b
          BY <3>2, <4>1, <4>2, <4>3 DEF Within
        <4> QED BY <4>3, <4>4
      <3>3. CASE i = 1
        BY <2>1, <3>1, <3>2, <3>3
      <3>4. CASE i = 2
        BY <2>1, <3>1, <3>2, <3>4
      <3> QED BY <3>3, <3>4
    <2>2. stage = "simulated" => SimHolds
      BY DEF PricingInv
    <2> QED BY <2>1, <2>2 DEF FilledWithinDepth, SimHolds
  <1> QED BY <1>1, PricingInitInv, PricingStep, PTL DEF PricingSpec

-----------------------------------------------------------------------------
(***************************************************************************)
(* The risk gate.  Sorting a book moves the walk's taking to a taking of   *)
(* the book the venue sent, so the walk pays no less than the cheapest and *)
(* no more than the dearest of them; and a score that passes was cut by    *)
(* none of the caps, so the slippages of the two legs are in it whole.     *)
(***************************************************************************)
\* A square root rounded down exists.
LEMMA RootIsNatural == ASSUME NEW n \in Nat PROVE Root(n) \in Nat
  <1> DEFINE T == {r \in 0..n : n < (r + 1) * (r + 1)}
  <1>1. n \in T
    OBVIOUS
  <1>2. PICK r \in T : \A q \in T : r <= q
    <2>1. T \in SUBSET (0..n) /\ 0..n \in SUBSET Nat
      OBVIOUS
    <2> HIDE DEF T
    <2>2. T \in SUBSET Nat /\ T # {}
      BY <1>1, <2>1
    <2> QED BY <2>2, LeastNumber
  <1>3. r * r <= n
    <2>1. CASE r = 0
      BY <2>1
    <2>2. CASE r # 0
      <3>1. PICK q \in 0..n : q = r - 1 /\ r = q + 1 /\ ~(r <= q)
        BY <2>2
      <3>2. q \notin T
        BY <1>2, <3>1
      <3>3. ~(n < (q + 1) * (q + 1))
        BY <3>2
      <3> QED BY <3>1, <3>3
    <2> QED BY <2>1, <2>2
  <1>4. \E q \in 0..n : q * q <= n /\ n < (q + 1) * (q + 1)
    BY <1>3
  <1>5. Root(n) \in 0..n
    BY <1>4 DEF Root
  <1> QED BY <1>5

LEMMA RiskLevelHas == ASSUME NEW l \in RiskLevel PROVE l.price \in Nat /\ l.size \in Nat
  BY DEF RiskLevel

\* Levels add up to a natural.
LEMMA TotalIsNatural == ASSUME NEW levels \in Seq(RiskLevel) PROVE TotalOf(levels) \in Nat
  <1>1. PICK m \in Nat : DOMAIN levels = 1..m /\ \A i \in 1..m : levels[i] \in RiskLevel
    OBVIOUS
  <1>2. PICK z : z = SizesOf(levels)
    OBVIOUS
  <1>3. DOMAIN z = 1..m /\ \A i \in 1..m : z[i] \in Nat
    BY <1>1, <1>2, RiskLevelHas DEF SizesOf
  <1>4. IsFiniteSet(1..m)
    BY FS_Interval
  <1>5. SumFunctionOnSet(z, 1..m) \in Nat
    BY <1>3, <1>4, SumIsNatural
  <1> QED BY <1>2, <1>3, <1>5 DEF TotalOf, SumFunction

\* What a taking costs is a natural, and no more than all there is.
LEMMA CostIsNatural ==
    ASSUME NEW levels \in Seq(RiskLevel), NEW t, \A i \in DOMAIN levels : t[i] \in Nat /\ t[i] <= levels[i].size
    PROVE  CostOf(levels, t) \in Nat /\ CostOf(levels, SizesOf(levels)) \in Nat
           /\ CostOf(levels, t) <= CostOf(levels, SizesOf(levels))
  <1>1. PICK m \in Nat : DOMAIN levels = 1..m /\ \A i \in 1..m : levels[i] \in RiskLevel
    OBVIOUS
  <1>2. PICK f, g : /\ f = [i \in DOMAIN levels |-> t[i] * levels[i].price]
                    /\ g = [i \in DOMAIN levels |-> SizesOf(levels)[i] * levels[i].price]
    OBVIOUS
  <1>3. ASSUME NEW i \in 1..m PROVE f[i] \in Nat /\ g[i] \in Nat /\ f[i] <= g[i] /\ -g[i] <= f[i]
    <2>1. PICK x, y, z \in Nat : x = t[i] /\ y = levels[i].price /\ z = levels[i].size
      BY <1>1, RiskLevelHas
    <2>2. f[i] = x * y /\ g[i] = z * y /\ x <= z
      BY <1>1, <1>2, <2>1 DEF SizesOf
    <2>3. x * y \in Nat /\ z * y \in Nat
      BY TimesNatural
    <2>4. x * y <= z * y
      BY <2>2
    <2> QED BY <2>2, <2>3, <2>4
  <1>4. IsFiniteSet(1..m)
    BY FS_Interval
  <1>5. SumFunctionOnSet(f, 1..m) \in Nat /\ SumFunctionOnSet(g, 1..m) \in Nat
    BY <1>3, <1>4, SumIsNatural
  <1>6. SumFunctionOnSet(f, 1..m) <= SumFunctionOnSet(g, 1..m)
    <2>1. \A i \in 1..m : f[i] \in Int /\ g[i] \in Int /\ f[i] <= g[i] /\ -g[i] <= f[i]
      BY <1>3
    <2> QED BY <1>4, <2>1, SumWithin
  <1> QED BY <1>1, <1>2, <1>5, <1>6 DEF CostOf, SumFunction

\* A sorted book: the walk over it is a taking of the book itself, and its first level has the
\* least rank.
LEMMA WalkIsTaking ==
    ASSUME NEW levels \in Seq(RiskLevel), NEW rank \in [DOMAIN levels -> Int], NEW size \in Nat,
           NEW s, s = Arranged(levels, DOMAIN levels, rank)
    PROVE  /\ s \in Seq(RiskLevel) /\ TotalOf(levels) \in Nat
           /\ levels # <<>> => s # <<>> /\ \E i \in DOMAIN levels : s[1] = levels[i] /\ \A j \in DOMAIN levels : rank[i] <= rank[j]
           /\ Walk(s, size).got = Least(size, TotalOf(levels))
           /\ \E t \in Takings(levels, size) : CostOf(levels, t) = Walk(s, size).cost
  <1>1. PICK I : I = DOMAIN levels
    OBVIOUS
  <1>2. I \in SUBSET DOMAIN levels /\ rank \in [I -> Int] /\ s = Arranged(levels, I, rank)
    BY <1>1
  <1>3. IsFiniteSet(I) /\ \E at : Arranges(at, s, levels, I, rank)
    BY <1>2, ArrangedBy
  <1>4. PICK at : Arranges(at, s, levels, I, rank)
    BY <1>3
  <1>5. PICK c \in Nat : c = Cardinality(I)
    BY <1>4 DEF Arranges
  <1>6. /\ at \in [1..c -> I] /\ s = [k \in 1..c |-> levels[at[k]]]
        /\ \A i \in I : \E k \in 1..c : at[k] = i
        /\ \A k, m \in 1..c : at[k] = at[m] => k = m
        /\ \A k, m \in 1..c : k < m => rank[at[k]] <= rank[at[m]]
    BY <1>4, <1>5 DEF Arranges
  <1>7. \A i \in I : levels[i] \in RiskLevel
    BY <1>1
  <1>8. s \in Seq(RiskLevel) /\ DOMAIN s = 1..c /\ (\A k \in 1..c : s[k] = levels[at[k]] /\ at[k] \in I /\ s[k] \in RiskLevel)
    BY <1>6, <1>7
  <1>9. PICK fill : fill = TakenFrom(s, size)
    OBVIOUS
  <1>10. /\ fill \in [1..c -> 0..size] /\ \A k \in 1..c : fill[k] <= s[k].size
         /\ SumFunction(fill) = Smaller(size, SumFunction(SizesOf(s)))
    BY <1>8, <1>9, WalkTakes, RiskLevelHas
  <1>11. PICK inv : inv = [i \in I |-> CHOOSE k \in 1..c : at[k] = i]
    OBVIOUS
  <1>12. \A i \in I : inv[i] \in 1..c /\ at[inv[i]] = i
    BY <1>6, <1>11
  <1>13. \A k \in 1..c : inv[at[k]] = k
    BY <1>6, <1>8, <1>12
  <1>14. PICK t : t = [i \in I |-> fill[inv[i]]]
    OBVIOUS
  <1>15. t \in [I -> 0..size] /\ (\A k \in 1..c : t[at[k]] = fill[k]) /\ \A i \in I : t[i] <= levels[i].size
    <2>1. ASSUME NEW i \in I PROVE t[i] \in 0..size /\ t[i] <= levels[i].size
      <3>1. PICK k \in 1..c : k = inv[i] /\ at[k] = i
        BY <1>12
      <3> QED BY <1>8, <1>10, <1>14, <3>1
    <2>2. \A k \in 1..c : t[at[k]] = fill[k]
      BY <1>8, <1>13, <1>14
    <2> QED BY <1>14, <2>1, <2>2
  <1>16. ASSUME NEW f, NEW g, DOMAIN f = I, DOMAIN g = 1..c, \A i \in I : f[i] \in Int, \A k \in 1..c : g[k] = f[at[k]]
         PROVE  SumFunction(g) = SumFunction(f)
    <2>1. \A k \in 1..Cardinality(I) : g[k] = f[at[k]]
      BY <1>5, <1>16
    <2>2. SumFunctionOnSet(g, 1..Cardinality(I)) = SumFunctionOnSet(f, I)
      BY <1>3, <1>4, <1>16, <2>1, SumArranged
    <2> QED BY <1>5, <1>16, <2>2 DEF SumFunction
  <1>17. SumFunction(SizesOf(s)) = TotalOf(levels)
    <2>1. PICK f, g : f = SizesOf(levels) /\ g = SizesOf(s)
      OBVIOUS
    <2>2. DOMAIN f = I /\ DOMAIN g = 1..c /\ \A k \in 1..c : g[k] = f[at[k]]
      BY <1>1, <1>8, <2>1 DEF SizesOf
    <2>3. \A i \in I : f[i] \in Int
      BY <1>1, <1>7, <2>1, RiskLevelHas DEF SizesOf
    <2>4. SumFunction(g) = SumFunction(f)
      BY <1>16, <2>2, <2>3
    <2> QED BY <2>1, <2>4 DEF TotalOf
  <1>18. SumFunction(fill) = SumFunction(t)
    <2>1. DOMAIN t = I /\ DOMAIN fill = 1..c /\ (\A i \in I : t[i] \in Int) /\ \A k \in 1..c : fill[k] = t[at[k]]
      BY <1>10, <1>15
    <2> QED BY <1>16, <2>1
  <1>19. CostOf(s, fill) = CostOf(levels, t)
    <2>1. PICK f, g : f = [i \in I |-> t[i] * levels[i].price] /\ g = [k \in 1..c |-> fill[k] * s[k].price]
      OBVIOUS
    <2>2. \A k \in 1..c : g[k] = f[at[k]]
      BY <1>8, <1>15, <2>1
    <2>3. ASSUME NEW i \in I PROVE f[i] \in Int
      <3>1. PICK x, y \in Nat : x = t[i] /\ y = levels[i].price
        BY <1>7, <1>15, RiskLevelHas
      <3> QED BY <2>1, <3>1, TimesNatural
    <2>4. DOMAIN f = I /\ DOMAIN g = 1..c
      BY <2>1
    <2>5. SumFunction(g) = SumFunction(f)
      BY <1>16, <2>2, <2>3, <2>4
    <2> QED BY <1>1, <1>8, <2>1, <2>5 DEF CostOf
  <1>20. TotalOf(levels) \in Nat
    BY TotalIsNatural
  <1>21. Walk(s, size).got = SumFunction(fill) /\ Walk(s, size).cost = CostOf(s, fill)
    BY <1>9 DEF Walk
  <1>22. SumFunction(fill) = Least(size, TotalOf(levels))
    BY <1>10, <1>17, <1>20 DEF Smaller, Least
  <1>23. t \in Takings(levels, size)
    BY <1>1, <1>15, <1>18, <1>22 DEF Takings
  <1>24. ASSUME levels # <<>>
         PROVE  s # <<>> /\ \E i \in DOMAIN levels : s[1] = levels[i] /\ \A j \in DOMAIN levels : rank[i] <= rank[j]
    <2>1. 1 \in I
      BY <1>1, <1>24
    <2>2. 1 \in 1..c
      BY <1>6, <2>1
    <2>3. \A j \in I : rank[at[1]] <= rank[j]
      <3>1. ASSUME NEW j \in I PROVE rank[at[1]] <= rank[j]
        <4>1. PICK k \in 1..c : at[k] = j
          BY <1>6
        <4>2. CASE k = 1
          BY <1>2, <4>1, <4>2
        <4>3. CASE k # 1
          <5>1. 1 < k
            BY <4>3
          <5> QED BY <1>6, <2>2, <4>1, <5>1
        <4> QED BY <4>2, <4>3
      <3> QED BY <3>1
    <2> QED BY <1>1, <1>8, <2>2, <2>3
  <1> QED BY <1>8, <1>19, <1>20, <1>21, <1>22, <1>23, <1>24

\* The costs of the takings have a least and a greatest one.
LEMMA CostsAreBounded ==
    ASSUME NEW levels \in Seq(RiskLevel), NEW size \in Nat, NEW w \in Takings(levels, size),
           NEW costs, costs = CostsOf(levels, size)
    PROVE  /\ CostOf(levels, w) \in Nat /\ Min(costs) \in Nat /\ Max(costs) \in Nat
           /\ Min(costs) <= CostOf(levels, w) /\ CostOf(levels, w) <= Max(costs)
  <1>1. \A t \in Takings(levels, size) : \A i \in DOMAIN levels : t[i] \in Nat /\ t[i] <= levels[i].size
    BY DEF Takings
  <1>2. \A t \in Takings(levels, size) : CostOf(levels, t) \in Nat
    BY <1>1, CostIsNatural
  <1>3. PICK most \in Nat : most = CostOf(levels, SizesOf(levels))
    BY <1>1, CostIsNatural
  <1>4. \A t \in Takings(levels, size) : CostOf(levels, t) <= most
    BY <1>1, <1>3, CostIsNatural
  <1>5. costs \in SUBSET Nat /\ CostOf(levels, w) \in costs /\ \A x \in costs : x <= most
    BY <1>2, <1>4 DEF CostsOf
  <1>6. Min(costs) \in costs /\ \A x \in costs : Min(costs) <= x
    <2>1. \E x \in costs : \A y \in costs : x <= y
      BY <1>5, LeastNumber
    <2> QED BY <2>1 DEF Min
  <1>7. Max(costs) \in costs /\ \A x \in costs : Max(costs) >= x
    <2>1. \E x \in costs : \A y \in costs : x >= y
      BY <1>3, <1>5, GreatestNumber
    <2> QED BY <2>1 DEF Max
  <1>8. PICK x, y, z \in Nat : x = Min(costs) /\ y = Max(costs) /\ z = CostOf(levels, w)
    BY <1>5, <1>6, <1>7
  <1> QED BY <1>5, <1>6, <1>7, <1>8

\* The impact and the timing add to a slippage, whatever the depth.
LEMMA SlippageAdds ==
    ASSUME NEW s \in Seq(RiskLevel), NEW size \in Nat
    PROVE  CalculateImpact(size, DepthOf(s)) \in Nat /\ EstimateTimingRisk(size, DepthOf(s)) \in Nat
  <1>1. PICK d \in Nat : d = DepthOf(s)
    <2>1. Least(10, Len(s)) \in 0..Len(s)
      BY DEF Least
    <2>2. SubSeq(s, 1, Least(10, Len(s))) \in Seq(RiskLevel)
      BY <2>1
    <2> QED BY <2>2, TotalIsNatural DEF DepthOf
  <1>2. CalculateImpact(size, d) \in Nat
    <2>1. CASE d <= 0
      BY <2>1 DEF CalculateImpact
    <2>2. CASE ~(d <= 0)
      <3>1. d \in Nat \ {0} /\ 10 * size \in Nat /\ 10000 * size \in Nat
        BY <2>2
      <3>2. PICK x, y \in Nat : x = (10 * size) \div d /\ y = (10000 * size) \div d
        <4>1. \A u \in Nat : u \div d \in Nat
          BY <3>1, DivNatural
        <4>2. PICK u, v \in Nat : u = 10 * size /\ v = 10000 * size
          BY ONLY <3>1
        <4>3. u \div d \in Nat /\ v \div d \in Nat
          BY ONLY <4>1, <4>2
        <4> QED BY ONLY <4>2, <4>3
      <3>3. PICK z \in Nat : z = Root(y)
        BY RootIsNatural
      <3>4. CalculateImpact(size, d) = Least(5000, x + z)
        BY <2>2, <3>2, <3>3 DEF CalculateImpact
      <3> QED BY <3>4 DEF Least
    <2> QED BY <2>1, <2>2
  <1>3. EstimateTimingRisk(size, d) \in Nat
    <2>1. CASE d > 0
      <3>1. PICK m \in Nat : m = 125 * (d + Least(size, d))
        BY DEF Least
      <3>2. 12 * d \in Nat \ {0}
        BY <2>1
      <3>3. m \div (12 * d) \in Nat
        BY <3>2, DivNatural
      <3>4. EstimateTimingRisk(size, d) = Root(m \div (12 * d))
        BY <2>1, <3>1 DEF EstimateTimingRisk
      <3> QED BY <3>3, <3>4, RootIsNatural
    <2>2. CASE ~(d > 0)
      <3>1. 125 \div 12 \in Nat
        OBVIOUS
      <3> QED BY <2>2, <3>1, RootIsNatural DEF EstimateTimingRisk
    <2> QED BY <2>1, <2>2
  <1> QED BY <1>1, <1>2, <1>3


\* A distance as a share of a sum, in the units of the score.
Share(x, d) == (100000 * x) \div d

\* A taking w costs paid, and lies from flat no further than the share all says.
Walked(levels, size, w, flat, paid, all) ==
    /\ w \in Takings(levels, size) /\ flat \in Nat \ {0} /\ paid \in Nat /\ paid = CostOf(levels, w)
    /\ Share(Distance(paid, flat), flat) <= all
\* The slippage of a leg is at least how far its taking lies from the first price.
LEMMA SlippageIsWalked ==
    ASSUME NEW levels \in Seq(RiskLevel), NEW rank \in [DOMAIN levels -> Int], NEW size \in Nat,
           NEW s, s = Arranged(levels, DOMAIN levels, rank), ~WalkFails(s, size),
           NEW sum, sum = Least(size, TotalOf(levels))
    PROVE  /\ EstimateSlippage(s, size) \in Nat /\ sum \in Nat
           /\ levels # <<>> /\ sum # 0 =>
                \E w, paid : Walked(levels, size, w, s[1].price * sum, paid, EstimateSlippage(s, size))
  <1>1. /\ s \in Seq(RiskLevel) /\ TotalOf(levels) \in Nat
        /\ levels # <<>> => s # <<>>
        /\ Walk(s, size).got = sum
        /\ \E t \in Takings(levels, size) : CostOf(levels, t) = Walk(s, size).cost
    BY WalkIsTaking
  <1>2. PICK w \in Takings(levels, size) : CostOf(levels, w) = Walk(s, size).cost
    BY <1>1
  <1>3. PICK paid \in Nat : paid = CostOf(levels, w) /\ paid = Walk(s, size).cost
    <2>1. \A i \in DOMAIN levels : w[i] \in Nat /\ w[i] <= levels[i].size
      BY DEF Takings
    <2> QED BY <1>2, <2>1, CostIsNatural
  <1>4. sum \in Nat
    BY <1>1 DEF Least
  <1>5. PICK impact, timing \in Nat : impact = CalculateImpact(size, DepthOf(s)) /\ timing = EstimateTimingRisk(size, DepthOf(s))
    BY <1>1, SlippageAdds
  <1>6. CASE s = <<>>
    BY <1>1, <1>4, <1>6 DEF EstimateSlippage
  <1>7. CASE s # <<>> /\ sum = 0
    <2>1. WalkOrderbook(s, size) = 5000
      BY <1>1, <1>7 DEF WalkOrderbook
    <2> QED BY <1>4, <1>5, <1>7, <2>1 DEF EstimateSlippage
  <1>8. CASE s # <<>> /\ sum # 0
    <2>1. PICK p \in Nat : p = s[1].price
      <3>1. s[1] \in RiskLevel
        BY <1>1, <1>8
      <3> QED BY <3>1, RiskLevelHas
    <2>2. p # 0
      BY <1>1, <1>4, <1>8, <2>1 DEF WalkFails
    <2>3. PICK flat \in Nat \ {0} : flat = p * sum
      BY <1>4, <1>8, <2>2, TimesNatural
    <2>4. PICK off \in Nat : off = Distance(paid, flat)
      <3>1. paid < flat => flat - paid \in Nat
        BY <2>3
      <3>2. ~(paid < flat) => paid - flat \in Nat
        BY <2>3
      <3> QED BY <3>1, <3>2 DEF Distance
    <2>5. PICK y \in Nat : y = (100000 * off) \div flat
      <3>1. 100000 * off \in Nat
        OBVIOUS
      <3>2. \A u \in Nat : u \div flat \in Nat
        BY DivNatural
      <3>3. PICK u \in Nat : u = 100000 * off
        BY ONLY <3>1
      <3>4. u \div flat \in Nat
        BY ONLY <3>2, <3>3
      <3> QED BY ONLY <3>3, <3>4
    <2>6. WalkOrderbook(s, size) = y
      BY <1>1, <1>3, <1>8, <2>1, <2>3, <2>4, <2>5 DEF WalkOrderbook
    <2>7. EstimateSlippage(s, size) = y + impact + timing
      BY <1>5, <1>8, <2>6 DEF EstimateSlippage
    <2>8. EstimateSlippage(s, size) \in Nat /\ y <= EstimateSlippage(s, size)
      BY <2>7
    <2>9. Share(Distance(paid, flat), flat) <= EstimateSlippage(s, size)
      BY <2>4, <2>5, <2>8 DEF Share
    <2>10. Walked(levels, size, w, flat, paid, EstimateSlippage(s, size))
      BY <1>3, <2>9 DEF Walked
    <2>11. flat = s[1].price * sum
      BY <2>1, <2>3
    <2>12. Walked(levels, size, w, s[1].price * sum, paid, EstimateSlippage(s, size))
      BY <2>10, <2>11
    <2> QED BY <1>4, <2>8, <2>12
  <1> QED BY <1>6, <1>7, <1>8

\* Numbers with a loss no larger than a distance have a smaller share.
LEMMA ShareGrows ==
    ASSUME NEW x \in Int, NEW y \in Int, x <= y, NEW d \in Nat \ {0}
    PROVE  Share(x, d) \in Int /\ Share(y, d) \in Int /\ Share(x, d) <= Share(y, d)
  <1>1. 100000 * x \in Int /\ 100000 * y \in Int /\ 100000 * x <= 100000 * y
    OBVIOUS
  <1>2. (100000 * x) \div d <= (100000 * y) \div d
    BY <1>1, DivGrows
  <1>3. (100000 * x) \div d \in Int /\ (100000 * y) \div d \in Int
    BY <1>1
  <1> QED BY <1>2, <1>3 DEF Share

\* The lowest price comes first in the rising order, and the highest in the falling one.
LEMMA LowestIsFirst ==
    ASSUME NEW levels \in Seq(RiskLevel), levels # <<>>
    PROVE  Ascending(levels)[1].price = Min(PricesOf(levels))
  <1>1. PICK rank, s, prices : /\ rank = [i \in DOMAIN levels |-> levels[i].price] /\ s = Ascending(levels)
                               /\ prices = PricesOf(levels)
    OBVIOUS
  <1>2. \A j \in DOMAIN levels : levels[j].price \in Nat
    BY RiskLevelHas
  <1>3. rank \in [DOMAIN levels -> Int] /\ s = Arranged(levels, DOMAIN levels, rank)
    BY <1>1, <1>2 DEF Ascending
  <1>4. PICK i \in DOMAIN levels : s[1] = levels[i] /\ \A j \in DOMAIN levels : rank[i] <= rank[j]
    <2>1. 0 \in Nat
      OBVIOUS
    <2> QED BY <1>3, <2>1, WalkIsTaking
  <1>5. PICK p \in Nat : p = s[1].price /\ p = levels[i].price
    BY <1>2, <1>4
  <1>6. prices \in SUBSET Nat /\ p \in prices /\ \A x \in prices : p <= x
    BY <1>1, <1>2, <1>4, <1>5 DEF PricesOf
  <1>7. Min(prices) \in prices /\ \A x \in prices : Min(prices) <= x
    BY <1>6 DEF Min
  <1>8. PICK m \in Nat : m = Min(prices) /\ m <= p /\ p <= m
    BY <1>6, <1>7
  <1> QED BY <1>1, <1>5, <1>8
LEMMA HighestIsFirst ==
    ASSUME NEW levels \in Seq(RiskLevel), levels # <<>>
    PROVE  Descending(levels)[1].price = Max(PricesOf(levels))
  <1>1. PICK rank, s, prices : /\ rank = [i \in DOMAIN levels |-> -levels[i].price] /\ s = Descending(levels)
                               /\ prices = PricesOf(levels)
    OBVIOUS
  <1>2. \A j \in DOMAIN levels : levels[j].price \in Nat
    BY RiskLevelHas
  <1>3. rank \in [DOMAIN levels -> Int] /\ s = Arranged(levels, DOMAIN levels, rank)
    BY <1>1, <1>2 DEF Descending
  <1>4. PICK i \in DOMAIN levels : s[1] = levels[i] /\ \A j \in DOMAIN levels : rank[i] <= rank[j]
    <2>1. 0 \in Nat
      OBVIOUS
    <2> QED BY <1>3, <2>1, WalkIsTaking
  <1>5. PICK p \in Nat : p = s[1].price /\ p = levels[i].price
    BY <1>2, <1>4
  <1>6. prices \in SUBSET Nat /\ p \in prices /\ \A x \in prices : p >= x
    <2>1. ASSUME NEW j \in DOMAIN levels PROVE p >= levels[j].price
      <3>1. PICK q \in Nat : q = levels[j].price
        BY <1>2
      <3>2. -p <= -q
        BY <1>1, <1>4, <1>5, <3>1
      <3> QED BY <3>1, <3>2
    <2> QED BY <1>1, <1>2, <1>5, <2>1 DEF PricesOf
  <1>7. Max(prices) \in prices /\ \A x \in prices : Max(prices) >= x
    BY <1>6 DEF Max
  <1>8. PICK m \in Nat : m = Max(prices) /\ m <= p /\ p <= m
    BY <1>6, <1>7
  <1> QED BY <1>1, <1>5, <1>8

\* A leg scored on its sorted side loses no more to the book than its slippage says.
LEMMA BuyIsScored ==
    ASSUME NEW levels \in Seq(RiskLevel), NEW size \in Nat, ~WalkFails(Ascending(levels), size)
    PROVE  /\ EstimateSlippage(Ascending(levels), size) \in Nat /\ Shortfall(levels, size, "buy") \in Int
           /\ Shortfall(levels, size, "buy") <= EstimateSlippage(Ascending(levels), size)
  <1>1. PICK rank, s, sum, costs, prices :
             /\ rank = [i \in DOMAIN levels |-> levels[i].price] /\ s = Ascending(levels)
             /\ sum = Least(size, TotalOf(levels)) /\ costs = CostsOf(levels, size) /\ prices = PricesOf(levels)
    OBVIOUS
  <1>2. /\ rank \in [DOMAIN levels -> Int] /\ s = Arranged(levels, DOMAIN levels, rank)
        /\ \A i \in DOMAIN levels : rank[i] = levels[i].price
    <2>1. \A i \in DOMAIN levels : levels[i].price \in Int
      BY RiskLevelHas
    <2> QED BY <1>1, <2>1 DEF Ascending
  <1>3. PICK all \in Nat : /\ all = EstimateSlippage(s, size)
                           /\ levels # <<>> /\ sum # 0 =>
                                \E w, paid : Walked(levels, size, w, s[1].price * sum, paid, all)
    <2>1. ~WalkFails(s, size) /\ sum = Least(size, TotalOf(levels))
      BY <1>1
    <2>2. /\ EstimateSlippage(s, size) \in Nat
          /\ levels # <<>> /\ sum # 0 =>
                \E w, paid : Walked(levels, size, w, s[1].price * sum, paid, EstimateSlippage(s, size))
      BY <1>2, <2>1, SlippageIsWalked
    <2> QED BY <2>2
  <1>4. CASE levels = <<>> \/ sum = 0
    <2>1. Shortfall(levels, size, "buy") = 0
      BY <1>1, <1>4 DEF Shortfall
    <2> QED BY <1>1, <1>3, <2>1
  <1>5. CASE levels # <<>> /\ sum # 0
    <2>1. PICK w, paid : Walked(levels, size, w, s[1].price * sum, paid, all)
      BY <1>3, <1>5
    <2>2. PICK flat : flat = s[1].price * sum
      OBVIOUS
    <2>3. /\ w \in Takings(levels, size) /\ flat \in Nat \ {0} /\ paid \in Nat /\ paid = CostOf(levels, w)
          /\ Share(Distance(paid, flat), flat) <= all
      BY <2>1, <2>2 DEF Walked
    <2>4. PICK low \in Nat : low = Min(costs) /\ low <= paid
      BY <1>1, <2>3, CostsAreBounded
    <2>5. flat = Min(prices) * sum
      <3>1. s[1].price = Min(prices)
        BY <1>1, <1>5, LowestIsFirst
      <3> QED BY <2>2, <3>1
    <2>6. PICK off : off = Distance(paid, flat) /\ off \in Int /\ low - flat <= off
      <3>1. PICK off : off = IF paid < flat THEN flat - paid ELSE paid - flat
        OBVIOUS
      <3>2. off \in Int /\ low - flat <= off
        BY <2>3, <2>4, <3>1
      <3> QED BY <3>1, <3>2 DEF Distance
    <2>7. Share(low - flat, flat) \in Int /\ Share(off, flat) \in Int /\ Share(low - flat, flat) <= Share(off, flat)
      <3>1. low - flat \in Int
        BY <2>3, <2>4
      <3> QED BY <2>3, <2>6, <3>1, ShareGrows
    <2>8. Shortfall(levels, size, "buy") = Share(low - flat, flat)
      <3>1. Shortfall(levels, size, "buy") = Share(Min(costs) - Min(prices) * sum, Min(prices) * sum)
        BY <1>1, <1>5 DEF Shortfall, Share
      <3> QED BY <2>4, <2>5, <3>1
    <2>9. Share(off, flat) <= all
      BY <2>3, <2>6
    <2> QED BY <1>1, <1>3, <2>7, <2>8, <2>9
  <1> QED BY <1>4, <1>5
LEMMA SaleIsScored ==
    ASSUME NEW levels \in Seq(RiskLevel), NEW size \in Nat, ~WalkFails(Descending(levels), size)
    PROVE  /\ EstimateSlippage(Descending(levels), size) \in Nat /\ Shortfall(levels, size, "sell") \in Int
           /\ Shortfall(levels, size, "sell") <= EstimateSlippage(Descending(levels), size)
  <1>1. PICK rank, s, sum, costs, prices :
             /\ rank = [i \in DOMAIN levels |-> -levels[i].price] /\ s = Descending(levels)
             /\ sum = Least(size, TotalOf(levels)) /\ costs = CostsOf(levels, size) /\ prices = PricesOf(levels)
    OBVIOUS
  <1>2. /\ rank \in [DOMAIN levels -> Int] /\ s = Arranged(levels, DOMAIN levels, rank)
        /\ \A i \in DOMAIN levels : rank[i] = -levels[i].price
    <2>1. \A i \in DOMAIN levels : levels[i].price \in Nat
      BY RiskLevelHas
    <2> QED BY <1>1, <2>1 DEF Descending
  <1>3. PICK all \in Nat : /\ all = EstimateSlippage(s, size)
                           /\ levels # <<>> /\ sum # 0 =>
                                \E w, paid : Walked(levels, size, w, s[1].price * sum, paid, all)
    <2>1. ~WalkFails(s, size) /\ sum = Least(size, TotalOf(levels))
      BY <1>1
    <2>2. /\ EstimateSlippage(s, size) \in Nat
          /\ levels # <<>> /\ sum # 0 =>
                \E w, paid : Walked(levels, size, w, s[1].price * sum, paid, EstimateSlippage(s, size))
      BY <1>2, <2>1, SlippageIsWalked
    <2> QED BY <2>2
  <1>4. CASE levels = <<>> \/ sum = 0
    <2>1. Shortfall(levels, size, "sell") = 0
      BY <1>1, <1>4 DEF Shortfall
    <2> QED BY <1>1, <1>3, <2>1
  <1>5. CASE levels # <<>> /\ sum # 0
    <2>1. PICK w, paid : Walked(levels, size, w, s[1].price * sum, paid, all)
      BY <1>3, <1>5
    <2>2. PICK flat : flat = s[1].price * sum
      OBVIOUS
    <2>3. /\ w \in Takings(levels, size) /\ flat \in Nat \ {0} /\ paid \in Nat /\ paid = CostOf(levels, w)
          /\ Share(Distance(paid, flat), flat) <= all
      BY <2>1, <2>2 DEF Walked
    <2>4. PICK high \in Nat : high = Max(costs) /\ paid <= high
      BY <1>1, <2>3, CostsAreBounded
    <2>5. flat = Max(prices) * sum
      <3>1. s[1].price = Max(prices)
        BY <1>1, <1>5, HighestIsFirst
      <3> QED BY <2>2, <3>1
    <2>6. PICK off : off = Distance(paid, flat) /\ off \in Int /\ flat - high <= off
      <3>1. PICK off : off = IF paid < flat THEN flat - paid ELSE paid - flat
        OBVIOUS
      <3>2. off \in Int /\ flat - high <= off
        BY <2>3, <2>4, <3>1
      <3> QED BY <3>1, <3>2 DEF Distance
    <2>7. Share(flat - high, flat) \in Int /\ Share(off, flat) \in Int /\ Share(flat - high, flat) <= Share(off, flat)
      <3>1. flat - high \in Int
        BY <2>3, <2>4
      <3> QED BY <2>3, <2>6, <3>1, ShareGrows
    <2>8. Shortfall(levels, size, "sell") = Share(flat - high, flat)
      <3>1. Shortfall(levels, size, "sell") = Share(Max(prices) * sum - Max(costs), Max(prices) * sum)
        BY <1>1, <1>5 DEF Shortfall, Share
      <3> QED BY <2>4, <2>5, <3>1
    <2>9. Share(off, flat) <= all
      BY <2>3, <2>6
    <2> QED BY <1>1, <1>3, <2>7, <2>8, <2>9
  <1> QED BY <1>4, <1>5

\* Normalising leaves a book's prices alone unless a Kalshi level is at one cent.
LEMMA LevelsStay ==
    ASSUME NEW levels \in Seq(RiskLevel), NEW venue, ~\E l \in Range(levels) : l.price = 1
    PROVE  NormalLevels(levels, venue) = levels
  <1>1. ASSUME NEW i \in DOMAIN levels PROVE [levels[i] EXCEPT !.price = DollarsOrCents(@)] = levels[i]
    <2>1. levels[i] \in RiskLevel /\ levels[i].price # 1 /\ levels[i].price \in Nat
      BY RiskLevelHas DEF Range
    <2>2. DollarsOrCents(levels[i].price) = levels[i].price
      BY <2>1 DEF DollarsOrCents
    <2> QED BY <2>1, <2>2 DEF RiskLevel
  <1>2. [i \in DOMAIN levels |-> [levels[i] EXCEPT !.price = DollarsOrCents(@)]] = levels
    BY <1>1
  <1> QED BY <1>2 DEF NormalLevels

\* A book that is attached is normalised to its levels in the order of their prices.
LEMMA BookIsSorted ==
    ASSUME NEW raw \in RiskBook, NEW venue \in RiskVenues,
           venue = "kalshi" => ~\E l \in Range(raw.bids) \cup Range(raw.asks) : l.price = 1
    PROVE  LET book == NormalBook(raw, venue)
           IN book # NoRiskBook /\ book.bids = Descending(raw.bids) /\ book.asks = Ascending(raw.asks)
  <1>1. raw.bids \in Seq(RiskLevel) /\ raw.asks \in Seq(RiskLevel) /\ raw.age \in Int /\ raw # NoRiskBook
    BY RiskAssumption DEF RiskAssumption, RiskBook
  <1>2. NormalLevels(raw.bids, venue) = raw.bids /\ NormalLevels(raw.asks, venue) = raw.asks
    <2>1. CASE venue = "kalshi"
      BY <1>1, <2>1, LevelsStay
    <2>2. CASE venue # "kalshi"
      BY <2>2 DEF NormalLevels
    <2> QED BY <2>1, <2>2
  <1>3. NormalBook(raw, venue) = [bids |-> Descending(raw.bids), asks |-> Ascending(raw.asks), age |-> AgeOf(raw)]
    BY <1>1, <1>2 DEF NormalBook, SortSides
  <1>4. Descending(raw.bids) \in Seq(RiskLevel) /\ Ascending(raw.asks) \in Seq(RiskLevel)
    <2>1. ASSUME NEW levels \in Seq(RiskLevel), NEW rank \in [DOMAIN levels -> Int]
          PROVE  Arranged(levels, DOMAIN levels, rank) \in Seq(RiskLevel)
      BY ArrangedHas
    <2>2. ASSUME NEW levels \in Seq(RiskLevel)
          PROVE  /\ [i \in DOMAIN levels |-> levels[i].price] \in [DOMAIN levels -> Int]
                 /\ [i \in DOMAIN levels |-> -levels[i].price] \in [DOMAIN levels -> Int]
      <3>1. \A i \in DOMAIN levels : levels[i].price \in Nat
        BY RiskLevelHas
      <3> QED BY <3>1
    <2> QED BY <1>1, <2>1, <2>2 DEF Descending, Ascending
  <1>5. NormalBook(raw, venue) \in RiskBook
    <2>1. AgeOf(raw) \in Int
      BY <1>1 DEF AgeOf
    <2> QED BY <1>3, <1>4, <2>1 DEF RiskBook
  <1>6. NormalBook(raw, venue) # NoRiskBook
    BY <1>5, RiskAssumption DEF RiskAssumption
  <1> QED BY <1>3, <1>6

\* A score that passes was cut by no cap and holds both slippages whole.
LEMMA ScoreIsWhole ==
    ASSUME NEW o \in RiskOpportunity, NEW b, NEW c, b # NoRiskBook, c # NoRiskBook,
           NEW x \in Nat, x = EstimateSlippage(b.asks, o.size), NEW y \in Nat, y = EstimateSlippage(c.bids, o.size),
           ~(AssessUnsafe(o, b, c).score > MaxRiskScore)
    PROVE  /\ CalculateMarketRisk(o.margin) \in Nat /\ CalculatePlatformRisk(o.buyer, o.seller) \in Nat
           /\ x + y <= MaxRiskScore - CalculateMarketRisk(o.margin) - CalculatePlatformRisk(o.buyer, o.seller)
  <1>1. PICK m, p \in Nat : /\ m = CalculateMarketRisk(o.margin) /\ p = CalculatePlatformRisk(o.buyer, o.seller)
                            /\ m >= 10000 /\ p >= 5000
    <2>1. CalculateMarketRisk(o.margin) \in {10000, 20000, 30000}
      BY DEF CalculateMarketRisk
    <2>2. CalculatePlatformRisk(o.buyer, o.seller) \in {5000, 8000, 10000, 13000}
      BY DEF CalculatePlatformRisk
    <2> QED BY <2>1, <2>2
  <1>2. PICK e \in Nat : e = CalculateExecutionRisk(b, c, o.size) /\ e = Least(50000, x + y)
    <2>1. CalculateExecutionRisk(b, c, o.size) = Least(50000, x + y)
      BY DEF CalculateExecutionRisk
    <2>2. Least(50000, x + y) \in Nat
      BY DEF Least
    <2> QED BY <2>1, <2>2
  <1>3. ~(Least(100000, e + m + p) > 60000)
    BY <1>1, <1>2 DEF AssessUnsafe, MaxRiskScore
  <1>4. e + m + p <= 60000
    BY <1>1, <1>2, <1>3 DEF Least
  <1>5. x + y = e
    BY <1>1, <1>2, <1>4 DEF Least
  <1> QED BY <1>1, <1>4, <1>5 DEF MaxRiskScore

\* What is asked about does not change, and the verdict is the gate's.
RiskInv ==
    /\ asked \in [opp : RiskOpportunities, books : [RiskVenues -> RiskBooks]]
    /\ riskVerdict \in {"unasked", RiskGate(asked)}

\* An opportunity that passes with both books attached loses no more to them than is left.
LEMMA PassedIsBounded ==
    ASSUME RiskInv, riskVerdict = "pass", \A v \in RiskVenues : asked.books[v] # NoRiskBook,
           ~\E l \in Range(asked.books["kalshi"].bids) \cup Range(asked.books["kalshi"].asks) : l.price = 1
    PROVE  LET opp == asked.opp
               book(v) == asked.books[v]
           IN /\ opp.readable
              /\ Shortfall(book(opp.buyer).asks, opp.size, "buy") + Shortfall(book(opp.seller).bids, opp.size, "sell")
                    <= MaxRiskScore - CalculateMarketRisk(opp.margin) - CalculatePlatformRisk(opp.buyer, opp.seller)
  <1>1. PICK o, books2 : o = asked.opp /\ books2 = asked.books
    OBVIOUS
  <1>2. /\ o \in RiskOpportunity /\ o.buyer \in RiskVenues /\ o.seller \in RiskVenues /\ o.size \in Nat
        /\ \A v \in RiskVenues : books2[v] \in RiskBook
    <2>1. o \in RiskOpportunities /\ books2 \in [RiskVenues -> RiskBooks]
      BY <1>1 DEF RiskInv
    <2>2. o \in RiskOpportunity
      BY <2>1, RiskAssumption DEF RiskAssumption
    <2>3. o.buyer \in RiskVenues /\ o.seller \in RiskVenues /\ o.size \in Nat
      BY <2>2 DEF RiskOpportunity, RiskVenues
    <2>4. \A v \in RiskVenues : books2[v] \in RiskBook
      BY <1>1, <2>1, RiskAssumption DEF RiskAssumption
    <2> QED BY <2>2, <2>3, <2>4
  <1>3. PICK rawA, rawB, b, c :
           /\ rawA = books2[o.buyer] /\ b = NormalBook(rawA, o.buyer)
           /\ rawB = books2[o.seller] /\ c = NormalBook(rawB, o.seller)
    OBVIOUS
  <1>4. /\ rawA \in RiskBook /\ rawB \in RiskBook
        /\ b # NoRiskBook /\ b.asks = Ascending(rawA.asks) /\ c # NoRiskBook /\ c.bids = Descending(rawB.bids)
    <2>1. rawA \in RiskBook /\ rawB \in RiskBook
      BY <1>2, <1>3
    <2>2. /\ o.buyer = "kalshi" => ~\E l \in Range(rawA.bids) \cup Range(rawA.asks) : l.price = 1
          /\ o.seller = "kalshi" => ~\E l \in Range(rawB.bids) \cup Range(rawB.asks) : l.price = 1
      BY <1>1, <1>3
    <2> QED BY <1>2, <1>3, <2>1, <2>2, BookIsSorted
  <1>5. PICK a : a = AssessmentOf(asked)
    OBVIOUS
  <1>6. a = IF AssessFails(o, b, c) THEN [score |-> 100000, confidence |-> 0] ELSE AssessUnsafe(o, b, c)
    <2>1. /\ b = IF o.buyer = "kalshi" THEN NormalBook(books2["kalshi"], "kalshi") ELSE NormalBook(books2["polymarket"], "polymarket")
          /\ c = IF o.seller = "polymarket" THEN NormalBook(books2["polymarket"], "polymarket") ELSE NormalBook(books2["kalshi"], "kalshi")
      BY <1>2, <1>3 DEF RiskVenues
    <2> QED BY <1>1, <1>5, <2>1 DEF AssessmentOf, AssessOpportunity
  <1>7. ~(a.score > MaxRiskScore)
    <2>1. "kalshi" \in RiskVenues /\ RiskGate(asked) = "pass"
      BY DEF RiskInv, RiskVenues
    <2> QED BY <1>5, <2>1 DEF RiskGate
  <1>8. ~AssessFails(o, b, c) /\ a = AssessUnsafe(o, b, c)
    BY <1>6, <1>7 DEF MaxRiskScore
  <1>9. o.readable /\ ~WalkFails(b.asks, o.size) /\ ~WalkFails(c.bids, o.size)
    BY <1>4, <1>8 DEF AssessFails
  <1>10. rawA.asks \in Seq(RiskLevel) /\ rawB.bids \in Seq(RiskLevel)
    BY <1>4 DEF RiskBook
  <1>11. PICK x \in Nat, s \in Int : /\ x = EstimateSlippage(b.asks, o.size)
                                     /\ s = Shortfall(rawA.asks, o.size, "buy") /\ s <= x
    BY <1>2, <1>4, <1>9, <1>10, BuyIsScored
  <1>12. PICK y \in Nat, t \in Int : /\ y = EstimateSlippage(c.bids, o.size)
                                     /\ t = Shortfall(rawB.bids, o.size, "sell") /\ t <= y
    BY <1>2, <1>4, <1>9, <1>10, SaleIsScored
  <1>13. /\ CalculateMarketRisk(o.margin) \in Nat /\ CalculatePlatformRisk(o.buyer, o.seller) \in Nat
         /\ x + y <= MaxRiskScore - CalculateMarketRisk(o.margin) - CalculatePlatformRisk(o.buyer, o.seller)
    BY <1>2, <1>4, <1>7, <1>8, <1>11, <1>12, ScoreIsWhole
  <1>14. s + t <= MaxRiskScore - CalculateMarketRisk(o.margin) - CalculatePlatformRisk(o.buyer, o.seller)
    BY <1>11, <1>12, <1>13 DEF MaxRiskScore
  <1> QED BY <1>1, <1>3, <1>9, <1>11, <1>12, <1>14

\* Whatever books the venues sent, an opportunity the gate lets through with both attached can
\* be read and loses no more to them, best case, than the score left over by the other risks,
\* unless a Kalshi level is at one cent (risk_engine.py: assess_opportunity and what it calls).
THEOREM PassedIsAffordable == RiskSpec => []RiskGateHolds
  <1>1. RiskInit => RiskInv
    BY DEF RiskInit, RiskInv
  <1>2. RiskInv /\ [AskRiskGate]_riskVars => RiskInv'
    BY DEF RiskInv, AskRiskGate, riskVars
  <1>3. RiskInv => RiskGateHolds
    BY PassedIsBounded DEF RiskGateHolds
  <1> QED BY <1>1, <1>2, <1>3, PTL DEF RiskSpec

-----------------------------------------------------------------------------
(***************************************************************************)
(* The scan: whatever the operator wrote, the titles say and the judge     *)
(* answers, the strategy a task chooses is a hedge on a book it holds.     *)
(***************************************************************************)
USE ScanAssumption DEF ScanAssumption

(***************************************************************************)
(* The verifiers: a polarity never contradicts what a match means.         *)
(***************************************************************************)
Agree(pol, mean) ==
    \/ mean = "open"
    \/ mean = "inverted" /\ pol = "inverted"
    \/ mean = "aligned" /\ pol # "inverted"

Titled(m) ==
    {"negations", "over", "under", "plus"} \subseteq DOMAIN m /\ m.over \in BOOLEAN /\ m.under \in BOOLEAN

\* Cleaning a title takes its "+" and nothing else.
LEMMA Cleaned ==
    ASSUME NEW m, Titled(m)
    PROVE  Direction(clean_title(m)) = IF m.over /\ ~m.under THEN "over" ELSE IF m.under /\ ~m.over THEN "under" ELSE "none"
  <1>1. /\ clean_title(m).over = m.over /\ clean_title(m).under = m.under /\ clean_title(m).plus = FALSE
    BY DEF Titled, clean_title
  <1> QED BY <1>1 DEF Direction

\* Of two comparable titles the verifier says "inverted" exactly when they are opposite.
LEMMA PolarityOfTitles ==
    ASSUME NEW k, NEW m, Titled(k), Titled(m), TitlesComparable(k, m)
    PROVE  (OutcomePolarity(k, m).polarity = "inverted") <=> TitlesOppose(k, m)
  <1> DEFINE kd == Direction(clean_title(k))   md == Direction(clean_title(m))
             negFlip == NegationParity(k) # NegationParity(m)
             dirFlip == kd # "none" /\ md # "none" /\ kd # md
  <1>1. (OutcomePolarity(k, m).polarity = "inverted") <=> (negFlip # dirFlip)
    BY DEF OutcomePolarity, Pass
  <1>2. CASE (k.over \/ k.under) /\ (m.over \/ m.under)
    <2>1. kd = (IF k.under THEN "under" ELSE "over") /\ md = (IF m.under THEN "under" ELSE "over")
      BY <1>2, Cleaned DEF TitlesComparable
    <2>2. dirFlip <=> (k.under # m.under)
      BY <2>1 DEF Titled
    <2>3. Negative(k) = (NegationParity(k) # k.under) /\ Negative(m) = (NegationParity(m) # m.under)
      BY <1>2 DEF Titled, Negative, NegationParity, TitlesComparable
    <2>4. NegationParity(k) \in BOOLEAN /\ NegationParity(m) \in BOOLEAN
      BY DEF NegationParity
    <2>5. negFlip \in BOOLEAN /\ dirFlip \in BOOLEAN
      OBVIOUS
    <2> HIDE DEF dirFlip
    <2> QED BY <1>1, <2>2, <2>3, <2>4, <2>5 DEF TitlesOppose, Titled
  <1>3. CASE ~(k.over \/ k.under) /\ ~(m.over \/ m.under)
    <2>1. kd = "none"
      BY <1>3, Cleaned
    <2> QED BY <1>1, <1>3, <2>1 DEF TitlesOppose, Negative, NegationParity
  <1> QED BY <1>2, <1>3 DEF TitlesComparable

\* The chain passes no denied pair, and its polarity is the operator's or the titles'.
LEMMA ChainAgrees ==
    ASSUME NEW entry, NEW k, NEW m, NEW same, Titled(k), Titled(m), CompositeVerifier(entry, k, m, same).passed
    PROVE  /\ entry # "denied"
           /\ Agree(CompositeVerifier(entry, k, m, same).polarity, Meaning(entry, k, m))
  <1>1. Reject.passed = FALSE
    BY DEF Reject
  <1>2. entry # "denied" /\ CompositeVerifier(entry, k, m, same).polarity =
            IF entry \in {"aligned", "inverted"} THEN entry ELSE OutcomePolarity(k, m).polarity
    BY <1>1 DEF CompositeVerifier, Allowlist, Pass
  <1>3. CASE entry \in {"aligned", "inverted"}
    BY <1>2, <1>3 DEF Meaning, Agree
  <1>4. CASE entry \notin {"aligned", "inverted"}
    <2>1. CASE TitlesComparable(k, m)
      BY <1>2, <1>4, <2>1, PolarityOfTitles DEF Meaning, Agree
    <2>2. CASE ~TitlesComparable(k, m)
      <3>1. Meaning(entry, k, m) = "open"
        BY <1>4, <2>2, Zenon DEF Meaning
      <3> QED BY <1>2, <3>1 DEF Agree
    <2> QED BY <2>1, <2>2
  <1> QED BY <1>2, <1>3, <1>4

\* So does a match that is kept: the judge's polarity fills one that was left open.
LEMMA KeptAgrees ==
    ASSUME NEW p \in Pair, NEW entry, NEW f \in Findings(p, entry), NEW v \in Resolved(f.verdict, Judged), v.passed
    PROVE  entry # "denied" /\ Agree(v.polarity, MeaningKept(f, v))
  <1>0. Reject = [passed |-> FALSE, polarity |-> "unknown", uncertain |-> FALSE]
    BY DEF Reject
  <1>1. f.verdict # Reject
    <2> SUFFICES ASSUME f.verdict = Reject PROVE FALSE
      OBVIOUS
    <2> QED BY <1>0 DEF Resolved
  <1>2. PICK s \in Listing[p] : \E same : f = [verdict |-> CompositeVerifier(entry, s[1], s[2], same),
                                             meaning |-> Meaning(entry, s[1], s[2])]
    <2> DEFINE verified == {[verdict |-> CompositeVerifier(entry, s[1], s[2], same), meaning |-> Meaning(entry, s[1], s[2])] :
                              s \in {l \in Listing[p] : StatFilter(l[1], l[2])}, same \in BOOLEAN}
    <2>1. Findings(p, entry) = {[verdict |-> Reject, meaning |-> "open"]} \cup verified
      BY DEF Findings
    <2>2. f \in verified
      <3> HIDE DEF verified
      <3> QED BY <1>1, <2>1
    <2>3. \E s \in {l \in Listing[p] : StatFilter(l[1], l[2])}, same \in BOOLEAN :
             f = [verdict |-> CompositeVerifier(entry, s[1], s[2], same), meaning |-> Meaning(entry, s[1], s[2])]
      BY <2>2
    <2> QED BY <2>3
  <1>4a. PICK same : f = [verdict |-> CompositeVerifier(entry, s[1], s[2], same), meaning |-> Meaning(entry, s[1], s[2])]
    BY <1>2
  <1>4b. f.verdict = CompositeVerifier(entry, s[1], s[2], same) /\ f.verdict.passed
    <2>1. \A pol, unsure : Pass(pol, unsure).passed = TRUE
      BY DEF Pass
    <2>2. f.verdict = CompositeVerifier(entry, s[1], s[2], same)
      BY <1>4a
    <2>3. f.verdict = Reject \/ \E pol, unsure : f.verdict = Pass(pol, unsure)
      BY ONLY <2>2, Zenon DEF CompositeVerifier
    <2> QED BY <1>1, <2>1, <2>2, <2>3, Zenon
  <1>3. Titled(s[1]) /\ Titled(s[2])
    BY DEF Titled
  <1>4. entry # "denied" /\ Agree(f.verdict.polarity, f.meaning)
    BY <1>4a, <1>4b, <1>3, ChainAgrees
  <1>5. v.polarity = f.verdict.polarity \/ v.polarity \in {"aligned", "inverted"}
    BY <1>0 DEF Resolved, Pass
  <1> QED BY <1>4, <1>5 DEF MeaningKept, Agree

(***************************************************************************)
(* The strategies.                                                         *)
(***************************************************************************)
\* The strategy that is kept has a profit.
LEMMA BestHasProfit ==
    ASSUME NEW profit \in [Strategy -> 0..MaxProfit], BestOf(profit) # "none"
    PROVE  BestOf(profit) \in Strategy /\ profit[BestOf(profit)] > 0
  <1> DEFINE S == {profit[s] : s \in Strategy}
             top == Max(S)
             T == {i \in 1..4 : profit[Order[i]] = top}
  <1>1. top \in S
    <2>1. PICK a \in Nat, b \in Nat, c \in Nat, d \in Nat :
              S = {a, b, c, d}
      BY DEF Strategy
    <2>2. \E x \in {a, b, c, d} : \A y \in {a, b, c, d} : x >= y
      OBVIOUS
    <2> HIDE DEF S
    <2> QED BY <2>1, <2>2 DEF Max
  <1>2. T # {}
    <2>1. \A s \in Strategy : \E i \in 1..4 : Order[i] = s
      <3>1. Order[1] = "buyK_sellP" /\ Order[2] = "buyP_sellK" /\ Order[3] = "buyK_buyPno" /\ Order[4] = "buyP_buyKno"
        BY DEF Order
      <3> QED BY <3>1 DEF Strategy
    <2>2. PICK s \in Strategy : top = profit[s]
      BY <1>1
    <2> QED BY <2>1, <2>2
  <1>3. Min(T) \in T
    <2>1. T \subseteq 1..4
      OBVIOUS
    <2> HIDE DEF T
    <2>2. \E x \in T : \A y \in T : x <= y
      <3>1. 1 \in T \/ 2 \in T \/ 3 \in T \/ 4 \in T
        <4>1. PICK z \in T : z \in 1..4
          BY <1>2, <2>1
        <4>2. z = 1 \/ z = 2 \/ z = 3 \/ z = 4
          BY <4>1
        <4> QED BY <4>1, <4>2
      <3>2. \A y \in T : y \in {1, 2, 3, 4}
        BY <2>1
      <3>3. CASE 1 \in T
        BY <3>2, <3>3
      <3>4. CASE 1 \notin T /\ 2 \in T
        BY <3>2, <3>4
      <3>5. CASE 1 \notin T /\ 2 \notin T /\ 3 \in T
        BY <3>2, <3>5
      <3>6. CASE 1 \notin T /\ 2 \notin T /\ 3 \notin T /\ 4 \in T
        BY <3>2, <3>6
      <3> QED BY <3>1, <3>3, <3>4, <3>5, <3>6
    <2> QED BY <2>2 DEF Min
  <1>4. top > 0 /\ BestOf(profit) = Order[Min(T)]
    BY DEF BestOf
  <1>5. Order[Min(T)] \in Strategy /\ profit[Order[Min(T)]] = top
    BY <1>3 DEF Order, Strategy
  <1> QED BY <1>4, <1>5

\* In the Kalshi-YES frame each strategy pays on one outcome and its opposite.
LEMMA AgreeIsHedged ==
    ASSUME NEW p \in Pair, Agree(polarity[p], meaning[p]), NEW s \in Strategy
    PROVE  KalshiExposure(s) + PolymarketExposure(p, s) = 0
  <1>1. InFrame(p, "yes") = Truth(p) /\ InFrame(p, "no") # Truth(p)
    BY DEF Agree, InFrame, Truth
  <1> QED BY <1>1 DEF KalshiExposure, PolymarketExposure, PaysOnEvent, TokenOf, Strategy

(***************************************************************************)
(* The invariant: the list the verifier holds is the operator's last       *)
(* readable one, and a match under evaluation is approved by it.           *)
(***************************************************************************)
Approved(p) == decided[p] # "denied" /\ Agree(polarity[p], meaning[p])
Waits(p) == pc[p] = "idle" /\ phase # "evaluate"
Chosen(p) == best[p] \in Strategy /\ got[p][TokenOf(p, best[p])] # None

ScanInv ==
    /\ DOMAIN pc = Pair /\ DOMAIN got = Pair /\ DOMAIN best = Pair
    /\ status \in {"ok", "missing", "corrupt"} /\ DOMAIN list = Pair
    /\ status = "missing" => file = NoList
    /\ status = "ok" => DOMAIN file = Pair
    /\ list = decided
    /\ \A p \in Pair : pc[p] = "done" \/ Waits(p) \/ Approved(p)
    /\ \A p \in Pair : pc[p] = "execute" => Chosen(p)

\* A program starts with the list it loads.
LEMMA ScanInvInit == Init => ScanInv
  BY DEF Init, ScanInv, Lists, NoList, Load, Waits

\* The matches of a scan are those its list approves.
LEMMA StartScanStep ==
    ASSUME ScanInv, StartScan
    PROVE  ScanInv'
  <1>1. list' = decided' /\ DOMAIN list' = Pair
    BY DEF StartScan, ScanInv, Load, NoList
  <1> DEFINE Matched(found, kept) ==
                /\ MatchesFrom(found, kept)
                /\ pc' = [p \in Pair |-> IF kept[p].passed THEN "idle" ELSE "done"]
                /\ polarity' = [p \in Pair |-> kept[p].polarity]
                /\ meaning' = [p \in Pair |-> IF ~kept[p].passed THEN "open" ELSE MeaningKept(found[p], kept[p])]
  <1>2. PICK found \in [Pair -> UNION {Findings(p, list'[p]) : p \in Pair}] :
            /\ \A p \in Pair : found[p] \in Findings(p, list'[p])
            /\ \E kept \in [Pair -> UNION {Resolved(found[p].verdict, Judged) : p \in Pair} \cup {Reject}] :
                  Matched(found, kept)
    BY Zenon DEF StartScan
  <1>3. PICK kept : Matched(found, kept)
    BY <1>2, Zenon
  <1>4. ASSUME NEW p \in Pair, kept[p].passed
        PROVE  Approved(p)'
    <2>1. kept[p] \in Resolved(found[p].verdict, Judged)
      BY <1>3, <1>4 DEF MatchesFrom, Reject
    <2>2. found[p] \in Findings(p, list'[p])
      BY <1>2
    <2>3. list'[p] # "denied" /\ Agree(kept[p].polarity, MeaningKept(found[p], kept[p]))
      BY <1>4, <2>1, <2>2, KeptAgrees
    <2>4. polarity'[p] = kept[p].polarity /\ meaning'[p] = MeaningKept(found[p], kept[p])
      BY <1>3, <1>4
    <2> QED BY <1>1, <2>3, <2>4 DEF Approved
  <1>5. \A p \in Pair : IF kept[p].passed THEN pc'[p] = "idle" ELSE pc'[p] = "done"
    BY <1>3
  <1>6. /\ DOMAIN pc' = Pair /\ DOMAIN got' = Pair /\ DOMAIN best' = Pair
        /\ file' = file /\ status' = status
    BY <1>3 DEF StartScan, listVars
  <1> QED BY <1>1, <1>4, <1>5, <1>6 DEF ScanInv

\* A frame step leaves the matches alone.
LEMMA FrameStep ==
    ASSUME ScanInv, Report \/ ScanFails \/ WakeUp \/ Signal \/ EditList \/ StreamBook \/ UNCHANGED vars
    PROVE  ScanInv'
  <1> USE DEF ScanInv, Waits, Approved, Chosen, TokenOf, InFrame, taskVars, listVars, matchVars
  <1>1. CASE Report
    BY <1>1 DEF Report
  <1>2. CASE ScanFails \/ WakeUp \/ Signal \/ StreamBook \/ UNCHANGED vars
    BY <1>2 DEF ScanFails, WakeUp, Signal, StreamBook, vars
  <1>3. CASE EditList
    BY <1>3 DEF EditList, Lists, NoList
  <1> QED BY <1>1, <1>2, <1>3

\* A book does not vanish by growing old.
LEMMA TickStep ==
    ASSUME ScanInv, Tick
    PROVE  ScanInv'
  <1>1. \A n : n # None => Older(n) # None
    BY DEF Older, None
  <1>2. \A p \in Pair : Chosen(p) => TokenOf(p, best[p]) \in Leg
    BY DEF TokenOf, InFrame, Leg
  <1> QED BY <1>1, <1>2 DEF Tick, ScanInv, Waits, Approved, Chosen, TokenOf, InFrame, listVars, matchVars

\* A task that is at work changes only what is its own.
LEMMA TaskStep ==
    ASSUME ScanInv, NEW p \in Pair, Task(p)
    PROVE  ScanInv'
  <1>1. /\ pc[p] # "done" /\ Approved(p)
        /\ UNCHANGED <<phase, listVars, matchVars>>
        /\ DOMAIN pc' = Pair /\ DOMAIN got' = Pair /\ DOMAIN best' = Pair
        /\ \A q \in Pair \ {p} : pc'[q] = pc[q] /\ got'[q] = got[q] /\ best'[q] = best[q]
        /\ pc'[p] = "execute" => Evaluate(p)
    BY DEF Task, StartTask, ReadsCache, ReadsStale, AsksRest, RestAnswers, RestFails, Evaluate, Executes,
           Reads, NextLeg, Ends, ScanInv, Waits, listVars, matchVars
  <1>2. ASSUME Evaluate(p), pc'[p] = "execute" PROVE Chosen(p)'
    <2>1. PICK profit \in [Strategy -> 0..MaxProfit] :
              /\ \A s \in Strategy \ Available(p) : profit[s] = 0
              /\ best' = [best EXCEPT ![p] = BestOf(profit)]
              /\ IF BestOf(profit) = "none" THEN Ends(p)
                 ELSE pc' = [pc EXCEPT ![p] = "execute"] /\ UNCHANGED <<leg, got>>
      BY <1>2 DEF Evaluate
    <2>2. BestOf(profit) # "none" /\ got' = got /\ best'[p] = BestOf(profit)
      BY <1>2, <2>1 DEF Ends, ScanInv
    <2>3. BestOf(profit) \in Available(p)
      BY <2>1, <2>2, BestHasProfit
    <2> QED BY <1>1, <2>2, <2>3 DEF Chosen, Available, Usable, TokenOf, InFrame, matchVars
  <1> QED BY <1>1, <1>2 DEF ScanInv, Waits, Approved, Chosen, TokenOf, InFrame, listVars, matchVars

\* The invariant holds.
LEMMA ScanInvHolds == Spec => []ScanInv
  <1>1. ScanInv /\ [Next]_vars => ScanInv'
    <2> SUFFICES ASSUME ScanInv, [Next]_vars PROVE ScanInv'
      OBVIOUS
    <2>1. CASE StartScan
      BY <2>1, StartScanStep
    <2>2. CASE Tick
      BY <2>2, TickStep
    <2>3. CASE \E p \in Pair : Task(p)
      BY <2>3, TaskStep
    <2>4. CASE Report \/ ScanFails \/ WakeUp \/ Signal \/ EditList \/ StreamBook \/ UNCHANGED vars
      BY <2>4, FrameStep
    <2> QED BY <2>1, <2>2, <2>3, <2>4 DEF Next, Loop
  <1> QED BY <1>1, ScanInvInit, PTL DEF Spec

\* _find_best_arbitrage: the strategy a task executes holds the same whether the event
\* happens or not, on a book the task has, and the pair is not one the operator denied.
THEOREM ChosenIsHedged == Spec => []ChoiceIsHedged
  <1>1. ScanInv => ChoiceIsHedged
    BY AgreeIsHedged DEF ScanInv, Waits, Approved, Chosen, ChoiceIsHedged
  <1> QED BY <1>1, ScanInvHolds, PTL
=============================================================================

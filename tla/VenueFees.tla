----------------------------- MODULE VenueFees -----------------------------
(***************************************************************************)
(* What the modules that price books share: the venues' taker fees, and    *)
(* books in the order of their prices, walked from the best level down.    *)
(* In the fees, money and prices are hundred-thousandths of a dollar; a    *)
(* price is taken at a tenth of that grain in the fee curve, which keeps   *)
(* p * (1 - p) within TLC's integers.                                      *)
(***************************************************************************)
EXTENDS Integers, Sequences, FiniteSets, FiniteSetsExt, Functions

Cent == 1000
Dollar == 100 * Cent
CeilDiv(x, y) == (x + y - 1) \div y

Curve(p) == (p \div 10) * (10000 - (p \div 10))

\* venue_fees.kalshi_taker_fee: 7% of the curve, rounded up to the cent per batch.
KalshiTakerFee(p, n) == IF Curve(p) <= 0 THEN 0 ELSE Cent * CeilDiv(7 * n * Curve(p), 100000000)

\* venue_fees.pm_taker_fee: rounded half up to 0.00001, at least 0.00001.
PmTakerFee(p, n, bps) ==
    LET raw == n * (bps \div 100) * Curve(p)
    IN IF bps <= 0 \/ raw <= 0 THEN 0
       ELSE Max({1, (raw + 50000) \div 100000})

(***************************************************************************)
(* Books.                                                                  *)
(***************************************************************************)
\* The elements of s at the indices I in the order of their ranks, those of one rank as they came.
Precedes(rank, i, j) == rank[i] < rank[j] \/ (rank[i] = rank[j] /\ i < j)
Arranged(s, I, rank) ==
    [k \in 1..Cardinality(I) |-> s[CHOOSE i \in I : Cardinality({j \in I : Precedes(rank, j, i)}) = k - 1]]
Only(s, I) == Arranged(s, I, [i \in I |-> 0])

Ascending(book) == Arranged(book, DOMAIN book, [i \in DOMAIN book |-> book[i].price])
Descending(book) == Arranged(book, DOMAIN book, [i \in DOMAIN book |-> -book[i].price])

SizesOf(book) == [i \in DOMAIN book |-> book[i].size]

\* What a walk over a book from its first level takes of each level, for n contracts.
TakenFrom(book, n) ==
    [i \in DOMAIN book |-> Max({0, Min({book[i].size, n - SumFunctionOnSet(SizesOf(book), 1..(i - 1))})})]
=============================================================================

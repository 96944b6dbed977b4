--------------------------- MODULE Verdict_proofs ---------------------------
(***************************************************************************)
(* The checker's verdict is right: its golden order book implements the    *)
(* price-time contract with exact bookkeeping, for any prices, quantities  *)
(* and number of orders, and on top of it a run is never failed for what   *)
(* was lost, always failed for a divergence on a trusted book, and passed  *)
(* only within the tolerance, for any requests and any length of run.      *)
(*                                                                         *)
(* Part 1, the golden book (OrderBook).  A set of numbers that holds 0 and *)
(* n + 1 with every n holds them all (SetInduction, from the least number  *)
(* outside it), which gives the sums of finite sets and every loop below   *)
(* by induction.  A side of a book is a Ladder, and RestOf the set of      *)
(* orders it stands for; each edit the code makes of the levels keeps a    *)
(* ladder and changes that set by one order (FrontFilled, Joined,          *)
(* Inserted, Withdrawn).  The loop of match keeps Full, that the orders    *)
(* served so far are the first of the side and were served whole, or has   *)
(* stopped in Part, within one order (StepKeeps, LoopEnds); what it leaves *)
(* then is what the contract's closed form says (ShareIs, EndedServes,     *)
(* PartServes, LoopServes).  So submit and cancel keep BookInv, which      *)
(* holds of the book under any events (BookAlways) and from which the      *)
(* theorems about it follow, the refinement last.                          *)
(*                                                                         *)
(* Part 2, the stream (Replay).  What arrived, sorted by seq and without   *)
(* its duplicates, is the log itself if nothing was lost (WholeStream).    *)
(* Replaying one more record is one more round of the loop (ReplayOneMore),*)
(* so attempts and unanswered attempts are counted (ReplayCounts), and a   *)
(* pass is within the tolerance (PassCounts, PassIsWithinTolerance).       *)
(*                                                                         *)
(* Part 3, the two books (CorrectnessRun).  The server numbers its orders  *)
(* in the order the bot's seqs do (Rising), so renaming its ids keeps the  *)
(* priority of orders, and the contract gives renamed trades and leaves    *)
(* renamed orders (FillsRenamed, AfterRenamed).  The report of an honest   *)
(* answer is the one the golden book expects (HonestSame); every wrong     *)
(* answer the server may give differs from it (WrongDiffers), and the diff *)
(* tells the two apart (DiffSays).                                         *)
(*                                                                         *)
(* Part 4, the run.  While it is under way, RunFaithful holds of the       *)
(* replay of its log: the books that are trusted are the server's under    *)
(* the bot's ids and no order would be failed, as long as the server has   *)
(* been right and no cancel was lost; and once it was wrong on a trusted   *)
(* book, the first divergence of that ticker stays one that is trusted     *)
(* (Diverged).  Each action keeps it.  At the end, the diff loop fails an  *)
(* order exactly for such a divergence (NeverHard, DivergedHard), a stream *)
(* with a hole fails nothing (HoleNeverFails), and the theorems follow.    *)
(***************************************************************************)
EXTENDS OrderBook, CorrectnessRun, FiniteSetTheorems, WellFoundedInduction, SequenceTheorems, TLAPS

(* Finite sets of things that have a quantity, and the sum of these.       *)
Priced(S) == IsFiniteSet(S) /\ \A x \in S : x.qty \in Nat
QtySum(S) == MapThenSumSet(LAMBDA o : o.qty, S)

Orders == [id : Nat, qty : Nat \ {0}]
Levels == [price : Nat, orders : Seq(Orders)]

(* A side lists price p before price q.                                    *)
Better(side, p, q) == IF side = "BUY" THEN p > q ELSE p < q

Queued(orders) ==
    /\ orders \in Seq(Orders) /\ orders # <<>>
    /\ \A j, k \in 1..Len(orders) : j < k => orders[j].id < orders[k].id

(* One side of a book, as the match loop relies on it.                     *)
Ladder(levels, side) ==
    /\ levels \in Seq(Levels)
    /\ \A i, k \in 1..Len(levels) : i < k => Better(side, levels[i].price, levels[k].price)
    /\ \A i \in 1..Len(levels) : Queued(levels[i].orders)

(* The resting orders of a level and of a side, as records of the contract.*)
RestAt(orders, side, p) ==
    {[id |-> orders[j].id, side |-> side, price |-> p, qty |-> orders[j].qty] :
        j \in 1..Len(orders)}
RestOf(levels, side) == UNION {RestAt(levels[i].orders, side, levels[i].price) :
                                  i \in 1..Len(levels)}
RestElsewhere(levels, side, i) == UNION {RestAt(levels[k].orders, side, levels[k].price) :
                                            k \in 1..Len(levels) \ {i}}
OffPrice(levels, side, p) == {o \in RestOf(levels, side) : o.price # p}
FrontOf(levels, side) ==
    [id |-> levels[1].orders[1].id, side |-> side, price |-> levels[1].price,
     qty |-> levels[1].orders[1].qty]

OneId(R) == \A o, p \in R : o.id = p.id => o = p

(* Levels with the orders of level i replaced, and with a level e put in.   *)
WithOrders(levels, i, orders) == [levels EXCEPT ![i].orders = orders]
PutIn(after, levels, i, e) ==
    /\ after \in Seq(Levels) /\ Len(after) = Len(levels) + 1
    /\ \A k \in 1..(Len(levels) + 1) : after[k]
          = IF k < i THEN levels[k] ELSE IF k = i THEN e ELSE levels[k - 1]
FitsAt(levels, side, i, price) ==
    \A k \in 1..Len(levels) :
        /\ k < i => Better(side, levels[k].price, price)
        /\ k >= i => Better(side, price, levels[k].price)

Trade(o, q, band) == [maker |-> o.id, qty |-> q, makerPrice |-> o.price, aggLimit |-> band]
-----------------------------------------------------------------------------
(* A nonempty set of numbers has a least one.                              *)
LEMMA LeastNat ==
    ASSUME NEW S \in SUBSET Nat, S # {}
    PROVE  \E x \in S : \A y \in S : x <= y
<1>1. PICK x \in S : \A y \in S : ~(<<y, x>> \in OpToRel(<, Nat))
  BY WFMin, NatLessThanWellFounded
<1>2. \A y \in S : ~(y < x)
  BY <1>1 DEF OpToRel
<1> QED BY <1>2

(* Induction over a set of numbers, from the least number outside it.      *)
LEMMA SetInduction ==
    ASSUME NEW T, 0 \in T, \A n \in Nat : n \in T => n + 1 \in T
    PROVE  \A n \in Nat : n \in T
<1> SUFFICES ASSUME Nat \ T # {} PROVE FALSE
  OBVIOUS
<1>1. PICK m \in Nat \ T : \A y \in Nat \ T : m <= y
  BY LeastNat
<1>2. m - 1 \in Nat /\ m - 1 \in T
  BY <1>1
<1>3. (m - 1) + 1 = m
  BY <1>1
<1> QED BY <1>1, <1>2, <1>3

(* The fold behind a sum, as the function of the subsets that it is.       *)
Chosen(s) == CHOOSE x \in s : TRUE
FoldIs(f, D) == f = [s \in D |-> IF s = {} THEN 0 ELSE Chosen(s).qty + f[s \ {Chosen(s)}]]
FoldOf(S) == CHOOSE f : FoldIs(f, SUBSET S)

(* The sum of a set is that fold, taken at the whole set.                  *)
LEMMA SumIsFold == ASSUME NEW S PROVE QtySum(S) = FoldOf(S)[S]
BY DEF QtySum, FoldOf, FoldIs, Chosen, MapThenSumSet, MapThenFoldSet

(* Subsets smaller by the chosen element are also in the domain.           *)
LEMMA FoldExists ==
    ASSUME NEW S, IsFiniteSet(S)
    PROVE  FoldIs(FoldOf(S), SUBSET S)
<1> DEFINE Upto(k) == {s \in SUBSET S : Cardinality(s) <= k}
           T == {k \in Nat : \E f : FoldIs(f, Upto(k))}
<1>0. \A s \in SUBSET S : IsFiniteSet(s) /\ Cardinality(s) \in Nat
  BY FS_Subset, FS_CardinalityType
<1>a. \A s \in SUBSET S : s # {} =>
        /\ Chosen(s) \in s /\ s \ {Chosen(s)} \in SUBSET S
        /\ Cardinality(s \ {Chosen(s)}) = Cardinality(s) - 1
  BY <1>0, FS_RemoveElement DEF Chosen
<1>1. 0 \in T
  <2> DEFINE f == [s \in Upto(0) |-> 0]
  <2>1. \A s \in Upto(0) : s = {}
    BY <1>0, FS_EmptySet
  <2>2. FoldIs(f, Upto(0))
    BY <2>1, Zenon DEF FoldIs
  <2> QED BY <2>2
<1>2. ASSUME NEW k \in Nat, k \in T PROVE k + 1 \in T
  <2>1. PICK f : FoldIs(f, Upto(k))
    BY <1>2
  <2> DEFINE g == [s \in Upto(k + 1) |->
                    IF s = {} THEN 0 ELSE Chosen(s).qty + f[s \ {Chosen(s)}]]
  <2>a. Upto(k) \subseteq Upto(k + 1)
    BY <1>0
  <2>2. \A s \in Upto(k) : s \in Upto(k + 1) /\ g[s] = f[s]
    <3> HIDE DEF Upto
    <3> QED BY <2>a, <2>1 DEF FoldIs
  <2>3. \A s \in Upto(k + 1) : s # {} => s \ {Chosen(s)} \in Upto(k)
    BY <1>0, <1>a
  <2>4. FoldIs(g, Upto(k + 1))
    <3> HIDE DEF Upto
    <3>1. \A s \in Upto(k + 1) : s # {} => g[s \ {Chosen(s)}] = f[s \ {Chosen(s)}]
      BY <2>2, <2>3
    <3> QED BY <3>1 DEF FoldIs
  <2> HIDE DEF g
  <2> QED BY <2>4
<1>3. Cardinality(S) \in T
  <2> HIDE DEF T
  <2> QED BY <1>0, <1>1, <1>2, SetInduction
<1>4. Upto(Cardinality(S)) = SUBSET S
  BY FS_Subset, FS_CardinalityType
<1> QED BY <1>3, <1>4 DEF FoldOf

(* The fold over a subset of a set is the fold over that subset.           *)
LEMMA FoldAgrees ==
    ASSUME NEW S, IsFiniteSet(S), NEW U \in SUBSET S
    PROVE  FoldOf(S)[U] = FoldOf(U)[U]
<1> DEFINE W == {t \in SUBSET U : FoldOf(S)[t] # FoldOf(U)[t]}
           N == {Cardinality(t) : t \in W}
<1>0. IsFiniteSet(U) /\ \A s \in SUBSET U : IsFiniteSet(s) /\ Cardinality(s) \in Nat
  BY FS_Subset, FS_CardinalityType
<1>1. FoldIs(FoldOf(S), SUBSET S) /\ FoldIs(FoldOf(U), SUBSET U)
  BY <1>0, FoldExists
<1>2. SUFFICES ASSUME W # {} PROVE FALSE
  OBVIOUS
<1>3. PICK n \in N : \A m \in N : n <= m
  <2>1. N \in SUBSET Nat /\ N # {}
    BY <1>0, <1>2
  <2> HIDE DEF N
  <2> QED BY <2>1, LeastNat
<1>4. PICK t \in W : Cardinality(t) = n
  BY <1>3
<1>5. t \in SUBSET U /\ t \in SUBSET S /\ FoldOf(S)[t] # FoldOf(U)[t]
  BY <1>4
<1>6. t # {}
  BY <1>1, <1>5 DEF FoldIs
<1>7. /\ Chosen(t) \in t /\ t \ {Chosen(t)} \in SUBSET U
      /\ Cardinality(t \ {Chosen(t)}) = Cardinality(t) - 1
  BY <1>0, <1>5, <1>6, FS_RemoveElement DEF Chosen
<1>8. FoldOf(S)[t \ {Chosen(t)}] = FoldOf(U)[t \ {Chosen(t)}]
  <2>1. t \ {Chosen(t)} \notin W
    BY <1>0, <1>3, <1>4, <1>5, <1>7
  <2> QED BY <1>7, <2>1
<1> QED BY <1>1, <1>5, <1>6, <1>8 DEF FoldIs

(* What a sum is made of, one chosen element at a time.                    *)
LEMMA SumChosen ==
    ASSUME NEW S, IsFiniteSet(S)
    PROVE  QtySum(S) = IF S = {} THEN 0 ELSE Chosen(S).qty + QtySum(S \ {Chosen(S)})
<1>1. QtySum(S) = IF S = {} THEN 0 ELSE Chosen(S).qty + FoldOf(S)[S \ {Chosen(S)}]
  BY SumIsFold, FoldExists DEF FoldIs
<1>2. FoldOf(S)[S \ {Chosen(S)}] = QtySum(S \ {Chosen(S)})
  BY FoldAgrees, SumIsFold
<1> QED BY <1>1, <1>2

(* What is left of a set when one element is taken out.                    *)
LEMMA RemoveOne ==
    ASSUME NEW s, IsFiniteSet(s), NEW k \in Nat, Cardinality(s) = k + 1, NEW x \in s
    PROVE  Cardinality(s \ {x}) = k
<1>1. Cardinality(s \ {x}) = Cardinality(s) - 1
  BY FS_RemoveElement
<1> QED BY <1>1

(* Quantities add up to a number.                                          *)
LEMMA SumType ==
    ASSUME NEW S, Priced(S)
    PROVE  QtySum(S) \in Nat
<1> DEFINE T == {k \in Nat : \A s \in SUBSET S : Cardinality(s) = k => QtySum(s) \in Nat}
<1>0. \A s \in SUBSET S : IsFiniteSet(s) /\ Cardinality(s) \in Nat
  BY FS_Subset, FS_CardinalityType DEF Priced
<1>1. 0 \in T
  BY <1>0, FS_EmptySet, SumChosen
<1>2. ASSUME NEW k \in Nat, k \in T PROVE k + 1 \in T
  <2> SUFFICES ASSUME NEW s \in SUBSET S, Cardinality(s) = k + 1 PROVE QtySum(s) \in Nat
    OBVIOUS
  <2>1. s # {} /\ Chosen(s) \in s
    BY FS_EmptySet DEF Chosen
  <2>2. QtySum(s) = Chosen(s).qty + QtySum(s \ {Chosen(s)}) /\ Chosen(s).qty \in Nat
    BY <1>0, <2>1, SumChosen DEF Priced
  <2>3. QtySum(s \ {Chosen(s)}) \in Nat
    BY <1>0, <1>2, <2>1, RemoveOne
  <2> QED BY <2>2, <2>3
<1>3. Cardinality(S) \in T
  <2> HIDE DEF T
  <2> QED BY <1>0, <1>1, <1>2, SetInduction
<1> QED BY <1>3

(* A sum is any of its elements plus the sum of the rest.                  *)
LEMMA SumOfRest ==
    ASSUME NEW S, Priced(S)
    PROVE  \A x \in S : QtySum(S) = x.qty + QtySum(S \ {x})
<1> DEFINE Holds(s) == \A x \in s : QtySum(s) = x.qty + QtySum(s \ {x})
           T == {k \in Nat : \A s \in SUBSET S : Cardinality(s) = k => Holds(s)}
<1>0. \A s \in SUBSET S : IsFiniteSet(s) /\ Cardinality(s) \in Nat /\ QtySum(s) \in Nat
  BY FS_Subset, FS_CardinalityType, SumType DEF Priced
<1>1. 0 \in T
  BY <1>0, FS_EmptySet
<1>2. ASSUME NEW k \in Nat, k \in T PROVE k + 1 \in T
  <2> SUFFICES ASSUME NEW s \in SUBSET S, Cardinality(s) = k + 1, NEW x \in s
               PROVE  QtySum(s) = x.qty + QtySum(s \ {x})
    OBVIOUS
  <2> DEFINE c == Chosen(s)
  <2>1. c \in s
    BY DEF Chosen
  <2>2. QtySum(s) = c.qty + QtySum(s \ {c})
    BY <1>0, SumChosen
  <2> HIDE DEF c
  <2> SUFFICES ASSUME x # c PROVE QtySum(s) = x.qty + QtySum(s \ {x})
    BY <2>2
  <2>3. Holds(s \ {c}) /\ Holds(s \ {x})
    <3> HIDE DEF Holds
    <3> QED BY <1>0, <1>2, <2>1, RemoveOne
  <2>4. QtySum(s \ {c}) = x.qty + QtySum((s \ {c}) \ {x})
    BY <2>3
  <2>5. QtySum(s \ {x}) = c.qty + QtySum((s \ {x}) \ {c})
    BY <2>1, <2>3
  <2>6. /\ (s \ {c}) \ {x} = (s \ {x}) \ {c} /\ x.qty \in Nat /\ c.qty \in Nat
        /\ QtySum((s \ {x}) \ {c}) \in Nat
    BY <1>0, <2>1 DEF Priced
  <2>7. PICK r \in Nat : r = QtySum((s \ {x}) \ {c})
    BY <2>6
  <2>8. QtySum(s \ {c}) = x.qty + r /\ QtySum(s \ {x}) = c.qty + r
    BY <2>4, <2>5, <2>6, <2>7
  <2> HIDE DEF Holds, T
  <2> QED BY <2>2, <2>6, <2>8
<1>3. Cardinality(S) \in T
  <2> HIDE DEF T
  <2> QED BY <1>0, <1>1, <1>2, SetInduction
<1> QED BY <1>3

(* Nothing adds up to 0.                                                   *)
LEMMA SumEmpty == QtySum({}) = 0
BY FS_EmptySet, SumChosen

(* One more thing adds its quantity.                                       *)
LEMMA SumAdd ==
    ASSUME NEW S, Priced(S), NEW x, x \notin S, x.qty \in Nat
    PROVE  Priced(S \cup {x}) /\ QtySum(S \cup {x}) = QtySum(S) + x.qty
<1>1. Priced(S \cup {x})
  BY FS_AddElement DEF Priced
<1>2. (S \cup {x}) \ {x} = S /\ QtySum(S) \in Nat
  BY SumType
<1> QED BY <1>1, <1>2, SumOfRest

(* A part sums to no more than the whole.                                  *)
LEMMA SumOfPart ==
    ASSUME NEW S, Priced(S), NEW U \in SUBSET S
    PROVE  Priced(U) /\ QtySum(U) <= QtySum(S)
<1> DEFINE T == {k \in Nat : \A s \in SUBSET S :
                    (U \subseteq s /\ Cardinality(s) = k) => QtySum(U) <= QtySum(s)}
<1>0. \A s \in SUBSET S : Priced(s) /\ Cardinality(s) \in Nat /\ QtySum(s) \in Nat
  BY FS_Subset, FS_CardinalityType, SumType DEF Priced
<1>1. 0 \in T
  <2>1. \A s \in SUBSET S : (U \subseteq s /\ Cardinality(s) = 0) => U = s
    BY <1>0, FS_EmptySet DEF Priced
  <2> QED BY <1>0, <2>1
<1>2. ASSUME NEW k \in Nat, k \in T PROVE k + 1 \in T
  <2> SUFFICES ASSUME NEW s \in SUBSET S, Cardinality(s) = k + 1, U \subseteq s, U # s
               PROVE  QtySum(U) <= QtySum(s)
    BY <1>0
  <2>1. PICK x \in s : x \notin U
    OBVIOUS
  <2>2. QtySum(U) <= QtySum(s \ {x})
    BY <1>0, <1>2, <2>1, RemoveOne DEF Priced
  <2>3. QtySum(s) = x.qty + QtySum(s \ {x}) /\ x.qty \in Nat
    BY <1>0, SumOfRest DEF Priced
  <2> QED BY <1>0, <2>2, <2>3
<1>3. Cardinality(S) \in T
  <2> HIDE DEF T
  <2> QED BY <1>0, <1>1, <1>2, SetInduction
<1> QED BY <1>0, <1>3
-----------------------------------------------------------------------------
(* What RemoveAt leaves, place by place.                                   *)
LEMMA RemoveAtIs ==
    ASSUME NEW S, NEW s \in Seq(S), NEW i \in 1..Len(s)
    PROVE  /\ RemoveAt(s, i) \in Seq(S) /\ Len(RemoveAt(s, i)) = Len(s) - 1
           /\ \A j \in 1..(Len(s) - 1) : RemoveAt(s, i)[j] = IF j < i THEN s[j] ELSE s[j + 1]
<1> DEFINE a == SubSeq(s, 1, i - 1)
           b == SubSeq(s, i + 1, Len(s))
<1>0. Len(s) \in Nat /\ \A j \in 1..Len(s) : s[j] \in S
  BY ElementOfSeq, LenProperties
<1>1. a \in Seq(S) /\ Len(a) = i - 1 /\ \A j \in 1..(i - 1) : a[j] = s[j]
  BY <1>0, SubSeqProperties
<1>2. b \in Seq(S) /\ Len(b) = Len(s) - i /\ \A j \in 1..(Len(s) - i) : b[j] = s[i + j]
  BY <1>0, SubSeqProperties
<1>3. RemoveAt(s, i) = a \o b
  BY DEF RemoveAt
<1> HIDE DEF a, b
<1>4. /\ a \o b \in Seq(S) /\ Len(a \o b) = Len(a) + Len(b)
      /\ \A j \in 1..(Len(a) + Len(b)) :
            (a \o b)[j] = IF j <= Len(a) THEN a[j] ELSE b[j - Len(a)]
  BY <1>1, <1>2, ConcatProperties
<1>5. ASSUME NEW j \in 1..(Len(s) - 1), j >= i PROVE b[j - (i - 1)] = s[j + 1]
  <2>1. j - (i - 1) \in 1..(Len(s) - i) /\ i + (j - (i - 1)) = j + 1
    BY <1>0, <1>5
  <2> QED BY <1>2, <2>1
<1> QED BY <1>0, <1>1, <1>2, <1>3, <1>4, <1>5

(* What InsertAt makes, place by place.                                    *)
LEMMA InsertAtIs ==
    ASSUME NEW S, NEW s \in Seq(S), NEW i \in 1..Len(s), NEW e \in S
    PROVE  /\ InsertAt(s, i, e) \in Seq(S) /\ Len(InsertAt(s, i, e)) = Len(s) + 1
           /\ \A j \in 1..(Len(s) + 1) : InsertAt(s, i, e)[j]
                 = IF j < i THEN s[j] ELSE IF j = i THEN e ELSE s[j - 1]
<1> DEFINE a == SubSeq(s, 1, i - 1)
           b == SubSeq(s, i, Len(s))
           c == a \o <<e>>
<1>0. Len(s) \in Nat /\ \A j \in 1..Len(s) : s[j] \in S
  BY ElementOfSeq, LenProperties
<1>1. a \in Seq(S) /\ Len(a) = i - 1 /\ \A j \in 1..(i - 1) : a[j] = s[j]
  BY <1>0, SubSeqProperties
<1>2. b \in Seq(S) /\ Len(b) = Len(s) - i + 1 /\ \A j \in 1..(Len(s) - i + 1) : b[j] = s[i + j - 1]
  BY <1>0, SubSeqProperties
<1>3. InsertAt(s, i, e) = c \o b
  BY DEF InsertAt
<1>4. c \in Seq(S) /\ Len(c) = i /\ c[i] = e /\ \A j \in 1..(i - 1) : c[j] = s[j]
  <2> HIDE DEF a
  <2>1. c = Append(a, e)
    BY <1>1, AppendIsConcat
  <2> HIDE DEF c
  <2> QED BY <1>0, <1>1, <2>1, AppendProperties
<1> HIDE DEF a, b, c
<1>5. /\ c \o b \in Seq(S) /\ Len(c \o b) = Len(c) + Len(b)
      /\ \A j \in 1..(Len(c) + Len(b)) :
            (c \o b)[j] = IF j <= Len(c) THEN c[j] ELSE b[j - Len(c)]
  BY <1>2, <1>4, ConcatProperties
<1>6. ASSUME NEW j \in 1..(Len(s) + 1), j > i PROVE b[j - i] = s[j - 1]
  <2>1. j - i \in 1..(Len(s) - i + 1) /\ i + (j - i) - 1 = j - 1
    BY <1>0, <1>6
  <2> QED BY <1>2, <2>1
<1> QED BY <1>0, <1>2, <1>3, <1>4, <1>5, <1>6

(* The types a ladder's levels and orders have.                            *)
LEMMA LadderTypes ==
    ASSUME NEW side, NEW levels, Ladder(levels, side)
    PROVE  /\ levels \in Seq(Levels) /\ Len(levels) \in Nat /\ DOMAIN levels = 1..Len(levels)
           /\ \A i \in 1..Len(levels) :
                /\ levels[i] \in Levels /\ levels[i].price \in Nat
                /\ levels[i].orders \in Seq(Orders) /\ Len(levels[i].orders) \in Nat \ {0}
                /\ DOMAIN levels[i].orders = 1..Len(levels[i].orders)
                /\ \A j \in 1..Len(levels[i].orders) :
                     levels[i].orders[j].id \in Nat /\ levels[i].orders[j].qty \in Nat \ {0}
<1>1. levels \in Seq(Levels) /\ Len(levels) \in Nat /\ DOMAIN levels = 1..Len(levels)
  BY LenProperties DEF Ladder
<1>2. \A i \in 1..Len(levels) : levels[i] \in Levels /\ Queued(levels[i].orders)
  BY <1>1, ElementOfSeq DEF Ladder
<1>3. ASSUME NEW i \in 1..Len(levels)
      PROVE  /\ levels[i].orders \in Seq(Orders) /\ Len(levels[i].orders) \in Nat \ {0}
             /\ DOMAIN levels[i].orders = 1..Len(levels[i].orders)
             /\ \A j \in 1..Len(levels[i].orders) : levels[i].orders[j] \in Orders
  BY <1>2, EmptySeq, LenProperties, ElementOfSeq DEF Queued
<1> QED BY <1>1, <1>2, <1>3 DEF Levels, Orders

(* The levels but one.                                                     *)
LEMMA Split ==
    ASSUME NEW side, NEW levels, Ladder(levels, side), NEW i \in 1..Len(levels)
    PROVE  /\ OffPrice(levels, side, levels[i].price) = RestElsewhere(levels, side, i)
           /\ RestOf(levels, side) = OffPrice(levels, side, levels[i].price)
                 \cup RestAt(levels[i].orders, side, levels[i].price)
<1>1. \A k \in 1..Len(levels) \ {i} : levels[k].price # levels[i].price
  <2> TAKE k \in 1..Len(levels) \ {i}
  <2>1. /\ levels[k].price \in Nat /\ levels[i].price \in Nat /\ Len(levels) \in Nat
        /\ Better(side, levels[k].price, levels[i].price)
             \/ Better(side, levels[i].price, levels[k].price)
    <3>1. k < i \/ i < k
      OBVIOUS
    <3> QED BY <3>1, LadderTypes DEF Ladder
  <2> QED BY <2>1 DEF Better
<1> QED BY <1>1 DEF OffPrice, RestOf, RestAt, RestElsewhere

(* The orders of one level change.                                         *)
LEMMA LevelChanged ==
    ASSUME NEW side, NEW levels, Ladder(levels, side), NEW i \in 1..Len(levels),
           NEW after, after \in Seq(Levels), Len(after) = Len(levels), Queued(after[i].orders),
           \A k \in 1..Len(levels) : after[k].price = levels[k].price,
           \A k \in 1..Len(levels) \ {i} : after[k] = levels[k]
    PROVE  /\ Ladder(after, side)
           /\ RestOf(after, side) = OffPrice(levels, side, levels[i].price)
                 \cup RestAt(after[i].orders, side, levels[i].price)
<1>1. Ladder(after, side) /\ i \in 1..Len(after)
  BY DEF Ladder
<1>2. \A k \in 1..Len(levels) \ {i} :
        RestAt(after[k].orders, side, after[k].price) = RestAt(levels[k].orders, side, levels[k].price)
  OBVIOUS
<1>3. RestElsewhere(after, side, i) = RestElsewhere(levels, side, i)
  BY <1>2 DEF RestElsewhere
<1>4. OffPrice(after, side, after[i].price) = OffPrice(levels, side, levels[i].price)
  BY <1>1, <1>3, Split
<1>5. RestOf(after, side) = OffPrice(after, side, after[i].price)
         \cup RestAt(after[i].orders, side, after[i].price)
  BY <1>1, Split
<1> QED BY <1>1, <1>4, <1>5

(* One element of a sequence replaced.                                     *)
Replacing(after, s, i, e, S) ==
    /\ after \in Seq(S) /\ Len(after) = Len(s)
    /\ \A k \in 1..Len(s) : after[k] = IF k = i THEN e ELSE s[k]
LEMMA ReplacedIs ==
    ASSUME NEW S, NEW s \in Seq(S), NEW i \in 1..Len(s), NEW e \in S,
           NEW after, after = [s EXCEPT ![i] = e]
    PROVE  Replacing(after, s, i, e, S)
BY ExceptSeq DEF Replacing

(* Other orders on one level: still a ladder, whose rest is elsewhere.     *)
LEMMA SetOrders ==
    ASSUME NEW side, NEW levels, Ladder(levels, side), NEW i \in 1..Len(levels),
           NEW orders, Queued(orders),
           NEW after, after = WithOrders(levels, i, orders)
    PROVE  /\ Ladder(after, side) /\ Len(after) = Len(levels)
           /\ \A k \in 1..Len(levels) : after[k].price = levels[k].price
           /\ RestOf(after, side) = OffPrice(levels, side, levels[i].price)
                 \cup RestAt(orders, side, levels[i].price)
<1> DEFINE e == [levels[i] EXCEPT !.orders = orders]
<1>1. e \in Levels /\ e.orders = orders /\ e.price = levels[i].price
  BY LadderTypes DEF Levels, Queued
<1>2. after = [levels EXCEPT ![i] = e]
  BY DEF WithOrders
<1> HIDE DEF e
<1>3. /\ after \in Seq(Levels) /\ Len(after) = Len(levels)
      /\ \A k \in 1..Len(levels) : after[k] = IF k = i THEN e ELSE levels[k]
  <2>1. levels \in Seq(Levels)
    BY DEF Ladder
  <2>2. Replacing(after, levels, i, e, Levels)
    BY <1>1, <1>2, <2>1, ReplacedIs
  <2> QED BY <2>2 DEF Replacing
<1> QED BY <1>1, <1>3, LevelChanged

(* One level is dropped.                                                   *)
LEMMA DropLevel ==
    ASSUME NEW side, NEW levels, Ladder(levels, side), NEW i \in 1..Len(levels)
    PROVE  /\ Ladder(RemoveAt(levels, i), side)
           /\ RestOf(RemoveAt(levels, i), side) = OffPrice(levels, side, levels[i].price)
<1> DEFINE after == RemoveAt(levels, i)
           from(k) == IF k < i THEN k ELSE k + 1
<1>0. Len(levels) \in Nat /\ levels \in Seq(Levels)
  BY DEF Ladder
<1>1. /\ after \in Seq(Levels) /\ Len(after) = Len(levels) - 1
      /\ \A k \in 1..Len(after) : after[k] = levels[from(k)] /\ from(k) \in 1..Len(levels) \ {i}
  <2>1. /\ after \in Seq(Levels) /\ Len(after) = Len(levels) - 1
        /\ \A k \in 1..(Len(levels) - 1) : after[k] = IF k < i THEN levels[k] ELSE levels[k + 1]
    BY <1>0, RemoveAtIs
  <2> HIDE DEF after
  <2> QED BY <1>0, <2>1
<1> HIDE DEF after
<1>2. Ladder(after, side)
  <2>1. \A k, l \in 1..Len(after) : k < l => from(k) < from(l)
    BY <1>0, <1>1
  <2> HIDE DEF from
  <2> QED BY <1>1, <2>1 DEF Ladder
<1>3. \A k \in 1..Len(levels) \ {i} : \E l \in 1..Len(after) : from(l) = k
  <2> TAKE k \in 1..Len(levels) \ {i}
  <2>1. CASE k < i
    BY <1>0, <1>1, <2>1
  <2>2. CASE k > i
    <3>1. k - 1 \in 1..Len(after) /\ from(k - 1) = k
      BY <1>0, <1>1, <2>2
    <3> QED BY <3>1
  <2> QED BY <1>0, <2>1, <2>2
<1>4. RestOf(after, side) = RestElsewhere(levels, side, i)
  <2> HIDE DEF from
  <2> QED BY <1>1, <1>3 DEF RestOf, RestElsewhere
<1> QED BY <1>2, <1>4, Split DEF after

(* A level is added.                                                       *)
LEMMA LevelAdded ==
    ASSUME NEW side, NEW levels, Ladder(levels, side), NEW i \in 1..(Len(levels) + 1),
           NEW e \in Levels, Queued(e.orders),
           NEW after, PutIn(after, levels, i, e), FitsAt(levels, side, i, e.price)
    PROVE  /\ Ladder(after, side)
           /\ RestOf(after, side) = RestOf(levels, side) \cup RestAt(e.orders, side, e.price)
<1> DEFINE to(k) == IF k < i THEN k ELSE k + 1
           from(k) == IF k < i THEN k ELSE k - 1
<1>0. /\ Len(levels) \in Nat /\ i \in 1..Len(after)
      /\ after \in Seq(Levels) /\ Len(after) = Len(levels) + 1
      /\ \A k \in 1..Len(after) : after[k]
            = IF k < i THEN levels[k] ELSE IF k = i THEN e ELSE levels[k - 1]
      /\ \A k \in 1..Len(levels) :
            /\ k < i => Better(side, levels[k].price, e.price)
            /\ k >= i => Better(side, e.price, levels[k].price)
  BY LadderTypes DEF PutIn, FitsAt
<1>1. \A k \in 1..Len(after) \ {i} : after[k] = levels[from(k)] /\ from(k) \in 1..Len(levels)
  BY <1>0
<1>2. \A k \in 1..Len(levels) : to(k) \in 1..Len(after) \ {i} /\ from(to(k)) = k
  BY <1>0
<1>3. after[i] = e
  BY <1>0
<1>4. ASSUME NEW k \in 1..Len(after), NEW l \in 1..Len(after), k < l
      PROVE  Better(side, after[k].price, after[l].price)
  <2>1. CASE k # i /\ l # i
    <3>1. from(k) < from(l)
      BY <1>0, <1>4, <2>1
    <3> HIDE DEF from
    <3> QED BY <1>1, <2>1, <3>1 DEF Ladder
  <2>2. CASE k = i
    <3>1. from(l) >= i
      BY <1>0, <1>4, <2>2
    <3> HIDE DEF from
    <3> QED BY <1>0, <1>1, <1>3, <1>4, <2>2, <3>1
  <2>3. CASE l = i
    <3>1. from(k) < i
      BY <1>0, <1>4, <2>3
    <3> HIDE DEF from
    <3> QED BY <1>0, <1>1, <1>3, <1>4, <2>3, <3>1
  <2> QED BY <2>1, <2>2, <2>3
<1> HIDE DEF to, from
<1>5. Ladder(after, side)
  <2>1. \A k \in 1..Len(after) : Queued(after[k].orders)
    BY <1>1, <1>3 DEF Ladder
  <2> QED BY <1>0, <1>4, <2>1 DEF Ladder
<1>6. RestElsewhere(after, side, i) = RestOf(levels, side)
  <2>1. \A k \in 1..Len(levels) : after[to(k)] = levels[k] /\ to(k) \in 1..Len(after) \ {i}
    BY <1>1, <1>2
  <2>2. \A o : o \in RestElsewhere(after, side, i)
                 <=> \E k \in 1..Len(after) \ {i} : o \in RestAt(after[k].orders, side, after[k].price)
    BY DEF RestElsewhere
  <2>3. \A o : o \in RestOf(levels, side)
                 <=> \E k \in 1..Len(levels) : o \in RestAt(levels[k].orders, side, levels[k].price)
    BY DEF RestOf
  <2>4. ASSUME NEW o \in RestElsewhere(after, side, i) PROVE o \in RestOf(levels, side)
    BY <1>1, <2>2, <2>3, <2>4
  <2>5. ASSUME NEW o \in RestOf(levels, side) PROVE o \in RestElsewhere(after, side, i)
    BY <2>1, <2>2, <2>3, <2>5
  <2> QED BY <2>4, <2>5
<1>7. RestOf(after, side) = RestElsewhere(after, side, i)
         \cup RestAt(after[i].orders, side, after[i].price)
  BY <1>0, <1>5, Split
<1> QED BY <1>3, <1>5, <1>6, <1>7

(* Tail removes the first element.                                         *)
LEMMA TailIsRemoval ==
    ASSUME NEW S, NEW s \in Seq(S), s # <<>>
    PROVE  Tail(s) = RemoveAt(s, 1)
<1>1. Len(s) \in Nat \ {0} /\ \A j \in 1..Len(s) : s[j] \in S
  BY EmptySeq, ElementOfSeq
<1>2. Tail(s) = SubSeq(s, 2, Len(s)) /\ Tail(s) \in Seq(S)
  BY TailIsSubSeq, HeadTailProperties
<1>3. SubSeq(s, 1, 0) = <<>>
  BY SubSeqEmpty
<1>4. <<>> \o Tail(s) = Tail(s)
  BY <1>2, ConcatEmptySeq
<1> QED BY <1>2, <1>3, <1>4 DEF RemoveAt

(* The types of a level's orders, and their distinct ids.                  *)
LEMMA QueuedTypes ==
    ASSUME NEW orders, Queued(orders)
    PROVE  /\ orders \in Seq(Orders) /\ Len(orders) \in Nat \ {0}
           /\ \A j \in 1..Len(orders) :
                orders[j] \in Orders /\ orders[j].id \in Nat /\ orders[j].qty \in Nat \ {0}
           /\ \A j, k \in 1..Len(orders) : orders[j].id = orders[k].id => j = k
<1>1. orders \in Seq(Orders) /\ Len(orders) \in Nat \ {0}
  BY EmptySeq DEF Queued
<1>2. \A j \in 1..Len(orders) :
        orders[j] \in Orders /\ orders[j].id \in Nat /\ orders[j].qty \in Nat \ {0}
  <2>1. \A j \in 1..Len(orders) : orders[j] \in Orders
    BY <1>1, ElementOfSeq
  <2> QED BY <2>1 DEF Orders
<1>3. ASSUME NEW j \in 1..Len(orders), NEW k \in 1..Len(orders), j # k
      PROVE  orders[j].id # orders[k].id
  <2>1. orders[j].id < orders[k].id \/ orders[k].id < orders[j].id
    BY <1>1, <1>3 DEF Queued
  <2> QED BY <1>2, <2>1
<1> QED BY <1>1, <1>2, <1>3

(* One order leaves a level that holds others.                             *)
LEMMA OrderRemoved ==
    ASSUME NEW side, NEW p, NEW orders, Queued(orders), Len(orders) > 1, NEW i \in 1..Len(orders)
    PROVE  /\ Queued(RemoveAt(orders, i))
           /\ RestAt(RemoveAt(orders, i), side, p)
                 = {o \in RestAt(orders, side, p) : o.id # orders[i].id}
<1> DEFINE after == RemoveAt(orders, i)
           from(j) == IF j < i THEN j ELSE j + 1
<1>0. Len(orders) \in Nat /\ orders \in Seq(Orders)
  BY QueuedTypes
<1>1. /\ after \in Seq(Orders) /\ Len(after) = Len(orders) - 1
      /\ \A j \in 1..Len(after) : after[j] = orders[from(j)] /\ from(j) \in 1..Len(orders) \ {i}
  <2>1. /\ after \in Seq(Orders) /\ Len(after) = Len(orders) - 1
        /\ \A j \in 1..(Len(orders) - 1) : after[j] = IF j < i THEN orders[j] ELSE orders[j + 1]
    BY <1>0, RemoveAtIs
  <2> HIDE DEF after
  <2> QED BY <1>0, <2>1
<1> HIDE DEF after
<1>2. Queued(after)
  <2>1. \A j, k \in 1..Len(after) : j < k => from(j) < from(k)
    BY <1>0, <1>1
  <2>2. after # <<>>
    BY <1>0, <1>1, EmptySeq
  <2> HIDE DEF from
  <2> QED BY <1>1, <2>1, <2>2 DEF Queued
<1>3. \A j \in 1..Len(orders) \ {i} : \E k \in 1..Len(after) : from(k) = j
  <2> TAKE j \in 1..Len(orders) \ {i}
  <2>1. CASE j < i
    BY <1>0, <1>1, <2>1
  <2>2. CASE j > i
    <3>1. j - 1 \in 1..Len(after) /\ from(j - 1) = j
      BY <1>0, <1>1, <2>2
    <3> QED BY <3>1
  <2> QED BY <1>0, <2>1, <2>2
<1>4. \A j \in 1..Len(orders) : orders[j].id = orders[i].id <=> j = i
  BY QueuedTypes
<1> DEFINE rec(o) == [id |-> o.id, side |-> side, price |-> p, qty |-> o.qty]
<1> HIDE DEF from
<1>5. RestAt(after, side, p) = {o \in RestAt(orders, side, p) : o.id # orders[i].id}
  <2>1. RestAt(after, side, p) = {rec(orders[j]) : j \in 1..Len(orders) \ {i}}
    <3>1. RestAt(after, side, p) = {rec(after[j]) : j \in 1..Len(after)}
      BY DEF RestAt
    <3> HIDE DEF rec
    <3> QED BY <1>1, <1>3, <3>1
  <2>2. RestAt(orders, side, p) = {rec(orders[j]) : j \in 1..Len(orders)}
    BY DEF RestAt
  <2>3. \A j \in 1..Len(orders) : rec(orders[j]).id = orders[j].id
    OBVIOUS
  <2> HIDE DEF rec
  <2> QED BY <1>4, <2>1, <2>2, <2>3
<1> QED BY <1>2, <1>5 DEF after

(* An order newer than all others joins a level.                           *)
LEMMA OrderQueued ==
    ASSUME NEW side, NEW p, NEW orders, Queued(orders), NEW o \in Orders,
           \A j \in 1..Len(orders) : orders[j].id < o.id
    PROVE  /\ Queued(Append(orders, o))
           /\ RestAt(Append(orders, o), side, p) = RestAt(orders, side, p)
                 \cup {[id |-> o.id, side |-> side, price |-> p, qty |-> o.qty]}
<1> DEFINE after == Append(orders, o)
<1>0. Len(orders) \in Nat /\ orders \in Seq(Orders)
  BY QueuedTypes
<1>1. /\ after \in Seq(Orders) /\ after # <<>> /\ Len(after) = Len(orders) + 1
      /\ \A j \in 1..Len(orders) : after[j] = orders[j]
      /\ after[Len(orders) + 1] = o
  BY <1>0, AppendProperties
<1> HIDE DEF after
<1>2. Queued(after)
  BY <1>0, <1>1 DEF Queued
<1>3. 1..Len(after) = 1..Len(orders) \cup {Len(orders) + 1}
  BY <1>0, <1>1
<1>4. RestAt(after, side, p) = RestAt(orders, side, p)
                 \cup {[id |-> o.id, side |-> side, price |-> p, qty |-> o.qty]}
  BY <1>1, <1>3 DEF RestAt
<1> QED BY <1>2, <1>4 DEF after

(* The first order of a level is filled in part.                           *)
LEMMA FirstReduced ==
    ASSUME NEW side, NEW p, NEW orders, Queued(orders), NEW q \in Nat, q < orders[1].qty,
           NEW after, after = [orders EXCEPT ![1].qty = @ - q]
    PROVE  /\ Queued(after)
           /\ RestAt(after, side, p)
                 = {o \in RestAt(orders, side, p) : o.id # orders[1].id}
                     \cup {[id |-> orders[1].id, side |-> side, price |-> p, qty |-> orders[1].qty - q]}
<1> DEFINE e == [orders[1] EXCEPT !.qty = @ - q]
<1>0. /\ orders \in Seq(Orders) /\ Len(orders) \in Nat \ {0} /\ 1 \in 1..Len(orders)
      /\ orders[1] \in Orders /\ orders[1].qty \in Nat \ {0}
  BY QueuedTypes
<1>1. e \in Orders /\ e.id = orders[1].id /\ e.qty = orders[1].qty - q
  <2>1. orders[1].qty - q \in Nat \ {0} /\ orders[1] \in [id : Nat, qty : Nat \ {0}]
    BY <1>0 DEF Orders
  <2> QED BY <2>1 DEF Orders
<1>2. after = [orders EXCEPT ![1] = e]
  OBVIOUS
<1> HIDE DEF e
<1>3. /\ after \in Seq(Orders) /\ Len(after) = Len(orders)
      /\ \A k \in 1..Len(orders) : after[k] = IF k = 1 THEN e ELSE orders[k]
  <2>1. Replacing(after, orders, 1, e, Orders)
    BY <1>0, <1>1, <1>2, ReplacedIs
  <2> QED BY <2>1 DEF Replacing
<1>4. Queued(after)
  BY <1>0, <1>1, <1>3, EmptySeq DEF Queued
<1>5. \A j \in 1..Len(orders) : orders[j].id = orders[1].id <=> j = 1
  BY <1>0, QueuedTypes
<1>6. RestAt(after, side, p)
        = {o \in RestAt(orders, side, p) : o.id # orders[1].id}
            \cup {[id |-> orders[1].id, side |-> side, price |-> p, qty |-> orders[1].qty - q]}
  BY <1>0, <1>1, <1>3, <1>5 DEF RestAt
<1> QED BY <1>4, <1>6
-----------------------------------------------------------------------------
(* The order the loop trades with comes first by price and time.           *)
LEMMA FrontIsFirst ==
    ASSUME NEW side \in Sides, NEW levels, Ladder(levels, side), levels # <<>>
    PROVE  /\ 1 \in 1..Len(levels) /\ 1 \in 1..Len(levels[1].orders)
           /\ Head(levels) = levels[1] /\ Head(levels[1].orders) = levels[1].orders[1]
           /\ FrontOf(levels, side) \in RestOf(levels, side)
           /\ \A o \in RestOf(levels, side) \ {FrontOf(levels, side)} :
                Contract!Ahead(FrontOf(levels, side), o)
<1> DEFINE f == FrontOf(levels, side)
<1>1. 1 \in 1..Len(levels) /\ 1 \in 1..Len(levels[1].orders)
  BY LadderTypes, EmptySeq
<1>2. Head(levels) = levels[1] /\ Head(levels[1].orders) = levels[1].orders[1]
  BY <1>1
<1>3. f \in RestOf(levels, side)
  BY <1>1 DEF RestOf, RestAt, FrontOf
<1>4. ASSUME NEW o \in RestOf(levels, side), o # f PROVE Contract!Ahead(f, o)
  <2>0. PICK i \in 1..Len(levels) : o \in RestAt(levels[i].orders, side, levels[i].price)
    BY DEF RestOf
  <2>1. PICK j \in 1..Len(levels[i].orders) :
            o = [id |-> levels[i].orders[j].id, side |-> side, price |-> levels[i].price,
                 qty |-> levels[i].orders[j].qty]
    BY <2>0 DEF RestAt
  <2>2. CASE i = 1
    <3>1. 1 < j /\ Queued(levels[1].orders)
      BY <1>1, <1>4, <2>1, <2>2, LadderTypes DEF FrontOf, Ladder
    <3>2. levels[1].orders[1].id < levels[1].orders[j].id
      BY <1>1, <2>1, <2>2, <3>1 DEF Queued
    <3> QED BY <2>1, <2>2, <3>2 DEF Contract!Ahead, FrontOf
  <2>3. CASE i # 1
    <3>1. Better(side, levels[1].price, levels[i].price)
      BY <1>1, <2>3, LadderTypes DEF Ladder
    <3> QED BY <2>1, <3>1 DEF Contract!Ahead, FrontOf, Better, Sides
  <2> QED BY <2>2, <2>3
<1> QED BY <1>1, <1>2, <1>3, <1>4

(* An iteration trades o in full, or the last units left with a part of o. *)
TookAll(f, m, o, side, band) ==
    /\ RestOf(f.levels, side) = RestOf(m.levels, side) \ {o}
    /\ f.remaining = m.remaining - o.qty
    /\ f.live = LiveAfter(m.live, o.id)
    /\ f.trades = Append(m.trades, Trade(o, o.qty, band))
TookPart(f, m, o, side, band) ==
    /\ RestOf(f.levels, side) = (RestOf(m.levels, side) \ {o})
          \cup {[o EXCEPT !.qty = @ - m.remaining]}
    /\ f.remaining = 0 /\ f.live = m.live
    /\ f.trades = Append(m.trades, Trade(o, m.remaining, band))

(* One iteration of the match loop, on the resting orders.                 *)
LEMMA FrontFilled ==
    ASSUME NEW side \in Sides, NEW m, Ladder(m.levels, side), m.levels # <<>>,
           m.remaining \in Nat \ {0}, NEW band, NEW o, o = FrontOf(m.levels, side),
           NEW f, f = FillFront(m, band)
    PROVE  /\ Ladder(f.levels, side)
           /\ m.remaining >= o.qty => TookAll(f, m, o, side, band)
           /\ m.remaining < o.qty => TookPart(f, m, o, side, band)
<1> DEFINE l == m.levels[1]
           q == m.remaining
<1>1. /\ 1 \in 1..Len(m.levels) /\ 1 \in 1..Len(l.orders)
      /\ Head(m.levels) = l /\ Head(l.orders) = l.orders[1]
      /\ o \in RestOf(m.levels, side)
  BY FrontIsFirst
<1>2. /\ Queued(l.orders) /\ l.orders \in Seq(Orders) /\ Len(l.orders) \in Nat \ {0}
      /\ l.orders[1].qty \in Nat \ {0} /\ m.levels \in Seq(Levels)
  BY <1>1, LadderTypes DEF Ladder
<1>3. /\ o.id = l.orders[1].id /\ o.qty = l.orders[1].qty /\ o.price = l.price
      /\ o \in RestAt(l.orders, side, l.price)
      /\ o = [id |-> l.orders[1].id, side |-> side, price |-> l.price, qty |-> l.orders[1].qty]
  BY <1>1 DEF FrontOf, RestAt
<1>4. RestOf(m.levels, side) = OffPrice(m.levels, side, l.price) \cup RestAt(l.orders, side, l.price)
  BY <1>1, Split
<1>5. OffPrice(m.levels, side, l.price) \cup {x \in RestAt(l.orders, side, l.price) : x.id # o.id}
        = RestOf(m.levels, side) \ {o}
  <2>1. ASSUME NEW x \in RestAt(l.orders, side, l.price), x.id = o.id PROVE x = o
    <3>1. PICK j \in 1..Len(l.orders) :
              x = [id |-> l.orders[j].id, side |-> side, price |-> l.price, qty |-> l.orders[j].qty]
      BY DEF RestAt
    <3>2. j = 1
      BY <1>1, <1>2, <1>3, <2>1, <3>1, QueuedTypes
    <3> QED BY <1>3, <3>1, <3>2
  <2>2. o \notin OffPrice(m.levels, side, l.price)
    BY <1>3 DEF OffPrice
  <2> QED BY <1>4, <2>1, <2>2
<1>6. CASE q < o.qty
  <2>1. /\ f.levels = [m.levels EXCEPT ![1].orders[1].qty = @ - q]
        /\ f.remaining = 0 /\ f.live = m.live
        /\ f.trades = Append(m.trades, Trade(o, q, band)) /\ ~(q >= o.qty)
    <3>1. ~(q >= o.qty) /\ ~(m.remaining >= Head(Head(m.levels).orders).qty) /\ q - q = 0
      BY <1>1, <1>2, <1>3, <1>6
    <3>2. FillFront(m, band) =
            [remaining |-> q - q,
             trades |-> Append(m.trades, [maker |-> Head(l.orders).id, qty |-> q,
                                          makerPrice |-> l.price, aggLimit |-> band]),
             levels |-> [m.levels EXCEPT ![1].orders[1].qty = @ - q],
             live |-> m.live]
      BY <1>1, <3>1, Zenon DEF FillFront
    <3> QED BY <1>1, <1>3, <3>1, <3>2 DEF Trade
  <2> DEFINE os == [l.orders EXCEPT ![1].qty = @ - q]
  <2>2. f.levels = WithOrders(m.levels, 1, os)
    BY <1>1, <2>1 DEF WithOrders
  <2>3. /\ Queued(os)
        /\ RestAt(os, side, l.price) = {x \in RestAt(l.orders, side, l.price) : x.id # l.orders[1].id}
              \cup {[id |-> l.orders[1].id, side |-> side, price |-> l.price, qty |-> l.orders[1].qty - q]}
    BY <1>2, <1>3, <1>6, FirstReduced
  <2>4. [o EXCEPT !.qty = @ - q]
          = [id |-> l.orders[1].id, side |-> side, price |-> l.price, qty |-> l.orders[1].qty - q]
    BY <1>3
  <2> HIDE DEF os
  <2>5. /\ Ladder(f.levels, side)
        /\ RestOf(f.levels, side) = OffPrice(m.levels, side, l.price) \cup RestAt(os, side, l.price)
    BY <1>1, <2>2, <2>3, SetOrders
  <2>6. RestOf(f.levels, side) = (RestOf(m.levels, side) \ {o}) \cup {[o EXCEPT !.qty = @ - q]}
    BY <1>3, <1>5, <2>3, <2>4, <2>5
  <2> QED BY <2>1, <2>5, <2>6, Zenon DEF TookPart
<1>7. CASE q >= o.qty
  <2>1. /\ f.levels = IF Len(l.orders) > 1 THEN [m.levels EXCEPT ![1].orders = Tail(@)]
                       ELSE Tail(m.levels)
        /\ f.remaining = q - o.qty /\ f.live = LiveAfter(m.live, o.id)
        /\ f.trades = Append(m.trades, Trade(o, o.qty, band)) /\ ~(q < o.qty)
    BY <1>1, <1>2, <1>3, <1>7 DEF FillFront, Trade
  <2>2. CASE Len(l.orders) > 1
    <3> DEFINE os == RemoveAt(l.orders, 1)
    <3>1. f.levels = WithOrders(m.levels, 1, os)
      <4>1. Tail(l.orders) = os
        BY <1>2, TailIsRemoval, EmptySeq
      <4> QED BY <2>1, <2>2, <4>1 DEF WithOrders
    <3>2. /\ Queued(os)
          /\ RestAt(os, side, l.price) = {x \in RestAt(l.orders, side, l.price) : x.id # o.id}
      BY <1>1, <1>2, <1>3, <2>2, OrderRemoved
    <3> HIDE DEF os
    <3>3. /\ Ladder(f.levels, side)
          /\ RestOf(f.levels, side) = OffPrice(m.levels, side, l.price) \cup RestAt(os, side, l.price)
      BY <1>1, <3>1, <3>2, SetOrders
    <3>4. RestOf(f.levels, side) = RestOf(m.levels, side) \ {o}
      BY <1>5, <3>2, <3>3
    <3> QED BY <2>1, <3>3, <3>4, Zenon DEF TookAll
  <2>3. CASE ~(Len(l.orders) > 1)
    <3>1. f.levels = RemoveAt(m.levels, 1)
      BY <1>2, <2>1, <2>3, TailIsRemoval
    <3>2. /\ Ladder(f.levels, side)
          /\ RestOf(f.levels, side) = OffPrice(m.levels, side, l.price)
      BY <1>1, <3>1, DropLevel
    <3>3. {x \in RestAt(l.orders, side, l.price) : x.id # o.id} = {}
      BY <1>1, <1>2, <1>3, <2>3 DEF RestAt
    <3>4. RestOf(f.levels, side) = RestOf(m.levels, side) \ {o}
      BY <1>5, <3>2, <3>3
    <3> QED BY <2>1, <3>2, <3>4, Zenon DEF TookAll
  <2> QED BY <2>2, <2>3
<1>8. q < o.qty \/ q >= o.qty
  BY <1>2, <1>3
<1> QED BY <1>6, <1>7, <1>8

(* Min picks the least number of a set.                                    *)
LEMMA MinIsLeast ==
    ASSUME NEW S \in SUBSET Nat, S # {}
    PROVE  Min(S) \in S /\ \A y \in S : Min(S) <= y
BY LeastNat DEF Min

(* An order joins the level of its price.                                  *)
LEMMA Joined ==
    ASSUME NEW side, NEW levels, Ladder(levels, side), NEW i \in 1..Len(levels),
           NEW ord \in Orders, \A o \in RestOf(levels, side) : o.id < ord.id,
           NEW after, after = WithOrders(levels, i, Append(levels[i].orders, ord))
    PROVE  /\ Ladder(after, side)
           /\ RestOf(after, side) = RestOf(levels, side)
                 \cup {[id |-> ord.id, side |-> side, price |-> levels[i].price, qty |-> ord.qty]}
<1> DEFINE p == levels[i].price
           old == levels[i].orders
           os == Append(old, ord)
<1>1. Queued(old) /\ \A j \in 1..Len(old) : old[j].id < ord.id
  <2>1. ASSUME NEW j \in 1..Len(old) PROVE old[j].id < ord.id
    <3>1. [id |-> old[j].id, side |-> side, price |-> p, qty |-> old[j].qty] \in RestOf(levels, side)
      BY DEF RestOf, RestAt
    <3> QED BY <3>1
  <2> QED BY <2>1 DEF Ladder
<1> HIDE DEF old, p
<1>2. /\ Queued(os)
      /\ RestAt(os, side, p) = RestAt(old, side, p)
            \cup {[id |-> ord.id, side |-> side, price |-> p, qty |-> ord.qty]}
  BY <1>1, OrderQueued
<1>3. after = WithOrders(levels, i, os)
  BY DEF old
<1> HIDE DEF os
<1>4. /\ Ladder(after, side)
      /\ RestOf(after, side) = OffPrice(levels, side, levels[i].price)
             \cup RestAt(os, side, levels[i].price)
  <2>1. Queued(os)
    BY <1>2
  <2> QED BY <1>3, <2>1, SetOrders
<1>5. RestOf(levels, side) = OffPrice(levels, side, p) \cup RestAt(old, side, p)
  BY Split DEF p, old
<1> QED BY <1>2, <1>4, <1>5 DEF p

(* An order joins the level of its price, or a new one in price order.     *)
LEMMA Inserted ==
    ASSUME NEW side \in Sides, NEW levels, Ladder(levels, side), NEW p \in Nat, NEW ord \in Orders,
           \A o \in RestOf(levels, side) : o.id < ord.id,
           NEW after, after = InsertLevel(levels, p, ord, side = "BUY")
    PROVE  /\ Ladder(after, side)
           /\ RestOf(after, side) = RestOf(levels, side)
                 \cup {[id |-> ord.id, side |-> side, price |-> p, qty |-> ord.qty]}
<1> DEFINE new == [price |-> p, orders |-> <<ord>>]
           S == {k \in 1..Len(levels) : levels[k].price = p \/ Better(side, p, levels[k].price)}
           i0 == IF S # {} THEN Min(S) ELSE 0
<1>1. /\ levels \in Seq(Levels) /\ Len(levels) \in Nat
      /\ \A k \in 1..Len(levels) : levels[k].price \in Nat
  BY LadderTypes
<1>2. after = IF i0 = 0 THEN Append(levels, new)
              ELSE IF levels[i0].price = p THEN [levels EXCEPT ![i0].orders = Append(@, ord)]
              ELSE InsertAt(levels, i0, new)
  <2>1. S = {k \in 1..Len(levels) : levels[k].price = p
                 \/ IF side = "BUY" THEN levels[k].price < p ELSE levels[k].price > p}
    BY <1>1 DEF Better
  <2>2. CASE side = "BUY"
    <3>1. S = {k \in 1..Len(levels) : levels[k].price = p \/ levels[k].price < p}
      BY <2>1, <2>2
    <3>2. after = InsertLevel(levels, p, ord, TRUE)
      BY <2>2
    <3> HIDE DEF S, new
    <3>3. after = CASE i0 = 0 -> Append(levels, new)
                    [] i0 # 0 /\ levels[i0].price = p -> [levels EXCEPT ![i0].orders = Append(@, ord)]
                    [] OTHER -> InsertAt(levels, i0, new)
      BY <3>1, <3>2 DEF InsertLevel, SelectInSeq, new
    <3> QED BY <3>3
  <2>3. CASE side = "SELL"
    <3>1. S = {k \in 1..Len(levels) : levels[k].price = p \/ levels[k].price > p}
      BY <2>1, <2>3
    <3>2. after = InsertLevel(levels, p, ord, FALSE)
      BY <2>3
    <3> HIDE DEF S, new
    <3>3. after = CASE i0 = 0 -> Append(levels, new)
                    [] i0 # 0 /\ levels[i0].price = p -> [levels EXCEPT ![i0].orders = Append(@, ord)]
                    [] OTHER -> InsertAt(levels, i0, new)
      BY <3>1, <3>2 DEF InsertLevel, SelectInSeq, new
    <3> QED BY <3>3
  <2> QED BY <2>2, <2>3 DEF Sides
<1>3. new \in Levels /\ Queued(new.orders)
      /\ RestAt(new.orders, side, p) = {[id |-> ord.id, side |-> side, price |-> p, qty |-> ord.qty]}
  <2>1. <<ord>> \in Seq(Orders) /\ Len(<<ord>>) = 1 /\ <<ord>>[1] = ord /\ <<ord>> # <<>>
    OBVIOUS
  <2> QED BY <2>1 DEF Levels, Queued, RestAt
<1>4. i0 # 0 => i0 \in S /\ \A k \in S : i0 <= k
  <2>1. S \in SUBSET Nat
    BY <1>1
  <2> HIDE DEF S
  <2> QED BY <2>1, MinIsLeast
<1>5. i0 = 0 => S = {}
  <2>1. S # {} => Min(S) \in S
    <3>1. S \in SUBSET Nat
      BY <1>1
    <3> HIDE DEF S
    <3> QED BY <3>1, MinIsLeast
  <2> QED BY <1>1, <2>1
<1>6. ASSUME NEW k \in 1..Len(levels), k \notin S PROVE Better(side, levels[k].price, p)
  BY <1>1, <1>6 DEF Better
<1>7. CASE i0 = 0
  <2>1. /\ after \in Seq(Levels) /\ Len(after) = Len(levels) + 1
        /\ \A k \in 1..Len(levels) : after[k] = levels[k]
        /\ after[Len(levels) + 1] = new
    <3>1. after = Append(levels, new)
      BY <1>2, <1>7
    <3> HIDE DEF new
    <3> QED BY <1>1, <1>3, <3>1, AppendProperties
  <2>2. \A k \in 1..Len(levels) : Better(side, levels[k].price, new.price)
    BY <1>5, <1>6, <1>7
  <2>3. new.price = p
    OBVIOUS
  <2> HIDE DEF new, S, i0
  <2>4. /\ PutIn(after, levels, Len(levels) + 1, new)
        /\ FitsAt(levels, side, Len(levels) + 1, new.price)
        /\ Len(levels) + 1 \in 1..(Len(levels) + 1)
    BY <1>1, <2>1, <2>2 DEF PutIn, FitsAt
  <2>5. /\ Ladder(after, side)
        /\ RestOf(after, side) = RestOf(levels, side) \cup RestAt(new.orders, side, new.price)
    BY <1>3, <2>4, LevelAdded
  <2> QED BY <1>3, <2>3, <2>5
<1>8. CASE i0 # 0 /\ levels[i0].price = p
  <2>0. PICK i \in 1..Len(levels) : i = i0
    BY <1>4, <1>8
  <2>1. levels[i].price = p /\ after = WithOrders(levels, i, Append(levels[i].orders, ord))
    BY <1>2, <1>8, <2>0 DEF WithOrders
  <2> HIDE DEF i0, S
  <2> QED BY <2>1, Joined
<1>9. CASE i0 # 0 /\ levels[i0].price # p
  <2>0. PICK i \in 1..Len(levels) : i = i0
    BY <1>4, <1>9
  <2>1. /\ after = InsertAt(levels, i, new)
        /\ Better(side, p, levels[i].price) /\ \A k \in S : i <= k
    BY <1>2, <1>4, <1>9, <2>0
  <2>2. \A k \in 1..Len(levels) : k < i => Better(side, levels[k].price, p)
    BY <1>6, <2>1
  <2>3. new.price = p
    OBVIOUS
  <2> HIDE DEF i0, S, new
  <2>4. \A k \in 1..Len(levels) : k >= i => Better(side, p, levels[k].price)
    <3> SUFFICES ASSUME NEW k \in 1..Len(levels), k > i PROVE Better(side, p, levels[k].price)
      BY <1>1, <2>1
    <3>1. Better(side, levels[i].price, levels[k].price)
      BY <2>1 DEF Ladder
    <3> QED BY <1>1, <2>1, <3>1 DEF Better
  <2>5. /\ after \in Seq(Levels) /\ Len(after) = Len(levels) + 1
        /\ \A k \in 1..(Len(levels) + 1) : after[k]
              = IF k < i THEN levels[k] ELSE IF k = i THEN new ELSE levels[k - 1]
    BY <1>1, <1>3, <2>1, InsertAtIs
  <2>6. i \in 1..(Len(levels) + 1)
    BY <1>1, <2>1
  <2>7. PICK e \in Levels : e = new
    BY <1>3
  <2>8. /\ Ladder(after, side)
        /\ RestOf(after, side) = RestOf(levels, side) \cup RestAt(e.orders, side, e.price)
    <3>1. FitsAt(levels, side, i, e.price)
      BY <2>2, <2>3, <2>4, <2>7 DEF FitsAt
    <3>2. Queued(e.orders) /\ PutIn(after, levels, i, e)
      BY <1>3, <2>5, <2>7 DEF PutIn
    <3> QED BY <2>6, <3>1, <3>2, LevelAdded
  <2> QED BY <1>3, <2>3, <2>7, <2>8
<1> QED BY <1>7, <1>8, <1>9

(* A single order has the first place.                                     *)
LEMMA OnlyOne ==
    ASSUME NEW n \in Nat \ {0}, ~(n > 1), NEW j \in 1..n
    PROVE  n = 1 /\ j = 1
OBVIOUS

(* A cancelled order leaves, and so does a level it leaves empty.          *)
LEMMA Withdrawn ==
    ASSUME NEW side, NEW levels, Ladder(levels, side), OneId(RestOf(levels, side)),
           NEW o \in RestOf(levels, side),
           NEW after, after = Without(levels, o.id, o.price)
    PROVE  /\ Ladder(after, side)
           /\ RestOf(after, side) = RestOf(levels, side) \ {o}
<1> DEFINE S == {k \in 1..Len(levels) : levels[k].price = o.price
                     /\ \E x \in ToSet(levels[k].orders) : x.id = o.id}
           i0 == IF S # {} THEN Min(S) ELSE 0
           J(i) == {k \in 1..Len(levels[i].orders) : levels[i].orders[k].id = o.id}
           j0(i) == IF J(i) # {} THEN Min(J(i)) ELSE 0
<1>1. after = IF i0 = 0 THEN levels
              ELSE IF Len(levels[i0].orders) > 1
                   THEN [levels EXCEPT ![i0].orders = RemoveAt(levels[i0].orders, j0(i0))]
              ELSE RemoveAt(levels, i0)
  BY DEF Without, SelectInSeq
<1>2. /\ levels \in Seq(Levels) /\ Len(levels) \in Nat
      /\ \A k \in 1..Len(levels) : /\ DOMAIN levels[k].orders = 1..Len(levels[k].orders)
                                   /\ Len(levels[k].orders) \in Nat \ {0}
  BY LadderTypes
<1>3. PICK i \in 1..Len(levels) : /\ i = i0 /\ i # 0 /\ levels[i].price = o.price
                                  /\ \E x \in ToSet(levels[i].orders) : x.id = o.id
  <2>1. PICK k \in 1..Len(levels) : o \in RestAt(levels[k].orders, side, levels[k].price)
    BY DEF RestOf
  <2>2. k \in S
    BY <1>2, <2>1 DEF RestAt, ToSet
  <2>3. S \in SUBSET Nat /\ S # {}
    BY <1>2, <2>2
  <2>4. Min(S) \in S
    <3> HIDE DEF S
    <3> QED BY <2>3, MinIsLeast
  <2>5. i0 \in S /\ i0 # 0
    BY <1>2, <2>3, <2>4
  <2> HIDE DEF i0
  <2> QED BY <2>5
<1>4. PICK j \in 1..Len(levels[i].orders) : j = j0(i) /\ levels[i].orders[j].id = o.id
  <2>0. \E k \in 1..Len(levels[i].orders) : levels[i].orders[k].id = o.id
    <3> HIDE DEF i0
    <3> QED BY <1>2, <1>3 DEF ToSet
  <2>1. J(i) \in SUBSET Nat /\ J(i) # {}
    <3>1. Len(levels[i].orders) \in Nat
      BY <1>2
    <3> HIDE DEF i0
    <3> QED BY <2>0, <3>1
  <2>2. Min(J(i)) \in J(i)
    <3> HIDE DEF J
    <3> QED BY <2>1, MinIsLeast
  <2> QED BY <2>1, <2>2
<1>a. after = IF Len(levels[i].orders) > 1
              THEN [levels EXCEPT ![i].orders = RemoveAt(levels[i].orders, j)]
              ELSE RemoveAt(levels, i)
  <2> HIDE DEF i0, j0, J, S
  <2> QED BY <1>1, <1>3, <1>4
<1> HIDE DEF i0, j0, J, S
<1>5. /\ RestOf(levels, side) = OffPrice(levels, side, o.price)
             \cup RestAt(levels[i].orders, side, o.price)
      /\ Queued(levels[i].orders)
  BY <1>3, Split DEF Ladder
<1>6. OffPrice(levels, side, o.price)
        \cup {x \in RestAt(levels[i].orders, side, o.price) : x.id # o.id}
        = RestOf(levels, side) \ {o}
  <2>1. \A x \in RestOf(levels, side) : x.id = o.id <=> x = o
    BY DEF OneId
  <2>2. o \notin OffPrice(levels, side, o.price) /\ OffPrice(levels, side, o.price) \subseteq RestOf(levels, side)
    BY DEF OffPrice
  <2> QED BY <1>5, <2>1, <2>2
<1>7. CASE Len(levels[i].orders) > 1
  <2> DEFINE os == RemoveAt(levels[i].orders, j)
  <2>1. /\ Queued(os)
        /\ RestAt(os, side, o.price) = {x \in RestAt(levels[i].orders, side, o.price) : x.id # o.id}
    <3>1. /\ Queued(os)
          /\ RestAt(os, side, o.price) = {x \in RestAt(levels[i].orders, side, o.price) :
                                            x.id # levels[i].orders[j].id}
      BY <1>4, <1>5, <1>7, OrderRemoved
    <3> QED BY <1>4, <3>1
  <2>2. after = WithOrders(levels, i, os)
    BY <1>a, <1>7 DEF WithOrders
  <2> HIDE DEF os
  <2>3. /\ Ladder(after, side)
        /\ RestOf(after, side) = OffPrice(levels, side, o.price) \cup RestAt(os, side, o.price)
    <3>1. levels[i].price = o.price
      BY <1>3
    <3>2. /\ Ladder(after, side)
          /\ RestOf(after, side) = OffPrice(levels, side, levels[i].price)
                 \cup RestAt(os, side, levels[i].price)
      BY <2>1, <2>2, SetOrders
    <3> QED BY <3>1, <3>2
  <2> QED BY <1>6, <2>1, <2>3
<1>8. CASE ~(Len(levels[i].orders) > 1)
  <2>1. after = RemoveAt(levels, i)
    BY <1>a, <1>8
  <2>2. /\ Ladder(after, side)
        /\ RestOf(after, side) = OffPrice(levels, side, o.price)
    BY <1>3, <2>1, DropLevel
  <2>3. Len(levels[i].orders) = 1 /\ j = 1
    <3>1. Len(levels[i].orders) \in Nat \ {0}
      BY <1>2, <1>3
    <3> QED BY <1>8, <3>1, OnlyOne
  <2>4. {x \in RestAt(levels[i].orders, side, o.price) : x.id # o.id} = {}
    BY <1>4, <2>3 DEF RestAt
  <2> QED BY <1>6, <2>2, <2>4
<1> QED BY <1>7, <1>8
-----------------------------------------------------------------------------
(* The loop's recursion, as the function it defines.                       *)
LoopStep(m, side, market, limit, band) ==
    IF Matching(m, side, market, limit) THEN FillFront(m, band) ELSE m
LoopIs(f, D, start, side, market, limit, band) ==
    f = [n \in D |-> IF n = 0 THEN start ELSE LoopStep(f[n - 1], side, market, limit, band)]

(* The match loop starts at its start and goes on step by step.            *)
LEMMA LoopExists ==
    ASSUME NEW start, NEW side, NEW market, NEW limit, NEW band, NEW qty \in Nat,
           NEW loop, loop = MatchLoop(start, side, market, limit, band, qty)
    PROVE  /\ loop[0] = start
           /\ \A n \in 0..(qty - 1) : loop[n + 1] = LoopStep(loop[n], side, market, limit, band)
<1> DEFINE step(m) == LoopStep(m, side, market, limit, band)
           Is(f, k) == LoopIs(f, 0..k, start, side, market, limit, band)
           T == {k \in Nat : \E f : Is(f, k)}
<1>1. loop = CHOOSE f : Is(f, qty)
  BY DEF MatchLoop, LoopIs, LoopStep
<1>2. \A f, k : Is(f, k) <=> f = [n \in 0..k |-> IF n = 0 THEN start ELSE step(f[n - 1])]
  BY DEF LoopIs
<1> HIDE DEF Is, step
<1>3. 0 \in T
  <2> DEFINE f == [n \in 0..0 |-> start]
  <2>1. f = [n \in 0..0 |-> IF n = 0 THEN start ELSE step(f[n - 1])]
    <3>1. \A n \in 0..0 : n = 0
      OBVIOUS
    <3> QED BY <3>1
  <2> HIDE DEF f
  <2> QED BY <1>2, <2>1
<1>4. ASSUME NEW k \in Nat, k \in T PROVE k + 1 \in T
  <2>1. PICK f : f = [n \in 0..k |-> IF n = 0 THEN start ELSE step(f[n - 1])]
    BY <1>2, <1>4
  <2> DEFINE g == [n \in 0..(k + 1) |-> IF n = 0 THEN start ELSE step(f[n - 1])]
  <2>2. \A n \in 0..k : n \in 0..(k + 1) /\ g[n] = f[n]
    BY <2>1
  <2>3. \A n \in 0..(k + 1) : n # 0 => g[n - 1] = f[n - 1]
    <3> TAKE n \in 0..(k + 1)
    <3>1. n # 0 => n - 1 \in 0..k
      OBVIOUS
    <3> HIDE DEF g
    <3> QED BY <2>2, <3>1
  <2>4. g = [n \in 0..(k + 1) |-> IF n = 0 THEN start ELSE step(g[n - 1])]
    BY <2>3
  <2> HIDE DEF g
  <2>5. Is(g, k + 1) /\ k + 1 \in Nat
    BY <1>2, <2>4
  <2> QED BY <2>5
<1>5. qty \in T
  <2> HIDE DEF T
  <2> QED BY <1>3, <1>4, SetInduction
<1>6. loop = [n \in 0..qty |-> IF n = 0 THEN start ELSE step(loop[n - 1])]
  <2>1. Is(loop, qty)
    BY <1>1, <1>5
  <2> QED BY <1>2, <2>1
<1>7. ASSUME NEW n \in 0..(qty - 1) PROVE loop[n + 1] = step(loop[n])
  <2>1. n + 1 \in 0..qty /\ n + 1 # 0 /\ (n + 1) - 1 = n
    OBVIOUS
  <2> QED BY <1>6, <2>1
<1>8. loop[0] = start
  BY <1>6
<1> QED BY <1>7, <1>8 DEF step

(* The trades of a loop, as the contract's fills.                          *)
FillRec(o, q, band) == [maker |-> o.id, qty |-> q, price |-> o.price, band |-> band]
FillSet(ts) == {[maker |-> t.maker, qty |-> t.qty, price |-> t.makerPrice, band |-> t.aggLimit] :
                    t \in ToSet(ts)}
FillsFor(C, band) == {FillRec(o, o.qty, band) : o \in C}
Tradings(band) == [maker : Nat, qty : Nat, makerPrice : Nat, aggLimit : {band}]

(* Trades of this band, each with a maker of its own.                      *)
TradesOnce(ts, band) ==
    /\ ts \in Seq(Tradings(band))
    /\ \A i, j \in 1..Len(ts) : ts[i].maker = ts[j].maker => i = j

(* The orders of C come before the others of R.                            *)
FirstOf(C, R) == C \subseteq R /\ \A c \in C, o \in R \ C : Contract!Ahead(c, o)

LiveLess(live, before, C) ==
    /\ DOMAIN live = DOMAIN before \ {c.id : c \in C}
    /\ \A x \in DOMAIN live : live[x] = before[x]

(* The loop has filled the orders of C and touched no other of R.          *)
Full(m, side, R, live, band, qty, C) ==
    /\ Ladder(m.levels, side) /\ RestOf(m.levels, side) = R \ C
    /\ FirstOf(C, R)
    /\ m.remaining \in Nat /\ QtySum(C) + m.remaining = qty
    /\ TradesOnce(m.trades, band) /\ FillSet(m.trades) = FillsFor(C, band)
    /\ LiveLess(m.live, live, C)

(* It has filled those of C, and p with the r units that were left.        *)
Part(m, side, R, live, band, qty, C, p, r) ==
    /\ Ladder(m.levels, side)
    /\ p \in R \ C /\ RestOf(m.levels, side) = ((R \ C) \ {p}) \cup {[p EXCEPT !.qty = @ - r]}
    /\ FirstOf(C, R) /\ FirstOf(C \cup {p}, R)
    /\ r \in Nat \ {0} /\ r < p.qty
    /\ m.remaining = 0 /\ QtySum(C) + r = qty
    /\ TradesOnce(m.trades, band)
    /\ FillSet(m.trades) = FillsFor(C, band) \cup {FillRec(p, r, band)}
    /\ LiveLess(m.live, live, C)

(* One more trade is one more fill.                                        *)
LEMMA TradeAdded ==
    ASSUME NEW band, NEW ts \in Seq(Tradings(band)), NEW o, o.id \in Nat, o.price \in Nat, NEW q \in Nat
    PROVE  /\ Append(ts, Trade(o, q, band)) \in Seq(Tradings(band))
           /\ FillSet(Append(ts, Trade(o, q, band))) = FillSet(ts) \cup {FillRec(o, q, band)}
<1> DEFINE t == Trade(o, q, band)
           after == Append(ts, t)
<1>1. t \in Tradings(band)
  BY DEF Trade, Tradings
<1>2. /\ after \in Seq(Tradings(band)) /\ Len(after) = Len(ts) + 1
      /\ \A i \in 1..Len(ts) : after[i] = ts[i]
      /\ after[Len(ts) + 1] = t
  <2> HIDE DEF t
  <2> QED BY <1>1, AppendProperties
<1>3. FillRec(o, q, band) = [maker |-> t.maker, qty |-> t.qty, price |-> t.makerPrice, band |-> t.aggLimit]
  BY DEF FillRec, Trade
<1> HIDE DEF t, after
<1>4. Len(ts) \in Nat /\ DOMAIN ts = 1..Len(ts) /\ DOMAIN after = 1..(Len(ts) + 1)
  BY <1>2, LenProperties
<1>5. ToSet(after) = ToSet(ts) \cup {t}
  <2>1. 1..(Len(ts) + 1) = 1..Len(ts) \cup {Len(ts) + 1}
    BY <1>4
  <2> QED BY <1>2, <1>4, <2>1 DEF ToSet
<1>6. FillSet(after) = FillSet(ts) \cup {FillRec(o, q, band)}
  BY <1>3, <1>5 DEF FillSet
<1> QED BY <1>2, <1>6 DEF after, t

(* A trade with another maker keeps the makers apart.                      *)
LEMMA MakerAdded ==
    ASSUME NEW band, NEW ts, TradesOnce(ts, band), NEW o, o.id \in Nat, o.price \in Nat, NEW q \in Nat,
           NEW C, FillSet(ts) = FillsFor(C, band), \A c \in C : c.id # o.id
    PROVE  TradesOnce(Append(ts, Trade(o, q, band)), band)
<1> DEFINE t == Trade(o, q, band)
           after == Append(ts, t)
<1>1. ts \in Seq(Tradings(band)) /\ \A i, j \in 1..Len(ts) : ts[i].maker = ts[j].maker => i = j
  BY DEF TradesOnce
<1>2. t \in Tradings(band) /\ t.maker = o.id
  BY DEF Trade, Tradings
<1> HIDE DEF t
<1>3. /\ after \in Seq(Tradings(band)) /\ Len(after) = Len(ts) + 1
      /\ \A i \in 1..Len(ts) : after[i] = ts[i]
      /\ after[Len(ts) + 1] = t
  BY <1>1, <1>2, AppendProperties
<1>4. \A i \in 1..Len(ts) : ts[i].maker # o.id
  <2> TAKE i \in 1..Len(ts)
  <2>1. ts[i] \in ToSet(ts)
    BY <1>1, LenProperties DEF ToSet
  <2> DEFINE g == [maker |-> ts[i].maker, qty |-> ts[i].qty, price |-> ts[i].makerPrice,
                   band |-> ts[i].aggLimit]
  <2>2. g \in FillSet(ts) /\ g.maker = ts[i].maker
    BY <2>1 DEF FillSet
  <2> HIDE DEF g
  <2>3. PICK c \in C : g = FillRec(c, c.qty, band)
    BY <2>2 DEF FillsFor
  <2>4. g.maker = c.id
    BY <2>3 DEF FillRec
  <2> QED BY <2>2, <2>4
<1> HIDE DEF after
<1>5. Len(ts) \in Nat
  BY <1>1, LenProperties
<1>6. ASSUME NEW i \in 1..(Len(ts) + 1), NEW j \in 1..(Len(ts) + 1), after[i].maker = after[j].maker
      PROVE  i = j
  <2>1. /\ i \in 1..Len(ts) \/ i = Len(ts) + 1
        /\ j \in 1..Len(ts) \/ j = Len(ts) + 1
    BY <1>5
  <2> QED BY <1>1, <1>2, <1>3, <1>4, <1>6, <2>1
<1> QED BY <1>3, <1>6 DEF TradesOnce, after, t

Booked(side) == [id : Nat, side : {side}, price : Nat, qty : Nat \ {0}]
OneSide(R, side) == Priced(R) /\ R \subseteq Booked(side) /\ OneId(R)

(* What a resting order is.                                                *)
LEMMA RestTypes ==
    ASSUME NEW side, NEW levels, Ladder(levels, side)
    PROVE  RestOf(levels, side) \subseteq Booked(side)
<1> SUFFICES ASSUME NEW o \in RestOf(levels, side) PROVE o \in Booked(side)
  OBVIOUS
<1>1. PICK i \in 1..Len(levels) : o \in RestAt(levels[i].orders, side, levels[i].price)
  BY DEF RestOf
<1>2. PICK j \in 1..Len(levels[i].orders) :
          o = [id |-> levels[i].orders[j].id, side |-> side, price |-> levels[i].price,
               qty |-> levels[i].orders[j].qty]
  BY <1>1 DEF RestAt
<1>3. /\ levels[i].orders[j].id \in Nat /\ levels[i].orders[j].qty \in Nat \ {0}
      /\ levels[i].price \in Nat
  BY LadderTypes
<1> QED BY <1>2, <1>3 DEF Booked

(* From m to f the loop has moved one order on.                            *)
MovesOn(f, m, o, side, R, live, band, qty, C) ==
    /\ o \in R \ C
    /\ m.remaining >= o.qty => Full(f, side, R, live, band, qty, C \cup {o})
    /\ m.remaining < o.qty => Part(f, side, R, live, band, qty, C, o, m.remaining)
    /\ f.remaining \in Nat /\ f.remaining < m.remaining

(* One step of the loop fills the next order, or the first part of it.     *)
LEMMA FrontTraded ==
    ASSUME NEW side \in Sides, NEW R, OneSide(R, side),
           NEW live, NEW band, NEW qty \in Nat, NEW m, NEW C,
           Full(m, side, R, live, band, qty, C),
           m.remaining > 0, m.levels # <<>>,
           NEW o, o = FrontOf(m.levels, side), NEW f, f = FillFront(m, band)
    PROVE  MovesOn(f, m, o, side, R, live, band, qty, C)
<1>1. /\ Ladder(m.levels, side) /\ RestOf(m.levels, side) = R \ C
      /\ FirstOf(C, R) /\ m.remaining \in Nat \ {0} /\ QtySum(C) + m.remaining = qty
      /\ TradesOnce(m.trades, band) /\ FillSet(m.trades) = FillsFor(C, band)
      /\ LiveLess(m.live, live, C)
  BY DEF Full
<1>2. o \in R \ C /\ \A x \in (R \ C) \ {o} : Contract!Ahead(o, x)
  BY <1>1, FrontIsFirst
<1>3. o.id \in Nat /\ o.price \in Nat /\ o.qty \in Nat \ {0}
  BY <1>2 DEF Booked, OneSide
<1>4. FirstOf(C \cup {o}, R)
  BY <1>1, <1>2 DEF FirstOf
<1>a. m.trades \in Seq(Tradings(band)) /\ \A c \in C : c.id # o.id
  BY <1>1, <1>2 DEF TradesOnce, FirstOf, OneSide, OneId
<1>5. /\ Ladder(f.levels, side)
      /\ m.remaining >= o.qty => TookAll(f, m, o, side, band)
      /\ m.remaining < o.qty => TookPart(f, m, o, side, band)
  BY <1>1, FrontFilled
<1>6. CASE m.remaining >= o.qty
  <2>0. /\ RestOf(f.levels, side) = RestOf(m.levels, side) \ {o}
        /\ f.remaining = m.remaining - o.qty
        /\ f.live = LiveAfter(m.live, o.id)
        /\ f.trades = Append(m.trades, Trade(o, o.qty, band))
    BY <1>5, <1>6 DEF TookAll
  <2>1. RestOf(f.levels, side) = R \ (C \cup {o})
    BY <1>1, <2>0
  <2>2. QtySum(C \cup {o}) = QtySum(C) + o.qty /\ QtySum(C) \in Nat
    <3>1. Priced(C) /\ o \notin C
      BY <1>1, <1>2, SumOfPart DEF FirstOf, OneSide
    <3> QED BY <1>3, <3>1, SumAdd, SumType
  <2>3. f.remaining \in Nat /\ QtySum(C \cup {o}) + f.remaining = qty /\ f.remaining < m.remaining
    BY <1>1, <1>3, <1>6, <2>0, <2>2
  <2>4. TradesOnce(f.trades, band) /\ FillSet(f.trades) = FillsFor(C \cup {o}, band)
    <3>1. /\ TradesOnce(f.trades, band)
          /\ FillSet(f.trades) = FillsFor(C, band) \cup {FillRec(o, o.qty, band)}
      <4>1. f.trades = Append(m.trades, Trade(o, o.qty, band))
        BY <2>0
      <4>2. FillSet(Append(m.trades, Trade(o, o.qty, band)))
              = FillSet(m.trades) \cup {FillRec(o, o.qty, band)}
        BY <1>a, <1>3, TradeAdded
      <4>3. TradesOnce(Append(m.trades, Trade(o, o.qty, band)), band)
        BY <1>1, <1>a, <1>3, MakerAdded
      <4> QED BY <1>1, <4>1, <4>2, <4>3
    <3>2. FillsFor(C \cup {o}, band) = FillsFor(C, band) \cup {FillRec(o, o.qty, band)}
      BY DEF FillsFor
    <3> QED BY <3>1, <3>2
  <2>5. LiveLess(f.live, live, C \cup {o})
    <3>1. f.live = [x \in DOMAIN m.live \ {o.id} |-> m.live[x]]
      BY <2>0 DEF LiveAfter
    <3> QED BY <1>1, <3>1 DEF LiveLess
  <2>6. Full(f, side, R, live, band, qty, C \cup {o})
    BY <1>4, <1>5, <2>1, <2>3, <2>4, <2>5, Zenon DEF Full
  <2>7. ~(m.remaining < o.qty)
    BY <1>1, <1>3, <1>6
  <2> QED BY <1>2, <2>3, <2>6, <2>7, Zenon DEF MovesOn
<1>7. CASE m.remaining < o.qty
  <2>0. /\ RestOf(f.levels, side) = (RestOf(m.levels, side) \ {o})
              \cup {[o EXCEPT !.qty = @ - m.remaining]}
        /\ f.remaining = 0 /\ f.live = m.live
        /\ f.trades = Append(m.trades, Trade(o, m.remaining, band))
    BY <1>5, <1>7 DEF TookPart
  <2>1. RestOf(f.levels, side) = ((R \ C) \ {o}) \cup {[o EXCEPT !.qty = @ - m.remaining]}
    BY <1>1, <2>0
  <2>2. /\ TradesOnce(f.trades, band)
        /\ FillSet(f.trades) = FillsFor(C, band) \cup {FillRec(o, m.remaining, band)}
    <3>1. f.trades = Append(m.trades, Trade(o, m.remaining, band))
      BY <2>0
    <3>2. FillSet(Append(m.trades, Trade(o, m.remaining, band)))
            = FillSet(m.trades) \cup {FillRec(o, m.remaining, band)}
      BY <1>a, <1>1, <1>3, TradeAdded
    <3>3. TradesOnce(Append(m.trades, Trade(o, m.remaining, band)), band)
      BY <1>1, <1>a, <1>3, MakerAdded
    <3> QED BY <1>1, <3>1, <3>2, <3>3
  <2>3. Part(f, side, R, live, band, qty, C, o, m.remaining)
    <3>1. f.live = m.live /\ f.remaining = 0
      BY <2>0
    <3> QED BY <1>1, <1>2, <1>4, <1>5, <1>7, <2>1, <2>2, <3>1, Zenon DEF Part
  <2>4. ~(m.remaining >= o.qty) /\ f.remaining \in Nat /\ f.remaining < m.remaining
    <3>1. f.remaining = 0
      BY <2>0
    <3> QED BY <1>1, <1>3, <1>7, <3>1
  <2> QED BY <1>2, <2>3, <2>4, Zenon DEF MovesOn
<1>8. m.remaining < o.qty \/ m.remaining >= o.qty
  BY <1>1, <1>3
<1> QED BY <1>6, <1>7, <1>8

Opposite(side) == IF side = "BUY" THEN "SELL" ELSE "BUY"

(* Once the first order does not cross, no later one does.                 *)
LEMMA CrossingIsFirst ==
    ASSUME NEW side \in Sides, NEW market \in BOOLEAN, NEW limit \in Nat,
           NEW o \in Booked(Opposite(side)), NEW x \in Booked(Opposite(side)),
           Contract!Ahead(o, x), Crosses(side, market, limit, x.price)
    PROVE  Crosses(side, market, limit, o.price)
<1>1. o.price \in Nat /\ x.price \in Nat /\ x.side = Opposite(side)
  BY DEF Booked
<1>2. CASE side = "BUY"
  BY <1>1, <1>2 DEF Contract!Ahead, Crosses, Opposite
<1>3. CASE side = "SELL"
  BY <1>1, <1>3 DEF Contract!Ahead, Crosses, Opposite
<1> QED BY <1>2, <1>3 DEF Sides

(* Where the loop stands: it fills only crossing orders, and after n steps *)
(* has filled n units or has ended.                                        *)
Crossing(S, side, market, limit) == \A o \in S : Crosses(side, market, limit, o.price)
FullAt(m, side, market, limit, R, live, band, qty, n) ==
    \E C : /\ Full(m, Opposite(side), R, live, band, qty, C)
           /\ Crossing(C, side, market, limit)
           /\ m.remaining <= qty - n \/ ~Matching(m, side, market, limit)
PartAt(m, side, market, limit, R, live, band, qty) ==
    \E C, p, r : /\ Part(m, Opposite(side), R, live, band, qty, C, p, r)
                 /\ Crossing(C \cup {p}, side, market, limit)

(* One step of the match loop keeps to it.                                 *)
LEMMA StepKeeps ==
    ASSUME NEW side \in Sides, NEW market \in BOOLEAN, NEW limit \in Nat,
           NEW R, OneSide(R, Opposite(side)),
           NEW live, NEW band, NEW qty \in Nat, NEW n \in 0..(qty - 1),
           NEW m, NEW f, f = LoopStep(m, side, market, limit, band),
           \/ FullAt(m, side, market, limit, R, live, band, qty, n)
           \/ PartAt(m, side, market, limit, R, live, band, qty)
    PROVE  \/ FullAt(f, side, market, limit, R, live, band, qty, n + 1)
           \/ PartAt(f, side, market, limit, R, live, band, qty)
<1>0. Opposite(side) \in Sides
  BY DEF Opposite, Sides
<1>1. CASE FullAt(m, side, market, limit, R, live, band, qty, n) /\ Matching(m, side, market, limit)
  <2>1. PICK C : /\ Full(m, Opposite(side), R, live, band, qty, C)
                 /\ Crossing(C, side, market, limit)
                 /\ m.remaining <= qty - n
    BY <1>1 DEF FullAt
  <2>2. /\ m.remaining > 0 /\ m.levels # <<>> /\ f = FillFront(m, band)
        /\ Crosses(side, market, limit, Head(m.levels).price)
    BY <1>1 DEF Matching, LoopStep
  <2>3. PICK o : o = FrontOf(m.levels, Opposite(side))
    OBVIOUS
  <2>4. /\ o \in R \ C
        /\ m.remaining >= o.qty => Full(f, Opposite(side), R, live, band, qty, C \cup {o})
        /\ m.remaining < o.qty => Part(f, Opposite(side), R, live, band, qty, C, o, m.remaining)
        /\ f.remaining \in Nat /\ f.remaining < m.remaining
    <3>1. PICK opp \in Sides : opp = Opposite(side)
      BY <1>0
    <3>2. OneSide(R, opp) /\ Full(m, opp, R, live, band, qty, C)
      BY <2>1, <3>1
    <3>3. o = FrontOf(m.levels, opp) /\ m.remaining > 0 /\ m.levels # <<>> /\ f = FillFront(m, band)
      BY <2>2, <2>3, <3>1
    <3>4. MovesOn(f, m, o, opp, R, live, band, qty, C)
      BY <3>2, <3>3, FrontTraded
    <3> QED BY <3>1, <3>4 DEF MovesOn
  <2>5. Crossing(C \cup {o}, side, market, limit)
    <3>1. Head(m.levels).price = o.price
      BY <1>0, <2>1, <2>2, <2>3, FrontIsFirst DEF Full, FrontOf
    <3> QED BY <2>1, <2>2, <3>1 DEF Crossing
  <2>6. m.remaining \in Nat /\ o.qty \in Nat
    BY <2>1, <2>4 DEF Full, Booked, OneSide
  <2>7. f.remaining <= qty - (n + 1)
    BY <2>1, <2>4, <2>6
  <2>8. CASE m.remaining >= o.qty
    BY <2>4, <2>5, <2>7, <2>8 DEF FullAt
  <2>9. CASE m.remaining < o.qty
    BY <2>4, <2>5, <2>9 DEF PartAt
  <2> QED BY <2>6, <2>8, <2>9
<1>2. CASE FullAt(m, side, market, limit, R, live, band, qty, n) /\ ~Matching(m, side, market, limit)
  BY <1>2 DEF FullAt, LoopStep
<1>3. CASE PartAt(m, side, market, limit, R, live, band, qty)
  <2>1. m.remaining = 0
    BY <1>3 DEF PartAt, Part
  <2>2. f = m
    BY <2>1 DEF LoopStep, Matching
  <2> QED BY <1>3, <2>2
<1> QED BY <1>1, <1>2, <1>3

LoopStart(levels, live, qty) ==
    [remaining |-> qty, trades |-> <<>>, levels |-> levels, live |-> live]

(* How the loop ends: it has filled all it could.                          *)
Ended(e, side, market, limit, R, live, band, qty, C) ==
    /\ Full(e, Opposite(side), R, live, band, qty, C)
    /\ Crossing(C, side, market, limit)
    /\ e.remaining = 0 \/ \A o \in R \ C : ~Crosses(side, market, limit, o.price)

(* After qty iterations the match loop has ended, in one of the two ways.  *)
LEMMA LoopEnds ==
    ASSUME NEW side \in Sides, NEW market \in BOOLEAN, NEW limit \in Nat,
           NEW levels, Ladder(levels, Opposite(side)),
           NEW R, R = RestOf(levels, Opposite(side)), OneSide(R, Opposite(side)),
           NEW live, NEW band, NEW qty \in Nat,
           NEW e, e = MatchLoop(LoopStart(levels, live, qty), side, market, limit, band, qty)[qty]
    PROVE  \/ \E C : Ended(e, side, market, limit, R, live, band, qty, C)
           \/ PartAt(e, side, market, limit, R, live, band, qty)
<1> DEFINE start == LoopStart(levels, live, qty)
           opp == Opposite(side)
           At(m, n) == \/ FullAt(m, side, market, limit, R, live, band, qty, n)
                       \/ PartAt(m, side, market, limit, R, live, band, qty)
<1>1. PICK loop : loop = MatchLoop(start, side, market, limit, band, qty)
  OBVIOUS
<1>2. /\ loop[0] = start
      /\ \A n \in 0..(qty - 1) : loop[n + 1] = LoopStep(loop[n], side, market, limit, band)
  BY <1>1, LoopExists
<1>3. e = loop[qty]
  BY <1>1
<1>4. FullAt(start, side, market, limit, R, live, band, qty, 0)
  <2>1. /\ start.levels = levels /\ start.remaining = qty /\ start.trades = <<>> /\ start.live = live
    BY DEF LoopStart
  <2> HIDE DEF start
  <2>2. RestOf(start.levels, opp) = R \ {} /\ FirstOf({}, R)
    BY <2>1 DEF FirstOf
  <2>3. QtySum({}) + start.remaining = qty
    BY <2>1, SumEmpty
  <2>4. TradesOnce(start.trades, band) /\ FillSet(start.trades) = FillsFor({}, band)
    BY <2>1 DEF FillSet, FillsFor, ToSet, TradesOnce
  <2>5. LiveLess(start.live, live, {})
    BY <2>1 DEF LiveLess
  <2>6. Full(start, opp, R, live, band, qty, {})
    BY <2>1, <2>2, <2>3, <2>4, <2>5 DEF Full
  <2>7. Crossing({}, side, market, limit) /\ start.remaining <= qty - 0
    BY <2>1 DEF Crossing
  <2> QED BY <2>6, <2>7 DEF FullAt
<1> DEFINE T == {n \in Nat : n <= qty => At(loop[n], n)}
<1>5. 0 \in T
  BY <1>2, <1>4
<1>6. ASSUME NEW n \in Nat, n \in T PROVE n + 1 \in T
  <2> SUFFICES ASSUME n + 1 <= qty PROVE At(loop[n + 1], n + 1)
    OBVIOUS
  <2>1. n \in 0..(qty - 1)
    OBVIOUS
  <2>2. At(loop[n], n)
    BY <1>6, <2>1
  <2>3. loop[n + 1] = LoopStep(loop[n], side, market, limit, band)
    BY <1>2, <2>1
  <2> QED BY <2>1, <2>2, <2>3, StepKeeps
<1>7. At(e, qty)
  <2>1. qty \in T
    <3> HIDE DEF T
    <3> QED BY <1>5, <1>6, SetInduction
  <2> QED BY <1>3, <2>1
<1>8. ASSUME FullAt(e, side, market, limit, R, live, band, qty, qty)
      PROVE  \E C : Ended(e, side, market, limit, R, live, band, qty, C)
  <2>1. PICK C : /\ Full(e, opp, R, live, band, qty, C)
                 /\ Crossing(C, side, market, limit)
                 /\ e.remaining <= qty - qty \/ ~Matching(e, side, market, limit)
    BY <1>8 DEF FullAt
  <2>2. Ladder(e.levels, opp) /\ RestOf(e.levels, opp) = R \ C /\ e.remaining \in Nat /\ opp \in Sides
    BY <2>1 DEF Full, Opposite, Sides
  <2>3. CASE e.remaining = 0
    BY <2>1, <2>3 DEF Ended
  <2>4. CASE e.levels = <<>>
    <3>1. R \ C = {}
      BY <2>2, <2>4 DEF RestOf
    <3> QED BY <2>1, <3>1 DEF Ended
  <2>5. CASE e.levels # <<>> /\ ~Crosses(side, market, limit, Head(e.levels).price)
    <3> DEFINE f == FrontOf(e.levels, opp)
    <3>1. /\ f \in R \ C /\ \A o \in (R \ C) \ {f} : Contract!Ahead(f, o)
          /\ Head(e.levels).price = f.price
      BY <2>2, <2>5, FrontIsFirst DEF FrontOf
    <3> HIDE DEF f
    <3>2. R \subseteq Booked(opp)
      BY DEF OneSide
    <3>3. \A o \in R \ C : ~Crosses(side, market, limit, o.price)
      BY <2>5, <3>1, <3>2, CrossingIsFirst
    <3> QED BY <2>1, <3>3 DEF Ended
  <2>6. e.remaining = 0 \/ ~Matching(e, side, market, limit)
    BY <2>1, <2>2
  <2> QED BY <2>2, <2>3, <2>4, <2>5, <2>6 DEF Matching
<1> QED BY <1>7, <1>8

-----------------------------------------------------------------------------
(* Renaming the things that are summed changes nothing.                    *)
ImageOf(f, s) == {f[x] : x \in s}
OneToOne(f, S) == \A x, y \in S : f[x] = f[y] => x = y

(* A one-to-one image with the same quantities has the same sum.           *)
LEMMA SumOfImage ==
    ASSUME NEW S, Priced(S), NEW f, OneToOne(f, S), \A x \in S : f[x].qty = x.qty
    PROVE  Priced(ImageOf(f, S)) /\ QtySum(ImageOf(f, S)) = QtySum(S)
<1> DEFINE Same(s) == Priced(ImageOf(f, s)) /\ QtySum(ImageOf(f, s)) = QtySum(s)
           T == {k \in Nat : \A s \in SUBSET S : Cardinality(s) = k => Same(s)}
<1>0. \A s \in SUBSET S : Priced(s) /\ IsFiniteSet(s) /\ Cardinality(s) \in Nat /\ QtySum(s) \in Nat
  BY FS_Subset, FS_CardinalityType, SumType DEF Priced
<1>1. 0 \in T
  <2>1. Same({})
    <3>1. ImageOf(f, {}) = {} /\ Priced({})
      BY FS_EmptySet DEF ImageOf, Priced
    <3> QED BY <3>1
  <2>2. \A s \in SUBSET S : Cardinality(s) = 0 => s = {}
    BY <1>0, FS_EmptySet
  <2> QED BY <2>1, <2>2
<1>2. ASSUME NEW k \in Nat, k \in T PROVE k + 1 \in T
  <2> SUFFICES ASSUME NEW s \in SUBSET S, Cardinality(s) = k + 1 PROVE Same(s)
    OBVIOUS
  <2>1. PICK x \in s : TRUE
    BY FS_EmptySet
  <2>2. Same(s \ {x})
    <3> HIDE DEF Same
    <3> QED BY <1>0, <1>2, <2>1, RemoveOne
  <2> DEFINE I == ImageOf(f, s \ {x})
  <2>3. ImageOf(f, s) = I \cup {f[x]}
    BY <2>1 DEF ImageOf
  <2>4. f[x] \notin I
    BY <2>1 DEF ImageOf, OneToOne
  <2>5. f[x].qty = x.qty /\ x.qty \in Nat
    BY <1>0, <2>1 DEF Priced
  <2>6. QtySum(s) = x.qty + QtySum(s \ {x}) /\ QtySum(s \ {x}) \in Nat
    BY <1>0, <2>1, SumOfRest
  <2>7. Priced(I) /\ QtySum(I) = QtySum(s \ {x})
    BY <2>2
  <2> HIDE DEF I
  <2>8. Priced(I \cup {f[x]}) /\ QtySum(I \cup {f[x]}) = QtySum(I) + f[x].qty
    BY <2>4, <2>5, <2>7, SumAdd
  <2> QED BY <2>3, <2>5, <2>6, <2>7, <2>8
<1>3. Cardinality(S) \in T
  <2> HIDE DEF T
  <2> QED BY <1>0, <1>1, <1>2, SetInduction
<1> QED BY <1>0, <1>3

(* The contract's total is this sum.                                       *)
LEMMA TotalIs == \A S : Contract!Total(S) = QtySum(S)
BY DEF QtySum, Contract!Total, Contract!MapThenSumSet, Contract!MapThenFoldSet,
       MapThenSumSet, MapThenFoldSet

AheadOf(W, o) == {x \in W : Contract!Ahead(x, o)}

(* A share is what is left at an order's turn, between nothing and all.    *)
LEMMA ShareIs ==
    ASSUME NEW W, NEW qty \in Nat, NEW o, o.qty \in Nat,
           NEW t \in Nat, t = QtySum(AheadOf(W, o))
    PROVE  Contract!Share(W, qty, o)
             = IF t >= qty THEN 0 ELSE IF o.qty <= qty - t THEN o.qty ELSE qty - t
<1>1. Contract!Share(W, qty, o) = Contract!Max({0, Contract!Min({o.qty, qty - t})})
  BY TotalIs DEF Contract!Share, AheadOf
<1>2. Contract!Min({o.qty, qty - t}) = IF o.qty <= qty - t THEN o.qty ELSE qty - t
  BY DEF Contract!Min
<1> DEFINE n == IF o.qty <= qty - t THEN o.qty ELSE qty - t
<1>3. n \in Int
  OBVIOUS
<1>4. Contract!Max({0, n}) = IF n <= 0 THEN 0 ELSE n
  <2> HIDE DEF n
  <2> QED BY <1>3 DEF Contract!Max
<1>5. Contract!Share(W, qty, o) = IF n <= 0 THEN 0 ELSE n
  BY <1>1, <1>2, <1>4
<1>6. CASE t >= qty
  <2>1. n <= 0
    BY <1>6
  <2> HIDE DEF n
  <2> QED BY <1>5, <1>6, <2>1
<1>7. CASE ~(t >= qty)
  <2>1. (IF n <= 0 THEN 0 ELSE n) = n
    BY <1>7
  <2> QED BY <1>5, <1>7, <2>1
<1> QED BY <1>6, <1>7

(* Orders come one before the other.                                       *)
LEMMA AheadOneWay ==
    ASSUME NEW side \in Sides, NEW o \in Booked(side), NEW x \in Booked(side), Contract!Ahead(o, x)
    PROVE  ~Contract!Ahead(x, o) /\ o # x
<1>1. o.price \in Nat /\ x.price \in Nat /\ x.side = side /\ o.side = side /\ o.id \in Nat /\ x.id \in Nat
  BY DEF Booked
<1> QED BY <1>1 DEF Contract!Ahead

(* What the contract gives to the first orders and to the others.          *)
LEMMA SharesOfFirst ==
    ASSUME NEW side \in Sides, NEW W, OneSide(W, side), NEW C, FirstOf(C, W), NEW qty \in Nat
    PROVE  /\ QtySum(C) <= qty => \A o \in C : Contract!Share(W, qty, o) = o.qty
           /\ QtySum(C) >= qty => \A o \in W \ C : Contract!Share(W, qty, o) = 0
<1>1. /\ Priced(W) /\ C \subseteq W /\ Priced(C) /\ QtySum(C) \in Nat
      /\ \A o \in W : o \in Booked(side) /\ o.qty \in Nat \ {0}
  BY SumOfPart, SumType DEF OneSide, FirstOf, Booked
<1>2. \A o \in W : QtySum(AheadOf(W, o)) \in Nat /\ Priced(AheadOf(W, o))
  BY <1>1, SumOfPart, SumType DEF AheadOf
<1>3. ASSUME NEW o \in C, QtySum(C) <= qty PROVE Contract!Share(W, qty, o) = o.qty
  <2>1. AheadOf(W, o) \subseteq C \ {o}
    <3>1. ASSUME NEW x \in W, Contract!Ahead(x, o) PROVE x \in C /\ x # o
      <4>1. x \in Booked(side) /\ o \in Booked(side)
        BY <1>1
      <4>2. ~Contract!Ahead(o, x) /\ x # o
        BY <3>1, <4>1, AheadOneWay
      <4> QED BY <4>2 DEF FirstOf
    <3> QED BY <3>1 DEF AheadOf
  <2>2. Priced(C \ {o})
    BY <1>1, SumOfPart
  <2>3. QtySum(AheadOf(W, o)) <= QtySum(C \ {o}) /\ QtySum(C \ {o}) \in Nat
    BY <2>1, <2>2, SumOfPart, SumType
  <2>4. QtySum(C) = o.qty + QtySum(C \ {o})
    BY <1>1, SumOfRest
  <2>5. PICK t \in Nat : t = QtySum(AheadOf(W, o))
    BY <1>1, <1>2
  <2>6. o.qty \in Nat \ {0}
    BY <1>1
  <2>7. o.qty + t <= qty
    BY <1>1, <1>3, <2>3, <2>4, <2>5, <2>6
  <2> QED BY <2>5, <2>6, <2>7, ShareIs
<1>4. ASSUME NEW o \in W \ C, QtySum(C) >= qty PROVE Contract!Share(W, qty, o) = 0
  <2>1. C \subseteq AheadOf(W, o)
    BY <1>1 DEF AheadOf, FirstOf
  <2>2. QtySum(C) <= QtySum(AheadOf(W, o))
    BY <1>2, <2>1, SumOfPart
  <2>3. PICK t \in Nat : t = QtySum(AheadOf(W, o))
    BY <1>2
  <2>4. t >= qty /\ o.qty \in Nat
    BY <1>1, <1>4, <2>2, <2>3
  <2> QED BY <2>3, <2>4, ShareIs
<1> QED BY <1>3, <1>4

(* What it gives to the order that takes the last units.                   *)
LEMMA ShareOfLast ==
    ASSUME NEW side \in Sides, NEW W, OneSide(W, side), NEW C, NEW p \in W \ C,
           FirstOf(C, W), FirstOf(C \cup {p}, W),
           NEW r \in Nat, r < p.qty, r > 0, NEW qty \in Nat, QtySum(C) + r = qty
    PROVE  Contract!Share(W, qty, p) = r
<1>1. Priced(W) /\ C \subseteq W /\ QtySum(C) \in Nat /\ p \in Booked(side) /\ p.qty \in Nat
  BY SumOfPart, SumType DEF OneSide, FirstOf, Booked
<1>2. AheadOf(W, p) = C
  <2>1. C \subseteq AheadOf(W, p)
    BY <1>1 DEF AheadOf, FirstOf
  <2>2. ASSUME NEW x \in W, Contract!Ahead(x, p) PROVE x \in C
    <3>1. x \in Booked(side)
      BY DEF OneSide
    <3>2. ~Contract!Ahead(p, x) /\ x # p
      BY <1>1, <2>2, <3>1, AheadOneWay
    <3> QED BY <3>2 DEF FirstOf
  <2> QED BY <2>1, <2>2 DEF AheadOf
<1>3. PICK t \in Nat : t = QtySum(AheadOf(W, p))
  BY <1>1, <1>2
<1>4. t + r = qty /\ p.qty \in Nat
  BY <1>1, <1>2, <1>3
<1> QED BY <1>3, <1>4, ShareIs

(* What an order of R gives to an incoming order, by the contract.         *)
Wanted(R, side, market, limit) == {o \in R : Crosses(side, market, limit, o.price)}
TakenFrom(R, side, market, limit, qty) ==
    LET W == Wanted(R, side, market, limit)
    IN  [o \in R |-> IF o \in W THEN Contract!Share(W, qty, o) ELSE 0]

(* Everything the loop leaves behind, in the contract's terms.             *)
LoopOutcome(e, side, market, limit, R, live, band, qty, take) ==
    /\ Ladder(e.levels, Opposite(side)) /\ e.remaining \in Nat
    /\ \A o \in R : take[o] \in Nat /\ take[o] <= o.qty
    /\ RestOf(e.levels, Opposite(side))
          = {[o EXCEPT !.qty = @ - take[o]] : o \in {x \in R : x.qty > take[x]}}
    /\ FillSet(e.trades) = {FillRec(o, take[o], band) : o \in {x \in R : take[x] > 0}}
    /\ Priced(FillSet(e.trades)) /\ QtySum(FillSet(e.trades)) + e.remaining = qty
    /\ LiveLess(e.live, live, {x \in R : ~(x.qty > take[x])})
    /\ e.remaining = 0 \/ \A o \in RestOf(e.levels, Opposite(side)) : ~Crosses(side, market, limit, o.price)
    /\ e.remaining = 0 \/ QtySum(Wanted(R, side, market, limit)) + e.remaining = qty
    /\ TradesOnce(e.trades, band)

(* The fills of whole orders add up to what these hold.                    *)
LEMMA SumOfFills ==
    ASSUME NEW C, Priced(C), OneId(C), NEW band
    PROVE  Priced(FillsFor(C, band)) /\ QtySum(FillsFor(C, band)) = QtySum(C)
<1> DEFINE f == [o \in C |-> FillRec(o, o.qty, band)]
<1>1. \A o \in C : f[o].qty = o.qty /\ f[o].maker = o.id
  BY DEF FillRec
<1>2. ImageOf(f, C) = FillsFor(C, band)
  BY DEF ImageOf, FillsFor
<1> HIDE DEF f
<1>3. OneToOne(f, C)
  BY <1>1 DEF OneToOne, OneId
<1> QED BY <1>1, <1>2, <1>3, SumOfImage

(* A loop that ended with whole orders served as the contract does.        *)
LEMMA EndedServes ==
    ASSUME NEW side \in Sides, NEW market, NEW limit, NEW R, OneSide(R, Opposite(side)),
           NEW live, NEW band, NEW qty \in Nat, NEW e, NEW C,
           Ended(e, side, market, limit, R, live, band, qty, C),
           NEW take, take = TakenFrom(R, side, market, limit, qty)
    PROVE  LoopOutcome(e, side, market, limit, R, live, band, qty, take)
<1> DEFINE W == Wanted(R, side, market, limit)
           opp == Opposite(side)
<1>0. opp \in Sides
  BY DEF Opposite, Sides
<1>1. /\ Ladder(e.levels, opp) /\ RestOf(e.levels, opp) = R \ C
      /\ FirstOf(C, R) /\ e.remaining \in Nat /\ QtySum(C) + e.remaining = qty
      /\ FillSet(e.trades) = FillsFor(C, band) /\ LiveLess(e.live, live, C)
      /\ TradesOnce(e.trades, band)
      /\ \A c \in C : Crosses(side, market, limit, c.price)
      /\ e.remaining = 0 \/ \A o \in R \ C : ~Crosses(side, market, limit, o.price)
  BY DEF Ended, Full, Crossing
<1>2. C \subseteq W /\ W \subseteq R /\ FirstOf(C, W)
  BY <1>1 DEF FirstOf, Wanted
<1>3. OneSide(W, opp) /\ Priced(C) /\ OneId(C) /\ QtySum(C) \in Nat
  <2>1. Priced(W) /\ Priced(C)
    BY <1>2, SumOfPart DEF OneSide
  <2> QED BY <1>2, <2>1, SumType DEF OneSide, OneId
<1> HIDE DEF W, opp
<1>4. \A o \in R : o \in Booked(opp) /\ o.qty \in Nat \ {0}
  BY DEF OneSide, Booked, opp
<1>5. \A o \in R : take[o] = IF o \in C THEN o.qty ELSE 0
  <2>1. \A o \in C : Contract!Share(W, qty, o) = o.qty
    <3>1. QtySum(C) <= qty
      BY <1>1, <1>3
    <3> QED BY <1>0, <1>2, <1>3, <3>1, SharesOfFirst
  <2>2. \A o \in W \ C : Contract!Share(W, qty, o) = 0
    <3>1. CASE e.remaining = 0
      <4>1. QtySum(C) >= qty
        BY <1>1, <1>3, <3>1
      <4> QED BY <1>0, <1>2, <1>3, <4>1, SharesOfFirst
    <3>2. CASE \A o \in R \ C : ~Crosses(side, market, limit, o.price)
      BY <3>2 DEF W, Wanted
    <3> QED BY <1>1, <3>1, <3>2
  <2>3. \A o \in R : take[o] = IF o \in W THEN Contract!Share(W, qty, o) ELSE 0
    BY DEF TakenFrom, W
  <2> QED BY <1>2, <2>1, <2>2, <2>3
<1>6. \A o \in R : /\ take[o] \in Nat /\ take[o] <= o.qty
                   /\ take[o] > 0 <=> o \in C
                   /\ o.qty > take[o] <=> o \notin C
                   /\ o \notin C => [o EXCEPT !.qty = @ - take[o]] = o
  <2> TAKE o \in R
  <2>1. o.qty \in Nat \ {0} /\ o \in Booked(opp)
    BY <1>4
  <2>2. take[o] = IF o \in C THEN o.qty ELSE 0
    BY <1>5
  <2>3. [o EXCEPT !.qty = @ - 0] = o
    BY <2>1 DEF Booked
  <2> QED BY <2>1, <2>2, <2>3
<1>7. /\ {x \in R : x.qty > take[x]} = R \ C /\ {x \in R : ~(x.qty > take[x])} = C
      /\ {x \in R : take[x] > 0} = C
  BY <1>2, <1>6
<1>8. {[o EXCEPT !.qty = @ - take[o]] : o \in R \ C} = R \ C
  BY <1>6
<1>9. {FillRec(o, take[o], band) : o \in C} = FillsFor(C, band)
  BY <1>2, <1>5 DEF FillsFor
<1>10. Priced(FillsFor(C, band)) /\ QtySum(FillsFor(C, band)) = QtySum(C)
  BY <1>3, SumOfFills
<1>11. e.remaining = 0 \/ QtySum(W) + e.remaining = qty
  <2>1. (\A o \in R \ C : ~Crosses(side, market, limit, o.price)) => W = C
    BY <1>2 DEF W, Wanted
  <2> QED BY <1>1, <2>1
<1>12. /\ Ladder(e.levels, opp) /\ e.remaining \in Nat /\ TradesOnce(e.trades, band)
       /\ e.remaining = 0 \/ \A o \in RestOf(e.levels, opp) : ~Crosses(side, market, limit, o.price)
  BY <1>1
<1>13. /\ RestOf(e.levels, opp) = {[o EXCEPT !.qty = @ - take[o]] : o \in {x \in R : x.qty > take[x]}}
       /\ FillSet(e.trades) = {FillRec(o, take[o], band) : o \in {x \in R : take[x] > 0}}
       /\ LiveLess(e.live, live, {x \in R : ~(x.qty > take[x])})
  BY <1>1, <1>7, <1>8, <1>9
<1>14. Priced(FillSet(e.trades)) /\ QtySum(FillSet(e.trades)) + e.remaining = qty
  BY <1>1, <1>10
<1>15. \A o \in R : take[o] \in Nat /\ take[o] <= o.qty
  BY <1>6
<1> QED BY <1>11, <1>12, <1>13, <1>14, <1>15, Zenon DEF LoopOutcome, opp, W

(* So did a loop that ended within an order.                               *)
LEMMA PartServes ==
    ASSUME NEW side \in Sides, NEW market, NEW limit, NEW R, OneSide(R, Opposite(side)),
           NEW live, NEW band, NEW qty \in Nat, NEW e,
           PartAt(e, side, market, limit, R, live, band, qty),
           NEW take, take = TakenFrom(R, side, market, limit, qty)
    PROVE  LoopOutcome(e, side, market, limit, R, live, band, qty, take)
<1> DEFINE W == Wanted(R, side, market, limit)
           opp == Opposite(side)
<1>0. opp \in Sides
  BY DEF Opposite, Sides
<1>a. PICK C, p, r : /\ Part(e, opp, R, live, band, qty, C, p, r)
                     /\ Crossing(C \cup {p}, side, market, limit)
  BY DEF PartAt
<1>1. /\ Ladder(e.levels, opp) /\ p \in R \ C
      /\ RestOf(e.levels, opp) = ((R \ C) \ {p}) \cup {[p EXCEPT !.qty = @ - r]}
      /\ FirstOf(C, R) /\ FirstOf(C \cup {p}, R)
      /\ r \in Nat \ {0} /\ r < p.qty /\ e.remaining = 0 /\ QtySum(C) + r = qty
      /\ FillSet(e.trades) = FillsFor(C, band) \cup {FillRec(p, r, band)}
      /\ LiveLess(e.live, live, C) /\ TradesOnce(e.trades, band)
      /\ \A c \in C \cup {p} : Crosses(side, market, limit, c.price)
  BY <1>a DEF Part, Crossing
<1>2. /\ C \subseteq W /\ W \subseteq R /\ FirstOf(C, W) /\ FirstOf(C \cup {p}, W) /\ p \in W \ C
  BY <1>1 DEF FirstOf, Wanted
<1>3. /\ OneSide(W, opp) /\ Priced(C) /\ OneId(C) /\ QtySum(C) \in Nat
      /\ Priced(C \cup {p}) /\ QtySum(C \cup {p}) = QtySum(C) + p.qty
  <2>1. Priced(W) /\ Priced(C) /\ p.qty \in Nat
    BY <1>1, <1>2, SumOfPart DEF OneSide, Priced
  <2> QED BY <1>1, <1>2, <2>1, SumType, SumAdd DEF OneSide, OneId
<1> HIDE DEF W, opp
<1>4. \A o \in R : o \in Booked(opp) /\ o.qty \in Nat \ {0}
  BY DEF OneSide, Booked, opp
<1>5. \A o \in R : take[o] = IF o \in C THEN o.qty ELSE IF o = p THEN r ELSE 0
  <2>1. \A o \in C : Contract!Share(W, qty, o) = o.qty
    <3>1. QtySum(C) <= qty
      BY <1>1, <1>3
    <3> QED BY <1>0, <1>2, <1>3, <3>1, SharesOfFirst
  <2>2. \A o \in W \ (C \cup {p}) : Contract!Share(W, qty, o) = 0
    <3>1. QtySum(C \cup {p}) >= qty
      BY <1>1, <1>3, <1>4
    <3> QED BY <1>0, <1>2, <1>3, <3>1, SharesOfFirst
  <2>3. Contract!Share(W, qty, p) = r
    BY <1>0, <1>1, <1>2, <1>3, ShareOfLast
  <2>4. \A o \in R : take[o] = IF o \in W THEN Contract!Share(W, qty, o) ELSE 0
    BY DEF TakenFrom, W
  <2> QED BY <1>2, <2>1, <2>2, <2>3, <2>4
<1>6. \A o \in R : /\ take[o] \in Nat /\ take[o] <= o.qty
                   /\ take[o] > 0 <=> o \in C \cup {p}
                   /\ o.qty > take[o] <=> o \notin C
                   /\ o \notin C \cup {p} => [o EXCEPT !.qty = @ - take[o]] = o
  <2> TAKE o \in R
  <2>1. o.qty \in Nat \ {0} /\ o \in Booked(opp)
    BY <1>4
  <2>2. take[o] = IF o \in C THEN o.qty ELSE IF o = p THEN r ELSE 0
    BY <1>5
  <2>3. [o EXCEPT !.qty = @ - 0] = o
    BY <2>1 DEF Booked
  <2> QED BY <1>1, <2>1, <2>2, <2>3
<1>7. /\ {x \in R : x.qty > take[x]} = R \ C /\ {x \in R : ~(x.qty > take[x])} = C
      /\ {x \in R : take[x] > 0} = C \cup {p} /\ take[p] = r
  BY <1>1, <1>2, <1>5, <1>6
<1>8. {[o EXCEPT !.qty = @ - take[o]] : o \in R \ C} = RestOf(e.levels, opp)
  BY <1>1, <1>6, <1>7
<1>9. {FillRec(o, take[o], band) : o \in C \cup {p}} = FillSet(e.trades)
  <2>1. \A o \in C : take[o] = o.qty
    BY <1>2, <1>5
  <2>2. {FillRec(o, take[o], band) : o \in C} = FillsFor(C, band)
    BY <2>1 DEF FillsFor
  <2>3. {FillRec(o, take[o], band) : o \in C \cup {p}}
          = {FillRec(o, take[o], band) : o \in C} \cup {FillRec(p, take[p], band)}
    OBVIOUS
  <2> QED BY <1>1, <1>7, <2>2, <2>3
<1>10. Priced(FillSet(e.trades)) /\ QtySum(FillSet(e.trades)) + e.remaining = qty
  <2>1. Priced(FillsFor(C, band)) /\ QtySum(FillsFor(C, band)) = QtySum(C)
    BY <1>3, SumOfFills
  <2>2. FillRec(p, r, band).qty = r /\ FillRec(p, r, band) \notin FillsFor(C, band)
    <3>1. \A o \in C : o.id # p.id
      BY <1>1, <1>2 DEF OneSide, OneId
    <3> QED BY <3>1 DEF FillRec, FillsFor
  <2> DEFINE F == FillsFor(C, band)
             t == FillRec(p, r, band)
  <2>3. Priced(F) /\ QtySum(F) = QtySum(C) /\ t \notin F /\ t.qty \in Nat /\ t.qty = r
    BY <1>1, <2>1, <2>2
  <2>4. FillSet(e.trades) = F \cup {t}
    BY <1>1
  <2> HIDE DEF F, t
  <2>5. Priced(F \cup {t}) /\ QtySum(F \cup {t}) = QtySum(F) + t.qty
    BY <2>3, SumAdd
  <2>6. QtySum(FillSet(e.trades)) = QtySum(C) + r
    BY <2>3, <2>4, <2>5
  <2>7. QtySum(C) + r + 0 = qty
    BY <1>1, <1>3
  <2> QED BY <1>1, <2>4, <2>5, <2>6, <2>7
<1>11. /\ RestOf(e.levels, opp) = {[o EXCEPT !.qty = @ - take[o]] : o \in {x \in R : x.qty > take[x]}}
       /\ FillSet(e.trades) = {FillRec(o, take[o], band) : o \in {x \in R : take[x] > 0}}
  BY <1>7, <1>8, <1>9
<1>12. LiveLess(e.live, live, {x \in R : ~(x.qty > take[x])}) /\ e.remaining \in Nat
  <2>1. {x \in R : ~(x.qty > take[x])} = C
    BY <1>7
  <2>2. LiveLess(e.live, live, C) /\ e.remaining = 0
    BY <1>1
  <2> HIDE <1>7, <1>1
  <2> QED BY <2>1, <2>2
<1>13. \A o \in R : take[o] \in Nat /\ take[o] <= o.qty
  BY <1>6
<1> QED BY <1>1, <1>10, <1>11, <1>12, <1>13 DEF LoopOutcome, opp

(* The match loop serves the resting orders as the contract does.          *)
LEMMA LoopServes ==
    ASSUME NEW side \in Sides, NEW market \in BOOLEAN, NEW limit \in Nat,
           NEW levels, Ladder(levels, Opposite(side)),
           NEW R, R = RestOf(levels, Opposite(side)), OneSide(R, Opposite(side)),
           NEW live, NEW band, NEW qty \in Nat,
           NEW e, e = MatchLoop(LoopStart(levels, live, qty), side, market, limit, band, qty)[qty],
           NEW take, take = TakenFrom(R, side, market, limit, qty)
    PROVE  LoopOutcome(e, side, market, limit, R, live, band, qty, take)
<1>1. \/ \E C : Ended(e, side, market, limit, R, live, band, qty, C)
      \/ PartAt(e, side, market, limit, R, live, band, qty)
  BY LoopEnds
<1> QED BY <1>1, EndedServes, PartServes

-----------------------------------------------------------------------------
(* Images of finite sets are finite, and so is a side of the book.         *)
LEMMA ImageFinite ==
    ASSUME NEW S, IsFiniteSet(S), NEW f
    PROVE  IsFiniteSet(ImageOf(f, S))
<1> DEFINE g == [x \in S |-> f[x]]
<1>1. g \in Surjection(S, ImageOf(f, S))
  BY DEF Surjection, ImageOf
<1> QED BY <1>1, FS_Surjection

(* A side of the book holds finitely many orders.                          *)
LEMMA RestFinite ==
    ASSUME NEW side, NEW levels, Ladder(levels, side)
    PROVE  Priced(RestOf(levels, side))
<1>1. Len(levels) \in Nat /\ \A i \in 1..Len(levels) : Len(levels[i].orders) \in Nat
  BY LadderTypes
<1>2. ASSUME NEW i \in 1..Len(levels) PROVE IsFiniteSet(RestAt(levels[i].orders, side, levels[i].price))
  <2> DEFINE f == [j \in 1..Len(levels[i].orders) |->
                      [id |-> levels[i].orders[j].id, side |-> side, price |-> levels[i].price,
                       qty |-> levels[i].orders[j].qty]]
  <2>1. RestAt(levels[i].orders, side, levels[i].price) = ImageOf(f, 1..Len(levels[i].orders))
    BY DEF RestAt, ImageOf
  <2>2. IsFiniteSet(1..Len(levels[i].orders))
    <3>1. PICK n \in Nat : n = Len(levels[i].orders)
      BY <1>1
    <3>2. IsFiniteSet(1..n)
      BY FS_Interval
    <3> HIDE DEF f
    <3> QED BY <3>1, <3>2
  <2> HIDE DEF f
  <2> QED BY <2>1, <2>2, ImageFinite
<1>3. IsFiniteSet(RestOf(levels, side))
  <2> DEFINE f == [i \in 1..Len(levels) |-> RestAt(levels[i].orders, side, levels[i].price)]
  <2>1. RestOf(levels, side) = UNION ImageOf(f, 1..Len(levels))
    BY DEF RestOf, ImageOf
  <2>2. \A T \in ImageOf(f, 1..Len(levels)) : IsFiniteSet(T)
    BY <1>2 DEF ImageOf
  <2>3. IsFiniteSet(1..Len(levels))
    BY <1>1, FS_Interval
  <2> HIDE DEF f
  <2>4. IsFiniteSet(ImageOf(f, 1..Len(levels)))
    BY <2>3, ImageFinite
  <2> QED BY <2>1, <2>2, <2>4, FS_UNION
<1>4. \A o \in RestOf(levels, side) : o.qty \in Nat
  BY RestTypes DEF Booked
<1> QED BY <1>3, <1>4 DEF Priced

-----------------------------------------------------------------------------
LiveExact(live, R) ==
    /\ DOMAIN live = {o.id : o \in R}
    /\ \A o \in R : live[o.id] = [side |-> o.side, price |-> o.price]

(* The invariant of a book, seen from the side of an aggressor: its own    *)
(* levels, the opposing ones and the live index, after n orders.           *)
Whole(own, opposing, side) == RestOf(own, side) \cup RestOf(opposing, Opposite(side))
Uncrossed(S, T, side) == \A o \in S, x \in T : ~Crosses(side, FALSE, o.price, x.price)
SidesOk(own, opposing, live, side, n) ==
    /\ Ladder(own, side) /\ Ladder(opposing, Opposite(side))
    /\ OneId(Whole(own, opposing, side))
    /\ \A o \in Whole(own, opposing, side) : o.id \in 1..n
    /\ LiveExact(live, Whole(own, opposing, side))
    /\ Uncrossed(RestOf(own, side), RestOf(opposing, Opposite(side)), side)

BookOk(b, n) ==
    /\ DOMAIN b = {"bids", "asks", "live"}
    /\ SidesOk(b.bids, b.asks, b.live, "BUY", n)
BookRest(b) == Whole(b.bids, b.asks, "BUY")

(* The invariant reads the same from either side.                          *)
LEMMA Mirror ==
    ASSUME NEW side \in Sides, NEW own, NEW opposing, NEW live, NEW n \in Nat
    PROVE  /\ SidesOk(own, opposing, live, side, n)
                => SidesOk(opposing, own, live, Opposite(side), n)
           /\ Whole(own, opposing, side) = Whole(opposing, own, Opposite(side))
           /\ Opposite(side) \in Sides /\ Opposite(Opposite(side)) = side
<1>1. Opposite(side) \in Sides /\ Opposite(Opposite(side)) = side
  BY DEF Opposite, Sides
<1>2. Whole(own, opposing, side) = Whole(opposing, own, Opposite(side))
  BY <1>1 DEF Whole
<1>3. ASSUME Ladder(own, side), Ladder(opposing, Opposite(side)),
             Uncrossed(RestOf(own, side), RestOf(opposing, Opposite(side)), side)
      PROVE  Uncrossed(RestOf(opposing, Opposite(side)), RestOf(own, side), Opposite(side))
  <2>1. /\ \A o \in RestOf(own, side) : o.price \in Nat
        /\ \A x \in RestOf(opposing, Opposite(side)) : x.price \in Nat
    BY <1>3, RestTypes DEF Booked
  <2>2. \A o \in RestOf(own, side), x \in RestOf(opposing, Opposite(side)) :
          ~Crosses(side, FALSE, o.price, x.price)
    BY <1>3 DEF Uncrossed
  <2>3. \A p, q \in Nat : Crosses(Opposite(side), FALSE, q, p) => Crosses(side, FALSE, p, q)
    BY DEF Crosses, Opposite, Sides
  <2> QED BY <2>1, <2>2, <2>3 DEF Uncrossed
<1> QED BY <1>1, <1>2, <1>3 DEF SidesOk

(* A cancelled order leaves its side and the live index.                   *)
LEMMA CancelSides ==
    ASSUME NEW side \in Sides, NEW own, NEW opposing, NEW live, NEW n \in Nat,
           SidesOk(own, opposing, live, side, n),
           NEW o \in RestOf(own, side), NEW after, after = Without(own, o.id, o.price),
           NEW rest, rest = LiveAfter(live, o.id)
    PROVE  /\ SidesOk(after, opposing, rest, side, n)
           /\ Whole(after, opposing, side) = {x \in Whole(own, opposing, side) : x.id # o.id}
<1> DEFINE R == Whole(own, opposing, side)
<1>1. /\ Ladder(own, side) /\ Ladder(opposing, Opposite(side)) /\ OneId(R)
      /\ \A x \in R : x.id \in 1..n
      /\ LiveExact(live, R)
      /\ Uncrossed(RestOf(own, side), RestOf(opposing, Opposite(side)), side)
  BY DEF SidesOk
<1>2. OneId(RestOf(own, side)) /\ o \in R
  BY <1>1 DEF OneId, Whole
<1>3. Ladder(after, side) /\ RestOf(after, side) = RestOf(own, side) \ {o}
  BY <1>1, <1>2, Withdrawn
<1>4. o \notin RestOf(opposing, Opposite(side))
  <2>1. o.side = side
    BY <1>1, RestTypes DEF Booked
  <2>2. \A x \in RestOf(opposing, Opposite(side)) : x.side = Opposite(side)
    BY <1>1, RestTypes DEF Booked
  <2> QED BY <2>1, <2>2 DEF Opposite, Sides
<1>5. Whole(after, opposing, side) = R \ {o}
  BY <1>3, <1>4 DEF Whole
<1> HIDE DEF R
<1>6. R \ {o} = {x \in R : x.id # o.id}
  BY <1>1, <1>2 DEF OneId
<1>7. LiveExact(rest, R \ {o})
  <2>1. rest = [x \in DOMAIN live \ {o.id} |-> live[x]]
    BY DEF LiveAfter
  <2>2. {x.id : x \in R \ {o}} = {x.id : x \in R} \ {o.id}
    BY <1>2, <1>6
  <2> QED BY <1>1, <1>6, <2>1, <2>2 DEF LiveExact
<1>8. Uncrossed(RestOf(after, side), RestOf(opposing, Opposite(side)), side)
  BY <1>1, <1>3 DEF Uncrossed
<1>9. OneId(R \ {o}) /\ \A x \in R \ {o} : x.id \in 1..n
  BY <1>1 DEF OneId
<1> QED BY <1>1, <1>3, <1>5, <1>6, <1>7, <1>8, <1>9 DEF SidesOk, R

(* What the loop leaves of the opposing side keeps the book whole.         *)
LEMMA MatchSides ==
    ASSUME NEW side \in Sides, NEW own, NEW levels, NEW live, NEW n \in Nat,
           SidesOk(own, levels, live, side, n),
           NEW market, NEW limit, NEW band, NEW qty, NEW take, NEW e,
           NEW R, R = RestOf(levels, Opposite(side)),
           LoopOutcome(e, side, market, limit, R, live, band, qty, take)
    PROVE  SidesOk(own, e.levels, e.live, side, n)
<1> DEFINE opp == Opposite(side)
           Mine == RestOf(own, side)
           After == RestOf(e.levels, opp)
           Gone == {x \in R : ~(x.qty > take[x])}
<1>1. /\ Ladder(own, side) /\ Ladder(levels, opp) /\ OneId(Mine \cup R)
      /\ \A x \in Mine \cup R : x.id \in 1..n
      /\ LiveExact(live, Mine \cup R)
      /\ Uncrossed(Mine, R, side)
  BY DEF SidesOk, Whole
<1>2. /\ Ladder(e.levels, opp)
      /\ After = {[o EXCEPT !.qty = @ - take[o]] : o \in {x \in R : x.qty > take[x]}}
      /\ LiveLess(e.live, live, Gone)
  BY DEF LoopOutcome
<1>3. R \subseteq Booked(opp) /\ Mine \subseteq Booked(side) /\ R \cap Mine = {}
  <2>1. R \subseteq Booked(opp) /\ Mine \subseteq Booked(side)
    BY <1>1, RestTypes
  <2>2. side # opp
    BY DEF Opposite, Sides
  <2> HIDE DEF opp, Mine
  <2> QED BY <2>1, <2>2 DEF Booked
<1> HIDE DEF opp, Mine, After, Gone
<1>4. \A y \in After : \E o \in R \ Gone :
          y = [o EXCEPT !.qty = @ - take[o]] /\ y.id = o.id /\ y.price = o.price /\ y.side = o.side
  <2> TAKE y \in After
  <2>1. PICK o \in {x \in R : x.qty > take[x]} : y = [o EXCEPT !.qty = @ - take[o]]
    BY <1>2
  <2>2. o \in R \ Gone /\ o \in Booked(opp)
    BY <1>3 DEF Gone
  <2>3. y.id = o.id /\ y.price = o.price /\ y.side = o.side
    BY <2>1, <2>2 DEF Booked
  <2> QED BY <2>1, <2>2, <2>3
<1>5. \A o \in R \ Gone : \E y \in After : y.id = o.id
  <2> TAKE o \in R \ Gone
  <2>1. [o EXCEPT !.qty = @ - take[o]] \in After
    BY <1>2 DEF Gone
  <2>2. [o EXCEPT !.qty = @ - take[o]].id = o.id
    BY <1>3 DEF Booked
  <2> QED BY <2>1, <2>2
<1>6. OneId(Mine \cup After)
  <2>1. ASSUME NEW x \in Mine \cup After, NEW y \in Mine \cup After, x.id = y.id PROVE x = y
    <3>1. CASE x \in Mine /\ y \in Mine
      BY <1>1, <2>1, <3>1 DEF OneId
    <3>2. CASE x \in After /\ y \in After
      BY <1>1, <1>4, <2>1, <3>2 DEF OneId
    <3>3. CASE x \in Mine /\ y \in After
      BY <1>1, <1>3, <1>4, <2>1, <3>3 DEF OneId
    <3>4. CASE x \in After /\ y \in Mine
      BY <1>1, <1>3, <1>4, <2>1, <3>4 DEF OneId
    <3> QED BY <3>1, <3>2, <3>3, <3>4
  <2> QED BY <2>1 DEF OneId
<1>7. \A x \in Mine \cup After : x.id \in 1..n
  BY <1>1, <1>4
<1>8. LiveExact(e.live, Mine \cup After)
  <2>1. /\ DOMAIN e.live = {o.id : o \in Mine \cup R} \ {c.id : c \in Gone}
        /\ \A x \in DOMAIN e.live : e.live[x] = live[x]
        /\ \A o \in Mine \cup R : live[o.id] = [side |-> o.side, price |-> o.price]
    BY <1>1, <1>2 DEF LiveLess, LiveExact
  <2>2. Gone \subseteq R
    BY DEF Gone
  <2>3. \A o \in Mine \cup (R \ Gone), c \in Gone : o.id # c.id
    BY <1>1, <1>3, <2>2 DEF OneId
  <2>4. DOMAIN e.live = {o.id : o \in Mine \cup (R \ Gone)}
    BY <2>1, <2>2, <2>3
  <2>5. {o.id : o \in Mine \cup (R \ Gone)} = {o.id : o \in Mine \cup After}
    BY <1>4, <1>5
  <2>6. ASSUME NEW y \in Mine \cup After PROVE e.live[y.id] = [side |-> y.side, price |-> y.price]
    <3>1. \E o \in Mine \cup (R \ Gone) : y.id = o.id /\ y.side = o.side /\ y.price = o.price
      BY <1>4, <2>6
    <3> QED BY <2>1, <2>2, <2>4, <3>1
  <2> QED BY <2>4, <2>5, <2>6 DEF LiveExact
<1>9. Uncrossed(Mine, After, side)
  BY <1>1, <1>4 DEF Uncrossed
<1> QED BY <1>1, <1>2, <1>6, <1>7, <1>8, <1>9 DEF SidesOk, Whole, opp, Mine, After

(* A remainder as it is queued, and the live index that knows it.          *)
Queueing(own, p, id, q, side) == InsertLevel(own, p, [id |-> id, qty |-> q], side = "BUY")
Indexed(live, id, side, p) ==
    [x \in DOMAIN live \cup {id} |-> IF x = id THEN [side |-> side, price |-> p] ELSE live[x]]

(* No order of S trades with one of this side at price p.                  *)
Resists(S, side, p) == \A x \in S : ~Crosses(side, FALSE, p, x.price)

(* The remainder of an order that nothing left crosses keeps it whole.     *)
LEMMA RestSides ==
    ASSUME NEW side \in Sides, NEW own, NEW levels, NEW live, NEW n \in Nat,
           SidesOk(own, levels, live, side, n),
           NEW p \in Nat, NEW q \in Nat \ {0},
           Resists(RestOf(levels, Opposite(side)), side, p),
           NEW after, after = Queueing(own, p, n + 1, q, side),
           NEW rest, rest = Indexed(live, n + 1, side, p)
    PROVE  /\ SidesOk(after, levels, rest, side, n + 1)
           /\ Whole(after, levels, side) = Whole(own, levels, side)
                 \cup {[id |-> n + 1, side |-> side, price |-> p, qty |-> q]}
<1> DEFINE R == Whole(own, levels, side)
           ord == [id |-> n + 1, qty |-> q]
           new == [id |-> n + 1, side |-> side, price |-> p, qty |-> q]
<1>1. /\ Ladder(own, side) /\ Ladder(levels, Opposite(side)) /\ OneId(R)
      /\ \A x \in R : x.id \in 1..n
      /\ LiveExact(live, R)
      /\ Uncrossed(RestOf(own, side), RestOf(levels, Opposite(side)), side)
  BY DEF SidesOk
<1>2. Ladder(after, side) /\ RestOf(after, side) = RestOf(own, side) \cup {new}
  <2>1. ord \in Orders /\ ord.id = n + 1 /\ ord.qty = q
    BY DEF Orders
  <2>2. \A o \in RestOf(own, side) : o.id < ord.id
    BY <1>1, <2>1 DEF Whole
  <2>3. after = InsertLevel(own, p, ord, side = "BUY")
    BY DEF Queueing
  <2> HIDE DEF ord
  <2>4. /\ Ladder(after, side)
        /\ RestOf(after, side) = RestOf(own, side)
              \cup {[id |-> ord.id, side |-> side, price |-> p, qty |-> ord.qty]}
    BY <1>1, <2>1, <2>2, <2>3, Inserted
  <2> QED BY <2>1, <2>4
<1>3. Whole(after, levels, side) = R \cup {new}
  BY <1>2 DEF Whole
<1>4. new.id = n + 1 /\ new.side = side /\ new.price = p
  OBVIOUS
<1> HIDE DEF R, new
<1>5. OneId(R \cup {new}) /\ \A x \in R \cup {new} : x.id \in 1..(n + 1)
  BY <1>1, <1>4 DEF OneId
<1>6. LiveExact(rest, R \cup {new})
  <2>1. \A o \in R : o.id # n + 1
    BY <1>1
  <2>2. {o.id : o \in R \cup {new}} = {o.id : o \in R} \cup {n + 1}
    BY <1>4
  <2> QED BY <1>1, <1>4, <2>1, <2>2 DEF LiveExact, Indexed
<1>7. Uncrossed(RestOf(after, side), RestOf(levels, Opposite(side)), side)
  BY <1>1, <1>2, <1>4 DEF Uncrossed, Resists
<1>8. SidesOk(after, levels, rest, side, n + 1)
  <2>1. /\ OneId(Whole(after, levels, side)) /\ LiveExact(rest, Whole(after, levels, side))
        /\ \A x \in Whole(after, levels, side) : x.id \in 1..(n + 1)
    BY <1>3, <1>5, <1>6
  <2>2. Ladder(after, side) /\ Ladder(levels, Opposite(side))
    BY <1>1, <1>2
  <2> QED BY <1>7, <2>1, <2>2, Zenon DEF SidesOk
<1> QED BY <1>3, <1>8 DEF R, new

-----------------------------------------------------------------------------
Own(b, side) == IF side = "BUY" THEN b.bids ELSE b.asks
Fields(b) == DOMAIN b = {"bids", "asks", "live"}

(* The invariant of the book is that of its sides.                         *)
LEMMA OkSides ==
    ASSUME NEW b, NEW n \in Nat, NEW side \in Sides
    PROVE  /\ BookOk(b, n) <=> Fields(b) /\ SidesOk(Own(b, side), Opposing(b, side), b.live, side, n)
           /\ BookRest(b) = Whole(Own(b, side), Opposing(b, side), side)
<1>1. CASE side = "BUY"
  BY <1>1 DEF BookOk, BookRest, Fields, Own, Opposing
<1>2. CASE side = "SELL"
  <2>1. Opposite("BUY") = "SELL" /\ Opposite("SELL") = "BUY" /\ "BUY" \in Sides /\ "SELL" \in Sides
    BY DEF Opposite, Sides
  <2>2. /\ Whole(b.bids, b.asks, "BUY") = Whole(b.asks, b.bids, "SELL")
        /\ SidesOk(b.bids, b.asks, b.live, "BUY", n) <=> SidesOk(b.asks, b.bids, b.live, "SELL", n)
    BY <2>1, Mirror
  <2>3. Own(b, side) = b.asks /\ Opposing(b, side) = b.bids
    BY <1>2 DEF Own, Opposing
  <2> QED BY <1>2, <2>2, <2>3 DEF BookOk, BookRest, Fields
<1> QED BY <1>1, <1>2 DEF Sides

(* One side of a good book has orders with ids of their own.               *)
LEMMA OkOneSide ==
    ASSUME NEW own, NEW opposing, NEW live, NEW n, NEW side, SidesOk(own, opposing, live, side, n)
    PROVE  OneSide(RestOf(opposing, Opposite(side)), Opposite(side))
<1>1. Ladder(opposing, Opposite(side)) /\ OneId(Whole(own, opposing, side))
  BY DEF SidesOk
<1> QED BY <1>1, RestTypes, RestFinite DEF OneSide, OneId, Whole

(* match serves the opposing side, leaves its own, and keeps the book good. *)
Matched(m, b, e, side) ==
    /\ m.trades = e.trades /\ m.remaining = e.remaining
    /\ Fields(m.book) /\ Own(m.book, side) = Own(b, side)
    /\ Opposing(m.book, side) = e.levels /\ m.book.live = e.live

(* What match returns, whichever side it serves.                           *)
LEMMA MatchServes ==
    ASSUME NEW b, NEW n \in Nat, BookOk(b, n), NEW side \in Sides,
           NEW market \in BOOLEAN, NEW limit \in Nat, NEW qty \in Nat,
           NEW m, m = Match(b, side, market, limit, qty),
           NEW R, R = RestOf(Opposing(b, side), Opposite(side)),
           NEW band, band = AggBand(Opposing(b, side), market, limit),
           NEW take, take = TakenFrom(R, side, market, limit, qty)
    PROVE  /\ \E e : /\ LoopOutcome(e, side, market, limit, R, b.live, band, qty, take)
                     /\ Matched(m, b, e, side)
           /\ BookOk(m.book, n)
<1> DEFINE levels == Opposing(b, side)
           start == LoopStart(levels, b.live, qty)
<1>1. PICK e : e = MatchLoop(start, side, market, limit, band, qty)[qty]
  OBVIOUS
<1>2. Fields(b) /\ SidesOk(Own(b, side), levels, b.live, side, n)
  BY OkSides
<1>3. Ladder(levels, Opposite(side)) /\ OneSide(R, Opposite(side))
  BY <1>2, OkOneSide DEF SidesOk
<1>4. LoopOutcome(e, side, market, limit, R, b.live, band, qty, take)
  <2> HIDE DEF levels
  <2>1. R = RestOf(levels, Opposite(side))
    BY DEF levels
  <2> QED BY <1>1, <1>3, <2>1, LoopServes
<1>5. m = [trades |-> e.trades, remaining |-> e.remaining,
           book |-> IF side = "BUY"
                    THEN [b EXCEPT !.asks = e.levels, !.live = e.live]
                    ELSE [b EXCEPT !.bids = e.levels, !.live = e.live]]
  BY <1>1, Zenon DEF Match, LoopStart
<1>6. m.trades = e.trades /\ m.remaining = e.remaining
  BY <1>5
<1>7. /\ Fields(m.book) /\ Own(m.book, side) = Own(b, side)
      /\ Opposing(m.book, side) = e.levels /\ m.book.live = e.live
  <2>1. CASE side = "BUY"
    <3>1. m.book = [b EXCEPT !.asks = e.levels, !.live = e.live]
      BY <1>5, <2>1
    <3> QED BY <1>2, <2>1, <3>1 DEF Fields, Own, Opposing
  <2>2. CASE side = "SELL"
    <3>1. m.book = [b EXCEPT !.bids = e.levels, !.live = e.live]
      BY <1>5, <2>2
    <3> QED BY <1>2, <2>2, <3>1 DEF Fields, Own, Opposing
  <2> QED BY <2>1, <2>2 DEF Sides
<1>8. SidesOk(Own(b, side), e.levels, e.live, side, n)
  BY <1>2, <1>4, MatchSides
<1>9. BookOk(m.book, n)
  BY <1>7, <1>8, OkSides
<1> QED BY <1>4, <1>6, <1>7, <1>9 DEF Matched

(* rest queues a remainder that nothing crosses.                           *)
LEMMA RestServes ==
    ASSUME NEW b, NEW n \in Nat, BookOk(b, n), NEW side \in Sides, NEW p \in Nat, NEW q \in Nat \ {0},
           Resists(RestOf(Opposing(b, side), Opposite(side)), side, p),
           NEW after, after = Rest(b, n + 1, side, p, q)
    PROVE  /\ BookOk(after, n + 1)
           /\ BookRest(after) = BookRest(b) \cup {[id |-> n + 1, side |-> side, price |-> p, qty |-> q]}
<1> DEFINE ord == [id |-> n + 1, qty |-> q]
           live == [x \in DOMAIN b.live \cup {n + 1} |->
                       IF x = n + 1 THEN [side |-> side, price |-> p] ELSE b.live[x]]
           own == InsertLevel(Own(b, side), p, ord, side = "BUY")
<1>1. Fields(b) /\ SidesOk(Own(b, side), Opposing(b, side), b.live, side, n)
  BY OkSides
<1>2. /\ Fields(after) /\ Own(after, side) = own
      /\ Opposing(after, side) = Opposing(b, side) /\ after.live = live
  <2>1. CASE side = "BUY"
    <3>1. after = [b EXCEPT !.live = live, !.bids = InsertLevel(@, p, ord, TRUE)]
      BY <2>1, Zenon DEF Rest
    <3>2. own = InsertLevel(b.bids, p, ord, TRUE)
      BY <2>1 DEF Own
    <3> HIDE DEF live, ord, own
    <3> QED BY <1>1, <2>1, <3>1, <3>2 DEF Fields, Own, Opposing
  <2>2. CASE side = "SELL"
    <3>1. after = [b EXCEPT !.live = live, !.asks = InsertLevel(@, p, ord, FALSE)]
      BY <2>2, Zenon DEF Rest
    <3>2. own = InsertLevel(b.asks, p, ord, FALSE)
      BY <2>2 DEF Own
    <3> HIDE DEF live, ord, own
    <3> QED BY <1>1, <2>2, <3>1, <3>2 DEF Fields, Own, Opposing
  <2> QED BY <2>1, <2>2 DEF Sides
<1>3. /\ SidesOk(own, Opposing(b, side), live, side, n + 1)
      /\ Whole(own, Opposing(b, side), side) = Whole(Own(b, side), Opposing(b, side), side)
            \cup {[id |-> n + 1, side |-> side, price |-> p, qty |-> q]}
  <2>1. PICK l : l = live
    OBVIOUS
  <2>2. PICK w : w = own
    OBVIOUS
  <2>3. l = Indexed(b.live, n + 1, side, p)
    BY <2>1 DEF Indexed
  <2>4. w = Queueing(Own(b, side), p, n + 1, q, side)
    BY <2>2 DEF Queueing
  <2> HIDE DEF own, live
  <2>5. /\ SidesOk(w, Opposing(b, side), l, side, n + 1)
        /\ Whole(w, Opposing(b, side), side) = Whole(Own(b, side), Opposing(b, side), side)
              \cup {[id |-> n + 1, side |-> side, price |-> p, qty |-> q]}
    BY <1>1, <2>3, <2>4, RestSides
  <2> QED BY <2>1, <2>2, <2>5
<1> HIDE DEF own, live
<1>4. BookOk(after, n + 1)
  BY <1>2, <1>3, OkSides
<1> QED BY <1>2, <1>3, <1>4, OkSides

(* cancel takes the order out of the book, if it still rests.              *)
LEMMA CancelServes ==
    ASSUME NEW b, NEW n \in Nat, BookOk(b, n), NEW id, NEW after, after = Cancel(b, id)
    PROVE  BookOk(after, n) /\ BookRest(after) = {x \in BookRest(b) : x.id # id}
<1>0. LiveExact(b.live, BookRest(b))
  BY DEF BookOk, BookRest, SidesOk
<1>1. CASE id \notin DOMAIN b.live
  <2>1. after = b
    BY <1>1 DEF Cancel
  <2>2. \A x \in BookRest(b) : x.id # id
    BY <1>0, <1>1 DEF LiveExact
  <2> QED BY <2>1, <2>2
<1>2. CASE id \in DOMAIN b.live
  <2>1. PICK o \in BookRest(b) : o.id = id /\ b.live[id] = [side |-> o.side, price |-> o.price]
    BY <1>0, <1>2 DEF LiveExact
  <2>2. PICK side \in Sides : o \in RestOf(Own(b, side), side) /\ o.side = side
    <3>1. Ladder(b.bids, "BUY") /\ Ladder(b.asks, "SELL")
      BY DEF BookOk, SidesOk, Opposite
    <3>2. /\ \A x \in RestOf(b.bids, "BUY") : x.side = "BUY"
          /\ \A x \in RestOf(b.asks, "SELL") : x.side = "SELL"
      BY <3>1, RestTypes DEF Booked
    <3> QED BY <3>2 DEF BookRest, Whole, Opposite, Own, Sides
  <2>3. Fields(b) /\ SidesOk(Own(b, side), Opposing(b, side), b.live, side, n)
    BY OkSides
  <2> DEFINE own == Without(Own(b, side), o.id, o.price)
             live == LiveAfter(b.live, o.id)
  <2>4. /\ Fields(after) /\ Own(after, side) = own
        /\ Opposing(after, side) = Opposing(b, side) /\ after.live = live
    <3>1. /\ b.live[id].side = side /\ b.live[id].price = o.price
          /\ live = LiveAfter(b.live, id)
      BY <2>1, <2>2
    <3>2. CASE side = "BUY"
      <4>1. after = [b EXCEPT !.live = live, !.bids = Without(@, id, b.live[id].price)]
        BY <1>2, <3>1, <3>2 DEF Cancel
      <4>2. own = Without(b.bids, id, b.live[id].price)
        BY <2>1, <3>1, <3>2 DEF Own
      <4> HIDE DEF live, own
      <4> QED BY <2>3, <3>2, <4>1, <4>2 DEF Fields, Own, Opposing
    <3>3. CASE side = "SELL"
      <4>1. after = [b EXCEPT !.live = live, !.asks = Without(@, id, b.live[id].price)]
        BY <1>2, <3>1, <3>3 DEF Cancel
      <4>2. own = Without(b.asks, id, b.live[id].price)
        BY <2>1, <3>1, <3>3 DEF Own
      <4> HIDE DEF live, own
      <4> QED BY <2>3, <3>3, <4>1, <4>2 DEF Fields, Own, Opposing
    <3> QED BY <3>2, <3>3 DEF Sides
  <2>5. /\ SidesOk(own, Opposing(b, side), live, side, n)
        /\ Whole(own, Opposing(b, side), side)
              = {x \in Whole(Own(b, side), Opposing(b, side), side) : x.id # o.id}
    <3>1. PICK l : l = LiveAfter(b.live, o.id)
      OBVIOUS
    <3>2. PICK w : w = Without(Own(b, side), o.id, o.price)
      OBVIOUS
    <3> HIDE DEF own, live
    <3>3. /\ SidesOk(w, Opposing(b, side), l, side, n)
          /\ Whole(w, Opposing(b, side), side)
                = {x \in Whole(Own(b, side), Opposing(b, side), side) : x.id # o.id}
      BY <2>2, <2>3, <3>1, <3>2, CancelSides
    <3> QED BY <3>1, <3>2, <3>3 DEF own, live
  <2> HIDE DEF own, live
  <2>6. BookOk(after, n)
    BY <2>4, <2>5, OkSides
  <2> QED BY <2>1, <2>4, <2>5, <2>6, OkSides
<1> QED BY <1>1, <1>2

(* An id not yet used stays unused.                                        *)
LEMMA Older ==
    ASSUME NEW b, NEW n \in Nat, BookOk(b, n)
    PROVE  BookOk(b, n + 1)
BY DEF BookOk, SidesOk

(* Ids yet to come do not spoil a book.                                    *)
LEMMA Later ==
    ASSUME NEW b, NEW n \in Nat, BookOk(b, n), NEW k \in Nat, n <= k
    PROVE  BookOk(b, k)
BY DEF BookOk, SidesOk

(* submit kills an order, or matches it and rests what the type lets rest. *)
Killed(b, side, otype, limit, qty) ==
    otype = "FOK" /\ ~CanFullyFill(b, side, otype = "MARKET", limit, qty)
Remainder(e, id, side, otype, limit) ==
    IF e.remaining > 0 /\ RestsRemainder(otype)
    THEN {[id |-> id, side |-> side, price |-> limit, qty |-> e.remaining]} ELSE {}

(* What a submit works with: is it a market order, the opposing orders, the *)
(* price band of its trades, and what each opposing order is to give.      *)
Setting(b, side, otype, limit, qty, market, R, band, take) ==
    /\ market = (otype = "MARKET")
    /\ R = RestOf(Opposing(b, side), Opposite(side))
    /\ band = AggBand(Opposing(b, side), market, limit)
    /\ take = TakenFrom(R, side, market, limit, qty)
Submitted(r, b, n, side, otype, limit, qty, market, R, band, take) ==
    /\ Killed(b, side, otype, limit, qty) => r.trades = <<>> /\ r.book = b
    /\ ~Killed(b, side, otype, limit, qty) =>
         \E e : /\ LoopOutcome(e, side, market, limit, R, b.live, band, qty, take)
                /\ r.trades = e.trades
                /\ BookRest(r.book) = Whole(Own(b, side), e.levels, side)
                      \cup Remainder(e, n + 1, side, otype, limit)

(* A submit keeps the book good, and does as the contract says.            *)
LEMMA SubmitServes ==
    ASSUME NEW b, NEW n \in Nat, BookOk(b, n), NEW side \in Sides, NEW otype,
           NEW limit \in Nat, NEW qty \in Nat,
           NEW r, r = Submit(b, n + 1, side, otype, limit, qty),
           NEW market, NEW R, NEW band, NEW take,
           Setting(b, side, otype, limit, qty, market, R, band, take)
    PROVE  /\ BookOk(r.book, n + 1)
           /\ Submitted(r, b, n, side, otype, limit, qty, market, R, band, take)
<1> USE DEF Setting, Submitted
<1> DEFINE m == Match(b, side, market, limit, qty)
<1>1. CASE Killed(b, side, otype, limit, qty)
  <2>1. r = [trades |-> <<>>, book |-> b]
    BY <1>1 DEF Submit, Killed
  <2> QED BY <1>1, <2>1, Older
<1>2. CASE ~Killed(b, side, otype, limit, qty)
  <2>1. r = [trades |-> m.trades,
             book |-> IF m.remaining > 0 /\ RestsRemainder(otype)
                      THEN Rest(m.book, n + 1, side, limit, m.remaining) ELSE m.book]
    BY <1>2, Zenon DEF Submit, Killed
  <2>2. r.trades = m.trades
    BY <2>1
  <2>3. PICK e : /\ LoopOutcome(e, side, market, limit, R, b.live, band, qty, take)
                 /\ Matched(m, b, e, side) /\ BookOk(m.book, n)
    <3>1. PICK w : w = m
      OBVIOUS
    <3> HIDE DEF m
    <3>2. market \in BOOLEAN
      OBVIOUS
    <3>3. w = Match(b, side, market, limit, qty)
      BY <3>1 DEF m
    <3>4. /\ \E e : /\ LoopOutcome(e, side, market, limit, R, b.live, band, qty, take)
                    /\ Matched(w, b, e, side)
          /\ BookOk(w.book, n)
      BY <3>2, <3>3, MatchServes
    <3> QED BY <3>1, <3>4
  <2> HIDE DEF m
  <2>4. /\ m.trades = e.trades /\ m.remaining = e.remaining
        /\ Opposing(m.book, side) = e.levels /\ Own(m.book, side) = Own(b, side)
        /\ BookRest(m.book) = Whole(Own(b, side), e.levels, side)
        /\ e.remaining \in Nat
    BY <2>3, OkSides DEF Matched, LoopOutcome
  <2>5. CASE m.remaining > 0 /\ RestsRemainder(otype)
    <3>1. m.remaining \in Nat \ {0} /\ market = FALSE
      <4>1. m.remaining \in Nat \ {0}
        BY <2>4, <2>5
      <4>2. otype # "MARKET"
        BY <2>5 DEF RestsRemainder
      <4>3. market = FALSE
        BY <4>2, Zenon
      <4> QED BY <4>1, <4>3
    <3>2. Resists(RestOf(Opposing(m.book, side), Opposite(side)), side, limit)
      BY <2>3, <2>4, <2>5, <3>1 DEF LoopOutcome, Resists
    <3>3. r.book = Rest(m.book, n + 1, side, limit, m.remaining)
      BY <2>1, <2>5
    <3>4. /\ BookOk(r.book, n + 1)
          /\ BookRest(r.book) = BookRest(m.book)
                \cup {[id |-> n + 1, side |-> side, price |-> limit, qty |-> m.remaining]}
      BY <2>3, <3>1, <3>2, <3>3, RestServes
    <3> QED BY <1>2, <2>2, <2>3, <2>4, <2>5, <3>4 DEF Remainder
  <2>6. CASE ~(m.remaining > 0 /\ RestsRemainder(otype))
    <3>1. r.book = m.book
      BY <2>1, <2>6
    <3>2. BookOk(r.book, n + 1)
      BY <2>3, <3>1, Older
    <3>3. Remainder(e, n + 1, side, otype, limit) = {}
      BY <2>4, <2>6 DEF Remainder
    <3> QED BY <1>2, <2>2, <2>3, <2>4, <3>1, <3>2, <3>3
  <2> QED BY <2>5, <2>6
<1> QED BY <1>1, <1>2

-----------------------------------------------------------------------------
(* The inductive invariant of the driven book.                             *)
BookInv == count \in Nat /\ BookOk(book, count)

(* The empty book satisfies the invariant.                                 *)
LEMMA BookInit == Init => BookInv
<1> SUFFICES ASSUME Init PROVE BookInv
  OBVIOUS
<1>1. /\ book.bids = <<>> /\ book.asks = <<>> /\ book.live = <<>> /\ count = 0
      /\ DOMAIN book = {"bids", "asks", "live"}
  BY DEF Init, NewBook
<1>2. Ladder(<<>>, "BUY") /\ Ladder(<<>>, "SELL")
  BY DEF Ladder
<1>3. RestOf(<<>>, "BUY") = {} /\ RestOf(<<>>, "SELL") = {}
  BY DEF RestOf
<1>4. DOMAIN <<>> = {}
  OBVIOUS
<1> HIDE DEF Init
<1> QED BY <1>1, <1>2, <1>3, <1>4
        DEF BookInv, BookOk, SidesOk, Opposite, Whole, OneId, LiveExact, Uncrossed

(* Every operation keeps the book good.                                    *)
LEMMA BookNext == BookInv /\ [Next]_vars => BookInv'
<1> SUFFICES ASSUME BookInv, [Next]_vars PROVE BookInv'
  OBVIOUS
<1>1. ASSUME NEW side \in Sides, NEW otype, NEW limit \in Nat, NEW qty \in Nat,
             SubmitOrder(side, otype, limit, qty)
      PROVE  BookInv'
  <2>1. PICK r : r = Submit(book, count + 1, side, otype, limit, qty)
    OBVIOUS
  <2>2. \E market, R, band, take : Setting(book, side, otype, limit, qty, market, R, band, take)
    BY Zenon DEF Setting
  <2>3. BookOk(r.book, count + 1)
    BY <2>1, <2>2, SubmitServes DEF BookInv
  <2> QED BY <1>1, <2>1, <2>3 DEF SubmitOrder, BookInv
<1>2. ASSUME NEW id, CancelOrder(id) PROVE BookInv'
  BY <1>2, CancelServes DEF CancelOrder, BookInv
<1>3. CASE UNCHANGED vars
  BY <1>3 DEF vars, BookInv
<1>4. Prices \subseteq Nat /\ Quantities \subseteq Nat
  BY BookBounds
<1> QED BY <1>1, <1>2, <1>3, <1>4 DEF Next

(* The invariant holds in every reachable state.                           *)
LEMMA BookAlways == Spec => []BookInv
BY BookInit, BookNext, PTL DEF Spec

(* The levels of each side, whichever it is.                               *)
LEMMA SidesOfBook ==
    ASSUME BookInv, NEW side \in Sides
    PROVE  /\ Ladder(SideOf(side), side) /\ RestOf(SideOf(side), side) \subseteq BookRest(book)
           /\ BookRest(book) = RestOf(book.bids, "BUY") \cup RestOf(book.asks, "SELL")
           /\ Ladder(book.bids, "BUY") /\ Ladder(book.asks, "SELL")
BY DEF BookInv, BookOk, BookRest, Whole, SidesOk, Opposite, SideOf, Sides

(* The makers of a side are its resting orders.                            *)
MakerOf(o) == [id |-> o.id, qty |-> o.qty, price |-> o.price]

(* Makers lists what RestOf lists, without the side.                       *)
LEMMA MakersAre ==
    ASSUME NEW side, NEW levels, Ladder(levels, side)
    PROVE  Makers(levels) = {MakerOf(o) : o \in RestOf(levels, side)}
<1>1. /\ DOMAIN levels = 1..Len(levels)
      /\ \A i \in 1..Len(levels) : DOMAIN levels[i].orders = 1..Len(levels[i].orders)
  BY LadderTypes
<1>2. ASSUME NEW m \in Makers(levels) PROVE \E o \in RestOf(levels, side) : m = MakerOf(o)
  <2>1. PICK l \in ToSet(levels) :
            m \in {[id |-> x.id, qty |-> x.qty, price |-> l.price] : x \in ToSet(l.orders)}
    BY <1>2 DEF Makers
  <2>2. PICK x \in ToSet(l.orders) : m = [id |-> x.id, qty |-> x.qty, price |-> l.price]
    BY <2>1
  <2>3. PICK i \in 1..Len(levels) : l = levels[i]
    BY <1>1, <2>1 DEF ToSet
  <2>4. PICK j \in 1..Len(l.orders) : x = l.orders[j]
    BY <1>1, <2>2, <2>3 DEF ToSet
  <2> DEFINE o == [id |-> l.orders[j].id, side |-> side, price |-> l.price, qty |-> l.orders[j].qty]
  <2>5. o \in RestAt(l.orders, side, l.price)
    BY <2>4 DEF RestAt
  <2>6. o \in RestOf(levels, side)
    BY <2>3, <2>5 DEF RestOf
  <2>7. m = MakerOf(o)
    BY <2>2, <2>4 DEF MakerOf
  <2> QED BY <2>6, <2>7
<1>3. ASSUME NEW o \in RestOf(levels, side) PROVE MakerOf(o) \in Makers(levels)
  <2>1. PICK i \in 1..Len(levels) : o \in RestAt(levels[i].orders, side, levels[i].price)
    BY DEF RestOf
  <2>2. PICK l : l = levels[i] /\ l \in ToSet(levels)
    BY <1>1 DEF ToSet
  <2>3. PICK j \in 1..Len(l.orders) :
            o = [id |-> l.orders[j].id, side |-> side, price |-> l.price, qty |-> l.orders[j].qty]
    BY <2>1, <2>2 DEF RestAt
  <2>4. PICK x : x = l.orders[j] /\ x \in ToSet(l.orders)
    BY <1>1, <2>2 DEF ToSet
  <2>5. MakerOf(o) = [id |-> x.id, qty |-> x.qty, price |-> l.price]
    BY <2>3, <2>4 DEF MakerOf
  <2>6. MakerOf(o) \in {[id |-> y.id, qty |-> y.qty, price |-> l.price] : y \in ToSet(l.orders)}
    BY <2>4, <2>5
  <2> QED BY <2>2, <2>6 DEF Makers
<1> QED BY <1>2, <1>3

(* The ids of a side.                                                      *)
LEMMA IdsAre ==
    ASSUME NEW side, NEW levels, Ladder(levels, side)
    PROVE  IdsOf(levels) = {o.id : o \in RestOf(levels, side)}
<1>1. Makers(levels) = {MakerOf(o) : o \in RestOf(levels, side)}
  BY MakersAre
<1>2. \A o : MakerOf(o).id = o.id
  BY DEF MakerOf
<1> QED BY <1>1, <1>2 DEF IdsOf

(* The live index that cancel trusts knows every resting order of the book *)
(* at its side and price, and nothing else, after any orders and cancels.  *)
THEOREM LiveIndexIsExact == Spec => []LiveIndexExact
<1>1. ASSUME BookInv PROVE LiveIndexExact
  <2>1. LiveExact(book.live, BookRest(book))
    BY <1>1 DEF BookInv, BookOk, SidesOk, BookRest
  <2>2. ASSUME NEW side \in Sides, NEW i \in DOMAIN SideOf(side), NEW j \in DOMAIN SideOf(side)[i].orders
        PROVE  /\ SideOf(side)[i].orders[j].id \in DOMAIN book.live
               /\ book.live[SideOf(side)[i].orders[j].id]
                    = [side |-> side, price |-> SideOf(side)[i].price]
    <3> DEFINE levels == SideOf(side)
               o == [id |-> levels[i].orders[j].id, side |-> side, price |-> levels[i].price,
                     qty |-> levels[i].orders[j].qty]
    <3>1. Ladder(levels, side) /\ RestOf(levels, side) \subseteq BookRest(book)
      BY <1>1, SidesOfBook
    <3> HIDE DEF levels
    <3>2. i \in 1..Len(levels) /\ j \in 1..Len(levels[i].orders)
      BY <3>1, LadderTypes DEF levels
    <3>3. o \in RestOf(levels, side)
      BY <3>2 DEF RestOf, RestAt
    <3>4. o.id \in DOMAIN book.live /\ book.live[o.id] = [side |-> o.side, price |-> o.price]
      <4>1. o \in BookRest(book)
        BY <3>1, <3>3
      <4> HIDE DEF o
      <4> QED BY <2>1, <4>1 DEF LiveExact
    <3> QED BY <3>4 DEF levels
  <2>3. DOMAIN book.live = IdsOf(book.bids) \cup IdsOf(book.asks)
    <3>1. /\ IdsOf(book.bids) = {o.id : o \in RestOf(book.bids, "BUY")}
          /\ IdsOf(book.asks) = {o.id : o \in RestOf(book.asks, "SELL")}
      BY <1>1, SidesOfBook, IdsAre DEF Sides
    <3>2. BookRest(book) = RestOf(book.bids, "BUY") \cup RestOf(book.asks, "SELL")
      BY <1>1, SidesOfBook DEF Sides
    <3> QED BY <2>1, <3>1, <3>2 DEF LiveExact
  <2> QED BY <2>2, <2>3 DEF LiveIndexExact
<1> QED BY <1>1, BookAlways, PTL

(* After every operation no resting bid meets a resting ask.               *)
THEOREM BookNeverCrossed == Spec => []NeverCrossed
<1>1. ASSUME BookInv PROVE NeverCrossed
  <2> SUFFICES ASSUME book.bids # <<>>, book.asks # <<>>
               PROVE  Head(book.bids).price < Head(book.asks).price
    BY DEF NeverCrossed
  <2>1. /\ Ladder(book.bids, "BUY") /\ Ladder(book.asks, "SELL")
        /\ Uncrossed(RestOf(book.bids, "BUY"), RestOf(book.asks, "SELL"), "BUY")
    BY <1>1 DEF BookInv, BookOk, SidesOk, Opposite
  <2>2. /\ FrontOf(book.bids, "BUY") \in RestOf(book.bids, "BUY")
        /\ FrontOf(book.asks, "SELL") \in RestOf(book.asks, "SELL")
        /\ FrontOf(book.bids, "BUY").price = Head(book.bids).price
        /\ FrontOf(book.asks, "SELL").price = Head(book.asks).price
    BY <2>1, FrontIsFirst DEF FrontOf, Sides
  <2>3. Head(book.bids).price \in Nat /\ Head(book.asks).price \in Nat
    BY <2>1, <2>2, RestTypes DEF Booked
  <2>4. ~Crosses("BUY", FALSE, Head(book.bids).price, Head(book.asks).price)
    BY <2>1, <2>2 DEF Uncrossed
  <2> QED BY <2>3, <2>4 DEF Crosses
<1> QED BY <1>1, BookAlways, PTL

(* Both sides stay in strict price order, without an empty level, and each *)
(* level in arrival order with something left of every order it holds.     *)
THEOREM LevelsStayInOrder == Spec => []LevelsInPriorityOrder
<1>1. ASSUME BookInv PROVE LevelsInPriorityOrder
  <2>1. IsSorted(book.bids, LAMBDA a, b : a.price > b.price)
    BY <1>1, SidesOfBook, LadderTypes DEF IsSorted, Ladder, Better, Sides
  <2>2. IsSorted(book.asks, LAMBDA a, b : a.price < b.price)
    BY <1>1, SidesOfBook, LadderTypes DEF IsSorted, Ladder, Better, Sides
  <2>3. ASSUME NEW side \in Sides, NEW i \in DOMAIN SideOf(side)
        PROVE  /\ SideOf(side)[i].orders # <<>>
               /\ IsSorted(SideOf(side)[i].orders, LAMBDA a, b : a.id < b.id)
               /\ \A o \in ToSet(SideOf(side)[i].orders) : o.qty > 0
    <3>1. Ladder(SideOf(side), side)
      BY <1>1, SidesOfBook
    <3>2. PICK orders : orders = SideOf(side)[i].orders /\ Queued(orders)
      BY <3>1, LadderTypes DEF Ladder
    <3>3. DOMAIN orders = 1..Len(orders) /\ \A j \in 1..Len(orders) : orders[j].qty > 0
      BY <3>2, QueuedTypes, LenProperties
    <3>4. orders # <<>> /\ IsSorted(orders, LAMBDA a, b : a.id < b.id) /\ \A o \in ToSet(orders) : o.qty > 0
      BY <3>2, <3>3 DEF Queued, IsSorted, ToSet
    <3> QED BY <3>2, <3>4
  <2> QED BY <2>1, <2>2, <2>3 DEF LevelsInPriorityOrder
<1> QED BY <1>1, BookAlways, PTL

-----------------------------------------------------------------------------
(* The resting orders the contract is told of are those of the levels.     *)
RestingIn(b) ==
    UNION {{[id |-> m.id, side |-> side, price |-> m.price, qty |-> m.qty] :
                m \in Makers(IF side = "BUY" THEN b.bids ELSE b.asks)} : side \in Sides}

(* The resting set of a good book is the one the lemmas speak of.          *)
LEMMA RestingAre ==
    ASSUME NEW b, NEW n, BookOk(b, n)
    PROVE  RestingIn(b) = BookRest(b)
<1>1. Ladder(b.bids, "BUY") /\ Ladder(b.asks, "SELL")
  BY DEF BookOk, SidesOk, Opposite
<1>2. ASSUME NEW side \in Sides, NEW levels, Ladder(levels, side)
      PROVE  {[id |-> m.id, side |-> side, price |-> m.price, qty |-> m.qty] : m \in Makers(levels)}
               = RestOf(levels, side)
  <2>1. \A o \in RestOf(levels, side) :
          o = [id |-> MakerOf(o).id, side |-> side, price |-> MakerOf(o).price, qty |-> MakerOf(o).qty]
    BY <1>2, RestTypes DEF Booked, MakerOf
  <2>2. Makers(levels) = {MakerOf(o) : o \in RestOf(levels, side)}
    BY <1>2, MakersAre
  <2> QED BY <2>1, <2>2
<1> DEFINE Of(side) == {[id |-> m.id, side |-> side, price |-> m.price, qty |-> m.qty] :
                            m \in Makers(IF side = "BUY" THEN b.bids ELSE b.asks)}
<1>3. Of("BUY") = RestOf(b.bids, "BUY") /\ Of("SELL") = RestOf(b.asks, "SELL")
  BY <1>1, <1>2 DEF Sides
<1>4. RestingIn(b) = UNION {Of(side) : side \in Sides}
  BY DEF RestingIn
<1> HIDE DEF Of
<1>5. RestingIn(b) = Of("BUY") \cup Of("SELL")
  BY <1>4 DEF Sides
<1> QED BY <1>3, <1>5 DEF BookRest, Whole, Opposite

(* The opposing orders that cross are the willing ones of the contract.    *)
LEMMA WillingAre ==
    ASSUME NEW b, NEW n \in Nat, BookOk(b, n), NEW side \in Sides, NEW market, NEW limit,
           NEW R, R = RestOf(Opposing(b, side), Opposite(side))
    PROVE  /\ {o \in BookRest(b) : o.side # side} = R
           /\ {o \in BookRest(b) : Contract!Willing(side, market, limit, o)}
                = Wanted(R, side, market, limit)
<1>1. BookRest(b) = RestOf(Own(b, side), side) \cup R
  BY OkSides DEF Whole
<1>2. Ladder(Own(b, side), side) /\ Ladder(Opposing(b, side), Opposite(side))
  BY OkSides DEF SidesOk
<1>3. /\ \A o \in RestOf(Own(b, side), side) : o.side = side
      /\ \A o \in R : o.side # side
  <2>1. Opposite(side) # side
    BY DEF Opposite
  <2> QED BY <1>2, <2>1, RestTypes DEF Booked
<1>4. \A o : Contract!Willing(side, market, limit, o)
               <=> o.side # side /\ Crosses(side, market, limit, o.price)
  BY DEF Contract!Willing, Crosses
<1> QED BY <1>1, <1>3, <1>4 DEF Wanted

(* The greatest and the least number of a set.                             *)
LEMMA ExtremesAre ==
    ASSUME NEW P \in SUBSET Nat, NEW w \in P
    PROVE  /\ (\A y \in P : y <= w) => Contract!Max(P) = w
           /\ (\A y \in P : y >= w) => Contract!Min(P) = w
<1>1. ASSUME \A y \in P : y <= w PROVE Contract!Max(P) = w
  <2>1. \A x \in P : (\A y \in P : x >= y) <=> x = w
    BY <1>1
  <2> QED BY <2>1 DEF Contract!Max
<1>2. ASSUME \A y \in P : y >= w PROVE Contract!Min(P) = w
  <2>1. \A x \in P : (\A y \in P : x =< y) <=> x = w
    BY <1>2
  <2> QED BY <2>1 DEF Contract!Min
<1> QED BY <1>1, <1>2

(* The last level has the worst price.                                     *)
LEMMA BandIs ==
    ASSUME NEW b, NEW n \in Nat, BookOk(b, n), NEW side \in Sides,
           NEW market \in BOOLEAN, NEW limit \in Nat
    PROVE  AggBand(Opposing(b, side), market, limit)
             = IF market THEN Contract!WorstOpposing(BookRest(b), side, limit) ELSE limit
<1> DEFINE levels == Opposing(b, side)
           R == RestOf(levels, Opposite(side))
           P == {o.price : o \in R}
<1>1. Ladder(levels, Opposite(side))
  BY OkSides DEF SidesOk
<1>2. Contract!WorstOpposing(BookRest(b), side, limit)
        = CASE P = {} -> limit
            [] P # {} /\ side = "BUY" -> Contract!Max(P)
            [] OTHER -> Contract!Min(P)
  <2>1. {o.price : o \in {r \in BookRest(b) : r.side # side}} = P
    BY WillingAre
  <2> HIDE DEF P
  <2> QED BY <2>1, Zenon DEF Contract!WorstOpposing
<1>3. CASE levels = <<>>
  <2>1. P = {}
    BY <1>3 DEF RestOf
  <2> QED BY <1>2, <1>3, <2>1 DEF AggBand
<1>4. CASE levels # <<>>
  <2> DEFINE k == Len(levels)
  <2>1. k \in 1..Len(levels) /\ Len(levels) \in Nat
    BY <1>1, <1>4, LadderTypes, EmptySeq
  <2>2. Last(levels) = levels[k]
    BY DEF Last
  <2>3. levels[k].price \in P
    <3>1. FrontOf(levels, Opposite(side)) \in R
      BY <1>1, <1>4, FrontIsFirst, Mirror
    <3>2. 1 \in 1..Len(levels[k].orders)
      BY <1>1, <2>1, LadderTypes
    <3> DEFINE o == [id |-> levels[k].orders[1].id, side |-> Opposite(side), price |-> levels[k].price,
                     qty |-> levels[k].orders[1].qty]
    <3>3. o \in R /\ o.price = levels[k].price
      BY <2>1, <3>2 DEF RestOf, RestAt
    <3> HIDE DEF o
    <3> QED BY <3>3
  <2>4. ASSUME NEW p \in P, p # levels[k].price PROVE Better(Opposite(side), p, levels[k].price)
    <3>1. PICK i \in 1..Len(levels) : p = levels[i].price
      BY DEF RestOf, RestAt
    <3>2. i < Len(levels)
      BY <2>1, <2>4, <3>1
    <3> QED BY <1>1, <2>1, <3>1, <3>2 DEF Ladder
  <2>5. P \subseteq Nat
    BY <1>1, RestTypes DEF Booked
  <2> HIDE DEF P, k
  <2>6. CASE side = "BUY"
    <3>1. \A p \in P : p <= levels[k].price
      <4>1. \A p \in P : p # levels[k].price => p < levels[k].price
        BY <2>4, <2>6 DEF Better, Opposite
      <4>2. PICK w \in Nat : w = levels[k].price
        BY <2>3, <2>5
      <4>3. \A p \in P : p <= w
        BY <2>5, <4>1, <4>2
      <4> QED BY <4>2, <4>3
    <3>2. Contract!Max(P) = levels[k].price
      BY <2>3, <2>5, <3>1, ExtremesAre
    <3> QED BY <1>2, <1>4, <2>2, <2>3, <2>6, <3>2 DEF AggBand
  <2>7. CASE side = "SELL"
    <3>1. \A p \in P : p >= levels[k].price
      <4>1. \A p \in P : p # levels[k].price => p > levels[k].price
        BY <2>4, <2>7 DEF Better, Opposite
      <4>2. PICK w \in Nat : w = levels[k].price
        BY <2>3, <2>5
      <4>3. \A p \in P : p >= w
        BY <2>5, <4>1, <4>2
      <4> QED BY <4>2, <4>3
    <3>2. Contract!Min(P) = levels[k].price
      BY <2>3, <2>5, <3>1, ExtremesAre
    <3> QED BY <1>2, <1>4, <2>2, <2>3, <2>7, <3>2 DEF AggBand
  <2> QED BY <2>6, <2>7 DEF Sides
<1> QED BY <1>3, <1>4

(* The levels before the one that breaks the loop hold what crosses.       *)
LEMMA MatchablePrefix ==
    ASSUME NEW side \in Sides, NEW levels, Ladder(levels, Opposite(side)),
           NEW market \in BOOLEAN, NEW limit \in Nat,
           NEW front, front = Matchable(levels, side, market, limit)
    PROVE  /\ Ladder(front, Opposite(side))
           /\ RestOf(front, Opposite(side))
                = Wanted(RestOf(levels, Opposite(side)), side, market, limit)
<1> DEFINE opp == Opposite(side)
           S == {k \in 1..Len(levels) : ~Crosses(side, market, limit, levels[k].price)}
           stop == IF S # {} THEN Min(S) ELSE 0
<1>1. /\ levels \in Seq(Levels) /\ Len(levels) \in Nat
      /\ \A k \in 1..Len(levels) : levels[k].price \in Nat
  BY LadderTypes
<1>2. front = IF stop = 0 THEN levels ELSE SubSeq(levels, 1, stop - 1)
  BY DEF Matchable, SelectInSeq
<1>3. \A k, l \in 1..Len(levels) : k < l /\ k \in S => l \in S
  <2> SUFFICES ASSUME NEW k \in 1..Len(levels), NEW l \in 1..Len(levels), k < l,
                      ~Crosses(side, market, limit, levels[k].price)
               PROVE  ~Crosses(side, market, limit, levels[l].price)
    OBVIOUS
  <2>1. Better(opp, levels[k].price, levels[l].price)
    BY DEF Ladder
  <2>2. levels[k].price \in Nat /\ levels[l].price \in Nat
    BY <1>1
  <2> QED BY <2>1, <2>2 DEF Better, Crosses, Opposite, Sides
<1>4. PICK n \in 0..Len(levels) :
          /\ \A k \in 1..Len(levels) : k <= n <=> k \notin S
          /\ front = IF n = Len(levels) THEN levels ELSE SubSeq(levels, 1, n)
  <2>1. CASE S = {}
    BY <1>1, <1>2, <2>1
  <2>2. CASE S # {}
    <3>1. S \in SUBSET Nat
      BY <1>1
    <3>2. Min(S) \in S /\ \A y \in S : Min(S) <= y
      <4> HIDE DEF S
      <4> QED BY <2>2, <3>1, MinIsLeast
    <3>3. PICK i \in S : i = Min(S) /\ \A y \in S : i <= y
      BY <3>2
    <3>4. i \in 1..Len(levels) /\ stop = i
      BY <2>2, <3>3
    <3>5. \A k \in 1..Len(levels) : k <= i - 1 <=> k \notin S
      <4> HIDE DEF S
      <4> QED BY <1>1, <1>3, <3>3, <3>4
    <3>6. front = SubSeq(levels, 1, i - 1)
      <4> HIDE DEF stop, S
      <4> QED BY <1>1, <1>2, <3>4
    <3>7. i - 1 \in 0..Len(levels) /\ i - 1 # Len(levels)
      BY <1>1, <3>4
    <3> QED BY <3>5, <3>6, <3>7
  <2> QED BY <2>1, <2>2
<1>5. /\ front \in Seq(Levels) /\ Len(front) = n
      /\ \A k \in 1..n : front[k] = levels[k]
  <2>1. CASE n = Len(levels)
    BY <1>1, <1>4, <2>1
  <2>2. CASE n # Len(levels)
    <3>1. front = SubSeq(levels, 1, n) /\ n <= Len(levels)
      BY <1>1, <1>4, <2>2
    <3> HIDE DEF S
    <3> QED BY <1>1, <1>4, <3>1, SubSeqProperties
  <2> QED BY <2>1, <2>2
<1> HIDE DEF S, stop
<1>6. Ladder(front, opp)
  BY <1>1, <1>4, <1>5 DEF Ladder
<1>7. \A k \in 1..Len(levels) : k \notin S <=> Crosses(side, market, limit, levels[k].price)
  BY DEF S
<1>8. ASSUME NEW o \in RestOf(front, opp)
      PROVE  o \in RestOf(levels, opp) /\ Crosses(side, market, limit, o.price)
  <2>1. PICK k \in 1..n : o \in RestAt(levels[k].orders, opp, levels[k].price)
    BY <1>5 DEF RestOf
  <2>2. k \in 1..Len(levels) /\ o.price = levels[k].price
    BY <1>1, <2>1 DEF RestAt
  <2> QED BY <1>4, <1>7, <2>1, <2>2 DEF RestOf
<1>9. ASSUME NEW o \in RestOf(levels, opp), Crosses(side, market, limit, o.price)
      PROVE  o \in RestOf(front, opp)
  <2>1. PICK k \in 1..Len(levels) : o \in RestAt(levels[k].orders, opp, levels[k].price)
    BY DEF RestOf
  <2>2. o.price = levels[k].price
    BY <2>1 DEF RestAt
  <2>3. k \in 1..n
    BY <1>1, <1>4, <1>7, <1>9, <2>2
  <2> QED BY <1>5, <2>1, <2>3 DEF RestOf
<1> QED BY <1>6, <1>8, <1>9 DEF Wanted

(* canFullyFill asks whether the willing orders hold enough.               *)
LEMMA FullyFillable ==
    ASSUME NEW b, NEW n \in Nat, BookOk(b, n), NEW side \in Sides,
           NEW market \in BOOLEAN, NEW limit \in Nat, NEW qty \in Nat,
           NEW R, R = RestOf(Opposing(b, side), Opposite(side)),
           NEW W, W = Wanted(R, side, market, limit)
    PROVE  CanFullyFill(b, side, market, limit, qty) <=> QtySum(W) >= qty
<1> DEFINE front == Matchable(Opposing(b, side), side, market, limit)
           f == [o \in W |-> MakerOf(o)]
<1>1. Fields(b) /\ SidesOk(Own(b, side), Opposing(b, side), b.live, side, n)
  BY OkSides
<1>2. OneSide(R, Opposite(side)) /\ W \subseteq R
  BY <1>1, OkOneSide DEF Wanted
<1>3. /\ Ladder(front, Opposite(side)) /\ RestOf(front, Opposite(side)) = W
  <2>1. Ladder(Opposing(b, side), Opposite(side))
    BY <1>1 DEF SidesOk
  <2> HIDE DEF front
  <2>2. front = Matchable(Opposing(b, side), side, market, limit)
    BY DEF front
  <2> QED BY <2>1, <2>2, MatchablePrefix
<1>4. Makers(front) = ImageOf(f, W)
  <2> HIDE DEF front
  <2> QED BY <1>3, MakersAre DEF ImageOf
<1>5. Priced(W) /\ OneToOne(f, W) /\ \A o \in W : f[o].qty = o.qty
  <2>1. \A o \in W : f[o].qty = o.qty /\ f[o].id = o.id
    BY DEF MakerOf
  <2> HIDE DEF f
  <2> QED BY <1>2, <2>1, SumOfPart DEF OneSide, OneId, OneToOne
<1>6. QtySum(ImageOf(f, W)) = QtySum(W)
  <2> HIDE DEF f
  <2> QED BY <1>5, SumOfImage
<1>7. Liquidity(front) = QtySum(W)
  <2> HIDE DEF front, f
  <2> QED BY <1>4, <1>6 DEF Liquidity, QtySum
<1>8. CanFullyFill(b, side, market, limit, qty) <=> Liquidity(front) >= qty
  BY DEF CanFullyFill
<1> QED BY <1>7, <1>8

(* The fills an opposing side gives.                                       *)
FillsOn(R, take, band) == {FillRec(o, take[o], band) : o \in {x \in R : take[x] > 0}}

(* The trades of a submit are the contract's fills.                        *)
LEMMA FillsAre ==
    ASSUME NEW b, NEW n \in Nat, BookOk(b, n), NEW side \in Sides, NEW otype,
           NEW limit \in Nat, NEW qty \in Nat,
           NEW market, NEW R, NEW band, NEW take,
           Setting(b, side, otype, limit, qty, market, R, band, take)
    PROVE  Contract!FillsOf(BookRest(b), side, otype, limit, qty)
             = IF Killed(b, side, otype, limit, qty) THEN {} ELSE FillsOn(R, take, band)
<1> USE DEF Setting, FillsOn
<1> DEFINE W == Wanted(R, side, market, limit)
           bound == IF market THEN Contract!WorstOpposing(BookRest(b), side, limit) ELSE limit
           served == {o \in W : Contract!Share(W, qty, o) > 0}
<1>0. market \in BOOLEAN
  OBVIOUS
<1>1. {o \in BookRest(b) : Contract!Willing(side, market, limit, o)} = W
  BY WillingAre
<1>2. bound = band
  BY <1>0, BandIs
<1>3. Killed(b, side, otype, limit, qty) <=> otype = "FOK" /\ Contract!Total(W) < qty
  <2>1. CanFullyFill(b, side, market, limit, qty) <=> QtySum(W) >= qty
    BY <1>0, FullyFillable
  <2>2. QtySum(W) \in Nat /\ Contract!Total(W) = QtySum(W)
    <3>1. Priced(W)
      <4>1. Priced(R)
        BY OkSides, OkOneSide DEF OneSide
      <4> QED BY <4>1, SumOfPart DEF Wanted
    <3> HIDE DEF W
    <3> QED BY <3>1, SumType, TotalIs
  <2>3. ~(QtySum(W) >= qty) <=> QtySum(W) < qty
    BY <2>2
  <2> QED BY <2>1, <2>2, <2>3, Zenon DEF Killed
<1>4. Contract!FillsOf(BookRest(b), side, otype, limit, qty)
        = IF otype = "FOK" /\ Contract!Total(W) < qty THEN {}
          ELSE {FillRec(o, Contract!Share(W, qty, o), bound) : o \in served}
  <2> HIDE DEF W
  <2> QED BY <1>1, Zenon DEF Contract!FillsOf, FillRec
<1>5. \A o \in R : take[o] = IF o \in W THEN Contract!Share(W, qty, o) ELSE 0
  BY DEF TakenFrom
<1>6. served = {x \in R : take[x] > 0} /\ \A o \in served : take[o] = Contract!Share(W, qty, o)
  <2>1. W \subseteq R
    BY DEF Wanted
  <2> HIDE DEF W
  <2> QED BY <1>5, <2>1
<1> HIDE DEF W, bound, served
<1>7. {FillRec(o, Contract!Share(W, qty, o), bound) : o \in served}
        = {FillRec(o, take[o], band) : o \in {x \in R : take[x] > 0}}
  BY <1>2, <1>6
<1> QED BY <1>3, <1>4, <1>7

(* What the fills took from each order.                                    *)
TakenOf(F, o) == Contract!Total({f \in F : f.maker = o.id})

FillsFrom(F, R, take, band) ==
    /\ \A o \in R : take[o] \in Nat
    /\ F = {FillRec(o, take[o], band) : o \in {x \in R : take[x] > 0}}

(* An order lost what it was to give, and nothing if it was not to give.   *)
LEMMA TakenByFills ==
    ASSUME NEW B, OneId(B), NEW R \in SUBSET B, NEW band, NEW take,
           NEW F, FillsFrom(F, R, take, band)
    PROVE  \A o \in B : TakenOf(F, o) = IF o \in R THEN take[o] ELSE 0
<1> USE DEF FillsFrom
<1> SUFFICES ASSUME NEW o \in B
             PROVE  Contract!Total({f \in F : f.maker = o.id}) = IF o \in R THEN take[o] ELSE 0
  BY DEF TakenOf
<1>1. \A x \in R : FillRec(x, take[x], band).maker = o.id <=> x = o
  BY DEF FillRec, OneId
<1>2. CASE o \in R /\ take[o] > 0
  <2> DEFINE t == FillRec(o, take[o], band)
  <2>1. {f \in F : f.maker = o.id} = {t}
    BY <1>1, <1>2
  <2>2. t.qty = take[o] /\ take[o] \in Nat
    BY <1>2 DEF FillRec
  <2> HIDE DEF t
  <2>3. Priced({}) /\ t \notin {} /\ {} \cup {t} = {t}
    BY FS_EmptySet DEF Priced
  <2>4. QtySum({t}) = 0 + t.qty
    BY <2>2, <2>3, SumAdd, SumEmpty
  <2>5. QtySum({t}) = take[o]
    BY <2>2, <2>4
  <2>6. Contract!Total({t}) = take[o]
    BY <2>5, TotalIs
  <2> QED BY <1>2, <2>1, <2>6
<1>3. CASE ~(o \in R /\ take[o] > 0)
  <2>1. {f \in F : f.maker = o.id} = {}
    BY <1>1, <1>3
  <2>2. o \in R => take[o] = 0
    BY <1>3
  <2> QED BY <2>1, <2>2, TotalIs, SumEmpty
<1> QED BY <1>2, <1>3

(* The book a submit leaves is the contract's.                             *)
LEMMA RestingAfterIs ==
    ASSUME NEW b, NEW n \in Nat, BookOk(b, n), NEW side \in Sides, NEW otype \in OrderTypes,
           NEW limit \in Nat, NEW qty \in Nat,
           NEW market, NEW R, NEW band, NEW take,
           Setting(b, side, otype, limit, qty, market, R, band, take),
           ~Killed(b, side, otype, limit, qty),
           NEW e, LoopOutcome(e, side, market, limit, R, b.live, band, qty, take),
           NEW F, F = FillSet(e.trades)
    PROVE  Contract!RestingAfter(BookRest(b), F, n + 1, side, otype, limit, qty)
             = Whole(Own(b, side), e.levels, side) \cup Remainder(e, n + 1, side, otype, limit)
<1> USE DEF Setting
<1> DEFINE B == BookRest(b)
           Mine == RestOf(Own(b, side), side)
           After == RestOf(e.levels, Opposite(side))
           taken(o) == TakenOf(F, o)
           left == qty - Contract!Total(F)
<1>1. /\ \A o \in R : take[o] \in Nat /\ take[o] <= o.qty
      /\ After = {[o EXCEPT !.qty = @ - take[o]] : o \in {x \in R : x.qty > take[x]}}
      /\ F = {FillRec(o, take[o], band) : o \in {x \in R : take[x] > 0}}
      /\ Priced(F) /\ QtySum(F) + e.remaining = qty /\ e.remaining \in Nat
      /\ e.remaining = 0 \/ QtySum(Wanted(R, side, market, limit)) + e.remaining = qty
  BY DEF LoopOutcome
<1>2. SidesOk(Own(b, side), Opposing(b, side), b.live, side, n) /\ B = Mine \cup R
  BY OkSides DEF Whole
<1>3. /\ OneId(B) /\ R \in SUBSET B /\ Mine \subseteq Booked(side) /\ R \cap Mine = {}
      /\ R \subseteq Booked(Opposite(side))
  <2>1. OneId(B) /\ Ladder(Own(b, side), side) /\ Ladder(Opposing(b, side), Opposite(side))
    BY <1>2 DEF SidesOk, Whole
  <2>2. Mine \subseteq Booked(side) /\ R \subseteq Booked(Opposite(side)) /\ Opposite(side) # side
    BY <2>1, RestTypes DEF Opposite
  <2> HIDE DEF Mine
  <2> QED BY <1>2, <2>1, <2>2 DEF Booked
<1>4. \A o \in B : taken(o) = IF o \in R THEN take[o] ELSE 0
  <2> HIDE DEF B
  <2>1. FillsFrom(F, R, take, band)
    BY <1>1 DEF FillsFrom
  <2>2. OneId(B) /\ R \in SUBSET B
    BY <1>3
  <2>3. \A o \in B : TakenOf(F, o) = IF o \in R THEN take[o] ELSE 0
    BY <2>1, <2>2, TakenByFills
  <2> QED BY <2>3
<1>5. left = e.remaining
  <2>1. QtySum(F) \in Nat /\ Contract!Total(F) = QtySum(F)
    BY <1>1, SumType, TotalIs
  <2> QED BY <1>1, <2>1
<1>6. {[o EXCEPT !.qty = @ - taken(o)] : o \in {r \in B : r.qty > taken(r)}} = Mine \cup After
  <2> HIDE DEF B, Mine, After, taken
  <2>1. \A o \in Mine : /\ o \in B /\ taken(o) = 0 /\ o.qty > taken(o)
                        /\ [o EXCEPT !.qty = @ - taken(o)] = o
    <3> TAKE o \in Mine
    <3>1. o \in B /\ taken(o) = 0 /\ o \in Booked(side)
      BY <1>2, <1>3, <1>4
    <3>2. o.qty \in Nat \ {0} /\ o.qty > 0 /\ [o EXCEPT !.qty = @ - 0] = o
      BY <3>1 DEF Booked
    <3> QED BY <3>1, <3>2
  <2>2. \A o \in R : o \in B /\ taken(o) = take[o]
    BY <1>2, <1>4
  <2>3. {r \in B : r.qty > taken(r)} = Mine \cup {x \in R : x.qty > take[x]}
    BY <1>2, <2>1, <2>2
  <2>4. {[o EXCEPT !.qty = @ - taken(o)] : o \in Mine} = Mine
    BY <2>1
  <2>5. {[o EXCEPT !.qty = @ - taken(o)] : o \in {x \in R : x.qty > take[x]}} = After
    BY <1>1, <2>2
  <2>6. {[o EXCEPT !.qty = @ - taken(o)] : o \in Mine \cup {x \in R : x.qty > take[x]}}
          = {[o EXCEPT !.qty = @ - taken(o)] : o \in Mine}
              \cup {[o EXCEPT !.qty = @ - taken(o)] : o \in {x \in R : x.qty > take[x]}}
    OBVIOUS
  <2> QED BY <2>3, <2>4, <2>5, <2>6
<1> DEFINE rest == IF left > 0 /\ otype \in {"LIMIT", "GFD"}
                   THEN {[id |-> n + 1, side |-> side, price |-> limit, qty |-> left]} ELSE {}
<1>7. rest = Remainder(e, n + 1, side, otype, limit)
  <2>1. otype = "FOK" => ~(e.remaining > 0)
    <3> SUFFICES ASSUME otype = "FOK", e.remaining > 0 PROVE FALSE
      OBVIOUS
    <3>1. market = FALSE
      OBVIOUS
    <3>2. CanFullyFill(b, side, market, limit, qty)
      BY DEF Killed
    <3>3. PICK W : W = Wanted(R, side, market, limit)
      OBVIOUS
    <3>4. QtySum(W) >= qty
      BY <3>1, <3>2, <3>3, FullyFillable
    <3>5. Priced(W)
      <4>1. Priced(R)
        BY <1>2, OkOneSide DEF OneSide
      <4> QED BY <3>3, <4>1, SumOfPart DEF Wanted
    <3>6. QtySum(W) \in Nat
      BY <3>5, SumType
    <3>7. QtySum(W) + e.remaining = qty
      BY <1>1, <3>3
    <3> QED BY <1>1, <3>4, <3>6, <3>7
  <2>2. left > 0 /\ otype \in {"LIMIT", "GFD"} <=> e.remaining > 0 /\ RestsRemainder(otype)
    <3>1. RestsRemainder(otype) <=> otype \in {"LIMIT", "GFD", "FOK"}
      BY DEF OrderTypes, RestsRemainder
    <3> HIDE DEF left
    <3> QED BY <1>5, <2>1, <3>1
  <2> HIDE DEF left
  <2> QED BY <1>5, <2>2 DEF Remainder
<1>8. Contract!RestingAfter(B, F, n + 1, side, otype, limit, qty)
        = {[o EXCEPT !.qty = @ - taken(o)] : o \in {r \in B : r.qty > taken(r)}} \cup rest
  <2> HIDE DEF B
  <2> QED BY Zenon DEF Contract!RestingAfter, TakenOf
<1>9. Whole(Own(b, side), e.levels, side) = Mine \cup After
  BY DEF Whole
<1> HIDE DEF B, Mine, After, taken, left, rest
<1>10. Contract!RestingAfter(B, F, n + 1, side, otype, limit, qty)
         = Whole(Own(b, side), e.levels, side) \cup Remainder(e, n + 1, side, otype, limit)
  BY <1>6, <1>7, <1>8, <1>9
<1> QED BY <1>10 DEF B

(* A killed order leaves the contract's book as it was.                    *)
LEMMA NothingFilled ==
    ASSUME NEW b, NEW n \in Nat, BookOk(b, n), NEW id, NEW side, NEW limit, NEW qty
    PROVE  Contract!RestingAfter(BookRest(b), {}, id, side, "FOK", limit, qty) = BookRest(b)
<1> DEFINE B == BookRest(b)
<1>1. \A o \in B : o.qty > 0 /\ [o EXCEPT !.qty = @ - 0] = o
  <2>1. Ladder(b.bids, "BUY") /\ Ladder(b.asks, "SELL")
    BY DEF BookOk, SidesOk, Opposite
  <2>2. B \subseteq Booked("BUY") \cup Booked("SELL")
    BY <2>1, RestTypes DEF BookRest, Whole, Opposite
  <2> HIDE DEF B
  <2>3. \A o \in B : o \in Booked("BUY") \/ o \in Booked("SELL")
    BY <2>2
  <2> QED BY <2>3 DEF Booked
<1> HIDE DEF B
<1>2. \A o : Contract!Total({f \in {} : f.maker = o.id}) = 0
  <2>1. \A o : {f \in {} : f.maker = o.id} = {}
    OBVIOUS
  <2> QED BY <2>1, TotalIs, SumEmpty
<1>3. /\ {o \in B : o.qty > Contract!Total({f \in {} : f.maker = o.id})} = B
      /\ \A o \in B : [o EXCEPT !.qty = @ - Contract!Total({f \in {} : f.maker = o.id})] = o
  BY <1>1, <1>2
<1>4. Contract!RestingAfter(B, {}, id, side, "FOK", limit, qty) = B
  BY <1>3 DEF Contract!RestingAfter
<1> QED BY <1>4 DEF B

(* submit, in the contract's terms.                                        *)
LEMMA SubmitIsContract ==
    ASSUME NEW b, NEW n \in Nat, BookOk(b, n), NEW side \in Sides, NEW otype \in OrderTypes,
           NEW limit \in Nat, NEW qty \in Nat,
           NEW r, r = Submit(b, n + 1, side, otype, limit, qty),
           NEW F, F = FillSet(r.trades)
    PROVE  /\ F = Contract!FillsOf(BookRest(b), side, otype, limit, qty)
           /\ BookRest(r.book) = Contract!RestingAfter(BookRest(b), F, n + 1, side, otype, limit, qty)
<1>1. \E market, R, band, take : Setting(b, side, otype, limit, qty, market, R, band, take)
  BY Zenon DEF Setting
<1>2. PICK market, R, band, take : Setting(b, side, otype, limit, qty, market, R, band, take)
  BY <1>1
<1>5. Submitted(r, b, n, side, otype, limit, qty, market, R, band, take)
  BY <1>2, SubmitServes
<1>6. Contract!FillsOf(BookRest(b), side, otype, limit, qty)
        = IF Killed(b, side, otype, limit, qty) THEN {} ELSE FillsOn(R, take, band)
  BY <1>2, FillsAre
<1>7. CASE Killed(b, side, otype, limit, qty)
  <2>1. r.trades = <<>> /\ r.book = b
    BY <1>5, <1>7 DEF Submitted
  <2>2. F = {}
    BY <2>1 DEF FillSet, ToSet
  <2>3. otype = "FOK"
    BY <1>7 DEF Killed
  <2>4. Contract!RestingAfter(BookRest(b), {}, n + 1, side, "FOK", limit, qty) = BookRest(b)
    BY NothingFilled
  <2> QED BY <1>6, <1>7, <2>1, <2>2, <2>3, <2>4
<1>8. CASE ~Killed(b, side, otype, limit, qty)
  <2>1. PICK e : /\ LoopOutcome(e, side, market, limit, R, b.live, band, qty, take)
                 /\ r.trades = e.trades
                 /\ BookRest(r.book) = Whole(Own(b, side), e.levels, side)
                       \cup Remainder(e, n + 1, side, otype, limit)
    BY <1>5, <1>8 DEF Submitted
  <2>2. F = FillSet(e.trades)
    BY <2>1
  <2>3. Contract!RestingAfter(BookRest(b), F, n + 1, side, otype, limit, qty)
          = Whole(Own(b, side), e.levels, side) \cup Remainder(e, n + 1, side, otype, limit)
    BY <1>2, <1>8, <2>1, <2>2, RestingAfterIs
  <2>4. F = FillsOn(R, take, band)
    BY <2>1, <2>2 DEF LoopOutcome, FillsOn
  <2> QED BY <1>6, <1>8, <2>1, <2>3, <2>4
<1> QED BY <1>7, <1>8

(* No maker trades twice with an order.                                    *)
LEMMA MakersApart ==
    ASSUME NEW b, NEW n \in Nat, BookOk(b, n), NEW side \in Sides, NEW otype \in OrderTypes,
           NEW limit \in Nat, NEW qty \in Nat,
           NEW r, r = Submit(b, n + 1, side, otype, limit, qty)
    PROVE  BookOk(r.book, n + 1) /\ \E band : TradesOnce(r.trades, band)
<1>1. \E market, R, band, take : Setting(b, side, otype, limit, qty, market, R, band, take)
  BY Zenon DEF Setting
<1>2. PICK market, R, band, take : Setting(b, side, otype, limit, qty, market, R, band, take)
  BY <1>1
<1>3. /\ Submitted(r, b, n, side, otype, limit, qty, market, R, band, take)
      /\ BookOk(r.book, n + 1)
  BY <1>2, SubmitServes
<1>4. CASE Killed(b, side, otype, limit, qty)
  <2>1. r.trades = <<>>
    BY <1>3, <1>4 DEF Submitted
  <2>2. TradesOnce(r.trades, band)
    <3>1. <<>> \in Seq(Tradings(band)) /\ Len(<<>>) = 0
      OBVIOUS
    <3>2. \A i, j \in 1..Len(r.trades) : r.trades[i].maker = r.trades[j].maker => i = j
      <4>1. 1..Len(r.trades) = {}
        BY <2>1, <3>1
      <4> QED BY <4>1
    <3>3. r.trades \in Seq(Tradings(band))
      BY <2>1, <3>1
    <3> QED BY <3>2, <3>3, Zenon DEF TradesOnce
  <2> QED BY <1>3, <2>2
<1>5. CASE ~Killed(b, side, otype, limit, qty)
  <2>1. \E e : LoopOutcome(e, side, market, limit, R, b.live, band, qty, take) /\ r.trades = e.trades
    BY <1>3, <1>5 DEF Submitted
  <2> QED BY <1>3, <2>1 DEF LoopOutcome
<1> QED BY <1>4, <1>5

(* What the refinement mapping reads, in the proof's terms.                *)
LEMMA MappingIs ==
    /\ RestingOrders = RestingIn(book) /\ TradeSet = FillSet(trades)
    /\ RestingOrders' = RestingIn(book') /\ TradeSet' = FillSet(trades')
BY DEF RestingOrders, RestingIn, SideOf, TradeSet, FillSet

(* The empty book is the contract's empty set.                             *)
LEMMA ContractInit == Init => Contract!PTInit
<1> SUFFICES ASSUME Init PROVE Contract!PTInit
  OBVIOUS
<1>1. BookOk(book, count) /\ BookRest(book) = {}
  <2>1. BookOk(book, count)
    BY BookInit DEF BookInv
  <2>2. RestOf(<<>>, "BUY") = {} /\ RestOf(<<>>, "SELL") = {}
    BY DEF RestOf
  <2>3. book.bids = <<>> /\ book.asks = <<>>
    BY DEF Init, NewBook
  <2> QED BY <2>1, <2>2, <2>3 DEF BookRest, Whole, Opposite
<1>2. RestingOrders = {}
  BY <1>1, RestingAre, MappingIs
<1>3. TradeSet = {}
  BY MappingIs DEF Init, FillSet, ToSet
<1> QED BY <1>2, <1>3 DEF Init, Contract!PTInit

(* A submit is a submit of the contract.                                   *)
LEMMA ContractSubmit ==
    ASSUME BookInv, BookInv', NEW side \in Sides, NEW otype \in OrderTypes,
           NEW limit \in Nat, NEW qty \in Nat, SubmitOrder(side, otype, limit, qty)
    PROVE  Contract!PTSubmit(side, otype, limit, qty)
<1>1. /\ count < MaxOrders /\ count' = count + 1 /\ count \in Nat
      /\ request' = <<side, otype, limit, qty>>
  BY DEF SubmitOrder, BookInv
<1>2. PICK r : /\ r = Submit(book, count + 1, side, otype, limit, qty)
               /\ book' = r.book /\ trades' = r.trades
  BY DEF SubmitOrder
<1>3. BookOk(book, count) /\ BookOk(book', count')
  BY DEF BookInv
<1>4. RestingOrders = BookRest(book) /\ RestingOrders' = BookRest(r.book)
  BY <1>2, <1>3, RestingAre, MappingIs
<1>5. PICK F : F = FillSet(r.trades)
  OBVIOUS
<1>6. TradeSet' = F
  BY <1>2, <1>5, MappingIs
<1>7. /\ F = Contract!FillsOf(BookRest(book), side, otype, limit, qty)
      /\ BookRest(r.book)
           = Contract!RestingAfter(BookRest(book), F, count + 1, side, otype, limit, qty)
  BY <1>1, <1>2, <1>3, <1>5, SubmitIsContract
<1> QED BY <1>1, <1>4, <1>6, <1>7 DEF Contract!PTSubmit

(* A cancel is a cancel of the contract.                                   *)
LEMMA ContractCancel ==
    ASSUME BookInv, BookInv', NEW id, CancelOrder(id)
    PROVE  Contract!PTCancel(id)
<1>1. request' = <<"CANCEL", id>> /\ book' = Cancel(book, id) /\ trades' = <<>> /\ count' = count
  BY DEF CancelOrder
<1>2. BookOk(book, count) /\ BookOk(book', count') /\ count \in Nat
  BY DEF BookInv
<1>3. RestingOrders = BookRest(book) /\ RestingOrders' = BookRest(book')
  BY <1>2, RestingAre, MappingIs
<1>4. BookRest(book') = {x \in BookRest(book) : x.id # id}
  BY <1>1, <1>2, CancelServes
<1>5. TradeSet' = {}
  BY <1>1, MappingIs DEF FillSet, ToSet
<1> QED BY <1>1, <1>3, <1>4, <1>5 DEF Contract!PTCancel

(* Every step of the book is one of the contract, or leaves it alone.      *)
LEMMA ContractNext == BookInv /\ BookInv' /\ [Next]_vars => [Contract!PTNext]_Contract!ptVars
<1> SUFFICES ASSUME BookInv, BookInv', [Next]_vars
             PROVE  [Contract!PTNext]_Contract!ptVars
  OBVIOUS
<1>1. Prices \subseteq Nat /\ Quantities \subseteq Nat
  BY BookBounds
<1>2. ASSUME NEW side \in Sides, NEW q \in Quantities,
             NEW t \in OrderTypes \ {"MARKET"}, NEW p \in Prices, SubmitOrder(side, t, p, q)
      PROVE  Contract!PTNext
  <2>1. Contract!PTSubmit(side, t, p, q)
    BY <1>1, <1>2, ContractSubmit
  <2>2. side \in {"BUY", "SELL"} /\ t \in {"LIMIT", "GFD", "FAK", "FOK"}
    BY DEF Sides, OrderTypes
  <2> QED BY <2>1, <2>2 DEF Contract!PTNext
<1>3. ASSUME NEW side \in Sides, NEW q \in Quantities, SubmitOrder(side, "MARKET", 0, q)
      PROVE  Contract!PTNext
  <2>1. Contract!PTSubmit(side, "MARKET", 0, q)
    BY <1>1, <1>3, ContractSubmit DEF OrderTypes
  <2>2. side \in {"BUY", "SELL"}
    BY DEF Sides
  <2> QED BY <2>1, <2>2 DEF Contract!PTNext
<1>4. ASSUME NEW id \in 1..count, CancelOrder(id) PROVE Contract!PTNext
  BY <1>4, ContractCancel DEF Contract!PTNext
<1>5. CASE UNCHANGED vars
  <2>1. book' = book /\ trades' = trades /\ request' = request /\ count' = count
    BY <1>5 DEF vars
  <2>2. RestingOrders' = RestingOrders /\ TradeSet' = TradeSet
    BY <2>1, MappingIs
  <2> QED BY <2>1, <2>2 DEF Contract!ptVars
<1> QED BY <1>2, <1>3, <1>4, <1>5 DEF Next

(* The match, rest and cancel loops of the golden model implement the      *)
(* closed-form price-time contract, whatever is submitted and cancelled.   *)
THEOREM BookImplementsPriceTime == Spec => ImplementsPriceTime
BY BookAlways, ContractInit, ContractNext, PTL DEF Spec, ImplementsPriceTime, Contract!PTSpec


-----------------------------------------------------------------------------
(* Part 2: the stream that arrives, its replay and the tolerance.          *)

(* Sequences of anything.                                                  *)
Sequence(s) == \E S : s \in Seq(S)

(* What a sequence is, place by place.                                     *)
LEMMA SequenceIs ==
    ASSUME NEW s, Sequence(s)
    PROVE  Len(s) \in Nat /\ DOMAIN s = 1..Len(s)
BY LenProperties DEF Sequence

(* Sequences with the same elements are the same.                          *)
LEMMA SequencesEqual ==
    ASSUME NEW s, Sequence(s), NEW t, Sequence(t), Len(s) = Len(t),
           \A i \in 1..Len(s) : s[i] = t[i]
    PROVE  s = t
<1>1. PICK S : s \in Seq(S)
  BY DEF Sequence
<1>2. PICK T : t \in Seq(T)
  BY DEF Sequence
<1>3. s \in Seq(S \cup T) /\ t \in Seq(S \cup T)
  BY <1>1, <1>2, SeqMonotonic
<1> QED BY <1>3, SeqEqual

(* A function on the first n numbers is a sequence.                        *)
LEMMA FunctionSequence ==
    ASSUME NEW n \in Nat, NEW s, s = [i \in 1..n |-> s[i]]
    PROVE  Sequence(s) /\ Len(s) = n
<1>1. s \in [1..n -> {s[i] : i \in 1..n}]
  OBVIOUS
<1>2. s \in Seq({s[i] : i \in 1..n})
  BY <1>1, SeqDef
<1>3. DOMAIN s = 1..n
  OBVIOUS
<1>4. Len(s) = n
  BY <1>2, <1>3, LenProperties
<1> QED BY <1>2, <1>4 DEF Sequence

(* One more element at the end.                                            *)
LEMMA AppendIs ==
    ASSUME NEW s, Sequence(s), NEW e, NEW a, a = Append(s, e)
    PROVE  /\ Sequence(a) /\ Len(a) = Len(s) + 1 /\ a[Len(s) + 1] = e
           /\ \A i \in 1..Len(s) : a[i] = s[i]
<1>1. PICK S : s \in Seq(S)
  BY DEF Sequence
<1>2. s \in Seq(S \cup {e})
  BY <1>1, SeqMonotonic
<1> QED BY <1>2, AppendProperties DEF Sequence

(* c is s, and then t.                                                      *)
Joins(c, s, t) ==
    /\ Sequence(c) /\ Len(c) = Len(s) + Len(t)
    /\ \A i \in 1..Len(s) : c[i] = s[i]
    /\ \A i \in 1..Len(t) : c[Len(s) + i] = t[i]
(* What concatenation gives.                                               *)
LEMMA ConcatIs ==
    ASSUME NEW s, Sequence(s), NEW t, Sequence(t), NEW c, c = s \o t
    PROVE  Joins(c, s, t)
<1>1. PICK S : s \in Seq(S)
  BY DEF Sequence
<1>2. PICK T : t \in Seq(T)
  BY DEF Sequence
<1>3. s \in Seq(S \cup T) /\ t \in Seq(S \cup T)
  BY <1>1, <1>2, SeqMonotonic
<1>4. /\ c \in Seq(S \cup T) /\ Len(c) = Len(s) + Len(t)
      /\ \A i \in 1..(Len(s) + Len(t)) : c[i] = IF i <= Len(s) THEN s[i] ELSE t[i - Len(s)]
  BY <1>3, ConcatProperties
<1>5. Len(s) \in Nat /\ Len(t) \in Nat
  BY <1>3, LenProperties
<1>6. ASSUME NEW i \in 1..Len(t) PROVE c[Len(s) + i] = t[i]
  <2>1. Len(s) + i \in 1..(Len(s) + Len(t)) /\ ~(Len(s) + i <= Len(s)) /\ (Len(s) + i) - Len(s) = i
    BY <1>5
  <2> QED BY <1>4, <2>1
<1>7. \A i \in 1..Len(s) : c[i] = s[i]
  BY <1>4, <1>5
<1>8. Sequence(c)
  BY <1>4 DEF Sequence
<1> QED BY <1>4, <1>6, <1>7, <1>8 DEF Joins

-----------------------------------------------------------------------------
(* The order in which BySeq puts the events of some places.                *)
Precedes(events, j, i) ==
    \/ events[j].seq < events[i].seq
    \/ events[j].seq = events[i].seq /\ j <= i

(* The places up to i, and the rank this gives i.                          *)
UpTo(events, P, i) == {j \in P : Precedes(events, j, i)}
Placed(events, P) == P \subseteq Nat /\ IsFiniteSet(P) /\ \A i \in P : events[i].seq \in Nat
Numbering(rank, P) ==
    /\ rank \in [P -> 1..Cardinality(P)]
    /\ \A i, j \in P : rank[i] = rank[j] => i = j
    /\ \A k \in 1..Cardinality(P) : \E i \in P : rank[i] = k
RankOf(events, P) == [i \in P |-> Cardinality(UpTo(events, P, i))]

(* Ranks number the places from 1, each once.                              *)
LEMMA RanksNumber ==
    ASSUME NEW events, NEW P, Placed(events, P),
           NEW rank, rank = RankOf(events, P)
    PROVE  Numbering(rank, P)
<1> USE DEF Placed, Numbering
<1> DEFINE n == Cardinality(P)
           U(i) == UpTo(events, P, i)
<1>0. n \in Nat
  BY FS_CardinalityType
<1>1. \A i \in P : /\ U(i) \subseteq P /\ i \in U(i) /\ IsFiniteSet(U(i)) /\ Cardinality(U(i)) \in Nat
                   /\ rank[i] = Cardinality(U(i))
  <2> TAKE i \in P
  <2>1. U(i) \subseteq P /\ i \in U(i)
    BY DEF UpTo, Precedes
  <2> QED BY <2>1, FS_Subset, FS_CardinalityType DEF RankOf
<1>2. \A i \in P : rank[i] \in 1..n
  <2> TAKE i \in P
  <2>1. Cardinality(U(i)) <= n /\ Cardinality(U(i)) # 0
    BY <1>1, FS_Subset, FS_EmptySet
  <2> QED BY <1>0, <1>1, <2>1
<1>3. ASSUME NEW i \in P, NEW j \in P, i # j, Precedes(events, j, i) PROVE rank[j] # rank[i]
  <2>0. ASSUME NEW k \in P, Precedes(events, k, j) PROVE Precedes(events, k, i) /\ k # i
    <3>1. /\ events[i].seq \in Nat /\ events[j].seq \in Nat /\ events[k].seq \in Nat
          /\ i \in Nat /\ j \in Nat /\ k \in Nat
      OBVIOUS
    <3> QED BY <1>3, <2>0, <3>1 DEF Precedes
  <2>1. U(j) \subseteq U(i) /\ i \notin U(j)
    BY <2>0 DEF UpTo
  <2>2. U(j) # U(i)
    BY <1>1, <2>1
  <2>3. Cardinality(U(j)) # Cardinality(U(i))
    BY <1>1, <2>1, <2>2, FS_Subset
  <2> QED BY <1>1, <2>3
<1>4. \A i, j \in P : Precedes(events, j, i) \/ Precedes(events, i, j)
  BY DEF Precedes
<1>5. \A i, j \in P : rank[i] = rank[j] => i = j
  BY <1>3, <1>4
<1>6. rank \in [P -> 1..n]
  BY <1>2 DEF RankOf
<1>7. rank \in Injection(P, 1..n)
  BY <1>5, <1>6 DEF Injection, IsInjective
<1>8. rank \in Surjection(P, 1..n)
  <2>1. IsFiniteSet(1..n) /\ Cardinality(1..n) = n
    BY <1>0, FS_Interval
  <2> QED BY <1>7, <2>1, FS_Injection
<1> QED BY <1>5, <1>6, <1>8 DEF Surjection

(* BySeq lists the events of the places, each at its rank.                 *)
LEMMA BySeqIs ==
    ASSUME NEW events, NEW P, Placed(events, P),
           NEW rank, rank = RankOf(events, P),
           NEW s, s = BySeq(events, P)
    PROVE  /\ Sequence(s) /\ Len(s) = Cardinality(P) /\ Numbering(rank, P)
           /\ \A i \in P : s[rank[i]] = events[i]
<1>1. Numbering(rank, P)
  BY RanksNumber
<1> USE DEF Placed, Numbering
<1> DEFINE n == Cardinality(P)
           ranked == {[of |-> i, rank |-> rank[i]] : i \in P}
<1>2. n \in Nat
  BY FS_CardinalityType
<1>3. s = [k \in 1..n |-> events[(CHOOSE r \in ranked : r.rank = k).of]]
  <2>1. ranked = {[of |-> i, rank |-> Cardinality({j \in P : Precedes(events, j, i)})] : i \in P}
    BY DEF RankOf, UpTo
  <2> HIDE DEF ranked
  <2> QED BY <2>1 DEF BySeq, Precedes
<1>4. \A i \in P : s[rank[i]] = events[i]
  <2> TAKE i \in P
  <2>1. rank[i] \in 1..n
    BY <1>1
  <2>2. \A r \in ranked : r.rank = rank[i] <=> r = [of |-> i, rank |-> rank[i]]
    BY <1>1
  <2>3. (CHOOSE r \in ranked : r.rank = rank[i]) = [of |-> i, rank |-> rank[i]]
    BY <2>2
  <2> HIDE DEF ranked
  <2> QED BY <1>3, <2>1, <2>3
<1>5. Sequence(s) /\ Len(s) = n
  BY <1>2, <1>3, FunctionSequence
<1> QED BY <1>1, <1>4, <1>5

(* The seqs of some events, and the places of the first event of each.     *)
SeqsOf(events) == {events[i].seq : i \in DOMAIN events}
Fresh(events) ==
    {i \in DOMAIN events :
        \/ events[i].seq = 0
        \/ \A j \in 1..(i - 1) : events[j].seq # events[i].seq}

(* Records as they are sent: the k-th one has seq k.                       *)
Numbered(sent) == Sequence(sent) /\ \A k \in 1..Len(sent) : sent[k].seq = k

(* What arrives of them is some of them, in whatever order.                *)
Arrived(d, sent) ==
    /\ Sequence(d) /\ Numbered(sent)
    /\ \A i \in 1..Len(d) : \E k \in 1..Len(sent) : d[i] = sent[k]

(* An arrived event has the seq it was sent with.                          *)
LEMMA ArrivedSeqs ==
    ASSUME NEW d, NEW sent, Arrived(d, sent)
    PROVE  /\ Len(d) \in Nat /\ DOMAIN d = 1..Len(d) /\ Len(sent) \in Nat
           /\ \A i \in 1..Len(d) : d[i].seq \in 1..Len(sent) /\ d[i] = sent[d[i].seq]
           /\ SeqsOf(d) \subseteq 1..Len(sent)
<1>1. Len(d) \in Nat /\ DOMAIN d = 1..Len(d) /\ Len(sent) \in Nat
  BY SequenceIs DEF Arrived, Numbered
<1>2. \A i \in 1..Len(d) : d[i].seq \in 1..Len(sent) /\ d[i] = sent[d[i].seq]
  BY DEF Arrived, Numbered
<1> QED BY <1>1, <1>2 DEF SeqsOf

(* F holds one place of each seq.                                          *)
OnePerSeq(d, F) ==
    /\ Placed(d, F) /\ F \subseteq 1..Len(d)
    /\ \A i, j \in F : d[i].seq = d[j].seq => i = j
    /\ \A v \in SeqsOf(d) : \E i \in F : d[i].seq = v

(* The first arrival of every seq is fresh, and no other.                  *)
LEMMA FreshIs ==
    ASSUME NEW d, NEW sent, Arrived(d, sent), NEW F, F = Fresh(d)
    PROVE  OnePerSeq(d, F)
<1>1. /\ Len(d) \in Nat /\ DOMAIN d = 1..Len(d) /\ Len(sent) \in Nat
      /\ \A i \in 1..Len(d) : d[i].seq \in 1..Len(sent)
  BY ArrivedSeqs
<1>2. F = {i \in 1..Len(d) : \A j \in 1..(i - 1) : d[j].seq # d[i].seq}
  <2>1. \A i \in 1..Len(d) : d[i].seq # 0
    BY <1>1
  <2> QED BY <1>1, <2>1 DEF Fresh
<1>3. Placed(d, F) /\ F \subseteq 1..Len(d)
  <2>1. F \subseteq 1..Len(d) /\ IsFiniteSet(1..Len(d))
    BY <1>1, <1>2, FS_Interval
  <2>2. IsFiniteSet(F)
    BY <2>1, FS_Subset
  <2>3. \A i \in F : i \in Nat /\ d[i].seq \in Nat
    BY <1>1, <2>1
  <2> QED BY <2>1, <2>2, <2>3 DEF Placed
<1>4. ASSUME NEW i \in F, NEW j \in F, d[i].seq = d[j].seq, i < j PROVE FALSE
  <2>1. i \in 1..(j - 1)
    BY <1>1, <1>2, <1>4
  <2> QED BY <1>2, <1>4, <2>1
<1>5. \A i, j \in F : d[i].seq = d[j].seq => i = j
  <2>1. \A i, j \in F : i < j \/ j < i \/ i = j
    BY <1>3, <1>1
  <2> QED BY <1>4, <2>1
<1>6. ASSUME NEW v \in SeqsOf(d) PROVE \E i \in F : d[i].seq = v
  <2> DEFINE S == {i \in 1..Len(d) : d[i].seq = v}
  <2>1. S # {} /\ S \in SUBSET Nat
    BY <1>1 DEF SeqsOf
  <2>2. PICK i \in S : \A j \in S : i <= j
    BY <2>1, LeastNat
  <2>3. i \in 1..Len(d) /\ d[i].seq = v
    BY <2>2
  <2>4. ASSUME NEW j \in 1..(i - 1) PROVE d[j].seq # d[i].seq
    <3>1. j \in 1..Len(d) /\ ~(i <= j)
      BY <1>1, <2>3
    <3> QED BY <2>2, <2>3, <3>1
  <2>5. i \in F
    BY <1>2, <2>3, <2>4
  <2> QED BY <2>3, <2>5
<1> QED BY <1>3, <1>5, <1>6 DEF OnePerSeq

(* The stream that is replayed has the events that arrived, each once.     *)
LEMMA StreamIs ==
    ASSUME NEW d, NEW sent, Arrived(d, sent), NEW s, s = InSeqOrder(d)
    PROVE  /\ Sequence(s)
           /\ \A k \in 1..Len(s) : \E i \in 1..Len(d) : s[k] = d[i]
           /\ \A k, l \in 1..Len(s) : s[k].seq = s[l].seq => k = l
           /\ SeqsOf(s) = SeqsOf(d)
<1>1. PICK F : F = Fresh(d)
  OBVIOUS
<1>2. PICK rank : rank = RankOf(d, F)
  OBVIOUS
<1>3. s = BySeq(d, F)
  BY <1>1, Zenon DEF InSeqOrder, Fresh
<1>4. /\ Placed(d, F) /\ F \subseteq 1..Len(d)
      /\ \A i, j \in F : d[i].seq = d[j].seq => i = j
      /\ \A v \in SeqsOf(d) : \E i \in F : d[i].seq = v
  BY <1>1, FreshIs DEF OnePerSeq
<1>5. /\ Sequence(s) /\ Len(s) = Cardinality(F) /\ Numbering(rank, F)
      /\ \A i \in F : s[rank[i]] = d[i]
  BY <1>2, <1>3, <1>4, BySeqIs
<1>6. \A k \in 1..Len(s) : \E i \in F : rank[i] = k /\ s[k] = d[i]
  BY <1>5 DEF Numbering
<1>7. \A i \in F : rank[i] \in 1..Len(s)
  BY <1>5 DEF Numbering
<1>8. \A k, l \in 1..Len(s) : s[k].seq = s[l].seq => k = l
  BY <1>4, <1>6
<1>9. SeqsOf(s) = SeqsOf(d)
  <2>1. DOMAIN s = 1..Len(s) /\ DOMAIN d = 1..Len(d)
    BY <1>5, SequenceIs, ArrivedSeqs
  <2>2. \A v \in SeqsOf(s) : v \in SeqsOf(d)
    BY <1>4, <1>6, <2>1 DEF SeqsOf
  <2>3. ASSUME NEW v \in SeqsOf(d) PROVE v \in SeqsOf(s)
    <3>1. PICK i \in F : d[i].seq = v
      BY <1>4
    <3>2. rank[i] \in DOMAIN s /\ s[rank[i]].seq = v
      BY <1>5, <1>7, <2>1, <3>1
    <3> QED BY <3>2 DEF SeqsOf
  <2> QED BY <2>2, <2>3
<1> QED BY <1>4, <1>5, <1>6, <1>8, <1>9

(* When every record arrives, in any order and however often, the stream   *)
(* is what was sent.                                                       *)
LEMMA WholeStream ==
    ASSUME NEW d, NEW sent, Arrived(d, sent), SeqsOf(d) = 1..Len(sent)
    PROVE  InSeqOrder(d) = sent
<1>1. PICK F : F = Fresh(d)
  OBVIOUS
<1>2. PICK rank : rank = RankOf(d, F)
  OBVIOUS
<1>3. PICK s : s = InSeqOrder(d)
  OBVIOUS
<1>4. s = BySeq(d, F)
  BY <1>1, <1>3, Zenon DEF InSeqOrder, Fresh
<1>5. /\ Placed(d, F) /\ F \subseteq 1..Len(d)
      /\ \A i, j \in F : d[i].seq = d[j].seq => i = j
      /\ \A v \in 1..Len(sent) : \E i \in F : d[i].seq = v
  <2>1. OnePerSeq(d, F)
    BY <1>1, FreshIs
  <2> QED BY <2>1 DEF OnePerSeq
<1>6. /\ Sequence(s) /\ Len(s) = Cardinality(F) /\ Numbering(rank, F)
      /\ \A i \in F : s[rank[i]] = d[i]
  BY <1>2, <1>4, <1>5, BySeqIs
<1>7. /\ Len(sent) \in Nat
      /\ \A i \in F : d[i].seq \in 1..Len(sent) /\ d[i] = sent[d[i].seq]
  BY <1>5, ArrivedSeqs
<1>8. ASSUME NEW T, T \subseteq F, NEW v \in Nat, v <= Len(sent),
             T = {j \in F : d[j].seq <= v}
      PROVE  Cardinality(T) = v
  <2> DEFINE f == [j \in T |-> d[j].seq]
  <2>1. f \in Bijection(T, 1..v)
    <3>1. f \in [T -> 1..v]
      BY <1>7, <1>8
    <3>2. \A i, j \in T : f[i] = f[j] => i = j
      BY <1>5, <1>8
    <3>3. \A w \in 1..v : \E j \in T : f[j] = w
      <4> TAKE w \in 1..v
      <4>1. w \in 1..Len(sent) /\ w <= v
        BY <1>7, <1>8
      <4>2. PICK j \in F : d[j].seq = w
        BY <1>5, <4>1
      <4> QED BY <1>8, <4>1, <4>2
    <3> HIDE DEF f
    <3> QED BY <3>1, <3>2, <3>3 DEF Bijection, Injection, Surjection, IsInjective
  <2>2. IsFiniteSet(T)
    BY <1>5, <1>8, FS_Subset DEF Placed
  <2>3. ExistsBijection(T, 1..v)
    BY <2>1 DEF ExistsBijection
  <2>4. Cardinality(1..v) = v
    BY <1>8, FS_Interval
  <2> QED BY <2>2, <2>3, <2>4, FS_Bijection
<1>9. ASSUME NEW i \in F PROVE rank[i] = d[i].seq
  <2>1. \A j \in F : Precedes(d, j, i) <=> d[j].seq <= d[i].seq
    <3> TAKE j \in F
    <3>1. d[i].seq \in Nat /\ d[j].seq \in Nat /\ i \in Nat /\ j \in Nat
      BY <1>5 DEF Placed
    <3> QED BY <1>5, <3>1 DEF Precedes
  <2>2. UpTo(d, F, i) = {j \in F : d[j].seq <= d[i].seq}
    BY <2>1 DEF UpTo
  <2>3. d[i].seq \in Nat /\ d[i].seq <= Len(sent)
    BY <1>7
  <2>4. Cardinality(UpTo(d, F, i)) = d[i].seq
    BY <1>8, <2>2, <2>3
  <2> QED BY <1>2, <2>4 DEF RankOf
<1>10. Len(s) = Len(sent)
  <2>1. F = {j \in F : d[j].seq <= Len(sent)}
    BY <1>7
  <2> QED BY <1>6, <1>7, <1>8, <2>1
<1>11. ASSUME NEW k \in 1..Len(s) PROVE s[k] = sent[k]
  <2>1. PICK i \in F : rank[i] = k
    BY <1>6 DEF Numbering
  <2> QED BY <1>6, <1>7, <1>9, <2>1
<1>12. Sequence(sent)
  BY DEF Arrived, Numbered
<1> QED BY <1>3, <1>6, <1>10, <1>11, <1>12, SequencesEqual

(* The replay loop's recursion, as the function it defines.                *)
ReplayIs(f, D, stream) ==
    f = [n \in D |-> IF n = 0 THEN ReplayStart ELSE ReplayEvent(f[n - 1], stream[n])]

(* The replay starts at its start and goes on event by event.              *)
LEMMA ReplayExists ==
    ASSUME NEW stream, NEW len \in Nat, Len(stream) = len,
           NEW loop, loop = ReplayLoop(stream)
    PROVE  /\ loop[0] = ReplayStart
           /\ \A n \in 0..(len - 1) : loop[n + 1] = ReplayEvent(loop[n], stream[n + 1])
<1> DEFINE step(m, n) == ReplayEvent(m, stream[n])
           Is(f, k) == ReplayIs(f, 0..k, stream)
           T == {k \in Nat : \E f : Is(f, k)}
<1>1. loop = CHOOSE f : Is(f, len)
  BY DEF ReplayLoop, ReplayIs
<1>2. \A f, k : Is(f, k) <=> f = [n \in 0..k |-> IF n = 0 THEN ReplayStart ELSE step(f[n - 1], n)]
  BY DEF ReplayIs
<1> HIDE DEF Is, step
<1>3. 0 \in T
  <2> DEFINE f == [n \in 0..0 |-> ReplayStart]
  <2>1. f = [n \in 0..0 |-> IF n = 0 THEN ReplayStart ELSE step(f[n - 1], n)]
    <3>1. \A n \in 0..0 : n = 0
      OBVIOUS
    <3> QED BY <3>1
  <2> HIDE DEF f
  <2> QED BY <1>2, <2>1
<1>4. ASSUME NEW k \in Nat, k \in T PROVE k + 1 \in T
  <2>1. PICK f : f = [n \in 0..k |-> IF n = 0 THEN ReplayStart ELSE step(f[n - 1], n)]
    BY <1>2, <1>4
  <2> DEFINE g == [n \in 0..(k + 1) |-> IF n = 0 THEN ReplayStart ELSE step(f[n - 1], n)]
  <2>2. \A n \in 0..k : n \in 0..(k + 1) /\ g[n] = f[n]
    BY <2>1
  <2>3. \A n \in 0..(k + 1) : n # 0 => g[n - 1] = f[n - 1]
    <3> TAKE n \in 0..(k + 1)
    <3>1. n # 0 => n - 1 \in 0..k
      OBVIOUS
    <3> HIDE DEF g
    <3> QED BY <2>2, <3>1
  <2>4. g = [n \in 0..(k + 1) |-> IF n = 0 THEN ReplayStart ELSE step(g[n - 1], n)]
    BY <2>3
  <2> HIDE DEF g
  <2>5. Is(g, k + 1) /\ k + 1 \in Nat
    BY <1>2, <2>4
  <2> QED BY <2>5
<1>5. len \in T
  <2> HIDE DEF T
  <2> QED BY <1>3, <1>4, SetInduction
<1>6. loop = [n \in 0..len |-> IF n = 0 THEN ReplayStart ELSE step(loop[n - 1], n)]
  <2>1. Is(loop, len)
    BY <1>1, <1>5
  <2> QED BY <1>2, <2>1
<1>7. ASSUME NEW n \in 0..(len - 1) PROVE loop[n + 1] = step(loop[n], n + 1)
  <2>1. n + 1 \in 0..len /\ n + 1 # 0 /\ (n + 1) - 1 = n
    OBVIOUS
  <2> QED BY <1>6, <2>1
<1>8. loop[0] = ReplayStart
  BY <1>6
<1> QED BY <1>7, <1>8 DEF step

(* The replay of one more event.                                           *)
LEMMA ReplayOneMore ==
    ASSUME NEW stream, Sequence(stream), NEW ev
    PROVE  Replayed(Append(stream, ev)) = ReplayEvent(Replayed(stream), ev)
<1>1. PICK more : more = Append(stream, ev)
  OBVIOUS
<1>2. /\ Len(more) = Len(stream) + 1 /\ more[Len(stream) + 1] = ev
      /\ \A i \in 1..Len(stream) : more[i] = stream[i]
  BY <1>1, AppendIs
<1>3. PICK len \in Nat : len = Len(stream)
  BY SequenceIs
<1>4. PICK before : before = ReplayLoop(stream)
  OBVIOUS
<1>5. PICK after : after = ReplayLoop(more)
  OBVIOUS
<1>6. /\ before[0] = ReplayStart
      /\ \A n \in 0..(len - 1) : before[n + 1] = ReplayEvent(before[n], stream[n + 1])
  BY <1>3, <1>4, ReplayExists
<1>7. /\ after[0] = ReplayStart
      /\ \A n \in 0..len : after[n + 1] = ReplayEvent(after[n], more[n + 1])
  <2>1. Len(more) = len + 1 /\ len + 1 \in Nat /\ (len + 1) - 1 = len
    BY <1>2, <1>3
  <2> QED BY <1>5, <2>1, ReplayExists
<1> DEFINE T == {n \in Nat : n <= len => after[n] = before[n]}
<1>8. 0 \in T
  BY <1>6, <1>7
<1>9. ASSUME NEW n \in Nat, n \in T PROVE n + 1 \in T
  <2> SUFFICES ASSUME n + 1 <= len PROVE after[n + 1] = before[n + 1]
    OBVIOUS
  <2>1. n \in 0..(len - 1) /\ n \in 0..len /\ n + 1 \in 1..Len(stream)
    BY <1>3
  <2>2. more[n + 1] = stream[n + 1] /\ after[n] = before[n]
    BY <1>2, <1>9, <2>1
  <2> QED BY <1>6, <1>7, <2>1, <2>2
<1>10. len \in T
  <2> HIDE DEF T
  <2> QED BY <1>8, <1>9, SetInduction
<1>11. after[len + 1] = ReplayEvent(before[len], ev)
  BY <1>2, <1>3, <1>7, <1>10
<1> QED BY <1>1, <1>2, <1>3, <1>4, <1>5, <1>11 DEF Replayed

(* The replay of nothing.                                                  *)
LEMMA ReplayNothing == Replayed(<<>>) = ReplayStart
<1>1. Len(<<>>) = 0 /\ 0 \in Nat
  OBVIOUS
<1>2. PICK loop : loop = ReplayLoop(<<>>)
  OBVIOUS
<1>3. loop[0] = ReplayStart
  BY <1>1, <1>2, ReplayExists
<1> QED BY <1>1, <1>2, <1>3 DEF Replayed

(* The diff loop's recursion, as the function it defines.                  *)
DiffStart(st) == [taint |-> st.taint, hard |-> FALSE, mismatch |-> 0, fills |-> 0]
DiffIs(f, D, st, tainted) ==
    f = [n \in D |-> IF n = 0 THEN DiffStart(st)
                     ELSE DiffOne(f[n - 1], st.aggressors[n], st.observed, tainted)]

(* The diff loop starts at its start and goes on aggressor by aggressor.   *)
LEMMA DiffExists ==
    ASSUME NEW st, NEW tainted, NEW len \in Nat, Len(st.aggressors) = len,
           NEW loop, loop = DiffLoop(st, tainted)
    PROVE  /\ loop[0] = DiffStart(st)
           /\ \A n \in 0..(len - 1) :
                loop[n + 1] = DiffOne(loop[n], st.aggressors[n + 1], st.observed, tainted)
<1> DEFINE step(m, n) == DiffOne(m, st.aggressors[n], st.observed, tainted)
           start == DiffStart(st)
           Is(f, k) == DiffIs(f, 0..k, st, tainted)
           T == {k \in Nat : \E f : Is(f, k)}
<1>1. loop = CHOOSE f : Is(f, len)
  BY DEF DiffLoop, DiffIs, DiffStart
<1>2. \A f, k : Is(f, k) <=> f = [n \in 0..k |-> IF n = 0 THEN start ELSE step(f[n - 1], n)]
  BY DEF DiffIs
<1> HIDE DEF Is, step, start
<1>3. 0 \in T
  <2> DEFINE f == [n \in 0..0 |-> start]
  <2>1. f = [n \in 0..0 |-> IF n = 0 THEN start ELSE step(f[n - 1], n)]
    <3>1. \A n \in 0..0 : n = 0
      OBVIOUS
    <3> QED BY <3>1
  <2> HIDE DEF f
  <2> QED BY <1>2, <2>1
<1>4. ASSUME NEW k \in Nat, k \in T PROVE k + 1 \in T
  <2>1. PICK f : f = [n \in 0..k |-> IF n = 0 THEN start ELSE step(f[n - 1], n)]
    BY <1>2, <1>4
  <2> DEFINE g == [n \in 0..(k + 1) |-> IF n = 0 THEN start ELSE step(f[n - 1], n)]
  <2>2. \A n \in 0..k : n \in 0..(k + 1) /\ g[n] = f[n]
    BY <2>1
  <2>3. \A n \in 0..(k + 1) : n # 0 => g[n - 1] = f[n - 1]
    <3> TAKE n \in 0..(k + 1)
    <3>1. n # 0 => n - 1 \in 0..k
      OBVIOUS
    <3> HIDE DEF g
    <3> QED BY <2>2, <3>1
  <2>4. g = [n \in 0..(k + 1) |-> IF n = 0 THEN start ELSE step(g[n - 1], n)]
    BY <2>3
  <2> HIDE DEF g
  <2>5. Is(g, k + 1) /\ k + 1 \in Nat
    BY <1>2, <2>4
  <2> QED BY <2>5
<1>5. len \in T
  <2> HIDE DEF T
  <2> QED BY <1>3, <1>4, SetInduction
<1>6. loop = [n \in 0..len |-> IF n = 0 THEN start ELSE step(loop[n - 1], n)]
  <2>1. Is(loop, len)
    BY <1>1, <1>5
  <2> QED BY <1>2, <2>1
<1>7. ASSUME NEW n \in 0..(len - 1) PROVE loop[n + 1] = step(loop[n], n + 1)
  <2>1. n + 1 \in 0..len /\ n + 1 # 0 /\ (n + 1) - 1 = n
    OBVIOUS
  <2> QED BY <1>6, <2>1
<1>8. loop[0] = start
  BY <1>6
<1> QED BY <1>7, <1>8 DEF step, start

(* A record the bot can make, and whether it is of an attempt.             *)
Recorded(ev) ==
    /\ ev.action \in {"BUY", "SELL", "CANCEL", "FILL", "END"}
    /\ ev.outcome \in {"OK", "REJECTED", "UNKNOWN"}
    /\ ev.action \in {"FILL", "END"} => ev.outcome = "OK"

(* The records that count as attempts.                                     *)
Attempt(ev) == ev.action \notin {"FILL", "END"}

ReplayFields(st) ==
    DOMAIN st = {"books", "owner", "taint", "aggressors", "observed", "attempts", "unknown"}

(* What each event adds to the counts.                                     *)
LEMMA EventCounts ==
    ASSUME NEW st, ReplayFields(st), NEW ev, Recorded(ev), NEW f, f = ReplayEvent(st, ev)
    PROVE  /\ ReplayFields(f)
           /\ f.attempts = IF Attempt(ev) THEN st.attempts + 1 ELSE st.attempts
           /\ f.unknown = IF ev.outcome = "UNKNOWN" THEN st.unknown + 1 ELSE st.unknown
<1> USE DEF ReplayFields, Attempt
<1>1. CASE ev.action = "END"
  BY <1>1 DEF ReplayEvent, Recorded, Sides
<1>2. CASE ev.action # "END" /\ ev.outcome = "UNKNOWN"
  <2>1. f = ReplayUnknown(st, ev)
    BY <1>2 DEF ReplayEvent, Recorded, Sides
  <2> QED BY <1>2, <2>1 DEF ReplayUnknown, Recorded
<1>3. CASE ev.action # "END" /\ ev.outcome = "REJECTED"
  <2>1. f = [st EXCEPT !.attempts = @ + 1]
    BY <1>3 DEF ReplayEvent, Recorded, Sides
  <2> QED BY <1>3, <2>1 DEF Recorded
<1>4. CASE ev.action \in Sides /\ ev.outcome = "OK"
  <2>1. f = ReplayOrder(st, ev)
    BY <1>4 DEF ReplayEvent, Sides
  <2> QED BY <1>4, <2>1 DEF ReplayOrder, Sides
<1>5. CASE ev.action = "CANCEL" /\ ev.outcome = "OK"
  <2>1. f = ReplayCancel(st, ev)
    BY <1>5 DEF ReplayEvent, Sides
  <2> QED BY <1>5, <2>1 DEF ReplayCancel
<1>6. CASE ev.action = "FILL"
  <2>1. f = ReplayFill(st, ev) /\ ev.outcome = "OK"
    BY <1>6 DEF ReplayEvent, Sides, Recorded
  <2> QED BY <1>6, <2>1 DEF ReplayFill
<1> QED BY <1>1, <1>2, <1>3, <1>4, <1>5, <1>6 DEF Recorded, Sides

(* One more place to count.                                                *)
LEMMA CountOneMore ==
    ASSUME NEW S, NEW n \in Nat
    PROVE  /\ Cardinality(S \cap 1..n) \in Nat
           /\ Cardinality(S \cap 1..(n + 1))
                = IF n + 1 \in S THEN Cardinality(S \cap 1..n) + 1 ELSE Cardinality(S \cap 1..n)
<1>1. IsFiniteSet(S \cap 1..n) /\ Cardinality(S \cap 1..n) \in Nat
  <2>1. IsFiniteSet(1..n)
    BY FS_Interval
  <2>2. IsFiniteSet(S \cap 1..n)
    BY <2>1, FS_Intersection
  <2> QED BY <2>2, FS_CardinalityType
<1>2. 1..(n + 1) = 1..n \cup {n + 1} /\ n + 1 \notin 1..n
  OBVIOUS
<1>3. CASE n + 1 \in S
  <2>1. S \cap 1..(n + 1) = (S \cap 1..n) \cup {n + 1} /\ n + 1 \notin S \cap 1..n
    BY <1>2, <1>3
  <2> QED BY <1>1, <1>3, <2>1, FS_AddElement
<1>4. CASE n + 1 \notin S
  <2>1. S \cap 1..(n + 1) = S \cap 1..n
    BY <1>2, <1>4
  <2> QED BY <1>1, <1>4, <2>1
<1> QED BY <1>3, <1>4

(* The places of the attempts, and of those without an answer.             *)
AttemptsIn(s) == {k \in 1..Len(s) : Attempt(s[k])}
UnknownsIn(s) == {k \in 1..Len(s) : s[k].outcome = "UNKNOWN"}

(* The replay counts the attempts and the unknown outcomes of its stream.  *)
LEMMA ReplayCounts ==
    ASSUME NEW s, Sequence(s), \A k \in 1..Len(s) : Recorded(s[k]),
           NEW st, st = Replayed(s)
    PROVE  /\ ReplayFields(st)
           /\ st.attempts = Cardinality(AttemptsIn(s))
           /\ st.unknown = Cardinality(UnknownsIn(s))
<1> DEFINE A == AttemptsIn(s)
           W == UnknownsIn(s)
<1>1. PICK len \in Nat : len = Len(s)
  BY SequenceIs
<1>2. PICK loop : loop = ReplayLoop(s)
  OBVIOUS
<1>3. /\ loop[0] = ReplayStart
      /\ \A n \in 0..(len - 1) : loop[n + 1] = ReplayEvent(loop[n], s[n + 1])
  BY <1>1, <1>2, ReplayExists
<1> DEFINE Counts(n) == /\ ReplayFields(loop[n])
                        /\ loop[n].attempts = Cardinality(A \cap 1..n)
                        /\ loop[n].unknown = Cardinality(W \cap 1..n)
           T == {n \in Nat : n <= len => Counts(n)}
<1>4. 0 \in T
  <2>1. A \cap 1..0 = {} /\ W \cap 1..0 = {}
    OBVIOUS
  <2>2. Cardinality({}) = 0
    BY FS_EmptySet
  <2>3. ReplayFields(ReplayStart) /\ ReplayStart.attempts = 0 /\ ReplayStart.unknown = 0
    BY DEF ReplayStart, ReplayFields
  <2> HIDE DEF A, W
  <2> QED BY <1>3, <2>1, <2>2, <2>3
<1>5. ASSUME NEW n \in Nat, n \in T PROVE n + 1 \in T
  <2> SUFFICES ASSUME n + 1 <= len PROVE Counts(n + 1)
    OBVIOUS
  <2>1. n \in 0..(len - 1) /\ n + 1 \in 1..len /\ n <= len
    BY <1>1
  <2>2. Counts(n)
    BY <1>5, <2>1
  <2>3. PICK e : e = s[n + 1]
    OBVIOUS
  <2>4. Recorded(e)
    BY <1>1, <2>1, <2>3
  <2>5. PICK before : before = loop[n]
    OBVIOUS
  <2>6. PICK after : after = loop[n + 1]
    OBVIOUS
  <2>7. after = ReplayEvent(before, e)
    BY <1>3, <2>1, <2>3, <2>5, <2>6
  <2>8. /\ ReplayFields(after)
        /\ after.attempts = IF Attempt(e) THEN before.attempts + 1 ELSE before.attempts
        /\ after.unknown = IF e.outcome = "UNKNOWN" THEN before.unknown + 1 ELSE before.unknown
    BY <2>2, <2>4, <2>5, <2>7, EventCounts
  <2>9. (n + 1 \in A <=> Attempt(e)) /\ (n + 1 \in W <=> e.outcome = "UNKNOWN")
    BY <1>1, <2>1, <2>3 DEF AttemptsIn, UnknownsIn
  <2> HIDE DEF A, W
  <2>10. /\ Cardinality(A \cap 1..(n + 1))
              = IF n + 1 \in A THEN Cardinality(A \cap 1..n) + 1 ELSE Cardinality(A \cap 1..n)
         /\ Cardinality(W \cap 1..(n + 1))
              = IF n + 1 \in W THEN Cardinality(W \cap 1..n) + 1 ELSE Cardinality(W \cap 1..n)
    BY CountOneMore
  <2> QED BY <2>2, <2>5, <2>6, <2>8, <2>9, <2>10
<1>6. len \in T
  <2> HIDE DEF T
  <2> QED BY <1>4, <1>5, SetInduction
<1>7. A \cap 1..len = A /\ W \cap 1..len = W
  BY <1>1 DEF AttemptsIn, UnknownsIn
<1>8. st = loop[len]
  BY <1>1, <1>2 DEF Replayed
<1> HIDE DEF A, W
<1>9. Counts(len)
  BY <1>6
<1>10. st.attempts = Cardinality(A) /\ st.unknown = Cardinality(W) /\ ReplayFields(st)
  BY <1>7, <1>8, <1>9
<1> QED BY <1>10 DEF A, W

(* Distinct seqs number no more than the places.                           *)
LEMMA SeqsOfPlaces ==
    ASSUME NEW s, NEW A, IsFiniteSet(A), NEW B, B = {s[k].seq : k \in A}
    PROVE  IsFiniteSet(B) /\ Cardinality(B) <= Cardinality(A)
           /\ Cardinality(A) \in Nat /\ Cardinality(B) \in Nat
<1> DEFINE f == [k \in A |-> s[k].seq]
<1>1. f \in Surjection(A, B)
  BY DEF Surjection
<1> HIDE DEF f
<1> QED BY <1>1, FS_Surjection, FS_CardinalityType

(* As many seqs as places when none is repeated.                           *)
LEMMA DistinctSeqs ==
    ASSUME NEW s, NEW A, IsFiniteSet(A), NEW B, B = {s[k].seq : k \in A},
           \A k, l \in A : s[k].seq = s[l].seq => k = l
    PROVE  IsFiniteSet(B) /\ Cardinality(B) = Cardinality(A)
<1> DEFINE f == [k \in A |-> s[k].seq]
<1>1. f \in Bijection(A, B)
  BY DEF Bijection, Injection, Surjection, IsInjective
<1>2. ExistsBijection(A, B)
  BY <1>1 DEF ExistsBijection
<1> QED BY <1>2, FS_Bijection

(* A run as it is sent: numbered records, the marker last.                 *)
Sent(sent) ==
    /\ Numbered(sent) /\ Len(sent) > 0
    /\ \A k \in 1..Len(sent) : Recorded(sent[k])
    /\ \A k \in 1..Len(sent) : sent[k].action = "END" <=> k = Len(sent)

(* The greatest of the seqs, once the marker has arrived.                  *)
LEMMA GapIs ==
    ASSUME NEW n \in Nat, NEW D, D \subseteq 1..n, n \in D
    PROVE  /\ IsFiniteSet(D) /\ Cardinality(D) \in Nat
           /\ GapOf(D \ {0}) = n - Cardinality(D)
           /\ Cardinality((1..n) \ D) = n - Cardinality(D)
<1>1. IsFiniteSet(1..n) /\ Cardinality(1..n) = n
  BY FS_Interval
<1>2. IsFiniteSet(D) /\ Cardinality(D) \in Nat
  BY <1>1, FS_Subset, FS_CardinalityType
<1>3. D \ {0} = D /\ D # {}
  OBVIOUS
<1>4. Max(D) = n
  <2>1. \A x \in D : (\A y \in D : x >= y) <=> x = n
    OBVIOUS
  <2>2. (CHOOSE x \in D : \A y \in D : x >= y) = n
    BY <2>1
  <2> QED BY <2>2 DEF Max
<1>5. GapOf(D) = n - Cardinality(D)
  BY <1>3, <1>4 DEF GapOf
<1>6. (1..n) \cap D = D
  OBVIOUS
<1>7. Cardinality((1..n) \ D) = n - Cardinality(D)
  BY <1>1, <1>6, FS_Difference
<1> QED BY <1>2, <1>3, <1>5, <1>7

(* What a pass says of the replay.                                         *)
LEMMA PassSays ==
    ASSUME NEW st, NEW gap, JudgeReplay(st, gap) = "correct", st.unknown \in Nat, gap \in Nat
    PROVE  Certifiable(st.unknown + gap, st.attempts)
<1> DEFINE d == DiffAll(st, gap > 0 \/ Orphans(st) > 0)
<1>1. Outcome(st, gap, Orphans(st), d) = "correct"
  BY DEF JudgeReplay, Judge
<1> HIDE DEF d
<1>2. /\ d.mismatch = 0 /\ d.fills = 0 /\ Orphans(st) = 0
      /\ Certifiable(st.unknown + gap + Orphans(st) + d.fills + d.mismatch, st.attempts)
  BY <1>1 DEF Outcome
<1>3. st.unknown + gap + Orphans(st) + d.fills + d.mismatch = st.unknown + gap
  BY <1>2
<1> QED BY <1>2, <1>3

(* The seqs of the unknown attempts and of the records that were lost.     *)
UnknownSeqs(sent) == {sent[k].seq : k \in UnknownsIn(sent)}
LostSeqs(d, sent) == SeqsOf(sent) \ SeqsOf(d)

(* A share of the attempts below the tolerance.                            *)
Tolerable(missing, attempts) ==
    missing = {} \/ Cardinality(missing) * 100 < TolerancePct * Cardinality(attempts)

(* A pass is within the tolerance: what is missing is no more than what    *)
(* the replay counted as unverifiable, and it counted no more attempts     *)
(* than there were.                                                        *)
LEMMA PassCounts ==
    ASSUME NEW d, NEW sent, Sent(sent), Arrived(d, sent), Finalize(d) = "correct",
           TolerancePct \in Nat
    PROVE  /\ \E i \in DOMAIN d : d[i].action = "END"
           /\ Tolerable(UnknownSeqs(sent) \cup LostSeqs(d, sent), AttemptsIn(sent))
<1>1. \E i \in DOMAIN d : d[i].action = "END"
  BY DEF Finalize
<1>2. PICK n \in Nat : n = Len(sent) /\ n > 0
  BY SequenceIs DEF Sent, Numbered
<1>3. PICK s : s = InSeqOrder(d)
  OBVIOUS
<1>4. PICK st : st = Replayed(s)
  OBVIOUS
<1>5. PICK D : D = SeqsOf(d)
  OBVIOUS
<1>6. /\ Len(d) \in Nat /\ DOMAIN d = 1..Len(d) /\ D \subseteq 1..n
      /\ \A i \in 1..Len(d) : d[i].seq \in 1..n /\ d[i] = sent[d[i].seq]
  BY <1>2, <1>5, ArrivedSeqs
<1>7. /\ Sequence(s)
      /\ \A k \in 1..Len(s) : \E i \in 1..Len(d) : s[k] = d[i]
      /\ \A k, l \in 1..Len(s) : s[k].seq = s[l].seq => k = l
      /\ SeqsOf(s) = D
  BY <1>3, <1>5, StreamIs
<1>8. Len(s) \in Nat /\ DOMAIN s = 1..Len(s)
  BY <1>7, SequenceIs
<1>9. \A k \in 1..Len(s) : s[k].seq \in 1..n /\ s[k] = sent[s[k].seq] /\ s[k].seq \in D
  <2>1. \A k \in 1..Len(s) : s[k].seq \in D
    BY <1>7, <1>8 DEF SeqsOf
  <2> QED BY <1>6, <1>7, <2>1
<1>10. n \in D
  <2>1. PICK i \in 1..Len(d) : d[i].action = "END"
    BY <1>1, <1>6
  <2>2. d[i].seq = n
    BY <1>2, <1>6, <2>1 DEF Sent
  <2> QED BY <1>5, <1>6, <2>2 DEF SeqsOf
<1>11. \A k \in 1..Len(s) : Recorded(s[k])
  BY <1>2, <1>9 DEF Sent
<1>12. st.attempts = Cardinality(AttemptsIn(s)) /\ st.unknown = Cardinality(UnknownsIn(s))
  BY <1>4, <1>7, <1>11, ReplayCounts
<1>13. IsFiniteSet(AttemptsIn(s)) /\ IsFiniteSet(UnknownsIn(s)) /\ IsFiniteSet(AttemptsIn(sent))
  <2>1. IsFiniteSet(1..Len(s)) /\ IsFiniteSet(1..Len(sent))
    BY <1>2, <1>8, FS_Interval
  <2>2. /\ AttemptsIn(s) \subseteq 1..Len(s) /\ UnknownsIn(s) \subseteq 1..Len(s)
        /\ AttemptsIn(sent) \subseteq 1..Len(sent)
    BY DEF AttemptsIn, UnknownsIn
  <2> QED BY <2>1, <2>2, FS_Subset
<1>14. PICK gap : gap = n - Cardinality(D)
  OBVIOUS
<1>15. /\ IsFiniteSet(D) /\ Cardinality(D) \in Nat
       /\ GapOf(D \ {0}) = gap /\ Cardinality((1..n) \ D) = gap
  BY <1>6, <1>10, <1>14, GapIs
<1>16. gap \in Nat /\ IsFiniteSet((1..n) \ D)
  <2>1. IsFiniteSet(1..n)
    BY FS_Interval
  <2>2. IsFiniteSet((1..n) \ D)
    BY <2>1, FS_Subset
  <2> QED BY <1>15, <2>2, FS_CardinalityType
<1>17. st.unknown \in Nat /\ st.attempts \in Nat
  BY <1>12, <1>13, FS_CardinalityType
<1>18. Certifiable(st.unknown + gap, st.attempts)
  <2>1. ReplayStream(s) = "correct"
    BY <1>1, <1>3 DEF Finalize, ReplayVerdict
  <2>2. {s[i].seq : i \in DOMAIN s} = D
    BY <1>7 DEF SeqsOf
  <2>3. JudgeReplay(st, gap) = "correct"
    BY <1>4, <1>15, <2>1, <2>2 DEF ReplayStream
  <2> QED BY <1>16, <1>17, <2>3, PassSays
<1>19. Cardinality(AttemptsIn(s)) <= Cardinality(AttemptsIn(sent)) /\ Cardinality(AttemptsIn(sent)) \in Nat
  <2> DEFINE B == {s[k].seq : k \in AttemptsIn(s)}
  <2>1. Cardinality(B) = Cardinality(AttemptsIn(s))
    <3>1. \A k, l \in AttemptsIn(s) : s[k].seq = s[l].seq => k = l
      BY <1>7 DEF AttemptsIn
    <3> QED BY <1>13, <3>1, DistinctSeqs
  <2>2. B \subseteq AttemptsIn(sent)
    BY <1>2, <1>9 DEF AttemptsIn
  <2> HIDE DEF B
  <2> QED BY <1>13, <2>1, <2>2, FS_Subset, FS_CardinalityType
<1>20. PICK X : X = UnknownSeqs(sent) \cup LostSeqs(d, sent)
  OBVIOUS
<1>21. IsFiniteSet(X) /\ Cardinality(X) <= st.unknown + gap /\ Cardinality(X) \in Nat
  <2> DEFINE B == {s[k].seq : k \in UnknownsIn(s)}
             L == (1..n) \ D
  <2>1. IsFiniteSet(B) /\ Cardinality(B) <= st.unknown /\ Cardinality(B) \in Nat
    BY <1>12, <1>13, SeqsOfPlaces
  <2>2. DOMAIN sent = 1..n /\ \A k \in 1..n : sent[k].seq = k
    BY <1>2, SequenceIs DEF Sent, Numbered
  <2>3. LostSeqs(d, sent) = L
    <3>1. SeqsOf(sent) = 1..n
      BY <2>2 DEF SeqsOf
    <3> QED BY <1>5, <3>1 DEF LostSeqs
  <2>4. UnknownSeqs(sent) \subseteq B \cup L
    <3> SUFFICES ASSUME NEW k \in 1..n, sent[k].outcome = "UNKNOWN", k \in D PROVE k \in B
      BY <1>2, <2>2 DEF UnknownSeqs, UnknownsIn
    <3>1. PICK l \in 1..Len(s) : s[l].seq = k
      BY <1>7, <1>8 DEF SeqsOf
    <3>2. l \in UnknownsIn(s)
      BY <1>9, <3>1 DEF UnknownsIn
    <3> QED BY <3>1, <3>2
  <2> HIDE DEF B
  <2>6. X \subseteq B \cup L
    BY <1>20, <2>3, <2>4
  <2>7. IsFiniteSet(L) /\ Cardinality(L) = gap
    BY <1>15, <1>16
  <2> HIDE DEF L
  <2>8. IsFiniteSet(B \cup L) /\ Cardinality(B \cup L) = Cardinality(B) + Cardinality(L) - Cardinality(B \cap L)
    BY <2>1, <2>7, FS_Union
  <2>9. Cardinality(B \cap L) \in Nat /\ Cardinality(B \cup L) \in Nat
    BY <2>1, <2>8, FS_Intersection, FS_CardinalityType
  <2>10. IsFiniteSet(X) /\ Cardinality(X) <= Cardinality(B \cup L)
    BY <2>6, <2>8, FS_Subset
  <2>11. Cardinality(X) \in Nat
    BY <2>10, FS_CardinalityType
  <2>12. Cardinality(X) <= st.unknown + gap
    BY <1>16, <1>17, <2>1, <2>7, <2>8, <2>9, <2>10, <2>11
  <2> QED BY <2>10, <2>11, <2>12
<1>22. CASE st.attempts = 0
  <2>1. st.unknown + gap = 0
    BY <1>18, <1>22 DEF Certifiable
  <2>2. Cardinality(X) = 0
    BY <1>21, <2>1
  <2>3. X = {}
    BY <1>21, <2>2, FS_EmptySet
  <2> QED BY <1>1, <1>20, <2>3 DEF Tolerable
<1>23. CASE st.attempts # 0
  <2>1. PICK a \in Nat : a = st.attempts /\ a > 0
    BY <1>17, <1>23
  <2>2. PICK b \in Nat : b = Cardinality(AttemptsIn(sent)) /\ a <= b
    BY <1>12, <1>19, <2>1
  <2>3. PICK x \in Nat : x = Cardinality(X) /\ x <= st.unknown + gap
    BY <1>21
  <2>4. (st.unknown + gap) * 100 < TolerancePct * a
    BY <1>18, <1>23, <2>1 DEF Certifiable
  <2>5. TolerancePct * a <= TolerancePct * b
    <3>1. \E c \in Nat : b = a + c
      <4>1. b - a \in Nat /\ b = a + (b - a)
        BY <2>1, <2>2
      <4> QED BY <4>1
    <3>2. PICK c \in Nat : b = a + c
      BY <3>1
    <3>3. TolerancePct * b = TolerancePct * a + TolerancePct * c
      BY <3>2
    <3>4. TolerancePct * c \in Nat /\ TolerancePct * a \in Nat
      OBVIOUS
    <3> QED BY <3>3, <3>4
  <2>6. PICK y \in Nat : y = st.unknown + gap
    BY <1>16, <1>17
  <2>7. x * 100 <= y * 100 /\ y * 100 < TolerancePct * a
    BY <2>3, <2>4, <2>6
  <2>8. TolerancePct * a \in Nat /\ TolerancePct * b \in Nat
    OBVIOUS
  <2>9. x * 100 < TolerancePct * b
    BY <2>5, <2>7, <2>8
  <2> QED BY <1>1, <1>20, <2>2, <2>3, <2>9 DEF Tolerable
<1> QED BY <1>22, <1>23

(* The replay of some more events.                                         *)
GoesOn(loop, s, g) ==
    /\ loop[0] = Replayed(s) /\ loop[Len(g)] = Replayed(s \o g)
    /\ \A k \in 0..(Len(g) - 1) : loop[k + 1] = ReplayEvent(loop[k], g[k + 1])

(* Replaying one stream after another goes on from where the first left    *)
(* it.                                                                     *)
LEMMA ReplayMore ==
    ASSUME NEW s, Sequence(s), NEW g, Sequence(g)
    PROVE  \E loop : GoesOn(loop, s, g)
<1>1. PICK c : c = s \o g
  OBVIOUS
<1>2. PICK m \in Nat : m = Len(s)
  BY SequenceIs
<1>3. PICK len \in Nat : len = Len(g)
  BY SequenceIs
<1>4. /\ Sequence(c) /\ Len(c) = m + len
      /\ \A i \in 1..m : c[i] = s[i]
      /\ \A i \in 1..len : c[m + i] = g[i]
  <2>1. Joins(c, s, g)
    BY <1>1, ConcatIs
  <2> QED BY <1>2, <1>3, <2>1 DEF Joins
<1>5. PICK before : before = ReplayLoop(s)
  OBVIOUS
<1>6. PICK after : after = ReplayLoop(c)
  OBVIOUS
<1>7. /\ before[0] = ReplayStart
      /\ \A n \in 0..(m - 1) : before[n + 1] = ReplayEvent(before[n], s[n + 1])
  BY <1>2, <1>5, ReplayExists
<1>8. /\ after[0] = ReplayStart
      /\ \A n \in 0..(m + len - 1) : after[n + 1] = ReplayEvent(after[n], c[n + 1])
  <2>1. m + len \in Nat
    OBVIOUS
  <2> QED BY <1>4, <1>6, <2>1, ReplayExists
<1> DEFINE T == {n \in Nat : n <= m => after[n] = before[n]}
<1>9. 0 \in T
  BY <1>7, <1>8
<1>10. ASSUME NEW n \in Nat, n \in T PROVE n + 1 \in T
  <2> SUFFICES ASSUME n + 1 <= m PROVE after[n + 1] = before[n + 1]
    OBVIOUS
  <2>1. n \in 0..(m - 1) /\ n \in 0..(m + len - 1) /\ n + 1 \in 1..m
    OBVIOUS
  <2>2. c[n + 1] = s[n + 1] /\ after[n] = before[n]
    BY <1>4, <1>10, <2>1
  <2> QED BY <1>7, <1>8, <2>1, <2>2
<1>11. m \in T
  <2> HIDE DEF T
  <2> QED BY <1>9, <1>10, SetInduction
<1>12. after[m] = Replayed(s) /\ after[m + len] = Replayed(c)
  BY <1>2, <1>4, <1>5, <1>6, <1>11 DEF Replayed
<1> DEFINE loop == [k \in 0..len |-> after[m + k]]
<1>13. loop[0] = Replayed(s) /\ loop[len] = Replayed(c)
  BY <1>12
<1>14. ASSUME NEW k \in 0..(len - 1) PROVE loop[k + 1] = ReplayEvent(loop[k], g[k + 1])
  <2>1. /\ k \in 0..len /\ k + 1 \in 0..len /\ k + 1 \in 1..len /\ m + k \in 0..(m + len - 1)
        /\ m + (k + 1) = (m + k) + 1
    OBVIOUS
  <2>2. after[(m + k) + 1] = ReplayEvent(after[m + k], c[(m + k) + 1])
    BY <1>8, <2>1
  <2>3. c[(m + k) + 1] = g[k + 1]
    BY <1>4, <2>1
  <2> QED BY <2>1, <2>2, <2>3
<1> HIDE DEF loop
<1> QED BY <1>1, <1>3, <1>13, <1>14 DEF GoesOn

-----------------------------------------------------------------------------
(* The sequence made of a finite set has each of its elements once.        *)
Listing(fs, F) ==
    /\ Sequence(fs) /\ Len(fs) = Cardinality(F) /\ DOMAIN fs = 1..Len(fs)
    /\ \A i \in 1..Len(fs) : fs[i] \in F
    /\ \A i, j \in 1..Len(fs) : fs[i] = fs[j] => i = j
    /\ \A f \in F : \E i \in 1..Len(fs) : fs[i] = f
(* SetToSeq lists a finite set, each member once.                          *)
LEMMA SetToSeqIs ==
    ASSUME NEW F, IsFiniteSet(F), NEW fs, fs = SetToSeq(F)
    PROVE  Listing(fs, F)
<1>1. PICK n \in Nat : n = Cardinality(F)
  BY FS_CardinalityType
<1>2. ExistsBijection(1..n, F)
  BY <1>1, FS_CardinalityType
<1>3. PICK g \in [1..n -> F] : IsInjective(g)
  BY <1>2 DEF ExistsBijection, Bijection, Injection
<1>4. fs \in [1..n -> F] /\ IsInjective(fs)
  BY <1>1, <1>3 DEF SetToSeq
<1>5. fs \in Injection(1..n, F)
  BY <1>4 DEF Injection
<1>6. IsFiniteSet(1..n) /\ Cardinality(1..n) = n
  BY FS_Interval
<1>7. fs \in Surjection(1..n, F)
  BY <1>1, <1>5, <1>6, FS_Injection
<1>8. Sequence(fs) /\ Len(fs) = n
  <2>1. fs = [i \in 1..n |-> fs[i]]
    BY <1>4
  <2> QED BY <2>1, FunctionSequence
<1>9. DOMAIN fs = 1..n
  BY <1>4
<1> QED BY <1>1, <1>4, <1>7, <1>8, <1>9 DEF Listing, IsInjective, Surjection

(* The trades of a request, and the orders that rest after it, are finite. *)
LEMMA FillsFinite ==
    ASSUME NEW R, IsFiniteSet(R), NEW side, NEW otype, NEW limit, NEW qty
    PROVE  IsFiniteSet(FillsOf(R, side, otype, limit, qty))
<1> DEFINE market == otype = "MARKET"
           willing == {o \in R : Willing(side, market, limit, o)}
           band == IF market THEN WorstOpposing(R, side, limit) ELSE limit
           served == {o \in willing : Share(willing, qty, o) > 0}
           rec(o) == [maker |-> o.id, qty |-> Share(willing, qty, o), price |-> o.price, band |-> band]
           f == [o \in served |-> rec(o)]
<1>1. served \subseteq R
  OBVIOUS
<1>2. IsFiniteSet(served)
  BY <1>1, FS_Subset
<1>3. IsFiniteSet({f[o] : o \in served})
  <2> HIDE DEF f, served
  <2> QED BY <1>2, ImageFinite DEF ImageOf
<1>4. {f[o] : o \in served} = {rec(o) : o \in served}
  OBVIOUS
<1>5. FillsOf(R, side, otype, limit, qty)
        = IF otype = "FOK" /\ Total(willing) < qty THEN {} ELSE {rec(o) : o \in served}
  BY DEF FillsOf
<1> HIDE DEF f, served, rec, willing
<1> QED BY <1>3, <1>4, <1>5, FS_EmptySet

(* An order leaves finitely many orders resting.                           *)
LEMMA RestingFinite ==
    ASSUME NEW R, IsFiniteSet(R), NEW F, NEW id, NEW side, NEW otype, NEW limit, NEW qty
    PROVE  IsFiniteSet(RestingAfter(R, F, id, side, otype, limit, qty))
<1> DEFINE taken(o) == Total({f \in F : f.maker = o.id})
           kept == {r \in R : r.qty > taken(r)}
           g == [o \in kept |-> [o EXCEPT !.qty = @ - taken(o)]]
           left == qty - Total(F)
           new == IF left > 0 /\ otype \in {"LIMIT", "GFD"}
                  THEN {[id |-> id, side |-> side, price |-> limit, qty |-> left]} ELSE {}
<1>1. IsFiniteSet(kept)
  <2>1. kept \subseteq R
    OBVIOUS
  <2> QED BY <2>1, FS_Subset
<1>2. IsFiniteSet({g[o] : o \in kept})
  <2> HIDE DEF g, kept
  <2> QED BY <1>1, ImageFinite DEF ImageOf
<1>3. IsFiniteSet(new)
  BY FS_EmptySet, FS_Singleton
<1>4. RestingAfter(R, F, id, side, otype, limit, qty) = {g[o] : o \in kept} \cup new
  BY DEF RestingAfter
<1> HIDE DEF g, kept, new
<1> QED BY <1>2, <1>3, <1>4, FS_Union

(* The log of a run under way, with the next seq.                          *)
Underway(l, next) ==
    /\ Numbered(l) /\ next = Len(l) + 1
    /\ \A k \in 1..Len(l) : Recorded(l[k]) /\ l[k].action # "END"
    /\ Len(l) > 0 => Attempt(l[1])

(* Some more records of it.                                                *)
Following(g, next) ==
    /\ Sequence(g)
    /\ \A k \in 1..Len(g) : Recorded(g[k]) /\ g[k].action # "END" /\ g[k].seq = next + (k - 1)

(* The records of an answer's trades keep a log under way.                 *)
LEMMA LogGrows ==
    ASSUME NEW l, NEW next, Underway(l, next), Len(l) > 0, NEW g, Following(g, next)
    PROVE  Underway(l \o g, next + Len(g))
<1>1. PICK c : c = l \o g
  OBVIOUS
<1>2. PICK m \in Nat : m = Len(l)
  BY SequenceIs DEF Underway, Numbered
<1>3. PICK n \in Nat : n = Len(g)
  BY SequenceIs DEF Following
<1>4. /\ Sequence(c) /\ Len(c) = m + n
      /\ \A i \in 1..m : c[i] = l[i]
      /\ \A i \in 1..n : c[m + i] = g[i]
  <2>1. Joins(c, l, g)
    BY <1>1, ConcatIs DEF Underway, Numbered, Following
  <2> QED BY <1>2, <1>3, <2>1 DEF Joins
<1>5. /\ next = m + 1 /\ m > 0
      /\ \A k \in 1..m : l[k].seq = k /\ Recorded(l[k]) /\ l[k].action # "END"
      /\ Attempt(l[1])
  BY <1>2 DEF Underway, Numbered
<1>6. \A k \in 1..n : Recorded(g[k]) /\ g[k].action # "END" /\ g[k].seq = next + (k - 1)
  BY <1>3 DEF Following
<1>7. ASSUME NEW k \in 1..(m + n)
      PROVE  c[k].seq = k /\ Recorded(c[k]) /\ c[k].action # "END"
  <2>1. CASE k \in 1..m
    BY <1>4, <1>5, <2>1
  <2>2. CASE k \notin 1..m
    <3>1. k - m \in 1..n /\ m + (k - m) = k
      BY <2>2
    <3>2. c[k] = g[k - m]
      BY <1>4, <3>1
    <3>3. next + ((k - m) - 1) = k
      BY <1>5
    <3> QED BY <1>6, <3>1, <3>2, <3>3
  <2> QED BY <2>1, <2>2
<1>8. c[1] = l[1]
  BY <1>4, <1>5
<1>9. next + n = Len(c) + 1
  BY <1>4, <1>5
<1> QED BY <1>1, <1>3, <1>4, <1>5, <1>7, <1>8, <1>9 DEF Underway, Numbered

(* One more record.                                                        *)
Longer(c, l, e) ==
    /\ Sequence(c) /\ Len(c) = Len(l) + 1 /\ c[Len(l) + 1] = e
    /\ \A i \in 1..Len(l) : c[i] = l[i]
(* Append makes a log longer by the record it is given.                    *)
LEMMA AppendLonger ==
    ASSUME NEW l, Sequence(l), NEW e PROVE Longer(Append(l, e), l, e)
<1>1. /\ Sequence(Append(l, e)) /\ Len(Append(l, e)) = Len(l) + 1
      /\ Append(l, e)[Len(l) + 1] = e
  BY AppendIs
<1>2. \A i \in 1..Len(l) : Append(l, e)[i] = l[i]
  BY AppendIs
<1> QED BY <1>1, <1>2 DEF Longer

(* One more attempt keeps a log under way.                                 *)
LEMMA LogAppended ==
    ASSUME NEW l, NEW next, Underway(l, next), NEW e, Recorded(e), e.action # "END",
           e.seq = next, Attempt(e)
    PROVE  Underway(Append(l, e), next + 1)
<1>1. PICK c : c = Append(l, e)
  OBVIOUS
<1>2. PICK m \in Nat : m = Len(l)
  BY SequenceIs DEF Underway, Numbered
<1>3. /\ Sequence(c) /\ Len(c) = m + 1 /\ c[m + 1] = e
      /\ \A i \in 1..m : c[i] = l[i]
  <2>1. Sequence(l)
    BY DEF Underway, Numbered
  <2>2. Longer(c, l, e)
    BY <1>1, <2>1, AppendLonger
  <2> QED BY <1>2, <2>2 DEF Longer
<1>4. /\ next = m + 1
      /\ \A k \in 1..m : l[k].seq = k /\ Recorded(l[k]) /\ l[k].action # "END"
      /\ m > 0 => Attempt(l[1])
  BY <1>2 DEF Underway, Numbered
<1>5. \A k \in 1..(m + 1) : c[k].seq = k /\ Recorded(c[k]) /\ c[k].action # "END"
  <2>1. \A k \in 1..(m + 1) : k \in 1..m \/ k = m + 1
    OBVIOUS
  <2> QED BY <1>3, <1>4, <2>1
<1>6. Attempt(c[1])
  BY <1>3, <1>4
<1>7. next + 1 = Len(c) + 1
  BY <1>3, <1>4
<1> QED BY <1>1, <1>3, <1>5, <1>6, <1>7 DEF Underway, Numbered

-----------------------------------------------------------------------------
(* The shape of a run under way: a numbered log of attempts and fills, and *)
(* finitely many orders resting on each ticker.                            *)
RunShape ==
    /\ Underway(log, nextSeq)
    /\ DOMAIN resting = Tickers /\ \A t \in Tickers : IsFiniteSet(resting[t])

(* A trade is recorded as a fill, under the seq it is given.               *)
LEMMA FillRecordIs ==
    ASSUME NEW seq, NEW req, NEW orderSeq, NEW f, NEW r, r = FillRecord(seq, req, orderSeq, f)
    PROVE  r.seq = seq /\ r.action = "FILL" /\ r.outcome = "OK"
BY Zenon DEF FillRecord

(* The log after an answer: the intent, and a record per trade.            *)
Trades(req, F) ==
    LET fs == SetToSeq(F)
    IN  [k \in DOMAIN fs |-> FillRecord(nextSeq + k, req, nextSeq, fs[k])]
(* What the records of an answer add to the log.                           *)
LEMMA AnswerLogged ==
    ASSUME RunShape, NEW req \in Requests, NEW F, IsFiniteSet(F), RecordAnswer(req, F)
    PROVE  /\ Underway(log', nextSeq')
           /\ Underway(Append(log, Intent(nextSeq, req, "OK", ids + 1)), nextSeq + 1)
           /\ Following(Trades(req, F), nextSeq + 1)
           /\ log' = Append(log, Intent(nextSeq, req, "OK", ids + 1)) \o Trades(req, F)
<1> DEFINE e == Intent(nextSeq, req, "OK", ids + 1)
<1>1. PICK fs : fs = SetToSeq(F)
  OBVIOUS
<1>2. Listing(fs, F)
  BY <1>1, SetToSeqIs
<1>3. PICK n \in Nat : n = Len(fs) /\ DOMAIN fs = 1..n
  BY <1>2, SequenceIs DEF Listing
<1>4. PICK g : g = Trades(req, F)
  OBVIOUS
<1>5. g = [k \in 1..n |-> FillRecord(nextSeq + k, req, nextSeq, fs[k])]
  BY <1>1, <1>3, <1>4 DEF Trades
<1>6. Sequence(g) /\ Len(g) = n
  BY <1>5, FunctionSequence
<1>7. Recorded(e) /\ Attempt(e) /\ e.action # "END" /\ e.seq = nextSeq
  <2>1. req.side \in Sides
    BY RunBounds
  <2> QED BY <2>1 DEF Intent, Recorded, Attempt, Sides
<1>8. Following(g, nextSeq + 1)
  <2>1. nextSeq \in Nat
    BY SequenceIs DEF RunShape, Underway, Numbered
  <2>2. ASSUME NEW k \in 1..n
        PROVE  Recorded(g[k]) /\ g[k].action # "END" /\ g[k].seq = (nextSeq + 1) + (k - 1)
    <3>1. g[k] = FillRecord(nextSeq + k, req, nextSeq, fs[k])
      BY <1>5
    <3>2. g[k].seq = nextSeq + k /\ g[k].action = "FILL" /\ g[k].outcome = "OK"
      BY <3>1, FillRecordIs
    <3>3. Recorded(g[k]) /\ g[k].action # "END"
      BY <3>2 DEF Recorded
    <3>4. nextSeq + k = (nextSeq + 1) + (k - 1)
      BY <2>1
    <3> QED BY <3>2, <3>3, <3>4
  <2> QED BY <1>6, <2>2 DEF Following
<1> HIDE DEF e
<1>9. Underway(Append(log, e), nextSeq + 1)
  BY <1>7, LogAppended DEF RunShape
<1>10. Len(Append(log, e)) > 0
  <2>1. Len(log) \in Nat /\ Len(Append(log, e)) = Len(log) + 1
    BY SequenceIs, AppendIs DEF RunShape, Underway, Numbered
  <2> QED BY <2>1
<1>11. Underway(Append(log, e) \o g, (nextSeq + 1) + n)
  BY <1>6, <1>8, <1>9, <1>10, LogGrows
<1>12. log' = Append(log, e) \o g /\ nextSeq' = nextSeq + 1 + n
  BY <1>1, <1>3, <1>4 DEF RecordAnswer, e, Trades
<1> QED BY <1>4, <1>8, <1>9, <1>11, <1>12 DEF e

(* What the server's books become stays finite.                            *)
LEMMA BooksFinite ==
    ASSUME RunShape, NEW req \in Requests, NEW F, resting' = ServerBooks(req, F)
    PROVE  DOMAIN resting' = Tickers /\ \A t \in Tickers : IsFiniteSet(resting'[t])
<1>1. req.ticker \in Tickers
  BY RunBounds
<1>2. IsFiniteSet(RestingAfter(resting[req.ticker], F, ids + 1, req.side, req.otype, req.price, req.qty))
  BY <1>1, RestingFinite DEF RunShape
<1> QED BY <1>1, <1>2 DEF ServerBooks, RunShape

(* An honest server reports finitely many trades.                          *)
LEMMA HonestFinite ==
    ASSUME RunShape, NEW req \in Requests PROVE IsFiniteSet(HonestFills(req))
<1>1. req.ticker \in Tickers
  BY RunBounds
<1> QED BY <1>1, FillsFinite DEF RunShape, HonestFills

(* Finite sets stay finite without a member, and with one more.            *)
LEMMA FiniteLess ==
    ASSUME NEW S, IsFiniteSet(S), NEW x PROVE IsFiniteSet(S \ {x})
BY FS_RemoveElement
(* The other half of it.                                                   *)
LEMMA FiniteMore ==
    ASSUME NEW S, IsFiniteSet(S), NEW x PROVE IsFiniteSet(S \cup {x})
BY FS_AddElement

(* A wrong answer reports finitely many trades, too.                       *)
LEMMA WrongFinite ==
    ASSUME RunShape, NEW req \in Requests, NEW w \in WrongFills(req) PROVE IsFiniteSet(w)
<1>1. PICK right : right = HonestFills(req) /\ IsFiniteSet(right)
  BY HonestFinite
<1>2. w \in {right \ {f} : f \in right} \cup {right \cup {x} : x \in Unmade(req)}
        \cup {(right \ {f}) \cup {[x EXCEPT !.qty = f.qty]} : f \in right, x \in Unmade(req)}
        \cup {(right \ {f}) \cup {Overpriced(f)} : f \in right}
  BY <1>1 DEF WrongFills
<1>3. CASE \E f \in right : w = right \ {f}
  BY <1>1, <1>3, FiniteLess
<1>4. CASE \E x \in Unmade(req) : w = right \cup {x}
  BY <1>1, <1>4, FiniteMore
<1>5. CASE \E f \in right, x \in Unmade(req) : w = (right \ {f}) \cup {[x EXCEPT !.qty = f.qty]}
  <2>1. PICK f \in right, x \in Unmade(req) : w = (right \ {f}) \cup {[x EXCEPT !.qty = f.qty]}
    BY <1>5
  <2>2. IsFiniteSet(right \ {f})
    BY <1>1, FiniteLess
  <2> QED BY <2>1, <2>2, FiniteMore
<1>6. CASE \E f \in right : w = (right \ {f}) \cup {Overpriced(f)}
  <2>1. PICK f \in right : w = (right \ {f}) \cup {Overpriced(f)}
    BY <1>6
  <2>2. IsFiniteSet(right \ {f})
    BY <1>1, FiniteLess
  <2> QED BY <2>1, <2>2, FiniteMore
<1> QED BY <1>2, <1>3, <1>4, <1>5, <1>6

(* The records of a run reach the checker as Arrived.                      *)
LEMMA ArrivalsArrive ==
    ASSUME NEW sent, Numbered(sent), NEW d \in Arrivals(sent) PROVE Arrived(d, sent)
<1>1. PICK n \in Nat : n = Len(sent) /\ DOMAIN sent = 1..n
  BY SequenceIs DEF Numbered
<1>2. ASSUME NEW lost, d = Received(sent, lost) PROVE Arrived(d, sent)
  <2>1. PICK kept : kept = (1..n) \ lost
    OBVIOUS
  <2>2. kept \subseteq 1..n /\ IsFiniteSet(kept)
    <3>1. IsFiniteSet(1..n)
      BY FS_Interval
    <3> QED BY <2>1, <3>1, FS_Subset
  <2>3. PICK m \in Nat : m = Cardinality(kept)
    BY <2>2, FS_CardinalityType
  <2>4. \A i \in 1..n : sent[i].seq = i
    BY <1>1 DEF Numbered
  <2>5. Placed(sent, kept)
    BY <2>2, <2>4 DEF Placed
  <2>6. PICK rank : rank = RankOf(sent, kept)
    OBVIOUS
  <2>7. Numbering(rank, kept)
    BY <2>5, <2>6, RanksNumber
  <2>8. ASSUME NEW i \in kept PROVE rank[i] = Cardinality(kept \cap 1..i)
    <3>1. \A j \in kept : Precedes(sent, j, i) <=> j \in 1..i
      BY <2>2, <2>4 DEF Precedes
    <3>2. UpTo(sent, kept, i) = kept \cap 1..i
      BY <3>1 DEF UpTo
    <3> QED BY <2>6, <3>2 DEF RankOf
  <2>9. d = [k \in 1..m |-> sent[CHOOSE i \in kept : Cardinality(kept \cap 1..i) = k]]
    BY <1>1, <1>2, <2>1, <2>3 DEF Received
  <2>10. ASSUME NEW k \in 1..m PROVE \E i \in 1..n : d[k] = sent[i]
    <3>1. PICK j \in kept : rank[j] = k
      BY <2>3, <2>7 DEF Numbering
    <3>2. \E i \in kept : Cardinality(kept \cap 1..i) = k
      BY <2>8, <3>1
    <3>3. (CHOOSE i \in kept : Cardinality(kept \cap 1..i) = k) \in kept
      BY <3>2
    <3> QED BY <2>2, <2>9, <3>3
  <2>11. Sequence(d) /\ Len(d) = m
    <3>1. d = [k \in 1..m |-> d[k]]
      BY <2>9
    <3> QED BY <3>1, FunctionSequence
  <2> QED BY <1>1, <2>10, <2>11 DEF Arrived
<1>3. ASSUME NEW again \in 1..(n - 1),
             d = [k \in 1..(n + 1) |-> sent[IF k = 1 THEN again ELSE n + 2 - k]]
      PROVE  Arrived(d, sent)
  <2>1. Sequence(d) /\ Len(d) = n + 1
    <3>1. d = [k \in 1..(n + 1) |-> d[k]] /\ n + 1 \in Nat
      BY <1>3
    <3> QED BY <3>1, FunctionSequence
  <2>2. ASSUME NEW k \in 1..(n + 1) PROVE \E i \in 1..n : d[k] = sent[i]
    <3>1. (IF k = 1 THEN again ELSE n + 2 - k) \in 1..n
      OBVIOUS
    <3> QED BY <1>3, <3>1
  <2> QED BY <1>1, <2>1, <2>2 DEF Arrived
<1> QED BY <1>1, <1>2, <1>3 DEF Arrivals

(* A run under way has the shape above; one that is judged was judged well. *)
RunInv ==
    /\ verdict = "none" => RunShape
    /\ verdict # "none" => PassWithinTolerance

(* A run starts in shape.                                                  *)
LEMMA StartShape == RunInit => RunInv
<1> SUFFICES ASSUME RunInit PROVE RunInv
  OBVIOUS
<1>1. Sequence(<<>>)
  <2>1. <<>> \in Seq({})
    OBVIOUS
  <2> QED BY <2>1 DEF Sequence
<1>2. Underway(<<>>, 1)
  BY <1>1 DEF Underway, Numbered
<1>3. \A t \in Tickers : IsFiniteSet(resting[t])
  BY FS_EmptySet DEF RunInit
<1> QED BY <1>2, <1>3 DEF RunInit, RunInv, RunShape

(* An answer leaves the run in shape.                                      *)
LEMMA AnswerKeepsShape ==
    ASSUME RunShape, NEW req \in Requests, NEW F, IsFiniteSet(F), RecordAnswer(req, F),
           resting' = ServerBooks(req, F)
    PROVE  RunShape'
<1>1. Underway(log', nextSeq')
  BY AnswerLogged
<1>2. DOMAIN resting' = Tickers /\ \A t \in Tickers : IsFiniteSet(resting'[t])
  BY BooksFinite
<1> QED BY <1>1, <1>2 DEF RunShape

(* One more record does.                                                   *)
LEMMA RecordKeepsShape ==
    ASSUME RunShape, NEW e, Recorded(e), Attempt(e), e.seq = nextSeq,
           log' = Append(log, e), nextSeq' = nextSeq + 1,
           DOMAIN resting' = Tickers, \A t \in Tickers : IsFiniteSet(resting'[t])
    PROVE  RunShape'
<1>1. e.action # "END"
  BY DEF Attempt
<1>2. Underway(Append(log, e), nextSeq + 1)
  BY <1>1, LogAppended DEF RunShape
<1> QED BY <1>2 DEF RunShape

(* A cancel leaves finitely many orders resting on every ticker.           *)
LEMMA CancelFinite ==
    ASSUME RunShape, NEW target
    PROVE  /\ DOMAIN CancelAt(resting, target) = Tickers
           /\ \A t \in Tickers : IsFiniteSet(CancelAt(resting, target)[t])
<1>1. \A t \in Tickers : IsFiniteSet({o \in resting[t] : o.id # target})
  <2> TAKE t \in Tickers
  <2>1. {o \in resting[t] : o.id # target} \subseteq resting[t]
    OBVIOUS
  <2> QED BY <2>1, FS_Subset DEF RunShape
<1> QED BY <1>1 DEF CancelAt

(* Every step but the last keeps a run in shape.                           *)
LEMMA ShapeKept ==
    ASSUME RunShape, verdict = "none", RunNext, ~Finish PROVE RunShape' /\ verdict' = verdict
<1>1. ASSUME NEW r \in Requests, OrderAnswered(r) PROVE RunShape' /\ verdict' = verdict
  <2>1. IsFiniteSet(HonestFills(r))
    BY HonestFinite
  <2>2. RecordAnswer(r, HonestFills(r)) /\ resting' = ServerBooks(r, HonestFills(r))
    BY <1>1 DEF OrderAnswered
  <2>3. RunShape'
    BY <2>1, <2>2, AnswerKeepsShape
  <2> QED BY <1>1, <2>3 DEF OrderAnswered
<1>2. ASSUME NEW r \in Requests, OrderMismatched(r) PROVE RunShape' /\ verdict' = verdict
  <2>1. PICK w \in WrongFills(r) : resting' = ServerBooks(r, w) /\ RecordAnswer(r, w)
    BY <1>2 DEF OrderMismatched
  <2>2. IsFiniteSet(w)
    BY WrongFinite
  <2>3. RunShape'
    BY <2>1, <2>2, AnswerKeepsShape
  <2> QED BY <1>2, <2>3 DEF OrderMismatched
<1>3. ASSUME NEW r \in Requests, NEW outcome \in {"REJECTED", "UNKNOWN"},
             log' = Append(log, Intent(nextSeq, r, outcome, 0)), nextSeq' = nextSeq + 1,
             resting' = resting
      PROVE  RunShape'
  <2> DEFINE e == Intent(nextSeq, r, outcome, 0)
  <2>1. r.side \in Sides
    BY RunBounds
  <2>2. Recorded(e) /\ Attempt(e) /\ e.seq = nextSeq
    BY <2>1 DEF Intent, Recorded, Attempt, Sides
  <2>3. DOMAIN resting' = Tickers /\ \A t \in Tickers : IsFiniteSet(resting'[t])
    BY <1>3 DEF RunShape
  <2> HIDE DEF e
  <2> QED BY <1>3, <2>2, <2>3, RecordKeepsShape DEF e
<1>4. ASSUME NEW r \in Requests, OrderRejected(r) PROVE RunShape' /\ verdict' = verdict
  <2>1. RunShape'
    BY <1>3, <1>4 DEF OrderRejected
  <2> QED BY <1>4, <2>1 DEF OrderRejected
<1>5. ASSUME NEW r \in Requests, OrderUnanswered(r) PROVE RunShape' /\ verdict' = verdict
  <2>1. RunShape'
    BY <1>3, <1>5 DEF OrderUnanswered
  <2> QED BY <1>5, <2>1 DEF OrderUnanswered
<1>6. ASSUME NEW target, NEW outcome \in {"OK", "REJECTED", "UNKNOWN"},
             log' = Append(log, CancelIntent(nextSeq, target, outcome)), nextSeq' = nextSeq + 1,
             resting' = resting \/ resting' = CancelAt(resting, target)
      PROVE  RunShape'
  <2> DEFINE e == CancelIntent(nextSeq, target, outcome)
  <2>1. Recorded(e) /\ Attempt(e) /\ e.seq = nextSeq
    BY DEF CancelIntent, Recorded, Attempt
  <2>2. DOMAIN resting' = Tickers /\ \A t \in Tickers : IsFiniteSet(resting'[t])
    <3>1. CASE resting' = resting
      BY <3>1 DEF RunShape
    <3>2. CASE resting' = CancelAt(resting, target)
      BY <3>2, CancelFinite
    <3> QED BY <1>6, <3>1, <3>2
  <2> HIDE DEF e
  <2> QED BY <1>6, <2>1, <2>2, RecordKeepsShape DEF e
<1>7. ASSUME NEW id \in accepted, CancelAnswered(id) PROVE RunShape' /\ verdict' = verdict
  <2>1. PICK outcome \in {"OK", "REJECTED", "UNKNOWN"} :
            log' = Append(log, CancelIntent(nextSeq, id, outcome))
    BY <1>7 DEF CancelAnswered
  <2>2. RunShape'
    BY <1>6, <1>7, <2>1 DEF CancelAnswered
  <2> QED BY <1>7, <2>2 DEF CancelAnswered
<1>8. ASSUME NEW id \in accepted, CancelUnanswered(id) PROVE RunShape' /\ verdict' = verdict
  <2>1. RunShape'
    BY <1>6, <1>8 DEF CancelUnanswered
  <2> QED BY <1>8, <2>1 DEF CancelUnanswered
<1>9. ASSUME NEW g \in ghosts, GhostApplied(g) PROVE RunShape' /\ verdict' = verdict
  <2>1. CASE g.order
    <3>1. resting' = ServerBooks(g.req, HonestFills(g.req))
      BY <1>9, <2>1 DEF GhostApplied
    <3>2. DOMAIN resting' = Tickers /\ \A t \in Tickers : IsFiniteSet(resting'[t])
      <4> DEFINE R == [t \in Tickers |-> resting[t]]
      <4>1. ASSUME NEW t \in Tickers, t # g.req.ticker PROVE resting'[t] = resting[t]
        BY <3>1, <4>1 DEF ServerBooks, RunShape
      <4>2. ASSUME g.req.ticker \in Tickers PROVE IsFiniteSet(resting'[g.req.ticker])
        <5>1. resting'[g.req.ticker] =
                RestingAfter(resting[g.req.ticker], HonestFills(g.req), ids + 1, g.req.side,
                             g.req.otype, g.req.price, g.req.qty)
          BY <3>1, <4>2 DEF ServerBooks, RunShape
        <5> QED BY <4>2, <5>1, RestingFinite DEF RunShape
      <4>3. DOMAIN resting' = Tickers
        BY <3>1 DEF ServerBooks, RunShape
      <4>4. ASSUME NEW t \in Tickers PROVE IsFiniteSet(resting'[t])
        <5>1. CASE t = g.req.ticker
          BY <4>2, <5>1
        <5>2. CASE t # g.req.ticker
          BY <4>1, <5>2 DEF RunShape
        <5> QED BY <5>1, <5>2
      <4> QED BY <4>3, <4>4
    <3> QED BY <1>9, <3>2 DEF GhostApplied, RunShape
  <2>2. CASE ~g.order
    <3>1. resting' = CancelAt(resting, g.target)
      BY <1>9, <2>2 DEF GhostApplied
    <3> QED BY <1>9, <3>1, CancelFinite DEF GhostApplied, RunShape
  <2> QED BY <2>1, <2>2
<1> QED BY <1>1, <1>2, <1>4, <1>5, <1>7, <1>8, <1>9 DEF RunNext

(* What is sent once the run ends.                                         *)
LEMMA RunSent ==
    ASSUME RunShape, log' = Append(log, EndRecord(nextSeq))
    PROVE  Sent(log')
<1> DEFINE e == EndRecord(nextSeq)
<1>1. PICK c : c = log'
  OBVIOUS
<1>2. PICK m \in Nat : m = Len(log)
  BY SequenceIs DEF RunShape, Underway, Numbered
<1>3. /\ Recorded(e) /\ e.action = "END" /\ e.seq = nextSeq
  BY DEF EndRecord, Recorded
<1> HIDE DEF e
<1>4. Longer(c, log, e)
  BY <1>1, AppendLonger DEF RunShape, Underway, Numbered, e
<1>5. /\ nextSeq = m + 1
      /\ \A k \in 1..m : log[k].seq = k /\ Recorded(log[k]) /\ log[k].action # "END"
  BY <1>2 DEF RunShape, Underway, Numbered
<1>6. Sequence(c) /\ Len(c) = m + 1 /\ c[m + 1] = e /\ \A i \in 1..m : c[i] = log[i]
  BY <1>2, <1>4 DEF Longer
<1>7. ASSUME NEW k \in 1..(m + 1)
      PROVE  c[k].seq = k /\ Recorded(c[k]) /\ (c[k].action = "END" <=> k = m + 1)
  <2>1. k \in 1..m \/ k = m + 1
    OBVIOUS
  <2>2. CASE k \in 1..m
    BY <1>5, <1>6, <2>2
  <2>3. CASE k = m + 1
    BY <1>3, <1>5, <1>6, <2>3
  <2> QED BY <2>1, <2>2, <2>3
<1>8. m + 1 > 0
  OBVIOUS
<1>9. Numbered(c)
  BY <1>6, <1>7 DEF Numbered
<1> QED BY <1>1, <1>6, <1>7, <1>8, <1>9 DEF Sent

(* The verdict at the end of a run passes it only within the tolerance.    *)
LEMMA FinishPasses ==
    ASSUME RunShape, Finish PROVE PassWithinTolerance' /\ verdict' # "none"
<1>1. Sent(log')
  BY RunSent DEF Finish
<1>2. Arrived(delivered', log')
  BY <1>1, ArrivalsArrive DEF Sent, Finish
<1>3. verdict' = Finalize(delivered')
  BY DEF Finish
<1>4. ASSUME verdict' = "correct" PROVE PassWithinTolerance'
  <2>1. Finalize(delivered') = "correct"
    BY <1>3, <1>4
  <2>2. /\ \E i \in DOMAIN delivered' : delivered'[i].action = "END"
        /\ Tolerable(UnknownSeqs(log') \cup LostSeqs(delivered', log'), AttemptsIn(log'))
    <3>1. PICK d, sent : d = delivered' /\ sent = log'
      OBVIOUS
    <3>2. Sent(sent) /\ Arrived(d, sent) /\ Finalize(d) = "correct"
      BY <1>1, <1>2, <2>1, <3>1
    <3>3. TolerancePct \in Nat
      <4>1. TolerancePct \in 1..100
        BY RunBounds
      <4> QED BY <4>1
    <3>4. /\ \E i \in DOMAIN d : d[i].action = "END"
          /\ Tolerable(UnknownSeqs(sent) \cup LostSeqs(d, sent), AttemptsIn(sent))
      BY <3>2, <3>3, PassCounts
    <3> QED BY <3>1, <3>4
  <2>3. Attempts' = AttemptsIn(log')
    BY DEF Attempts, AttemptsIn, Attempt
  <2>4. {log[i].seq : i \in Unknowns}' = UnknownSeqs(log')
    BY DEF Unknowns, UnknownsIn, UnknownSeqs
  <2>5. LostRecords' = LostSeqs(delivered', log')
    BY DEF LostRecords, LostSeqs, SeqsOf
  <2> QED BY <2>2, <2>3, <2>4, <2>5 DEF PassWithinTolerance, Missing, Tolerable
<1>5. verdict' # "correct" => PassWithinTolerance'
  BY DEF PassWithinTolerance
<1>6. verdict' # "none"
  <2>1. Finalize(delivered') \in {"correct", "incorrect", "unverified"}
    BY DEF Finalize, ReplayVerdict, ReplayStream, JudgeReplay, Judge, Outcome
  <2> QED BY <1>3, <2>1
<1> QED BY <1>4, <1>5, <1>6

(* No run is passed unless its end marker arrived and either nothing is    *)
(* missing, no answer and no record, or what is missing is below the       *)
(* tolerance share of the attempts (engine.go, Replay and finalize).  A    *)
(* run without attempts misses nothing and is passed.                      *)
THEOREM PassIsWithinTolerance == RunSpec => []PassWithinTolerance
<1>1. RunInit => RunInv
  BY StartShape
<1>2. RunInv /\ [RunNext]_runVars => RunInv'
  <2> SUFFICES ASSUME RunInv, [RunNext]_runVars PROVE RunInv'
    OBVIOUS
  <2>1. CASE UNCHANGED runVars
    BY <2>1 DEF runVars, RunInv, RunShape, PassWithinTolerance, Missing, Unknowns, Attempts,
                LostRecords
  <2>2. CASE RunNext
    <3>1. verdict = "none"
      BY <2>2 DEF RunNext, OrderAnswered, OrderMismatched, OrderRejected, OrderUnanswered,
                  CancelAnswered, CancelUnanswered, GhostApplied, Finish, Sending
    <3>2. CASE Finish
      BY <3>1, <3>2, FinishPasses DEF RunInv
    <3>3. CASE ~Finish
      BY <2>2, <3>1, <3>3, ShapeKept DEF RunInv
    <3> QED BY <3>2, <3>3
  <2> QED BY <2>1, <2>2
<1>3. RunInv => PassWithinTolerance
  BY DEF RunInv, PassWithinTolerance
<1> QED BY <1>1, <1>2, <1>3, PTL DEF RunSpec

-----------------------------------------------------------------------------
(* Part 3: the server's book and the golden book, a renaming apart.        *)

(* The server's contract and the one the golden book implements are one.   *)
LEMMA TotalIsSum == \A S : Total(S) = QtySum(S)
BY DEF QtySum, Total
(* The server's contract, by which CorrectnessRun answers, is the one the  *)
(* golden book was proved to implement: share by share, fill by fill and   *)
(* order left by order left.                                               *)
LEMMA SameShare == \A W, qty, o : Share(W, qty, o) = Contract!Share(W, qty, o)
<1> TAKE W, qty, o
<1>1. \A p : Ahead(p, o) <=> Contract!Ahead(p, o)
  BY DEF Ahead, Contract!Ahead
<1>2. {p \in W : Ahead(p, o)} = {p \in W : Contract!Ahead(p, o)}
  BY <1>1
<1>3. Total({p \in W : Ahead(p, o)}) = Contract!Total({p \in W : Contract!Ahead(p, o)})
  BY <1>2, TotalIsSum, TotalIs
<1>4. \A S : Max(S) = Contract!Max(S) /\ Min(S) = Contract!Min(S)
  BY DEF Max, Contract!Max, Min, Contract!Min
<1> QED BY <1>3, <1>4 DEF Share, Contract!Share
(* The trades of a request, in one reading of the contract and in the      *)
(* other.                                                                  *)
LEMMA SameFills ==
    \A R, side, otype, limit, qty :
        FillsOf(R, side, otype, limit, qty) = Contract!FillsOf(R, side, otype, limit, qty)
<1> TAKE R, side, otype, limit, qty
<1>1. \A S : Max(S) = Contract!Max(S) /\ Min(S) = Contract!Min(S)
  BY DEF Max, Contract!Max, Min, Contract!Min
<1>2. WorstOpposing(R, side, limit) = Contract!WorstOpposing(R, side, limit)
  BY <1>1 DEF WorstOpposing, Contract!WorstOpposing
<1>3. \A m, o : Willing(side, m, limit, o) <=> Contract!Willing(side, m, limit, o)
  BY DEF Willing, Contract!Willing
<1>4. \A S : Total(S) = Contract!Total(S)
  BY TotalIsSum, TotalIs
<1>5. \A m : {o \in R : Willing(side, m, limit, o)} = {o \in R : Contract!Willing(side, m, limit, o)}
  BY <1>3
<1> QED BY <1>2, <1>4, <1>5, SameShare DEF FillsOf, Contract!FillsOf
(* The orders left resting, likewise.                                      *)
LEMMA SameAfter ==
    \A R, F, id, side, otype, limit, qty :
        RestingAfter(R, F, id, side, otype, limit, qty)
          = Contract!RestingAfter(R, F, id, side, otype, limit, qty)
<1> TAKE R, F, id, side, otype, limit, qty
<1>1. \A S : Total(S) = Contract!Total(S)
  BY TotalIsSum, TotalIs
<1>2. \A o : Total({f \in F : f.maker = o.id}) = Contract!Total({f \in F : f.maker = o.id})
  BY <1>1
<1>3. Total(F) = Contract!Total(F)
  BY <1>1
<1> DEFINE A == {[o EXCEPT !.qty = @ - Total({f \in F : f.maker = o.id})] :
                   o \in {r \in R : r.qty > Total({f \in F : f.maker = r.id})}}
           B == {[o EXCEPT !.qty = @ - Contract!Total({f \in F : f.maker = o.id})] :
                   o \in {r \in R : r.qty > Contract!Total({f \in F : f.maker = r.id})}}
           rest(left) == IF left > 0 /\ otype \in {"LIMIT", "GFD"}
                         THEN {[id |-> id, side |-> side, price |-> limit, qty |-> left]} ELSE {}
<1>4. A = B
  BY <1>2
<1>5. RestingAfter(R, F, id, side, otype, limit, qty) = A \cup rest(qty - Total(F))
  BY DEF RestingAfter
<1>6. Contract!RestingAfter(R, F, id, side, otype, limit, qty) = B \cup rest(qty - Contract!Total(F))
  BY DEF Contract!RestingAfter
<1> HIDE DEF A, B, rest
<1> QED BY <1>3, <1>4, <1>5, <1>6

-----------------------------------------------------------------------------
(* Resting orders and trades, and the same under other ids.                *)
OrderRecs == [id : Nat, side : Sides, price : Nat, qty : Nat \ {0}]
TradeRecs == [maker : Nat, qty : Nat \ {0}, price : Nat, band : Nat]
Market(R) == R \subseteq OrderRecs /\ IsFiniteSet(R) /\ OneId(R)

(* A renaming of server ids to bot ids that keeps their order, the orders  *)
(* it knows, and the orders and trades under their new names.              *)
Rising(own) ==
    /\ DOMAIN own \subseteq Nat
    /\ \A x \in DOMAIN own : own[x] \in Nat
    /\ \A x, y \in DOMAIN own : x < y => own[x] < own[y]
Owned(R, own) == \A o \in R : o.id \in DOMAIN own
Renamed(o, own) == [o EXCEPT !.id = own[o.id]]
RenamedAll(R, own) == {Renamed(o, own) : o \in R}
Remade(f, own) == [f EXCEPT !.maker = own[f.maker]]
RemadeAll(F, own) == {Remade(f, own) : f \in F}

(* A renaming that rises is one to one, and keeps the order of ids.        *)
LEMMA RisingIsOneToOne ==
    ASSUME NEW own, Rising(own), NEW x \in DOMAIN own, NEW y \in DOMAIN own
    PROVE  /\ own[x] = own[y] <=> x = y
           /\ own[x] < own[y] <=> x < y
<1>1. x \in Nat /\ y \in Nat /\ own[x] \in Nat /\ own[y] \in Nat
  BY DEF Rising
<1>2. x < y \/ x = y \/ y < x
  BY <1>1
<1>3. (x < y => own[x] < own[y]) /\ (y < x => own[y] < own[x])
  BY DEF Rising
<1> QED BY <1>1, <1>2, <1>3

(* Renaming keeps everything but the id.                                   *)
LEMMA RenamedIs ==
    ASSUME NEW own, Rising(own), NEW o \in OrderRecs, o.id \in DOMAIN own
    PROVE  /\ Renamed(o, own) \in OrderRecs /\ Renamed(o, own).id = own[o.id]
           /\ Renamed(o, own).side = o.side /\ Renamed(o, own).price = o.price
           /\ Renamed(o, own).qty = o.qty
BY DEF Renamed, OrderRecs, Rising

(* Renamed orders are in a one-to-one relation with the orders.            *)
LEMMA RenamedApart ==
    ASSUME NEW own, Rising(own), NEW o \in OrderRecs, o.id \in DOMAIN own,
           NEW x \in OrderRecs, x.id \in DOMAIN own
    PROVE  Renamed(o, own) = Renamed(x, own) => o = x
<1> SUFFICES ASSUME Renamed(o, own) = Renamed(x, own) PROVE o = x
  OBVIOUS
<1>1. own[o.id] = own[x.id] /\ o.side = x.side /\ o.price = x.price /\ o.qty = x.qty
  BY RenamedIs
<1>2. o.id = x.id
  BY <1>1, RisingIsOneToOne
<1> QED BY <1>1, <1>2 DEF OrderRecs

(* The sum of some of the orders is that of the renamed ones.              *)
LEMMA RenamedSum ==
    ASSUME NEW own, Rising(own), NEW S, S \subseteq OrderRecs, IsFiniteSet(S), Owned(S, own)
    PROVE  /\ Priced(S) /\ QtySum(S) \in Nat
           /\ Priced(RenamedAll(S, own)) /\ QtySum(RenamedAll(S, own)) = QtySum(S)
<1> DEFINE f == [o \in S |-> Renamed(o, own)]
<1>1. ImageOf(f, S) = RenamedAll(S, own)
  BY DEF ImageOf, RenamedAll
<1>2. \A o \in S : f[o].qty = o.qty
  BY RenamedIs DEF Owned
<1>3. OneToOne(f, S)
  BY RenamedApart DEF OneToOne, Owned
<1>4. Priced(S)
  BY DEF Priced, OrderRecs
<1> HIDE DEF f
<1> QED BY <1>1, <1>2, <1>3, <1>4, SumOfImage, SumType

(* Renaming keeps the order of service.                                    *)
LEMMA RenamedAhead ==
    ASSUME NEW own, Rising(own), NEW o \in OrderRecs, o.id \in DOMAIN own,
           NEW x \in OrderRecs, x.id \in DOMAIN own
    PROVE  Ahead(Renamed(x, own), Renamed(o, own)) <=> Ahead(x, o)
<1>1. own[x.id] < own[o.id] <=> x.id < o.id
  BY RisingIsOneToOne
<1>2. /\ Renamed(o, own).id = own[o.id] /\ Renamed(x, own).id = own[x.id]
      /\ Renamed(o, own).price = o.price /\ Renamed(x, own).price = x.price
      /\ Renamed(o, own).side = o.side
  BY RenamedIs
<1> QED BY <1>1, <1>2 DEF Ahead

(* A share is a number up to what the order holds, and no matter of ids.   *)
LEMMA ShareType ==
    ASSUME NEW W, W \subseteq OrderRecs, IsFiniteSet(W), NEW qty \in Nat, NEW o \in OrderRecs
    PROVE  Share(W, qty, o) \in Nat /\ Share(W, qty, o) <= o.qty
<1> DEFINE A == AheadOf(W, o)
<1>1. QtySum(A) \in Nat
  <2>1. A \subseteq OrderRecs /\ IsFiniteSet(A)
    BY FS_Subset DEF AheadOf
  <2>2. Priced(A)
    BY <2>1 DEF Priced, OrderRecs
  <2> QED BY <2>2, SumType
<1>2. PICK t \in Nat : t = QtySum(A)
  BY <1>1
<1>3. o.qty \in Nat
  BY DEF OrderRecs
<1>4. Contract!Share(W, qty, o) = IF t >= qty THEN 0 ELSE IF o.qty <= qty - t THEN o.qty ELSE qty - t
  BY <1>2, <1>3, ShareIs
<1> QED BY <1>3, <1>4, SameShare

(* Renaming leaves every order its share of an aggressor.                  *)
LEMMA RenamedShare ==
    ASSUME NEW own, Rising(own), NEW W, W \subseteq OrderRecs, IsFiniteSet(W), Owned(W, own),
           NEW qty \in Nat, NEW o \in W
    PROVE  Share(RenamedAll(W, own), qty, Renamed(o, own)) = Share(W, qty, o)
<1> DEFINE V == RenamedAll(W, own)
           q == Renamed(o, own)
           A == {x \in W : Ahead(x, o)}
<1>1. {x \in V : Ahead(x, q)} = RenamedAll(A, own)
  BY RenamedAhead DEF RenamedAll, Owned
<1>2. QtySum(RenamedAll(A, own)) = QtySum(A)
  <2>1. A \subseteq OrderRecs /\ IsFiniteSet(A) /\ Owned(A, own)
    BY FS_Subset DEF Owned
  <2> QED BY <2>1, RenamedSum
<1>3. q.qty = o.qty
  BY RenamedIs DEF Owned
<1>4. Total({x \in V : Ahead(x, q)}) = Total({x \in W : Ahead(x, o)})
  BY <1>1, <1>2, TotalIsSum
<1> QED BY <1>3, <1>4 DEF Share

(* A finite set of numbers has a greatest one.                             *)
LEMMA GreatestNat ==
    ASSUME NEW S \in SUBSET Nat, IsFiniteSet(S), S # {}
    PROVE  \E x \in S : \A y \in S : y <= x
<1> DEFINE Tops(s) == \E x \in s : \A y \in s : y <= x
           T == {k \in Nat : \A s \in SUBSET S : Cardinality(s) = k /\ s # {} => Tops(s)}
<1>0. \A s \in SUBSET S : IsFiniteSet(s) /\ Cardinality(s) \in Nat
  BY FS_Subset, FS_CardinalityType
<1>1. 0 \in T
  BY <1>0, FS_EmptySet
<1>2. ASSUME NEW k \in Nat, k \in T PROVE k + 1 \in T
  <2> SUFFICES ASSUME NEW s \in SUBSET S, Cardinality(s) = k + 1, s # {} PROVE Tops(s)
    OBVIOUS
  <2>1. PICK x \in s : TRUE
    OBVIOUS
  <2>2. Cardinality(s \ {x}) = k /\ s \ {x} \in SUBSET S
    BY <1>0, RemoveOne
  <2>3. CASE s \ {x} = {}
    BY <2>1, <2>3
  <2>4. CASE s \ {x} # {}
    <3>1. PICK z \in s \ {x} : \A y \in s \ {x} : y <= z
      BY <1>2, <2>2, <2>4
    <3>2. x \in Nat /\ z \in Nat /\ \A y \in s : y \in Nat
      BY <2>1, <3>1
    <3>3. CASE x <= z
      BY <3>1, <3>3
    <3>4. CASE z <= x
      BY <2>1, <3>1, <3>2, <3>4
    <3> QED BY <3>2, <3>3, <3>4
  <2> QED BY <2>3, <2>4
<1>3. Cardinality(S) \in T
  <2> HIDE DEF T
  <2> QED BY <1>0, <1>1, <1>2, SetInduction
<1> QED BY <1>3

(* The worst price a market order meets is a price.                        *)
LEMMA WorstType ==
    ASSUME NEW R, R \subseteq OrderRecs, IsFiniteSet(R), NEW side, NEW limit \in Nat
    PROVE  WorstOpposing(R, side, limit) \in Nat
<1> DEFINE Q == {r \in R : r.side # side}
           P == {o.price : o \in Q}
<1>1. P \in SUBSET Nat /\ IsFiniteSet(P)
  <2>1. IsFiniteSet(Q)
    BY FS_Subset
  <2>2. P = ImageOf([o \in Q |-> o.price], Q)
    BY DEF ImageOf
  <2>3. IsFiniteSet(P)
    <3> HIDE DEF P, Q
    <3> QED BY <2>1, <2>2, ImageFinite
  <2> QED BY <2>3 DEF OrderRecs
<1>2. WorstOpposing(R, side, limit)
        = CASE P = {} -> limit [] P # {} /\ side = "BUY" -> Max(P) [] OTHER -> Min(P)
  BY DEF WorstOpposing
<1> HIDE DEF P
<1>3. P # {} => Max(P) \in Nat
  <2> SUFFICES ASSUME P # {} PROVE Max(P) \in Nat
    OBVIOUS
  <2>1. PICK x \in P : \A y \in P : y <= x
    BY <1>1, GreatestNat
  <2>2. \A y \in P : x >= y
    BY <1>1, <2>1
  <2> QED BY <1>1, <2>1, <2>2 DEF Max
<1>4. P # {} => Min(P) \in Nat
  BY <1>1, MinIsLeast
<1> QED BY <1>2, <1>3, <1>4

-----------------------------------------------------------------------------
(* What the trades of an order are.                                        *)
Deals(F, R, side) ==
    /\ F \subseteq TradeRecs /\ IsFiniteSet(F)
    /\ \A f \in F : \E o \in R : f.maker = o.id /\ o.side # side
    /\ \A f, g \in F : f.maker = g.maker => f = g
(* The contract trades with resting orders of the other side, each once.   *)
LEMMA FillsAreDeals ==
    ASSUME NEW R, Market(R), NEW side, NEW otype, NEW limit \in Nat, NEW qty \in Nat
    PROVE  Deals(FillsOf(R, side, otype, limit, qty), R, side)
<1> DEFINE market == otype = "MARKET"
           W == {o \in R : Willing(side, market, limit, o)}
           band == IF market THEN WorstOpposing(R, side, limit) ELSE limit
           S == {o \in W : Share(W, qty, o) > 0}
           F == {[maker |-> o.id, qty |-> Share(W, qty, o), price |-> o.price, band |-> band] : o \in S}
<1>1. FillsOf(R, side, otype, limit, qty) \in {{}, F}
  BY DEF FillsOf
<1>2. W \subseteq OrderRecs /\ IsFiniteSet(W)
  BY FS_Subset DEF Market
<1>3. \A o \in W : Share(W, qty, o) \in Nat
  <2> HIDE DEF W
  <2> QED BY <1>2, ShareType
<1>4. band \in Nat
  BY WorstType DEF Market
<1>5. \A o \in S : /\ o \in R /\ o.id \in Nat /\ o.price \in Nat /\ o.side # side
                   /\ Share(W, qty, o) \in Nat \ {0}
  BY <1>2, <1>3 DEF OrderRecs, Willing
<1> HIDE DEF W, band
<1>6. F \subseteq TradeRecs /\ \A f \in F : \E o \in R : f.maker = o.id /\ o.side # side
  BY <1>4, <1>5 DEF TradeRecs
<1>7. ASSUME NEW f \in F, NEW g \in F, f.maker = g.maker PROVE f = g
  <2>1. PICK o \in S : f = [maker |-> o.id, qty |-> Share(W, qty, o), price |-> o.price, band |-> band]
    OBVIOUS
  <2>2. PICK x \in S : g = [maker |-> x.id, qty |-> Share(W, qty, x), price |-> x.price, band |-> band]
    OBVIOUS
  <2>3. o.id = x.id /\ o \in R /\ x \in R
    BY <1>5, <1>7, <2>1, <2>2
  <2>4. o = x
    BY <2>3 DEF Market, OneId
  <2> QED BY <2>1, <2>2, <2>4
<1>8. IsFiniteSet(FillsOf(R, side, otype, limit, qty))
  BY FillsFinite DEF Market
<1> HIDE DEF F
<1> QED BY <1>1, <1>6, <1>7, <1>8 DEF Deals

(* The makers of the trades have names under the other ids.                *)
MakersOwned(F, own) == \A f \in F : f.maker \in DOMAIN own
(* The makers of such trades have the names their orders have.             *)
LEMMA DealsOwned ==
    ASSUME NEW F, NEW R, NEW side, Deals(F, R, side), NEW own, Owned(R, own)
    PROVE  MakersOwned(F, own)
BY DEF Deals, Owned, MakersOwned

(* A trade under the maker's new name is otherwise the trade it was.       *)
LEMMA RemadeIs ==
    ASSUME NEW own, Rising(own), NEW f \in TradeRecs, f.maker \in DOMAIN own
    PROVE  /\ Remade(f, own) \in TradeRecs /\ Remade(f, own).maker = own[f.maker]
           /\ Remade(f, own).qty = f.qty /\ Remade(f, own).price = f.price
           /\ Remade(f, own).band = f.band
BY DEF Remade, TradeRecs, Rising
(* Different trades stay different.                                        *)
LEMMA RemadeApart ==
    ASSUME NEW own, Rising(own), NEW f \in TradeRecs, f.maker \in DOMAIN own,
           NEW g \in TradeRecs, g.maker \in DOMAIN own
    PROVE  Remade(f, own) = Remade(g, own) => f = g
<1> SUFFICES ASSUME Remade(f, own) = Remade(g, own) PROVE f = g
  OBVIOUS
<1>1. own[f.maker] = own[g.maker] /\ f.qty = g.qty /\ f.price = g.price /\ f.band = g.band
  BY RemadeIs
<1>2. f.maker = g.maker
  BY <1>1, RisingIsOneToOne
<1> QED BY <1>1, <1>2 DEF TradeRecs
(* Renaming the makers does not change the quantity traded.                *)
LEMMA RemadeSum ==
    ASSUME NEW own, Rising(own), NEW F, F \subseteq TradeRecs, IsFiniteSet(F), MakersOwned(F, own)
    PROVE  /\ Priced(F) /\ QtySum(F) \in Nat
           /\ Priced(RemadeAll(F, own)) /\ QtySum(RemadeAll(F, own)) = QtySum(F)
<1> DEFINE g == [f \in F |-> Remade(f, own)]
<1>1. ImageOf(g, F) = RemadeAll(F, own)
  BY DEF ImageOf, RemadeAll
<1>2. \A f \in F : g[f].qty = f.qty
  BY RemadeIs DEF MakersOwned
<1>3. OneToOne(g, F)
  BY RemadeApart DEF OneToOne, MakersOwned
<1>4. Priced(F)
  BY DEF Priced, TradeRecs
<1> HIDE DEF g
<1> QED BY <1>1, <1>2, <1>3, <1>4, SumOfImage, SumType

(* An order trades with the renamed makers as it would with the makers.    *)
LEMMA FillsRenamed ==
    ASSUME NEW R, Market(R), NEW own, Rising(own), Owned(R, own),
           NEW side, NEW otype, NEW limit \in Nat, NEW qty \in Nat
    PROVE  FillsOf(RenamedAll(R, own), side, otype, limit, qty)
             = RemadeAll(FillsOf(R, side, otype, limit, qty), own)
<1> DEFINE market == otype = "MARKET"
           Q == RenamedAll(R, own)
           W == {o \in R : Willing(side, market, limit, o)}
           V == {o \in Q : Willing(side, market, limit, o)}
           bandOf(B) == IF market THEN WorstOpposing(B, side, limit) ELSE limit
           dealt(o, U, band) ==
               [maker |-> o.id, qty |-> Share(U, qty, o), price |-> o.price, band |-> band]
           servedOf(U) == {o \in U : Share(U, qty, o) > 0}
<1>1. \A o \in R : /\ o \in OrderRecs /\ o.id \in DOMAIN own
                   /\ Renamed(o, own).id = own[o.id] /\ Renamed(o, own).side = o.side
                   /\ Renamed(o, own).price = o.price /\ Renamed(o, own).qty = o.qty
  BY RenamedIs DEF Market, Owned
<1>2. V = RenamedAll(W, own)
  BY <1>1 DEF RenamedAll, Willing
<1>3. bandOf(Q) = bandOf(R)
  <2>1. {o.price : o \in {r \in Q : r.side # side}} = {o.price : o \in {r \in R : r.side # side}}
    BY <1>1 DEF RenamedAll
  <2>2. WorstOpposing(Q, side, limit) = WorstOpposing(R, side, limit)
    <3> HIDE DEF Q
    <3> QED BY <2>1 DEF WorstOpposing
  <2> QED BY <2>2
<1>4. W \subseteq OrderRecs /\ IsFiniteSet(W) /\ Owned(W, own) /\ W \subseteq R
  BY FS_Subset DEF Market, Owned
<1>5. Total(V) = Total(W)
  BY <1>2, <1>4, RenamedSum, TotalIsSum
<1> HIDE DEF W, V, Q, bandOf
<1>6. \A o \in W : Share(V, qty, Renamed(o, own)) = Share(W, qty, o)
  BY <1>2, <1>4, RenamedShare
<1>7. servedOf(V) = {Renamed(o, own) : o \in servedOf(W)}
  BY <1>2, <1>6 DEF RenamedAll
<1>8. \A o \in servedOf(W) :
         dealt(Renamed(o, own), V, bandOf(Q)) = Remade(dealt(o, W, bandOf(R)), own)
  <2> TAKE o \in servedOf(W)
  <2>1. o \in W /\ o \in R
    BY <1>4
  <2> QED BY <1>1, <1>3, <1>6, <2>1 DEF Remade
<1>9. {dealt(o, V, bandOf(Q)) : o \in servedOf(V)}
        = RemadeAll({dealt(o, W, bandOf(R)) : o \in servedOf(W)}, own)
  <2> HIDE DEF dealt, servedOf
  <2> QED BY <1>7, <1>8 DEF RemadeAll
<1>10. FillsOf(Q, side, otype, limit, qty)
         = IF otype = "FOK" /\ Total(V) < qty THEN {} ELSE {dealt(o, V, bandOf(Q)) : o \in servedOf(V)}
  BY DEF FillsOf, V, bandOf
<1>11. FillsOf(R, side, otype, limit, qty)
         = IF otype = "FOK" /\ Total(W) < qty THEN {} ELSE {dealt(o, W, bandOf(R)) : o \in servedOf(W)}
  BY DEF FillsOf, W, bandOf
<1>12. RemadeAll({}, own) = {}
  BY DEF RemadeAll
<1> HIDE DEF dealt, servedOf
<1> QED BY <1>5, <1>9, <1>10, <1>11, <1>12 DEF Q

(* What some trades took from an order, under either name.                 *)
TakenBy(F, id) == {f \in F : f.maker = id}
(* What was taken from an order is what was taken from the renamed one.    *)
LEMMA TakenRenamed ==
    ASSUME NEW own, Rising(own), NEW F, F \subseteq TradeRecs, IsFiniteSet(F), MakersOwned(F, own),
           NEW x \in DOMAIN own
    PROVE  /\ Total(TakenBy(F, x)) \in Nat
           /\ TakenBy(RemadeAll(F, own), own[x]) = RemadeAll(TakenBy(F, x), own)
           /\ Total(TakenBy(RemadeAll(F, own), own[x])) = Total(TakenBy(F, x))
<1> DEFINE K == TakenBy(F, x)
<1>1. K \subseteq TradeRecs /\ IsFiniteSet(K) /\ MakersOwned(K, own)
  BY FS_Subset DEF TakenBy, MakersOwned
<1>2. \A f \in F : Remade(f, own).maker = own[x] <=> f.maker = x
  BY RemadeIs, RisingIsOneToOne DEF MakersOwned
<1>3. TakenBy(RemadeAll(F, own), own[x]) = RemadeAll(K, own)
  BY <1>2 DEF TakenBy, RemadeAll
<1> HIDE DEF K
<1>4. QtySum(RemadeAll(K, own)) = QtySum(K) /\ QtySum(K) \in Nat
  BY <1>1, RemadeSum
<1> QED BY <1>3, <1>4, TotalIsSum DEF K

(* The names once the order id is known as n.                              *)
Newest(own, id, n) ==
    /\ id \in Nat /\ n \in Nat
    /\ \A x \in DOMAIN own : x < id /\ own[x] < n

(* A renaming with one more name.                                          *)
Extended(own2, own, id, n) ==
    /\ Rising(own2) /\ DOMAIN own2 = DOMAIN own \cup {id}
    /\ own2[id] = n /\ id \notin DOMAIN own
    /\ \A x \in DOMAIN own : own2[x] = own[x]
(* A renaming that rises still does with the newest order added.           *)
LEMMA PutRises ==
    ASSUME NEW own, Rising(own), NEW id, NEW n, Newest(own, id, n)
    PROVE  Extended(Put(own, id, n), own, id, n)
<1>1. id \notin DOMAIN own
  BY DEF Newest
<1>2. /\ DOMAIN Put(own, id, n) = DOMAIN own \cup {id} /\ Put(own, id, n)[id] = n
      /\ \A x \in DOMAIN own : Put(own, id, n)[x] = own[x]
  BY <1>1 DEF Put
<1>3. ASSUME NEW x \in DOMAIN own \cup {id}, NEW y \in DOMAIN own \cup {id}, x < y
      PROVE  Put(own, id, n)[x] < Put(own, id, n)[y]
  <2>1. x \in DOMAIN own
    <3>1. CASE x = id
      BY <1>3, <3>1 DEF Newest, Rising
    <3> QED BY <3>1
  <2>2. CASE y = id
    BY <1>2, <2>1, <2>2 DEF Newest
  <2>3. CASE y # id
    BY <1>2, <1>3, <2>1, <2>3 DEF Rising
  <2> QED BY <2>2, <2>3
<1> HIDE DEF Put
<1>4. DOMAIN own \cup {id} \subseteq Nat /\ \A x \in DOMAIN own \cup {id} : Put(own, id, n)[x] \in Nat
  BY <1>2 DEF Newest, Rising
<1> QED BY <1>1, <1>2, <1>3, <1>4 DEF Rising, Extended

(* Orders that keep their ids keep their names.                            *)
LEMMA RenamedAgain ==
    ASSUME NEW own, NEW own2, NEW R, Owned(R, own), \A x \in DOMAIN own : own2[x] = own[x]
    PROVE  RenamedAll(R, own2) = RenamedAll(R, own)
BY DEF RenamedAll, Renamed, Owned

(* What is left of the resting orders.                                     *)
LeftOf(R, F) ==
    {[o EXCEPT !.qty = @ - Total(TakenBy(F, o.id))] :
        o \in {r \in R : r.qty > Total(TakenBy(F, r.id))}}
Added(F, id, side, otype, limit, qty) ==
    IF qty - Total(F) > 0 /\ otype \in {"LIMIT", "GFD"}
    THEN {[id |-> id, side |-> side, price |-> limit, qty |-> qty - Total(F)]} ELSE {}
(* The orders left: those the trades did not use up, and the newcomer's    *)
(* rest.                                                                   *)
LEMMA AfterIs ==
    \A R, F, id, side, otype, limit, qty :
        RestingAfter(R, F, id, side, otype, limit, qty)
          = LeftOf(R, F) \cup Added(F, id, side, otype, limit, qty)
BY DEF RestingAfter, LeftOf, Added, TakenBy

(* The orders that are left have the types of orders.                      *)
LEMMA LeftIs ==
    ASSUME NEW R, Market(R), NEW F, \A o \in R : Total(TakenBy(F, o.id)) \in Nat
    PROVE  \A o \in LeftOf(R, F) : o \in OrderRecs /\ \E x \in R :
              /\ o.id = x.id /\ x.qty > Total(TakenBy(F, x.id))
              /\ o = [x EXCEPT !.qty = @ - Total(TakenBy(F, x.id))]
<1> TAKE o \in LeftOf(R, F)
<1>1. PICK x \in R : /\ x.qty > Total(TakenBy(F, x.id))
                     /\ o = [x EXCEPT !.qty = @ - Total(TakenBy(F, x.id))]
  BY DEF LeftOf
<1>2. PICK k \in Nat : k = Total(TakenBy(F, x.id))
  OBVIOUS
<1>3. x \in OrderRecs
  BY DEF Market
<1>4. x.qty \in Nat /\ x.qty > k /\ o = [x EXCEPT !.qty = x.qty - k]
  BY <1>1, <1>2, <1>3 DEF OrderRecs
<1>5. o \in OrderRecs /\ o.id = x.id
  <2>1. x.qty - k \in Nat \ {0}
    BY <1>4
  <2> QED BY <1>3, <1>4, <2>1 DEF OrderRecs
<1> QED BY <1>1, <1>5

(* The id of an order that is new to a market, and what is a market again, *)
(* of orders known before and the newcomer.                                *)
NewTo(R, id) == id \in Nat /\ \A o \in R : o.id # id
MarketAfter(M, R, id) ==
    /\ Market(M)
    /\ \A o \in M : o.id = id \/ \E x \in R : o.id = x.id

(* The orders left are that.                                               *)
LEMMA AfterIsMarket ==
    ASSUME NEW R, Market(R), NEW F, F \subseteq TradeRecs, IsFiniteSet(F),
           NEW id, NewTo(R, id),
           NEW side \in Sides, NEW otype, NEW limit \in Nat, NEW qty \in Nat,
           NEW M, M = RestingAfter(R, F, id, side, otype, limit, qty)
    PROVE  MarketAfter(M, R, id)
<1>0. id \in Nat /\ \A o \in R : o.id # id
  BY DEF NewTo
<1> DEFINE L == LeftOf(R, F)
           A == Added(F, id, side, otype, limit, qty)
<1>1. \A S \in SUBSET F : Total(S) \in Nat
  <2> TAKE S \in SUBSET F
  <2>1. Priced(S)
    BY FS_Subset DEF Priced, TradeRecs
  <2> QED BY <2>1, SumType, TotalIsSum
<1>2. \A o \in R : Total(TakenBy(F, o.id)) \in Nat
  BY <1>1 DEF TakenBy
<1>3. \A o \in L : o \in OrderRecs /\ \E x \in R :
              /\ o.id = x.id /\ x.qty > Total(TakenBy(F, x.id))
              /\ o = [x EXCEPT !.qty = @ - Total(TakenBy(F, x.id))]
  BY <1>2, LeftIs
<1>4. A \subseteq OrderRecs /\ \A o \in A : o.id = id
  <2>1. PICK k \in Nat : k = Total(F)
    BY <1>1
  <2>2. CASE qty - k > 0
    <3>1. qty - k \in Nat \ {0}
      BY <2>2
    <3> QED BY <1>0, <2>1, <3>1 DEF Added, OrderRecs
  <2>3. CASE ~(qty - k > 0)
    BY <2>1, <2>3 DEF Added
  <2> QED BY <2>2, <2>3
<1>5. \A o, p \in A : o = p
  BY DEF Added
<1> HIDE DEF L, A
<1>6. ASSUME NEW o \in L \cup A, NEW p \in L \cup A, o.id = p.id PROVE o = p
  <2>1. CASE o \in L /\ p \in L
    <3>1. PICK x \in R : o.id = x.id /\ o = [x EXCEPT !.qty = @ - Total(TakenBy(F, x.id))]
      BY <1>3, <2>1
    <3>2. PICK y \in R : p.id = y.id /\ p = [y EXCEPT !.qty = @ - Total(TakenBy(F, y.id))]
      BY <1>3, <2>1
    <3>3. x = y
      BY <1>6, <3>1, <3>2 DEF Market, OneId
    <3> QED BY <3>1, <3>2, <3>3
  <2>2. CASE o \in A /\ p \in A
    BY <1>5, <2>2
  <2>3. CASE o \in L /\ p \in A
    BY <1>0, <1>3, <1>4, <1>6, <2>3
  <2>4. CASE o \in A /\ p \in L
    BY <1>0, <1>3, <1>4, <1>6, <2>4
  <2> QED BY <2>1, <2>2, <2>3, <2>4
<1>7. M = L \cup A
  BY AfterIs DEF L, A
<1>8. IsFiniteSet(M)
  BY RestingFinite DEF Market
<1>9. OneId(L \cup A)
  BY <1>6 DEF OneId
<1>10. L \cup A \subseteq OrderRecs
  BY <1>3, <1>4
<1> QED BY <1>3, <1>4, <1>7, <1>8, <1>9, <1>10 DEF Market, MarketAfter

(* The resting orders after the renamed trades are those after the trades, *)
(* renamed.                                                                *)
LEMMA AfterRenamed ==
    ASSUME NEW R, Market(R), NEW own, Rising(own), Owned(R, own),
           NEW F, F \subseteq TradeRecs, IsFiniteSet(F), MakersOwned(F, own),
           NEW id, NEW n, Newest(own, id, n), NEW own2, own2 = Put(own, id, n),
           NEW side, NEW otype, NEW limit, NEW qty
    PROVE  RestingAfter(RenamedAll(R, own), RemadeAll(F, own), n, side, otype, limit, qty)
             = RenamedAll(RestingAfter(R, F, id, side, otype, limit, qty), own2)
<1> DEFINE Q == RenamedAll(R, own)
           G == RemadeAll(F, own)
<1>1. /\ own2[id] = n /\ id \notin DOMAIN own
      /\ \A x \in DOMAIN own : own2[x] = own[x]
  <2>1. Extended(own2, own, id, n)
    BY PutRises
  <2> QED BY <2>1 DEF Extended
<1>2. Total(G) = Total(F)
  BY RemadeSum, TotalIsSum
<1>3. Added(G, n, side, otype, limit, qty) = RenamedAll(Added(F, id, side, otype, limit, qty), own2)
  <2> DEFINE a(i) == [id |-> i, side |-> side, price |-> limit, qty |-> qty - Total(F)]
             rests == qty - Total(F) > 0 /\ otype \in {"LIMIT", "GFD"}
  <2>1. Added(F, id, side, otype, limit, qty) = IF rests THEN {a(id)} ELSE {}
    BY DEF Added
  <2>2. Added(G, n, side, otype, limit, qty) = IF rests THEN {a(n)} ELSE {}
    BY <1>2 DEF Added
  <2>3. Renamed(a(id), own2) = a(n)
    BY <1>1 DEF Renamed
  <2> HIDE DEF a, rests
  <2>4. RenamedAll({a(id)}, own2) = {a(n)} /\ RenamedAll({}, own2) = {}
    BY <2>3 DEF RenamedAll
  <2> QED BY <2>1, <2>2, <2>4
<1>4. \A o \in R : /\ o \in OrderRecs /\ o.id \in DOMAIN own /\ Renamed(o, own).id = own[o.id]
                   /\ Renamed(o, own).qty = o.qty
                   /\ Total(TakenBy(G, own[o.id])) = Total(TakenBy(F, o.id))
                   /\ Total(TakenBy(F, o.id)) \in Nat
  <2> HIDE DEF G
  <2> TAKE o \in R
  <2>1. o \in OrderRecs /\ o.id \in DOMAIN own
    BY DEF Market, Owned
  <2> QED BY <2>1, RenamedIs, TakenRenamed DEF G
<1> HIDE DEF G
<1>5. LeftOf(Q, G) = RenamedAll(LeftOf(R, F), own2)
  <2> DEFINE k(o) == Total(TakenBy(F, o.id))
             kept == {r \in R : r.qty > k(r)}
             less(o) == [o EXCEPT !.qty = @ - k(o)]
             cut(o) == [o EXCEPT !.qty = @ - Total(TakenBy(G, o.id))]
  <2>1. {q \in Q : q.qty > Total(TakenBy(G, q.id))} = {Renamed(o, own) : o \in kept}
    BY <1>4 DEF RenamedAll
  <2>2. \A o \in kept : cut(Renamed(o, own)) = Renamed(less(o), own2)
    <3> TAKE o \in kept
    <3>1. o \in OrderRecs /\ o.id \in DOMAIN own
      BY <1>4
    <3>2. Renamed(o, own) = [id |-> own[o.id], side |-> o.side, price |-> o.price, qty |-> o.qty]
      BY <3>1 DEF Renamed, OrderRecs
    <3>3. less(o) = [id |-> o.id, side |-> o.side, price |-> o.price, qty |-> o.qty - k(o)]
      <4> HIDE DEF k
      <4> QED BY <3>1 DEF OrderRecs
    <3>4. Renamed(less(o), own2) = [id |-> own2[o.id], side |-> o.side, price |-> o.price, qty |-> o.qty - k(o)]
      <4> HIDE DEF k, less
      <4> QED BY <3>3 DEF Renamed
    <3>5. cut(Renamed(o, own)) = [id |-> own[o.id], side |-> o.side, price |-> o.price,
                                  qty |-> o.qty - Total(TakenBy(G, own[o.id]))]
      BY <3>2
    <3>6. own2[o.id] = own[o.id] /\ Total(TakenBy(G, own[o.id])) = k(o)
      BY <1>1, <1>4, <3>1
    <3> HIDE DEF k, less, cut
    <3> QED BY <3>4, <3>5, <3>6
  <2>3. LeftOf(Q, G) = {cut(q) : q \in {q \in Q : q.qty > Total(TakenBy(G, q.id))}}
    BY DEF LeftOf
  <2>4. LeftOf(R, F) = {less(o) : o \in kept}
    BY DEF LeftOf
  <2> HIDE DEF less, cut, kept, Q
  <2> QED BY <2>1, <2>2, <2>3, <2>4 DEF RenamedAll
<1>6. RestingAfter(Q, G, n, side, otype, limit, qty)
        = LeftOf(Q, G) \cup Added(G, n, side, otype, limit, qty)
  BY AfterIs
<1>7. RestingAfter(R, F, id, side, otype, limit, qty)
        = LeftOf(R, F) \cup Added(F, id, side, otype, limit, qty)
  BY AfterIs
<1>8. \A S, U : RenamedAll(S \cup U, own2) = RenamedAll(S, own2) \cup RenamedAll(U, own2)
  BY DEF RenamedAll
<1> HIDE DEF Q
<1> QED BY <1>3, <1>5, <1>6, <1>7, <1>8 DEF G, Q

(* Prices survive the wire.                                                *)
LEMMA TickOfMills == ASSUME NEW p \in Nat PROVE ToTick(Mills(p)) = p
BY DEF ToTick, Mills

(* The quantity at some places of a sequence is the sum of what they hold. *)
LEMMA SumOfPlaces ==
    ASSUME NEW s, NEW P, IsFiniteSet(P), NEW g, OneToOne(g, P),
           \A i \in P : g[i].qty = s[i].qty /\ s[i].qty \in Nat
    PROVE  SumOf(s, P) = QtySum(ImageOf(g, P))
<1> DEFINE at == [i \in P |-> [at |-> i, qty |-> s[i].qty]]
           S == {[at |-> i, qty |-> s[i].qty] : i \in P}
           f == [x \in S |-> g[x.at]]
<1>1. SumOf(s, P) = QtySum(S)
  BY DEF SumOf, QtySum
<1>2. Priced(S)
  <2>1. S = ImageOf(at, P)
    BY DEF ImageOf
  <2>2. IsFiniteSet(S)
    <3> HIDE DEF S, at
    <3> QED BY <2>1, ImageFinite
  <2> QED BY <2>2 DEF Priced
<1>3. ImageOf(f, S) = ImageOf(g, P)
  <2>1. \A i \in P : [at |-> i, qty |-> s[i].qty] \in S /\ f[[at |-> i, qty |-> s[i].qty]] = g[i]
    OBVIOUS
  <2>2. \A x \in S : \E i \in P : f[x] = g[i]
    OBVIOUS
  <2> HIDE DEF f, S
  <2>3. ImageOf(f, S) = {f[x] : x \in S} /\ ImageOf(g, P) = {g[i] : i \in P}
    BY DEF ImageOf
  <2>4. \A y \in {f[x] : x \in S} : y \in {g[i] : i \in P}
    BY <2>2
  <2>5. ASSUME NEW i \in P PROVE g[i] \in {f[x] : x \in S}
    BY <2>1
  <2> QED BY <2>3, <2>4, <2>5
<1>4. OneToOne(f, S)
  BY DEF OneToOne
<1>5. \A x \in S : f[x].qty = x.qty
  OBVIOUS
<1> HIDE DEF S, f
<1> QED BY <1>1, <1>2, <1>3, <1>4, <1>5, SumOfImage

(* A reported trade, as the replay takes it in.                            *)
ShownPrice(f) == ToTick(Mills(IF atMaker THEN f.price ELSE f.band))

(* A trade as the replay reads it from the record of the fill.             *)
Shown(f, own) ==
    [known |-> f.maker \in DOMAIN own,
     maker |-> IF f.maker \in DOMAIN own THEN own[f.maker] ELSE 0,
     qty |-> f.qty, price |-> ShownPrice(f)]
ShownAll(fs, own) == [k \in 1..Len(fs) |-> Shown(fs[k], own)]

ShownRight(sh, f, own) ==
    sh.known /\ sh.maker = own[f.maker] /\ sh.price = ShownPrice(f) /\ sh.qty = f.qty
(* A fill the bot reports with a maker it knows of shows it under the      *)
(* bot's id, at the tick the trade was made at.                            *)
LEMMA ShownIs ==
    ASSUME NEW own, NEW f, f.maker \in DOMAIN own
    PROVE  ShownRight(Shown(f, own), f, own)
BY DEF Shown, ShownRight
(* A trade, as a fill of the contract.                                     *)
AsFill(t) == [maker |-> t.maker, qty |-> t.qty, price |-> t.makerPrice, band |-> t.aggLimit]
(* The expected trades as a set of the contract's trades, member by        *)
(* member.                                                                 *)
LEMMA FillSetIs ==
    ASSUME NEW ts
    PROVE  /\ \A t \in ToSet(ts) : \E e \in FillSet(ts) : /\ e.maker = t.maker /\ e.qty = t.qty
                                            /\ e.price = t.makerPrice /\ e.band = t.aggLimit
           /\ \A e \in FillSet(ts) : \E t \in ToSet(ts) : /\ e.maker = t.maker /\ e.qty = t.qty
                                            /\ e.price = t.makerPrice /\ e.band = t.aggLimit
<1>1. \A t : /\ AsFill(t).maker = t.maker /\ AsFill(t).qty = t.qty
             /\ AsFill(t).price = t.makerPrice /\ AsFill(t).band = t.aggLimit
  BY DEF AsFill
<1>2. FillSet(ts) = {AsFill(t) : t \in ToSet(ts)}
  BY DEF FillSet, AsFill
<1> QED BY <1>1, <1>2

(* The reported trades are those expected, under the bot's ids.            *)
Between(p, a, b) == (a <= p /\ p <= b) \/ (b <= p /\ p <= a)

(* The rule of diffAggressor, on sets of trades.                           *)
SameDeals(E, F, own) ==
    /\ QtySum(E) = QtySum(F)
    /\ \A e \in E : QtySum({f \in F : own[f.maker] = e.maker}) = e.qty
    /\ \A f \in F : \E e \in E : e.maker = own[f.maker] /\ Between(ShownPrice(f), e.price, e.band)

(* The sums diffAggressor compares.                                        *)
LEMMA ExpectedSum ==
    ASSUME NEW ts, NEW band, TradesOnce(ts, band)
    PROVE  SumOf(ts, DOMAIN ts) = QtySum(FillSet(ts))
<1> DEFINE g == [i \in 1..Len(ts) |->
                   [maker |-> ts[i].maker, qty |-> ts[i].qty, price |-> ts[i].makerPrice,
                    band |-> ts[i].aggLimit]]
<1>1. /\ Len(ts) \in Nat /\ DOMAIN ts = 1..Len(ts)
      /\ \A i \in 1..Len(ts) : ts[i] \in Tradings(band)
      /\ \A i, j \in 1..Len(ts) : ts[i].maker = ts[j].maker => i = j
  BY LenProperties, ElementOfSeq DEF TradesOnce
<1>2. IsFiniteSet(1..Len(ts))
  BY <1>1, FS_Interval
<1>3. OneToOne(g, 1..Len(ts)) /\ \A i \in 1..Len(ts) : g[i].qty = ts[i].qty /\ ts[i].qty \in Nat
  BY <1>1 DEF OneToOne, Tradings
<1>4. ImageOf(g, 1..Len(ts)) = FillSet(ts)
  BY <1>1 DEF ImageOf, FillSet, ToSet
<1> HIDE DEF g
<1>5. SumOf(ts, 1..Len(ts)) = QtySum(ImageOf(g, 1..Len(ts)))
  BY <1>2, <1>3, SumOfPlaces
<1> QED BY <1>1, <1>4, <1>5

(* The reported quantity, summed over places of the report, is that of the *)
(* trades there.                                                           *)
LEMMA ReportedSum ==
    ASSUME NEW F, F \subseteq TradeRecs, IsFiniteSet(F), NEW fs, Listing(fs, F), NEW own,
           NEW fills, fills = ShownAll(fs, own), NEW K \in SUBSET (1..Len(fs))
    PROVE  SumOf(fills, K) = QtySum({fs[i] : i \in K})
<1>1. Len(fs) \in Nat /\ \A i \in 1..Len(fs) : fs[i] \in F
  BY SequenceIs DEF Listing
<1>2. IsFiniteSet(K)
  <2>1. IsFiniteSet(1..Len(fs))
    BY <1>1, FS_Interval
  <2> QED BY <2>1, FS_Subset
<1>3. \A i \in K : fs[i].qty = fills[i].qty /\ fills[i].qty \in Nat
  BY <1>1 DEF ShownAll, Shown, TradeRecs
<1>4. OneToOne(fs, K)
  BY DEF OneToOne, Listing
<1>5. SumOf(fills, K) = QtySum(ImageOf(fs, K))
  BY <1>2, <1>3, <1>4, SumOfPlaces
<1> QED BY <1>5 DEF ImageOf

(* What diffAggressor says of trades whose makers are known.               *)
LEMMA DiffSays ==
    ASSUME NEW ts, NEW band, TradesOnce(ts, band), NEW own,
           NEW F, F \subseteq TradeRecs, IsFiniteSet(F), MakersOwned(F, own),
           NEW fs, Listing(fs, F), NEW fills, fills = ShownAll(fs, own)
    PROVE  DiffAggressor(ts, fills)
             = IF SameDeals(FillSet(ts), F, own) THEN "correct" ELSE "incorrect"
<1> DEFINE E == FillSet(ts)
           filled(m) == SumOf(fills, {i \in DOMAIN fills : fills[i].maker = m})
           sums == SumOf(ts, DOMAIN ts) = SumOf(fills, DOMAIN fills)
           shares == \A t \in ToSet(ts) : filled(t.maker) = t.qty
           prices == \A f \in ToSet(fills) : \E t \in ToSet(ts) : t.maker = f.maker /\ InBand(f.price, t)
<1>1. /\ Len(fs) \in Nat /\ DOMAIN fills = 1..Len(fs)
      /\ \A i \in 1..Len(fs) : fs[i] \in F /\ fs[i].maker \in DOMAIN own /\ fills[i] = Shown(fs[i], own)
      /\ \A f \in F : \E i \in 1..Len(fs) : fs[i] = f
  BY SequenceIs DEF Listing, ShownAll, MakersOwned
<1>2. \A i \in 1..Len(fs) : /\ fills[i].known /\ fills[i].maker = own[fs[i].maker]
                            /\ fills[i].price = ShownPrice(fs[i])
  <2> TAKE i \in 1..Len(fs)
  <2>1. fills[i] = Shown(fs[i], own) /\ fs[i].maker \in DOMAIN own
    BY <1>1
  <2>2. /\ Shown(fs[i], own).known /\ Shown(fs[i], own).maker = own[fs[i].maker]
        /\ Shown(fs[i], own).price = ShownPrice(fs[i])
    <3>1. PICK x : x = fs[i]
      OBVIOUS
    <3>2. x.maker \in DOMAIN own
      BY <2>1, <3>1
    <3>3. ShownRight(Shown(x, own), x, own)
      BY <3>2, ShownIs
    <3> QED BY <3>1, <3>3 DEF ShownRight
  <2> QED BY <2>1, <2>2
<1>3. \A f \in ToSet(fills) : f.known
  BY <1>1, <1>2 DEF ToSet
<1>4. DiffAggressor(ts, fills) = IF sums /\ shares /\ prices THEN "correct" ELSE "incorrect"
  BY <1>3 DEF DiffAggressor
<1>5. sums <=> QtySum(E) = QtySum(F)
  <2>1. {fs[i] : i \in 1..Len(fs)} = F
    BY <1>1
  <2>2. SumOf(fills, 1..Len(fs)) = QtySum({fs[i] : i \in 1..Len(fs)})
    BY ReportedSum
  <2>3. SumOf(ts, DOMAIN ts) = QtySum(E)
    BY ExpectedSum
  <2> QED BY <1>1, <2>1, <2>2, <2>3
<1>6. \A m : filled(m) = QtySum({f \in F : own[f.maker] = m})
  <2> TAKE m
  <2> DEFINE K == {i \in DOMAIN fills : fills[i].maker = m}
  <2>1. K \in SUBSET (1..Len(fs))
    BY <1>1
  <2>2. {fs[i] : i \in K} = {f \in F : own[f.maker] = m}
    <3>1. \A i \in 1..Len(fs) : i \in K <=> own[fs[i].maker] = m
      BY <1>1, <1>2
    <3> HIDE DEF K
    <3>2. ASSUME NEW f \in F, own[f.maker] = m PROVE f \in {fs[i] : i \in K}
      <4>1. PICK i \in 1..Len(fs) : fs[i] = f
        BY <1>1
      <4> QED BY <3>1, <3>2, <4>1
    <3>3. ASSUME NEW i \in K PROVE fs[i] \in F /\ own[fs[i].maker] = m
      BY <1>1, <2>1, <3>1
    <3> QED BY <3>2, <3>3
  <2> HIDE DEF K
  <2>3. SumOf(fills, K) = QtySum({fs[i] : i \in K})
    BY <2>1, ReportedSum
  <2> QED BY <2>2, <2>3 DEF K
<1> HIDE DEF filled
<1>7. shares <=> \A e \in E : QtySum({f \in F : own[f.maker] = e.maker}) = e.qty
  <2> HIDE DEF E
  <2>1. \A t \in ToSet(ts) : \E e \in E : e.maker = t.maker /\ e.qty = t.qty
    BY FillSetIs DEF E
  <2>2. \A e \in E : \E t \in ToSet(ts) : e.maker = t.maker /\ e.qty = t.qty
    BY FillSetIs DEF E
  <2>3. ASSUME shares, NEW e \in E PROVE QtySum({f \in F : own[f.maker] = e.maker}) = e.qty
    <3>1. PICK t \in ToSet(ts) : e.maker = t.maker /\ e.qty = t.qty
      BY <2>2
    <3>2. filled(t.maker) = t.qty
      BY <2>3
    <3> QED BY <1>6, <3>1, <3>2
  <2>4. ASSUME \A e \in E : QtySum({f \in F : own[f.maker] = e.maker}) = e.qty, NEW t \in ToSet(ts)
        PROVE  filled(t.maker) = t.qty
    <3>1. PICK e \in E : e.maker = t.maker /\ e.qty = t.qty
      BY <2>1
    <3> QED BY <1>6, <2>4, <3>1
  <2> QED BY <2>3, <2>4
<1>8. prices <=> \A f \in F : \E e \in E : e.maker = own[f.maker] /\ Between(ShownPrice(f), e.price, e.band)
  <2>2. \A t, p : InBand(p, t) <=> Between(p, t.makerPrice, t.aggLimit)
    BY DEF InBand, Between
  <2>3. \A m, p : (\E t \in ToSet(ts) : t.maker = m /\ InBand(p, t))
                    <=> (\E e \in E : e.maker = m /\ Between(p, e.price, e.band))
    <3> TAKE m, p
    <3>1. ASSUME NEW t \in ToSet(ts), t.maker = m, InBand(p, t)
          PROVE  \E e \in E : e.maker = m /\ Between(p, e.price, e.band)
      <4>1. PICK e \in E : e.maker = t.maker /\ e.price = t.makerPrice /\ e.band = t.aggLimit
        BY FillSetIs
      <4> QED BY <2>2, <3>1, <4>1
    <3>2. ASSUME NEW e \in E, e.maker = m, Between(p, e.price, e.band)
          PROVE  \E t \in ToSet(ts) : t.maker = m /\ InBand(p, t)
      <4>1. PICK t \in ToSet(ts) : e.maker = t.maker /\ e.price = t.makerPrice /\ e.band = t.aggLimit
        BY FillSetIs
      <4> QED BY <2>2, <3>2, <4>1
    <3> QED BY <3>1, <3>2
  <2> HIDE DEF E
  <2>4. prices <=> \A i \in 1..Len(fs) : \E t \in ToSet(ts) :
                      t.maker = own[fs[i].maker] /\ InBand(ShownPrice(fs[i]), t)
    <3>1. ToSet(fills) = {fills[i] : i \in 1..Len(fs)}
      BY <1>1 DEF ToSet
    <3>2. prices <=> \A i \in 1..Len(fs) : \E t \in ToSet(ts) :
                      t.maker = fills[i].maker /\ InBand(fills[i].price, t)
      BY <3>1
    <3> HIDE DEF prices
    <3> QED BY <1>2, <3>2
  <2>5. (\A i \in 1..Len(fs) : \E t \in ToSet(ts) :
                      t.maker = own[fs[i].maker] /\ InBand(ShownPrice(fs[i]), t))
        <=> (\A f \in F : \E t \in ToSet(ts) : t.maker = own[f.maker] /\ InBand(ShownPrice(f), t))
    BY <1>1
  <2> HIDE DEF prices
  <2> QED BY <2>3, <2>4, <2>5
<1> HIDE DEF sums, shares, prices, E
<1> QED BY <1>4, <1>5, <1>7, <1>8 DEF SameDeals, E

-----------------------------------------------------------------------------
(* A sum over one thing.                                                   *)
LEMMA SumOfOne == ASSUME NEW x, x.qty \in Nat PROVE QtySum({x}) = x.qty
<1>1. Priced({}) /\ x \notin {}
  BY FS_EmptySet DEF Priced
<1>2. QtySum({} \cup {x}) = QtySum({}) + x.qty
  BY <1>1, SumAdd
<1>3. {} \cup {x} = {x}
  OBVIOUS
<1> QED BY <1>2, <1>3, SumEmpty

(* The price shown lies between the maker's and the aggressor's.           *)
LEMMA ShownBetween ==
    ASSUME NEW f \in TradeRecs
    PROVE  ShownPrice(f) \in {f.price, f.band} /\ Between(ShownPrice(f), f.price, f.band)
<1>1. f.price \in Nat /\ f.band \in Nat
  BY DEF TradeRecs
<1>2. ShownPrice(f) = IF atMaker THEN f.price ELSE f.band
  BY <1>1, TickOfMills DEF ShownPrice
<1> QED BY <1>1, <1>2 DEF Between

(* Trades reported as they are expected are the same deals.                *)
LEMMA HonestSame ==
    ASSUME NEW R, NEW side, NEW F, Deals(F, R, side), NEW own, Rising(own), MakersOwned(F, own)
    PROVE  SameDeals(RemadeAll(F, own), F, own)
<1> DEFINE E == RemadeAll(F, own)
<1>1. F \subseteq TradeRecs /\ IsFiniteSet(F) /\ \A f, g \in F : f.maker = g.maker => f = g
  BY DEF Deals
<1>2. QtySum(E) = QtySum(F)
  BY <1>1, RemadeSum
<1>3. \A f \in F : /\ f \in TradeRecs /\ f.maker \in DOMAIN own
                   /\ Remade(f, own).maker = own[f.maker] /\ Remade(f, own).qty = f.qty
                   /\ Remade(f, own).price = f.price /\ Remade(f, own).band = f.band
  BY <1>1, RemadeIs DEF MakersOwned
<1>4. ASSUME NEW e \in E PROVE QtySum({f \in F : own[f.maker] = e.maker}) = e.qty
  <2>1. PICK g \in F : e = Remade(g, own)
    BY DEF RemadeAll
  <2>2. \A f \in F : own[f.maker] = e.maker <=> f = g
    BY <1>1, <1>3, <2>1, RisingIsOneToOne
  <2>3. {f \in F : own[f.maker] = e.maker} = {g}
    BY <2>2
  <2>4. g.qty \in Nat /\ e.qty = g.qty
    BY <1>3, <2>1 DEF TradeRecs
  <2> QED BY <2>3, <2>4, SumOfOne
<1>5. ASSUME NEW f \in F
      PROVE  \E e \in E : e.maker = own[f.maker] /\ Between(ShownPrice(f), e.price, e.band)
  <2>1. Between(ShownPrice(f), f.price, f.band)
    BY <1>3, ShownBetween
  <2>2. Remade(f, own) \in E
    BY DEF RemadeAll
  <2> QED BY <1>3, <2>1, <2>2
<1> HIDE DEF E
<1> QED BY <1>2, <1>4, <1>5 DEF SameDeals, E

(* The fields of a request.                                                *)
LEMMA RequestIs ==
    ASSUME NEW req \in Requests
    PROVE  /\ req.ticker \in Tickers /\ req.side \in Sides /\ req.otype \in OrderTypes
           /\ req.price \in Nat /\ req.qty \in Nat \ {0} /\ req.qty \in Nat
BY RunBounds

(* A trade's makers, quantity and prices are of their types.               *)
LEMMA TradeIs ==
    ASSUME NEW f \in TradeRecs
    PROVE  /\ f.maker \in Nat /\ f.qty \in Nat /\ f.qty > 0 /\ f.price \in Nat /\ f.band \in Nat
           /\ f = [maker |-> f.maker, qty |-> f.qty, price |-> f.price, band |-> f.band]
BY DEF TradeRecs

(* The trade the server should not have made: with an order that had none. *)
LEMMA UnmadeIs ==
    ASSUME NEW req \in Requests, NEW R, R = resting[req.ticker], Market(R), NEW own, Owned(R, own),
           NEW x \in Unmade(req)
    PROVE  /\ x \in TradeRecs /\ x.qty = 1 /\ x.maker \in DOMAIN own
           /\ \A f \in HonestFills(req) : f.maker # x.maker
<1>1. PICK o \in R : /\ x = [maker |-> o.id, qty |-> 1, price |-> o.price, band |-> o.price]
                     /\ \A f \in HonestFills(req) : f.maker # o.id
  BY DEF Unmade
<1>2. o.id \in Nat /\ o.price \in Nat
  BY DEF Market, OrderRecs
<1>3. o.id \in DOMAIN own
  BY DEF Owned
<1>4. x.maker = o.id /\ x.qty = 1
  BY <1>1
<1>5. x \in TradeRecs
  BY <1>1, <1>2 DEF TradeRecs
<1> QED BY <1>1, <1>3, <1>4, <1>5

(* A trade at a price beyond both sides of its band.                       *)
LEMMA OverpricedIs ==
    ASSUME NEW f \in TradeRecs
    PROVE  /\ Overpriced(f) \in TradeRecs /\ Overpriced(f).maker = f.maker
           /\ Overpriced(f).price = Overpriced(f).band
           /\ Overpriced(f).price > f.price /\ Overpriced(f).price > f.band
<1> DEFINE top == Max({f.price, f.band})
<1>1. f.price \in Nat /\ f.band \in Nat /\ f.maker \in Nat /\ f.qty \in Nat \ {0}
  BY DEF TradeRecs
<1>2. f = [maker |-> f.maker, qty |-> f.qty, price |-> f.price, band |-> f.band]
  BY TradeIs
<1>3. top \in Nat /\ top >= f.price /\ top >= f.band
  <2>1. \E x \in {f.price, f.band} : \A y \in {f.price, f.band} : x >= y
    BY <1>1
  <2> QED BY <1>1, <2>1 DEF Max
<1>4. Overpriced(f) = [f EXCEPT !.price = top + 1, !.band = top + 1]
  BY DEF Overpriced
<1> HIDE DEF top
<1>5. Overpriced(f) = [maker |-> f.maker, qty |-> f.qty, price |-> top + 1, band |-> top + 1]
  BY <1>2, <1>4
<1> QED BY <1>1, <1>3, <1>5 DEF TradeRecs

(* Trades of known makers that are not the expected ones.                  *)
WrongOf(w, own, E) ==
    w \subseteq TradeRecs /\ IsFiniteSet(w) /\ MakersOwned(w, own) /\ ~SameDeals(E, w, own)

(* Whatever a server reports in place of the trades the contract gives,    *)
(* the diff can tell.                                                      *)
LEMMA WrongDiffers ==
    ASSUME NEW req \in Requests, NEW R, R = resting[req.ticker], Market(R),
           NEW own, Rising(own), Owned(R, own), NEW h, h = HonestFills(req), NEW w \in WrongFills(req)
    PROVE  WrongOf(w, own, RemadeAll(h, own))
<1>1. Deals(h, R, req.side)
  BY RequestIs, FillsAreDeals DEF HonestFills
<1>2. h \subseteq TradeRecs /\ IsFiniteSet(h) /\ MakersOwned(h, own)
  <2>1. MakersOwned(h, own)
    BY <1>1, DealsOwned
  <2> QED BY <1>1, <2>1 DEF Deals
<1>3. \A f, g \in h : f.maker = g.maker => f = g
  BY <1>1 DEF Deals
<1> DEFINE E == RemadeAll(h, own)
<1>4. QtySum(E) = QtySum(h) /\ Priced(h)
  BY <1>2, RemadeSum
<1>5. \A e \in E : \E g \in h : /\ e.maker = own[g.maker] /\ e.price = g.price /\ e.band = g.band
                                /\ g.maker \in DOMAIN own
  <2> TAKE e \in E
  <2>1. PICK g \in h : e = Remade(g, own)
    BY DEF RemadeAll
  <2>2. g \in TradeRecs /\ g.maker \in DOMAIN own
    BY <1>2 DEF MakersOwned
  <2> QED BY <2>1, <2>2, RemadeIs
<1> HIDE DEF E
<1>6. \A f \in h : f \in TradeRecs /\ f.qty \in Nat /\ f.qty > 0
  BY <1>2, TradeIs
<1>7. \A f \in h : /\ QtySum(h) = f.qty + QtySum(h \ {f}) /\ QtySum(h \ {f}) \in Nat
                   /\ IsFiniteSet(h \ {f})
  <2> TAKE f \in h
  <2>1. QtySum(h) = f.qty + QtySum(h \ {f})
    BY <1>4, SumOfRest
  <2>2. IsFiniteSet(h \ {f})
    BY <1>2, FiniteLess
  <2>3. Priced(h \ {f})
    BY <1>6, <2>2 DEF Priced
  <2> QED BY <2>1, <2>2, <2>3, SumType
<1>8. ASSUME NEW f \in h, w = h \ {f} PROVE WrongOf(w, own, E)
  <2>1. w \subseteq TradeRecs /\ IsFiniteSet(w) /\ MakersOwned(w, own)
    BY <1>2, <1>7, <1>8 DEF MakersOwned
  <2>2. QtySum(E) # QtySum(w)
    BY <1>4, <1>6, <1>7, <1>8
  <2> QED BY <2>1, <2>2 DEF WrongOf, SameDeals
<1>9. \A x \in Unmade(req) : /\ x \in TradeRecs /\ x.qty = 1 /\ x.maker \in DOMAIN own
                             /\ \A f \in h : f.maker # x.maker
  BY UnmadeIs
<1>10. ASSUME NEW x \in Unmade(req), w = h \cup {x} PROVE WrongOf(w, own, E)
  <2>1. x \in TradeRecs /\ x.qty = 1 /\ x.maker \in DOMAIN own /\ x \notin h
    BY <1>9
  <2>2. w \subseteq TradeRecs /\ IsFiniteSet(w) /\ MakersOwned(w, own)
    BY <1>2, <1>10, <2>1, FiniteMore DEF MakersOwned
  <2>3. QtySum(w) = QtySum(h) + 1
    BY <1>4, <1>10, <2>1, SumAdd
  <2>4. QtySum(h) \in Nat
    BY <1>4, SumType
  <2> QED BY <1>4, <2>2, <2>3, <2>4 DEF WrongOf, SameDeals
<1>11. ASSUME NEW f \in h, NEW x \in Unmade(req), w = (h \ {f}) \cup {[x EXCEPT !.qty = f.qty]}
       PROVE  WrongOf(w, own, E)
  <2> DEFINE y == [x EXCEPT !.qty = f.qty]
  <2>1. x \in TradeRecs /\ x.maker \in DOMAIN own /\ \A g \in h : g.maker # x.maker
    BY <1>9
  <2>2. y \in TradeRecs /\ y.maker = x.maker
    BY <1>6, <2>1 DEF TradeRecs
  <2> HIDE DEF y
  <2>3. w = (h \ {f}) \cup {y}
    BY <1>11 DEF y
  <2>4. w \subseteq TradeRecs /\ IsFiniteSet(w) /\ MakersOwned(w, own)
    BY <1>2, <1>7, <2>1, <2>2, <2>3, FiniteMore DEF MakersOwned
  <2>5. ~\E e \in E : e.maker = own[y.maker]
    <3> SUFFICES ASSUME NEW e \in E, e.maker = own[y.maker] PROVE FALSE
      OBVIOUS
    <3>1. PICK g \in h : e.maker = own[g.maker] /\ g.maker \in DOMAIN own
      BY <1>5
    <3>2. g.maker = y.maker
      BY <2>1, <2>2, <3>1, RisingIsOneToOne
    <3> QED BY <2>1, <2>2, <3>2
  <2> QED BY <2>3, <2>4, <2>5 DEF WrongOf, SameDeals
<1>12. ASSUME NEW f \in h, w = (h \ {f}) \cup {Overpriced(f)} PROVE WrongOf(w, own, E)
  <2> DEFINE y == Overpriced(f)
  <2>1. y \in TradeRecs /\ y.maker = f.maker /\ y.price = y.band /\ y.price > f.price /\ y.price > f.band
    BY <1>6, OverpricedIs
  <2> HIDE DEF y
  <2>2. w = (h \ {f}) \cup {y}
    BY <1>12 DEF y
  <2>3. f.maker \in DOMAIN own /\ f \in TradeRecs
    BY <1>2 DEF MakersOwned
  <2>4. w \subseteq TradeRecs /\ IsFiniteSet(w) /\ MakersOwned(w, own)
    BY <1>2, <1>7, <2>1, <2>2, <2>3, FiniteMore DEF MakersOwned
  <2>5. ShownPrice(y) = y.price
    BY <2>1, ShownBetween
  <2>6. ~\E e \in E : e.maker = own[y.maker] /\ Between(ShownPrice(y), e.price, e.band)
    <3> SUFFICES ASSUME NEW e \in E, e.maker = own[y.maker], Between(ShownPrice(y), e.price, e.band)
                 PROVE  FALSE
      OBVIOUS
    <3>1. PICK g \in h : e.maker = own[g.maker] /\ g.maker \in DOMAIN own
                         /\ e.price = g.price /\ e.band = g.band
      BY <1>5
    <3>2. g.maker = f.maker
      BY <2>1, <2>3, <3>1, RisingIsOneToOne
    <3>3. g = f
      BY <1>3, <3>2
    <3>4. Between(y.price, f.price, f.band)
      BY <2>5, <3>1, <3>3
    <3>5. y.price \in Nat /\ f.price \in Nat /\ f.band \in Nat
      BY <2>1, <2>3, TradeIs
    <3> QED BY <2>1, <3>4, <3>5 DEF Between
  <2> QED BY <2>2, <2>4, <2>6 DEF WrongOf, SameDeals
<1>13. \/ \E f \in h : w = h \ {f}
       \/ \E x \in Unmade(req) : w = h \cup {x}
       \/ \E f \in h, x \in Unmade(req) : w = (h \ {f}) \cup {[x EXCEPT !.qty = f.qty]}
       \/ \E f \in h : w = (h \ {f}) \cup {Overpriced(f)}
  BY DEF WrongFills
<1> QED BY <1>8, <1>10, <1>11, <1>12, <1>13 DEF E

-----------------------------------------------------------------------------
(* Part 4: the replay of a run, step by step, and its verdict.             *)

(* Two replay states that trust, own and report alike.                     *)
Alike(f, st) ==
    /\ f.books = st.books /\ f.owner = st.owner /\ f.taint = st.taint
    /\ f.aggressors = st.aggressors /\ f.observed = st.observed

(* What the replay does with an attempt that was not answered.             *)
Doubted(f, st, ev) ==
    /\ f.books = st.books /\ f.owner = st.owner /\ f.taint = MarkTaint(st.taint, ev.ticker, ev.seq)
    /\ f.aggressors = st.aggressors /\ f.observed = st.observed

(* What it does with a cancel that was answered.                           *)
Cancelled(f, st, ev) ==
    /\ f.owner = st.owner /\ f.taint = st.taint
    /\ f.aggressors = st.aggressors /\ f.observed = st.observed
    /\ ev.target \in DOMAIN st.owner =>
         f.books = [t \in Tickers |-> Cancel(st.books[t], st.owner[ev.target])]

(* What it does with an order that was answered.                           *)
Ordered(f, st, ev, r) ==
    /\ f.taint = st.taint /\ f.observed = st.observed
    /\ f.owner = Put(st.owner, ev.server, ev.id)
    /\ f.books = [st.books EXCEPT ![ev.ticker] = r.book]
    /\ f.aggressors = Append(st.aggressors, [id |-> ev.id, ticker |-> ev.ticker,
                                             seq |-> ev.seq, trades |-> r.trades])

(* A rejected attempt changes no book.                                     *)
LEMMA RejectedStep ==
    ASSUME NEW st, ReplayFields(st), NEW ev, Attempt(ev), ev.outcome = "REJECTED",
           NEW f, f = ReplayEvent(st, ev)
    PROVE  Alike(f, st)
<1>1. f = [st EXCEPT !.attempts = @ + 1]
  BY DEF ReplayEvent, Attempt, Sides
<1> QED BY <1>1 DEF Alike, ReplayFields

(* An unanswered attempt costs its ticker the trust, and changes no book.  *)
LEMMA UnknownStep ==
    ASSUME NEW st, ReplayFields(st), NEW ev, Attempt(ev), ev.outcome = "UNKNOWN",
           NEW f, f = ReplayEvent(st, ev)
    PROVE  Doubted(f, st, ev)
<1>1. f = ReplayUnknown(st, ev)
  BY DEF ReplayEvent, Attempt, Sides
<1> QED BY <1>1 DEF Doubted, ReplayFields, ReplayUnknown

(* An answered cancel is applied to whichever book holds its target.       *)
LEMMA CancelStep ==
    ASSUME NEW st, ReplayFields(st), NEW ev, ev.action = "CANCEL", ev.outcome = "OK",
           NEW f, f = ReplayEvent(st, ev)
    PROVE  Cancelled(f, st, ev)
<1>1. f = ReplayCancel(st, ev)
  BY DEF ReplayEvent, Sides
<1> QED BY <1>1 DEF Cancelled, ReplayFields, ReplayCancel

(* An answered order is submitted to its book and waits for its fills.     *)
LEMMA OrderStep ==
    ASSUME NEW st, ReplayFields(st), NEW ev, ev.action \in Sides, ev.outcome = "OK",
           ev.server # 0, NEW f, f = ReplayEvent(st, ev),
           NEW r, r = Submit(st.books[ev.ticker], ev.id, ev.action, ev.otype, ToTick(ev.price), ev.qty)
    PROVE  Ordered(f, st, ev, r)
<1>1. f = ReplayOrder(st, ev)
  BY DEF ReplayEvent, Sides
<1> QED BY <1>1 DEF Ordered, ReplayFields, ReplayOrder

(* The fills reported so far for an order.                                 *)
FillsBy(observed, id) == IF id \in DOMAIN observed THEN observed[id] ELSE <<>>

(* What a fill leaves alone.                                               *)
Unfilled(f, st) ==
    /\ f.books = st.books /\ f.owner = st.owner /\ f.taint = st.taint
    /\ f.aggressors = st.aggressors

(* The fills reported for aggressor n are these, and no others changed.    *)
Reported(o2, o, n, fills) ==
    /\ FillsBy(o2, n) = fills
    /\ \A x \in DOMAIN o : x # n => x \in DOMAIN o2 /\ o2[x] = o[x]
    /\ DOMAIN o2 \subseteq DOMAIN o \cup {n}

(* The report of the first k trades.                                       *)
ShownSome(fs, own, k) == [i \in 1..k |-> Shown(fs[i], own)]

(* The replay after one more fill.                                         *)
Collected(st2, st, n, sh) ==
    /\ ReplayFields(st2) /\ Unfilled(st2, st)
    /\ st2.observed = Put(st.observed, n, Append(FillsBy(st.observed, n), sh))

(* A fill is added to those reported for its aggressor.                    *)
LEMMA FillStep ==
    ASSUME NEW st, ReplayFields(st), NEW ev, NEW f, NEW seq, NEW req, NEW n, n # 0,
           ev = FillRecord(seq, req, n, f), NEW st2, st2 = ReplayEvent(st, ev)
    PROVE  Collected(st2, st, n, Shown(f, st.owner))
<1>1. ev.action = "FILL" /\ ev.outcome = "OK"
  BY DEF FillRecord
<1>2. st2 = ReplayFill(st, ev)
  BY <1>1 DEF ReplayEvent, Sides
<1>3. ev.id = n /\ ev.server = f.maker /\ ev.qty = f.qty
      /\ ev.price = Mills(IF atMaker THEN f.price ELSE f.band)
  BY DEF FillRecord
<1>4. st2 = [st EXCEPT !.observed = Put(st.observed, n, Append(FillsBy(st.observed, n), Shown(f, st.owner)))]
  BY <1>2, <1>3 DEF ReplayFill, FillsBy, Shown, ShownPrice
<1> QED BY <1>4 DEF Unfilled, ReplayFields, Collected

(* The report of k + 1 trades is that of k with one more.                  *)
LEMMA ShownMore ==
    ASSUME NEW fs, NEW own, NEW k \in Nat
    PROVE  /\ Append(ShownSome(fs, own, k), Shown(fs[k + 1], own)) = ShownSome(fs, own, k + 1)
           /\ ShownSome(fs, own, 0) = <<>>
<1> DEFINE s == ShownSome(fs, own, k)
           e == Shown(fs[k + 1], own)
           u == ShownSome(fs, own, k + 1)
<1>0. s = [i \in 1..k |-> s[i]] /\ u = [i \in 1..(k + 1) |-> u[i]]
  BY DEF ShownSome
<1>1. Sequence(s) /\ Len(s) = k /\ Sequence(u) /\ Len(u) = k + 1
  <2> HIDE DEF s, u
  <2>1. k + 1 \in Nat
    OBVIOUS
  <2> QED BY <1>0, <2>1, FunctionSequence
<1>2. \A i \in 1..k : s[i] = Shown(fs[i], own)
  BY DEF ShownSome
<1>3. \A i \in 1..(k + 1) : u[i] = Shown(fs[i], own)
  BY DEF ShownSome
<1>4. PICK a : a = Append(s, e)
  OBVIOUS
<1>5. Sequence(a) /\ Len(a) = k + 1 /\ a[k + 1] = e /\ \A i \in 1..k : a[i] = s[i]
  <2> HIDE DEF s, e
  <2>1. Longer(Append(s, e), s, e)
    BY <1>1, AppendLonger
  <2> QED BY <1>1, <1>4, <2>1 DEF Longer
<1>6. \A i \in 1..(k + 1) : a[i] = u[i]
  <2> TAKE i \in 1..(k + 1)
  <2>1. i \in 1..k \/ i = k + 1
    OBVIOUS
  <2>2. CASE i \in 1..k
    BY <1>2, <1>3, <1>5, <2>2
  <2>3. CASE i = k + 1
    BY <1>3, <1>5, <2>3
  <2> QED BY <2>1, <2>2, <2>3
<1>7. a = u
  <2> HIDE DEF u
  <2> QED BY <1>1, <1>5, <1>6, SequencesEqual
<1>8. ShownSome(fs, own, 0) = <<>>
  <2>1. 1..0 = {}
    OBVIOUS
  <2> QED BY <2>1 DEF ShownSome
<1> QED BY <1>4, <1>7, <1>8

(* The replay of an answered order's trades: they are collected under it,  *)
(* and nothing else changes.                                               *)
LEMMA FillsReplayed ==
    ASSUME NEW s, Sequence(s), NEW st, st = Replayed(s), ReplayFields(st),
           NEW n, n # 0, n \notin DOMAIN st.observed, NEW req, NEW fs, NEW len \in Nat,
           NEW seq, NEW g, g = [k \in 1..len |-> FillRecord(seq + k, req, n, fs[k])],
           NEW f, f = Replayed(s \o g)
    PROVE  /\ ReplayFields(f) /\ Unfilled(f, st)
           /\ Reported(f.observed, st.observed, n, ShownSome(fs, st.owner, len))
<1>1. Sequence(g) /\ Len(g) = len
  <2>1. g = [k \in 1..len |-> g[k]]
    OBVIOUS
  <2> QED BY <2>1, FunctionSequence
<1>2. PICK loop : /\ loop[0] = st /\ loop[len] = f
                  /\ \A k \in 0..(len - 1) : loop[k + 1] = ReplayEvent(loop[k], g[k + 1])
  <2>1. \E loop : GoesOn(loop, s, g)
    BY <1>1, ReplayMore
  <2> QED BY <1>1, <2>1 DEF GoesOn
<1> DEFINE Ok(k) == /\ ReplayFields(loop[k]) /\ Unfilled(loop[k], st)
                    /\ Reported(loop[k].observed, st.observed, n, ShownSome(fs, st.owner, k))
           T == {k \in Nat : k <= len => Ok(k)}
<1>3. 0 \in T
  <2>1. Unfilled(st, st)
    BY DEF Unfilled
  <2>2. ShownSome(fs, st.owner, 0) = <<>>
    BY ShownMore
  <2>3. Reported(st.observed, st.observed, n, <<>>)
    BY DEF Reported, FillsBy
  <2> QED BY <1>2, <2>1, <2>2, <2>3
<1>4. ASSUME NEW k \in Nat, k \in T PROVE k + 1 \in T
  <2> SUFFICES ASSUME k + 1 <= len PROVE Ok(k + 1)
    OBVIOUS
  <2>1. k \in 0..(len - 1) /\ k + 1 \in 1..len /\ k <= len
    OBVIOUS
  <2>2. PICK a : a = loop[k]
    OBVIOUS
  <2>3. PICK b : b = loop[k + 1]
    OBVIOUS
  <2>4. /\ ReplayFields(a) /\ Unfilled(a, st)
        /\ Reported(a.observed, st.observed, n, ShownSome(fs, st.owner, k))
    BY <1>4, <2>1, <2>2
  <2>5. PICK ev : ev = FillRecord(seq + (k + 1), req, n, fs[k + 1])
    OBVIOUS
  <2>6. b = ReplayEvent(a, ev)
    BY <1>2, <2>1, <2>2, <2>3, <2>5
  <2>7. /\ ReplayFields(b) /\ Unfilled(b, a)
        /\ b.observed = Put(a.observed, n, Append(FillsBy(a.observed, n), Shown(fs[k + 1], a.owner)))
    <3>1. PICK x, q : x = fs[k + 1] /\ q = seq + (k + 1)
      OBVIOUS
    <3>2. ev = FillRecord(q, req, n, x)
      BY <2>5, <3>1
    <3>3. Collected(b, a, n, Shown(x, a.owner))
      BY <2>4, <2>6, <3>2, FillStep
    <3> QED BY <3>1, <3>3 DEF Collected
  <2>8. Append(FillsBy(a.observed, n), Shown(fs[k + 1], a.owner)) = ShownSome(fs, st.owner, k + 1)
    BY <2>4, ShownMore DEF Reported, Unfilled
  <2>9. Unfilled(b, st)
    BY <2>4, <2>7 DEF Unfilled
  <2>10. Reported(b.observed, st.observed, n, ShownSome(fs, st.owner, k + 1))
    <3>1. PICK o : o = a.observed
      OBVIOUS
    <3>2. PICK o2 : o2 = b.observed
      OBVIOUS
    <3>3. PICK v : v = ShownSome(fs, st.owner, k + 1)
      OBVIOUS
    <3>4. o2 = [y \in DOMAIN o \cup {n} |-> IF y = n THEN v ELSE o[y]]
      BY <2>7, <2>8, <3>1, <3>2, <3>3 DEF Put
    <3>5. FillsBy(o2, n) = v
      BY <3>4 DEF FillsBy
    <3>6. /\ \A x \in DOMAIN st.observed : x # n => x \in DOMAIN o /\ o[x] = st.observed[x]
          /\ DOMAIN o \subseteq DOMAIN st.observed \cup {n}
      BY <2>4, <3>1 DEF Reported
    <3> QED BY <3>2, <3>3, <3>4, <3>5, <3>6 DEF Reported
  <2> QED BY <2>3, <2>7, <2>9, <2>10
<1>5. len \in T
  <2> HIDE DEF T
  <2> QED BY <1>3, <1>4, SetInduction
<1>6. Ok(len)
  BY <1>5
<1> QED BY <1>2, <1>6

(* The diff may not fail this order: its book had lost trust before it.    *)
Late(st, a) == a.ticker \in DOMAIN st.taint /\ a.seq > st.taint[a.ticker]

(* What the diff says of an order.                                         *)
Says(st, a) == DiffAggressor(a.trades, FillsBy(st.observed, a.id))

(* Every cancel was answered.                                              *)
NoLostCancel(l) == \A i \in 1..Len(l) : l[i].outcome = "UNKNOWN" => l[i].action # "CANCEL"

(* A cancel names no ticker.                                               *)
Nameless(e) == e.action = "CANCEL" => e.ticker = ""

(* Trust is only lost to an unanswered attempt, and a cancel names no book.*)
Doubts(st, l) ==
    /\ \A t \in DOMAIN st.taint : \E i \in 1..Len(l) : l[i].outcome = "UNKNOWN" /\ l[i].ticker = t
    /\ \A i \in 1..Len(l) : Nameless(l[i])

(* What the replay holds is of seqs before n: where trust was lost, the    *)
(* orders it expects fills of, the fills reported, the owners of server    *)
(* ids.                                                                    *)
TaintedBy(st, n) == \A t \in DOMAIN st.taint : st.taint[t] \in Nat /\ st.taint[t] < n
Issued(st, n) ==
    /\ Sequence(st.aggressors)
    /\ \A k \in 1..Len(st.aggressors) :
         /\ st.aggressors[k].id = st.aggressors[k].seq
         /\ st.aggressors[k].seq \in Nat /\ st.aggressors[k].seq < n
ReportedOn(st) ==
    \A x \in DOMAIN st.observed : \E k \in 1..Len(st.aggressors) : st.aggressors[k].id = x
OwnedBy(own, n, m) ==
    Rising(own) /\ \A x \in DOMAIN own : x \in 1..m /\ own[x] < n

(* What the replay of a run's log always satisfies: n is the next seq, m   *)
(* the last server id, acc the orders the bot may cancel.                  *)
Kept(st, n, m, acc) ==
    /\ ReplayFields(st) /\ DOMAIN st.books = Tickers /\ n \in Nat \ {0} /\ m \in Nat
    /\ OwnedBy(st.owner, n, m) /\ acc \subseteq DOMAIN st.owner
    /\ TaintedBy(st, n) /\ Issued(st, n) /\ ReportedOn(st)

(* A golden book is the server's, under the bot's ids.                     *)
Faithful(b, R, own, n) ==
    /\ BookOk(b, n - 1) /\ Market(R) /\ Owned(R, own) /\ BookRest(b) = RenamedAll(R, own)

(* A ghost is of an order whose ticker has lost its trust.                 *)
Promised(gh, st) == \A g \in gh : g.order /\ g.req \in Requests /\ g.req.ticker \in DOMAIN st.taint

(* What it satisfies while the server has been right: the books that are   *)
(* trusted are the server's, and no order would be failed.                 *)
Good(st, n, rest, gh) ==
    /\ \A t \in Tickers : t \notin DOMAIN st.taint => Faithful(st.books[t], rest[t], st.owner, n)
    /\ \A k \in 1..Len(st.aggressors) :
          Late(st, st.aggressors[k]) \/ Says(st, st.aggressors[k]) = "correct"
    /\ Promised(gh, st)

(* One divergence on a book that was trusted up to it.                     *)
Diverges(st, k) ==
    /\ Says(st, st.aggressors[k]) = "incorrect" /\ ~Late(st, st.aggressors[k])
    /\ \A j \in 1..(k - 1) :
          st.aggressors[j].ticker = st.aggressors[k].ticker => Says(st, st.aggressors[j]) = "correct"
Diverged(st) == \E k \in 1..Len(st.aggressors) : Diverges(st, k)

(* A later replay state treats the earlier orders as an earlier one did.   *)
Onward(f, st) ==
    /\ Len(f.aggressors) >= Len(st.aggressors)
    /\ \A k \in 1..Len(st.aggressors) :
          /\ f.aggressors[k] = st.aggressors[k]
          /\ Late(f, st.aggressors[k]) <=> Late(st, st.aggressors[k])
          /\ Says(f, st.aggressors[k]) = Says(st, st.aggressors[k])

(* A divergence is not taken back.                                         *)
LEMMA DivergedStays ==
    ASSUME NEW st, NEW f, Sequence(st.aggressors), Sequence(f.aggressors), Diverged(st), Onward(f, st)
    PROVE  Diverged(f)
<1>1. PICK len \in Nat, more \in Nat : len = Len(st.aggressors) /\ more = Len(f.aggressors) /\ len <= more
  BY SequenceIs DEF Onward
<1>2. PICK k \in 1..len : Diverges(st, k)
  BY <1>1 DEF Diverged
<1>3. k \in 1..more /\ \A j \in 1..(k - 1) : j \in 1..len
  BY <1>1
<1>4. \A j \in 1..len : /\ f.aggressors[j] = st.aggressors[j]
                        /\ Late(f, st.aggressors[j]) <=> Late(st, st.aggressors[j])
                        /\ Says(f, st.aggressors[j]) = Says(st, st.aggressors[j])
  BY <1>1 DEF Onward
<1>5. Diverges(f, k)
  BY <1>2, <1>3, <1>4 DEF Diverges
<1> QED BY <1>1, <1>3, <1>5 DEF Diverged

(* Trust is lost at the latest seq, if it was not lost before.             *)
Marked(m, taint, u, n) ==
    /\ \A t \in DOMAIN taint : t \in DOMAIN m /\ m[t] = taint[t]
    /\ \A t \in DOMAIN m : t \notin DOMAIN taint => m[t] = n /\ t = u /\ u # ""
    /\ u # "" => u \in DOMAIN m

(* MarkTaint at the latest seq.                                            *)
LEMMA MarkIs ==
    ASSUME NEW taint, NEW n \in Nat, \A t \in DOMAIN taint : taint[t] \in Nat /\ taint[t] < n,
           NEW u, NEW m, m = MarkTaint(taint, u, n)
    PROVE  Marked(m, taint, u, n)
<1>1. CASE u = "" \/ u \in DOMAIN taint
  <2>1. u \in DOMAIN taint => taint[u] <= n
    <3> SUFFICES ASSUME u \in DOMAIN taint PROVE taint[u] <= n
      OBVIOUS
    <3>1. taint[u] \in Nat /\ taint[u] < n
      OBVIOUS
    <3> QED BY <3>1
  <2>2. m = taint
    BY <1>1, <2>1, Zenon DEF MarkTaint
  <2> QED BY <1>1, <2>2 DEF Marked
<1>2. CASE ~(u = "" \/ u \in DOMAIN taint)
  <2>1. m = [y \in DOMAIN taint \cup {u} |-> IF y = u THEN n ELSE taint[y]]
    BY <1>2 DEF MarkTaint, Put
  <2> QED BY <1>2, <2>1 DEF Marked
<1> QED BY <1>1, <1>2

(* Losing trust now changes nothing for the orders of before.              *)
LEMMA OnwardIs ==
    ASSUME NEW st, NEW n \in Nat, Issued(st, n), NEW f, NEW u,
           f.aggressors = st.aggressors, f.observed = st.observed, Marked(f.taint, st.taint, u, n)
    PROVE  Onward(f, st)
<1>1. PICK len \in Nat : len = Len(st.aggressors)
  BY SequenceIs DEF Issued
<1>2. ASSUME NEW k \in 1..len
      PROVE  /\ Late(f, st.aggressors[k]) <=> Late(st, st.aggressors[k])
             /\ Says(f, st.aggressors[k]) = Says(st, st.aggressors[k])
  <2>1. PICK a : a = st.aggressors[k]
    OBVIOUS
  <2>2. a.seq \in Nat /\ a.seq < n
    BY <1>1, <2>1 DEF Issued
  <2>3. Late(f, a) <=> Late(st, a)
    <3>1. CASE a.ticker \in DOMAIN st.taint
      BY <3>1 DEF Late, Marked
    <3>2. CASE a.ticker \notin DOMAIN st.taint
      <4>1. a.ticker \in DOMAIN f.taint => f.taint[a.ticker] = n
        BY <3>2 DEF Marked
      <4> QED BY <2>2, <3>2, <4>1 DEF Late
    <3> QED BY <3>1, <3>2
  <2>4. Says(f, a) = Says(st, a)
    BY DEF Says
  <2> QED BY <2>1, <2>3, <2>4
<1>3. Len(f.aggressors) >= Len(st.aggressors)
  BY <1>1
<1> QED BY <1>1, <1>2, <1>3 DEF Onward

(* Marking no ticker marks nothing.                                        *)
LEMMA MarkedNothing == \A taint, n : Marked(taint, taint, "", n)
BY DEF Marked

(* Nothing is lost in a later replay state that has no new order.          *)
LEMMA KeptOn ==
    ASSUME NEW st, NEW n, NEW m, NEW acc, Kept(st, n, m, acc), NEW f, ReplayFields(f),
           DOMAIN f.books = Tickers, f.owner = st.owner, f.aggressors = st.aggressors,
           f.observed = st.observed, NEW u, Marked(f.taint, st.taint, u, n), NEW acc2 \in SUBSET acc
    PROVE  Kept(f, n + 1, m, acc2) /\ Onward(f, st)
<1>1. n \in Nat \ {0} /\ m \in Nat /\ n + 1 \in Nat \ {0}
  BY DEF Kept
<1>2. Issued(st, n) /\ TaintedBy(st, n) /\ OwnedBy(st.owner, n, m)
  BY DEF Kept
<1>3. Onward(f, st)
  BY <1>1, <1>2, OnwardIs
<1>4. Issued(f, n + 1)
  BY <1>1, <1>2 DEF Issued
<1>5. OwnedBy(f.owner, n + 1, m)
  <2>1. Rising(f.owner) /\ \A x \in DOMAIN f.owner : x \in 1..m /\ f.owner[x] < n /\ f.owner[x] \in Nat
    BY <1>2 DEF OwnedBy, Rising
  <2> QED BY <1>1, <2>1 DEF OwnedBy
<1>6. TaintedBy(f, n + 1)
  <2> SUFFICES ASSUME NEW t \in DOMAIN f.taint PROVE f.taint[t] \in Nat /\ f.taint[t] < n + 1
    BY DEF TaintedBy
  <2>1. CASE t \in DOMAIN st.taint
    <3>1. f.taint[t] = st.taint[t]
      BY <2>1 DEF Marked
    <3>2. st.taint[t] \in Nat /\ st.taint[t] < n
      BY <1>2, <2>1 DEF TaintedBy
    <3> QED BY <1>1, <3>1, <3>2
  <2>2. CASE t \notin DOMAIN st.taint
    <3>1. f.taint[t] = n
      BY <2>2 DEF Marked
    <3> QED BY <1>1, <3>1
  <2> QED BY <2>1, <2>2
<1>7. ReportedOn(f) /\ acc2 \subseteq DOMAIN f.owner
  BY DEF Kept, ReportedOn
<1> QED BY <1>1, <1>3, <1>4, <1>5, <1>6, <1>7 DEF Kept

(* A faithful book stays so when the seq moves on.                         *)
LEMMA FaithfulLater ==
    ASSUME NEW b, NEW R, NEW own, NEW n \in Nat \ {0}, Faithful(b, R, own, n)
    PROVE  Faithful(b, R, own, n + 1)
<1>1. BookOk(b, n - 1) /\ n - 1 \in Nat /\ n \in Nat /\ n - 1 <= n
  BY DEF Faithful
<1>2. BookOk(b, n)
  BY <1>1, Later
<1>3. (n + 1) - 1 = n
  BY <1>1
<1> QED BY <1>2, <1>3 DEF Faithful

(* An attempt that changes no book leaves the trusted books the server's.  *)
LEMMA GoodOn ==
    ASSUME NEW st, NEW n, NEW m, NEW acc, Kept(st, n, m, acc), NEW rest, NEW gh, Good(st, n, rest, gh),
           NEW f, f.books = st.books, f.owner = st.owner, f.aggressors = st.aggressors, Onward(f, st),
           NEW u, Marked(f.taint, st.taint, u, n), NEW gh2, Promised(gh2, f)
    PROVE  Good(f, n + 1, rest, gh2)
<1>1. n \in Nat \ {0}
  BY DEF Kept
<1>2. ASSUME NEW t \in Tickers, t \notin DOMAIN f.taint PROVE Faithful(f.books[t], rest[t], f.owner, n + 1)
  <2>1. t \notin DOMAIN st.taint
    BY <1>2 DEF Marked
  <2>2. Faithful(st.books[t], rest[t], st.owner, n)
    BY <2>1 DEF Good
  <2> QED BY <1>1, <2>2, FaithfulLater
<1>3. ASSUME NEW k \in 1..Len(f.aggressors)
      PROVE  Late(f, f.aggressors[k]) \/ Says(f, f.aggressors[k]) = "correct"
  <2>1. k \in 1..Len(st.aggressors)
    BY <1>3
  <2>2. /\ Late(f, st.aggressors[k]) <=> Late(st, st.aggressors[k])
        /\ Says(f, st.aggressors[k]) = Says(st, st.aggressors[k])
    BY <2>1 DEF Onward
  <2> QED BY <2>1, <2>2 DEF Good
<1> QED BY <1>2, <1>3 DEF Good

(* A promise stays one when no trust is regained.                          *)
LEMMA PromisedOn ==
    ASSUME NEW gh, NEW st, Promised(gh, st), NEW f, NEW u, NEW n, Marked(f.taint, st.taint, u, n)
    PROVE  Promised(gh, f)
BY DEF Promised, Marked

(* The cancel of an order leaves every book the server's.                  *)
LEMMA CancelFaithful ==
    ASSUME NEW b, NEW R, NEW own, Rising(own), NEW n \in Nat \ {0}, Faithful(b, R, own, n),
           NEW target \in DOMAIN own, NEW after, after = Cancel(b, own[target])
    PROVE  Faithful(after, {o \in R : o.id # target}, own, n)
<1> DEFINE S == {o \in R : o.id # target}
<1>1. n - 1 \in Nat /\ BookOk(b, n - 1) /\ Market(R) /\ Owned(R, own) /\ BookRest(b) = RenamedAll(R, own)
  BY DEF Faithful
<1>2. BookOk(after, n - 1) /\ BookRest(after) = {x \in BookRest(b) : x.id # own[target]}
  BY <1>1, CancelServes
<1>3. Market(S)
  <2>1. S \subseteq R /\ IsFiniteSet(S)
    BY <1>1, FS_Subset DEF Market
  <2> QED BY <1>1, <2>1 DEF Market, OneId
<1>4. Owned(S, own)
  BY <1>1 DEF Owned
<1>5. \A o \in R : o \in OrderRecs /\ o.id \in DOMAIN own
  BY <1>1 DEF Market, Owned
<1>6. \A o \in R : Renamed(o, own).id = own[o.id] /\ (own[o.id] # own[target] <=> o.id # target)
  BY <1>5, RenamedIs, RisingIsOneToOne
<1>7. {x \in RenamedAll(R, own) : x.id # own[target]} = RenamedAll(S, own)
  <2>1. ASSUME NEW x \in RenamedAll(R, own), x.id # own[target] PROVE x \in RenamedAll(S, own)
    <3>1. PICK o \in R : x = Renamed(o, own)
      BY DEF RenamedAll
    <3>2. o \in S
      BY <1>6, <2>1, <3>1
    <3> QED BY <3>1, <3>2 DEF RenamedAll
  <2>2. ASSUME NEW x \in RenamedAll(S, own) PROVE x \in RenamedAll(R, own) /\ x.id # own[target]
    <3>1. PICK o \in S : x = Renamed(o, own)
      BY DEF RenamedAll
    <3>2. o \in R /\ x.id # own[target]
      BY <1>6, <3>1
    <3> QED BY <3>1, <3>2 DEF RenamedAll
  <2> HIDE DEF S
  <2> QED BY <2>1, <2>2
<1> HIDE DEF S
<1>8. Faithful(after, S, own, n)
  BY <1>1, <1>2, <1>3, <1>4, <1>7 DEF Faithful
<1> QED BY <1>8 DEF S

(* A cancel applied by the server and by the replay alike keeps a good     *)
(* replay good.                                                            *)
LEMMA GoodCancel ==
    ASSUME NEW st, NEW n, NEW m, NEW acc, Kept(st, n, m, acc), NEW rest, NEW gh, Good(st, n, rest, gh),
           NEW ev, NEW f, Cancelled(f, st, ev), Onward(f, st), ev.target \in DOMAIN st.owner,
           NEW rest2, rest2 = CancelAt(rest, ev.target)
    PROVE  Good(f, n + 1, rest2, gh)
<1>1. n \in Nat \ {0} /\ Rising(st.owner)
  BY DEF Kept, OwnedBy
<1>2. ASSUME NEW t \in Tickers, t \notin DOMAIN f.taint PROVE Faithful(f.books[t], rest2[t], f.owner, n + 1)
  <2>1. Faithful(st.books[t], rest[t], st.owner, n)
    BY <1>2 DEF Good, Cancelled
  <2>2. f.books[t] = Cancel(st.books[t], st.owner[ev.target]) /\ f.owner = st.owner
    BY DEF Cancelled
  <2>3. rest2[t] = {o \in rest[t] : o.id # ev.target}
    BY DEF CancelAt
  <2>4. Faithful(f.books[t], rest2[t], st.owner, n)
    BY <1>1, <2>1, <2>2, <2>3, CancelFaithful
  <2> QED BY <1>1, <2>2, <2>4, FaithfulLater
<1>3. ASSUME NEW k \in 1..Len(f.aggressors)
      PROVE  Late(f, f.aggressors[k]) \/ Says(f, f.aggressors[k]) = "correct"
  <2>1. f.aggressors = st.aggressors /\ k \in 1..Len(st.aggressors)
    BY <1>3 DEF Cancelled
  <2>2. /\ Late(f, st.aggressors[k]) <=> Late(st, st.aggressors[k])
        /\ Says(f, st.aggressors[k]) = Says(st, st.aggressors[k])
    BY <2>1 DEF Onward
  <2> QED BY <2>1, <2>2 DEF Good
<1>4. Promised(gh, f)
  BY DEF Good, Promised, Cancelled
<1> QED BY <1>2, <1>3, <1>4 DEF Good

(* What the replay makes of an answered order and of its trades.           *)
Answered(f, st, req, r, fs, n, id) ==
    /\ ReplayFields(f) /\ f.owner = Put(st.owner, id, n) /\ f.taint = st.taint
    /\ f.books = [st.books EXCEPT ![req.ticker] = r.book]
    /\ f.aggressors = Append(st.aggressors, [id |-> n, ticker |-> req.ticker,
                                             seq |-> n, trades |-> r.trades])
    /\ Reported(f.observed, st.observed, n, ShownAll(fs, f.owner))

(* Submitting a request to a golden book; its trades and what is left by   *)
(* the contract.                                                           *)
Submits(r, b, n, req) == r = Submit(b, n, req.side, req.otype, req.price, req.qty)

(* No fills were reported for the seq that comes next.                     *)
LEMMA UnreportedYet ==
    ASSUME NEW st, NEW n, NEW m, NEW acc, Kept(st, n, m, acc) PROVE n \notin DOMAIN st.observed
<1> SUFFICES ASSUME n \in DOMAIN st.observed PROVE FALSE
  OBVIOUS
<1>1. PICK k \in 1..Len(st.aggressors) : st.aggressors[k].id = n
  BY DEF Kept, ReportedOn
<1>2. n < n /\ n \in Nat
  BY <1>1 DEF Kept, Issued
<1> QED BY <1>2

(* The replay of an answer: the order is submitted and its fills are       *)
(* collected.                                                              *)
LEMMA AnswerReplayed ==
    ASSUME RunShape, NEW req \in Requests, NEW F, IsFiniteSet(F), RecordAnswer(req, F),
           NEW st, st = Replayed(log), NEW acc, Kept(st, nextSeq, ids, acc),
           NEW r, Submits(r, st.books[req.ticker], nextSeq, req),
           NEW fs, fs = SetToSeq(F), NEW f, f = Replayed(log')
    PROVE  Answered(f, st, req, r, fs, nextSeq, ids + 1)
<1> DEFINE e == Intent(nextSeq, req, "OK", ids + 1)
<1>1. nextSeq \in Nat \ {0} /\ ids \in Nat /\ ReplayFields(st) /\ nextSeq \notin DOMAIN st.observed
  BY UnreportedYet DEF Kept
<1>2. /\ req.side \in Sides /\ req.price \in Nat
  BY RequestIs
<1>3. /\ e.action = req.side /\ e.outcome = "OK" /\ e.server = ids + 1 /\ e.ticker = req.ticker
      /\ e.id = nextSeq /\ e.otype = req.otype /\ e.price = Mills(req.price) /\ e.qty = req.qty
      /\ e.seq = nextSeq
  BY DEF Intent
<1> HIDE DEF e
<1>4. Sequence(log)
  BY DEF RunShape, Underway, Numbered
<1>5. PICK l : l = Append(log, e)
  OBVIOUS
<1>6. PICK st1 : st1 = Replayed(l)
  OBVIOUS
<1>7. st1 = ReplayEvent(st, e)
  BY <1>4, <1>5, <1>6, ReplayOneMore
<1>8. ToTick(e.price) = req.price
  BY <1>2, <1>3, TickOfMills
<1>9. r = Submit(st.books[e.ticker], e.id, e.action, e.otype, ToTick(e.price), e.qty)
  BY <1>3, <1>8 DEF Submits
<1>10. e.server # 0 /\ e.action \in Sides
  BY <1>1, <1>2, <1>3
<1>11. Ordered(st1, st, e, r)
  BY <1>1, <1>3, <1>7, <1>9, <1>10, OrderStep
<1>12. ReplayFields(st1)
  <2>1. Recorded(e)
    BY <1>2, <1>3 DEF Recorded, Sides
  <2> QED BY <1>1, <1>7, <2>1, EventCounts
<1>13. PICK len \in Nat : len = Len(fs) /\ DOMAIN fs = 1..len
  <2>1. Listing(fs, F)
    BY SetToSeqIs
  <2> QED BY <2>1, SequenceIs DEF Listing
<1>14. PICK g : g = [k \in 1..len |-> FillRecord(nextSeq + k, req, nextSeq, fs[k])]
  OBVIOUS
<1>15. log' = l \o g
  BY <1>5, <1>13, <1>14 DEF RecordAnswer, e
<1>16. Sequence(l)
  BY <1>4, <1>5, AppendLonger DEF Longer
<1>17. nextSeq \notin DOMAIN st1.observed /\ nextSeq # 0
  BY <1>1, <1>11 DEF Ordered
<1>18. f = Replayed(l \o g)
  BY <1>15
<1>19. /\ ReplayFields(f) /\ Unfilled(f, st1)
       /\ Reported(f.observed, st1.observed, nextSeq, ShownSome(fs, st1.owner, len))
  BY <1>6, <1>12, <1>14, <1>16, <1>17, <1>18, FillsReplayed
<1>20. ShownSome(fs, st1.owner, len) = ShownAll(fs, f.owner)
  BY <1>13, <1>19 DEF ShownSome, ShownAll, Unfilled
<1> QED BY <1>3, <1>11, <1>19, <1>20 DEF Answered, Ordered, Unfilled

(* An answered order is the last the replay knows of.                      *)
LEMMA KeptAnswered ==
    ASSUME NEW st, NEW n, NEW m, NEW acc, Kept(st, n, m, acc), NEW req \in Requests,
           NEW r, NEW fs, NEW f, Answered(f, st, req, r, fs, n, m + 1),
           NEW n2 \in Nat, n2 > n
    PROVE  Kept(f, n2, m + 1, acc \cup {m + 1}) /\ Onward(f, st)
<1> DEFINE last == [id |-> n, ticker |-> req.ticker, seq |-> n, trades |-> r.trades]
<1>1. n \in Nat \ {0} /\ m \in Nat /\ m + 1 \in Nat /\ n2 \in Nat \ {0}
  BY DEF Kept
<1>2. Issued(st, n) /\ TaintedBy(st, n) /\ OwnedBy(st.owner, n, m) /\ ReportedOn(st)
  BY DEF Kept
<1>3. PICK len \in Nat : len = Len(st.aggressors)
  BY <1>2, SequenceIs DEF Issued
<1>4. f.aggressors = Append(st.aggressors, last)
  BY DEF Answered
<1>5. last.id = n /\ last.seq = n
  OBVIOUS
<1> HIDE DEF last
<1>6. Longer(f.aggressors, st.aggressors, last)
  BY <1>2, <1>4, AppendLonger DEF Issued
<1>7. /\ Sequence(f.aggressors) /\ Len(f.aggressors) = len + 1 /\ f.aggressors[len + 1] = last
      /\ \A k \in 1..len : f.aggressors[k] = st.aggressors[k]
  BY <1>3, <1>6 DEF Longer
<1>8. \A k \in 1..len : /\ st.aggressors[k].id = st.aggressors[k].seq
                        /\ st.aggressors[k].seq \in Nat /\ st.aggressors[k].seq < n
  BY <1>2, <1>3 DEF Issued
<1>9. Issued(f, n2)
  <2>1. ASSUME NEW k \in 1..(len + 1)
        PROVE  /\ f.aggressors[k].id = f.aggressors[k].seq
               /\ f.aggressors[k].seq \in Nat /\ f.aggressors[k].seq < n2
    <3>1. k \in 1..len \/ k = len + 1
      OBVIOUS
    <3>2. CASE k \in 1..len
      BY <1>1, <1>7, <1>8, <3>2
    <3>3. CASE k = len + 1
      BY <1>1, <1>5, <1>7, <3>3
    <3> QED BY <3>1, <3>2, <3>3
  <2> QED BY <1>7, <2>1 DEF Issued
<1>10. Newest(st.owner, m + 1, n)
  BY <1>1, <1>2 DEF OwnedBy, Rising, Newest
<1>11. PICK own2 : own2 = f.owner
  OBVIOUS
<1>12. Extended(own2, st.owner, m + 1, n)
  BY <1>2, <1>10, <1>11, PutRises DEF OwnedBy, Answered
<1>13. OwnedBy(own2, n2, m + 1)
  <2>1. ASSUME NEW x \in DOMAIN own2 PROVE x \in 1..(m + 1) /\ own2[x] < n2
    <3>1. CASE x = m + 1
      BY <1>1, <1>12, <3>1 DEF Extended
    <3>2. CASE x # m + 1
      <4>1. x \in DOMAIN st.owner /\ own2[x] = st.owner[x]
        BY <1>12, <3>2 DEF Extended
      <4>2. x \in 1..m /\ st.owner[x] < n /\ st.owner[x] \in Nat
        BY <1>2, <4>1 DEF OwnedBy, Rising
      <4> QED BY <1>1, <4>1, <4>2
    <3> QED BY <3>1, <3>2
  <2> QED BY <1>12, <2>1 DEF OwnedBy, Extended
<1>14. acc \cup {m + 1} \subseteq DOMAIN f.owner
  BY <1>11, <1>12 DEF Kept, Extended
<1>15. TaintedBy(f, n2)
  BY <1>1, <1>2 DEF TaintedBy, Answered
<1>16. ReportedOn(f)
  <2> SUFFICES ASSUME NEW x \in DOMAIN f.observed PROVE \E k \in 1..(len + 1) : f.aggressors[k].id = x
    BY <1>7 DEF ReportedOn
  <2>1. CASE x = n
    <3>1. len + 1 \in 1..(len + 1)
      OBVIOUS
    <3> QED BY <1>5, <1>7, <2>1, <3>1
  <2>2. CASE x # n
    <3>1. x \in DOMAIN st.observed
      BY <2>2 DEF Answered, Reported
    <3>2. PICK k \in 1..len : st.aggressors[k].id = x
      BY <1>2, <1>3, <3>1 DEF ReportedOn
    <3>3. k \in 1..(len + 1)
      OBVIOUS
    <3> QED BY <1>7, <3>2, <3>3
  <2> QED BY <2>1, <2>2
<1>17. DOMAIN f.books = Tickers /\ ReplayFields(f)
  BY DEF Answered, Kept
<1>18. Onward(f, st)
  <2>1. ASSUME NEW k \in 1..len
        PROVE  /\ Late(f, st.aggressors[k]) <=> Late(st, st.aggressors[k])
               /\ Says(f, st.aggressors[k]) = Says(st, st.aggressors[k])
    <3>1. PICK a : a = st.aggressors[k]
      OBVIOUS
    <3>2. a.id # n
      BY <1>1, <1>8, <3>1
    <3>3. Late(f, a) <=> Late(st, a)
      BY DEF Late, Answered
    <3>4. FillsBy(f.observed, a.id) = FillsBy(st.observed, a.id)
      BY <3>2 DEF Answered, Reported, FillsBy
    <3>5. Says(f, a) = Says(st, a)
      BY <3>4 DEF Says
    <3> QED BY <3>1, <3>3, <3>5
  <2>2. Len(f.aggressors) >= Len(st.aggressors)
    BY <1>3, <1>7
  <2> QED BY <1>3, <1>7, <2>1, <2>2 DEF Onward
<1> QED BY <1>1, <1>9, <1>11, <1>13, <1>14, <1>15, <1>16, <1>17, <1>18 DEF Kept

FairFills(R, req) == FillsOf(R, req.side, req.otype, req.price, req.qty)
AfterOf(R, F, id, req) == RestingAfter(R, F, id, req.side, req.otype, req.price, req.qty)

(* Names added later do not change the makers of earlier trades.           *)
LEMMA RemadeAgain ==
    ASSUME NEW own, NEW own2, NEW F, MakersOwned(F, own), \A x \in DOMAIN own : own2[x] = own[x]
    PROVE  RemadeAll(F, own2) = RemadeAll(F, own)
<1>1. \A f \in F : Remade(f, own2) = Remade(f, own)
  BY DEF Remade, MakersOwned
<1> QED BY <1>1 DEF RemadeAll

(* The golden book and the server's trade alike and stay alike.            *)
LEMMA OrderFaithful ==
    ASSUME NEW req \in Requests, NEW own, Rising(own), NEW n \in Nat \ {0}, NEW id,
           Newest(own, id, n), NEW own2, own2 = Put(own, id, n),
           NEW b, NEW R, Faithful(b, R, own, n), NEW h, h = FairFills(R, req),
           NEW r, Submits(r, b, n, req)
    PROVE  /\ Faithful(r.book, AfterOf(R, h, id, req), own2, n + 1)
           /\ FillSet(r.trades) = RemadeAll(h, own2) /\ \E band : TradesOnce(r.trades, band)
           /\ h \subseteq TradeRecs /\ IsFiniteSet(h) /\ MakersOwned(h, own2) /\ Deals(h, R, req.side)
           /\ Rising(own2) /\ Owned(R, own2)
<1>1. /\ req.side \in Sides /\ req.otype \in OrderTypes /\ req.price \in Nat /\ req.qty \in Nat
  BY RequestIs
<1>2. PICK k \in Nat : k = n - 1 /\ n = k + 1
  OBVIOUS
<1>3. BookOk(b, k) /\ Market(R) /\ Owned(R, own) /\ BookRest(b) = RenamedAll(R, own)
  BY <1>2 DEF Faithful
<1>4. r = Submit(b, k + 1, req.side, req.otype, req.price, req.qty)
  BY <1>2 DEF Submits
<1>5. BookOk(r.book, k + 1) /\ \E band : TradesOnce(r.trades, band)
  BY <1>1, <1>3, <1>4, MakersApart
<1>6. PICK T : T = FillSet(r.trades)
  OBVIOUS
<1>7. /\ T = Contract!FillsOf(BookRest(b), req.side, req.otype, req.price, req.qty)
      /\ BookRest(r.book)
           = Contract!RestingAfter(BookRest(b), T, k + 1, req.side, req.otype, req.price, req.qty)
  BY <1>1, <1>3, <1>4, <1>6, SubmitIsContract
<1>8. T = RemadeAll(h, own)
  BY <1>1, <1>3, <1>7, SameFills, FillsRenamed DEF FairFills
<1>9. Deals(h, R, req.side)
  BY <1>1, <1>3, FillsAreDeals DEF FairFills
<1>10. MakersOwned(h, own)
  BY <1>3, <1>9, DealsOwned
<1>11. h \subseteq TradeRecs /\ IsFiniteSet(h)
  BY <1>9 DEF Deals
<1>12. BookRest(r.book)
         = RestingAfter(RenamedAll(R, own), T, n, req.side, req.otype, req.price, req.qty)
  BY <1>2, <1>3, <1>7, SameAfter
<1>13. BookRest(r.book) = RenamedAll(AfterOf(R, h, id, req), own2)
  <2>1. RestingAfter(RenamedAll(R, own), RemadeAll(h, own), n, req.side, req.otype, req.price, req.qty)
          = RenamedAll(RestingAfter(R, h, id, req.side, req.otype, req.price, req.qty), own2)
    BY <1>3, <1>10, <1>11, AfterRenamed
  <2> QED BY <1>8, <1>12, <2>1 DEF AfterOf
<1>14. Extended(own2, own, id, n)
  BY PutRises
<1>15. NewTo(R, id)
  BY <1>3, <1>14 DEF NewTo, Newest, Extended, Owned
<1>16. /\ Market(AfterOf(R, h, id, req))
       /\ \A o \in AfterOf(R, h, id, req) : o.id = id \/ \E x \in R : o.id = x.id
  <2>1. PICK M : M = RestingAfter(R, h, id, req.side, req.otype, req.price, req.qty)
    OBVIOUS
  <2>2. MarketAfter(M, R, id)
    BY <1>1, <1>3, <1>11, <1>15, <2>1, AfterIsMarket
  <2> QED BY <2>1, <2>2 DEF AfterOf, MarketAfter
<1>17. Owned(AfterOf(R, h, id, req), own2) /\ Owned(R, own2) /\ Rising(own2)
  BY <1>3, <1>14, <1>16 DEF Owned, Extended
<1>18. Faithful(r.book, AfterOf(R, h, id, req), own2, n + 1)
  <2>1. (n + 1) - 1 = k + 1
    BY <1>2
  <2> QED BY <1>5, <1>13, <1>16, <1>17, <2>1 DEF Faithful
<1>19. T = RemadeAll(h, own2)
  <2>1. \A x \in DOMAIN own : own2[x] = own[x]
    BY <1>14 DEF Extended
  <2> QED BY <1>8, <1>10, <2>1, RemadeAgain
<1>20. MakersOwned(h, own2)
  BY <1>10, <1>14 DEF MakersOwned, Extended
<1> QED BY <1>5, <1>6, <1>9, <1>11, <1>17, <1>18, <1>19, <1>20

(* The order just answered, and what the diff says of it.                  *)
LEMMA NewestIs ==
    ASSUME NEW st, Sequence(st.aggressors), NEW req, NEW r, NEW fs, NEW n, NEW id, NEW f,
           Answered(f, st, req, r, fs, n, id), NEW len \in Nat, len = Len(st.aggressors)
    PROVE  /\ Sequence(f.aggressors) /\ Len(f.aggressors) = len + 1
           /\ \A k \in 1..len : f.aggressors[k] = st.aggressors[k]
           /\ f.aggressors[len + 1].ticker = req.ticker /\ f.aggressors[len + 1].seq = n
           /\ Says(f, f.aggressors[len + 1]) = DiffAggressor(r.trades, ShownAll(fs, f.owner))
<1> DEFINE last == [id |-> n, ticker |-> req.ticker, seq |-> n, trades |-> r.trades]
<1>1. f.aggressors = Append(st.aggressors, last)
  BY DEF Answered
<1>2. last.id = n /\ last.seq = n /\ last.ticker = req.ticker /\ last.trades = r.trades
  OBVIOUS
<1> HIDE DEF last
<1>3. Longer(f.aggressors, st.aggressors, last)
  BY <1>1, AppendLonger
<1>4. /\ Sequence(f.aggressors) /\ Len(f.aggressors) = len + 1 /\ f.aggressors[len + 1] = last
      /\ \A k \in 1..len : f.aggressors[k] = st.aggressors[k]
  BY <1>3 DEF Longer
<1>5. FillsBy(f.observed, n) = ShownAll(fs, f.owner)
  BY DEF Answered, Reported
<1>6. Says(f, last) = DiffAggressor(r.trades, ShownAll(fs, f.owner))
  BY <1>2, <1>5 DEF Says
<1> QED BY <1>2, <1>4, <1>6

(* Every book but the order's stays the server's under more ids.           *)
LEMMA OthersFaithful ==
    ASSUME NEW b, NEW R, NEW own, NEW n \in Nat \ {0}, Faithful(b, R, own, n),
           NEW n2 \in Nat, n2 > n, NEW own2, NEW id, NEW k, Extended(own2, own, id, k)
    PROVE  Faithful(b, R, own2, n2)
<1>1. BookOk(b, n - 1) /\ n - 1 \in Nat /\ n2 - 1 \in Nat /\ n - 1 <= n2 - 1
  BY DEF Faithful
<1>2. BookOk(b, n2 - 1)
  BY <1>1, Later
<1>3. RenamedAll(R, own2) = RenamedAll(R, own)
  BY RenamedAgain DEF Faithful, Extended
<1>4. Owned(R, own2)
  BY DEF Faithful, Extended, Owned
<1> QED BY <1>2, <1>3, <1>4 DEF Faithful

(* A faithful book stays so when the seq moves on by more than one.        *)
LEMMA FaithfulFrom ==
    ASSUME NEW b, NEW R, NEW own, NEW n \in Nat, Faithful(b, R, own, n + 1), NEW n2 \in Nat, n2 > n
    PROVE  Faithful(b, R, own, n2)
<1>1. BookOk(b, n) /\ n2 - 1 \in Nat /\ n <= n2 - 1
  <2>1. (n + 1) - 1 = n
    OBVIOUS
  <2> QED BY <2>1 DEF Faithful
<1>2. BookOk(b, n2 - 1)
  BY <1>1, Later
<1> QED BY <1>2 DEF Faithful

(* An honest answer keeps a good replay good: the order's book stays the   *)
(* server's, or is not trusted, and its own fills are what the book        *)
(* expects.                                                                *)
LEMMA GoodAnswered ==
    ASSUME NEW st, NEW n, NEW m, NEW acc, Kept(st, n, m, acc), NEW rest, DOMAIN rest = Tickers,
           NEW gh, Good(st, n, rest, gh), NEW req \in Requests,
           NEW r, Submits(r, st.books[req.ticker], n, req),
           NEW h, h = FairFills(rest[req.ticker], req), NEW fs, fs = SetToSeq(h),
           NEW f, Answered(f, st, req, r, fs, n, m + 1), Onward(f, st), NEW n2 \in Nat, n2 > n,
           NEW rest2, rest2 = [rest EXCEPT ![req.ticker] = AfterOf(@, h, m + 1, req)]
    PROVE  Good(f, n2, rest2, gh)
<1>1. n \in Nat \ {0} /\ m \in Nat /\ Rising(st.owner) /\ Sequence(st.aggressors)
  BY DEF Kept, OwnedBy, Issued
<1>2. req.ticker \in Tickers
  BY RequestIs
<1>3. Newest(st.owner, m + 1, n)
  BY <1>1 DEF Kept, OwnedBy, Rising, Newest
<1>4. PICK own2 : own2 = f.owner /\ own2 = Put(st.owner, m + 1, n)
  BY DEF Answered
<1>5. Extended(own2, st.owner, m + 1, n)
  BY <1>1, <1>3, <1>4, PutRises
<1>6. PICK R, b : R = rest[req.ticker] /\ b = st.books[req.ticker]
  OBVIOUS
<1>7. ASSUME req.ticker \notin DOMAIN st.taint
      PROVE  /\ Faithful(r.book, AfterOf(R, h, m + 1, req), own2, n + 1)
             /\ DiffAggressor(r.trades, ShownAll(fs, own2)) = "correct"
  <2>1. Faithful(b, R, st.owner, n)
    BY <1>2, <1>6, <1>7 DEF Good
  <2>2. /\ Faithful(r.book, AfterOf(R, h, m + 1, req), own2, n + 1)
        /\ FillSet(r.trades) = RemadeAll(h, own2) /\ \E band : TradesOnce(r.trades, band)
        /\ h \subseteq TradeRecs /\ IsFiniteSet(h) /\ MakersOwned(h, own2) /\ Deals(h, R, req.side)
        /\ Rising(own2)
    BY <1>1, <1>3, <1>4, <1>6, <2>1, OrderFaithful
  <2>3. PICK band : TradesOnce(r.trades, band)
    BY <2>2
  <2>4. SameDeals(FillSet(r.trades), h, own2)
    BY <2>2, HonestSame
  <2>5. Listing(fs, h)
    BY <2>2, SetToSeqIs
  <2>6. PICK fills : fills = ShownAll(fs, own2)
    OBVIOUS
  <2>7. PICK ts : ts = r.trades
    OBVIOUS
  <2>8. DiffAggressor(ts, fills) = IF SameDeals(FillSet(ts), h, own2) THEN "correct" ELSE "incorrect"
    BY <2>2, <2>3, <2>5, <2>6, <2>7, DiffSays
  <2> QED BY <2>2, <2>4, <2>6, <2>7, <2>8
<1>8. ASSUME NEW t \in Tickers, t \notin DOMAIN f.taint PROVE Faithful(f.books[t], rest2[t], f.owner, n2)
  <2>1. t \notin DOMAIN st.taint
    BY <1>8 DEF Answered
  <2>2. CASE t = req.ticker
    <3>1. f.books[t] = r.book /\ rest2[t] = AfterOf(R, h, m + 1, req)
      BY <1>2, <1>6, <2>2 DEF Answered, Kept
    <3>2. Faithful(r.book, AfterOf(R, h, m + 1, req), own2, n + 1)
      BY <1>7, <2>1, <2>2
    <3> QED BY <1>1, <1>4, <3>1, <3>2, FaithfulFrom
  <2>3. CASE t # req.ticker
    <3>1. f.books[t] = st.books[t] /\ rest2[t] = rest[t]
      BY <1>2, <2>3 DEF Answered, Kept
    <3>2. Faithful(st.books[t], rest[t], st.owner, n)
      BY <2>1 DEF Good
    <3> QED BY <1>1, <1>4, <1>5, <3>1, <3>2, OthersFaithful
  <2> QED BY <2>2, <2>3
<1>9. PICK len \in Nat : len = Len(st.aggressors)
  BY <1>1, SequenceIs
<1>10. /\ Sequence(f.aggressors) /\ Len(f.aggressors) = len + 1
       /\ \A k \in 1..len : f.aggressors[k] = st.aggressors[k]
       /\ f.aggressors[len + 1].ticker = req.ticker /\ f.aggressors[len + 1].seq = n
       /\ Says(f, f.aggressors[len + 1]) = DiffAggressor(r.trades, ShownAll(fs, f.owner))
  BY <1>1, <1>9, NewestIs
<1>11. ASSUME NEW k \in 1..(len + 1)
       PROVE  Late(f, f.aggressors[k]) \/ Says(f, f.aggressors[k]) = "correct"
  <2>1. k \in 1..len \/ k = len + 1
    OBVIOUS
  <2>2. CASE k \in 1..len
    <3>1. /\ Late(f, st.aggressors[k]) <=> Late(st, st.aggressors[k])
          /\ Says(f, st.aggressors[k]) = Says(st, st.aggressors[k])
          /\ f.aggressors[k] = st.aggressors[k]
      BY <1>9, <2>2 DEF Onward
    <3>2. Late(st, st.aggressors[k]) \/ Says(st, st.aggressors[k]) = "correct"
      BY <1>9, <2>2 DEF Good
    <3> QED BY <3>1, <3>2
  <2>3. CASE k = len + 1
    <3>1. CASE req.ticker \in DOMAIN st.taint
      <4>1. st.taint[req.ticker] \in Nat /\ st.taint[req.ticker] < n /\ f.taint = st.taint
        BY <3>1 DEF Kept, TaintedBy, Answered
      <4> QED BY <1>10, <2>3, <3>1, <4>1 DEF Late
    <3>2. CASE req.ticker \notin DOMAIN st.taint
      BY <1>4, <1>7, <1>10, <2>3, <3>2
    <3> QED BY <3>1, <3>2
  <2> QED BY <2>1, <2>2, <2>3
<1>12. Promised(gh, f)
  BY DEF Good, Promised, Answered
<1> QED BY <1>8, <1>10, <1>11, <1>12 DEF Good

(* A wrong answer on a trusted book is one divergence.                     *)
LEMMA DivergedNow ==
    ASSUME NEW st, NEW n, NEW m, NEW acc, Kept(st, n, m, acc), NEW gh, Good(st, n, resting, gh),
           NEW req \in Requests, req.ticker \notin DOMAIN st.taint,
           NEW r, Submits(r, st.books[req.ticker], n, req),
           NEW w \in WrongFills(req), NEW fs, fs = SetToSeq(w),
           NEW f, Answered(f, st, req, r, fs, n, m + 1), Onward(f, st)
    PROVE  Diverged(f)
<1>1. n \in Nat \ {0} /\ m \in Nat /\ Rising(st.owner) /\ Sequence(st.aggressors)
  BY DEF Kept, OwnedBy, Issued
<1>2. req.ticker \in Tickers
  BY RequestIs
<1>3. Newest(st.owner, m + 1, n)
  BY <1>1 DEF Kept, OwnedBy, Rising, Newest
<1>4. PICK own2 : own2 = f.owner /\ own2 = Put(st.owner, m + 1, n)
  BY DEF Answered
<1>5. PICK R, b, h : R = resting[req.ticker] /\ b = st.books[req.ticker] /\ h = HonestFills(req)
  OBVIOUS
<1>6. Faithful(b, R, st.owner, n) /\ h = FairFills(R, req)
  BY <1>2, <1>5 DEF Good, HonestFills, FairFills
<1>7. /\ FillSet(r.trades) = RemadeAll(h, own2) /\ \E band : TradesOnce(r.trades, band)
      /\ Rising(own2) /\ Owned(R, own2)
  BY <1>1, <1>3, <1>4, <1>5, <1>6, OrderFaithful
<1>8. WrongOf(w, own2, RemadeAll(h, own2))
  BY <1>5, <1>6, <1>7, WrongDiffers DEF Faithful
<1>9. /\ w \subseteq TradeRecs /\ IsFiniteSet(w) /\ MakersOwned(w, own2)
      /\ ~SameDeals(FillSet(r.trades), w, own2)
  BY <1>7, <1>8 DEF WrongOf
<1>10. PICK fills, ts : fills = ShownAll(fs, own2) /\ ts = r.trades
  OBVIOUS
<1>11. DiffAggressor(ts, fills) = "incorrect"
  <2>1. PICK band : TradesOnce(ts, band)
    BY <1>7, <1>10
  <2>2. Listing(fs, w)
    BY <1>9, SetToSeqIs
  <2>3. DiffAggressor(ts, fills) = IF SameDeals(FillSet(ts), w, own2) THEN "correct" ELSE "incorrect"
    BY <1>9, <1>10, <2>1, <2>2, DiffSays
  <2> QED BY <1>9, <1>10, <2>3
<1>12. PICK len \in Nat : len = Len(st.aggressors)
  BY <1>1, SequenceIs
<1>13. /\ Sequence(f.aggressors) /\ Len(f.aggressors) = len + 1
       /\ \A k \in 1..len : f.aggressors[k] = st.aggressors[k]
       /\ f.aggressors[len + 1].ticker = req.ticker /\ f.aggressors[len + 1].seq = n
       /\ Says(f, f.aggressors[len + 1]) = DiffAggressor(r.trades, ShownAll(fs, f.owner))
  BY <1>1, <1>12, NewestIs
<1>14. Says(f, f.aggressors[len + 1]) = "incorrect"
  BY <1>4, <1>10, <1>11, <1>13
<1>15. ~Late(f, f.aggressors[len + 1])
  BY <1>13 DEF Late, Answered
<1>16. ASSUME NEW j \in 1..len, f.aggressors[j].ticker = req.ticker
       PROVE  Says(f, f.aggressors[j]) = "correct"
  <2>1. /\ Says(f, st.aggressors[j]) = Says(st, st.aggressors[j]) /\ f.aggressors[j] = st.aggressors[j]
    BY <1>12 DEF Onward
  <2>2. ~Late(st, st.aggressors[j])
    BY <1>16, <2>1 DEF Late
  <2>3. Late(st, st.aggressors[j]) \/ Says(st, st.aggressors[j]) = "correct"
    BY <1>12 DEF Good
  <2> QED BY <2>1, <2>2, <2>3
<1>17. Diverges(f, len + 1)
  <2>1. \A j \in 1..((len + 1) - 1) : j \in 1..len
    OBVIOUS
  <2> QED BY <1>13, <1>14, <1>15, <1>16, <2>1 DEF Diverges
<1>18. len + 1 \in 1..Len(f.aggressors)
  BY <1>13
<1> QED BY <1>17, <1>18 DEF Diverged

(* What the replay of the log satisfies at every moment of a run.          *)
RunFaithful ==
    /\ RunShape
    /\ Kept(Replayed(log), nextSeq, ids, accepted)
    /\ Doubts(Replayed(log), log)
    /\ erred = "no" /\ NoLostCancel(log) => Good(Replayed(log), nextSeq, resting, ghosts)
    /\ erred = "clean" => Diverged(Replayed(log))

(* A log and a longer one.                                                 *)
LEMMA DoubtsMore ==
    ASSUME NEW l, Sequence(l), NEW st, Doubts(st, l), NEW l2, NEW e, Longer(l2, l, e),
           Nameless(e), NEW f,
           \A t \in DOMAIN f.taint : t \in DOMAIN st.taint \/ (e.outcome = "UNKNOWN" /\ e.ticker = t)
    PROVE  Doubts(f, l2)
<1>1. PICK len \in Nat : len = Len(l)
  BY SequenceIs
<1>2. Len(l2) = len + 1 /\ l2[len + 1] = e /\ \A i \in 1..len : l2[i] = l[i]
  BY <1>1 DEF Longer
<1>3. ASSUME NEW t \in DOMAIN f.taint
      PROVE  \E i \in 1..(len + 1) : l2[i].outcome = "UNKNOWN" /\ l2[i].ticker = t
  <2>1. CASE t \in DOMAIN st.taint
    <3>1. PICK i \in 1..len : l[i].outcome = "UNKNOWN" /\ l[i].ticker = t
      BY <1>1, <2>1 DEF Doubts
    <3>2. i \in 1..(len + 1) /\ l2[i] = l[i]
      BY <1>2
    <3> QED BY <3>1, <3>2
  <2>2. CASE e.outcome = "UNKNOWN" /\ e.ticker = t
    <3>1. len + 1 \in 1..(len + 1)
      OBVIOUS
    <3> QED BY <1>2, <2>2, <3>1
  <2> QED BY <2>1, <2>2
<1>4. ASSUME NEW i \in 1..(len + 1) PROVE Nameless(l2[i])
  <2>1. i \in 1..len \/ i = len + 1
    OBVIOUS
  <2>2. CASE i \in 1..len
    <3>1. Nameless(l[i])
      BY <1>1, <2>2 DEF Doubts
    <3> QED BY <1>2, <2>2, <3>1
  <2>3. CASE i = len + 1
    BY <1>2, <2>3
  <2> QED BY <2>1, <2>2, <2>3
<1> QED BY <1>2, <1>3, <1>4 DEF Doubts

(* Records that are no cancels and cost no trust.                          *)
LEMMA DoubtsJoined ==
    ASSUME NEW l, Sequence(l), NEW st, Doubts(st, l), NEW g, Sequence(g), NEW c, Joins(c, l, g),
           \A k \in 1..Len(g) : g[k].action # "CANCEL", NEW f, f.taint = st.taint
    PROVE  Doubts(f, c)
<1>1. PICK len \in Nat, more \in Nat : len = Len(l) /\ more = Len(g)
  BY SequenceIs
<1>2. /\ Len(c) = len + more /\ \A i \in 1..len : c[i] = l[i]
      /\ \A i \in 1..more : c[len + i] = g[i]
  BY <1>1 DEF Joins
<1>3. ASSUME NEW t \in DOMAIN f.taint
      PROVE  \E i \in 1..(len + more) : c[i].outcome = "UNKNOWN" /\ c[i].ticker = t
  <2>1. PICK i \in 1..len : l[i].outcome = "UNKNOWN" /\ l[i].ticker = t
    BY <1>1 DEF Doubts
  <2>2. i \in 1..(len + more) /\ c[i] = l[i]
    BY <1>2
  <2> QED BY <2>1, <2>2
<1>4. ASSUME NEW i \in 1..(len + more) PROVE Nameless(c[i])
  <2>1. i \in 1..len \/ (i - len \in 1..more /\ len + (i - len) = i)
    OBVIOUS
  <2>2. CASE i \in 1..len
    <3>1. Nameless(l[i])
      BY <1>1, <2>2 DEF Doubts
    <3> QED BY <1>2, <2>2, <3>1
  <2>3. CASE i - len \in 1..more /\ len + (i - len) = i
    <3>1. c[i] = g[i - len]
      BY <1>2, <2>3
    <3>2. g[i - len].action # "CANCEL"
      BY <1>1, <2>3
    <3> QED BY <3>1, <3>2 DEF Nameless
  <2> QED BY <2>1, <2>2, <2>3
<1> QED BY <1>2, <1>3, <1>4 DEF Doubts

(* A log without lost cancels had none before its last record.             *)
LEMMA LostLess ==
    ASSUME NEW l, Sequence(l), NEW l2, NEW e, Longer(l2, l, e), NoLostCancel(l2)
    PROVE  NoLostCancel(l) /\ (e.outcome = "UNKNOWN" => e.action # "CANCEL")
<1>1. PICK len \in Nat : len = Len(l)
  BY SequenceIs
<1>2. Len(l2) = len + 1 /\ l2[len + 1] = e /\ \A i \in 1..len : l2[i] = l[i]
  BY <1>1 DEF Longer
<1>3. \A i \in 1..(len + 1) : l2[i].outcome = "UNKNOWN" => l2[i].action # "CANCEL"
  BY <1>2 DEF NoLostCancel
<1>4. (\A i \in 1..len : i \in 1..(len + 1)) /\ len + 1 \in 1..(len + 1)
  OBVIOUS
<1>5. \A i \in 1..len : l[i].outcome = "UNKNOWN" => l[i].action # "CANCEL"
  BY <1>2, <1>3, <1>4
<1> QED BY <1>1, <1>2, <1>3, <1>4, <1>5 DEF NoLostCancel

(* Nor before its last records.                                            *)
LEMMA LostLessJoined ==
    ASSUME NEW l, Sequence(l), NEW g, Sequence(g), NEW c, Joins(c, l, g), NoLostCancel(c)
    PROVE  NoLostCancel(l)
<1>1. PICK len \in Nat, more \in Nat : len = Len(l) /\ more = Len(g)
  BY SequenceIs
<1>2. Len(c) = len + more /\ \A i \in 1..len : c[i] = l[i]
  BY <1>1 DEF Joins
<1>3. \A i \in 1..(len + more) : c[i].outcome = "UNKNOWN" => c[i].action # "CANCEL"
  BY <1>2 DEF NoLostCancel
<1>4. \A i \in 1..len : i \in 1..(len + more)
  OBVIOUS
<1> QED BY <1>1, <1>2, <1>3, <1>4 DEF NoLostCancel

(* The replay takes in one more attempt.                                   *)
OneMore(f, st, e) ==
    /\ Sequence(log) /\ Longer(log', log, e) /\ ReplayFields(st) /\ ReplayFields(f)
    /\ f = ReplayEvent(st, e) /\ nextSeq \in Nat \ {0}
    /\ NoLostCancel(log') => NoLostCancel(log) /\ (e.outcome = "UNKNOWN" => e.action # "CANCEL")

(* Recording an attempt is replaying it.                                   *)
LEMMA ReplayAttempt ==
    ASSUME RunFaithful, NEW e, Recorded(e), log' = Append(log, e),
           NEW st, st = Replayed(log), NEW f, f = Replayed(log')
    PROVE  OneMore(f, st, e)
<1>1. Sequence(log) /\ ReplayFields(st) /\ nextSeq \in Nat \ {0}
  BY DEF RunFaithful, RunShape, Underway, Numbered, Kept
<1>2. Longer(log', log, e)
  BY <1>1, AppendLonger
<1>3. f = ReplayEvent(st, e)
  BY <1>1, ReplayOneMore
<1>4. ReplayFields(f)
  BY <1>1, <1>3, EventCounts
<1>5. NoLostCancel(log') => NoLostCancel(log) /\ (e.outcome = "UNKNOWN" => e.action # "CANCEL")
  <2>1. PICK l2 : l2 = log'
    OBVIOUS
  <2>2. NoLostCancel(l2) => NoLostCancel(log) /\ (e.outcome = "UNKNOWN" => e.action # "CANCEL")
    BY <1>1, <1>2, <2>1, LostLess
  <2> QED BY <2>1, <2>2
<1> QED BY <1>1, <1>2, <1>3, <1>4, <1>5 DEF OneMore

(* What follows for a run whose new attempt opens no order.                *)
Moved(f, st, e, u) ==
    /\ DOMAIN f.books = Tickers /\ f.owner = st.owner /\ f.aggressors = st.aggressors
    /\ f.observed = st.observed /\ Marked(f.taint, st.taint, u, nextSeq)
    /\ u # "" => e.outcome = "UNKNOWN" /\ e.ticker = u

(* An attempt that opens no order keeps the bookkeeping of the replay.     *)
LEMMA AttemptKept ==
    ASSUME RunFaithful, NEW e, Nameless(e),
           NEW st, st = Replayed(log), NEW f, OneMore(f, st, e),
           f = Replayed(log'), NEW u, Moved(f, st, e, u),
           nextSeq' = nextSeq + 1, ids' = ids, accepted' \in SUBSET accepted
    PROVE  /\ Kept(Replayed(log'), nextSeq', ids', accepted') /\ Doubts(Replayed(log'), log')
           /\ Onward(f, st) /\ (Diverged(st) => Diverged(Replayed(log')))
<1>1. Kept(st, nextSeq, ids, accepted) /\ Doubts(st, log)
  BY DEF RunFaithful
<1>2. PICK acc2 \in SUBSET accepted : acc2 = accepted'
  OBVIOUS
<1>3. Kept(f, nextSeq + 1, ids, acc2) /\ Onward(f, st)
  BY <1>1, KeptOn DEF OneMore, Moved
<1>4. Doubts(f, log')
  <2>1. PICK l2 : l2 = log'
    OBVIOUS
  <2>2. \A t \in DOMAIN f.taint : t \in DOMAIN st.taint \/ (e.outcome = "UNKNOWN" /\ e.ticker = t)
    BY DEF Moved, Marked
  <2>3. Doubts(f, l2)
    BY <1>1, <2>1, <2>2, DoubtsMore DEF OneMore
  <2> QED BY <2>1, <2>3
<1>5. Diverged(st) => Diverged(f)
  <2>1. Sequence(st.aggressors) /\ Sequence(f.aggressors)
    BY <1>1, <1>3 DEF Kept, Issued
  <2> QED BY <1>3, <2>1, DivergedStays
<1> QED BY <1>2, <1>3, <1>4, <1>5

(* Good only looks at what rests on the tickers.                           *)
LEMMA GoodSame ==
    ASSUME NEW st, NEW n, NEW rest, NEW gh, Good(st, n, rest, gh), NEW rest2,
           \A t \in Tickers : rest2[t] = rest[t]
    PROVE  Good(st, n, rest2, gh)
BY DEF Good

(* An attempt that moves no book keeps the run faithful.                   *)
LEMMA AttemptFaithful ==
    ASSUME RunFaithful, RunShape', NEW e, Nameless(e), NEW st, st = Replayed(log), NEW f, f = Replayed(log'),
           OneMore(f, st, e), NEW u, Moved(f, st, e, u), f.books = st.books,
           nextSeq' = nextSeq + 1, ids' = ids, accepted' \in SUBSET accepted, erred' = erred,
           \A t \in Tickers : resting'[t] = resting[t],
           NoLostCancel(log') /\ Promised(ghosts, st) => Promised(ghosts', f)
    PROVE  RunFaithful'
<1>1. /\ Kept(Replayed(log'), nextSeq', ids', accepted') /\ Doubts(Replayed(log'), log')
      /\ Onward(f, st) /\ (Diverged(st) => Diverged(Replayed(log')))
  BY AttemptKept
<1>2. ASSUME erred' = "no", NoLostCancel(log')
      PROVE  Good(Replayed(log'), nextSeq', resting', ghosts')
  <2>1. NoLostCancel(log)
    BY <1>2 DEF OneMore
  <2>2. Good(st, nextSeq, resting, ghosts) /\ Kept(st, nextSeq, ids, accepted)
    BY <1>2, <2>1 DEF RunFaithful
  <2>3. PICK gh2 : gh2 = ghosts'
    OBVIOUS
  <2>4. Promised(gh2, f)
    BY <1>2, <2>2, <2>3 DEF Good
  <2>5. f.owner = st.owner /\ f.aggressors = st.aggressors /\ Marked(f.taint, st.taint, u, nextSeq)
    BY DEF Moved
  <2>6. Good(f, nextSeq + 1, resting, gh2)
    BY <1>1, <2>2, <2>4, <2>5, GoodOn
  <2>7. PICK rest2 : rest2 = resting'
    OBVIOUS
  <2>8. Good(f, nextSeq + 1, rest2, gh2)
    BY <2>6, <2>7, GoodSame
  <2> QED BY <2>3, <2>7, <2>8
<1>3. erred' = "clean" => Diverged(Replayed(log'))
  BY <1>1 DEF RunFaithful
<1> QED BY <1>1, <1>2, <1>3 DEF RunFaithful

(* The steps of a run keep its replay faithful, one by one. A 4xx answer:  *)
LEMMA RejectedFaithful ==
    ASSUME RunFaithful, RunShape', NEW req \in Requests, OrderRejected(req)
    PROVE  RunFaithful'
<1>1. PICK e : e = Intent(nextSeq, req, "REJECTED", 0)
  OBVIOUS
<1>2. Recorded(e) /\ Attempt(e) /\ Nameless(e) /\ e.outcome = "REJECTED"
  <2>1. req.side \in Sides
    BY RequestIs
  <2> QED BY <1>1, <2>1 DEF Intent, Recorded, Attempt, Sides, Nameless
<1>3. PICK st, f : st = Replayed(log) /\ f = Replayed(log')
  OBVIOUS
<1>4. log' = Append(log, e)
  BY <1>1 DEF OrderRejected
<1>5. OneMore(f, st, e)
  BY <1>2, <1>3, <1>4, ReplayAttempt
<1>6. Alike(f, st)
  BY <1>2, <1>5, RejectedStep DEF OneMore
<1>7. DOMAIN st.books = Tickers
  BY <1>3 DEF RunFaithful, Kept
<1>8. Moved(f, st, e, "")
  BY <1>6, <1>7, MarkedNothing, Zenon DEF Moved, Alike
<1>9. Promised(ghosts, f) <=> Promised(ghosts, st)
  BY <1>6 DEF Promised, Alike
<1>10. /\ nextSeq' = nextSeq + 1 /\ ids' = ids /\ accepted' \in SUBSET accepted /\ erred' = erred
       /\ resting' = resting /\ ghosts' = ghosts
  BY DEF OrderRejected
<1>11. f.books = st.books
  BY <1>6 DEF Alike
<1> QED BY <1>2, <1>3, <1>5, <1>8, <1>9, <1>10, <1>11, AttemptFaithful

(* an order without an answer, whose ticker loses the trust the ghost it   *)
(* leaves would break;                                                     *)
LEMMA UnansweredFaithful ==
    ASSUME RunFaithful, RunShape', NEW req \in Requests, OrderUnanswered(req)
    PROVE  RunFaithful'
<1>1. PICK e : e = Intent(nextSeq, req, "UNKNOWN", 0)
  OBVIOUS
<1>2. /\ Recorded(e) /\ Attempt(e) /\ Nameless(e) /\ e.outcome = "UNKNOWN"
      /\ e.ticker = req.ticker /\ e.seq = nextSeq
  <2>1. req.side \in Sides
    BY RequestIs
  <2> QED BY <1>1, <2>1 DEF Intent, Recorded, Attempt, Sides, Nameless
<1>3. PICK st, f : st = Replayed(log) /\ f = Replayed(log')
  OBVIOUS
<1>4. log' = Append(log, e)
  BY <1>1 DEF OrderUnanswered
<1>5. OneMore(f, st, e)
  BY <1>2, <1>3, <1>4, ReplayAttempt
<1>6. Doubted(f, st, e)
  BY <1>2, <1>5, UnknownStep DEF OneMore
<1>7. Kept(st, nextSeq, ids, accepted)
  BY <1>3 DEF RunFaithful
<1>8. Marked(f.taint, st.taint, req.ticker, nextSeq)
  <2>1. /\ nextSeq \in Nat /\ \A t \in DOMAIN st.taint : st.taint[t] \in Nat /\ st.taint[t] < nextSeq
    BY <1>7 DEF Kept, TaintedBy
  <2>2. f.taint = MarkTaint(st.taint, req.ticker, nextSeq)
    BY <1>2, <1>6 DEF Doubted
  <2> QED BY <2>1, <2>2, MarkIs
<1>9. Moved(f, st, e, req.ticker) /\ f.books = st.books
  BY <1>2, <1>6, <1>7, <1>8, Zenon DEF Moved, Doubted, Kept
<1>10. /\ nextSeq' = nextSeq + 1 /\ ids' = ids /\ accepted' \in SUBSET accepted /\ erred' = erred
       /\ resting' = resting /\ ghosts' = ghosts \cup {[order |-> TRUE, req |-> req, target |-> 0]}
  BY DEF OrderUnanswered
<1>11. Promised(ghosts, st) => Promised(ghosts', f)
  <2> SUFFICES ASSUME Promised(ghosts, st) PROVE Promised(ghosts', f)
    OBVIOUS
  <2>1. Promised(ghosts, f)
    BY <1>8, PromisedOn
  <2>2. req.ticker \in DOMAIN f.taint
    <3>1. req.ticker # ""
      BY RequestIs, RunBounds, Zenon
    <3> QED BY <1>8, <3>1, Zenon DEF Marked
  <2>3. PICK g : g = [order |-> TRUE, req |-> req, target |-> 0]
    OBVIOUS
  <2>4. g.order /\ g.req \in Requests /\ g.req.ticker \in DOMAIN f.taint
    BY <2>2, <2>3
  <2>5. ghosts' = ghosts \cup {g}
    BY <1>10, <2>3
  <2> QED BY <2>1, <2>4, <2>5 DEF Promised
<1> QED BY <1>2, <1>3, <1>5, <1>9, <1>10, <1>11, AttemptFaithful

(* a cancel without an answer, after which nothing is claimed of the       *)
(* books;                                                                  *)
LEMMA CancelLostFaithful ==
    ASSUME RunFaithful, RunShape', NEW target \in accepted, CancelUnanswered(target)
    PROVE  RunFaithful'
<1>1. PICK e : e = CancelIntent(nextSeq, target, "UNKNOWN")
  OBVIOUS
<1>2. Recorded(e) /\ Attempt(e) /\ e.outcome = "UNKNOWN" /\ e.action = "CANCEL" /\ e.seq = nextSeq
  BY <1>1 DEF CancelIntent, Recorded, Attempt
<1>3. Nameless(e) /\ e.ticker = ""
  BY <1>1, Zenon DEF CancelIntent, Nameless
<1>4. PICK st, f : st = Replayed(log) /\ f = Replayed(log')
  OBVIOUS
<1>5. log' = Append(log, e)
  BY <1>1 DEF CancelUnanswered
<1>6. OneMore(f, st, e)
  BY <1>2, <1>4, <1>5, ReplayAttempt
<1>7. Doubted(f, st, e)
  BY <1>2, <1>6, UnknownStep DEF OneMore
<1>8. DOMAIN st.books = Tickers
  BY <1>4 DEF RunFaithful, Kept
<1>9. f.taint = st.taint
  BY <1>3, <1>7, Zenon DEF Doubted, MarkTaint
<1>10. Moved(f, st, e, "") /\ f.books = st.books
  BY <1>7, <1>8, <1>9, MarkedNothing, Zenon DEF Moved, Doubted
<1>11. /\ nextSeq' = nextSeq + 1 /\ ids' = ids /\ accepted' \in SUBSET accepted /\ erred' = erred
       /\ resting' = resting
  BY DEF CancelUnanswered
<1>12. ~NoLostCancel(log')
  BY <1>2, <1>6 DEF OneMore
<1> QED BY <1>3, <1>4, <1>6, <1>10, <1>11, <1>12, AttemptFaithful

(* a cancel that was answered.                                             *)
LEMMA CancelFaithfully ==
    ASSUME RunFaithful, RunShape', NEW target \in accepted, CancelAnswered(target)
    PROVE  RunFaithful'
<1>1. PICK rests \in BOOLEAN : rests <=> \E t \in Tickers : \E o \in resting[t] : o.id = target
  OBVIOUS
<1>2. PICK e : e = CancelIntent(nextSeq, target, IF rests THEN "OK" ELSE "REJECTED")
  OBVIOUS
<1>3. /\ Recorded(e) /\ Attempt(e) /\ e.action = "CANCEL" /\ e.seq = nextSeq
      /\ e.outcome = (IF rests THEN "OK" ELSE "REJECTED") /\ e.target = target
  BY <1>2 DEF CancelIntent, Recorded, Attempt
<1>4. Nameless(e)
  BY <1>2, Zenon DEF CancelIntent, Nameless
<1>5. PICK st, f : st = Replayed(log) /\ f = Replayed(log')
  OBVIOUS
<1>6. log' = Append(log, e)
  BY <1>1, <1>2 DEF CancelAnswered
<1>7. OneMore(f, st, e)
  BY <1>3, <1>5, <1>6, ReplayAttempt
<1>8. Kept(st, nextSeq, ids, accepted)
  BY <1>5 DEF RunFaithful
<1>9. /\ nextSeq' = nextSeq + 1 /\ ids' = ids /\ accepted' \in SUBSET accepted /\ erred' = erred
      /\ resting' = CancelAt(resting, target) /\ ghosts' = ghosts
  BY DEF CancelAnswered
<1>10. CASE ~rests
  <2>1. Alike(f, st)
    BY <1>3, <1>7, <1>10, RejectedStep DEF OneMore
  <2>2. Moved(f, st, e, "") /\ f.books = st.books
    BY <1>8, <2>1, MarkedNothing, Zenon DEF Moved, Alike, Kept
  <2>3. Promised(ghosts, f) <=> Promised(ghosts, st)
    BY <2>1 DEF Promised, Alike
  <2>4. \A t \in Tickers : resting'[t] = resting[t]
    <3>1. \A t \in Tickers : resting'[t] = {o \in resting[t] : o.id # target}
      BY <1>9 DEF CancelAt
    <3>2. \A t \in Tickers : \A o \in resting[t] : o.id # target
      BY <1>1, <1>10
    <3> QED BY <3>1, <3>2
  <2> QED BY <1>4, <1>5, <1>7, <1>9, <2>2, <2>3, <2>4, AttemptFaithful
<1>11. CASE rests
  <2>1. Cancelled(f, st, e)
    BY <1>3, <1>7, <1>11, CancelStep DEF OneMore
  <2>2. target \in DOMAIN st.owner
    BY <1>8 DEF Kept
  <2>3. f.books = [t \in Tickers |-> Cancel(st.books[t], st.owner[target])]
    BY <1>3, <2>1, <2>2 DEF Cancelled
  <2>4. DOMAIN f.books = Tickers
    BY <2>3
  <2>5. Moved(f, st, e, "")
    BY <2>1, <2>4, MarkedNothing, Zenon DEF Moved, Cancelled
  <2>6. /\ Kept(Replayed(log'), nextSeq', ids', accepted') /\ Doubts(Replayed(log'), log')
        /\ Onward(f, st) /\ (Diverged(st) => Diverged(Replayed(log')))
    BY <1>4, <1>5, <1>7, <1>9, <2>5, AttemptKept
  <2>7. ASSUME erred' = "no", NoLostCancel(log')
        PROVE  Good(Replayed(log'), nextSeq', resting', ghosts')
    <3>1. Good(st, nextSeq, resting, ghosts)
      BY <1>5, <1>7, <1>9, <2>7 DEF RunFaithful, OneMore
    <3>2. PICK rest2 : rest2 = CancelAt(resting, e.target) /\ rest2 = resting'
      BY <1>3, <1>9
    <3>3. Good(f, nextSeq + 1, rest2, ghosts)
      BY <1>3, <1>8, <2>1, <2>2, <2>6, <3>1, <3>2, GoodCancel
    <3> QED BY <1>5, <1>9, <3>2, <3>3
  <2>8. erred' = "clean" => Diverged(Replayed(log'))
    BY <1>5, <1>9, <2>6 DEF RunFaithful
  <2> QED BY <2>6, <2>7, <2>8 DEF RunFaithful
<1> QED BY <1>10, <1>11

(* The records of an answer's trades, one per trade.                       *)
LEMMA TradesRecorded ==
    ASSUME NEW req, NEW F, IsFiniteSet(F), NEW g, g = Trades(req, F), NEW fs, fs = SetToSeq(F)
    PROVE  /\ Sequence(g) /\ Len(g) = Len(fs) /\ Len(fs) \in Nat
           /\ \A k \in 1..Len(g) : g[k].action # "CANCEL"
<1>1. Listing(fs, F)
  BY SetToSeqIs
<1>2. PICK n \in Nat : n = Len(fs) /\ DOMAIN fs = 1..n
  BY <1>1, SequenceIs DEF Listing
<1>3. g = [k \in 1..n |-> FillRecord(nextSeq + k, req, nextSeq, fs[k])]
  BY <1>2 DEF Trades
<1>4. Sequence(g) /\ Len(g) = n
  <2>1. g = [k \in 1..n |-> g[k]]
    BY <1>3
  <2> QED BY <2>1, FunctionSequence
<1>5. ASSUME NEW k \in 1..n PROVE g[k].action # "CANCEL"
  <2>1. PICK q, x : q = nextSeq + k /\ x = fs[k]
    OBVIOUS
  <2>2. g[k] = FillRecord(q, req, nextSeq, x)
    BY <1>3, <2>1
  <2> QED BY <2>2, FillRecordIs
<1> QED BY <1>2, <1>4, <1>5

(* What an answer leaves, whatever it says.                                *)
Answers(f, st, req, r, fs) ==
    /\ Answered(f, st, req, r, fs, nextSeq, ids + 1) /\ Onward(f, st)
    /\ Kept(f, nextSeq', ids', accepted') /\ Doubts(f, log')
    /\ NoLostCancel(log') => NoLostCancel(log)
    /\ nextSeq' \in Nat /\ nextSeq' > nextSeq
    /\ Diverged(st) => Diverged(f)

(* An answer, right or wrong, keeps the bookkeeping of the replay.         *)
LEMMA AnswerKept ==
    ASSUME RunFaithful, NEW req \in Requests, NEW F, IsFiniteSet(F), RecordAnswer(req, F),
           ids' = ids + 1, NEW st, st = Replayed(log), NEW f, f = Replayed(log'),
           NEW r, Submits(r, st.books[req.ticker], nextSeq, req), NEW fs, fs = SetToSeq(F)
    PROVE  Answers(f, st, req, r, fs)
<1>1. RunShape /\ Kept(st, nextSeq, ids, accepted) /\ Doubts(st, log)
  BY DEF RunFaithful
<1>2. Answered(f, st, req, r, fs, nextSeq, ids + 1)
  BY <1>1, AnswerReplayed
<1>3. PICK g : g = Trades(req, F)
  OBVIOUS
<1>4. /\ Sequence(g) /\ Len(g) = Len(fs) /\ Len(fs) \in Nat
      /\ \A k \in 1..Len(g) : g[k].action # "CANCEL"
  BY <1>3, TradesRecorded
<1>5. nextSeq \in Nat \ {0} /\ ids \in Nat /\ nextSeq' = nextSeq + 1 + Len(fs)
  BY <1>1 DEF Kept, RecordAnswer
<1>6. nextSeq' \in Nat /\ nextSeq' > nextSeq
  BY <1>4, <1>5
<1>7. PICK n2 \in Nat : n2 = nextSeq' /\ n2 > nextSeq
  BY <1>6
<1>8. Kept(f, n2, ids + 1, accepted \cup {ids + 1}) /\ Onward(f, st)
  BY <1>1, <1>2, <1>7, KeptAnswered
<1>9. accepted' = accepted \cup {ids + 1}
  BY DEF RecordAnswer
<1>10. PICK e, l, c : e = Intent(nextSeq, req, "OK", ids + 1) /\ l = Append(log, e) /\ c = l \o g
  OBVIOUS
<1>11. log' = c
  BY <1>3, <1>10 DEF RecordAnswer, Trades
<1>12. Sequence(log) /\ Longer(l, log, e) /\ Sequence(l)
  <2>1. Sequence(log)
    BY <1>1 DEF RunShape, Underway, Numbered
  <2>2. Longer(l, log, e)
    BY <1>10, <2>1, AppendLonger
  <2> QED BY <2>1, <2>2 DEF Longer
<1>13. Joins(c, l, g)
  BY <1>4, <1>10, <1>12, ConcatIs
<1>14. Nameless(e)
  <2>1. req.side \in Sides
    BY RequestIs
  <2> QED BY <1>10, <2>1 DEF Intent, Sides, Nameless
<1>15. f.taint = st.taint
  BY <1>2 DEF Answered
<1>16. Doubts(f, l)
  <2>1. \A t \in DOMAIN f.taint : t \in DOMAIN st.taint \/ (e.outcome = "UNKNOWN" /\ e.ticker = t)
    BY <1>15
  <2> QED BY <1>1, <1>12, <1>14, <2>1, DoubtsMore
<1>17. Doubts(f, c)
  <2>1. f.taint = f.taint
    OBVIOUS
  <2> QED BY <1>4, <1>12, <1>13, <1>16, <2>1, DoubtsJoined
<1>18. NoLostCancel(c) => NoLostCancel(log)
  <2>1. NoLostCancel(c) => NoLostCancel(l)
    BY <1>4, <1>12, <1>13, LostLessJoined
  <2>2. NoLostCancel(l) => NoLostCancel(log)
    BY <1>12, LostLess
  <2> QED BY <2>1, <2>2
<1>19. Diverged(st) => Diverged(f)
  <2>1. Sequence(st.aggressors) /\ Sequence(f.aggressors)
    BY <1>1, <1>8 DEF Kept, Issued
  <2> QED BY <1>8, <2>1, DivergedStays
<1> QED BY <1>2, <1>6, <1>7, <1>8, <1>9, <1>11, <1>17, <1>18, <1>19 DEF Answers

(* The further steps. An honest answer:                                    *)
LEMMA AnsweredFaithful ==
    ASSUME RunFaithful, RunShape', NEW req \in Requests, OrderAnswered(req)
    PROVE  RunFaithful'
<1>1. PICK h : h = HonestFills(req)
  OBVIOUS
<1>2. /\ RecordAnswer(req, h) /\ resting' = ServerBooks(req, h) /\ ids' = ids + 1
      /\ ghosts' = ghosts /\ erred' = erred
  BY <1>1 DEF OrderAnswered
<1>3. IsFiniteSet(h) /\ RunShape
  BY <1>1, HonestFinite DEF RunFaithful
<1>4. PICK st, f : st = Replayed(log) /\ f = Replayed(log')
  OBVIOUS
<1>5. PICK r, fs : Submits(r, st.books[req.ticker], nextSeq, req) /\ fs = SetToSeq(h)
  BY DEF Submits
<1>6. Answers(f, st, req, r, fs)
  BY <1>2, <1>3, <1>4, <1>5, AnswerKept
<1>7. ASSUME erred' = "no", NoLostCancel(log')
      PROVE  Good(Replayed(log'), nextSeq', resting', ghosts')
  <2>1. Good(st, nextSeq, resting, ghosts) /\ Kept(st, nextSeq, ids, accepted)
    BY <1>2, <1>4, <1>6, <1>7 DEF RunFaithful, Answers
  <2>2. h = FairFills(resting[req.ticker], req)
    BY <1>1 DEF HonestFills, FairFills
  <2>3. PICK rest2 : rest2 = resting'
    OBVIOUS
  <2>4. rest2 = [resting EXCEPT ![req.ticker] = AfterOf(@, h, ids + 1, req)]
    BY <1>2, <2>3 DEF ServerBooks, AfterOf
  <2>5. PICK n2 \in Nat : n2 = nextSeq' /\ n2 > nextSeq
    BY <1>6 DEF Answers
  <2>6. DOMAIN resting = Tickers
    BY <1>3 DEF RunShape
  <2>7. Answered(f, st, req, r, fs, nextSeq, ids + 1) /\ Onward(f, st)
    BY <1>6 DEF Answers
  <2>8. Good(f, n2, rest2, ghosts)
    BY <1>5, <2>1, <2>2, <2>4, <2>5, <2>6, <2>7, GoodAnswered
  <2> QED BY <1>2, <1>4, <2>3, <2>5, <2>8
<1>8. erred' = "clean" => Diverged(Replayed(log'))
  BY <1>2, <1>4, <1>6 DEF RunFaithful, Answers
<1>9. Kept(Replayed(log'), nextSeq', ids', accepted') /\ Doubts(Replayed(log'), log')
  BY <1>4, <1>6 DEF Answers
<1> QED BY <1>7, <1>8, <1>9 DEF RunFaithful

(* a wrong one, which diverges if the book was trusted and the server      *)
(* right so far;                                                           *)
LEMMA MismatchedFaithful ==
    ASSUME RunFaithful, RunShape', NEW req \in Requests, OrderMismatched(req)
    PROVE  RunFaithful'
<1>1. PICK w \in WrongFills(req) : RecordAnswer(req, w)
  BY DEF OrderMismatched
<1>2. IsFiniteSet(w) /\ RunShape /\ ids' = ids + 1
  BY WrongFinite DEF RunFaithful, OrderMismatched
<1>3. PICK st, f : st = Replayed(log) /\ f = Replayed(log')
  OBVIOUS
<1>4. PICK r, fs : Submits(r, st.books[req.ticker], nextSeq, req) /\ fs = SetToSeq(w)
  BY DEF Submits
<1>5. Answers(f, st, req, r, fs)
  BY <1>1, <1>2, <1>3, <1>4, AnswerKept
<1>6. erred' # "no"
  BY Zenon DEF OrderMismatched
<1>7. erred' = "clean" =>
        erred = "clean" \/ (erred = "no" /\ ~\E i \in Unknowns : log[i].ticker \in {req.ticker, ""})
  BY Zenon DEF OrderMismatched
<1>8. ASSUME erred = "no", ~\E i \in Unknowns : log[i].ticker \in {req.ticker, ""}
      PROVE  Diverged(f)
  <2>1. Kept(st, nextSeq, ids, accepted) /\ Doubts(st, log)
    BY <1>3 DEF RunFaithful
  <2>2. DOMAIN log = 1..Len(log)
    BY <1>2, SequenceIs DEF RunShape, Underway, Numbered
  <2>3. \A i \in 1..Len(log) : log[i].outcome = "UNKNOWN" => log[i].ticker \notin {req.ticker, ""}
    BY <1>8, <2>2, Zenon DEF Unknowns
  <2>4. req.ticker \notin DOMAIN st.taint
    BY <2>1, <2>3, Zenon DEF Doubts
  <2>5. NoLostCancel(log)
    BY <2>1, <2>3, Zenon DEF Doubts, NoLostCancel, Nameless
  <2>6. Good(st, nextSeq, resting, ghosts)
    BY <1>3, <1>8, <2>5 DEF RunFaithful
  <2> QED BY <1>4, <1>5, <2>1, <2>4, <2>6, DivergedNow DEF Answers
<1>9. erred' = "clean" => Diverged(f)
  BY <1>3, <1>5, <1>7, <1>8 DEF RunFaithful, Answers
<1>10. Kept(Replayed(log'), nextSeq', ids', accepted') /\ Doubts(Replayed(log'), log')
  BY <1>3, <1>5 DEF Answers
<1> QED BY <1>3, <1>6, <1>9, <1>10 DEF RunFaithful

(* a request the bot gave up on, applied late to a book that is not        *)
(* trusted.                                                                *)
LEMMA GhostFaithful ==
    ASSUME RunFaithful, RunShape', NEW g \in ghosts, GhostApplied(g)
    PROVE  RunFaithful'
<1>1. PICK st : st = Replayed(log)
  OBVIOUS
<1>2. Kept(st, nextSeq, ids, accepted) /\ Doubts(st, log) /\ RunShape
  BY <1>1 DEF RunFaithful
<1>3. /\ log' = log /\ nextSeq' = nextSeq /\ accepted' = accepted /\ erred' = erred
      /\ ghosts' = ghosts \ {g} /\ ids' \in {ids, ids + 1}
  BY DEF GhostApplied
<1>4. Kept(st, nextSeq, ids', accepted)
  <2>1. ids \in Nat /\ OwnedBy(st.owner, nextSeq, ids)
    BY <1>2 DEF Kept
  <2>2. PICK m : m = ids' /\ m \in {ids, ids + 1}
    BY <1>3
  <2>3. OwnedBy(st.owner, nextSeq, m) /\ m \in Nat
    BY <2>1, <2>2 DEF OwnedBy
  <2> QED BY <1>2, <2>2, <2>3 DEF Kept
<1>5. ASSUME erred' = "no", NoLostCancel(log')
      PROVE  Good(st, nextSeq, resting', ghosts')
  <2>1. Good(st, nextSeq, resting, ghosts)
    BY <1>1, <1>3, <1>5 DEF RunFaithful
  <2>2. g.order /\ g.req \in Requests /\ g.req.ticker \in DOMAIN st.taint
    BY <2>1 DEF Good, Promised
  <2>3. resting' = ServerBooks(g.req, HonestFills(g.req))
    BY <2>2 DEF GhostApplied
  <2>4. \A t \in Tickers : t # g.req.ticker => resting'[t] = resting[t]
    BY <1>2, <2>3 DEF ServerBooks, RunShape
  <2>5. PICK rest2, gh2 : rest2 = resting' /\ gh2 = ghosts'
    OBVIOUS
  <2>6. Promised(gh2, st)
    BY <1>3, <2>1, <2>5 DEF Good, Promised
  <2>7. \A t \in Tickers : t \notin DOMAIN st.taint => rest2[t] = resting[t]
    BY <2>2, <2>4, <2>5
  <2>8. Good(st, nextSeq, rest2, gh2)
    BY <2>1, <2>6, <2>7 DEF Good
  <2> QED BY <2>5, <2>8
<1>6. erred' = "clean" => Diverged(st)
  BY <1>1, <1>3 DEF RunFaithful
<1> QED BY <1>1, <1>2, <1>3, <1>4, <1>5, <1>6 DEF RunFaithful

(* The accounts the diff loop keeps.                                       *)
DiffFields(acc) == DOMAIN acc = {"taint", "hard", "mismatch", "fills"} /\ acc.hard \in BOOLEAN

(* The book of this order had lost trust before it, by these accounts.     *)
LateIn(taint, a) == a.ticker \in DOMAIN taint /\ a.seq > taint[a.ticker]

(* The diff of an order has three outcomes.                                *)
LEMMA SaysIs == \A st, a : Says(st, a) \in {"correct", "unverified", "incorrect"}
BY DEF Says, DiffAggressor

(* One round of the diff loop.                                             *)
Round(acc2, acc, st, a, tainted) ==
    /\ DiffFields(acc2)
    /\ Says(st, a) = "correct" => acc2 = acc
    /\ acc2.taint \in {acc.taint, MarkTaint(acc.taint, a.ticker, a.seq)}
    /\ acc.hard => acc2.hard
    /\ ~acc.hard /\ acc2.hard => Says(st, a) = "incorrect" /\ ~(tainted \/ LateIn(acc.taint, a))
    /\ Says(st, a) = "incorrect" /\ ~tainted /\ ~LateIn(acc.taint, a) => acc2.hard

(* DiffOne is such a round.                                                *)
LEMMA RoundIs ==
    ASSUME NEW acc, DiffFields(acc), NEW st, NEW a, NEW tainted \in BOOLEAN,
           NEW acc2, acc2 = DiffOne(acc, a, st.observed, tainted)
    PROVE  Round(acc2, acc, st, a, tainted)
<1> DEFINE marked == MarkTaint(acc.taint, a.ticker, a.seq)
<1>1. PICK v : v = Says(st, a) /\ v \in {"correct", "unverified", "incorrect"}
  BY SaysIs
<1>2. PICK late \in BOOLEAN : (late <=> LateIn(acc.taint, a)) /\ (Tainted(acc, a, tainted) <=> tainted \/ late)
  BY DEF LateIn, Tainted
<1> HIDE DEF marked
<1>3. acc2 = CASE v = "correct" -> acc
               [] v = "unverified" -> [acc EXCEPT !.fills = @ + 1, !.taint = marked]
               [] v = "incorrect" /\ Tainted(acc, a, tainted) ->
                     [acc EXCEPT !.mismatch = @ + 1, !.taint = marked]
               [] OTHER -> [acc EXCEPT !.hard = TRUE]
  BY <1>1 DEF DiffOne, Says, FillsBy, marked
<1>4. CASE v = "correct"
  <2>1. acc2 = acc
    BY <1>3, <1>4
  <2> QED BY <1>1, <1>4, <2>1 DEF Round
<1>5. CASE v = "unverified"
  <2>1. acc2 = [acc EXCEPT !.fills = @ + 1, !.taint = marked]
    BY <1>3, <1>5
  <2>2. DiffFields(acc2) /\ acc2.taint = marked /\ acc2.hard = acc.hard
    BY <2>1 DEF DiffFields
  <2> QED BY <1>1, <1>5, <2>2 DEF Round, marked
<1>6. CASE v = "incorrect" /\ (tainted \/ late)
  <2>1. acc2 = [acc EXCEPT !.mismatch = @ + 1, !.taint = marked]
    BY <1>2, <1>3, <1>6
  <2>2. DiffFields(acc2) /\ acc2.taint = marked /\ acc2.hard = acc.hard
    BY <2>1 DEF DiffFields
  <2> QED BY <1>1, <1>2, <1>6, <2>2 DEF Round, marked
<1>7. CASE v = "incorrect" /\ ~(tainted \/ late)
  <2>1. acc2 = [acc EXCEPT !.hard = TRUE]
    BY <1>2, <1>3, <1>7
  <2>2. DiffFields(acc2) /\ acc2.taint = acc.taint /\ acc2.hard = TRUE
    BY <2>1 DEF DiffFields
  <2> QED BY <1>1, <1>2, <1>7, <2>2 DEF Round
<1> QED BY <1>1, <1>4, <1>5, <1>6, <1>7

(* The diff loop, round by round.                                          *)
DiffRuns(loop, st, tainted) ==
    /\ loop[0] = DiffStart(st) /\ loop[Len(st.aggressors)] = DiffAll(st, tainted)
    /\ \A n \in 0..(Len(st.aggressors) - 1) :
          loop[n + 1] = DiffOne(loop[n], st.aggressors[n + 1], st.observed, tainted)

(* The diff loop goes through its rounds.                                  *)
LEMMA DiffRounds ==
    ASSUME NEW st, Sequence(st.aggressors), NEW tainted
    PROVE  \E loop : DiffRuns(loop, st, tainted)
<1>1. PICK len \in Nat : len = Len(st.aggressors)
  BY SequenceIs
<1>2. PICK loop : loop = DiffLoop(st, tainted)
  OBVIOUS
<1>3. /\ loop[0] = DiffStart(st)
      /\ \A n \in 0..(len - 1) :
            loop[n + 1] = DiffOne(loop[n], st.aggressors[n + 1], st.observed, tainted)
  BY <1>1, <1>2, DiffExists
<1>4. loop[len] = DiffAll(st, tainted)
  BY <1>1, <1>2 DEF DiffAll
<1> QED BY <1>1, <1>3, <1>4 DEF DiffRuns

(* The accounts the diff loop starts from.                                 *)
LEMMA StartFields ==
    ASSUME NEW st
    PROVE  /\ DiffFields(DiffStart(st)) /\ ~DiffStart(st).hard /\ DiffStart(st).taint = st.taint
           /\ DiffStart(st).mismatch = 0 /\ DiffStart(st).fills = 0
BY DEF DiffStart, DiffFields

(* An order is failed only for a divergence on a trusted book, and the     *)
(* trust of a stream with a hole in it is lost from the start.             *)
LEMMA NeverHard ==
    ASSUME NEW st, Sequence(st.aggressors), NEW n \in Nat, NEW tainted \in BOOLEAN,
           tainted \/ (/\ Issued(st, n) /\ TaintedBy(st, n)
                       /\ \A k \in 1..Len(st.aggressors) :
                            Late(st, st.aggressors[k]) \/ Says(st, st.aggressors[k]) = "correct")
    PROVE  ~DiffAll(st, tainted).hard
<1>1. PICK len \in Nat : len = Len(st.aggressors)
  BY SequenceIs
<1>2. PICK loop : DiffRuns(loop, st, tainted)
  BY DiffRounds
<1> DEFINE Ok(k) == /\ DiffFields(loop[k]) /\ ~loop[k].hard
                    /\ tainted \/ loop[k].taint = st.taint
           T == {k \in Nat : k <= len => Ok(k)}
<1>3. 0 \in T
  <2>1. loop[0] = DiffStart(st)
    BY <1>2 DEF DiffRuns
  <2> QED BY <2>1, StartFields
<1>4. ASSUME NEW k \in Nat, k \in T PROVE k + 1 \in T
  <2> SUFFICES ASSUME k + 1 <= len PROVE Ok(k + 1)
    OBVIOUS
  <2>1. k \in 0..(len - 1) /\ k + 1 \in 1..len /\ k <= len
    OBVIOUS
  <2>2. PICK acc, acc2, a : acc = loop[k] /\ acc2 = loop[k + 1] /\ a = st.aggressors[k + 1]
    OBVIOUS
  <2>3. acc2 = DiffOne(acc, a, st.observed, tainted)
    BY <1>1, <1>2, <2>1, <2>2 DEF DiffRuns
  <2>4. DiffFields(acc) /\ ~acc.hard /\ (tainted \/ acc.taint = st.taint)
    BY <1>4, <2>1, <2>2
  <2>5. Round(acc2, acc, st, a, tainted)
    BY <2>3, <2>4, RoundIs
  <2>6. CASE tainted
    BY <2>2, <2>4, <2>5, <2>6 DEF Round
  <2>7. CASE ~tainted
    <3>1. Late(st, a) \/ Says(st, a) = "correct"
      BY <1>1, <2>1, <2>2, <2>7
    <3>2. CASE Says(st, a) = "correct"
      <4>1. acc2 = acc
        BY <2>5, <3>2 DEF Round
      <4> QED BY <2>2, <2>4, <4>1
    <3>3. CASE Late(st, a)
      <4>1. acc.taint = st.taint
        BY <2>4, <2>7
      <4>2. a.ticker \in DOMAIN st.taint /\ st.taint[a.ticker] <= a.seq
        <5>1. /\ a.ticker \in DOMAIN st.taint /\ a.seq > st.taint[a.ticker]
              /\ a.seq \in Nat /\ st.taint[a.ticker] \in Nat
          BY <1>1, <2>1, <2>2, <2>7, <3>3 DEF Late, Issued, TaintedBy
        <5> QED BY <5>1
      <4>3. MarkTaint(acc.taint, a.ticker, a.seq) = st.taint
        BY <4>1, <4>2, Zenon DEF MarkTaint
      <4>4. LateIn(acc.taint, a)
        BY <3>3, <4>1 DEF Late, LateIn
      <4>5. DiffFields(acc2) /\ ~acc2.hard /\ acc2.taint = st.taint
        BY <2>4, <2>5, <4>1, <4>3, <4>4, Zenon DEF Round
      <4> QED BY <2>2, <4>5
    <3> QED BY <3>1, <3>2, <3>3
  <2> QED BY <2>6, <2>7
<1>5. len \in T
  <2> HIDE DEF T
  <2> QED BY <1>3, <1>4, SetInduction
<1>6. Ok(len)
  BY <1>5
<1>7. loop[len] = DiffAll(st, tainted)
  BY <1>1, <1>2 DEF DiffRuns
<1> QED BY <1>6, <1>7

(* A stream all of whose orders agree leaves nothing to count.             *)
LEMMA AllCorrect ==
    ASSUME NEW st, Sequence(st.aggressors), NEW tainted \in BOOLEAN,
           \A k \in 1..Len(st.aggressors) : Says(st, st.aggressors[k]) = "correct"
    PROVE  DiffAll(st, tainted) = DiffStart(st)
<1>1. PICK len \in Nat : len = Len(st.aggressors)
  BY SequenceIs
<1>2. PICK loop : DiffRuns(loop, st, tainted)
  BY DiffRounds
<1> DEFINE T == {k \in Nat : k <= len => loop[k] = DiffStart(st)}
<1>3. 0 \in T
  BY <1>2 DEF DiffRuns
<1>4. ASSUME NEW k \in Nat, k \in T PROVE k + 1 \in T
  <2> SUFFICES ASSUME k + 1 <= len PROVE loop[k + 1] = DiffStart(st)
    OBVIOUS
  <2>1. k \in 0..(len - 1) /\ k + 1 \in 1..len /\ k <= len
    OBVIOUS
  <2>2. PICK acc, acc2, a : acc = loop[k] /\ acc2 = loop[k + 1] /\ a = st.aggressors[k + 1]
    OBVIOUS
  <2>3. acc2 = DiffOne(acc, a, st.observed, tainted)
    BY <1>1, <1>2, <2>1, <2>2 DEF DiffRuns
  <2>4. acc = DiffStart(st) /\ Says(st, a) = "correct"
    BY <1>1, <1>4, <2>1, <2>2
  <2>5. Round(acc2, acc, st, a, tainted)
    BY <2>3, <2>4, RoundIs, StartFields
  <2> QED BY <2>2, <2>4, <2>5 DEF Round
<1>5. len \in T
  <2> HIDE DEF T
  <2> QED BY <1>3, <1>4, SetInduction
<1> QED BY <1>1, <1>2, <1>5 DEF DiffRuns

(* The trust of one book is not touched by the orders on another.          *)
LEMMA MarkElsewhere ==
    ASSUME NEW taint, NEW u, NEW t, t # u, NEW n, NEW m, m = MarkTaint(taint, u, n)
    PROVE  (t \in DOMAIN m <=> t \in DOMAIN taint) /\ (t \in DOMAIN taint => m[t] = taint[t])
<1>1. CASE m = taint
  BY <1>1
<1>2. CASE m # taint
  <2>1. m = Put(taint, u, n)
    BY <1>2, Zenon DEF MarkTaint
  <2> QED BY <2>1 DEF Put
<1> QED BY <1>1, <1>2

(* A divergence on a book trusted up to it fails the run.                  *)
LEMMA DivergedHard ==
    ASSUME NEW st, Sequence(st.aggressors), Diverged(st)
    PROVE  DiffAll(st, FALSE).hard
<1>1. PICK len \in Nat : len = Len(st.aggressors)
  BY SequenceIs
<1>2. PICK loop : DiffRuns(loop, st, FALSE)
  BY DiffRounds
<1>3. PICK d \in 1..len : Diverges(st, d)
  BY <1>1 DEF Diverged
<1>4. PICK t : t = st.aggressors[d].ticker
  OBVIOUS
<1> DEFINE Before(taint) == /\ t \in DOMAIN taint <=> t \in DOMAIN st.taint
                            /\ t \in DOMAIN st.taint => taint[t] = st.taint[t]
           Ok(k) == /\ DiffFields(loop[k]) /\ (k < d => Before(loop[k].taint))
                    /\ (k >= d => loop[k].hard)
           T == {k \in Nat : k <= len => Ok(k)}
<1>5. 0 \in T
  <2>1. loop[0] = DiffStart(st)
    BY <1>2 DEF DiffRuns
  <2> QED BY <2>1, StartFields
<1>6. ASSUME NEW k \in Nat, k \in T PROVE k + 1 \in T
  <2> SUFFICES ASSUME k + 1 <= len PROVE Ok(k + 1)
    OBVIOUS
  <2>1. k \in 0..(len - 1) /\ k + 1 \in 1..len /\ k <= len
    OBVIOUS
  <2>2. PICK acc, acc2, a : acc = loop[k] /\ acc2 = loop[k + 1] /\ a = st.aggressors[k + 1]
    OBVIOUS
  <2>3. acc2 = DiffOne(acc, a, st.observed, FALSE)
    BY <1>1, <1>2, <2>1, <2>2 DEF DiffRuns
  <2>4. DiffFields(acc) /\ (k < d => Before(acc.taint)) /\ (k >= d => acc.hard)
    BY <1>6, <2>1, <2>2
  <2> HIDE DEF Before
  <2>5. Round(acc2, acc, st, a, FALSE)
    BY <2>3, <2>4, RoundIs
  <2>6. CASE k >= d
    <3>1. DiffFields(acc2) /\ acc2.hard
      BY <2>4, <2>5, <2>6 DEF Round
    <3> QED BY <2>2, <2>6, <3>1
  <2>7. CASE k + 1 = d
    <3>1. Says(st, a) = "incorrect" /\ ~Late(st, a) /\ a.ticker = t
      BY <1>3, <1>4, <2>2, <2>7 DEF Diverges
    <3>2. Before(acc.taint)
      BY <2>4, <2>7
    <3>3. ~LateIn(acc.taint, a)
      BY <3>1, <3>2 DEF Late, LateIn, Before
    <3>4. DiffFields(acc2) /\ acc2.hard
      BY <2>5, <3>1, <3>3 DEF Round
    <3> QED BY <2>2, <2>7, <3>4
  <2>8. CASE k + 1 < d
    <3>1. Before(acc.taint) /\ DiffFields(acc2)
      BY <2>4, <2>5, <2>8 DEF Round
    <3>2. Before(acc2.taint)
      <4>1. CASE a.ticker = t
        <5>1. k + 1 \in 1..(d - 1)
          BY <2>8
        <5>2. Says(st, a) = "correct"
          BY <1>3, <1>4, <2>2, <4>1, <5>1 DEF Diverges
        <5> QED BY <2>5, <3>1, <5>2 DEF Round
      <4>2. CASE a.ticker # t
        <5>1. PICK m : m = MarkTaint(acc.taint, a.ticker, a.seq)
          OBVIOUS
        <5>2. (t \in DOMAIN m <=> t \in DOMAIN acc.taint) /\ (t \in DOMAIN acc.taint => m[t] = acc.taint[t])
          BY <4>2, <5>1, MarkElsewhere
        <5>3. acc2.taint \in {acc.taint, m}
          BY <2>5, <5>1 DEF Round
        <5> QED BY <3>1, <5>2, <5>3 DEF Before
      <4> QED BY <4>1, <4>2
    <3> QED BY <2>2, <2>8, <3>1, <3>2
  <2> QED BY <2>6, <2>7, <2>8
<1>7. len \in T
  <2> HIDE DEF T
  <2> QED BY <1>5, <1>6, SetInduction
<1>8. loop[len].hard
  BY <1>7
<1> QED BY <1>1, <1>2, <1>8 DEF DiffRuns

(* The replay of any stream lists its orders.                              *)
LEMMA ListsOrders ==
    ASSUME NEW s, Sequence(s), \A k \in 1..Len(s) : Recorded(s[k]), NEW st, st = Replayed(s)
    PROVE  Sequence(st.aggressors)
<1>1. PICK len \in Nat : len = Len(s)
  BY SequenceIs
<1>2. PICK loop : loop = ReplayLoop(s)
  OBVIOUS
<1>3. /\ loop[0] = ReplayStart
      /\ \A n \in 0..(len - 1) : loop[n + 1] = ReplayEvent(loop[n], s[n + 1])
  BY <1>1, <1>2, ReplayExists
<1> DEFINE Ok(n) == ReplayFields(loop[n]) /\ Sequence(loop[n].aggressors)
           T == {n \in Nat : n <= len => Ok(n)}
<1>4. 0 \in T
  <2>1. ReplayFields(ReplayStart) /\ ReplayStart.aggressors = <<>>
    BY DEF ReplayStart, ReplayFields
  <2>2. Sequence(<<>>)
    BY DEF Sequence
  <2> QED BY <1>3, <2>1, <2>2
<1>5. ASSUME NEW n \in Nat, n \in T PROVE n + 1 \in T
  <2> SUFFICES ASSUME n + 1 <= len PROVE Ok(n + 1)
    OBVIOUS
  <2>1. n \in 0..(len - 1) /\ n + 1 \in 1..len /\ n <= len
    OBVIOUS
  <2>2. PICK e, a, b : e = s[n + 1] /\ a = loop[n] /\ b = loop[n + 1]
    OBVIOUS
  <2>3. Recorded(e) /\ b = ReplayEvent(a, e)
    BY <1>1, <1>3, <2>1, <2>2
  <2>4. ReplayFields(a) /\ Sequence(a.aggressors)
    BY <1>5, <2>1, <2>2
  <2>5. ReplayFields(b)
    BY <2>3, <2>4, EventCounts
  <2>6. Sequence(b.aggressors)
    <3>1. CASE e.action = "END" \/ e.outcome # "OK" \/ e.action = "CANCEL" \/ e.action = "FILL"
      <4>1. b.aggressors = a.aggressors
        <5>1. CASE e.action = "END"
          <6>1. b = a
            BY <2>3, <5>1 DEF ReplayEvent, Recorded, Sides
          <6> QED BY <6>1
        <5>2. CASE Attempt(e) /\ e.outcome = "UNKNOWN"
          BY <2>3, <2>4, <5>2, UnknownStep DEF Doubted
        <5>3. CASE Attempt(e) /\ e.outcome = "REJECTED"
          BY <2>3, <2>4, <5>3, RejectedStep DEF Alike
        <5>4. CASE e.action = "CANCEL" /\ e.outcome = "OK"
          BY <2>3, <2>4, <5>4, CancelStep DEF Cancelled
        <5>5. CASE e.action = "FILL"
          <6>1. b = ReplayFill(a, e)
            BY <2>3, <5>5 DEF ReplayEvent, Recorded, Sides
          <6> QED BY <2>4, <6>1 DEF ReplayFill, ReplayFields
        <5> QED BY <2>3, <3>1, <5>1, <5>2, <5>3, <5>4, <5>5 DEF Recorded, Attempt
      <4> QED BY <2>4, <4>1
    <3>2. CASE e.action \in Sides /\ e.outcome = "OK"
      <4>1. b = ReplayOrder(a, e)
        BY <2>3, <3>2 DEF ReplayEvent, Sides
      <4>2. PICK x : b.aggressors = Append(a.aggressors, x)
        BY <2>4, <4>1 DEF ReplayOrder, ReplayFields
      <4> QED BY <2>4, <4>2, AppendLonger DEF Longer
    <3> QED BY <2>3, <3>1, <3>2 DEF Recorded, Sides
  <2> QED BY <2>2, <2>5, <2>6
<1>6. len \in T
  <2> HIDE DEF T
  <2> QED BY <1>4, <1>5, SetInduction
<1>7. Ok(len)
  BY <1>6
<1> QED BY <1>1, <1>2, <1>7 DEF Replayed

(* A stream with a hole in it never fails a run.                           *)
LEMMA HoleNeverFails ==
    ASSUME NEW st, Sequence(st.aggressors), NEW gap \in Nat, gap > 0
    PROVE  JudgeReplay(st, gap) # "incorrect"
<1>1. PICK tainted \in BOOLEAN : tainted = (gap > 0 \/ Orphans(st) > 0) /\ tainted
  OBVIOUS
<1>2. ~DiffAll(st, tainted).hard
  <2>1. 0 \in Nat
    OBVIOUS
  <2> QED BY <1>1, <2>1, NeverHard
<1> QED BY <1>1, <1>2 DEF JudgeReplay, Judge, Outcome

(* No fills are reported for an order the replay does not know of.         *)
LEMMA NoOrphans ==
    ASSUME NEW st, Sequence(st.aggressors), ReportedOn(st) PROVE Orphans(st) = 0
<1>1. DOMAIN st.observed \ {a.id : a \in ToSet(st.aggressors)} = {}
  <2>1. DOMAIN st.aggressors = 1..Len(st.aggressors)
    BY SequenceIs
  <2>2. ToSet(st.aggressors) = {st.aggressors[i] : i \in 1..Len(st.aggressors)}
    BY <2>1 DEF ToSet
  <2> QED BY <2>2 DEF ReportedOn
<1> QED BY <1>1, FS_EmptySet DEF Orphans

(* What the checker makes of a stream that arrived whole.                  *)
LEMMA WholeJudged ==
    ASSUME NEW st, NEW n, NEW m, NEW acc, Kept(st, n, m, acc)
    PROVE  /\ (\A k \in 1..Len(st.aggressors) :
                  Late(st, st.aggressors[k]) \/ Says(st, st.aggressors[k]) = "correct")
                => JudgeReplay(st, 0) # "incorrect"
           /\ Diverged(st) => JudgeReplay(st, 0) = "incorrect"
           /\ ((\A k \in 1..Len(st.aggressors) : Says(st, st.aggressors[k]) = "correct")
                /\ st.unknown = 0 /\ st.attempts \in Nat)
                => JudgeReplay(st, 0) = "correct"
<1>1. n \in Nat /\ Issued(st, n) /\ TaintedBy(st, n) /\ ReportedOn(st) /\ Sequence(st.aggressors)
  BY DEF Kept, Issued
<1>2. Orphans(st) = 0
  BY <1>1, NoOrphans
<1>3. JudgeReplay(st, 0) = Outcome(st, 0, 0, DiffAll(st, FALSE))
  <2>1. (0 > 0 \/ 0 > 0) = FALSE
    OBVIOUS
  <2> QED BY <1>2, <2>1 DEF JudgeReplay, Judge
<1>4. PICK d : d = DiffAll(st, FALSE)
  OBVIOUS
<1>5. ASSUME \A k \in 1..Len(st.aggressors) :
                Late(st, st.aggressors[k]) \/ Says(st, st.aggressors[k]) = "correct"
      PROVE  JudgeReplay(st, 0) # "incorrect"
  <2>1. ~d.hard
    BY <1>1, <1>4, <1>5, NeverHard
  <2> QED BY <1>3, <1>4, <2>1 DEF Outcome
<1>6. ASSUME Diverged(st) PROVE JudgeReplay(st, 0) = "incorrect"
  <2>1. d.hard
    BY <1>1, <1>4, <1>6, DivergedHard
  <2> QED BY <1>3, <1>4, <2>1 DEF Outcome
<1>7. ASSUME \A k \in 1..Len(st.aggressors) : Says(st, st.aggressors[k]) = "correct",
             st.unknown = 0, st.attempts \in Nat
      PROVE  JudgeReplay(st, 0) = "correct"
  <2>1. d = DiffStart(st)
    BY <1>1, <1>4, <1>7, AllCorrect
  <2>2. ~d.hard /\ d.mismatch = 0 /\ d.fills = 0
    BY <2>1, StartFields
  <2>3. Certifiable(0, st.attempts)
    <3>1. TolerancePct \in 1..100
      BY RunBounds
    <3>2. TolerancePct \in Nat /\ TolerancePct > 0
      BY <3>1
    <3>3. PICK a \in Nat : a = st.attempts
      BY <1>7
    <3>4. ASSUME a > 0 PROVE TolerancePct * a > 0
      <4>1. a - 1 \in Nat /\ a = (a - 1) + 1
        BY <3>3, <3>4
      <4>2. PICK c \in Nat : a = c + 1
        BY <4>1
      <4>3. TolerancePct * a = TolerancePct * c + TolerancePct
        BY <3>2, <4>2
      <4>4. TolerancePct * c \in Nat
        BY <3>2
      <4> QED BY <3>2, <4>3, <4>4
    <3> QED BY <3>3, <3>4 DEF Certifiable
  <2>4. st.unknown + 0 + 0 + d.fills + d.mismatch = 0
    BY <1>7, <2>2
  <2> QED BY <1>3, <1>4, <2>2, <2>3, <2>4 DEF Outcome
<1> QED BY <1>5, <1>6, <1>7

(* What the checker makes of what arrived.                                 *)
LEMMA FinalizeIs ==
    ASSUME NEW d, NEW sent, Sent(sent), Arrived(d, sent)
    PROVE  /\ SeqsOf(d) = 1..Len(sent) => Finalize(d) = JudgeReplay(Replayed(sent), 0)
           /\ SeqsOf(d) # 1..Len(sent) => Finalize(d) # "incorrect"
<1>1. PICK n \in Nat : n = Len(sent) /\ n > 0
  BY SequenceIs DEF Sent, Numbered
<1>2. PICK s, st, D : s = InSeqOrder(d) /\ st = Replayed(s) /\ D = SeqsOf(d)
  OBVIOUS
<1>3. /\ Len(d) \in Nat /\ DOMAIN d = 1..Len(d) /\ D \subseteq 1..n
      /\ \A i \in 1..Len(d) : d[i].seq \in 1..n /\ d[i] = sent[d[i].seq]
  BY <1>1, <1>2, ArrivedSeqs
<1>4. /\ Sequence(s) /\ SeqsOf(s) = D
      /\ \A k \in 1..Len(s) : \E i \in 1..Len(d) : s[k] = d[i]
  BY <1>2, StreamIs
<1>5. \A k \in 1..Len(s) : Recorded(s[k])
  BY <1>1, <1>3, <1>4 DEF Sent
<1>6. Sequence(st.aggressors)
  BY <1>2, <1>4, <1>5, ListsOrders
<1>7. (\E i \in DOMAIN d : d[i].action = "END") <=> n \in D
  <2>1. ASSUME NEW i \in 1..Len(d) PROVE d[i].action = "END" <=> d[i].seq = n
    BY <1>1, <1>3 DEF Sent
  <2>2. n \in D <=> \E i \in 1..Len(d) : d[i].seq = n
    BY <1>2, <1>3 DEF SeqsOf
  <2> QED BY <1>3, <2>1, <2>2
<1>8. ASSUME n \in D
      PROVE  \E gap \in Nat : /\ Finalize(d) = JudgeReplay(st, gap)
                              /\ gap = 0 <=> D = 1..n
  <2>1. PICK gap : gap = n - Cardinality(D)
    OBVIOUS
  <2>2. /\ IsFiniteSet(D) /\ Cardinality(D) \in Nat
        /\ GapOf(D \ {0}) = gap /\ Cardinality((1..n) \ D) = gap
    BY <1>3, <1>8, <2>1, GapIs
  <2>3. IsFiniteSet((1..n) \ D)
    <3>1. IsFiniteSet(1..n)
      BY FS_Interval
    <3> QED BY <3>1, FS_Subset
  <2>4. gap \in Nat
    BY <2>2, <2>3, FS_CardinalityType
  <2>5. gap = 0 <=> (1..n) \ D = {}
    BY <2>2, <2>3, FS_EmptySet
  <2>6. {s[i].seq : i \in DOMAIN s} = D
    BY <1>4 DEF SeqsOf
  <2>7. Finalize(d) = ReplayStream(s)
    BY <1>2, <1>7, <1>8 DEF Finalize, ReplayVerdict
  <2>8. ReplayStream(s) = JudgeReplay(st, gap)
    BY <1>2, <2>2, <2>6 DEF ReplayStream
  <2>9. gap = 0 <=> D = 1..n
    BY <1>3, <2>5
  <2> QED BY <2>4, <2>7, <2>8, <2>9
<1>9. ASSUME D = 1..n PROVE Finalize(d) = JudgeReplay(Replayed(sent), 0)
  <2>1. n \in D
    BY <1>1, <1>9
  <2>2. s = sent
    BY <1>1, <1>2, <1>9, WholeStream DEF Sent
  <2> QED BY <1>2, <1>8, <1>9, <2>1, <2>2
<1>10. ASSUME D # 1..n PROVE Finalize(d) # "incorrect"
  <2>1. CASE n \in D
    <3>1. PICK gap \in Nat : Finalize(d) = JudgeReplay(st, gap) /\ gap # 0
      BY <1>8, <1>10, <2>1
    <3>2. gap > 0
      BY <3>1
    <3> QED BY <1>6, <3>1, <3>2, HoleNeverFails
  <2>2. CASE n \notin D
    <3>1. Finalize(d) = "unverified"
      BY <1>7, <2>2 DEF Finalize
    <3> QED BY <3>1
  <2> QED BY <2>1, <2>2
<1> QED BY <1>1, <1>2, <1>9, <1>10

(* An empty book is good.                                                  *)
LEMMA NewBookOk == BookOk(NewBook, 0) /\ BookRest(NewBook) = {}
<1>1. PICK b : b = NewBook
  OBVIOUS
<1>2. /\ b.bids = <<>> /\ b.asks = <<>> /\ b.live = <<>>
      /\ DOMAIN b = {"bids", "asks", "live"}
  BY <1>1 DEF NewBook
<1>3. Ladder(<<>>, "BUY") /\ Ladder(<<>>, "SELL")
  BY DEF Ladder
<1>4. RestOf(<<>>, "BUY") = {} /\ RestOf(<<>>, "SELL") = {}
  BY DEF RestOf
<1>5. DOMAIN <<>> = {}
  OBVIOUS
<1>6. BookOk(b, 0) /\ BookRest(b) = {}
  BY <1>2, <1>3, <1>4, <1>5
     DEF BookOk, BookRest, SidesOk, Opposite, Whole, OneId, LiveExact, Uncrossed
<1> QED BY <1>1, <1>6

(* What the replay starts from suits a run that starts.                    *)
LEMMA StartFaithful == RunInit => RunFaithful
<1> SUFFICES ASSUME RunInit PROVE RunFaithful
  OBVIOUS
<1>1. RunShape
  BY StartShape DEF RunInit, RunInv
<1>2. PICK st : st = ReplayStart
  OBVIOUS
<1>3. /\ st.books = [t \in Tickers |-> NewBook] /\ st.owner = <<>> /\ st.taint = <<>>
      /\ st.aggressors = <<>> /\ st.observed = <<>> /\ ReplayFields(st)
  BY <1>2 DEF ReplayStart, ReplayFields
<1>4. /\ log = <<>> /\ nextSeq = 1 /\ accepted = {} /\ ids = 0 /\ ghosts = {}
      /\ resting = [t \in Tickers |-> {}] /\ erred = "no"
  BY DEF RunInit
<1>5. DOMAIN <<>> = {} /\ Len(<<>>) = 0 /\ Sequence(<<>>) /\ 1..0 = {}
  <2>1. <<>> \in Seq({})
    OBVIOUS
  <2> QED BY <2>1 DEF Sequence
<1>6. Replayed(log) = st
  BY <1>2, <1>4, ReplayNothing
<1>7. Kept(st, 1, 0, {})
  <2>1. OwnedBy(<<>>, 1, 0)
    BY <1>5 DEF OwnedBy, Rising
  <2>2. DOMAIN st.books = Tickers /\ TaintedBy(st, 1) /\ Issued(st, 1) /\ ReportedOn(st)
    BY <1>3, <1>5 DEF TaintedBy, Issued, ReportedOn
  <2> QED BY <1>3, <2>1, <2>2 DEF Kept
<1>8. Doubts(st, <<>>)
  BY <1>3, <1>5 DEF Doubts
<1>9. Good(st, 1, resting, {})
  <2>1. ASSUME NEW t \in Tickers PROVE Faithful(st.books[t], resting[t], st.owner, 1)
    <3>1. st.books[t] = NewBook /\ resting[t] = {}
      BY <1>3, <1>4
    <3>2. Market({}) /\ Owned({}, st.owner) /\ RenamedAll({}, st.owner) = {}
      BY FS_EmptySet DEF Market, Owned, RenamedAll, OneId
    <3>3. 1 - 1 = 0
      OBVIOUS
    <3>4. Faithful(NewBook, {}, st.owner, 1)
      BY <3>2, <3>3, NewBookOk DEF Faithful
    <3> QED BY <3>1, <3>4
  <2> QED BY <1>3, <1>5, <2>1 DEF Good, Promised
<1> QED BY <1>1, <1>4, <1>6, <1>7, <1>8, <1>9 DEF RunFaithful

(* A run under way is faithful; one that is judged was judged rightly.     *)
VerdictInv ==
    /\ verdict = "none" => RunFaithful
    /\ verdict # "none" =>
         HonestOrdersNeverFailed /\ DivergenceAlwaysFailed /\ CleanRunCertified

(* Every step but the last keeps the replay of a run faithful.             *)
LEMMA FaithfulKept ==
    ASSUME RunFaithful, verdict = "none", RunNext, ~Finish PROVE RunFaithful' /\ verdict' = verdict
<1>1. RunShape' /\ verdict' = verdict
  BY ShapeKept DEF RunFaithful
<1>2. ASSUME NEW r \in Requests, OrderAnswered(r) PROVE RunFaithful'
  BY <1>1, <1>2, AnsweredFaithful
<1>3. ASSUME NEW r \in Requests, OrderMismatched(r) PROVE RunFaithful'
  BY <1>1, <1>3, MismatchedFaithful
<1>4. ASSUME NEW r \in Requests, OrderRejected(r) PROVE RunFaithful'
  BY <1>1, <1>4, RejectedFaithful
<1>5. ASSUME NEW r \in Requests, OrderUnanswered(r) PROVE RunFaithful'
  BY <1>1, <1>5, UnansweredFaithful
<1>6. ASSUME NEW id \in accepted, CancelAnswered(id) PROVE RunFaithful'
  BY <1>1, <1>6, CancelFaithfully
<1>7. ASSUME NEW id \in accepted, CancelUnanswered(id) PROVE RunFaithful'
  BY <1>1, <1>7, CancelLostFaithful
<1>8. ASSUME NEW g \in ghosts, GhostApplied(g) PROVE RunFaithful'
  BY <1>1, <1>8, GhostFaithful
<1> QED BY <1>1, <1>2, <1>3, <1>4, <1>5, <1>6, <1>7, <1>8 DEF RunNext

(* Nothing is late in a run every attempt of which was answered.           *)
LEMMA NothingLate ==
    ASSUME NEW st, NEW l, Doubts(st, l), UnknownsIn(l) = {}
    PROVE  NoLostCancel(l) /\ \A a : ~Late(st, a)
<1>1. \A i \in 1..Len(l) : l[i].outcome # "UNKNOWN"
  BY DEF UnknownsIn
<1>2. DOMAIN st.taint = {}
  BY <1>1 DEF Doubts
<1> QED BY <1>1, <1>2 DEF NoLostCancel, Late

(* The attempts of a run are finitely many.                                *)
LEMMA AttemptsCount ==
    ASSUME NEW sent, Sent(sent) PROVE Cardinality(AttemptsIn(sent)) \in Nat
<1>1. PICK n \in Nat : n = Len(sent)
  BY SequenceIs DEF Sent, Numbered
<1>2. IsFiniteSet(1..n) /\ AttemptsIn(sent) \subseteq 1..n
  BY <1>1, FS_Interval DEF AttemptsIn
<1> QED BY <1>2, FS_Subset, FS_CardinalityType

(* What a finished run was, in terms of what was sent and what arrived.    *)
LEMMA FinishJudges ==
    ASSUME RunFaithful, Finish, NEW sent, sent = log', NEW d, d = delivered', NEW st, st = Replayed(log)
    PROVE  /\ Sent(sent) /\ Arrived(d, sent) /\ Replayed(sent) = st
           /\ verdict' = Finalize(d) /\ erred' = erred
           /\ NoLostCancel(sent) => NoLostCancel(log)
           /\ UnknownsIn(sent) = UnknownsIn(log)
<1>1. RunShape /\ log' = Append(log, EndRecord(nextSeq))
  BY DEF RunFaithful, Finish
<1>2. Sent(sent)
  BY <1>1, RunSent
<1>3. Arrived(d, sent)
  BY <1>2, ArrivalsArrive DEF Sent, Finish
<1>4. PICK e : e = EndRecord(nextSeq) /\ Recorded(e) /\ e.action = "END" /\ e.outcome = "OK"
  <2>1. PICK e : e = EndRecord(nextSeq)
    OBVIOUS
  <2>2. e.action = "END" /\ e.outcome = "OK"
    BY <2>1, Zenon DEF EndRecord
  <2> QED BY <2>1, <2>2 DEF Recorded
<1>5. OneMore(Replayed(sent), st, e)
  BY <1>1, <1>4, ReplayAttempt
<1>6. Replayed(sent) = st
  <2>1. Replayed(sent) = ReplayEvent(st, e)
    BY <1>5 DEF OneMore
  <2>2. ReplayEvent(st, e) = st
    BY <1>4 DEF ReplayEvent, Sides
  <2> QED BY <2>1, <2>2
<1>7. NoLostCancel(sent) => NoLostCancel(log)
  BY <1>5 DEF OneMore
<1>8. UnknownsIn(sent) = UnknownsIn(log)
  <2>1. PICK n \in Nat : n = Len(log)
    BY <1>5, SequenceIs DEF OneMore
  <2>2. Len(sent) = n + 1 /\ sent[n + 1] = e /\ \A i \in 1..n : sent[i] = log[i]
    BY <1>5, <2>1 DEF OneMore, Longer
  <2>3. \A i : i \in 1..(n + 1) <=> i \in 1..n \/ i = n + 1
    BY <2>1
  <2>4. ~(n + 1 \in 1..n)
    BY <2>1
  <2> QED BY <1>4, <2>1, <2>2, <2>3, <2>4 DEF UnknownsIn
<1> QED BY <1>2, <1>3, <1>6, <1>7, <1>8 DEF Finish

(* The end of a run keeps the three rules.                                 *)
LEMMA FinishJudgesRightly ==
    ASSUME RunFaithful, Finish
    PROVE  (HonestOrdersNeverFailed /\ DivergenceAlwaysFailed /\ CleanRunCertified)'
<1>1. PICK sent, d, st : sent = log' /\ d = delivered' /\ st = Replayed(log)
  OBVIOUS
<1>2. /\ Sent(sent) /\ Arrived(d, sent) /\ Replayed(sent) = st
      /\ verdict' = Finalize(d) /\ erred' = erred
      /\ NoLostCancel(sent) => NoLostCancel(log)
      /\ UnknownsIn(sent) = UnknownsIn(log)
  BY <1>1, FinishJudges
<1>3. /\ Kept(st, nextSeq, ids, accepted) /\ Doubts(st, log)
      /\ erred = "no" /\ NoLostCancel(log) => Good(st, nextSeq, resting, ghosts)
      /\ erred = "clean" => Diverged(st)
  BY <1>1 DEF RunFaithful
<1>4. /\ SeqsOf(d) = 1..Len(sent) => Finalize(d) = JudgeReplay(st, 0)
      /\ SeqsOf(d) # 1..Len(sent) => Finalize(d) # "incorrect"
  BY <1>2, FinalizeIs
<1>5. /\ (\A k \in 1..Len(st.aggressors) :
             Late(st, st.aggressors[k]) \/ Says(st, st.aggressors[k]) = "correct")
           => JudgeReplay(st, 0) # "incorrect"
      /\ Diverged(st) => JudgeReplay(st, 0) = "incorrect"
      /\ ((\A k \in 1..Len(st.aggressors) : Says(st, st.aggressors[k]) = "correct")
           /\ st.unknown = 0 /\ st.attempts \in Nat)
           => JudgeReplay(st, 0) = "correct"
  BY <1>3, WholeJudged
<1>6. Unknowns' = UnknownsIn(sent) /\ DOMAIN sent = 1..Len(sent)
  <2>1. DOMAIN sent = 1..Len(sent)
    BY <1>2, SequenceIs DEF Sent, Numbered
  <2> QED BY <1>1, <2>1 DEF Unknowns, UnknownsIn
<1>7. LostRecords' = {} => SeqsOf(d) = 1..Len(sent)
  <2>1. LostRecords' = SeqsOf(sent) \ SeqsOf(d)
    BY <1>1 DEF LostRecords, SeqsOf
  <2>2. SeqsOf(sent) = 1..Len(sent)
    BY <1>2, <1>6 DEF SeqsOf, Sent, Numbered
  <2>3. SeqsOf(d) \subseteq 1..Len(sent)
    BY <1>2, ArrivedSeqs
  <2> QED BY <2>1, <2>2, <2>3
<1>8. HonestOrdersNeverFailed'
  <2> SUFFICES ASSUME \A i \in UnknownsIn(sent) : sent[i].action # "CANCEL", erred = "no"
               PROVE  Finalize(d) # "incorrect"
    BY <1>1, <1>2, <1>6 DEF HonestOrdersNeverFailed, HonestNeverFailed
  <2>1. NoLostCancel(sent)
    BY DEF UnknownsIn, NoLostCancel
  <2>2. Good(st, nextSeq, resting, ghosts)
    BY <1>2, <1>3, <2>1
  <2>3. JudgeReplay(st, 0) # "incorrect"
    BY <1>5, <2>2 DEF Good
  <2> QED BY <1>4, <2>3
<1>9. DivergenceAlwaysFailed'
  <2> SUFFICES ASSUME erred = "clean", LostRecords' = {} PROVE Finalize(d) = "incorrect"
    BY <1>2 DEF DivergenceAlwaysFailed
  <2> QED BY <1>3, <1>4, <1>5, <1>7
<1>10. CleanRunCertified'
  <2> SUFFICES ASSUME erred = "no", UnknownsIn(sent) = {}, LostRecords' = {}
               PROVE  Finalize(d) = "correct"
    BY <1>2, <1>6 DEF CleanRunCertified
  <2>1. NoLostCancel(log) /\ \A a : ~Late(st, a)
    BY <1>2, <1>3, NothingLate
  <2>2. Good(st, nextSeq, resting, ghosts)
    BY <1>3, <2>1
  <2>3. \A k \in 1..Len(st.aggressors) : Says(st, st.aggressors[k]) = "correct"
    BY <2>1, <2>2 DEF Good
  <2>4. st.attempts = Cardinality(AttemptsIn(sent)) /\ st.unknown = Cardinality(UnknownsIn(sent))
    BY <1>2, ReplayCounts DEF Sent, Numbered
  <2>5. st.unknown = 0
    BY <2>4, FS_EmptySet
  <2>6. st.attempts \in Nat
    BY <1>2, <2>4, AttemptsCount
  <2> QED BY <1>4, <1>5, <1>7, <2>3, <2>5, <2>6
<1> QED BY <1>8, <1>9, <1>10

(* The invariant of the three theorems that follow.                        *)
LEMMA JudgedRightly == RunSpec => []VerdictInv
<1>1. RunInit => VerdictInv
  BY StartFaithful DEF RunInit, VerdictInv
<1>2. VerdictInv /\ [RunNext]_runVars => VerdictInv'
  <2> SUFFICES ASSUME VerdictInv, [RunNext]_runVars PROVE VerdictInv'
    OBVIOUS
  <2>1. CASE UNCHANGED runVars
    <3>1. RunFaithful => RunFaithful'
      BY <2>1 DEF runVars, RunFaithful, RunShape
    <3>2. HonestOrdersNeverFailed => HonestOrdersNeverFailed'
      BY <2>1 DEF runVars, HonestOrdersNeverFailed, HonestNeverFailed, Unknowns
    <3>3. DivergenceAlwaysFailed => DivergenceAlwaysFailed'
      BY <2>1 DEF runVars, DivergenceAlwaysFailed, Judged, LostRecords
    <3>4. CleanRunCertified => CleanRunCertified'
      BY <2>1 DEF runVars, CleanRunCertified, Judged, Unknowns, LostRecords
    <3>5. verdict' = verdict
      BY <2>1 DEF runVars
    <3> QED BY <3>1, <3>2, <3>3, <3>4, <3>5 DEF VerdictInv
  <2>2. CASE RunNext
    <3>1. verdict = "none"
      BY <2>2 DEF RunNext, OrderAnswered, OrderMismatched, OrderRejected, OrderUnanswered,
                  CancelAnswered, CancelUnanswered, GhostApplied, Finish, Sending
    <3>2. RunFaithful
      BY <3>1 DEF VerdictInv
    <3>3. CASE Finish
      <4>1. verdict' # "none"
        BY <3>2, <3>3, FinishPasses DEF RunFaithful
      <4>2. (HonestOrdersNeverFailed /\ DivergenceAlwaysFailed /\ CleanRunCertified)'
        BY <3>2, <3>3, FinishJudgesRightly
      <4> QED BY <4>1, <4>2 DEF VerdictInv
    <3>4. CASE ~Finish
      <4>1. RunFaithful' /\ verdict' = verdict
        BY <2>2, <3>1, <3>2, <3>4, FaithfulKept
      <4> QED BY <3>1, <4>1 DEF VerdictInv
    <3> QED BY <3>3, <3>4
  <2> QED BY <2>1, <2>2
<1> QED BY <1>1, <1>2, PTL DEF RunSpec

(* A server that matches by the contract is never failed, whatever orders  *)
(* are left unanswered and applied late or never, whatever records are     *)
(* lost, repeated or reordered, as long as every cancel was answered: "a   *)
(* lost order must never become a false fail" (engine.go, Replay).         *)
THEOREM HonestOrdersAreNeverFailed == RunSpec => []HonestOrdersNeverFailed
<1>1. VerdictInv => HonestOrdersNeverFailed
  BY DEF VerdictInv, HonestOrdersNeverFailed, HonestNeverFailed
<1> QED BY <1>1, JudgedRightly, PTL

(* A wrong match on a ticker none of whose answers had been lost is failed *)
(* whenever the whole stream arrives: "one is enough" (engine.go, Replay). *)
THEOREM DivergencesAreFailed == RunSpec => []DivergenceAlwaysFailed
<1>1. VerdictInv => DivergenceAlwaysFailed
  BY DEF VerdictInv, DivergenceAlwaysFailed, Judged
<1> QED BY <1>1, JudgedRightly, PTL

(* An honest run with every answer read and every record delivered is      *)
(* certified, even if records arrive reordered or twice (engine.go,        *)
(* Replay).                                                                *)
THEOREM CleanRunsAreCertified == RunSpec => []CleanRunCertified
<1>1. VerdictInv => CleanRunCertified
  BY DEF VerdictInv, CleanRunCertified, Judged
<1> QED BY <1>1, JudgedRightly, PTL
=============================================================================

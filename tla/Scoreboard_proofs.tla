------------------------- MODULE Scoreboard_proofs -------------------------
(***************************************************************************)
(* The leaderboard fails closed and never goes back, and its metrics are   *)
(* exact, for any submissions, batches, decisions, capacity and number of  *)
(* faults: the aggregator and the publisher pass rows on in order, a       *)
(* submission without a verdict is unverified from the first batch on, and *)
(* the counters of an entry are sums over the batches of its window.       *)
(***************************************************************************)
EXTENDS Scoreboard, SequenceTheorems, FiniteSetTheorems, WellFoundedInduction, TLAPS

Metrics == [ok : Nat, at : [Percentiles -> Int]]
Entries == [ok : Nat, hist : Seq(Nat), verdict : Verdicts, last : Metrics]
Scores == [sub : Subs, verdict : Verdicts, last : Metrics]
Payloads == [verdict : Verdicts, last : Metrics]

(* The full types of the aggregator's and of the publisher's state.        *)
AggTypes ==
    /\ states \in [Subs -> Entries \cup {NoState}]
    /\ agg \in [pc : {"select", "emit", "flush", "final", "done"}, todo : SUBSET Subs]
    /\ judged \in SUBSET Subs /\ decided \in [Subs -> SUBSET Verdicts]
PubTypes ==
    /\ scores \in Seq(Scores) /\ Len(scores) <= ScoreCap
    /\ pub \in {"recv", "failed", "wait", "done"}
    /\ inserting \in [InsertKeys -> Nat]
    /\ redis \in [Subs -> Payloads \cup {NoRow}]

(* What the aggregator is about to send exists, and a flush has data for   *)
(* every entry it still has to send: nothing arrives while it runs.        *)
AboutToSend ==
    \A s \in agg.todo :
        /\ HasState(s)
        /\ agg.pc \in {"flush", "final"} => states[s].ok # 0 \/ Sum(states[s].hist) # 0

(* Without a decision of this process the verdict is unverified, and it is *)
(* a pass only if the engine ever decided so.                              *)
VerdictInv ==
    \A s \in Subs : HasState(s) =>
        /\ s \notin judged => states[s].verdict = "unverified"
        /\ states[s].verdict = "correct" => "correct" \in decided[s]

BoardInv == AggTypes /\ PubTypes /\ AboutToSend /\ VerdictInv /\ NeverFailsOpen

(* Row b may take the place of row a.                                      *)
Follows(a, b) ==
    /\ a.verdict # "unverified" => b.verdict = a.verdict
    /\ a.last # NoMetrics => b.last # NoMetrics

(* What is in Redis, then what is on its way in the channel, then what the *)
(* aggregator holds: each row follows every earlier one.                   *)
InSequence ==
    \A s \in Subs \ orphans :
        /\ redis[s] # NoRow =>
             /\ HasState(s) /\ Follows(redis[s], states[s])
             /\ \A i \in DOMAIN scores : scores[i].sub = s => Follows(redis[s], scores[i])
        /\ \A i \in DOMAIN scores : scores[i].sub = s =>
             /\ HasState(s) /\ Follows(scores[i], states[s])
             /\ \A j \in DOMAIN scores : (i < j /\ scores[j].sub = s) => Follows(scores[i], scores[j])

OrderInv == BoardInv /\ InSequence
-----------------------------------------------------------------------------
(* A nonempty set of numbers has a least one.                              *)
LEMMA LeastNat ==
    ASSUME NEW S \in SUBSET Nat, S # {}
    PROVE  \E x \in S : \A y \in S : x <= y
<1>1. PICK x \in S : \A y \in S : ~(<<y, x>> \in OpToRel(<, Nat))
  BY WFMin, NatLessThanWellFounded
<1>2. \A y \in S : ~(y < x)
  BY <1>1 DEF OpToRel
<1> QED BY <1>2

(* Induction over a set of numbers, from the least number outside it.      *)
LEMMA SetInduction ==
    ASSUME NEW T, 0 \in T, \A n \in Nat : n \in T => n + 1 \in T
    PROVE  \A n \in Nat : n \in T
<1> SUFFICES ASSUME Nat \ T # {} PROVE FALSE
  OBVIOUS
<1>1. PICK m \in Nat \ T : \A y \in Nat \ T : m <= y
  BY LeastNat
<1>2. m - 1 \in Nat /\ m - 1 \in T
  BY <1>1
<1>3. (m - 1) + 1 = m
  BY <1>1
<1> QED BY <1>1, <1>2, <1>3

-----------------------------------------------------------------------------
(* The fold behind a sum of function values, over the subsets of a set.    *)
Chosen(s) == CHOOSE x \in s : TRUE
FoldIs(f, g, D) == f = [s \in D |-> IF s = {} THEN 0 ELSE g[Chosen(s)] + f[s \ {Chosen(s)}]]
FoldOf(g, S) == CHOOSE f : FoldIs(f, g, SUBSET S)

(* The sum over a set is that fold, taken at the whole set.                *)
LEMMA SumIsFold == ASSUME NEW g, NEW S PROVE SumFunctionOnSet(g, S) = FoldOf(g, S)[S]
BY DEF SumFunctionOnSet, FoldFunctionOnSet, MapThenFoldSet, FoldOf, FoldIs, Chosen

(* What is left of a set when one element is taken out.                    *)
LEMMA RemoveOne ==
    ASSUME NEW s, IsFiniteSet(s), NEW k \in Nat, Cardinality(s) = k + 1, NEW x \in s
    PROVE  Cardinality(s \ {x}) = k
<1>1. Cardinality(s \ {x}) = Cardinality(s) - 1
  BY FS_RemoveElement
<1> QED BY <1>1

(* The fold exists, set by set of one more element.                        *)
LEMMA FoldExists ==
    ASSUME NEW g, NEW S, IsFiniteSet(S)
    PROVE  FoldIs(FoldOf(g, S), g, SUBSET S)
<1> DEFINE Small(k) == {s \in SUBSET S : Cardinality(s) <= k}
           T == {k \in Nat : \E f : FoldIs(f, g, Small(k))}
<1>0. \A s \in SUBSET S : IsFiniteSet(s) /\ Cardinality(s) \in Nat
  BY FS_Subset, FS_CardinalityType
<1>a. \A s \in SUBSET S : s # {} =>
        /\ Chosen(s) \in s /\ s \ {Chosen(s)} \in SUBSET S
        /\ Cardinality(s \ {Chosen(s)}) = Cardinality(s) - 1
  BY <1>0, FS_RemoveElement DEF Chosen
<1>1. 0 \in T
  <2> DEFINE f == [s \in Small(0) |-> 0]
  <2>1. \A s \in Small(0) : s = {}
    BY <1>0, FS_EmptySet
  <2>2. FoldIs(f, g, Small(0))
    BY <2>1, Zenon DEF FoldIs
  <2> QED BY <2>2
<1>2. ASSUME NEW k \in Nat, k \in T PROVE k + 1 \in T
  <2>1. PICK f : FoldIs(f, g, Small(k))
    BY <1>2
  <2> DEFINE h == [s \in Small(k + 1) |->
                    IF s = {} THEN 0 ELSE g[Chosen(s)] + f[s \ {Chosen(s)}]]
  <2>a. Small(k) \subseteq Small(k + 1)
    BY <1>0
  <2>2. \A s \in Small(k) : s \in Small(k + 1) /\ h[s] = f[s]
    <3> HIDE DEF Small
    <3> QED BY <2>a, <2>1 DEF FoldIs
  <2>3. \A s \in Small(k + 1) : s # {} => s \ {Chosen(s)} \in Small(k)
    BY <1>0, <1>a
  <2>4. FoldIs(h, g, Small(k + 1))
    <3> HIDE DEF Small
    <3>1. \A s \in Small(k + 1) : s # {} => h[s \ {Chosen(s)}] = f[s \ {Chosen(s)}]
      BY <2>2, <2>3
    <3> QED BY <3>1 DEF FoldIs
  <2>5. \E f1 : FoldIs(f1, g, Small(k + 1))
    <3> HIDE DEF h, Small
    <3> QED BY <2>4
  <2> HIDE DEF Small
  <2> QED BY <2>5
<1>3. Cardinality(S) \in T
  <2> HIDE DEF T
  <2> QED BY <1>0, <1>1, <1>2, SetInduction
<1>4. Small(Cardinality(S)) = SUBSET S
  BY FS_Subset, FS_CardinalityType
<1> QED BY <1>3, <1>4 DEF FoldOf

(* Functions that agree on a set have the same fold on its subsets.        *)
Agree(g, h, S) == \A x \in S : g[x] = h[x]

(* Folds of functions that agree on a set agree on it.                     *)
LEMMA FoldAgrees ==
    ASSUME NEW g, NEW h, NEW S, IsFiniteSet(S), NEW U \in SUBSET S, Agree(g, h, U)
    PROVE  FoldOf(g, S)[U] = FoldOf(h, U)[U]
<1> DEFINE W == {t \in SUBSET U : FoldOf(g, S)[t] # FoldOf(h, U)[t]}
           N == {Cardinality(t) : t \in W}
<1>0. IsFiniteSet(U) /\ \A s \in SUBSET U : IsFiniteSet(s) /\ Cardinality(s) \in Nat
  BY FS_Subset, FS_CardinalityType
<1>1. FoldIs(FoldOf(g, S), g, SUBSET S) /\ FoldIs(FoldOf(h, U), h, SUBSET U)
  BY <1>0, FoldExists
<1>2. SUFFICES ASSUME W # {} PROVE FALSE
  OBVIOUS
<1>3. PICK n \in N : \A m \in N : n <= m
  <2>1. N \in SUBSET Nat /\ N # {}
    BY <1>0, <1>2
  <2> HIDE DEF N
  <2> QED BY <2>1, LeastNat
<1>4. PICK t \in W : Cardinality(t) = n
  BY <1>3
<1>5. t \in SUBSET U /\ t \in SUBSET S /\ FoldOf(g, S)[t] # FoldOf(h, U)[t]
  BY <1>4
<1>6. t # {}
  BY <1>1, <1>5 DEF FoldIs
<1>7. /\ Chosen(t) \in t /\ t \ {Chosen(t)} \in SUBSET U
      /\ Cardinality(t \ {Chosen(t)}) = Cardinality(t) - 1
  BY <1>0, <1>5, <1>6, FS_RemoveElement DEF Chosen
<1>8. FoldOf(g, S)[t \ {Chosen(t)}] = FoldOf(h, U)[t \ {Chosen(t)}]
  <2>1. t \ {Chosen(t)} \notin W
    BY <1>0, <1>3, <1>4, <1>5, <1>7
  <2> QED BY <1>7, <2>1
<1>9. g[Chosen(t)] = h[Chosen(t)]
  BY <1>5, <1>7 DEF Agree
<1> QED BY <1>1, <1>5, <1>6, <1>8, <1>9 DEF FoldIs

(* Functions that agree on a set have the same sum there.                  *)
LEMMA SameSum ==
    ASSUME NEW g, NEW h, NEW S, IsFiniteSet(S), Agree(g, h, S)
    PROVE  SumFunctionOnSet(g, S) = SumFunctionOnSet(h, S)
<1>1. FoldOf(g, S)[S] = FoldOf(h, S)[S]
  BY FoldAgrees
<1>2. SumFunctionOnSet(g, S) = FoldOf(g, S)[S] /\ SumFunctionOnSet(h, S) = FoldOf(h, S)[S]
  BY SumIsFold
<1> QED BY <1>1, <1>2

(* What a sum is made of, one chosen element at a time.                    *)
LEMMA SumChosen ==
    ASSUME NEW g, NEW S, IsFiniteSet(S)
    PROVE  SumFunctionOnSet(g, S)
             = IF S = {} THEN 0 ELSE g[Chosen(S)] + SumFunctionOnSet(g, S \ {Chosen(S)})
<1>1. SumFunctionOnSet(g, S) = IF S = {} THEN 0 ELSE g[Chosen(S)] + FoldOf(g, S)[S \ {Chosen(S)}]
  <2>1. FoldIs(FoldOf(g, S), g, SUBSET S) /\ S \in SUBSET S
    BY FoldExists
  <2>2. FoldOf(g, S)[S] = IF S = {} THEN 0 ELSE g[Chosen(S)] + FoldOf(g, S)[S \ {Chosen(S)}]
    BY <2>1 DEF FoldIs
  <2>3. SumFunctionOnSet(g, S) = FoldOf(g, S)[S]
    BY SumIsFold
  <2> QED BY <2>2, <2>3
<1>2. FoldOf(g, S)[S \ {Chosen(S)}] = SumFunctionOnSet(g, S \ {Chosen(S)})
  BY FoldAgrees, SumIsFold DEF Agree
<1> QED BY <1>1, <1>2

(* A function with natural numbers on a finite set has a natural sum.      *)
Counts(g, S) == IsFiniteSet(S) /\ \A x \in S : g[x] \in Nat

(* A sum of counts is a count.                                             *)
LEMMA SumType ==
    ASSUME NEW g, NEW S, Counts(g, S)
    PROVE  SumFunctionOnSet(g, S) \in Nat
<1> DEFINE T == {k \in Nat : \A s \in SUBSET S : Cardinality(s) = k => SumFunctionOnSet(g, s) \in Nat}
<1>0. \A s \in SUBSET S : IsFiniteSet(s) /\ Cardinality(s) \in Nat
  BY FS_Subset, FS_CardinalityType DEF Counts
<1>1. 0 \in T
  BY <1>0, FS_EmptySet, SumChosen
<1>2. ASSUME NEW k \in Nat, k \in T PROVE k + 1 \in T
  <2> SUFFICES ASSUME NEW s \in SUBSET S, Cardinality(s) = k + 1
               PROVE  SumFunctionOnSet(g, s) \in Nat
    OBVIOUS
  <2>1. s # {} /\ Chosen(s) \in s
    BY FS_EmptySet DEF Chosen
  <2>2. /\ SumFunctionOnSet(g, s) = g[Chosen(s)] + SumFunctionOnSet(g, s \ {Chosen(s)})
        /\ g[Chosen(s)] \in Nat
    BY <1>0, <2>1, SumChosen DEF Counts
  <2>3. SumFunctionOnSet(g, s \ {Chosen(s)}) \in Nat
    BY <1>0, <1>2, <2>1, RemoveOne
  <2> QED BY <2>2, <2>3
<1>3. Cardinality(S) \in T
  <2> HIDE DEF T
  <2> QED BY <1>0, <1>1, <1>2, SetInduction
<1> QED BY <1>3

(* A sum is any of its values plus the sum of the rest.                    *)
LEMMA SumOfRest ==
    ASSUME NEW g, NEW S, Counts(g, S)
    PROVE  \A x \in S : SumFunctionOnSet(g, S) = g[x] + SumFunctionOnSet(g, S \ {x})
<1> DEFINE Total(s) == SumFunctionOnSet(g, s)
           Holds(s) == \A x \in s : Total(s) = g[x] + Total(s \ {x})
           T == {k \in Nat : \A s \in SUBSET S : Cardinality(s) = k => Holds(s)}
<1>0. \A s \in SUBSET S : IsFiniteSet(s) /\ Cardinality(s) \in Nat /\ Total(s) \in Nat
  BY FS_Subset, FS_CardinalityType, SumType DEF Counts
<1>b. \A s \in SUBSET S : s # {} => Total(s) = g[Chosen(s)] + Total(s \ {Chosen(s)})
  BY <1>0, SumChosen
<1> HIDE DEF Total
<1>1. 0 \in T
  BY <1>0, FS_EmptySet
<1>2. ASSUME NEW k \in Nat, k \in T PROVE k + 1 \in T
  <2> SUFFICES ASSUME NEW s \in SUBSET S, Cardinality(s) = k + 1, NEW x \in s
               PROVE  Total(s) = g[x] + Total(s \ {x})
    OBVIOUS
  <2> DEFINE c == Chosen(s)
  <2>1. c \in s
    BY DEF Chosen
  <2>2. Total(s) = g[c] + Total(s \ {c})
    BY <1>b
  <2> HIDE DEF c
  <2> SUFFICES ASSUME x # c PROVE Total(s) = g[x] + Total(s \ {x})
    BY <2>2
  <2>3. Holds(s \ {c}) /\ Holds(s \ {x})
    <3> HIDE DEF Holds
    <3> QED BY <1>0, <1>2, <2>1, RemoveOne
  <2>4. Total(s \ {c}) = g[x] + Total((s \ {c}) \ {x})
    BY <2>3
  <2>5. Total(s \ {x}) = g[c] + Total((s \ {x}) \ {c})
    BY <2>1, <2>3
  <2>6. /\ (s \ {c}) \ {x} = (s \ {x}) \ {c} /\ g[x] \in Nat /\ g[c] \in Nat
        /\ Total((s \ {x}) \ {c}) \in Nat
    BY <1>0, <2>1 DEF Counts
  <2>7. PICK r \in Nat : r = Total((s \ {x}) \ {c})
    BY <2>6
  <2>8. Total(s \ {c}) = g[x] + r /\ Total(s \ {x}) = g[c] + r
    BY <2>4, <2>5, <2>6, <2>7
  <2> HIDE DEF Holds, T
  <2> QED BY <2>2, <2>6, <2>8
<1>3. Cardinality(S) \in T
  <2> HIDE DEF T
  <2> QED BY <1>0, <1>1, <1>2, SetInduction
<1> QED BY <1>3 DEF Total

(* Sums add up as the functions do.                                        *)
LEMMA SumOfSums ==
    ASSUME NEW S, NEW f, NEW g, NEW h, Counts(f, S), Counts(g, S),
           \A x \in S : h[x] = f[x] + g[x]
    PROVE  SumFunctionOnSet(h, S) = SumFunctionOnSet(f, S) + SumFunctionOnSet(g, S)
<1> DEFINE Holds(s) == SumFunctionOnSet(h, s) = SumFunctionOnSet(f, s) + SumFunctionOnSet(g, s)
           T == {k \in Nat : \A s \in SUBSET S : Cardinality(s) = k => Holds(s)}
<1>0. \A s \in SUBSET S : /\ IsFiniteSet(s) /\ Cardinality(s) \in Nat
                          /\ SumFunctionOnSet(f, s) \in Nat /\ SumFunctionOnSet(g, s) \in Nat
  BY FS_Subset, FS_CardinalityType, SumType DEF Counts
<1>1. 0 \in T
  <2>1. SumFunctionOnSet(h, {}) = 0 /\ SumFunctionOnSet(f, {}) = 0 /\ SumFunctionOnSet(g, {}) = 0
    BY FS_EmptySet, SumChosen
  <2>2. \A s \in SUBSET S : Cardinality(s) = 0 => s = {}
    BY <1>0, FS_EmptySet
  <2> QED BY <2>1, <2>2
<1>2. ASSUME NEW k \in Nat, k \in T PROVE k + 1 \in T
  <2> SUFFICES ASSUME NEW s \in SUBSET S, Cardinality(s) = k + 1 PROVE Holds(s)
    OBVIOUS
  <2>1. s # {}
    BY FS_EmptySet
  <2>2. PICK c \in s : c = Chosen(s)
    BY <2>1 DEF Chosen
  <2>3. /\ SumFunctionOnSet(h, s) = h[c] + SumFunctionOnSet(h, s \ {c})
        /\ SumFunctionOnSet(f, s) = f[c] + SumFunctionOnSet(f, s \ {c})
        /\ SumFunctionOnSet(g, s) = g[c] + SumFunctionOnSet(g, s \ {c})
    BY <1>0, <2>1, <2>2, SumChosen
  <2>4. Holds(s \ {c})
    <3> HIDE DEF Holds
    <3> QED BY <1>0, <1>2, RemoveOne
  <2>5. /\ h[c] = f[c] + g[c] /\ f[c] \in Nat /\ g[c] \in Nat
        /\ SumFunctionOnSet(f, s \ {c}) \in Nat /\ SumFunctionOnSet(g, s \ {c}) \in Nat
    BY <1>0 DEF Counts
  <2> QED BY <2>3, <2>4, <2>5
<1>3. Cardinality(S) \in T
  <2> HIDE DEF T
  <2> QED BY <1>0, <1>1, <1>2, SetInduction
<1> QED BY <1>3

(* Zeros add up to 0, and so does nothing.                                 *)
LEMMA SumOfZeros ==
    ASSUME NEW g, NEW S, IsFiniteSet(S), \A x \in S : g[x] = 0
    PROVE  SumFunctionOnSet(g, S) = 0
<1>1. Counts(g, S)
  BY DEF Counts
<1>2. SumFunctionOnSet(g, S) = SumFunctionOnSet(g, S) + SumFunctionOnSet(g, S)
  BY <1>1, SumOfSums
<1>3. PICK k \in Nat : k = SumFunctionOnSet(g, S)
  BY <1>1, SumType
<1>4. k = k + k => k = 0
  OBVIOUS
<1> QED BY <1>2, <1>3, <1>4

(* The function h has one argument more than g, and agrees with it.        *)
OneMore(g, W, h, U, x) == U = W \cup {x} /\ x \notin W /\ Counts(h, U) /\ Agree(g, h, W)

(* One more argument adds its value.                                       *)
LEMMA SumWith ==
    ASSUME NEW g, NEW W, NEW h, NEW U, NEW x, OneMore(g, W, h, U, x)
    PROVE  SumFunctionOnSet(h, U) = SumFunctionOnSet(g, W) + h[x]
<1> USE DEF OneMore
<1>1. SumFunctionOnSet(h, U) = h[x] + SumFunctionOnSet(h, W)
  <2>1. x \in U /\ U \ {x} = W
    OBVIOUS
  <2>2. SumFunctionOnSet(h, U) = h[x] + SumFunctionOnSet(h, U \ {x})
    BY <2>1, SumOfRest
  <2> QED BY <2>1, <2>2
<1>a. IsFiniteSet(W)
  <2>1. IsFiniteSet(U) /\ W \subseteq U
    BY DEF Counts
  <2> QED BY <2>1, FS_Subset
<1>2. Counts(h, W) /\ h[x] \in Nat
  BY <1>a DEF Counts
<1>3. SumFunctionOnSet(g, W) = SumFunctionOnSet(h, W)
  BY <1>a, SameSum
<1>4. SumFunctionOnSet(h, W) \in Nat /\ h[x] \in Nat
  BY <1>2, SumType
<1> QED BY <1>1, <1>2, <1>3, <1>4

-----------------------------------------------------------------------------
(* The counts of the first buckets of a histogram.                         *)
LEMMA CumulativeIs ==
    ASSUME NEW h \in Seq(Nat), NEW i \in 0..Len(h)
    PROVE  Cumulative(h, i) = SumFunctionOnSet(h, 1..i) /\ Counts(h, 1..i)
<1>1. IsFiniteSet(1..i)
  BY FS_Interval
<1>2. Counts(h, 1..i)
  BY <1>1 DEF Counts
<1>3. DOMAIN SubSeq(h, 1, i) = 1..i /\ Agree(SubSeq(h, 1, i), h, 1..i)
  BY SubSeqProperties DEF Agree
<1>4. SumFunctionOnSet(SubSeq(h, 1, i), 1..i) = SumFunctionOnSet(h, 1..i)
  BY <1>1, <1>3, SameSum
<1> QED BY <1>2, <1>3, <1>4 DEF Cumulative, Sum, SumFunction

(* One bucket more.                                                        *)
LEMMA CumulativeStep ==
    ASSUME NEW h \in Seq(Nat)
    PROVE  /\ Cumulative(h, 0) = 0 /\ Cumulative(h, Len(h)) = Sum(h)
           /\ \A i \in 0..Len(h) : Cumulative(h, i) \in Nat
           /\ \A i \in 0..(Len(h) - 1) : Cumulative(h, i + 1) = Cumulative(h, i) + h[i + 1]
<1>0. Len(h) \in Nat
  OBVIOUS
<1>1. Cumulative(h, 0) = 0
  <2>1. 1..0 = {}
    OBVIOUS
  <2>2. SumFunctionOnSet(h, {}) = 0
    BY FS_EmptySet, SumChosen
  <2> QED BY <1>0, <2>1, <2>2, CumulativeIs
<1>2. Cumulative(h, Len(h)) = Sum(h)
  BY <1>0, CumulativeIs DEF Sum, SumFunction
<1>3. \A i \in 0..Len(h) : Cumulative(h, i) \in Nat
  BY CumulativeIs, SumType
<1>4. ASSUME NEW i \in 0..(Len(h) - 1)
      PROVE  Cumulative(h, i + 1) = Cumulative(h, i) + h[i + 1]
  <2>1. PICK U : U = 1..(i + 1) /\ U = (1..i) \cup {i + 1} /\ i + 1 \notin 1..i
    OBVIOUS
  <2>2. i \in 0..Len(h) /\ i + 1 \in 0..Len(h)
    BY <1>0
  <2>3. SumFunctionOnSet(h, U) = SumFunctionOnSet(h, 1..i) + h[i + 1]
    <3>1. Counts(h, U)
      BY <2>1, <2>2, CumulativeIs
    <3>2. OneMore(h, 1..i, h, U, i + 1)
      BY <2>1, <3>1 DEF OneMore, Agree
    <3> QED BY <3>2, SumWith
  <2> QED BY <2>1, <2>2, <2>3, CumulativeIs
<1> QED BY <1>1, <1>2, <1>3, <1>4

(* The count of the first i buckets, or of all when there are fewer.       *)
Upto(h, i) == Cumulative(h, Min({i, Len(h)}))

(* The minimum of two numbers.                                             *)
LEMMA MinOfTwo ==
    ASSUME NEW a \in Nat, NEW b \in Nat
    PROVE  Min({a, b}) = IF a <= b THEN a ELSE b
<1>1. \E x \in {a, b} : \A y \in {a, b} : x <= y
  OBVIOUS
<1>2. Min({a, b}) \in {a, b} /\ \A y \in {a, b} : Min({a, b}) <= y
  BY <1>1 DEF Min
<1> QED BY <1>2

(* One bucket more, if there is one.                                       *)
LEMMA UptoStep ==
    ASSUME NEW h \in Seq(Nat), NEW i \in Nat
    PROVE  /\ Upto(h, 0) = 0 /\ Upto(h, i) \in Nat /\ CountAt(h, i + 1) \in Nat
           /\ Upto(h, i + 1) = Upto(h, i) + CountAt(h, i + 1)
           /\ i <= Len(h) => Upto(h, i) = Cumulative(h, i)
<1>0. PICK l \in Nat : l = Len(h) /\ DOMAIN h = 1..l /\ \A j \in 1..l : h[j] \in Nat
  OBVIOUS
<1>1. /\ Min({0, l}) = 0 /\ Min({i, l}) = IF i <= l THEN i ELSE l
      /\ Min({i + 1, l}) = IF i + 1 <= l THEN i + 1 ELSE l
  BY MinOfTwo
<1>2. /\ Cumulative(h, 0) = 0
      /\ \A j \in 0..l : Cumulative(h, j) \in Nat
      /\ \A j \in 0..(l - 1) : Cumulative(h, j + 1) = Cumulative(h, j) + h[j + 1]
  BY <1>0, CumulativeStep
<1>3. CASE i + 1 <= l
  <2>1. Min({i, l}) = i /\ Min({i + 1, l}) = i + 1 /\ i \in 0..l /\ i \in 0..(l - 1)
    BY <1>1, <1>3
  <2>2. CountAt(h, i + 1) = h[i + 1] /\ h[i + 1] \in Nat
    BY <1>0, <1>3 DEF CountAt
  <2> QED BY <1>0, <1>1, <1>2, <2>1, <2>2 DEF Upto
<1>4. CASE ~(i + 1 <= l)
  <2>1. Min({i, l}) = l /\ Min({i + 1, l}) = l /\ l \in 0..l
    BY <1>1, <1>4
  <2>2. CountAt(h, i + 1) = 0
    BY <1>0, <1>4 DEF CountAt
  <2>3. i <= l => i = l
    BY <1>4
  <2> QED BY <1>0, <1>1, <1>2, <2>1, <2>2, <2>3 DEF Upto
<1> QED BY <1>3, <1>4

-----------------------------------------------------------------------------
(* Batches as the window numbers them, and their contributions.            *)
Numbered == [b : [ok : Nat, hist : Seq(Nat)], n : Nat]
OkIn(W) == [r \in W |-> r.b.ok]
CountIn(W, i) == [r \in W |-> CountAt(r.b.hist, i)]
UptoIn(W, i) == [r \in W |-> Upto(r.b.hist, i)]

(* An entry holds the batches W, each counted once.                        *)
HoldsBatches(e, W) ==
    /\ IsFiniteSet(W) /\ W \subseteq Numbered
    /\ e.ok = SumFunction(OkIn(W))
    /\ \A i \in Nat : CountAt(e.hist, i + 1) = SumFunction(CountIn(W, i + 1))

(* The sum of a function defined on a set.                                 *)
LEMMA SumsIn ==
    ASSUME NEW W, NEW i
    PROVE  /\ SumFunction(OkIn(W)) = SumFunctionOnSet(OkIn(W), W)
           /\ SumFunction(CountIn(W, i)) = SumFunctionOnSet(CountIn(W, i), W)
           /\ SumFunction(UptoIn(W, i)) = SumFunctionOnSet(UptoIn(W, i), W)
BY DEF SumFunction, OkIn, CountIn, UptoIn

(* What every batch of the window counts.                                  *)
LEMMA InTypes ==
    ASSUME NEW W, IsFiniteSet(W), W \subseteq Numbered, NEW i \in Nat
    PROVE  /\ Counts(OkIn(W), W) /\ Counts(CountIn(W, i + 1), W) /\ Counts(UptoIn(W, i), W)
           /\ \A r \in W : UptoIn(W, 0)[r] = 0
           /\ \A r \in W : UptoIn(W, i + 1)[r] = UptoIn(W, i)[r] + CountIn(W, i + 1)[r]
<1>1. \A r \in W : r.b.ok \in Nat /\ r.b.hist \in Seq(Nat)
  BY DEF Numbered
<1>2. \A r \in W : /\ Upto(r.b.hist, 0) = 0 /\ Upto(r.b.hist, i) \in Nat
                   /\ CountAt(r.b.hist, i + 1) \in Nat
                   /\ Upto(r.b.hist, i + 1) = Upto(r.b.hist, i) + CountAt(r.b.hist, i + 1)
  BY <1>1, UptoStep
<1> QED BY <1>1, <1>2 DEF Counts, OkIn, CountIn, UptoIn

(* The first buckets of the entry are those of the batches together.       *)
LEMMA UptoOfWindow ==
    ASSUME NEW e, NEW W, e.hist \in Seq(Nat), HoldsBatches(e, W)
    PROVE  \A i \in Nat : Upto(e.hist, i) = SumFunction(UptoIn(W, i))
<1> DEFINE T == {i \in Nat : Upto(e.hist, i) = SumFunctionOnSet(UptoIn(W, i), W)}
<1>0. IsFiniteSet(W) /\ W \subseteq Numbered
  BY DEF HoldsBatches
<1>1. 0 \in T
  <2>1. SumFunctionOnSet(UptoIn(W, 0), W) = 0
    BY <1>0, InTypes, SumOfZeros
  <2> QED BY <2>1, UptoStep
<1>2. ASSUME NEW i \in Nat, i \in T PROVE i + 1 \in T
  <2>1. SumFunctionOnSet(UptoIn(W, i + 1), W)
          = SumFunctionOnSet(UptoIn(W, i), W) + SumFunctionOnSet(CountIn(W, i + 1), W)
    <3>1. /\ Counts(UptoIn(W, i), W) /\ Counts(CountIn(W, i + 1), W)
          /\ \A r \in W : UptoIn(W, i + 1)[r] = UptoIn(W, i)[r] + CountIn(W, i + 1)[r]
      BY <1>0, InTypes
    <3> QED BY <3>1, SumOfSums
  <2>2. CountAt(e.hist, i + 1) = SumFunctionOnSet(CountIn(W, i + 1), W)
    BY SumsIn DEF HoldsBatches
  <2>3. Upto(e.hist, i + 1) = Upto(e.hist, i) + CountAt(e.hist, i + 1)
    BY UptoStep
  <2>4. Upto(e.hist, i) = SumFunctionOnSet(UptoIn(W, i), W)
    BY <1>2
  <2> QED BY <2>1, <2>2, <2>3, <2>4
<1>3. \A i \in Nat : i \in T
  <2> HIDE DEF T
  <2> QED BY <1>1, <1>2, SetInduction
<1> QED BY <1>3, SumsIn

-----------------------------------------------------------------------------
(* The bucket that PercentileBucketIndex picks is the first one to reach   *)
(* the percentage.                                                         *)
LEMMA PercentileExact ==
    ASSUME NEW h \in Seq(Nat), NEW p \in Percentiles,
           NEW b, b = PercentileBucketIndex(h, p)
    PROVE  IF Sum(h) = 0 THEN b = -1
           ELSE /\ b \in 0..(Len(h) - 1)
                /\ 100 * Cumulative(h, b + 1) >= p * Sum(h)
                /\ 100 * Cumulative(h, b) < p * Sum(h)
<1>1. CASE Sum(h) = 0
  BY <1>1 DEF PercentileBucketIndex
<1>2. CASE Sum(h) # 0
  <2> DEFINE t == Sum(h)
             hits == {i \in DOMAIN h : Cumulative(h, i) >= Target(t, p)}
  <2>0. PICK l \in Nat : l = Len(h) /\ DOMAIN h = 1..l
    OBVIOUS
  <2>1. /\ Cumulative(h, 0) = 0 /\ Cumulative(h, l) = t
        /\ \A i \in 0..l : Cumulative(h, i) \in Nat
    BY <2>0, CumulativeStep
  <2>2. t \in Nat \ {0} /\ l # 0 /\ p \in Nat
    BY <1>2, <2>0, <2>1 DEF Percentiles
  <2> HIDE DEF t
  <2>3. PICK g \in Nat \ {0} : /\ g = Target(t, p) /\ g <= t
                               /\ \A c \in Nat : (c >= g => 100 * c >= p * t) /\ (c < g => 100 * c < p * t)
    <3> DEFINE g == (t * p + 99) \div 100
    <3>1. /\ g \in Nat /\ g >= 1 /\ g <= t
          /\ \A c \in Nat : (c >= g => 100 * c >= p * t) /\ (c < g => 100 * c < p * t)
      <4>1. CASE p = 50
        BY <2>2, <4>1
      <4>2. CASE p = 90
        BY <2>2, <4>2
      <4>3. CASE p = 99
        BY <2>2, <4>3
      <4> QED BY <4>1, <4>2, <4>3 DEF Percentiles
    <3> HIDE DEF g
    <3>2. Max({1, g}) = g
      <4>1. \A x \in {1, g} : (\A y \in {1, g} : x >= y) <=> x = g
        BY <3>1
      <4> QED BY <4>1 DEF Max
    <3>3. Target(t, p) = g
      BY <3>2 DEF Target, g
    <3> QED BY <3>1, <3>3
  <2>4. hits \in SUBSET Nat /\ l \in hits
    BY <2>0, <2>1, <2>2, <2>3
  <2>5. PICK m \in hits : m = Min(hits) /\ \A y \in hits : m <= y
    <3> HIDE DEF hits
    <3>1. \E x \in hits : \A y \in hits : x <= y
      BY <2>4, LeastNat
    <3> QED BY <3>1 DEF Min
  <2>6. b = m - 1
    <3>1. b = IF hits = {} THEN Len(h) - 1 ELSE Min(hits) - 1
      BY <1>2, Zenon DEF PercentileBucketIndex, t
    <3> HIDE DEF hits
    <3> QED BY <2>5, <3>1
  <2>7. m \in 1..l /\ Cumulative(h, m) >= g
    BY <2>0, <2>3, <2>5
  <2>8. Cumulative(h, m - 1) < g
    <3>1. CASE m = 1
      BY <2>1, <2>3, <3>1
    <3>2. CASE m # 1
      <4>1. m - 1 \in 1..l /\ m - 1 \in 0..l /\ m - 1 \notin hits
        <5> HIDE DEF hits
        <5>1. m - 1 \in 1..l /\ m - 1 \in 0..l /\ ~(m <= m - 1)
          BY <2>7, <3>2
        <5> QED BY <2>5, <5>1
      <4>2. ~(Cumulative(h, m - 1) >= g)
        BY <2>0, <2>3, <4>1
      <4> QED BY <2>1, <2>3, <4>1, <4>2
    <3> QED BY <3>1, <3>2
  <2>9. Cumulative(h, m) \in Nat /\ Cumulative(h, m - 1) \in Nat
    BY <2>1, <2>7
  <2>10. 100 * Cumulative(h, m) >= p * t /\ 100 * Cumulative(h, m - 1) < p * t
    BY <2>3, <2>7, <2>8, <2>9
  <2>11. b \in 0..(l - 1) /\ b + 1 = m /\ b = m - 1
    BY <2>6, <2>7
  <2> HIDE DEF hits
  <2> QED BY <1>2, <2>0, <2>10, <2>11 DEF t
<1> QED BY <1>1, <1>2
-----------------------------------------------------------------------------
(* No bucket, no observation.                                              *)
LEMMA SumEmpty == Sum(<<>>) = 0
<1>1. DOMAIN <<>> = {}
  OBVIOUS
<1>2. SumFunctionOnSet(<<>>, {}) = 0
  BY FS_EmptySet, SumChosen
<1> QED BY <1>1, <1>2 DEF Sum, SumFunction

(* PercentileBucketIndex is a bucket's index, from 0, when there is an     *)
(* observation, and -1 otherwise.                                          *)
LEMMA BucketIndex ==
    ASSUME NEW hist \in Seq(Nat), NEW p
    PROVE  /\ PercentileBucketIndex(hist, p) \in Int
           /\ Sum(hist) # 0 => PercentileBucketIndex(hist, p) # -1
<1> DEFINE hits == {i \in DOMAIN hist : Cumulative(hist, i) >= Target(Sum(hist), p)}
<1>1. hits \in SUBSET Nat /\ Len(hist) \in Nat /\ \A i \in hits : i \in Nat \ {0}
  OBVIOUS
<1>2. hits # {} => Min(hits) \in Nat \ {0}
  <2> HIDE DEF hits
  <2>1. hits # {} => \E x \in hits : \A y \in hits : x <= y
    BY <1>1, LeastNat
  <2> QED BY <1>1, <2>1 DEF Min
<1>3. Sum(hist) # 0 => Len(hist) # 0
  BY SumEmpty
<1>4. PercentileBucketIndex(hist, p) =
        IF Sum(hist) = 0 THEN -1 ELSE IF hits = {} THEN Len(hist) - 1 ELSE Min(hits) - 1
  BY DEF PercentileBucketIndex
<1> HIDE DEF hits
<1> QED BY <1>1, <1>2, <1>3, <1>4

(* A window with data has metrics.                                         *)
LEMMA MetricsOfWindow ==
    ASSUME NEW e \in Entries
    PROVE  /\ MetricsOf(e) \in Metrics
           /\ (e.ok # 0 \/ Sum(e.hist) # 0) => MetricsOf(e) # NoMetrics
<1>1. e.ok \in Nat /\ e.hist \in Seq(Nat)
  BY DEF Entries
<1>2. \A p \in Percentiles : PercentileBucketIndex(e.hist, p) \in Int
  BY <1>1, BucketIndex
<1>3. MetricsOf(e) \in Metrics
  BY <1>1, <1>2 DEF MetricsOf, Metrics
<1>4. ASSUME MetricsOf(e) = NoMetrics PROVE e.ok = 0 /\ Sum(e.hist) = 0
  <2>1. MetricsOf(e).ok = NoMetrics.ok /\ MetricsOf(e).at[50] = NoMetrics.at[50]
    BY <1>4
  <2>2. e.ok = 0
    BY <2>1 DEF MetricsOf, NoMetrics
  <2>3. PercentileBucketIndex(e.hist, 50) = -1
    BY <2>1 DEF MetricsOf, NoMetrics, Percentiles
  <2> QED BY <1>1, <2>2, <2>3, BucketIndex
<1> QED BY <1>3, <1>4

(* The counters stay natural numbers when a batch is added.                *)
LEMMA MergedType ==
    ASSUME NEW a \in Seq(Nat), NEW b \in Seq(Nat)
    PROVE  MergeHistogram(a, b) \in Seq(Nat)
<1>1. Max({Len(a), Len(b)}) \in Nat
  <2>1. Len(a) \in Nat /\ Len(b) \in Nat
    OBVIOUS
  <2>2. \E x \in {Len(a), Len(b)} : \A y \in {Len(a), Len(b)} : x >= y
    BY <2>1
  <2> QED BY <2>1, <2>2 DEF Max
<1>2. \A i : CountAt(a, i) \in Nat /\ CountAt(b, i) \in Nat
  BY DEF CountAt
<1>3. \A i \in 1..Max({Len(a), Len(b)}) : CountAt(a, i) + CountAt(b, i) \in Nat
  BY <1>2
<1>4. MergeHistogram(a, b) \in [1..Max({Len(a), Len(b)}) -> Nat]
  BY <1>3 DEF MergeHistogram
<1> QED BY <1>1, <1>4, SeqDef

(* An entry that is created, changed or kept is an entry.                  *)
LEMMA EntryTypes ==
    ASSUME AggTypes, NEW s \in Subs
    PROVE  /\ State(s) \in Entries
           /\ HasState(s) => states[s] \in Entries /\ State(s) = states[s]
           /\ ~HasState(s) => State(s).verdict = "unverified" /\ State(s).last = NoMetrics
<1>1. NoMetrics \in Metrics
  BY DEF NoMetrics, Metrics
<1>2. FreshState \in Entries
  BY <1>1 DEF FreshState, Entries, Verdicts
<1> QED BY <1>2 DEF State, HasState, AggTypes, FreshState

-----------------------------------------------------------------------------
(* The service starts in the invariants.                                   *)
LEMMA BoardInit == Init => OrderInv
<1> SUFFICES ASSUME Init PROVE OrderInv
  OBVIOUS
<1>1. AggTypes
  BY DEF Init, AggTypes, Serving
<1>2. PubTypes
  BY ScoreboardBounds DEF Init, PubTypes
<1>3. AboutToSend /\ VerdictInv
  BY DEF Init, AboutToSend, VerdictInv, Serving, HasState
<1>4. NeverFailsOpen
  BY DEF Init, NeverFailsOpen, InsertKeys
<1>5. InSequence
  BY DEF Init, InSequence
<1> QED BY <1>1, <1>2, <1>3, <1>4, <1>5 DEF OrderInv, BoardInv

(* Every step keeps the types of the aggregator's state.                   *)
LEMMA AggTypesStep == AggTypes /\ AboutToSend /\ [Next]_vars => AggTypes'
<1> SUFFICES ASSUME AggTypes, AboutToSend, [Next]_vars PROVE AggTypes'
  OBVIOUS
<1> USE DEF aggVars, verdictVars
<1>1. ASSUME NEW s \in Subs, NEW b \in Batches, AddBatch(s, b) PROVE AggTypes'
  <2>1. b.ok \in Nat /\ b.hist \in Seq(Nat)
    BY ScoreboardBounds
  <2> DEFINE e == State(s)
             n == [e EXCEPT !.ok = @ + b.ok, !.hist = MergeHistogram(@, b.hist)]
  <2>2. e \in Entries
    BY EntryTypes
  <2> HIDE DEF e
  <2>3. MergeHistogram(e.hist, b.hist) \in Seq(Nat)
    BY <2>1, <2>2, MergedType DEF Entries
  <2>4. n \in Entries
    <3>1. PICK o \in Nat, h \in Seq(Nat) : o = e.ok + b.ok /\ h = MergeHistogram(e.hist, b.hist)
      BY <2>1, <2>2, <2>3 DEF Entries
    <3>2. n = [e EXCEPT !.ok = o, !.hist = h]
      BY <3>1
    <3> QED BY <2>2, <3>2 DEF Entries
  <2>5. states' = [states EXCEPT ![s] = n] /\ UNCHANGED <<agg, judged, decided>>
    BY <1>1 DEF AddBatch, e
  <2> HIDE DEF n
  <2> QED BY <2>4, <2>5 DEF AggTypes
<1>2. ASSUME NEW d \in Decisions, ApplyCorrectness(d.sub, d.verdict) PROVE AggTypes'
  <2>1. d.sub \in Subs /\ d.verdict \in Verdicts
    BY ScoreboardBounds DEF Verdicts
  <2>2. PICK s \in Subs, v \in Verdicts : s = d.sub /\ v = d.verdict
    BY <2>1
  <2> DEFINE e == [State(s) EXCEPT !.verdict = v]
  <2>3. e \in Entries
    BY EntryTypes DEF Entries
  <2>4. /\ states' = [states EXCEPT ![s] = e] /\ agg' = [pc |-> "emit", todo |-> {s}]
        /\ judged' = judged \cup {s} /\ decided' = [decided EXCEPT ![s] = @ \cup {v}]
    BY <1>2, <2>2 DEF ApplyCorrectness, AfterVerdict
  <2> HIDE DEF e
  <2> QED BY <2>3, <2>4 DEF AggTypes
<1>3. ASSUME NEW s \in Subs, FlushOne(s) PROVE AggTypes'
  <2>1. states[s] \in Entries
    BY <1>3, EntryTypes DEF FlushOne, AboutToSend
  <2>2. MetricsOf(states[s]) \in Metrics
    BY <2>1, MetricsOfWindow
  <2>3. [i \in DOMAIN states[s].hist |-> 0] \in Seq(Nat)
    <3>1. states[s].hist \in Seq(Nat)
      BY <2>1 DEF Entries
    <3>2. Len(states[s].hist) \in Nat /\ DOMAIN states[s].hist = 1..Len(states[s].hist)
      BY <3>1
    <3>3. [i \in DOMAIN states[s].hist |-> 0] \in [1..Len(states[s].hist) -> Nat]
      BY <3>2
    <3> QED BY <3>2, <3>3, SeqDef
  <2>4. NextWindow(states[s]) \in Entries
    BY <2>1, <2>2, <2>3 DEF NextWindow, Entries
  <2>5. states' = [states EXCEPT ![s] = NextWindow(states[s])] /\ UNCHANGED <<judged, decided>>
    BY <1>3 DEF FlushOne
  <2>6. agg' \in [pc : {"select", "emit", "flush", "final", "done"}, todo : SUBSET Subs]
    BY <1>3 DEF FlushOne, AggTypes
  <2> QED BY <2>4, <2>5, <2>6 DEF AggTypes
<1>4. CASE Tick \/ InputsEnd
  <2>1. UNCHANGED <<states, judged, decided>>
    BY <1>4 DEF Tick, InputsEnd
  <2>2. agg' \in [pc : {"select", "emit", "flush", "final", "done"}, todo : SUBSET Subs]
    BY <1>4 DEF Tick, InputsEnd, WithData
  <2> QED BY <2>1, <2>2 DEF AggTypes
<1>5. CASE FlushDone \/ AggCancelled \/ \E s \in Subs : EmitVerdict(s)
  <2>1. UNCHANGED <<states, judged, decided>>
    BY <1>5 DEF FlushDone, AggCancelled, EmitVerdict
  <2>2. agg' \in [pc : {"select", "emit", "flush", "final", "done"}, todo : SUBSET Subs]
    BY <1>5 DEF FlushDone, AggCancelled, EmitVerdict, Serving, AggTypes
  <2> QED BY <2>1, <2>2 DEF AggTypes
<1>6. CASE ExitAndRestart \/ Kill
  BY <1>6 DEF ExitAndRestart, Kill, Reset, AggTypes, Serving
<1>7. CASE PubStep \/ PublishFailed \/ Cancel \/ UNCHANGED vars
  BY <1>7 DEF PubStep, Publish, PublisherEnds, PublisherDone, Insert, PublishFailed, Cancel,
              vars, AggTypes
<1> QED BY <1>1, <1>2, <1>3, <1>4, <1>5, <1>6, <1>7 DEF Next, AggStep

(* A score that is sent.                                                   *)
LEMMA SentType ==
    ASSUME AggTypes, AboutToSend, NEW s \in Subs, s \in agg.todo
    PROVE  ScoreFor(s, states[s]) \in Scores /\ FlushScore(s) \in Scores
<1>1. states[s] \in Entries
  BY EntryTypes DEF AboutToSend
<1>2. MetricsOf(states[s]) \in Metrics
  BY <1>1, MetricsOfWindow
<1> QED BY <1>1, <1>2 DEF ScoreFor, FlushScore, Scores, Entries

(* Every step keeps the types of the channel and of the publisher's state. *)
LEMMA PubTypesStep == AggTypes /\ PubTypes /\ AboutToSend /\ [Next]_vars => PubTypes'
<1> SUFFICES ASSUME AggTypes, PubTypes, AboutToSend, [Next]_vars PROVE PubTypes'
  OBVIOUS
<1> USE DEF pubVars
<1>1. ASSUME NEW s \in Subs, EmitVerdict(s) \/ FlushOne(s) PROVE PubTypes'
  <2>1. PICK r \in Scores : /\ scores' = Append(scores, r) /\ Len(scores) < ScoreCap
                            /\ UNCHANGED <<pub, inserting, redis>>
    BY <1>1, SentType DEF EmitVerdict, FlushOne, ScoresHaveRoom
  <2>2. scores' \in Seq(Scores) /\ Len(scores') <= ScoreCap
    BY <2>1, ScoreboardBounds DEF PubTypes
  <2> QED BY <2>1, <2>2 DEF PubTypes
<1>2. CASE Publish \/ PublishFailed
  <2>1. scores # <<>> /\ scores' = Tail(scores) /\ pub' \in {"recv", "failed"}
    BY <1>2 DEF Publish, PublishFailed
  <2>2. PICK r \in Scores : r = Head(scores)
    BY <2>1 DEF PubTypes
  <2>3. scores' \in Seq(Scores) /\ Len(scores') <= ScoreCap
    BY <2>1, ScoreboardBounds DEF PubTypes
  <2>4. inserting' \in [InsertKeys -> Nat]
    <3>1. InsertKey(r) \in InsertKeys
      BY DEF InsertKey, InsertKeys, Scores
    <3>2. inserting' = [inserting EXCEPT ![InsertKey(r)] = @ + 1]
      BY <1>2, <2>2 DEF Publish, PublishFailed, StartInsert
    <3> QED BY <3>1, <3>2 DEF PubTypes
  <2>5. redis' \in [Subs -> Payloads \cup {NoRow}]
    <3>1. Payload(r) \in Payloads /\ r.sub \in Subs
      BY DEF Payload, Payloads, Scores
    <3>2. redis' = [redis EXCEPT ![r.sub] = Payload(r)] \/ redis' = redis
      BY <1>2, <2>2 DEF Publish, PublishFailed, Hset
    <3> QED BY <3>1, <3>2 DEF PubTypes
  <2> QED BY <2>1, <2>3, <2>4, <2>5 DEF PubTypes
<1>3. ASSUME NEW k \in InsertKeys, Insert(k) PROVE PubTypes'
  <2>1. inserting' \in [InsertKeys -> Nat]
    BY <1>3 DEF Insert, PubTypes
  <2> QED BY <1>3, <2>1 DEF Insert, PubTypes
<1>4. CASE PublisherEnds \/ PublisherDone
  BY <1>4 DEF PublisherEnds, PublisherDone, PubTypes
<1>5. CASE ExitAndRestart \/ Kill
  <2>1. /\ scores' = <<>> /\ pub' = "recv" /\ inserting' = [k \in InsertKeys |-> 0]
        /\ redis' = redis
    BY <1>5 DEF ExitAndRestart, Kill, Reset
  <2> QED BY <2>1, ScoreboardBounds DEF PubTypes
<1>6. CASE \/ Tick \/ InputsEnd \/ FlushDone \/ AggCancelled \/ Cancel \/ UNCHANGED vars
           \/ (\E s \in Subs, b \in Batches : AddBatch(s, b))
           \/ \E d \in Decisions : ApplyCorrectness(d.sub, d.verdict)
  <2>1. UNCHANGED <<scores, pubVars>>
    BY <1>6 DEF Tick, InputsEnd, FlushDone, AggCancelled, Cancel, vars, AddBatch, ApplyCorrectness
  <2> QED BY <2>1 DEF PubTypes
<1> QED BY <1>1, <1>2, <1>3, <1>4, <1>5, <1>6 DEF Next, AggStep, PubStep

(* Entries are never taken for a missing one.                              *)
LEMMA EntryIsState == \A e \in Entries : e # NoState
BY DEF Entries, NoState

(* What the aggregator's three changes of an entry do to its row.          *)
LEMMA AddBatchEntry ==
    ASSUME AggTypes, NEW s \in Subs, NEW b \in Batches, AddBatch(s, b)
    PROVE  /\ \A t \in Subs \ {s} : states'[t] = states[t]
           /\ states'[s] # NoState /\ states'[s].verdict = State(s).verdict
           /\ states'[s].last = State(s).last
<1> DEFINE e == State(s)
<1>1. e \in Entries
  BY EntryTypes
<1> HIDE DEF e
<1>2. /\ states' = [states EXCEPT ![s] =
                      [e EXCEPT !.ok = @ + b.ok, !.hist = MergeHistogram(@, b.hist)]]
      /\ states \in [Subs -> Entries \cup {NoState}]
  BY DEF AddBatch, e, AggTypes
<1>3. states'[s] = [e EXCEPT !.ok = @ + b.ok, !.hist = MergeHistogram(@, b.hist)]
  BY <1>2
<1>4. states'[s].verdict = e.verdict /\ states'[s].last = e.last
  BY <1>1, <1>3 DEF Entries
<1>5. DOMAIN states'[s] = DOMAIN e
  BY <1>3
<1>6. states'[s] # NoState
  BY <1>1, <1>5 DEF Entries, NoState
<1> QED BY <1>2, <1>4, <1>6 DEF e

(* A verdict changes one entry, and of it the verdict alone.               *)
LEMMA VerdictEntry ==
    ASSUME AggTypes, NEW s \in Subs, NEW v \in Verdicts, ApplyCorrectness(s, v)
    PROVE  /\ \A t \in Subs \ {s} : states'[t] = states[t]
           /\ states'[s] # NoState /\ states'[s].verdict = v
           /\ states'[s].last = State(s).last
<1> DEFINE e == State(s)
<1>1. e \in Entries
  BY EntryTypes
<1> HIDE DEF e
<1>2. /\ states' = [states EXCEPT ![s] = [e EXCEPT !.verdict = v]]
      /\ states \in [Subs -> Entries \cup {NoState}]
  BY DEF ApplyCorrectness, e, AggTypes
<1>3. states'[s] = [e EXCEPT !.verdict = v]
  BY <1>2
<1>4. states'[s].verdict = v /\ states'[s].last = e.last /\ states'[s] \in Entries
  BY <1>1, <1>3 DEF Entries
<1> QED BY <1>2, <1>4, EntryIsState DEF e

(* A flush gives one entry the metrics of its window and keeps its         *)
(* verdict.                                                                *)
LEMMA FlushEntry ==
    ASSUME AggTypes, AboutToSend, NEW s \in Subs, FlushOne(s)
    PROVE  /\ \A t \in Subs \ {s} : states'[t] = states[t]
           /\ states'[s] # NoState /\ states'[s].verdict = states[s].verdict
           /\ states'[s].last = MetricsOf(states[s]) /\ MetricsOf(states[s]) # NoMetrics
<1>1. states[s] \in Entries /\ (states[s].ok # 0 \/ Sum(states[s].hist) # 0)
  BY EntryTypes DEF FlushOne, AboutToSend
<1>2. MetricsOf(states[s]) # NoMetrics
  BY <1>1, MetricsOfWindow
<1>3. /\ states' = [states EXCEPT ![s] = NextWindow(states[s])]
      /\ states \in [Subs -> Entries \cup {NoState}]
  BY DEF FlushOne, AggTypes
<1>4. states'[s] = NextWindow(states[s])
  BY <1>3
<1>5. /\ states'[s].verdict = states[s].verdict /\ states'[s].last = MetricsOf(states[s])
      /\ DOMAIN states'[s] = DOMAIN states[s]
  BY <1>1, <1>4 DEF NextWindow, Entries
<1>6. states'[s] # NoState
  BY <1>1, <1>5 DEF Entries, NoState
<1> QED BY <1>2, <1>3, <1>5, <1>6

-----------------------------------------------------------------------------
(* Every step keeps AboutToSend.                                           *)
LEMMA AboutToSendStep == AggTypes /\ AboutToSend /\ [Next]_vars => AboutToSend'
<1> SUFFICES ASSUME AggTypes, AboutToSend, [Next]_vars PROVE AboutToSend'
  OBVIOUS
<1>0. agg.todo \subseteq Subs
  BY DEF AggTypes
<1> USE DEF aggVars
<1>1. ASSUME NEW s \in Subs, NEW b \in Batches, AddBatch(s, b) PROVE AboutToSend'
  BY <1>0, <1>1, AddBatchEntry DEF AddBatch, AboutToSend, HasState
<1>2. ASSUME NEW d \in Decisions, ApplyCorrectness(d.sub, d.verdict) PROVE AboutToSend'
  <2>1. PICK s \in Subs, v \in Verdicts : ApplyCorrectness(s, v)
    BY <1>2, ScoreboardBounds DEF Verdicts
  <2>2. states'[s] # NoState /\ agg' = [pc |-> "emit", todo |-> {s}]
    BY <2>1, VerdictEntry DEF ApplyCorrectness, AfterVerdict
  <2> QED BY <2>2 DEF AboutToSend, HasState
<1>3. ASSUME NEW s \in Subs, FlushOne(s) PROVE AboutToSend'
  <2>1. agg'.pc = agg.pc /\ agg'.todo = agg.todo \ {s}
    BY <1>3 DEF FlushOne, AggTypes
  <2> QED BY <1>0, <1>3, <2>1, FlushEntry DEF AboutToSend, HasState
<1>4. CASE Tick
  BY <1>4 DEF Tick, WithData, AboutToSend, HasState
<1>5. CASE InputsEnd
  BY <1>5 DEF InputsEnd, WithData, AboutToSend, HasState
<1>6. CASE \/ FlushDone \/ AggCancelled \/ ExitAndRestart \/ Kill
           \/ \E s \in Subs : EmitVerdict(s)
  <2>1. agg'.todo = {}
    BY <1>6 DEF FlushDone, AggCancelled, ExitAndRestart, Kill, Reset, EmitVerdict, Serving, AggTypes
  <2> QED BY <2>1 DEF AboutToSend
<1>7. CASE PubStep \/ PublishFailed \/ Cancel \/ UNCHANGED vars
  <2>1. UNCHANGED <<states, agg>>
    BY <1>7 DEF PubStep, Publish, PublisherEnds, PublisherDone, Insert, PublishFailed, Cancel, vars
  <2> QED BY <2>1 DEF AboutToSend, HasState
<1> QED BY <1>1, <1>2, <1>3, <1>4, <1>5, <1>6, <1>7 DEF Next, AggStep

(* Every step keeps VerdictInv: only the engine's decision changes a       *)
(* verdict, and a restart forgets verdicts and decisions together.         *)
LEMMA VerdictStep == AggTypes /\ AboutToSend /\ VerdictInv /\ [Next]_vars => VerdictInv'
<1> SUFFICES ASSUME AggTypes, AboutToSend, VerdictInv, [Next]_vars PROVE VerdictInv'
  OBVIOUS
<1> USE DEF aggVars, verdictVars
<1>1. ASSUME NEW s \in Subs, NEW b \in Batches, AddBatch(s, b) PROVE VerdictInv'
  <2>1. UNCHANGED <<judged, decided>>
    BY <1>1 DEF AddBatch
  <2>2. State(s).verdict = "unverified" \/ (HasState(s) /\ State(s) = states[s])
    BY EntryTypes
  <2> QED BY <1>1, <2>1, <2>2, AddBatchEntry DEF VerdictInv, HasState
<1>2. ASSUME NEW d \in Decisions, ApplyCorrectness(d.sub, d.verdict) PROVE VerdictInv'
  <2>1. PICK s \in Subs, v \in Verdicts : ApplyCorrectness(s, v)
    BY <1>2, ScoreboardBounds DEF Verdicts
  <2>2. judged' = judged \cup {s} /\ decided' = [decided EXCEPT ![s] = @ \cup {v}]
    BY <2>1 DEF ApplyCorrectness
  <2>3. \A t \in Subs : decided[t] \subseteq decided'[t]
    BY <2>2 DEF AggTypes
  <2>4. v \in decided'[s]
    BY <2>2 DEF AggTypes
  <2>5. /\ \A t \in Subs \ {s} : states'[t] = states[t]
        /\ states'[s] # NoState /\ states'[s].verdict = v
    BY <2>1, VerdictEntry
  <2> QED BY <2>2, <2>3, <2>4, <2>5 DEF VerdictInv, HasState
<1>3. ASSUME NEW s \in Subs, FlushOne(s) PROVE VerdictInv'
  <2>1. UNCHANGED <<judged, decided>> /\ HasState(s)
    BY <1>3 DEF FlushOne, AboutToSend
  <2> QED BY <1>3, <2>1, FlushEntry DEF VerdictInv, HasState
<1>4. CASE ExitAndRestart \/ Kill
  BY <1>4 DEF ExitAndRestart, Kill, Reset, VerdictInv, HasState
<1>5. CASE \/ Tick \/ InputsEnd \/ FlushDone \/ AggCancelled \/ (\E s \in Subs : EmitVerdict(s))
           \/ PubStep \/ PublishFailed \/ Cancel \/ UNCHANGED vars
  <2>1. UNCHANGED <<states, judged, decided>>
    BY <1>5 DEF Tick, InputsEnd, FlushDone, AggCancelled, EmitVerdict, PubStep, Publish,
                PublisherEnds, PublisherDone, Insert, PublishFailed, Cancel, vars
  <2> QED BY <2>1 DEF VerdictInv, HasState
<1> QED BY <1>1, <1>2, <1>3, <1>4, <1>5 DEF Next, AggStep

-----------------------------------------------------------------------------
(* What a send and a receive do to the channel.                            *)
LEMMA Sent ==
    ASSUME NEW S, NEW q \in Seq(S), NEW r \in S
    PROVE  /\ DOMAIN q \subseteq DOMAIN Append(q, r) /\ DOMAIN q \subseteq Nat
           /\ \A i \in DOMAIN Append(q, r) :
                \/ i \in DOMAIN q /\ Append(q, r)[i] = q[i]
                \/ i = Len(q) + 1 /\ Append(q, r)[i] = r
           /\ \A i \in DOMAIN q : ~(Len(q) + 1 < i)
OBVIOUS

(* What a receive takes from a channel, and where the rest of it is then.  *)
LEMMA Received ==
    ASSUME NEW S, NEW q \in Seq(S), q # <<>>
    PROVE  /\ Head(q) = q[1] /\ 1 \in DOMAIN q /\ Head(q) \in S
           /\ \A i \in DOMAIN Tail(q) :
                i \in Nat \ {0} /\ i + 1 \in DOMAIN q /\ Tail(q)[i] = q[i + 1]
OBVIOUS

(* Every step keeps NeverFailsOpen.                                        *)
LEMMA FailsClosedStep == BoardInv /\ [Next]_vars => NeverFailsOpen'
<1> SUFFICES ASSUME BoardInv, [Next]_vars, NEW s \in Subs, "correct" \notin decided'[s]
             PROVE  /\ redis'[s] = NoRow \/ redis'[s].verdict # "correct"
                    /\ \A i \in DOMAIN scores' : scores'[i].sub = s => scores'[i].verdict # "correct"
                    /\ inserting'[[sub |-> s, correct |-> TRUE]] = 0
  BY DEF NeverFailsOpen
<1> DEFINE Goal == /\ redis'[s] = NoRow \/ redis'[s].verdict # "correct"
                   /\ \A i \in DOMAIN scores' : scores'[i].sub = s => scores'[i].verdict # "correct"
                   /\ inserting'[[sub |-> s, correct |-> TRUE]] = 0
<1>0. AggTypes /\ PubTypes /\ AboutToSend /\ VerdictInv /\ NeverFailsOpen
  BY DEF BoardInv
<1> USE DEF aggVars, pubVars, verdictVars
<1>1. decided[s] \subseteq decided'[s]
  <2>1. ASSUME NEW d \in Decisions, ApplyCorrectness(d.sub, d.verdict) PROVE decided[s] \subseteq decided'[s]
    BY <1>0, <2>1 DEF ApplyCorrectness, AggTypes
  <2>2. CASE ~\E d \in Decisions : ApplyCorrectness(d.sub, d.verdict)
    BY <2>2 DEF Next, AggStep, PubStep, Tick, InputsEnd, FlushDone, AggCancelled, EmitVerdict, FlushOne,
                Publish, PublisherEnds, PublisherDone, Insert, PublishFailed, AddBatch, Cancel,
                ExitAndRestart, Kill, vars
  <2> QED BY <2>1, <2>2
<1>2. "correct" \notin decided[s]
  BY <1>1
<1>3. /\ redis[s] = NoRow \/ redis[s].verdict # "correct"
      /\ \A i \in DOMAIN scores : scores[i].sub = s => scores[i].verdict # "correct"
      /\ inserting[[sub |-> s, correct |-> TRUE]] = 0
      /\ HasState(s) => states[s].verdict # "correct"
  BY <1>0, <1>2 DEF NeverFailsOpen, VerdictInv
<1>4. CASE UNCHANGED <<redis, scores, inserting>>
  BY <1>3, <1>4
<1>5. ASSUME NEW t \in Subs, EmitVerdict(t) \/ FlushOne(t) PROVE Goal
  <2>1. states[t] \in Entries /\ HasState(t)
    BY <1>0, <1>5, EntryTypes DEF EmitVerdict, FlushOne, AboutToSend
  <2>2. PICK r \in Scores : /\ scores' = Append(scores, r) /\ r.sub = t
                            /\ r.verdict = states[t].verdict
    BY <1>0, <1>5, <2>1, SentType DEF EmitVerdict, FlushOne, FlushScore, ScoreFor, Entries
  <2>3. UNCHANGED <<redis, inserting>>
    BY <1>5 DEF EmitVerdict, FlushOne
  <2>4. \A i \in DOMAIN scores' :
           (i \in DOMAIN scores /\ scores'[i] = scores[i]) \/ scores'[i] = r
    BY <1>0, <2>2, Sent DEF PubTypes
  <2> QED BY <1>3, <2>1, <2>2, <2>3, <2>4
<1>6. CASE Publish \/ PublishFailed
  <2>1. scores # <<>> /\ scores' = Tail(scores)
    BY <1>6 DEF Publish, PublishFailed
  <2>2. PICK r \in Scores : r = Head(scores) /\ r = scores[1] /\ 1 \in DOMAIN scores
    BY <1>0, <2>1, Received DEF PubTypes
  <2>3. \A i \in DOMAIN scores' : i + 1 \in DOMAIN scores /\ scores'[i] = scores[i + 1]
    BY <1>0, <2>1, Received DEF PubTypes
  <2>4. r.sub = s => r.verdict # "correct"
    BY <1>3, <2>2
  <2>5. redis'[s] = NoRow \/ redis'[s].verdict # "correct"
    <3>1. redis' = [redis EXCEPT ![r.sub] = Payload(r)] \/ redis' = redis
      BY <1>6, <2>2 DEF Publish, PublishFailed, Hset
    <3>2. redis'[s] = redis[s] \/ (r.sub = s /\ redis'[s] = Payload(r))
      BY <1>0, <3>1 DEF PubTypes
    <3> QED BY <1>3, <2>4, <3>2 DEF Payload
  <2>6. inserting'[[sub |-> s, correct |-> TRUE]] = 0
    <3>1. inserting' = [inserting EXCEPT ![InsertKey(r)] = @ + 1]
      BY <1>6, <2>2 DEF Publish, PublishFailed, StartInsert
    <3>2. [sub |-> s, correct |-> TRUE] \in InsertKeys
      BY DEF InsertKeys
    <3>3. InsertKey(r) # [sub |-> s, correct |-> TRUE]
      BY <2>4 DEF InsertKey
    <3> QED BY <1>0, <1>3, <3>1, <3>2, <3>3 DEF PubTypes
  <2> QED BY <1>3, <2>3, <2>5, <2>6
<1>7. ASSUME NEW k \in InsertKeys, Insert(k) PROVE Goal
  <2>1. /\ inserting[k] > 0 /\ inserting' = [inserting EXCEPT ![k] = @ - 1]
        /\ UNCHANGED <<redis, scores>>
    BY <1>7 DEF Insert
  <2>2. [sub |-> s, correct |-> TRUE] \in InsertKeys
    BY DEF InsertKeys
  <2>3. k # [sub |-> s, correct |-> TRUE]
    <3>1. inserting[k] # 0
      BY <2>1
    <3> QED BY <1>3, <3>1, Zenon
  <2>4. inserting'[[sub |-> s, correct |-> TRUE]] = 0
    BY <1>0, <1>3, <2>1, <2>2, <2>3 DEF PubTypes
  <2> QED BY <1>3, <2>1, <2>4
<1>8. CASE ExitAndRestart \/ Kill
  <2>1. /\ scores' = <<>> /\ inserting' = [k \in InsertKeys |-> 0] /\ redis' = redis
    BY <1>8 DEF ExitAndRestart, Kill, Reset
  <2>2. [sub |-> s, correct |-> TRUE] \in InsertKeys
    BY DEF InsertKeys
  <2> QED BY <1>3, <2>1, <2>2
<1>9. CASE \/ Tick \/ InputsEnd \/ FlushDone \/ AggCancelled \/ Cancel \/ UNCHANGED vars
           \/ PublisherEnds \/ PublisherDone
           \/ (\E t \in Subs, b \in Batches : AddBatch(t, b))
           \/ \E d \in Decisions : ApplyCorrectness(d.sub, d.verdict)
  <2>1. UNCHANGED <<redis, scores, inserting>>
    BY <1>9 DEF Tick, InputsEnd, FlushDone, AggCancelled, Cancel, vars, AddBatch, ApplyCorrectness,
                PublisherEnds, PublisherDone
  <2> QED BY <1>4, <2>1
<1> QED BY <1>5, <1>6, <1>7, <1>8, <1>9 DEF Next, AggStep, PubStep

(* Every step keeps the invariant.                                         *)
LEMMA BoardStep == BoardInv /\ [Next]_vars => BoardInv'
BY AggTypesStep, PubTypesStep, AboutToSendStep, VerdictStep, FailsClosedStep DEF BoardInv

(* Every variable of the aggregator and of the publisher has its type, and *)
(* the scores channel stays within its capacity.                           *)
THEOREM ScoreboardTypes == Spec => []TypeOK
<1>1. BoardInv => TypeOK
  <2> SUFFICES ASSUME BoardInv PROVE TypeOK
    OBVIOUS
  <2>1. AggTypes /\ PubTypes
    BY DEF BoardInv
  <2>2. \A s \in Subs : states[s] = NoState \/ states[s].verdict \in Verdicts
    BY <2>1 DEF AggTypes, Entries
  <2>3. \A s \in Subs : redis[s] = NoRow \/ redis[s].verdict \in Verdicts
    BY <2>1 DEF PubTypes, Payloads
  <2> QED BY <2>1, <2>2, <2>3 DEF TypeOK, AggTypes, PubTypes
<1>2. Init => BoardInv
  BY BoardInit DEF OrderInv
<1> QED BY <1>1, <1>2, BoardStep, PTL DEF Spec

(* The leaderboard fails closed: nothing reads as a pass, in Redis, on its *)
(* way there or in the database, unless the engine decided so, however the *)
(* service fails, stops and restarts.                                      *)
THEOREM FailsClosed == Spec => []NeverFailsOpen
<1>1. BoardInv => NeverFailsOpen
  BY DEF BoardInv
<1>2. Init => BoardInv
  BY BoardInit DEF OrderInv
<1> QED BY <1>1, <1>2, BoardStep, PTL DEF Spec

-----------------------------------------------------------------------------
(* A row follows itself; what follows a row follows what it followed.      *)
LEMMA FollowsTrans ==
    ASSUME NEW a, NEW b, NEW c, Follows(a, b), Follows(b, c)
    PROVE  Follows(a, c)
BY DEF Follows

(* The entry of s is replaced by one that follows it: everything ahead of  *)
(* it is followed by the new one.                                          *)
LEMMA EntryFollows ==
    ASSUME InSequence, NEW s \in Subs, UNCHANGED <<redis, scores, orphans>>,
           \A t \in Subs \ {s} : states'[t] = states[t],
           states'[s] # NoState, HasState(s) => Follows(states[s], states'[s])
    PROVE  InSequence'
<1> SUFFICES ASSUME NEW t \in Subs \ orphans
             PROVE  /\ redis[t] # NoRow =>
                        /\ HasState(t)' /\ Follows(redis[t], states'[t])
                        /\ \A i \in DOMAIN scores : scores[i].sub = t => Follows(redis[t], scores[i])
                    /\ \A i \in DOMAIN scores : scores[i].sub = t =>
                        /\ HasState(t)' /\ Follows(scores[i], states'[t])
                        /\ \A j \in DOMAIN scores :
                              (i < j /\ scores[j].sub = t) => Follows(scores[i], scores[j])
  BY DEF InSequence, Follows
<1>1. HasState(t) => HasState(t)' /\ \A a : Follows(a, states[t]) => Follows(a, states'[t])
  <2>1. CASE t = s
    BY <2>1, FollowsTrans DEF HasState
  <2>2. CASE t # s
    BY <2>2 DEF HasState
  <2> QED BY <2>1, <2>2
<1> QED BY <1>1 DEF InSequence

(* The entry of s is sent: its row follows everything on its way.          *)
LEMMA SendFollows ==
    ASSUME InSequence, PubTypes, NEW s \in Subs, NEW r \in Scores, r.sub = s,
           UNCHANGED <<redis, orphans>>, scores' = Append(scores, r),
           \A t \in Subs \ {s} : states'[t] = states[t],
           HasState(s), states'[s] # NoState,
           Follows(states[s], r), Follows(r, states'[s])
    PROVE  InSequence'
<1> SUFFICES ASSUME NEW t \in Subs \ orphans
             PROVE  /\ redis[t] # NoRow =>
                        /\ HasState(t)' /\ Follows(redis[t], states'[t])
                        /\ \A i \in DOMAIN scores' : scores'[i].sub = t => Follows(redis[t], scores'[i])
                    /\ \A i \in DOMAIN scores' : scores'[i].sub = t =>
                        /\ HasState(t)' /\ Follows(scores'[i], states'[t])
                        /\ \A j \in DOMAIN scores' :
                              (i < j /\ scores'[j].sub = t) => Follows(scores'[i], scores'[j])
  BY DEF InSequence, Follows
<1>1. /\ redis[t] # NoRow =>
             /\ HasState(t) /\ Follows(redis[t], states[t])
             /\ \A i \in DOMAIN scores : scores[i].sub = t => Follows(redis[t], scores[i])
      /\ \A i \in DOMAIN scores : scores[i].sub = t =>
             /\ HasState(t) /\ Follows(scores[i], states[t])
             /\ \A j \in DOMAIN scores : (i < j /\ scores[j].sub = t) => Follows(scores[i], scores[j])
  BY DEF InSequence
<1>2. /\ HasState(t) => HasState(t)'
      /\ \A a : Follows(a, states[t]) => Follows(a, states'[t])
      /\ t = s => HasState(t) /\ Follows(r, states'[t]) /\ \A a : Follows(a, states[t]) => Follows(a, r)
  <2>1. CASE t = s
    BY <2>1, FollowsTrans DEF HasState
  <2>2. CASE t # s
    BY <2>2 DEF HasState
  <2> QED BY <2>1, <2>2
<1>3. /\ \A i \in DOMAIN scores' :
            \/ i \in DOMAIN scores /\ scores'[i] = scores[i]
            \/ i = Len(scores) + 1 /\ scores'[i] = r
      /\ \A i \in DOMAIN scores : ~(Len(scores) + 1 < i)
      /\ ~(Len(scores) + 1 < Len(scores) + 1)
  BY Sent DEF PubTypes
<1>4. redis[t] # NoRow =>
        /\ HasState(t)' /\ Follows(redis[t], states'[t])
        /\ \A i \in DOMAIN scores' : scores'[i].sub = t => Follows(redis[t], scores'[i])
  BY <1>1, <1>2, <1>3
<1>5. ASSUME NEW i \in DOMAIN scores', scores'[i].sub = t
      PROVE  HasState(t)' /\ Follows(scores'[i], states'[t])
  BY <1>1, <1>2, <1>3, <1>5
<1>6. ASSUME NEW i \in DOMAIN scores', NEW j \in DOMAIN scores', scores'[i].sub = t,
             scores'[j].sub = t, i < j
      PROVE  Follows(scores'[i], scores'[j])
  <2>1. i \in DOMAIN scores /\ scores'[i] = scores[i]
    BY <1>3, <1>6
  <2>2. CASE j \in DOMAIN scores /\ scores'[j] = scores[j]
    BY <1>1, <1>6, <2>1, <2>2
  <2>3. CASE scores'[j] = r
    BY <1>1, <1>2, <1>6, <2>1, <2>3
  <2> QED BY <1>3, <2>2, <2>3
<1> QED BY <1>4, <1>5, <1>6

(* The publisher takes the next row, and Redis shows it or the one before. *)
LEMMA PublishFollows ==
    ASSUME InSequence, PubTypes, Publish \/ PublishFailed
    PROVE  /\ InSequence'
           /\ \A s \in Subs \ orphans :
                (redis[s] # NoRow /\ redis'[s] # redis[s]) => Follows(redis[s], redis'[s])
<1>1. scores # <<>> /\ scores' = Tail(scores) /\ UNCHANGED <<states, orphans>>
  BY DEF Publish, PublishFailed, aggVars
<1>2. PICK r \in Scores : r = Head(scores) /\ r = scores[1] /\ 1 \in DOMAIN scores
  BY <1>1, Received DEF PubTypes
<1>3. \A i \in DOMAIN scores' :
         /\ i \in Nat \ {0} /\ i + 1 \in DOMAIN scores /\ scores'[i] = scores[i + 1]
  BY <1>1, Received DEF PubTypes
<1>4. redis' = [redis EXCEPT ![r.sub] = Payload(r)] \/ redis' = redis
  BY <1>2 DEF Publish, PublishFailed, Hset
<1>5. \A s \in Subs : redis'[s] = redis[s] \/ (r.sub = s /\ redis'[s] = Payload(r))
  BY <1>4 DEF PubTypes
<1>6. \A a : (Follows(a, r) <=> Follows(a, Payload(r))) /\ (Follows(r, a) <=> Follows(Payload(r), a))
  BY DEF Follows, Payload
<1> HIDE DEF Follows
<1>7. ASSUME NEW s \in Subs \ orphans
      PROVE  /\ redis'[s] # NoRow =>
                  /\ HasState(s) /\ Follows(redis'[s], states[s])
                  /\ \A i \in DOMAIN scores' : scores'[i].sub = s => Follows(redis'[s], scores'[i])
             /\ \A i \in DOMAIN scores' : scores'[i].sub = s =>
                  /\ HasState(s) /\ Follows(scores'[i], states[s])
                  /\ \A j \in DOMAIN scores' :
                        (i < j /\ scores'[j].sub = s) => Follows(scores'[i], scores'[j])
             /\ (redis[s] # NoRow /\ redis'[s] # redis[s]) => Follows(redis[s], redis'[s])
  <2>1. /\ redis[s] # NoRow =>
             /\ HasState(s) /\ Follows(redis[s], states[s])
             /\ \A i \in DOMAIN scores : scores[i].sub = s => Follows(redis[s], scores[i])
        /\ \A i \in DOMAIN scores : scores[i].sub = s =>
             /\ HasState(s) /\ Follows(scores[i], states[s])
             /\ \A j \in DOMAIN scores : (i < j /\ scores[j].sub = s) => Follows(scores[i], scores[j])
    BY DEF InSequence
  <2>2. r.sub = s =>
             /\ HasState(s) /\ Follows(r, states[s])
             /\ \A i \in DOMAIN scores' : scores'[i].sub = s => Follows(r, scores'[i])
             /\ redis[s] # NoRow => Follows(redis[s], r)
    <3>1. ASSUME NEW i \in DOMAIN scores' PROVE 1 < i + 1
      BY <1>3, <3>1
    <3> QED BY <1>2, <1>3, <2>1, <3>1
  <2>3. redis'[s] # NoRow =>
             /\ HasState(s) /\ Follows(redis'[s], states[s])
             /\ \A i \in DOMAIN scores' : scores'[i].sub = s => Follows(redis'[s], scores'[i])
    BY <1>3, <1>5, <1>6, <2>1, <2>2
  <2>4. \A i \in DOMAIN scores' : scores'[i].sub = s => HasState(s) /\ Follows(scores'[i], states[s])
    BY <1>3, <2>1
  <2>5. ASSUME NEW i \in DOMAIN scores', NEW j \in DOMAIN scores', scores'[i].sub = s,
               scores'[j].sub = s, i < j
        PROVE  Follows(scores'[i], scores'[j])
    <3>1. i + 1 < j + 1
      BY <1>3, <2>5
    <3> QED BY <1>3, <2>1, <2>5, <3>1
  <2>6. (redis[s] # NoRow /\ redis'[s] # redis[s]) => Follows(redis[s], redis'[s])
    BY <1>5, <1>6, <2>2
  <2> QED BY <2>3, <2>4, <2>5, <2>6
<1>8. InSequence'
  BY <1>1, <1>7 DEF InSequence, HasState, Follows
<1> QED BY <1>7, <1>8

(* Every step keeps the rows in sequence.                                  *)
LEMMA SequenceStep == OrderInv /\ [Next]_vars => InSequence'
<1> SUFFICES ASSUME OrderInv, [Next]_vars PROVE InSequence'
  OBVIOUS
<1>0. AggTypes /\ PubTypes /\ AboutToSend /\ VerdictInv /\ InSequence
  BY DEF OrderInv, BoardInv
<1> USE DEF aggVars, pubVars
<1>1. ASSUME NEW s \in Subs, NEW b \in Batches, AddBatch(s, b) PROVE InSequence'
  <2>1. UNCHANGED <<redis, scores, orphans>>
    BY <1>1 DEF AddBatch
  <2>2. /\ \A t \in Subs \ {s} : states'[t] = states[t]
        /\ states'[s] # NoState /\ HasState(s) => Follows(states[s], states'[s])
    BY <1>0, <1>1, AddBatchEntry, EntryTypes DEF Follows
  <2> QED BY <1>0, <1>1, <2>1, <2>2, AddBatchEntry, EntryFollows
<1>2. ASSUME NEW d \in Decisions, ApplyCorrectness(d.sub, d.verdict) PROVE InSequence'
  <2>1. PICK s \in Subs, v \in Verdicts : ApplyCorrectness(s, v)
    BY <1>2, ScoreboardBounds DEF Verdicts
  <2>2. UNCHANGED <<redis, scores, orphans>> /\ s \notin judged
    BY <2>1 DEF ApplyCorrectness
  <2>3. /\ \A t \in Subs \ {s} : states'[t] = states[t]
        /\ states'[s] # NoState /\ states'[s].last = State(s).last
    BY <1>0, <2>1, VerdictEntry
  <2>4. HasState(s) => Follows(states[s], states'[s])
    BY <1>0, <2>2, <2>3, EntryTypes DEF Follows, VerdictInv
  <2> QED BY <1>0, <2>2, <2>3, <2>4, EntryFollows
<1>3. ASSUME NEW s \in Subs, EmitVerdict(s) PROVE InSequence'
  <2>1. HasState(s) /\ states[s] \in Entries
    BY <1>0, <1>3, EntryTypes DEF EmitVerdict, AboutToSend
  <2>2. PICK r \in Scores : /\ scores' = Append(scores, r) /\ r.sub = s
                            /\ r.verdict = states[s].verdict /\ r.last = states[s].last
    BY <1>0, <1>3, SentType DEF EmitVerdict, ScoreFor
  <2>3. UNCHANGED <<states, redis, orphans>>
    BY <1>3 DEF EmitVerdict
  <2>4. Follows(states[s], r) /\ Follows(r, states[s])
    BY <2>2 DEF Follows
  <2> QED BY <1>0, <2>1, <2>2, <2>3, <2>4, SendFollows DEF HasState
<1>4. ASSUME NEW s \in Subs, FlushOne(s) PROVE InSequence'
  <2>1. HasState(s) /\ states[s] \in Entries
    BY <1>0, <1>4, EntryTypes DEF FlushOne, AboutToSend
  <2>2. FlushScore(s) \in Scores /\ scores' = Append(scores, FlushScore(s))
    BY <1>0, <1>4, SentType DEF FlushOne
  <2>3. /\ FlushScore(s).sub = s /\ FlushScore(s).verdict = states[s].verdict
        /\ FlushScore(s).last = MetricsOf(states[s])
    BY <2>1 DEF FlushScore, ScoreFor, Entries
  <2>4. UNCHANGED <<redis, orphans>>
    BY <1>4 DEF FlushOne
  <2>5. /\ \A t \in Subs \ {s} : states'[t] = states[t]
        /\ states'[s] # NoState /\ states'[s].verdict = states[s].verdict
        /\ states'[s].last = MetricsOf(states[s]) /\ MetricsOf(states[s]) # NoMetrics
    BY <1>0, <1>4, FlushEntry
  <2>6. Follows(states[s], FlushScore(s)) /\ Follows(FlushScore(s), states'[s])
    BY <2>3, <2>5 DEF Follows
  <2> QED BY <1>0, <2>1, <2>2, <2>3, <2>4, <2>5, <2>6, SendFollows
<1>5. CASE Publish \/ PublishFailed
  BY <1>0, <1>5, PublishFollows
<1>6. CASE ExitAndRestart \/ Kill
  <2>1. /\ scores' = <<>> /\ redis' = redis
        /\ orphans' = orphans \cup {s \in Subs : HasState(s) \/ redis[s] # NoRow}
    BY <1>6 DEF ExitAndRestart, Kill, Reset
  <2>2. \A s \in Subs \ orphans' : redis'[s] = NoRow
    BY <2>1
  <2> QED BY <2>1, <2>2 DEF InSequence
<1>7. CASE \/ Tick \/ InputsEnd \/ FlushDone \/ AggCancelled \/ Cancel \/ UNCHANGED vars
           \/ PublisherEnds \/ PublisherDone \/ \E k \in InsertKeys : Insert(k)
  <2>1. UNCHANGED <<states, redis, scores, orphans>>
    BY <1>7 DEF Tick, InputsEnd, FlushDone, AggCancelled, Cancel, vars, PublisherEnds,
                PublisherDone, Insert
  <2> QED BY <1>0, <2>1 DEF InSequence, HasState, Follows
<1> QED
  BY <1>1, <1>2, <1>3, <1>4, <1>5, <1>6, <1>7 DEF Next, AggStep, PubStep

(* Within the life of a process a row of the leaderboard never goes back   *)
(* from a verdict to unverified or to another verdict, or from metrics to  *)
(* none, however verdicts, flushes, sends and failures interleave: only a  *)
(* publish changes the row, and it follows the one it replaces.            *)
THEOREM RowsOnlyAdvance == Spec => RowNeverGoesBack
<1> DEFINE Advance ==
        \A s \in Subs \ orphans :
            (redis[s] # NoRow /\ redis'[s] # redis[s]) =>
                /\ redis[s].verdict # "unverified" => redis'[s].verdict = redis[s].verdict
                /\ redis[s].last # NoMetrics => redis'[s].last # NoMetrics
<1>1. OrderInv /\ [Next]_vars => OrderInv'
  BY BoardStep, SequenceStep DEF OrderInv
<1>2. OrderInv /\ [Next]_vars => [Advance]_vars
  <2> SUFFICES ASSUME OrderInv, [Next]_vars PROVE Advance
    OBVIOUS
  <2>1. CASE Publish \/ PublishFailed
    <3>1. InSequence /\ PubTypes
      BY DEF OrderInv, BoardInv
    <3> QED BY <2>1, <3>1, PublishFollows DEF Follows
  <2>2. CASE UNCHANGED redis
    BY <2>2
  <2>3. CASE ~(Publish \/ PublishFailed)
    <3>1. UNCHANGED redis
      BY <2>3 DEF Next, AggStep, PubStep, Tick, InputsEnd, FlushDone, AggCancelled, EmitVerdict,
                  FlushOne, PublisherEnds, PublisherDone, Insert, AddBatch, ApplyCorrectness, Cancel,
                  ExitAndRestart, Kill, vars, pubVars
    <3> QED BY <2>2, <3>1
  <2> QED BY <2>1, <2>3
<1> QED BY <1>1, <1>2, BoardInit, PTL DEF Spec, RowNeverGoesBack

-----------------------------------------------------------------------------
(* The counters of an entry are those of its batches, and the batches of a *)
(* window are told apart by their numbers.                                 *)
WindowInv ==
    /\ batches \in Nat /\ window \in [Subs -> SUBSET Numbered]
    /\ \A s \in Subs : HoldsBatches(State(s), window[s])
    /\ \A s \in Subs : \A r \in window[s] : r.n < batches

(* mergeHistogram adds the counts of every bucket, of those too that only  *)
(* one of the two histograms has.                                          *)
LEMMA MergedCounts ==
    ASSUME NEW a \in Seq(Nat), NEW b \in Seq(Nat), NEW i \in Nat
    PROVE  CountAt(MergeHistogram(a, b), i + 1) = CountAt(a, i + 1) + CountAt(b, i + 1)
<1>0. PICK l \in Nat, k \in Nat : l = Len(a) /\ k = Len(b) /\ DOMAIN a = 1..l /\ DOMAIN b = 1..k
  OBVIOUS
<1>1. PICK m \in Nat : m = Max({l, k}) /\ l <= m /\ k <= m
  <2>1. \E x \in {l, k} : \A y \in {l, k} : x >= y
    OBVIOUS
  <2> QED BY <2>1 DEF Max
<1>2. MergeHistogram(a, b) = [j \in 1..m |-> CountAt(a, j) + CountAt(b, j)]
  BY <1>0, <1>1 DEF MergeHistogram
<1>3. CASE i + 1 \in 1..m
  BY <1>2, <1>3 DEF CountAt
<1>4. CASE i + 1 \notin 1..m
  <2>1. i + 1 \notin 1..l /\ i + 1 \notin 1..k
    BY <1>1, <1>4
  <2>2. CountAt(a, i + 1) = 0 /\ CountAt(b, i + 1) = 0
    BY <1>0, <2>1 DEF CountAt
  <2>3. CountAt(MergeHistogram(a, b), i + 1) = 0
    BY <1>2, <1>4 DEF CountAt
  <2> QED BY <2>2, <2>3
<1> QED BY <1>3, <1>4

(* Only the counters of an entry say what it holds.                        *)
LEMMA SameCounters ==
    ASSUME NEW e, NEW f, NEW W, HoldsBatches(e, W), f.ok = e.ok, f.hist = e.hist
    PROVE  HoldsBatches(f, W)
BY DEF HoldsBatches

(* An entry with zeros holds no batch.                                     *)
LEMMA HoldsNothing ==
    ASSUME NEW e, e.ok = 0, \A i \in DOMAIN e.hist : e.hist[i] = 0
    PROVE  HoldsBatches(e, {})
<1>1. \A g : SumFunctionOnSet(g, {}) = 0
  BY FS_EmptySet, SumOfZeros
<1>2. /\ SumFunction(OkIn({})) = 0
      /\ \A i : SumFunction(CountIn({}, i)) = 0
  BY <1>1, SumsIn
<1>3. \A i : CountAt(e.hist, i) = 0
  BY DEF CountAt
<1> QED BY <1>2, <1>3, FS_EmptySet DEF HoldsBatches

(* What one batch adds to the sums of a window.                            *)
LEMMA SumsGrow ==
    ASSUME NEW W, NEW U, NEW x, U = W \cup {x}, x \notin W, IsFiniteSet(U), U \subseteq Numbered
    PROVE  /\ SumFunction(OkIn(U)) = SumFunction(OkIn(W)) + x.b.ok
           /\ \A i \in Nat : SumFunction(CountIn(U, i + 1))
                               = SumFunction(CountIn(W, i + 1)) + CountAt(x.b.hist, i + 1)
<1>1. SumFunctionOnSet(OkIn(U), U) = SumFunctionOnSet(OkIn(W), W) + OkIn(U)[x]
  <2>1. Counts(OkIn(U), U)
    BY InTypes
  <2>2. OneMore(OkIn(W), W, OkIn(U), U, x)
    BY <2>1 DEF OneMore, Agree, OkIn
  <2> QED BY <2>2, SumWith
<1>2. ASSUME NEW i \in Nat, NEW n, n = i + 1
      PROVE  SumFunctionOnSet(CountIn(U, n), U) = SumFunctionOnSet(CountIn(W, n), W) + CountIn(U, n)[x]
  <2>1. Counts(CountIn(U, n), U)
    BY <1>2, InTypes
  <2>2. OneMore(CountIn(W, n), W, CountIn(U, n), U, x)
    BY <2>1 DEF OneMore, Agree, CountIn
  <2> QED BY <2>2, SumWith
<1>3. OkIn(U)[x] = x.b.ok /\ \A n : CountIn(U, n)[x] = CountAt(x.b.hist, n)
  BY DEF OkIn, CountIn
<1> QED BY <1>1, <1>2, <1>3, SumsIn

(* A batch that the entry did not hold is added once.                      *)
LEMMA BatchAdded ==
    ASSUME NEW e, e.ok \in Nat, e.hist \in Seq(Nat), NEW W, HoldsBatches(e, W),
           NEW x \in Numbered, x \notin W,
           NEW f, f.ok = e.ok + x.b.ok, f.hist = MergeHistogram(e.hist, x.b.hist)
    PROVE  HoldsBatches(f, W \cup {x})
<1>1. PICK U : U = W \cup {x}
  OBVIOUS
<1>2. IsFiniteSet(W) /\ IsFiniteSet(U) /\ W \subseteq Numbered /\ U \subseteq Numbered
  BY <1>1, FS_AddElement DEF HoldsBatches
<1>3. x \in U /\ x.b.hist \in Seq(Nat)
  BY <1>1 DEF Numbered
<1>4. SumFunction(OkIn(U)) = SumFunction(OkIn(W)) + x.b.ok
  BY <1>1, <1>2, SumsGrow DEF OkIn
<1>5. \A i \in Nat : SumFunction(CountIn(U, i + 1))
                       = SumFunction(CountIn(W, i + 1)) + CountAt(x.b.hist, i + 1)
  BY <1>1, <1>2, SumsGrow DEF CountIn
<1>6. \A i \in Nat : CountAt(f.hist, i + 1) = SumFunction(CountIn(U, i + 1))
  BY <1>3, <1>5, MergedCounts DEF HoldsBatches
<1>7. f.ok = SumFunction(OkIn(U))
  BY <1>4 DEF HoldsBatches
<1> QED BY <1>1, <1>2, <1>6, <1>7 DEF HoldsBatches

(* The service starts with empty windows.                                  *)
LEMMA WindowInit == Init => WindowInv
<1> SUFFICES ASSUME Init PROVE WindowInv
  OBVIOUS
<1>1. HoldsBatches(FreshState, {})
  BY HoldsNothing DEF FreshState
<1>2. \A s \in Subs : State(s) = FreshState /\ window[s] = {}
  BY DEF Init, State, HasState
<1> QED BY <1>1, <1>2 DEF Init, WindowInv

(* What is known of an entry before and after a step.                      *)
LEMMA EntryAfter ==
    ASSUME NEW s \in Subs
    PROVE  /\ states'[s] # NoState => State(s)' = states'[s]
           /\ states'[s] = states[s] => State(s)' = State(s)
           /\ states'[s] = NoState => State(s)' = FreshState
BY DEF State, HasState

(* Every step keeps the windows exact.                                     *)
LEMMA WindowStep == AggTypes /\ AboutToSend /\ WindowInv /\ [Next]_vars => WindowInv'
<1> SUFFICES ASSUME AggTypes, AboutToSend, WindowInv, [Next]_vars PROVE WindowInv'
  OBVIOUS
<1>0. /\ batches \in Nat /\ window \in [Subs -> SUBSET Numbered]
      /\ \A s \in Subs : HoldsBatches(State(s), window[s])
      /\ \A s \in Subs : \A r \in window[s] : r.n < batches
  BY DEF WindowInv
<1>1. ASSUME NEW s \in Subs, NEW b \in Batches, AddBatch(s, b)
      PROVE  WindowInv'
  <2>1. PICK x : x = [b |-> b, n |-> batches] /\ x.b = b /\ x.n = batches
    <3>1. [b |-> b, n |-> batches].b = b /\ [b |-> b, n |-> batches].n = batches
      OBVIOUS
    <3> QED BY <3>1, Zenon
  <2>2. x \in Numbered /\ x \notin window[s]
    BY <1>0, <2>1, ScoreboardBounds DEF Numbered
  <2>3. /\ batches' = batches + 1
        /\ \A t \in Subs \ {s} : window'[t] = window[t] /\ states'[t] = states[t]
        /\ window'[s] = window[s] \cup {x} /\ window' \in [Subs -> SUBSET Numbered]
    <3>1. window' = [window EXCEPT ![s] = window[s] \cup {x}]
      BY <1>1, <2>1 DEF AddBatch
    <3>2. batches' = batches + 1
      BY <1>1 DEF AddBatch
    <3>3. \A t \in Subs \ {s} : states'[t] = states[t]
      BY <1>1, AddBatchEntry
    <3> QED BY <1>0, <2>2, <3>1, <3>2, <3>3
  <2>4. HoldsBatches(State(s)', window'[s])
    <3>1. PICK e : e = State(s) /\ e \in Entries
      BY EntryTypes
    <3>2. states' = [states EXCEPT ![s] =
                        [e EXCEPT !.ok = @ + b.ok, !.hist = MergeHistogram(@, b.hist)]]
      BY <1>1, <3>1 DEF AddBatch
    <3>3. states'[s] = [e EXCEPT !.ok = @ + b.ok, !.hist = MergeHistogram(@, b.hist)]
      BY <3>2 DEF AggTypes
    <3>4. PICK f : f = states'[s] /\ f.ok = e.ok + x.b.ok /\ f.hist = MergeHistogram(e.hist, x.b.hist)
      BY <2>1, <3>1, <3>3 DEF Entries
    <3>5. HoldsBatches(f, window[s] \cup {x})
      <4>1. e.ok \in Nat /\ e.hist \in Seq(Nat) /\ HoldsBatches(e, window[s])
        BY <1>0, <3>1 DEF Entries
      <4> QED BY <2>2, <3>4, <4>1, BatchAdded
    <3>6. State(s)' = f
      BY <1>1, <3>4, AddBatchEntry, EntryAfter
    <3> QED BY <2>3, <3>5, <3>6
  <2>5. \A t \in Subs \ {s} : HoldsBatches(State(t)', window'[t])
    BY <1>0, <2>3, EntryAfter
  <2>6. \A t \in Subs : \A r \in window'[t] : r.n < batches'
    <3>1. \A t \in Subs : \A r \in window'[t] : r \in window[t] \/ r = x
      BY <2>3
    <3>2. \A t \in Subs : \A r \in window[t] : r.n \in Nat
      BY <1>0 DEF Numbered
    <3>3. \A k \in Nat : k < batches => k < batches + 1
      BY <1>0
    <3>4. \A t \in Subs : \A r \in window[t] : r.n < batches + 1
      BY <1>0, <3>2, <3>3
    <3>5. x.n < batches + 1
      BY <1>0, <2>1
    <3> QED BY <2>3, <3>1, <3>4, <3>5
  <2>7. \A t \in Subs : HoldsBatches(State(t)', window'[t])
    BY <2>4, <2>5
  <2> QED BY <1>0, <2>3, <2>6, <2>7 DEF WindowInv
<1>2. ASSUME NEW s \in Subs, NEW v \in Verdicts, ApplyCorrectness(s, v)
      PROVE  WindowInv'
  <2>1. UNCHANGED <<window, batches>> /\ \A t \in Subs \ {s} : states'[t] = states[t]
    BY <1>2, VerdictEntry DEF ApplyCorrectness, bounds
  <2>2. HoldsBatches(State(s)', window[s])
    <3>1. PICK e : e = State(s) /\ e \in Entries
      BY EntryTypes
    <3>2. states' = [states EXCEPT ![s] = [e EXCEPT !.verdict = v]]
      BY <1>2, <3>1 DEF ApplyCorrectness
    <3>3. states'[s].ok = e.ok /\ states'[s].hist = e.hist
      BY <3>1, <3>2 DEF Entries, AggTypes
    <3>4. State(s)' = states'[s]
      BY <1>2, VerdictEntry, EntryAfter
    <3> QED BY <1>0, <3>1, <3>3, <3>4, SameCounters
  <2>3. \A t \in Subs : HoldsBatches(State(t)', window[t])
    BY <1>0, <2>1, <2>2, EntryAfter
  <2> QED BY <1>0, <2>1, <2>3 DEF WindowInv
<1>3. ASSUME NEW s \in Subs, FlushOne(s)
      PROVE  WindowInv'
  <2>1. /\ UNCHANGED batches /\ \A t \in Subs \ {s} : states'[t] = states[t] /\ window'[t] = window[t]
        /\ window'[s] = {} /\ window' \in [Subs -> SUBSET Numbered]
    <3>1. \A t \in Subs \ {s} : states'[t] = states[t]
      BY <1>3, FlushEntry
    <3>2. window' = [window EXCEPT ![s] = {}] /\ UNCHANGED batches
      BY <1>3 DEF FlushOne, bounds
    <3> QED BY <1>0, <3>1, <3>2
  <2>2. HoldsBatches(State(s)', {})
    <3>1. states[s] \in Entries
      BY <1>3, EntryTypes DEF FlushOne, AboutToSend
    <3>2. states' = [states EXCEPT ![s] = NextWindow(states[s])]
      BY <1>3 DEF FlushOne
    <3>3. states'[s] = NextWindow(states[s])
      BY <3>2 DEF AggTypes
    <3>4. states'[s].ok = 0 /\ states'[s].hist = [i \in DOMAIN states[s].hist |-> 0]
      BY <3>1, <3>3 DEF Entries, NextWindow
    <3>5. PICK f : f = states'[s] /\ f.ok = 0 /\ \A i \in DOMAIN f.hist : f.hist[i] = 0
      BY <3>4
    <3>6. State(s)' = f
      BY <1>3, <3>5, FlushEntry, EntryAfter
    <3> QED BY <3>5, <3>6, HoldsNothing
  <2>3. \A t \in Subs : HoldsBatches(State(t)', window'[t])
    BY <1>0, <2>1, <2>2, EntryAfter
  <2>4. \A t \in Subs : \A r \in window'[t] : r.n < batches'
    BY <1>0, <2>1
  <2> QED BY <1>0, <2>1, <2>3, <2>4 DEF WindowInv
<1>4. CASE ExitAndRestart \/ Kill
  <2>1. /\ batches' = batches /\ window' = [s \in Subs |-> {}]
        /\ \A s \in Subs : states'[s] = NoState
    BY <1>4 DEF ExitAndRestart, Kill, Reset, bounds
  <2>2. HoldsBatches(FreshState, {})
    BY HoldsNothing DEF FreshState
  <2>3. \A t \in Subs : HoldsBatches(State(t)', window'[t])
    BY <2>1, <2>2, EntryAfter
  <2> QED BY <1>0, <2>1, <2>3 DEF WindowInv
<1>5. CASE UNCHANGED <<states, window, batches>>
  <2>1. \A t \in Subs : State(t)' = State(t)
    BY <1>5, EntryAfter
  <2> QED BY <1>0, <1>5, <2>1 DEF WindowInv
<1>6. CASE \/ Tick \/ InputsEnd \/ FlushDone \/ AggCancelled \/ \E s \in Subs : EmitVerdict(s)
           \/ PubStep \/ PublishFailed \/ Cancel \/ UNCHANGED vars
  <2>1. UNCHANGED <<states, window, batches>>
    BY <1>6 DEF Tick, InputsEnd, FlushDone, AggCancelled, EmitVerdict, PubStep, Publish, PublishFailed,
                PublisherEnds, PublisherDone, Insert, Cancel, vars, aggVars, bounds
  <2> QED BY <1>5, <2>1
<1>7. \A d \in Decisions : d.sub \in Subs /\ d.verdict \in Verdicts
  BY ScoreboardBounds DEF Verdicts
<1> QED BY <1>1, <1>2, <1>3, <1>4, <1>6, <1>7 DEF Next, AggStep

(* The observations of a window that WindowExact counts, in terms of the   *)
(* buckets of its batches.                                                 *)
LEMMA ObservedIs ==
    ASSUME NEW s \in Subs, NEW b
    PROVE  Observed(s, b) = SumFunction(UptoIn(window[s], b + 1))
BY DEF Observed, UptoIn, Upto

(* The window in memory is the batches received since the last flush, each *)
(* counted once, and the percentiles that a flush sends are exact, however *)
(* batches, verdicts, flushes, restarts and kills interleave.              *)
THEOREM WindowsExact == Spec => []WindowExact
<1> DEFINE Inv == AggTypes /\ AboutToSend /\ WindowInv
<1>1. Init => Inv
  BY BoardInit, WindowInit DEF OrderInv, BoardInv
<1>2. Inv /\ [Next]_vars => Inv'
  BY AggTypesStep, AboutToSendStep, WindowStep
<1>3. Inv => WindowExact
  <2> SUFFICES ASSUME Inv, NEW s \in Subs, HasState(s)
               PROVE  /\ states[s].ok = SumFunction([r \in window[s] |-> r.b.ok])
                      /\ \A p \in Percentiles :
                            LET b == PercentileBucketIndex(states[s].hist, p)
                                all == Observed(s, Len(states[s].hist) - 1)
                            IN  IF all = 0 THEN b = -1
                                ELSE /\ 100 * Observed(s, b) >= p * all
                                     /\ 100 * Observed(s, b - 1) < p * all
    BY DEF WindowExact
  <2>1. PICK e, W : e = states[s] /\ W = window[s] /\ HoldsBatches(e, W) /\ e.hist \in Seq(Nat)
    BY EntryTypes DEF WindowInv, Entries
  <2>2. e.ok = SumFunction([r \in W |-> r.b.ok])
    BY <2>1 DEF HoldsBatches, OkIn
  <2>3. PICK h \in Seq(Nat), l \in Nat : h = e.hist /\ l = Len(h)
    BY <2>1
  <2>4. \A i \in 0..l : Cumulative(h, i) = SumFunction(UptoIn(W, i))
    <3>1. \A i \in Nat : Upto(h, i) = SumFunction(UptoIn(W, i))
      BY <2>1, <2>3, UptoOfWindow
    <3>2. \A i \in Nat : i <= l => Upto(h, i) = Cumulative(h, i)
      BY <2>3, UptoStep
    <3> QED BY <3>1, <3>2
  <2>5. Observed(s, l - 1) = Sum(h)
    <3>1. (l - 1) + 1 = l /\ l \in 0..l
      OBVIOUS
    <3>2. Sum(h) = Cumulative(h, l)
      BY <2>3, CumulativeStep
    <3> QED BY <2>1, <2>4, <3>1, <3>2, ObservedIs
  <2>6. ASSUME NEW p \in Percentiles, NEW b, b = PercentileBucketIndex(h, p)
        PROVE  IF Sum(h) = 0 THEN b = -1
               ELSE 100 * Observed(s, b) >= p * Sum(h) /\ 100 * Observed(s, b - 1) < p * Sum(h)
    <3>1. CASE Sum(h) = 0
      BY <2>6, <3>1, PercentileExact
    <3>2. CASE Sum(h) # 0
      <4>1. /\ b \in 0..(l - 1)
            /\ 100 * Cumulative(h, b + 1) >= p * Sum(h)
            /\ 100 * Cumulative(h, b) < p * Sum(h)
        BY <2>3, <2>6, <3>2, PercentileExact
      <4>2. b + 1 \in 0..l /\ b \in 0..l /\ (b - 1) + 1 = b
        BY <4>1
      <4>3. Observed(s, b) = Cumulative(h, b + 1) /\ Observed(s, b - 1) = Cumulative(h, b)
        BY <2>1, <2>4, <4>2, ObservedIs
      <4> QED BY <3>2, <4>1, <4>3
    <3> QED BY <3>1, <3>2
  <2> QED BY <2>1, <2>2, <2>3, <2>5, <2>6
<1> QED BY <1>1, <1>2, <1>3, PTL DEF Spec

=============================================================================

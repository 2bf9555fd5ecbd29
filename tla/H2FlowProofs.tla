---------------------------- MODULE H2FlowProofs ----------------------------
(***************************************************************************)
(* What the arithmetic of flow.go does, for words of any size; and what    *)
(* sums of tokens over streams or frames are, which the library defines by *)
(* a fold.                                                                 *)
(***************************************************************************)
EXTENDS H2Flow, Functions, FiniteSetTheorems, WellFoundedInduction, TLAPS

(* outflow.Refund refuses exactly the sums that do not fit into an int32,  *)
(* of windows of either sign and increments of either sign: the test       *)
(* flow.go calls smart overflow detection.                                 *)
THEOREM RefundDetectsOverflow ==
  ASSUME NEW n \in Int32, NEW sz \in Uint
  PROVE  CanRefund(n, sz) <=> n + Signed(sz) \in Int32
BY FlowAssumption DEF CanRefund, Wrap, Signed, Int32, Uint

(* What Refund leaves: the exact sum, or the window as it was.             *)
LEMMA RefundExact ==
  ASSUME NEW n \in Int32, NEW sz \in Uint
  PROVE  /\ Refunded(n, sz) \in Int32
         /\ n + Signed(sz) \in Int32 => Refunded(n, sz) = n + Signed(sz)
         /\ n + Signed(sz) \notin Int32 => Refunded(n, sz) = n
BY FlowAssumption, RefundDetectsOverflow DEF Refunded, Wrap, Signed, Int32, Uint

(* The difference of two windows, as the uint32 that the SETTINGS handler  *)
(* refunds, stands for their signed difference.                            *)
LEMMA DeltaExact ==
  ASSUME NEW old \in 0..(Half - 1), NEW new \in 0..(Half - 1)
  PROVE  Delta(old, new) \in Uint /\ Signed(Delta(old, new)) = new - old
BY FlowAssumption DEF Delta, Signed, Uint

(* Pay gives the smaller of what is asked and what is there, and leaves the*)
(* rest, of a window that Available has found positive.                    *)
LEMMA PayExact ==
  ASSUME NEW n \in Int32, NEW sz \in Nat, Available(n)
  PROVE  /\ Paid(n, sz) \in 0..sz /\ Paid(n, sz) <= n
         /\ AfterPay(n, sz) = n - Paid(n, sz) /\ AfterPay(n, sz) \in 0..(Half - 1)
         /\ sz <= n => Paid(n, sz) = sz
         /\ Paid(n, sz) = 0 => sz = 0
BY FlowAssumption DEF Available, Paid, AfterPay, Unsigned, Signed, Wrap, Int32

(* inflow.Refund loses nothing: what it does not announce it keeps, and it *)
(* keeps less than is worth announcing.                                    *)
THEOREM RefundConserves ==
  ASSUME NEW in, in \in [remaining : Nat, queued : Nat], NEW sz \in Nat
  PROVE  /\ AfterRefund(in, sz).remaining = in.remaining + Increment(in, sz)
         /\ AfterRefund(in, sz).queued + Increment(in, sz) = in.queued + sz
         /\ AfterRefund(in, sz).queued \in 0..(InflowMinRefresh - 1)
BY FlowAssumption DEF AfterRefund, Increment

-----------------------------------------------------------------------------
(* Sums. Induction is over sets of numbers and of sets here: no operator   *)
(* has to be given to a theorem for it.                                    *)

(* Induction over the numbers, of a set rather than of a predicate.        *)
LEMMA InductionOnNat ==
  ASSUME NEW Good, 0 \in Good, \A n \in Nat : n \in Good => n + 1 \in Good
  PROVE  Nat \subseteq Good
<1> DEFINE Bad == Nat \ Good
<1>1. SUFFICES ASSUME Bad # {} PROVE FALSE
  OBVIOUS
<1> HIDE DEF Bad
<1>2. PICK n \in Bad : \A m \in Bad : ~ (<<m, n>> \in OpToRel(<, Nat))
  BY <1>1, NatLessThanWellFounded, WFMin DEF Bad
<1>3. \A m \in Bad : ~ (m < n)
  BY <1>2 DEF OpToRel, Bad
<1>4. n \in Nat /\ n # 0
  BY DEF Bad
<1>5. n - 1 \in Nat /\ n - 1 \notin Bad
  BY <1>3, <1>4
<1>6. (n - 1) + 1 \in Good
  BY <1>5 DEF Bad
<1> QED BY <1>4, <1>6 DEF Bad

(* The element that the library's folds take first.                        *)
First(S) == CHOOSE x \in S : TRUE

(* And over the subsets of a finite set.                                   *)
LEMMA InductionOnSet ==
  ASSUME NEW S, IsFiniteSet(S), NEW Good, {} \in Good,
         \A s \in SUBSET S : s # {} /\ s \ {First(s)} \in Good => s \in Good
  PROVE  SUBSET S \subseteq Good
<1> DEFINE Sizes == {n \in Nat : \A s \in SUBSET S : Cardinality(s) = n => s \in Good}
<1>c. \A s \in SUBSET S : IsFiniteSet(s) /\ Cardinality(s) \in Nat
  BY FS_Subset, FS_CardinalityType
<1>1. 0 \in Sizes
  BY <1>c, FS_EmptySet
<1>2. ASSUME NEW n \in Nat, n \in Sizes PROVE n + 1 \in Sizes
  <2>1. SUFFICES ASSUME NEW s \in SUBSET S, Cardinality(s) = n + 1 PROVE s \in Good
    OBVIOUS
  <2>2. s # {}
    BY <2>1, FS_EmptySet
  <2>3. First(s) \in s
    BY <2>2 DEF First
  <2>4. Cardinality(s \ {First(s)}) = Cardinality(s) - 1
    BY <2>3, <1>c, FS_RemoveElement
  <2>5. s \ {First(s)} \in Good
    BY <2>1, <2>4, <1>2
  <2> QED BY <2>2, <2>5
<1> HIDE DEF Sizes
<1>3. Nat \subseteq Sizes
  BY <1>1, <1>2, InductionOnNat
<1> QED BY <1>3, <1>c DEF Sizes

(* g holds the sums of f over the sets of D, each from a smaller one.      *)
Sums(f, D, g) == g = [s \in D |-> IF s = {} THEN 0 ELSE f[First(s)] + g[s \ {First(s)}]]

LEMMA SumChosen ==
  ASSUME NEW f, NEW S
  PROVE  SumFunctionOnSet(f, S) = (CHOOSE g : Sums(f, SUBSET S, g))[S]
BY DEF SumFunctionOnSet, FoldFunctionOnSet, MapThenFoldSet, Sums, First

LEMMA SumsExist ==
  ASSUME NEW f, NEW S, IsFiniteSet(S)
  PROVE  \E g : Sums(f, SUBSET S, g)
<1> DEFINE D(n) == {s \in SUBSET S : Cardinality(s) <= n}
           Sizes == {n \in Nat : \E g : Sums(f, D(n), g)}
<1>c. \A s \in SUBSET S : IsFiniteSet(s) /\ Cardinality(s) \in Nat /\ Cardinality(s) <= Cardinality(S)
  BY FS_Subset, FS_CardinalityType
<1>1. 0 \in Sizes
  <2>1. D(0) = {{}}
    BY <1>c, FS_EmptySet
  <2>2. Sums(f, D(0), [s \in D(0) |-> 0])
    BY <2>1 DEF Sums
  <2> QED BY <2>2
<1>2. ASSUME NEW n \in Nat, n \in Sizes PROVE n + 1 \in Sizes
  <2>1. PICK h : Sums(f, D(n), h)
    BY <1>2
  <2> DEFINE g == [s \in D(n + 1) |-> IF s = {} THEN 0 ELSE f[First(s)] + h[s \ {First(s)}]]
  <2>2. ASSUME NEW s \in D(n + 1), s # {}
        PROVE  s \ {First(s)} \in D(n) /\ s \ {First(s)} \in D(n + 1)
    <3>1. First(s) \in s
      BY <2>2 DEF First
    <3>2. Cardinality(s \ {First(s)}) = Cardinality(s) - 1
      BY <2>2, <3>1, <1>c, FS_RemoveElement
    <3> QED BY <3>2, <1>c, <2>2
  <2>3. ASSUME NEW s \in D(n) PROVE s \in D(n + 1) /\ g[s] = h[s]
    <3>1. s \in D(n + 1)
      BY <2>3, <1>c
    <3> QED BY <3>1, <2>1 DEF Sums
  <2>4. \A s \in D(n + 1) :
          g[s] = IF s = {} THEN 0 ELSE f[First(s)] + g[s \ {First(s)}]
    BY <2>2, <2>3
  <2>5. g = [s \in D(n + 1) |-> g[s]]
    OBVIOUS
  <2> HIDE DEF g, D
  <2>6. Sums(f, D(n + 1), g)
    BY <2>4, <2>5 DEF Sums
  <2> QED BY <2>6
<1> HIDE DEF Sizes
<1>3. Cardinality(S) \in Sizes
  BY <1>1, <1>2, <1>c, InductionOnNat
<1>4. D(Cardinality(S)) = SUBSET S
  BY <1>c
<1> QED BY <1>3, <1>4 DEF Sizes

LEMMA SumsAgree ==
  ASSUME NEW f, NEW S, IsFiniteSet(S), NEW U, S \subseteq U, NEW g, NEW h,
         Sums(f, SUBSET S, g), Sums(f, SUBSET U, h)
  PROVE  g[S] = h[S]
<1> DEFINE Good == {s \in SUBSET S : g[s] = h[s]}
<1>1. {} \in Good
  BY DEF Sums
<1>2. ASSUME NEW s \in SUBSET S, s # {}, s \ {First(s)} \in Good PROVE s \in Good
  <2>1. s \in SUBSET U
    OBVIOUS
  <2>2. g[s] = f[First(s)] + g[s \ {First(s)}]
    BY <1>2 DEF Sums
  <2>3. h[s] = f[First(s)] + h[s \ {First(s)}]
    BY <1>2, <2>1 DEF Sums
  <2> QED BY <1>2, <2>2, <2>3
<1> HIDE DEF Good
<1>3. SUBSET S \subseteq Good
  BY <1>1, <1>2, InductionOnSet
<1> QED BY <1>3 DEF Good

(* The sum of a function over a finite set, one element at a time.         *)
LEMMA SumFirst ==
  ASSUME NEW f, NEW S, IsFiniteSet(S)
  PROVE  /\ S = {} => SumFunctionOnSet(f, S) = 0
         /\ S # {} => SumFunctionOnSet(f, S) = f[First(S)] + SumFunctionOnSet(f, S \ {First(S)})
<1> DEFINE T == S \ {First(S)}
           g == CHOOSE x : Sums(f, SUBSET S, x)
           h == CHOOSE x : Sums(f, SUBSET T, x)
<1>1. IsFiniteSet(T) /\ T \subseteq S
  BY FS_Subset
<1>2. Sums(f, SUBSET S, g) /\ Sums(f, SUBSET T, h)
  BY <1>1, SumsExist
<1>3. SumFunctionOnSet(f, S) = g[S] /\ SumFunctionOnSet(f, T) = h[T]
  BY SumChosen
<1> HIDE DEF g, h
<1>5. g[S] = IF S = {} THEN 0 ELSE f[First(S)] + g[T]
  BY <1>2 DEF Sums
<1> HIDE DEF T
<1>4. h[T] = g[T]
  BY <1>1, <1>2, SumsAgree
<1> QED BY <1>3, <1>4, <1>5 DEF T

(* Sums depend on the values at the elements only, and those of natural    *)
(* numbers are natural numbers.                                            *)
LEMMA SumSame ==
  ASSUME NEW f, NEW g, NEW S, IsFiniteSet(S), \A x \in S : f[x] = g[x]
  PROVE  SumFunctionOnSet(f, S) = SumFunctionOnSet(g, S)
<1> DEFINE Good == {s \in SUBSET S : SumFunctionOnSet(f, s) = SumFunctionOnSet(g, s)}
<1>c. \A s \in SUBSET S : IsFiniteSet(s)
  BY FS_Subset
<1>1. {} \in Good
  BY <1>c, SumFirst
<1>2. ASSUME NEW s \in SUBSET S, s # {}, s \ {First(s)} \in Good PROVE s \in Good
  <2>1. First(s) \in s
    BY <1>2 DEF First
  <2>2. /\ SumFunctionOnSet(f, s) = f[First(s)] + SumFunctionOnSet(f, s \ {First(s)})
        /\ SumFunctionOnSet(g, s) = g[First(s)] + SumFunctionOnSet(g, s \ {First(s)})
    BY <1>2, <1>c, SumFirst
  <2> QED BY <1>2, <2>1, <2>2
<1> HIDE DEF Good
<1>3. SUBSET S \subseteq Good
  BY <1>1, <1>2, InductionOnSet
<1> QED BY <1>3 DEF Good

LEMMA SumNat ==
  ASSUME NEW f, NEW S, IsFiniteSet(S), \A x \in S : f[x] \in Nat
  PROVE  SumFunctionOnSet(f, S) \in Nat
<1> DEFINE Good == {s \in SUBSET S : SumFunctionOnSet(f, s) \in Nat}
<1>c. \A s \in SUBSET S : IsFiniteSet(s)
  BY FS_Subset
<1>1. {} \in Good
  <2>1. SumFunctionOnSet(f, {}) = 0
    BY <1>c, SumFirst
  <2> QED BY <2>1
<1>2. ASSUME NEW s \in SUBSET S, s # {}, s \ {First(s)} \in Good PROVE s \in Good
  <2>1. First(s) \in s
    BY <1>2 DEF First
  <2>2. SumFunctionOnSet(f, s) = f[First(s)] + SumFunctionOnSet(f, s \ {First(s)})
    BY <1>2, <1>c, SumFirst
  <2> QED BY <1>2, <2>1, <2>2
<1> HIDE DEF Good
<1>3. SUBSET S \subseteq Good
  BY <1>1, <1>2, InductionOnSet
<1> QED BY <1>3 DEF Good

(* A sum of nothing is nothing.                                            *)
LEMMA SumZero ==
  ASSUME NEW f, NEW S, IsFiniteSet(S), \A x \in S : f[x] = 0
  PROVE  SumFunctionOnSet(f, S) = 0
<1> DEFINE Good == {s \in SUBSET S : SumFunctionOnSet(f, s) = 0}
<1>c. \A s \in SUBSET S : IsFiniteSet(s)
  BY FS_Subset
<1>1. {} \in Good
  BY <1>c, SumFirst
<1>2. ASSUME NEW s \in SUBSET S, s # {}, s \ {First(s)} \in Good PROVE s \in Good
  <2>1. First(s) \in s
    BY <1>2 DEF First
  <2>2. SumFunctionOnSet(f, s) = f[First(s)] + SumFunctionOnSet(f, s \ {First(s)})
    BY <1>2, <1>c, SumFirst
  <2> QED BY <1>2, <2>1, <2>2
<1> HIDE DEF Good
<1>3. SUBSET S \subseteq Good
  BY <1>1, <1>2, InductionOnSet
<1> QED BY <1>3 DEF Good

(* Any element can be taken out of the sum.                                *)
LEMMA SumRemove ==
  ASSUME NEW f, NEW S, IsFiniteSet(S), \A x \in S : f[x] \in Nat, NEW x \in S
  PROVE  SumFunctionOnSet(f, S) = f[x] + SumFunctionOnSet(f, S \ {x})
<1> DEFINE Sum(s) == SumFunctionOnSet(f, s)
           Out(s) == \A y \in s : Sum(s) = f[y] + Sum(s \ {y})
           Sizes == {n \in Nat : \A s \in SUBSET S : Cardinality(s) = n => Out(s)}
<1>c. \A s \in SUBSET S : IsFiniteSet(s) /\ Cardinality(s) \in Nat /\ Sum(s) \in Nat
  BY FS_Subset, FS_CardinalityType, SumNat
<1>f. \A s \in SUBSET S : s # {} => First(s) \in s /\ Sum(s) = f[First(s)] + Sum(s \ {First(s)})
  BY <1>c, SumFirst DEF First
<1>1. 0 \in Sizes
  BY <1>c, FS_EmptySet
<1>2. ASSUME NEW n \in Nat, n \in Sizes PROVE n + 1 \in Sizes
  <2>1. SUFFICES ASSUME NEW s \in SUBSET S, Cardinality(s) = n + 1, NEW y \in s
                 PROVE  Sum(s) = f[y] + Sum(s \ {y})
    OBVIOUS
  <2> DEFINE z == First(s)
             t == s \ {y, z}
  <2>2. z \in s /\ Sum(s) = f[z] + Sum(s \ {z})
    BY <1>f
  <2>3. ASSUME NEW q \in s PROVE Out(s \ {q})
    <3>1. Cardinality(s \ {q}) = Cardinality(s) - 1
      BY <1>c, FS_RemoveElement
    <3> QED BY <2>1, <3>1, <1>2
  <2> HIDE DEF z, Sum, Sizes
  <2>4. CASE y # z
    <3>1. Sum(s \ {z}) = f[y] + Sum((s \ {z}) \ {y})
      BY <2>2, <2>3, <2>4
    <3>2. Sum(s \ {y}) = f[z] + Sum((s \ {y}) \ {z})
      BY <2>2, <2>3, <2>4
    <3>3. (s \ {z}) \ {y} = t /\ (s \ {y}) \ {z} = t
      OBVIOUS
    <3>4. f[y] \in Nat /\ f[z] \in Nat /\ Sum(t) \in Nat
      BY <1>c, <2>2
    <3> QED BY <2>2, <3>1, <3>2, <3>3, <3>4
  <2> QED BY <2>2, <2>4
<1> HIDE DEF Sizes, Out
<1>3. Nat \subseteq Sizes
  BY <1>1, <1>2, InductionOnNat
<1>4. Out(S)
  BY <1>3, <1>c DEF Sizes
<1> QED BY <1>4 DEF Out

(* One value changes, and the sum by as much.                              *)
LEMMA SumMoves ==
  ASSUME NEW f, NEW g, NEW S, IsFiniteSet(S), \A x \in S : f[x] \in Nat /\ g[x] \in Nat,
         NEW x \in S, \A y \in S : y # x => f[y] = g[y]
  PROVE  SumFunctionOnSet(g, S) = SumFunctionOnSet(f, S) - f[x] + g[x]
<1>1. IsFiniteSet(S \ {x})
  BY FS_Subset
<1>2. /\ SumFunctionOnSet(f, S) = f[x] + SumFunctionOnSet(f, S \ {x})
      /\ SumFunctionOnSet(g, S) = g[x] + SumFunctionOnSet(g, S \ {x})
  BY SumRemove
<1>3. SumFunctionOnSet(f, S \ {x}) = SumFunctionOnSet(g, S \ {x})
  BY <1>1, SumSame
<1>4. SumFunctionOnSet(f, S \ {x}) \in Nat
  BY <1>1, SumNat
<1> QED BY <1>2, <1>3, <1>4

(* Neither the sum nor what is left without one element is below zero.     *)
LEMMA SumElement ==
  ASSUME NEW f, IsFiniteSet(DOMAIN f), \A x \in DOMAIN f : f[x] \in Nat
  PROVE  SumFunction(f) \in Nat /\ \A x \in DOMAIN f : f[x] <= SumFunction(f)
<1>1. SumFunctionOnSet(f, DOMAIN f) \in Nat
  BY SumNat
<1>2. ASSUME NEW x \in DOMAIN f PROVE f[x] <= SumFunctionOnSet(f, DOMAIN f)
  <2>1. SumFunctionOnSet(f, DOMAIN f) = f[x] + SumFunctionOnSet(f, DOMAIN f \ {x})
    BY SumRemove
  <2>2. IsFiniteSet(DOMAIN f \ {x})
    BY FS_Subset
  <2>3. SumFunctionOnSet(f, DOMAIN f \ {x}) \in Nat
    BY <2>2, SumNat
  <2> QED BY <2>1, <2>3
<1> QED BY <1>1, <1>2 DEF SumFunction

(* The last element of a sequence.                                         *)
LEMMA SumLast ==
  ASSUME NEW n \in Nat, NEW f, \A i \in 1..(n + 1) : f[i] \in Nat
  PROVE  SumFunctionOnSet(f, 1..(n + 1)) = f[n + 1] + SumFunctionOnSet(f, 1..n)
<1> DEFINE T == 1..(n + 1)
           last == n + 1
<1>1. IsFiniteSet(T)
  BY FS_Interval
<1>2. T \ {last} = 1..n /\ last \in T
  OBVIOUS
<1>3. \A i \in T : f[i] \in Nat
  OBVIOUS
<1> HIDE DEF T, last
<1>4. SumFunctionOnSet(f, T) = f[last] + SumFunctionOnSet(f, T \ {last})
  BY <1>1, <1>2, <1>3, SumRemove
<1> QED BY <1>2, <1>4 DEF T, last

(* What a frame at the end of a queue adds.                                *)
LEMMA SumAppended ==
  ASSUME NEW n \in Nat, NEW f \in [1..n -> Nat], NEW g \in [1..(n + 1) -> Nat],
         \A i \in 1..n : g[i] = f[i]
  PROVE  SumFunction(g) = SumFunction(f) + g[n + 1]
<1>1. IsFiniteSet(1..n) /\ IsFiniteSet(1..(n + 1))
  BY FS_Interval
<1>2. /\ \A i \in 1..n : f[i] \in Nat
      /\ \A i \in 1..(n + 1) : g[i] \in Nat
      /\ DOMAIN f = 1..n /\ DOMAIN g = 1..(n + 1)
  OBVIOUS
<1>3. SumFunctionOnSet(g, 1..(n + 1)) = g[n + 1] + SumFunctionOnSet(g, 1..n)
  BY <1>2, SumLast
<1>4. SumFunctionOnSet(g, 1..n) = SumFunctionOnSet(f, 1..n)
  BY <1>1, SumSame
<1>5. SumFunctionOnSet(f, 1..n) \in Nat
  BY <1>1, <1>2, SumNat
<1> QED BY <1>2, <1>3, <1>4, <1>5 DEF SumFunction

(* What the frame at its head takes away.                                  *)
LEMMA SumTail ==
  ASSUME NEW n \in Nat, NEW f \in [1..(n + 1) -> Nat], NEW g \in [1..n -> Nat],
         \A i \in 1..n : g[i] = f[i + 1]
  PROVE  SumFunction(f) = f[1] + SumFunction(g)
<1> DEFINE Good == {m \in Nat : m <= n =>
                      SumFunctionOnSet(f, 1..(m + 1)) = f[1] + SumFunctionOnSet(g, 1..m)}
<1>f. \A m \in Nat : IsFiniteSet(1..m)
  BY FS_Interval
<1>v. /\ \A i \in 1..(n + 1) : f[i] \in Nat
      /\ \A i \in 1..n : g[i] \in Nat
      /\ DOMAIN f = 1..(n + 1) /\ DOMAIN g = 1..n
  OBVIOUS
<1>a. ASSUME NEW m \in Nat, m <= n
      PROVE  SumFunctionOnSet(f, 1..(m + 1)) = f[m + 1] + SumFunctionOnSet(f, 1..m)
  <2>1. \A i \in 1..(m + 1) : f[i] \in Nat
    BY <1>v, <1>a
  <2> QED BY <2>1, SumLast
<1>b. ASSUME NEW m \in Nat, m + 1 <= n
      PROVE  SumFunctionOnSet(g, 1..(m + 1)) = g[m + 1] + SumFunctionOnSet(g, 1..m)
  <2>1. \A i \in 1..(m + 1) : g[i] \in Nat
    BY <1>v, <1>b
  <2> QED BY <2>1, SumLast
<1>1. 0 \in Good
  <2>1. 1..0 = {} /\ IsFiniteSet(1..0)
    BY <1>f
  <2>2. SumFunctionOnSet(g, 1..0) = 0 /\ SumFunctionOnSet(f, 1..0) = 0
    BY <2>1, SumFirst
  <2>3. SumFunctionOnSet(f, 1..(0 + 1)) = f[0 + 1] + SumFunctionOnSet(f, 1..0)
    <3> HIDE DEF Good
    <3> QED BY ONLY 0 \in Nat, n \in Nat, 0 <= n, <1>a
  <2>4. f[1] \in Nat
    BY <1>v
  <2> QED BY <2>2, <2>3, <2>4
<1>2. ASSUME NEW m \in Nat, m \in Good PROVE m + 1 \in Good
  <2>1. SUFFICES ASSUME m + 1 <= n
                 PROVE  SumFunctionOnSet(f, 1..((m + 1) + 1)) = f[1] + SumFunctionOnSet(g, 1..(m + 1))
    OBVIOUS
  <2>2. SumFunctionOnSet(f, 1..((m + 1) + 1)) = f[(m + 1) + 1] + SumFunctionOnSet(f, 1..(m + 1))
    BY <1>a, <2>1
  <2>3. SumFunctionOnSet(g, 1..(m + 1)) = g[m + 1] + SumFunctionOnSet(g, 1..m)
    BY <1>b, <2>1
  <2>4. SumFunctionOnSet(f, 1..(m + 1)) = f[1] + SumFunctionOnSet(g, 1..m)
    BY <1>2, <2>1
  <2>5. m + 1 \in 1..n /\ g[m + 1] = f[(m + 1) + 1] /\ g[m + 1] \in Nat /\ f[1] \in Nat
    BY <1>v, <2>1
  <2>6. SumFunctionOnSet(g, 1..m) \in Nat
    <3>1. IsFiniteSet(1..m) /\ \A i \in 1..m : g[i] \in Nat
      BY <1>f, <1>v, <2>1
    <3> QED BY <3>1, SumNat
  <2> QED BY <2>2, <2>3, <2>4, <2>5, <2>6
<1> HIDE DEF Good
<1>3. n \in Good
  BY <1>1, <1>2, InductionOnNat
<1> QED BY <1>3, <1>v DEF Good, SumFunction
=============================================================================

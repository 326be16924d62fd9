----------------------------- MODULE LogProofs ------------------------------
(***************************************************************************)
(* Lemmas about the partition log: sums over batches, minima, sequence     *)
(* numbers modulo their range, and what an append makes of a log.          *)
(***************************************************************************)
EXTENDS PartitionLog, FiniteSetTheorems, WellFoundedInduction, TLAPS

----------------------------------------------------------------------------
(* Sums *)

\* Induction over a finite set: what holds of every subset whose proper subsets
\* it holds of, holds of the set.  The library's induction theorems have an
\* operator parameter; a set of sets P takes its place.
LEMMA FiniteInduction ==
  ASSUME NEW S, IsFiniteSet(S), NEW P, {} \in P,
         \A T \in SUBSET S : T # {} /\ (\A U \in SUBSET T : U # T => U \in P) => T \in P
  PROVE  S \in P
<1> DEFINE Bad == (SUBSET S) \ P
<1>1. SUFFICES Bad = {}
  OBVIOUS
<1>2. SUFFICES ASSUME Bad # {} PROVE FALSE
  OBVIOUS
<1>3. Bad \subseteq FiniteSubsetsOf(S)
  BY FS_FiniteSubsetsOfFinite
<1>4. PICK T \in Bad : \A U \in Bad : ~(<<U, T>> \in StrictSubsetOrdering(S))
  BY <1>2, <1>3, FS_StrictSubsetOrderingWellFounded, WFMin
<1>5. ASSUME NEW U \in SUBSET T, U # T
      PROVE  U \in P
  <2>1. U \in SUBSET S /\ <<U, T>> \in (SUBSET S) \X (SUBSET S)
    BY <1>4
  <2>2. <<U, T>> \in StrictSubsetOrdering(S)
    BY <1>5, <2>1 DEF StrictSubsetOrdering
  <2> QED
    BY <1>4, <2>1, <2>2
<1> QED
  BY <1>4, <1>5

\* The recursive function that the sum of the community modules is defined by.
Summation(fun, S, g) ==
  g = [s \in SUBSET S |-> IF s = {} THEN 0
                          ELSE fun[CHOOSE x \in s : TRUE] + g[s \ {CHOOSE x \in s : TRUE}]]

\* A sum is the value of that function, if there is one.
LEMMA SumIsSummation ==
  ASSUME NEW fun, NEW S
  PROVE  SumFunctionOnSet(fun, S) = (CHOOSE g : Summation(fun, S, g))[S]
BY DEF SumFunctionOnSet, FoldFunctionOnSet, MapThenFoldSet, Summation

\* Two such functions agree on the sets that both are defined on.
LEMMA SummationsAgree ==
  ASSUME NEW fun, NEW S, NEW g, Summation(fun, S, g), NEW R, NEW h, Summation(fun, R, h),
         NEW T, T \subseteq S, T \subseteq R, IsFiniteSet(T)
  PROVE  g[T] = h[T]
<1> DEFINE P == {U \in SUBSET T : g[U] = h[U]}
<1>1. {} \in P
  BY DEF Summation
<1>2. ASSUME NEW U \in SUBSET T, U # {}, \A V \in SUBSET U : V # U => V \in P
      PROVE  U \in P
  <2> DEFINE x == CHOOSE y \in U : TRUE
  <2>1. x \in U
    BY <1>2
  <2> HIDE DEF x
  <2>2. g[U \ {x}] = h[U \ {x}]
    BY <1>2, <2>1
  <2>3. g[U] = fun[x] + g[U \ {x}] /\ h[U] = fun[x] + h[U \ {x}]
    BY <1>2 DEF Summation, x
  <2> QED
    BY <2>2, <2>3
<1>3. T \in P
  <2> HIDE DEF P
  <2> QED
    BY <1>1, <1>2, FiniteInduction
<1> QED
  BY <1>3

\* There is such a function for every finite set, so that a sum may be unfolded.
LEMMA SumUnfolds ==
  ASSUME NEW fun, NEW S, IsFiniteSet(S)
  PROVE  /\ \E g : Summation(fun, S, g)
         /\ SumFunctionOnSet(fun, {}) = 0
         /\ S # {} => SumFunctionOnSet(fun, S) =
              fun[CHOOSE x \in S : TRUE] + SumFunctionOnSet(fun, S \ {CHOOSE x \in S : TRUE})
<1> DEFINE Sum(T) == SumFunctionOnSet(fun, T)
           P == {T \in SUBSET S :
                   /\ \E g : Summation(fun, T, g)
                   /\ T # {} => Sum(T) = fun[CHOOSE x \in T : TRUE]
                                           + Sum(T \ {CHOOSE x \in T : TRUE})}
<1>1. Sum({}) = 0 /\ {} \in P
  <2> DEFINE f == [s \in SUBSET {} |-> 0]
  <2>1. Summation(fun, {}, f)
    BY DEF Summation
  <2>2. Summation(fun, {}, CHOOSE g : Summation(fun, {}, g))
    BY <2>1
  <2>3. (CHOOSE g : Summation(fun, {}, g))[{}] = 0
    BY <2>2 DEF Summation
  <2> QED
    BY <2>1, <2>3, SumIsSummation
<1>2. ASSUME NEW T \in SUBSET S, T # {}, \A U \in SUBSET T : U # T => U \in P
      PROVE  T \in P
  <2> DEFINE x == CHOOSE y \in T : TRUE
             f == [s \in SUBSET T |-> IF s = T THEN fun[x] + Sum(T \ {x}) ELSE Sum(s)]
  <2>1. x \in T
    BY <1>2
  <2>2. Summation(fun, T, f)
    <3>1. ASSUME NEW s \in SUBSET T, s # {}
          PROVE  f[s] = fun[CHOOSE y \in s : TRUE] + f[s \ {CHOOSE y \in s : TRUE}]
      <4> DEFINE z == CHOOSE y \in s : TRUE
      <4>1. z \in s
        BY <3>1
      <4>2. s \ {z} # T /\ s \ {z} \in SUBSET T
        BY <4>1
      <4>3. f[s \ {z}] = Sum(s \ {z})
        <5> HIDE DEF z, Sum, x
        <5> QED
          BY <4>2
      <4>4. CASE s = T
        <5> HIDE DEF Sum
        <5> QED
          BY <4>3, <4>4
      <4>5. CASE s # T
        <5>1. s \in P
          BY <1>2, <4>5
        <5>2. Sum(s) = fun[z] + Sum(s \ {z})
          BY <5>1, <3>1
        <5>3. f[s] = Sum(s)
          <6> HIDE DEF Sum, x
          <6> QED
            BY <4>5
        <5> HIDE DEF f, Sum
        <5> QED
          BY <4>3, <5>2, <5>3
      <4> QED
        BY <4>4, <4>5
    <3>2. f[{}] = 0
      BY <1>1, <1>2
    <3>3. f = [s \in SUBSET T |-> f[s]]
      OBVIOUS
    <3> HIDE DEF f
    <3> QED
      BY <3>1, <3>2, <3>3 DEF Summation
  <2>3. Summation(fun, T, CHOOSE g : Summation(fun, T, g))
    BY <2>2
  <2> DEFINE g == CHOOSE e : Summation(fun, T, e)
             h == CHOOSE e : Summation(fun, T \ {x}, e)
  <2>4. Sum(T) = g[T] /\ Sum(T \ {x}) = h[T \ {x}]
    BY SumIsSummation
  <2>5. Summation(fun, T \ {x}, h)
    BY <1>2, <2>1
  <2>6. IsFiniteSet(T \ {x})
    BY FS_Subset
  <2>7. g[T \ {x}] = h[T \ {x}]
    <3> HIDE DEF g, h, x
    <3> QED
      BY <2>3, <2>5, <2>6, SummationsAgree DEF g
  <2>8. g[T] = fun[x] + g[T \ {x}]
    <3> HIDE DEF x
    <3>1. Summation(fun, T, g)
      BY <2>3
    <3> HIDE DEF g
    <3> QED
      BY <3>1, <1>2 DEF Summation, x
  <2>9. Sum(T) = fun[x] + Sum(T \ {x})
    <3> HIDE DEF g, h, Sum, x
    <3> QED
      BY <2>4, <2>7, <2>8
  <2> QED
    BY <2>2, <2>9
<1>3. S \in P
  <2> HIDE DEF P
  <2> QED
    BY <1>1, <1>2, FiniteInduction
<1> QED
  BY <1>1, <1>3

\* A sum of naturals is one.
LEMMA SumIsNatural ==
  ASSUME NEW S, IsFiniteSet(S), NEW fun, \A x \in S : fun[x] \in Nat
  PROVE  SumFunctionOnSet(fun, S) \in Nat
<1> DEFINE P == {T \in SUBSET S : SumFunctionOnSet(fun, T) \in Nat}
<1>1. {} \in P
  <2>1. SumFunctionOnSet(fun, {}) = 0
    BY SumUnfolds, FS_EmptySet
  <2> QED
    BY <2>1
<1>2. ASSUME NEW T \in SUBSET S, T # {}, \A U \in SUBSET T : U # T => U \in P
      PROVE  T \in P
  <2> DEFINE x == CHOOSE y \in T : TRUE
  <2>1. x \in T
    BY <1>2
  <2>2. IsFiniteSet(T)
    BY FS_Subset
  <2>3. SumFunctionOnSet(fun, T) = fun[x] + SumFunctionOnSet(fun, T \ {x})
    BY <1>2, <2>2, SumUnfolds
  <2> HIDE DEF x
  <2> QED
    BY <1>2, <2>1, <2>3
<1>3. S \in P
  <2> HIDE DEF P
  <2> QED
    BY <1>1, <1>2, FiniteInduction
<1> QED
  BY <1>3

\* Any element may be taken out of a sum, not only the one chosen.
LEMMA SumRemoves ==
  ASSUME NEW S, IsFiniteSet(S), NEW fun, \A x \in S : fun[x] \in Nat, NEW a \in S
  PROVE  SumFunctionOnSet(fun, S) = fun[a] + SumFunctionOnSet(fun, S \ {a})
<1> DEFINE Sum(T) == SumFunctionOnSet(fun, T)
           P == {T \in SUBSET S : \A y \in T : Sum(T) = fun[y] + Sum(T \ {y})}
<1>0. ASSUME NEW T \in SUBSET S
      PROVE  IsFiniteSet(T) /\ Sum(T) \in Nat
  BY FS_Subset, SumIsNatural
<1>1. {} \in P
  OBVIOUS
<1>2. ASSUME NEW T \in SUBSET S, T # {}, \A U \in SUBSET T : U # T => U \in P
      PROVE  T \in P
  <2> DEFINE x == CHOOSE y \in T : TRUE
  <2>1. x \in T
    BY <1>2
  <2>2. Sum(T) = fun[x] + Sum(T \ {x})
    BY <1>0, <1>2, SumUnfolds
  <2> HIDE DEF x, Sum
  <2>3. ASSUME NEW y \in T, y # x
        PROVE  Sum(T) = fun[y] + Sum(T \ {y})
    <3>1. Sum(T \ {x}) = fun[y] + Sum((T \ {x}) \ {y})
      BY <1>2, <2>1, <2>3
    <3>2. Sum(T \ {y}) = fun[x] + Sum((T \ {y}) \ {x})
      BY <1>2, <2>1, <2>3
    <3>3. (T \ {x}) \ {y} = (T \ {y}) \ {x}
      OBVIOUS
    <3>4. Sum((T \ {y}) \ {x}) \in Nat /\ fun[x] \in Nat /\ fun[y] \in Nat
      BY <1>0, <2>1
    <3>5. PICK rest \in Nat : rest = Sum((T \ {y}) \ {x})
      BY <3>4
    <3>6. Sum(T \ {x}) = fun[y] + rest /\ Sum(T \ {y}) = fun[x] + rest
      BY <3>1, <3>2, <3>3, <3>5
    <3>7. fun[x] + (fun[y] + rest) = fun[y] + (fun[x] + rest)
      BY <3>4, <3>5
    <3> QED
      BY <2>2, <3>6, <3>7
  <2> QED
    BY <2>2, <2>3
<1>3. S \in P
  <2> HIDE DEF P
  <2> QED
    BY <1>1, <1>2, FiniteInduction
<1> QED
  BY <1>3

\* A sum depends on the values summed only.
LEMMA SumDependsOnValues ==
  ASSUME NEW S, IsFiniteSet(S), NEW f, NEW g, \A x \in S : f[x] = g[x]
  PROVE  SumFunctionOnSet(f, S) = SumFunctionOnSet(g, S)
<1> DEFINE P == {T \in SUBSET S : SumFunctionOnSet(f, T) = SumFunctionOnSet(g, T)}
<1>1. {} \in P
  BY SumUnfolds, FS_EmptySet
<1>2. ASSUME NEW T \in SUBSET S, T # {}, \A U \in SUBSET T : U # T => U \in P
      PROVE  T \in P
  <2> DEFINE x == CHOOSE y \in T : TRUE
  <2>1. x \in T
    BY <1>2
  <2>2. IsFiniteSet(T)
    BY FS_Subset
  <2>3. /\ SumFunctionOnSet(f, T) = f[x] + SumFunctionOnSet(f, T \ {x})
        /\ SumFunctionOnSet(g, T) = g[x] + SumFunctionOnSet(g, T \ {x})
    BY <1>2, <2>2, SumUnfolds
  <2> HIDE DEF x
  <2> QED
    BY <1>2, <2>1, <2>3
<1>3. S \in P
  <2> HIDE DEF P
  <2> QED
    BY <1>1, <1>2, FiniteInduction
<1> QED
  BY <1>3

\* A sum over a prefix of a sequence grows by its last element.
LEMMA SumOfPrefix ==
  ASSUME NEW n \in Nat, NEW fun, \A i \in 1..n : fun[i] \in Nat
  PROVE  /\ SumFunctionOnSet(fun, 1..0) = 0
         /\ SumFunctionOnSet(fun, 1..n) \in Nat
         /\ n > 0 => SumFunctionOnSet(fun, 1..n) = SumFunctionOnSet(fun, 1..(n - 1)) + fun[n]
<1>1. IsFiniteSet(1..n) /\ 1..0 = {}
  BY FS_Interval
<1>2. n > 0 => n \in 1..n /\ (1..n) \ {n} = 1..(n - 1)
  OBVIOUS
<1>3. SumFunctionOnSet(fun, 1..n) \in Nat /\ SumFunctionOnSet(fun, {}) = 0
  BY <1>1, SumIsNatural, SumUnfolds
<1>4. n > 0 => SumFunctionOnSet(fun, 1..(n - 1)) \in Nat
  <2>1. ASSUME n > 0
        PROVE  IsFiniteSet(1..(n - 1)) /\ \A i \in 1..(n - 1) : fun[i] \in Nat
    BY <2>1, FS_Interval
  <2> QED
    BY <2>1, SumIsNatural
<1>5. n > 0 => SumFunctionOnSet(fun, 1..n) = fun[n] + SumFunctionOnSet(fun, 1..(n - 1))
  BY <1>1, <1>2, SumRemoves
<1> QED
  BY <1>1, <1>3, <1>4, <1>5

----------------------------------------------------------------------------
(* Minima, maxima and induction over the naturals *)

\* A non-empty set of naturals has a minimum, and Min returns it: `position`
\* in partition.rs finds the first batch that qualifies.
LEMMA MinOfNaturals ==
  ASSUME NEW S, S \subseteq Nat, S # {}
  PROVE  Min(S) \in S /\ \A y \in S : Min(S) <= y
<1>1. PICK x \in S : \A y \in S : ~(<<y, x>> \in OpToRel(<, Nat))
  BY NatLessThanWellFounded, WFMin
<1>2. ASSUME NEW y \in S PROVE x <= y
  <2>1. y < x => <<y, x>> \in {ss \in Nat \X Nat : ss[1] < ss[2]}
    OBVIOUS
  <2>2. QED
    BY <1>1, <2>1 DEF OpToRel
<1>3. QED
  BY <1>2 DEF Min

\* A non-empty bounded set of naturals has a maximum, and Max returns it.
LEMMA MaxOfBounded ==
  ASSUME NEW n \in Nat, NEW S, S \subseteq 0..n, S # {}
  PROVE  Max(S) \in S /\ \A y \in S : Max(S) >= y
<1> DEFINE T == {n - x : x \in S}
<1>1. T \subseteq Nat /\ T # {}
  <2>1. \A x \in S : n - x \in Nat
    OBVIOUS
  <2> QED
    BY <2>1
<1>2. Min(T) \in T /\ \A y \in T : Min(T) <= y
  <2> HIDE DEF T
  <2> QED
    BY <1>1, MinOfNaturals
<1>3. PICK x \in S : Min(T) = n - x
  BY <1>2
<1>4. ASSUME NEW y \in S PROVE x >= y
  <2>1. n - y \in T
    OBVIOUS
  <2>2. n - x <= n - y
    BY <1>2, <1>3, <2>1
  <2> QED
    BY <2>2
<1> QED
  BY <1>3, <1>4 DEF Max

\* Induction over the naturals, with a set in the place of a predicate.
LEMMA InductionOverNat ==
  ASSUME NEW P, 0 \in P, \A n \in Nat : n \in P => n + 1 \in P
  PROVE  Nat \subseteq P
<1> DEFINE Bad == Nat \ P
<1>1. SUFFICES ASSUME Bad # {} PROVE FALSE
  OBVIOUS
<1>2. Min(Bad) \in Bad /\ \A y \in Bad : Min(Bad) <= y
  BY <1>1, MinOfNaturals
<1> DEFINE m == Min(Bad)
<1>3. m \in Nat /\ m \notin P
  BY <1>2
<1> HIDE DEF m
<1>4. m - 1 \in Nat /\ m - 1 \notin Bad
  BY <1>2, <1>3 DEF m
<1> QED
  BY <1>3, <1>4

\* The larger and the smaller of two numbers.
LEMMA OfTwo ==
  ASSUME NEW a \in Int, NEW b \in Int
  PROVE  /\ Max({a, b}) = IF a > b THEN a ELSE b
         /\ Min({a, b}) = IF a < b THEN a ELSE b
<1>1. \E x \in {a, b} : \A y \in {a, b} : x >= y
  OBVIOUS
<1>2. \E x \in {a, b} : \A y \in {a, b} : x <= y
  OBVIOUS
<1> QED
  BY <1>1, <1>2 DEF Max, Min

----------------------------------------------------------------------------
(* Remainders *)

\* Quotient and remainder.
LEMMA Division ==
  ASSUME NEW M \in Int, M > 0, NEW x \in Int
  PROVE  \E q \in Int : \E r \in 0..(M - 1) : x = M * q + r /\ x % M = r
<1>1. x % M \in 0..(M - 1)
  OBVIOUS
<1>2. x \div M \in Int
  OBVIOUS
<1>3. x = M * (x \div M) + (x % M)
  OBVIOUS
<1> QED
  BY <1>1, <1>2, <1>3

\* The remainder is the only number below the modulus that fits.
LEMMA Remainder ==
  ASSUME NEW M \in Int, M > 0, NEW q \in Int, NEW r \in 0..(M - 1)
  PROVE  (M * q + r) % M = r
OBVIOUS

\* A number below the modulus is its own remainder.
LEMMA SmallRemainder ==
  ASSUME NEW M \in Int, M > 0, NEW r \in 0..(M - 1)
  PROVE  r % M = r
<1>1. M * 0 + r = r
  OBVIOUS
<1> QED
  BY <1>1, Remainder

\* What next_sequence adds to may be reduced before or after.
LEMMA RemainderOfSum ==
  ASSUME NEW M \in Int, M > 0, NEW a \in Int, NEW b \in Int
  PROVE  ((a % M) + b) % M = (a + b) % M
<1>1. PICK p \in Int, r \in 0..(M - 1) : a = M * p + r /\ a % M = r
  BY Division
<1>2. PICK q \in Int, s \in 0..(M - 1) : r + b = M * q + s /\ (r + b) % M = s
  BY Division
<1>3. a + b = M * (p + q) + s /\ p + q \in Int
  BY <1>1, <1>2
<1>4. (a + b) % M = s
  BY <1>3, Remainder
<1> QED
  BY <1>1, <1>2, <1>4

\* Numbers less than a turn apart have different remainders: sequence numbers
\* that close together are not mistaken for each other.
LEMMA RemaindersDiffer ==
  ASSUME NEW M \in Int, M > 0, NEW a \in Int, NEW b \in Int, a < b, b - a < M
  PROVE  a % M # b % M
<1>1. PICK p \in Int, r \in 0..(M - 1) : a = M * p + r /\ a % M = r
  BY Division
<1>2. PICK q \in Int, s \in 0..(M - 1) : b = M * q + s /\ b % M = s
  BY Division
<1>3. SUFFICES ASSUME r = s PROVE FALSE
  BY <1>1, <1>2
<1>4. M * (q - p) = b - a /\ q - p \in Int
  BY <1>1, <1>2, <1>3
<1>5. q - p >= 1 => M * (q - p) >= M
  OBVIOUS
<1>6. q - p <= 0 => M * (q - p) <= 0
  OBVIOUS
<1> QED
  BY <1>4, <1>5, <1>6

\* The distance of two sequence numbers less than a turn apart, as
\* classify_sequence_mismatch takes it.
LEMMA RemainderOfDifference ==
  ASSUME NEW M \in Int, M > 0, NEW a \in Int, NEW b \in Int, a >= b, a - b < M
  PROVE  ((a % M) - (b % M)) % M = a - b
<1>1. PICK p \in Int, r \in 0..(M - 1) : a = M * p + r /\ a % M = r
  BY Division
<1>2. PICK q \in Int, s \in 0..(M - 1) : b = M * q + s /\ b % M = s
  BY Division
<1>3. r - s = M * (q - p) + (a - b) /\ q - p \in Int /\ a - b \in 0..(M - 1)
  BY <1>1, <1>2
<1>4. (M * (q - p) + (a - b)) % M = a - b
  BY <1>3, Remainder
<1> QED
  BY <1>1, <1>2, <1>3, <1>4

----------------------------------------------------------------------------
(* The partition log *)

\* The elements of a concatenation.
LEMMA ConcatElements ==
  ASSUME NEW s, s \in Seq(Range(s)), NEW t, t \in Seq(Range(t))
  PROVE  /\ s \o t \in Seq(Range(s) \cup Range(t))
         /\ Len(s \o t) = Len(s) + Len(t)
         /\ DOMAIN (s \o t) = 1..(Len(s) + Len(t))
         /\ \A i \in 1..Len(s) : (s \o t)[i] = s[i]
         /\ \A i \in (Len(s) + 1)..(Len(s) + Len(t)) : (s \o t)[i] = t[i - Len(s)]
<1> DEFINE R == Range(s) \cup Range(t)
<1>1. s \in Seq(R) /\ t \in Seq(R)
  OBVIOUS
<1> HIDE DEF R
<1>2. s \o t \in Seq(R) /\ Len(s \o t) = Len(s) + Len(t)
  BY <1>1
<1> QED
  BY <1>1, <1>2 DEF R

\* The elements after an append to a sequence.
LEMMA AppendElements ==
  ASSUME NEW s, s \in Seq(Range(s)), NEW e
  PROVE  /\ Append(s, e) \in Seq(Range(Append(s, e)))
         /\ Range(Append(s, e)) = Range(s) \cup {e}
         /\ Len(Append(s, e)) = Len(s) + 1
         /\ Append(s, e)[Len(s) + 1] = e
         /\ \A i \in 1..Len(s) : Append(s, e)[i] = s[i]
<1> DEFINE R == Range(s) \cup {e}
           t == Append(s, e)
<1>1. s \in Seq(R) /\ e \in R /\ Len(s) \in Nat
  OBVIOUS
<1> HIDE DEF R
<1>2. t \in Seq(R) /\ Len(t) = Len(s) + 1 /\ DOMAIN t = 1..(Len(s) + 1) /\ DOMAIN s = 1..Len(s)
      /\ t[Len(s) + 1] = e /\ \A i \in 1..Len(s) : t[i] = s[i]
  BY <1>1
<1> HIDE DEF t
<1>4. \A i \in 1..(Len(s) + 1) : i \in 1..Len(s) \/ i = Len(s) + 1
  BY <1>1
<1>5. \A i \in 1..Len(s) : i \in 1..(Len(s) + 1)
  BY <1>1
<1>6. Len(s) + 1 \in 1..(Len(s) + 1)
  BY <1>1
<1>7. Range(t) = R
  BY <1>2, <1>4, <1>5, <1>6 DEF Range, R
<1> QED
  BY <1>2, <1>7 DEF R, t

\* The records before a batch are those before the one before it and its own.
LEMMA RecordsBeforeStep ==
  ASSUME NEW records, records \in Seq(Range(records)),
         \A i \in DOMAIN records : records[i].count \in Nat,
         NEW i \in DOMAIN records
  PROVE  /\ RecordsBefore(records, 1) = 0
         /\ RecordsBefore(records, i) \in Nat
         /\ RecordsBefore(records, i + 1) = RecordsBefore(records, i) + records[i].count
<1> DEFINE f == [j \in DOMAIN records |-> records[j].count]
<1>1. i \in 1..Len(records) /\ DOMAIN records = 1..Len(records) /\ Len(records) \in Nat
  OBVIOUS
<1>2. \A j \in 1..Len(records) : f[j] = records[j].count /\ f[j] \in Nat
  BY <1>1
<1> HIDE DEF f
<1>3. /\ SumFunctionOnSet(f, 1..0) = 0
      /\ SumFunctionOnSet(f, 1..i) = SumFunctionOnSet(f, 1..(i - 1)) + f[i]
  BY <1>1, <1>2, SumOfPrefix
<1>4. SumFunctionOnSet(f, 1..(i - 1)) \in Nat
  <2>1. i - 1 \in Nat /\ \A j \in 1..(i - 1) : f[j] \in Nat
    BY <1>1, <1>2
  <2> QED
    BY <2>1, SumOfPrefix
<1>5. (i + 1) - 1 = i /\ 1 - 1 = 0
  BY <1>1
<1> QED
  BY <1>1, <1>2, <1>3, <1>4, <1>5 DEF RecordsBefore, f

\* The types of a log that the offsets depend on.
IsLog(l) ==
  /\ l.next_offset \in Nat
  /\ l.batches \in Seq(Range(l.batches))
  /\ \A i \in DOMAIN l.batches :
       /\ l.batches[i].base_offset \in Nat
       /\ l.batches[i].last_offset \in Nat
       /\ l.batches[i].size \in Nat \ {0}

\* A record set that passes validate_record_set has batches, all of them sound
\* and of one producer.
LEMMA ValidSets ==
  ASSUME NEW records, RecordSet(records), ValidateRecordSet(records) = "None"
  PROVE  /\ records \in Seq(Range(records)) /\ Len(records) \in Nat \ {0}
         /\ DOMAIN records = 1..Len(records)
         /\ \A i \in DOMAIN records :
              /\ BatchError(records[i]) = "None"
              /\ records[i].count \in Nat \ {0} /\ records[i].size \in Nat \ {0}
         /\ OneProducer(records)
         /\ RecordCount(records) \in Nat \ {0}
<1> DEFINE bad == {i \in DOMAIN records : BatchError(records[i]) # "None"}
<1>1. records \in Seq(Range(records)) /\ records # <<>>
  BY DEF RecordSet, ValidateRecordSet
<1>2. DOMAIN records = 1..Len(records) /\ Len(records) \in Nat \ {0}
  BY <1>1
<1>3. bad = {}
  <2>1. SUFFICES ASSUME bad # {} PROVE FALSE
    OBVIOUS
  <2>2. bad \subseteq Nat
    BY <1>2
  <2>3. Min(bad) \in bad
    <3> HIDE DEF bad
    <3> QED
      BY <2>1, <2>2, MinOfNaturals
  <2> QED
    BY <2>1, <2>3, <1>1 DEF ValidateRecordSet
<1>4. OneProducer(records)
  BY <1>1, <1>3 DEF ValidateRecordSet
<1>5. \A i \in DOMAIN records :
        /\ BatchError(records[i]) = "None"
        /\ records[i].count \in Nat \ {0} /\ records[i].size \in Nat \ {0}
  BY <1>3 DEF RecordSet
<1>6. RecordCount(records) \in Nat \ {0}
  <2>1. Len(records) \in DOMAIN records
    BY <1>2
  <2>2. /\ RecordsBefore(records, Len(records)) \in Nat
        /\ RecordsBefore(records, Len(records) + 1)
             = RecordsBefore(records, Len(records)) + records[Len(records)].count
    BY <1>1, <1>5, <2>1, RecordsBeforeStep
  <2> QED
    BY <1>5, <2>1, <2>2 DEF RecordCount
<1> QED
  BY <1>1, <1>2, <1>4, <1>5, <1>6

\* What append does when it refuses nothing.
Accepted(l, records) ==
  /\ ValidateRecordSet(records) = "None"
  /\ RecordCount(records) < SequenceModulus
  /\ ~WrongEpoch(l, records)
  /\ Retries(l, records) = {}
  /\ SequenceError(l, records) = "None"
  /\ l.next_offset + RecordCount(records) <= MaxOffset

\* Append either leaves the log alone, or it passed every check and the log has
\* grown by the record set.
LEMMA AppendOutcome ==
  ASSUME NEW l, l.next_offset \in Nat, NEW records, RecordSet(records)
  PROVE  IF Accepted(l, records)
         THEN AppendRecords(l, records)
                = [log |-> Grown(l, records), reply |-> AppendResult(l, records)]
         ELSE AppendRecords(l, records).log = l
<1>1. ValidateRecordSet(records) = "None" => RecordCount(records) \in Nat
  BY ValidSets
<1>2. CASE ValidateRecordSet(records) # "None"
  BY <1>2 DEF Accepted, AppendRecords
<1>3. CASE ValidateRecordSet(records) = "None" /\ Accepted(l, records)
  <2>1. /\ ~(RecordCount(records) >= SequenceModulus)
        /\ ~(l.next_offset + RecordCount(records) > MaxOffset)
    BY <1>1, <1>3, SequenceAssumption, OffsetAssumption DEF Accepted
  <2>2. /\ ~(ValidateRecordSet(records) # "None")
        /\ ~WrongEpoch(l, records)
        /\ ~(Retries(l, records) # {})
        /\ ~(SequenceError(l, records) # "None")
    BY <1>3 DEF Accepted
  <2>3. AppendRecords(l, records)
          = [log |-> Grown(l, records), reply |-> AppendResult(l, records)]
    BY <2>1, <2>2 DEF AppendRecords
  <2> QED
    BY <1>3, <2>3
<1>4. CASE ValidateRecordSet(records) = "None" /\ ~Accepted(l, records)
  <2>1. \/ RecordCount(records) >= SequenceModulus
        \/ WrongEpoch(l, records)
        \/ Retries(l, records) # {}
        \/ SequenceError(l, records) # "None"
        \/ l.next_offset + RecordCount(records) > MaxOffset
    BY <1>1, <1>4, SequenceAssumption, OffsetAssumption DEF Accepted
  <2> QED
    BY <1>4, <2>1 DEF AppendRecords
<1> QED
  BY <1>2, <1>3, <1>4

\* The log after an append has the batches it had, then the new ones, and its
\* offsets still follow each other without a gap.
LEMMA GrownIsContiguous ==
  ASSUME NEW l, IsLog(l), Contiguous(l), NEW records, RecordSet(records),
         ValidateRecordSet(records) = "None"
  PROVE  IsLog(Grown(l, records)) /\ Contiguous(Grown(l, records))
<1> DEFINE m == Len(l.batches)
           k == Len(records)
           stored == StoredBatches(l, records)
           Before(i) == RecordsBefore(records, i)
           new == Grown(l, records)
<1>1. /\ k \in Nat \ {0} /\ DOMAIN records = 1..k
      /\ \A i \in 1..k : records[i].count \in Nat \ {0} /\ records[i].size \in Nat \ {0}
  BY ValidSets
<1>2. /\ Before(1) = 0
      /\ \A i \in 1..k : Before(i) \in Nat /\ Before(i + 1) = Before(i) + records[i].count
  BY <1>1, ValidSets, RecordsBeforeStep
<1>3. m \in Nat /\ k \in Nat \ {0} /\ l.next_offset \in Nat
  BY <1>1 DEF IsLog
<1>4. \A i \in 1..k :
        /\ stored[i].base_offset = l.next_offset + Before(i)
        /\ stored[i].last_offset = l.next_offset + Before(i) + records[i].count - 1
        /\ stored[i].size = records[i].size
  BY <1>1 DEF StoredBatches
<1>5. stored \in Seq(Range(stored)) /\ Len(stored) = k
  BY <1>1 DEF StoredBatches, Range
<1>6. new.next_offset = l.next_offset + Before(k + 1) /\ new.batches = l.batches \o stored
  BY DEF Grown, RecordCount
<1>7. DOMAIN l.batches = 1..m /\ l.batches \in Seq(Range(l.batches)) /\ m = Len(l.batches)
  BY DEF IsLog
<1>8. l.next_offset = IF m = 0 THEN 0 ELSE l.batches[m].last_offset + 1
  BY <1>7 DEF Contiguous
<1>9. \A i \in 1..m :
        /\ l.batches[i].base_offset = IF i = 1 THEN 0 ELSE l.batches[i - 1].last_offset + 1
        /\ l.batches[i].base_offset <= l.batches[i].last_offset
        /\ l.batches[i].size \in Nat \ {0}
        /\ l.batches[i].base_offset \in Nat /\ l.batches[i].last_offset \in Nat
  BY <1>7 DEF Contiguous, IsLog
<1> HIDE DEF m, k, stored, Before, new
<1>10. /\ new.batches \in Seq(Range(l.batches) \cup Range(stored))
       /\ Len(new.batches) = m + k
       /\ DOMAIN new.batches = 1..(m + k)
       /\ \A i \in 1..m : new.batches[i] = l.batches[i]
       /\ \A i \in (m + 1)..(m + k) : new.batches[i] = stored[i - m]
  <2>1. /\ l.batches \o stored \in Seq(Range(l.batches) \cup Range(stored))
        /\ Len(l.batches \o stored) = m + k
        /\ DOMAIN (l.batches \o stored) = 1..(m + k)
        /\ \A i \in 1..m : (l.batches \o stored)[i] = l.batches[i]
        /\ \A i \in (m + 1)..(m + k) : (l.batches \o stored)[i] = stored[i - m]
    BY <1>5, <1>7, ConcatElements
  <2> QED
    BY <2>1, <1>6
<1> DEFINE all == new.batches
<1>11. new.batches \in Seq(Range(new.batches))
  <2>1. new.batches \in [1..(m + k) -> Range(new.batches)]
    BY <1>10 DEF Range
  <2> QED
    BY <2>1, <1>3
<1>12. /\ \A i \in 1..m : all[i] = l.batches[i]
       /\ \A i \in (m + 1)..(m + k) : all[i] = stored[i - m]
       /\ DOMAIN new.batches = 1..(m + k) /\ Len(new.batches) = m + k
       /\ new.batches = all
  BY <1>10
<1> HIDE DEF all
<1>13. \A i \in (m + 1)..(m + k) :
         /\ Before(i - m) \in Nat
         /\ all[i].base_offset = l.next_offset + Before(i - m)
         /\ all[i].last_offset = l.next_offset + Before(i - m + 1) - 1
         /\ all[i].base_offset <= all[i].last_offset
         /\ all[i].size \in Nat \ {0} /\ all[i].base_offset \in Nat /\ all[i].last_offset \in Nat
  <2> TAKE i \in (m + 1)..(m + k)
  <2>1. i - m \in 1..k
    BY <1>3
  <2>2. all[i] = stored[i - m]
    BY <1>12
  <2>3. /\ stored[i - m].base_offset = l.next_offset + Before(i - m)
        /\ stored[i - m].last_offset = l.next_offset + Before(i - m) + records[i - m].count - 1
        /\ stored[i - m].size = records[i - m].size
        /\ Before(i - m) \in Nat /\ Before(i - m + 1) = Before(i - m) + records[i - m].count
        /\ records[i - m].count \in Nat \ {0} /\ records[i - m].size \in Nat \ {0}
    BY <2>1, <1>1, <1>2, <1>4
  <2> QED
    BY <2>2, <2>3, <1>3
<1>14. new.next_offset = all[m + k].last_offset + 1 /\ new.next_offset \in Nat
  <2>1. PICK e \in (m + 1)..(m + k) : e = m + k /\ e - m + 1 = k + 1
    BY <1>3
  <2>2. all[e].last_offset = l.next_offset + Before(e - m + 1) - 1 /\ all[e].last_offset \in Nat
    BY <1>13
  <2>3. Before(k + 1) \in Nat
    <3>1. k \in 1..k
      BY <1>3
    <3>2. Before(k + 1) = Before(k) + records[k].count /\ Before(k) \in Nat /\ records[k].count \in Nat
      BY <3>1, <1>1, <1>2
    <3> QED
      BY <3>2
  <2>4. all[m + k].last_offset = l.next_offset + Before(k + 1) - 1
    BY <2>1, <2>2
  <2>5. new.next_offset = l.next_offset + Before(k + 1)
    BY <1>6
  <2> QED
    BY <2>3, <2>4, <2>5, <1>3
<1>15. ASSUME NEW i \in 1..(m + k)
       PROVE  all[i].base_offset = IF i = 1 THEN 0 ELSE all[i - 1].last_offset + 1
  <2>1. CASE i \in 1..m
    <3>1. i # 1 => i - 1 \in 1..m
      BY <2>1, <1>3
    <3> QED
      BY <2>1, <3>1, <1>9, <1>12
  <2>2. CASE i = m + 1
    <3>1. all[i].base_offset = l.next_offset + Before(1)
      BY <2>2, <1>3, <1>13
    <3>2. m # 0 => all[m].last_offset = l.batches[m].last_offset
      BY <1>3, <1>12
    <3> QED
      BY <2>2, <3>1, <3>2, <1>2, <1>3, <1>8
  <2>3. CASE i > m + 1
    <3>1. i \in (m + 1)..(m + k) /\ i - 1 \in (m + 1)..(m + k) /\ (i - 1) - m + 1 = i - m
      BY <2>3, <1>3
    <3>2. /\ all[i].base_offset = l.next_offset + Before(i - m) /\ Before(i - m) \in Nat
          /\ all[i - 1].last_offset = l.next_offset + Before(i - m) - 1
      BY <3>1, <1>13
    <3> QED
      BY <2>3, <3>2, <1>3
  <2> QED
    BY <2>1, <2>2, <2>3, <1>3
<1>16. \A i \in 1..(m + k) :
         /\ all[i].base_offset <= all[i].last_offset
         /\ all[i].size \in Nat \ {0} /\ all[i].base_offset \in Nat /\ all[i].last_offset \in Nat
  <2> TAKE i \in 1..(m + k)
  <2>1. CASE i \in 1..m
    BY <2>1, <1>9, <1>12
  <2>2. CASE i \in (m + 1)..(m + k)
    BY <2>2, <1>13
  <2> QED
    BY <2>1, <2>2, <1>3
<1>17. new.batches # <<>> /\ new = Grown(l, records)
  BY <1>3, <1>12 DEF new
<1> QED
  BY <1>11, <1>12, <1>14, <1>15, <1>16, <1>17 DEF IsLog, Contiguous

\* The batches of a log that has grown.
LEMMA GrownBatches ==
  ASSUME NEW l, IsLog(l), NEW records, RecordSet(records), ValidateRecordSet(records) = "None"
  PROVE  /\ Len(l.batches) \in Nat /\ DOMAIN l.batches = 1..Len(l.batches)
         /\ DOMAIN records = 1..Len(records) /\ Len(records) \in Nat \ {0}
         /\ DOMAIN Grown(l, records).batches = 1..(Len(l.batches) + Len(records))
         /\ Len(Grown(l, records).batches) = Len(l.batches) + Len(records)
         /\ \A i \in 1..Len(l.batches) :
              /\ i \in DOMAIN Grown(l, records).batches
              /\ Grown(l, records).batches[i] = l.batches[i]
         /\ \A i \in 1..Len(records) :
              /\ Len(l.batches) + i \in DOMAIN Grown(l, records).batches
              /\ Grown(l, records).batches[Len(l.batches) + i].origin = records[i].origin
              /\ Grown(l, records).batches[Len(l.batches) + i].base_offset
                   = l.next_offset + RecordsBefore(records, i)
         /\ \A j \in DOMAIN Grown(l, records).batches :
              j \in 1..Len(l.batches) \/ \E i \in 1..Len(records) : j = Len(l.batches) + i
<1> DEFINE stored == StoredBatches(l, records)
           k == Len(records)
           m == Len(l.batches)
           new == Grown(l, records).batches
<1>1. k \in Nat \ {0} /\ DOMAIN records = 1..k
  BY ValidSets
<1>2. m \in Nat /\ DOMAIN l.batches = 1..m /\ l.batches \in Seq(Range(l.batches))
  BY DEF IsLog
<1>3. stored \in Seq(Range(stored)) /\ Len(stored) = k
  BY <1>1 DEF StoredBatches, Range
<1>4. \A i \in 1..k : /\ stored[i].origin = records[i].origin
                      /\ stored[i].base_offset = l.next_offset + RecordsBefore(records, i)
  BY <1>1 DEF StoredBatches
<1>5. new = l.batches \o stored
  BY DEF Grown
<1> HIDE DEF stored, k, m, new
<1>6. /\ Len(new) = m + k
      /\ DOMAIN new = 1..(m + k)
      /\ \A i \in 1..m : new[i] = l.batches[i]
      /\ \A i \in (m + 1)..(m + k) : new[i] = stored[i - m]
  <2>1. /\ Len(l.batches \o stored) = Len(l.batches) + Len(stored)
        /\ DOMAIN (l.batches \o stored) = 1..(Len(l.batches) + Len(stored))
        /\ \A i \in 1..Len(l.batches) : (l.batches \o stored)[i] = l.batches[i]
        /\ \A i \in (Len(l.batches) + 1)..(Len(l.batches) + Len(stored)) :
             (l.batches \o stored)[i] = stored[i - Len(l.batches)]
    BY <1>2, <1>3, ConcatElements, Zenon
  <2> QED
    BY <1>3, <1>5, <2>1, Zenon DEF m
<1>7. \A i \in 1..m : i \in DOMAIN new
  BY <1>1, <1>2, <1>6
<1>8. ASSUME NEW i \in 1..k
      PROVE  m + i \in DOMAIN new /\ new[m + i] = stored[i]
  <2>1. m + i \in (m + 1)..(m + k) /\ (m + i) - m = i /\ m + i \in 1..(m + k)
    BY <1>1, <1>2
  <2>2. new[m + i] = stored[(m + i) - m]
    BY <2>1, <1>6
  <2> QED
    BY <2>1, <2>2, <1>6
<1>9. ASSUME NEW j \in DOMAIN new
      PROVE  j \in 1..m \/ \E i \in 1..k : j = m + i
  <2>1. j \in 1..(m + k)
    BY <1>6
  <2>2. CASE j <= m
    BY <2>1, <2>2, <1>2
  <2>3. CASE j > m
    <3>1. j - m \in 1..k /\ j = m + (j - m)
      BY <2>1, <2>3, <1>1, <1>2
    <3> QED
      BY <3>1
  <2> QED
    BY <2>1, <2>2, <2>3, <1>2
<1> QED
  BY <1>1, <1>2, <1>4, <1>6, <1>7, <1>8, <1>9, Zenon DEF k, m, new
=============================================================================

------------------------------ MODULE DataProofs ------------------------------
(***************************************************************************)
(* What the operators on data compute, for data of any size.               *)
(*                                                                         *)
(* Induction is over sets here: a set of numbers that has 0 and, with      *)
(* every number, the next one has them all.  From it follows that the      *)
(* folds of the library are what they are meant to be, and with it what is *)
(* folded (globs, the order of rows, sums) can be reasoned about.          *)
(***************************************************************************)
EXTENDS Patterns, Store, FiniteSetTheorems, WellFoundedInduction, TLAPS

(***************************************************************************)
(* Induction                                                               *)
(***************************************************************************)

LEMMA Induction ==
    ASSUME NEW S, 0 \in S, \A n \in Nat : n \in S => n + 1 \in S
    PROVE  \A n \in Nat : n \in S
<1> SUFFICES ASSUME NEW n \in Nat, n \notin S PROVE FALSE
  OBVIOUS
<1> DEFINE F == {1 .. k : k \in {j \in 0 .. n : j \notin S}}
<1>1. F \subseteq SUBSET (1 .. n) /\ F # {}
  OBVIOUS
<1>2. IsWellFoundedOn(StrictSubsetOrdering(1 .. n), SUBSET (1 .. n))
  <2>1. IsFiniteSet(1 .. n)
    BY FS_Interval
  <2> QED
    BY <2>1, FS_StrictSubsetOrderingWellFounded, FS_FiniteSubsetsOfFinite
<1> HIDE DEF F
<1>3. PICK x \in F : \A y \in F : ~(<<y, x>> \in StrictSubsetOrdering(1 .. n))
  BY <1>1, <1>2, WFMin
<1>4. PICK k \in 0 .. n : k \notin S /\ x = 1 .. k
  BY DEF F
<1>5. k # 0
  BY <1>4
<1>6. k - 1 \notin S
  <2> SUFFICES ASSUME k - 1 \in S PROVE FALSE
    OBVIOUS
  <2>1. k - 1 \in Nat /\ (k - 1) + 1 = k
    BY <1>5
  <2> QED
    BY <2>1, <1>4
<1>7. 1 .. k - 1 \in F
  BY <1>5, <1>6 DEF F
<1>8. <<1 .. k - 1, 1 .. k>> \in StrictSubsetOrdering(1 .. n)
  <2>1. 1 .. k - 1 \in SUBSET (1 .. n) /\ 1 .. k \in SUBSET (1 .. n)
    BY <1>5
  <2>2. 1 .. k - 1 \subseteq 1 .. k /\ k \in 1 .. k /\ k \notin 1 .. k - 1
    BY <1>5
  <2> QED
    BY <2>1, <2>2 DEF StrictSubsetOrdering
<1> QED
  BY <1>3, <1>4, <1>7, <1>8

(***************************************************************************)
(* Folds                                                                   *)
(***************************************************************************)

(* f takes the elements of a set one at a time, those that ch chooses, and *)
(* makes a step with each.                                                 *)
Chooses(ch, S) == \A s \in SUBSET S : s # {} => ch[s] \in s
IsFold(f, S, base, step, ch) ==
    \A s \in SUBSET S : f[s] = IF s = {} THEN base ELSE step[<<ch[s], f[s \ {ch[s]}]>>]

(* There is such a function, whatever the step.                            *)
LEMMA FoldExists ==
    ASSUME NEW S, IsFiniteSet(S), NEW R, NEW base \in R, NEW step \in [S \X R -> R],
           NEW ch, Chooses(ch, S)
    PROVE  \E f \in [SUBSET S -> R] : IsFold(f, S, base, step, ch)
<1> DEFINE Small(n) == {s \in SUBSET S : Cardinality(s) <= n}
           Good(g, n) == \A s \in Small(n) :
              g[s] = IF s = {} THEN base ELSE step[<<ch[s], g[s \ {ch[s]}]>>]
           N == {n \in Nat : \E g \in [Small(n) -> R] : Good(g, n)}
<1>1. \A s \in SUBSET S : /\ IsFiniteSet(s) /\ Cardinality(s) \in Nat
                          /\ s = {} <=> Cardinality(s) = 0
  BY FS_Subset, FS_CardinalityType, FS_EmptySet
<1>2. ASSUME NEW n \in Nat, NEW s \in Small(n + 1), s # {}
      PROVE  ch[s] \in s /\ s \ {ch[s]} \in Small(n)
  <2>1. ch[s] \in s
    BY <1>2 DEF Chooses
  <2>2. Cardinality(s \ {ch[s]}) = Cardinality(s) - 1
    BY <1>1, <2>1, FS_RemoveElement
  <2> QED
    BY <1>1, <2>1, <2>2
<1>3. 0 \in N
  <2> DEFINE g == [s \in Small(0) |-> base]
  <2>1. Small(0) = {{}}
    BY <1>1
  <2>2. Good(g, 0) /\ g \in [Small(0) -> R]
    BY <2>1
  <2> QED
    BY <2>2
<1>4. ASSUME NEW n \in Nat, n \in N PROVE n + 1 \in N
  <2>1. PICK g \in [Small(n) -> R] : Good(g, n)
    BY <1>4
  <2> DEFINE h == [s \in Small(n + 1) |-> IF s = {} THEN base ELSE step[<<ch[s], g[s \ {ch[s]}]>>]]
  <2>2. h \in [Small(n + 1) -> R]
    <3>1. ASSUME NEW s \in Small(n + 1), s # {} PROVE step[<<ch[s], g[s \ {ch[s]}]>>] \in R
      BY <1>2, <3>1, <2>1
    <3> QED
      BY <3>1
  <2>3. Small(n) \subseteq Small(n + 1)
    BY <1>1
  <2>4. \A s \in Small(n) : h[s] = g[s]
    BY <2>1, <2>3
  <2>5. Good(h, n + 1)
    <3> SUFFICES ASSUME NEW s \in Small(n + 1), s # {}
                 PROVE  h[s] = step[<<ch[s], h[s \ {ch[s]}]>>]
      OBVIOUS
    <3>1. s \ {ch[s]} \in Small(n)
      BY <1>2
    <3> QED
      BY <2>4, <3>1
  <2> HIDE DEF h, Good, Small
  <2> QED
    BY <2>2, <2>5
<1>5. Cardinality(S) \in N
  <2> HIDE DEF N
  <2>1. \A n \in Nat : n \in N
    BY <1>3, <1>4, Induction
  <2> QED
    BY <1>1, <2>1
<1>6. PICK g \in [Small(Cardinality(S)) -> R] : Good(g, Cardinality(S))
  BY <1>5
<1>7. Small(Cardinality(S)) = SUBSET S
  BY FS_Subset, <1>1
<1> QED
  BY <1>6, <1>7 DEF IsFold

(* What holds of the empty set and is kept by every step holds of all.     *)
LEMMA FoldInduction ==
    ASSUME NEW S, IsFiniteSet(S), NEW ch, Chooses(ch, S), NEW Good, {} \in Good,
           \A s \in SUBSET S : s # {} /\ s \ {ch[s]} \in Good => s \in Good
    PROVE  S \in Good
<1> DEFINE N == {n \in Nat : \A s \in SUBSET S : Cardinality(s) = n => s \in Good}
<1>1. \A s \in SUBSET S : /\ IsFiniteSet(s) /\ Cardinality(s) \in Nat
                          /\ s = {} <=> Cardinality(s) = 0
  BY FS_Subset, FS_CardinalityType, FS_EmptySet
<1>2. 0 \in N
  BY <1>1
<1>3. ASSUME NEW n \in Nat, n \in N PROVE n + 1 \in N
  <2> SUFFICES ASSUME NEW s \in SUBSET S, Cardinality(s) = n + 1 PROVE s \in Good
    OBVIOUS
  <2>1. s # {}
    BY <1>1
  <2>2. ch[s] \in s
    BY <2>1 DEF Chooses
  <2>3. Cardinality(s \ {ch[s]}) = Cardinality(s) - 1
    BY <1>1, <2>2, FS_RemoveElement
  <2>4. s \ {ch[s]} \in SUBSET S /\ Cardinality(s \ {ch[s]}) = n
    BY <2>3
  <2>5. s \ {ch[s]} \in Good
    BY <1>3, <2>4
  <2> QED
    BY <2>1, <2>5
<1>4. \A n \in Nat : n \in N
  <2> HIDE DEF N
  <2> QED
    BY <1>2, <1>3, Induction
<1> QED
  BY <1>1, <1>4

(* Induction up to a bound.                                                *)
LEMMA Upwards ==
    ASSUME NEW n \in Nat, NEW S, 0 \in S, \A k \in 1 .. n : k - 1 \in S => k \in S
    PROVE  \A k \in 0 .. n : k \in S
<1> DEFINE N == {k \in Nat : k <= n => k \in S}
<1>1. 0 \in N
  OBVIOUS
<1>2. ASSUME NEW k \in Nat, k \in N PROVE k + 1 \in N
  <2> SUFFICES ASSUME k + 1 <= n PROVE k + 1 \in S
    OBVIOUS
  <2>1. k \in S /\ k + 1 \in 1 .. n /\ (k + 1) - 1 = k
    BY <1>2
  <2> QED
    BY <2>1
<1>3. \A k \in Nat : k \in N
  <2> HIDE DEF N
  <2> QED
    BY <1>1, <1>2, Induction
<1> QED
  BY <1>3

LEMMA HasMaximum ==
    ASSUME NEW n \in Nat, NEW s \in SUBSET (1 .. n), s # {}
    PROVE  \E x \in s : \A y \in s : x >= y
<1> DEFINE HasMax(t) == \E x \in t : \A y \in t : x >= y
           S == {k \in 0 .. n : \A t \in SUBSET (1 .. k) : t # {} => HasMax(t)}
<1>1. 0 \in S
  <2>1. \A t \in SUBSET (1 .. 0) : t = {}
    OBVIOUS
  <2>2. 0 \in 0 .. n
    OBVIOUS
  <2> HIDE DEF HasMax
  <2> QED
    BY <2>1, <2>2
<1>2. ASSUME NEW k \in 1 .. n, k - 1 \in S PROVE k \in S
  <2> SUFFICES ASSUME NEW t \in SUBSET (1 .. k), t # {} PROVE HasMax(t)
    OBVIOUS
  <2>1. CASE k \in t
    BY <2>1
  <2>2. CASE k \notin t
    <3>1. t \in SUBSET (1 .. k - 1)
      BY <2>2
    <3> QED
      BY <1>2, <3>1
  <2> QED
    BY <2>1, <2>2
<1>3. n \in S
  <2> HIDE DEF S
  <2>1. \A k \in 0 .. n : k \in S
    BY <1>1, <1>2, Upwards
  <2> QED
    BY <2>1
<1>4. HasMax(s)
  BY <1>3
<1> QED
  BY <1>4

LEMMA MaxIsIn ==
    ASSUME NEW n \in Nat, NEW s \in SUBSET (1 .. n), s # {}
    PROVE  Max(s) \in s
BY HasMaximum DEF Max

(* A fold that takes the last of a set of numbers is one from left to      *)
(* right: it has a state after each number.                                *)
LastFold(f, n, R, base, step) ==
    /\ f[{}] = base
    /\ \A s \in SUBSET (1 .. n) :
         s # {} /\ f[s \ {Max(s)}] \in R => f[s] = step[<<Max(s), f[s \ {Max(s)}]>>]
States(f, n, R, base, step, last) ==
    /\ f \in [0 .. n -> R] /\ f[0] = base /\ f[n] = last
    /\ \A k \in 1 .. n : f[k] = step[<<k, f[k - 1]>>]

LEMMA PrefixFold ==
    ASSUME NEW n \in Nat, NEW R, NEW base \in R, NEW step \in [(1 .. n) \X R -> R]
    PROVE  \E f \in [SUBSET (1 .. n) -> R] : LastFold(f, n, R, base, step)
<1> DEFINE ch == [s \in SUBSET (1 .. n) |-> Max(s)]
<1>1. Chooses(ch, 1 .. n)
  BY MaxIsIn DEF Chooses
<1>2. IsFiniteSet(1 .. n)
  BY FS_Interval
<1>3. \A s \in SUBSET (1 .. n) : ch[s] = Max(s)
  OBVIOUS
<1> HIDE DEF ch
<1>4. PICK f \in [SUBSET (1 .. n) -> R] : IsFold(f, 1 .. n, base, step, ch)
  BY <1>1, <1>2, FoldExists
<1>5. \A s \in SUBSET (1 .. n) : f[s] = IF s = {} THEN base ELSE step[<<Max(s), f[s \ {Max(s)}]>>]
  BY <1>3, <1>4 DEF IsFold
<1>6. LastFold(f, n, R, base, step)
  BY <1>5 DEF LastFold
<1> QED
  BY <1>6

LEMMA MaxOfPrefix ==
    ASSUME NEW k \in Nat, k # 0 PROVE Max(1 .. k) = k /\ (1 .. k) \ {k} = 1 .. k - 1
<1>1. Max(1 .. k) \in 1 .. k
  <2>1. k \in 1 .. k /\ 1 .. k \in SUBSET (1 .. k)
    OBVIOUS
  <2> QED
    BY <2>1, MaxIsIn
<1>2. \A y \in 1 .. k : Max(1 .. k) >= y
  BY DEF Max
<1> QED
  BY <1>1, <1>2

(* What a fold has after each element.                                     *)
LEMMA FoldStates ==
    ASSUME NEW n \in Nat, NEW R, NEW base \in R, NEW step \in [(1 .. n) \X R -> R], NEW it,
           LastFold(it, n, R, base, step)
    PROVE  \E f : States(f, n, R, base, step, it[1 .. n])
<1> DEFINE S == {k \in 0 .. n : it[1 .. k] \in R}
           F == [k \in 0 .. n |-> it[1 .. k]]
<1>1. it[1 .. 0] = base
  <2>1. 1 .. 0 = {}
    OBVIOUS
  <2> QED
    BY <2>1 DEF LastFold
<1>2. ASSUME NEW k \in 1 .. n, it[1 .. k - 1] \in R
      PROVE  it[1 .. k] = step[<<k, it[1 .. k - 1]>>]
  <2>1. k \in Nat /\ k # 0 /\ k \in 1 .. k /\ 1 .. k \in SUBSET (1 .. n)
    OBVIOUS
  <2>2. Max(1 .. k) = k /\ (1 .. k) \ {k} = 1 .. k - 1
    BY <2>1, MaxOfPrefix
  <2>3. 1 .. k # {}
    BY <2>1
  <2> QED
    BY <1>2, <2>1, <2>2, <2>3 DEF LastFold
<1>3. \A k \in 0 .. n : k \in S
  <2>1. 0 \in S
    BY <1>1
  <2>2. ASSUME NEW k \in 1 .. n, k - 1 \in S PROVE k \in S
    <3>1. it[1 .. k - 1] \in R
      BY <2>2
    <3>2. it[1 .. k] = step[<<k, it[1 .. k - 1]>>]
      BY <1>2, <3>1
    <3> QED
      BY <3>1, <3>2
  <2> HIDE DEF S
  <2> QED
    BY <2>1, <2>2, Upwards
<1>4. F \in [0 .. n -> R] /\ F[0] = base /\ F[n] = it[1 .. n]
  BY <1>1, <1>3
<1>5. \A k \in 1 .. n : F[k] = step[<<k, F[k - 1]>>]
  BY <1>2, <1>3
<1> HIDE DEF F
<1> QED
  BY <1>4, <1>5 DEF States

(***************************************************************************)
(* Path globs                                                              *)
(***************************************************************************)

(* The glob from its i-th segment on means the path from its j-th on.      *)
Means(glob, path, i, j) ==
    \E cut \in [i - 1 .. Len(glob) -> 0 .. Len(path)] :
       /\ cut[i - 1] = j - 1 /\ cut[Len(glob)] = Len(path)
       /\ \A x \in i .. Len(glob) :
            IF glob[x] = "**" THEN cut[x - 1] <= cut[x]
            ELSE cut[x] = cut[x - 1] + 1 /\ SegmentMatches(glob[x], path[cut[x]])

LEMMA MeansIsBoolean ==
    ASSUME NEW glob, NEW path, NEW i, NEW j PROVE Means(glob, path, i, j) \in BOOLEAN
BY DEF Means

LEMMA MeansAtEnd ==
    ASSUME NEW glob, Len(glob) \in Nat, NEW path, Len(path) \in Nat,
           NEW j \in 1 .. Len(path) + 1
    PROVE  Means(glob, path, Len(glob) + 1, j) = (j > Len(path))
<1> DEFINE n == Len(glob)
<1>1. ASSUME j > Len(path) PROVE Means(glob, path, n + 1, j)
  <2> DEFINE cut == [x \in n .. n |-> Len(path)]
  <2>1. cut \in [(n + 1) - 1 .. n -> 0 .. Len(path)] /\ cut[n] = Len(path) /\ (n + 1) - 1 = n
    OBVIOUS
  <2>2. j - 1 = Len(path)
    BY <1>1
  <2>3. \A x \in n + 1 .. n : FALSE
    OBVIOUS
  <2> HIDE DEF cut
  <2> QED
    BY <2>1, <2>2, <2>3 DEF Means
<1>2. ASSUME Means(glob, path, n + 1, j) PROVE j > Len(path)
  BY <1>2 DEF Means
<1> QED
  BY <1>1, <1>2, MeansIsBoolean

LEMMA MeansAnything ==
    ASSUME NEW glob, Len(glob) \in Nat, NEW path, Len(path) \in Nat,
           NEW i \in 1 .. Len(glob), NEW j \in 1 .. Len(path) + 1, glob[i] = "**"
    PROVE  Means(glob, path, i, j) =
             (i = Len(glob) \/ \E k \in j + 0 .. Len(path) + 1 : Means(glob, path, i + 1, k))
<1> DEFINE n == Len(glob)
           Fits(cut, x) == IF glob[x] = "**" THEN cut[x - 1] <= cut[x]
                           ELSE cut[x] = cut[x - 1] + 1 /\ SegmentMatches(glob[x], path[cut[x]])
<1>1. ASSUME i = n PROVE Means(glob, path, i, j)
  <2> DEFINE cut == [x \in i - 1 .. n |-> IF x = i - 1 THEN j - 1 ELSE Len(path)]
  <2>1. cut \in [i - 1 .. n -> 0 .. Len(path)] /\ cut[i - 1] = j - 1 /\ cut[n] = Len(path)
    BY <1>1
  <2>2. \A x \in i .. n : glob[x] = "**" /\ cut[x - 1] <= cut[x]
    BY <1>1, <2>1
  <2> HIDE DEF cut
  <2> QED
    BY <2>1, <2>2 DEF Means
<1>2. ASSUME NEW k \in j + 0 .. Len(path) + 1, Means(glob, path, i + 1, k)
      PROVE  Means(glob, path, i, j)
  <2>1. PICK cut \in [(i + 1) - 1 .. n -> 0 .. Len(path)] :
           /\ cut[(i + 1) - 1] = k - 1 /\ cut[n] = Len(path)
           /\ \A x \in i + 1 .. n : Fits(cut, x)
    BY <1>2 DEF Means
  <2>a. cut \in [i .. n -> 0 .. Len(path)] /\ cut[i] = k - 1
    BY <2>1
  <2>b. \A x \in i + 1 .. n : Fits(cut, x)
    BY <2>1
  <2> DEFINE new == [x \in i - 1 .. n |-> IF x = i - 1 THEN j - 1 ELSE cut[x]]
  <2>2. new \in [i - 1 .. n -> 0 .. Len(path)] /\ new[i - 1] = j - 1
    BY <2>a
  <2>3. \A x \in i .. n : new[x] = cut[x]
    OBVIOUS
  <2>4. \A x \in i .. n : Fits(new, x)
    <3>1. new[i - 1] <= new[i]
      BY <2>a, <2>2, <2>3
    <3> TAKE x \in i .. n
    <3>2. CASE x = i
      BY <3>1, <3>2
    <3>3. CASE x # i
      <4>1. x \in i + 1 .. n /\ new[x] = cut[x] /\ new[x - 1] = cut[x - 1]
        BY <2>3, <3>3
      <4> HIDE DEF new
      <4> QED
        BY <2>b, <4>1
    <3> QED
      BY <3>2, <3>3
  <2>5. new[n] = Len(path)
    BY <2>1, <2>3
  <2> HIDE DEF new
  <2> QED
    BY <2>2, <2>4, <2>5 DEF Means
<1>3. ASSUME Means(glob, path, i, j), i # n
      PROVE  \E k \in j + 0 .. Len(path) + 1 : Means(glob, path, i + 1, k)
  <2>1. PICK cut \in [i - 1 .. n -> 0 .. Len(path)] :
           /\ cut[i - 1] = j - 1 /\ cut[n] = Len(path)
           /\ \A x \in i .. n : Fits(cut, x)
    BY <1>3 DEF Means
  <2> DEFINE new == [x \in (i + 1) - 1 .. n |-> cut[x]]
             k == cut[i] + 1
  <2>2. new \in [(i + 1) - 1 .. n -> 0 .. Len(path)] /\ (i + 1) - 1 = i
    BY <2>1
  <2>3. \A x \in i .. n : new[x] = cut[x]
    OBVIOUS
  <2>4. cut[i - 1] <= cut[i] /\ k \in j + 0 .. Len(path) + 1
    BY <2>1
  <2>5. \A x \in i + 1 .. n : Fits(new, x)
    <3> TAKE x \in i + 1 .. n
    <3>1. new[x] = cut[x] /\ new[x - 1] = cut[x - 1]
      BY <2>3
    <3> HIDE DEF new
    <3> QED
      BY <2>1, <3>1
  <2>6. new[i] = k - 1 /\ new[n] = Len(path)
    BY <2>1, <2>3
  <2> HIDE DEF new
  <2>7. Means(glob, path, i + 1, k)
    BY <2>2, <2>5, <2>6 DEF Means
  <2> QED
    BY <2>4, <2>7
<1> QED
  BY <1>1, <1>2, <1>3, MeansIsBoolean

LEMMA MeansOne ==
    ASSUME NEW glob, Len(glob) \in Nat, NEW path, Len(path) \in Nat,
           NEW i \in 1 .. Len(glob), NEW j \in 1 .. Len(path) + 1, glob[i] # "**"
    PROVE  Means(glob, path, i, j) =
             (j <= Len(path) /\ SegmentMatches(glob[i], path[j]) /\ Means(glob, path, i + 1, j + 1))
<1> DEFINE n == Len(glob)
           Fits(cut, x) == IF glob[x] = "**" THEN cut[x - 1] <= cut[x]
                           ELSE cut[x] = cut[x - 1] + 1 /\ SegmentMatches(glob[x], path[cut[x]])
<1>1. ASSUME j <= Len(path), SegmentMatches(glob[i], path[j]), Means(glob, path, i + 1, j + 1)
      PROVE  Means(glob, path, i, j)
  <2>1. PICK cut \in [(i + 1) - 1 .. n -> 0 .. Len(path)] :
           /\ cut[(i + 1) - 1] = (j + 1) - 1 /\ cut[n] = Len(path)
           /\ \A x \in i + 1 .. n : Fits(cut, x)
    BY <1>1 DEF Means
  <2>a. cut \in [i .. n -> 0 .. Len(path)] /\ cut[i] = j
    BY <2>1
  <2> DEFINE new == [x \in i - 1 .. n |-> IF x = i - 1 THEN j - 1 ELSE cut[x]]
  <2>2. new \in [i - 1 .. n -> 0 .. Len(path)] /\ new[i - 1] = j - 1
    BY <2>a
  <2>3. \A x \in i .. n : new[x] = cut[x]
    OBVIOUS
  <2>4. ASSUME NEW x \in i .. n PROVE Fits(new, x)
    <3>1. CASE x = i
      <4>1. new[i] = j /\ new[i - 1] = j - 1
        BY <2>a, <2>2, <2>3
      <4> HIDE DEF new
      <4> QED
        BY <1>1, <3>1, <4>1
    <3>2. CASE x # i
      <4>1. x \in i + 1 .. n /\ new[x] = cut[x] /\ new[x - 1] = cut[x - 1]
        BY <2>3, <3>2
      <4> HIDE DEF new
      <4> QED
        BY <2>1, <4>1
    <3> QED
      BY <3>1, <3>2
  <2>5. new[n] = Len(path)
    BY <2>1, <2>3
  <2> HIDE DEF new
  <2> QED
    BY <2>2, <2>4, <2>5 DEF Means
<1>2. ASSUME Means(glob, path, i, j)
      PROVE  j <= Len(path) /\ SegmentMatches(glob[i], path[j]) /\ Means(glob, path, i + 1, j + 1)
  <2>1. PICK cut \in [i - 1 .. n -> 0 .. Len(path)] :
           /\ cut[i - 1] = j - 1 /\ cut[n] = Len(path)
           /\ \A x \in i .. n : Fits(cut, x)
    BY <1>2 DEF Means
  <2>2. cut[i] = j /\ SegmentMatches(glob[i], path[cut[i]]) /\ cut[i] \in 0 .. Len(path)
    BY <2>1
  <2> DEFINE new == [x \in (i + 1) - 1 .. n |-> cut[x]]
  <2>3. new \in [(i + 1) - 1 .. n -> 0 .. Len(path)] /\ (i + 1) - 1 = i
    BY <2>1
  <2>4. \A x \in i .. n : new[x] = cut[x]
    OBVIOUS
  <2>5. \A x \in i + 1 .. n : Fits(new, x)
    <3> TAKE x \in i + 1 .. n
    <3>1. new[x] = cut[x] /\ new[x - 1] = cut[x - 1]
      BY <2>4
    <3> HIDE DEF new
    <3> QED
      BY <2>1, <3>1
  <2>6. new[i] = (j + 1) - 1 /\ new[n] = Len(path)
    BY <2>1, <2>2, <2>4
  <2> HIDE DEF new
  <2>7. Means(glob, path, i + 1, j + 1)
    BY <2>3, <2>5, <2>6 DEF Means
  <2> QED
    BY <2>2, <2>7
<1> QED
  BY <1>1, <1>2, MeansIsBoolean

(* Both matchers walk the glob and the path as the glob means.             *)
LEMMA MatchIsMeant ==
    ASSUME NEW glob, Len(glob) \in Nat, NEW path, Len(path) \in Nat
    PROVE  MatchSegments(glob, path) = GlobMeans(glob, path)
<1> DEFINE n == Len(glob)
           l == Len(path)
           D == (1 .. n + 1) \X (1 .. l + 1)
           Body(g, i, j) ==
             IF i > n THEN j > l
             ELSE IF glob[i] = "**"
                  THEN i = n \/ \E k \in j + 0 .. l + 1 : g[<<i + 1, k>>]
             ELSE j <= l /\ SegmentMatches(glob[i], path[j]) /\ g[<<i + 1, j + 1>>]
           Eq(g) == g = [at \in D |-> Body(g, at[1], at[2])]
           m == CHOOSE g : Eq(g)
           e == [at \in D |-> Means(glob, path, at[1], at[2])]
<1>1. MatchSegments(glob, path) = m[<<1, 1>>]
  BY DEF MatchSegments, MatchFrom
<1>2. ASSUME NEW i \in 1 .. n + 1, NEW j \in 1 .. l + 1
      PROVE  Means(glob, path, i, j) = Body(e, i, j)
  <2>1. CASE i = n + 1
    BY <2>1, MeansAtEnd
  <2>2. CASE i # n + 1 /\ glob[i] = "**"
    <3>1. \A k \in j + 0 .. l + 1 : e[<<i + 1, k>>] = Means(glob, path, i + 1, k)
      BY <2>2
    <3>2. Means(glob, path, i, j) =
            (i = n \/ \E k \in j + 0 .. l + 1 : Means(glob, path, i + 1, k))
      BY <2>2, MeansAnything
    <3> HIDE DEF e
    <3>3. Body(e, i, j) = (i = n \/ \E k \in j + 0 .. l + 1 : e[<<i + 1, k>>])
      BY <2>2
    <3> HIDE DEF Body
    <3> QED
      BY <3>1, <3>2, <3>3
  <2>3. CASE i # n + 1 /\ glob[i] # "**"
    <3>1. j <= l => e[<<i + 1, j + 1>>] = Means(glob, path, i + 1, j + 1)
      BY <2>3
    <3> QED
      BY <2>3, <3>1, MeansOne
  <2> QED
    BY <2>1, <2>2, <2>3
<1>3. Eq(e)
  BY <1>2
<1>4. Eq(m)
  BY <1>3
<1> HIDE DEF m
<1> DEFINE N == {d \in Nat : d <= n => \A j \in 1 .. l + 1 : m[<<n + 1 - d, j>>] = Means(glob, path, n + 1 - d, j)}
<1>5. \A i \in 1 .. n + 1, j \in 1 .. l + 1 : m[<<i, j>>] = Body(m, i, j)
  BY <1>4
<1>6. 0 \in N
  <2> SUFFICES ASSUME NEW j \in 1 .. l + 1
               PROVE  m[<<n + 1, j>>] = Means(glob, path, n + 1, j)
    OBVIOUS
  <2>1. m[<<n + 1, j>>] = Body(m, n + 1, j)
    <3>1. n + 1 \in 1 .. n + 1
      BY <1>1
    <3> HIDE DEF Body
    <3> QED
      BY <1>5, <3>1
  <2>2. Means(glob, path, n + 1, j) = (j > l)
    BY MeansAtEnd
  <2> QED
    BY <2>1, <2>2
<1>7. ASSUME NEW d \in Nat, d \in N PROVE d + 1 \in N
  <2> SUFFICES ASSUME d + 1 <= n, NEW j \in 1 .. l + 1
               PROVE  m[<<n - d, j>>] = Means(glob, path, n - d, j)
    OBVIOUS
  <2>1. n - d \in 1 .. n /\ (n - d) + 1 = n + 1 - d
    OBVIOUS
  <2>2. \A k \in 1 .. l + 1 : m[<<(n - d) + 1, k>>] = Means(glob, path, (n - d) + 1, k)
    BY <1>7, <2>1
  <2>3. m[<<n - d, j>>] = Body(m, n - d, j)
    <3> n - d \in 1 .. n + 1
      BY <2>1
    <3> QED
      BY <1>5
  <2> HIDE DEF N
  <2>4. CASE glob[n - d] = "**"
    <3>1. Means(glob, path, n - d, j) =
            (n - d = n \/ \E k \in j + 0 .. l + 1 : Means(glob, path, (n - d) + 1, k))
      BY <2>1, <2>4, MeansAnything
    <3>2. \A k \in j + 0 .. l + 1 : m[<<(n - d) + 1, k>>] = Means(glob, path, (n - d) + 1, k)
      BY <2>2
    <3>3. m[<<n - d, j>>] = (n - d = n \/ \E k \in j + 0 .. l + 1 : m[<<(n - d) + 1, k>>])
      BY <2>1, <2>3, <2>4
    <3> QED
      BY <3>1, <3>2, <3>3
  <2>5. CASE glob[n - d] # "**"
    BY <2>1, <2>2, <2>3, <2>5, MeansOne
  <2> QED
    BY <2>4, <2>5
<1>8. n \in N
  <2> HIDE DEF N
  <2> QED
    BY <1>6, <1>7, Induction
<1>9. m[<<1, 1>>] = Means(glob, path, 1, 1)
  BY <1>8
<1>10. GlobMeans(glob, path) = Means(glob, path, 1, 1)
  BY DEF GlobMeans, Means
<1> QED
  BY <1>1, <1>9, <1>10

(* The glob means the first j segments of the path.                        *)
Reaches(glob, path, j) ==
    \E cut \in [0 .. Len(glob) -> 0 .. Len(path)] :
       /\ cut[0] = 0 /\ cut[Len(glob)] = j
       /\ \A x \in 1 .. Len(glob) :
            IF glob[x] = "**" THEN cut[x - 1] <= cut[x]
            ELSE cut[x] = cut[x - 1] + 1 /\ SegmentMatches(glob[x], path[cut[x]])

LEMMA ReachesIsBoolean ==
    ASSUME NEW glob, NEW path, NEW j PROVE Reaches(glob, path, j) \in BOOLEAN
BY DEF Reaches

LEMMA ReachesMore ==
    ASSUME NEW Seg, NEW glob \in Seq(Seg), NEW g \in Seg, NEW path, Len(path) \in Nat,
           NEW j \in 0 .. Len(path), NEW k \in 0 .. j, Reaches(glob, path, k),
           IF g = "**" THEN TRUE ELSE k = j - 1 /\ SegmentMatches(g, path[j])
    PROVE  Reaches(Append(glob, g), path, j)
<1> DEFINE n == Len(glob)
           new == Append(glob, g)
           Fits(gl, cut, x) == IF gl[x] = "**" THEN cut[x - 1] <= cut[x]
                               ELSE cut[x] = cut[x - 1] + 1 /\ SegmentMatches(gl[x], path[cut[x]])
<1>1. PICK cut \in [0 .. n -> 0 .. Len(path)] :
        /\ cut[0] = 0 /\ cut[n] = k
        /\ \A x \in 1 .. n : Fits(glob, cut, x)
  BY DEF Reaches
<1>2. n \in Nat /\ Len(new) = n + 1 /\ new[n + 1] = g /\ \A x \in 1 .. n : new[x] = glob[x]
  OBVIOUS
<1> DEFINE more == [x \in 0 .. n + 1 |-> IF x = n + 1 THEN j ELSE cut[x]]
<1>3. more \in [0 .. n + 1 -> 0 .. Len(path)] /\ more[n + 1] = j
  BY <1>1, <1>2
<1>4. \A x \in 0 .. n : more[x] = cut[x]
  BY <1>2
<1> HIDE DEF more, new
<1>5. more[0] = 0 /\ more[n] = k
  BY <1>1, <1>2, <1>4
<1>6. ASSUME NEW x \in 1 .. n PROVE Fits(new, more, x)
  <2>1. more[x] = cut[x] /\ more[x - 1] = cut[x - 1] /\ new[x] = glob[x] /\ Fits(glob, cut, x)
    BY <1>1, <1>2, <1>4
  <2> QED
    BY <2>1
<1>7. Fits(new, more, n + 1)
  <2>1. more[(n + 1) - 1] = k
    BY <1>2, <1>5
  <2> QED
    BY <1>2, <1>3, <2>1
<1>8. \A x \in 1 .. n + 1 : Fits(new, more, x)
  <2> TAKE x \in 1 .. n + 1
  <2>1. x \in 1 .. n \/ x = n + 1
    BY <1>2
  <2> HIDE DEF Fits
  <2> QED
    BY <1>6, <1>7, <2>1
<1> QED
  BY <1>2, <1>3, <1>5, <1>8 DEF Reaches, new

LEMMA ReachesLess ==
    ASSUME NEW Seg, NEW glob \in Seq(Seg), NEW g \in Seg, NEW path, Len(path) \in Nat,
           NEW j \in 0 .. Len(path), Reaches(Append(glob, g), path, j)
    PROVE  \E k \in 0 .. j : /\ Reaches(glob, path, k)
                             /\ IF g = "**" THEN TRUE ELSE k = j - 1 /\ SegmentMatches(g, path[j])
<1> DEFINE n == Len(glob)
           new == Append(glob, g)
           Fits(gl, cut, x) == IF gl[x] = "**" THEN cut[x - 1] <= cut[x]
                               ELSE cut[x] = cut[x - 1] + 1 /\ SegmentMatches(gl[x], path[cut[x]])
<1>1. n \in Nat /\ Len(new) = n + 1 /\ new[n + 1] = g /\ \A x \in 1 .. n : new[x] = glob[x]
  OBVIOUS
<1> HIDE DEF new
<1>2. PICK cut \in [0 .. n + 1 -> 0 .. Len(path)] :
        /\ cut[0] = 0 /\ cut[n + 1] = j
        /\ \A x \in 1 .. n + 1 : Fits(new, cut, x)
  BY <1>1 DEF Reaches, new
<1> DEFINE less == [x \in 0 .. n |-> cut[x]]
           k == cut[n]
<1>3. less \in [0 .. n -> 0 .. Len(path)] /\ \A x \in 0 .. n : less[x] = cut[x]
  BY <1>1, <1>2
<1> HIDE DEF less
<1>4. \A x \in 1 .. n : Fits(glob, less, x)
  <2> TAKE x \in 1 .. n
  <2>0. x \in 0 .. n /\ x - 1 \in 0 .. n /\ x \in 1 .. n + 1
    BY <1>1
  <2>1. less[x] = cut[x] /\ less[x - 1] = cut[x - 1] /\ new[x] = glob[x] /\ Fits(new, cut, x)
    <3>1. Fits(new, cut, x)
      BY <1>2, <2>0
    <3> HIDE DEF Fits
    <3> QED
      BY <1>1, <1>3, <2>0, <3>1
  <2> QED
    BY <2>1
<1>5. less[0] = 0 /\ less[n] = k
  BY <1>1, <1>2, <1>3
<1>6. Reaches(glob, path, k)
  BY <1>3, <1>4, <1>5 DEF Reaches
<1>7. Fits(new, cut, n + 1) /\ (n + 1) - 1 = n
  BY <1>1, <1>2
<1>8. k \in 0 .. Len(path)
  BY <1>1, <1>2
<1>9. k \in 0 .. j /\ IF g = "**" THEN TRUE ELSE k = j - 1 /\ SegmentMatches(g, path[j])
  BY <1>1, <1>2, <1>7, <1>8
<1> QED
  BY <1>6, <1>9

(* Squeeze, one segment at a time.                                         *)
Squeezed(done, g) ==
    IF g = "**" /\ done # <<>> /\ Last(done) = "**" THEN done ELSE Append(done, g)

LEMMA SqueezeSteps ==
    ASSUME NEW Seg, NEW glob \in Seq(Seg)
    PROVE  \E f \in [0 .. Len(glob) -> Seq(Seg)] :
             /\ f[0] = <<>> /\ f[Len(glob)] = Squeeze(glob)
             /\ \A k \in 1 .. Len(glob) : f[k] = Squeezed(f[k - 1], glob[k])
<1> DEFINE n == Len(glob)
           R == Seq(Seg)
           step == [p \in (1 .. n) \X R |-> Squeezed(p[2], glob[p[1]])]
           Eq(g) == g = [s \in SUBSET (1 .. n) |->
                          IF s = {} THEN <<>> ELSE Squeezed(g[s \ {Max(s)}], glob[Max(s)])]
           it == CHOOSE g : Eq(g)
<1>1. n \in Nat /\ DOMAIN glob = 1 .. n /\ \A i \in 1 .. n : glob[i] \in Seg
  OBVIOUS
<1>2. Squeeze(glob) = it[1 .. n]
  BY <1>1 DEF Squeeze, FoldLeft, MapThenFoldSet, Squeezed
<1>3. \A done \in R, g \in Seg : Squeezed(done, g) \in R
  BY DEF Squeezed
<1>3a. <<>> \in R
  OBVIOUS
<1>4. step \in [(1 .. n) \X R -> R]
  BY <1>1, <1>3
<1>5. PICK f \in [SUBSET (1 .. n) -> R] : LastFold(f, n, R, <<>>, step)
  <2> HIDE DEF step, R
  <2> QED
    BY <1>1, <1>3a, <1>4, PrefixFold
<1>6. \A k \in 1 .. n, done \in R : step[<<k, done>>] = Squeezed(done, glob[k])
  OBVIOUS
<1>7. ASSUME NEW s \in SUBSET (1 .. n), s # {}
      PROVE  f[s] = Squeezed(f[s \ {Max(s)}], glob[Max(s)])
  <2>1. Max(s) \in 1 .. n /\ f[s \ {Max(s)}] \in R
    BY <1>1, <1>5, <1>7, MaxIsIn
  <2> QED
    BY <1>5, <1>6, <1>7, <2>1 DEF LastFold
<1>8. Eq(it)
  <2>1. Eq(f)
    BY <1>5, <1>7 DEF LastFold
  <2> QED
    BY <2>1
<1> HIDE DEF it, step, R
<1>9. LastFold(it, n, R, <<>>, step)
  <2>1. ASSUME NEW s \in SUBSET (1 .. n), s # {}, it[s \ {Max(s)}] \in R
        PROVE  it[s] = step[<<Max(s), it[s \ {Max(s)}]>>]
    <3>1. Max(s) \in 1 .. n
      BY <1>1, <2>1, MaxIsIn
    <3>2. it[s] = Squeezed(it[s \ {Max(s)}], glob[Max(s)])
      BY <1>8, <2>1
    <3> QED
      BY <1>6, <2>1, <3>1, <3>2
  <2>2. it[{}] = <<>>
    BY <1>8
  <2> QED
    BY <2>1, <2>2 DEF LastFold
<1>10. PICK F : States(F, n, R, <<>>, step, it[1 .. n])
  BY <1>1, <1>3a, <1>4, <1>9, FoldStates
<1>11. ASSUME NEW k \in 1 .. n PROVE F[k] = Squeezed(F[k - 1], glob[k])
  <2>1. k - 1 \in 0 .. n
    BY <1>1
  <2> QED
    BY <1>6, <1>10, <2>1 DEF States
<1> QED
  BY <1>2, <1>10, <1>11 DEF R, States

LEMMA SameStep ==
    ASSUME NEW Seg, NEW a \in Seq(Seg), NEW b \in Seq(Seg), NEW g \in Seg,
           NEW path, Len(path) \in Nat,
           \A j \in 0 .. Len(path) : Reaches(a, path, j) => Reaches(b, path, j)
    PROVE  \A j \in 0 .. Len(path) : Reaches(Append(a, g), path, j) => Reaches(Append(b, g), path, j)
<1> TAKE j \in 0 .. Len(path)
<1> HAVE Reaches(Append(a, g), path, j)
<1>1. PICK k \in 0 .. j : /\ Reaches(a, path, k)
                          /\ IF g = "**" THEN TRUE ELSE k = j - 1 /\ SegmentMatches(g, path[j])
  BY ReachesLess
<1>2. Reaches(b, path, k)
  BY <1>1
<1> QED
  BY <1>1, <1>2, ReachesMore

LEMMA ReachesBefore ==
    ASSUME NEW Seg, NEW a \in Seq(Seg), NEW g \in Seg, NEW path, Len(path) \in Nat,
           NEW j \in 0 .. Len(path), Reaches(Append(a, g), path, j)
    PROVE  \E k \in 0 .. j : Reaches(a, path, k)
BY ReachesLess

(* A second "**" adds nothing to the first.                                *)
LEMMA OnceIsEnough ==
    ASSUME NEW Seg, NEW a \in Seq(Seg), NEW g \in Seg, g = "**", a # <<>>, Last(a) = g,
           NEW path, Len(path) \in Nat, NEW j \in 0 .. Len(path)
    PROVE  Reaches(Append(a, g), path, j) = Reaches(a, path, j)
<1>1. Front(a) \in Seq(Seg) /\ a = Append(Front(a), g)
  BY DEF Front, Last
<1>2. ASSUME Reaches(a, path, j) PROVE Reaches(Append(a, g), path, j)
  <2>1. j \in 0 .. j
    OBVIOUS
  <2> QED
    BY <1>2, <2>1, ReachesMore
<1>3. ASSUME Reaches(Append(a, g), path, j) PROVE Reaches(a, path, j)
  <2>1. PICK k \in 0 .. j : Reaches(a, path, k)
    BY <1>3, ReachesBefore
  <2>2a. k \in 0 .. Len(path)
    BY <2>1
  <2>2. Reaches(Append(Front(a), g), path, k)
    BY <1>1, <2>1, Zenon
  <2>3. PICK i \in 0 .. k : Reaches(Front(a), path, i)
    BY <1>1, <2>2a, <2>2, ReachesBefore
  <2>4. i \in 0 .. j
    BY <2>3
  <2>5. Reaches(Append(Front(a), g), path, j)
    BY <1>1, <2>3, <2>4, ReachesMore
  <2> QED
    BY <1>1, <2>5
<1> QED
  BY <1>2, <1>3, ReachesIsBoolean

LEMMA PrefixGrows ==
    ASSUME NEW Seg, NEW s \in Seq(Seg), NEW k \in 1 .. Len(s)
    PROVE  /\ SubSeq(s, 1, k - 1) \in Seq(Seg)
           /\ SubSeq(s, 1, k) = Append(SubSeq(s, 1, k - 1), s[k])
OBVIOUS

(* Squeezing changes nothing in what a glob means.                         *)
LEMMA SqueezeKeepsMeaning ==
    ASSUME NEW Seg, NEW glob \in Seq(Seg), NEW path, Len(path) \in Nat
    PROVE  /\ Len(Squeeze(glob)) \in Nat
           /\ GlobMeans(Squeeze(glob), path) = GlobMeans(glob, path)
<1> DEFINE n == Len(glob)
           Same(a, b) == \A j \in 0 .. Len(path) : Reaches(a, path, j) = Reaches(b, path, j)
<1>1. PICK f \in [0 .. n -> Seq(Seg)] :
        f[0] = <<>> /\ f[n] = Squeeze(glob) /\ \A k \in 1 .. n : f[k] = Squeezed(f[k - 1], glob[k])
  BY SqueezeSteps
<1> DEFINE S == {k \in 0 .. n : Same(f[k], SubSeq(glob, 1, k))}
<1>2. n \in Nat /\ \A k \in 1 .. n : glob[k] \in Seg
  OBVIOUS
<1>3. 0 \in S
  <2>1. SubSeq(glob, 1, 0) = <<>>
    OBVIOUS
  <2>2. \A j \in 0 .. Len(path) : Reaches(f[0], path, j) = Reaches(SubSeq(glob, 1, 0), path, j)
    BY <1>1, <2>1
  <2>3. 0 \in 0 .. n
    BY <1>2
  <2> QED
    BY <2>2, <2>3
<1>4. ASSUME NEW k \in 1 .. n, k - 1 \in S PROVE k \in S
  <2> DEFINE g == glob[k]
             a == f[k - 1]
             b == SubSeq(glob, 1, k - 1)
  <2>1. g \in Seg /\ a \in Seq(Seg) /\ b \in Seq(Seg) /\ Same(a, b)
    BY <1>1, <1>2, <1>4, PrefixGrows
  <2>2. f[k] = Squeezed(a, g) /\ SubSeq(glob, 1, k) = Append(b, g)
    BY <1>1, PrefixGrows
  <2> HIDE DEF a, b, g
  <2>3. Same(Append(a, g), Append(b, g))
    <3>1. \A j \in 0 .. Len(path) : Reaches(Append(a, g), path, j) => Reaches(Append(b, g), path, j)
      BY <2>1, SameStep
    <3>2. \A j \in 0 .. Len(path) : Reaches(Append(b, g), path, j) => Reaches(Append(a, g), path, j)
      BY <2>1, SameStep
    <3> QED
      BY <3>1, <3>2, ReachesIsBoolean
  <2>4. CASE g = "**" /\ a # <<>> /\ Last(a) = "**"
    <3>1. Same(Append(a, g), a)
      BY <2>1, <2>4, OnceIsEnough
    <3>2. f[k] = a
      BY <2>2, <2>4 DEF Squeezed
    <3>3. \A j \in 0 .. Len(path) : Reaches(f[k], path, j) = Reaches(SubSeq(glob, 1, k), path, j)
      BY <2>2, <2>3, <3>1, <3>2
    <3> QED
      BY <3>3
  <2>5. CASE ~(g = "**" /\ a # <<>> /\ Last(a) = "**")
    <3>1. f[k] = Append(a, g)
      BY <2>2, <2>5 DEF Squeezed
    <3>2. \A j \in 0 .. Len(path) : Reaches(f[k], path, j) = Reaches(SubSeq(glob, 1, k), path, j)
      BY <2>2, <2>3, <3>1
    <3> QED
      BY <3>2
  <2> QED
    BY <2>4, <2>5
<1>5. n \in S
  <2>1. \A k \in 1 .. n : k - 1 \in S => k \in S
    BY <1>4
  <2> HIDE DEF S
  <2>2. \A k \in 0 .. n : k \in S
    BY <1>2, <1>3, <2>1, Upwards
  <2> QED
    BY <1>2, <2>2
<1>6. Same(Squeeze(glob), glob)
  <2>1. SubSeq(glob, 1, n) = glob
    OBVIOUS
  <2> QED
    BY <1>1, <1>5, <2>1
<1>7. Squeeze(glob) \in Seq(Seg)
  BY <1>1, <1>2
<1>8. \A x : GlobMeans(x, path) = Reaches(x, path, Len(path))
  BY DEF GlobMeans, Reaches
<1> QED
  BY <1>6, <1>7, <1>8

(* CleanPath, one segment at a time.                                       *)
Cleaned(done, s) ==
    IF s \in {"", "."} THEN done
    ELSE IF s = ".." /\ done # <<>> /\ Last(done) # ".." THEN Front(done)
    ELSE Append(done, s)
CleanFold(segs) == FoldLeft(Cleaned, <<>>, segs)

LEMMA CleanSteps ==
    ASSUME NEW Seg, NEW segs \in Seq(Seg)
    PROVE  \E f \in [0 .. Len(segs) -> Seq(Seg)] :
             /\ f[0] = <<>> /\ f[Len(segs)] = CleanFold(segs)
             /\ \A k \in 1 .. Len(segs) : f[k] = Cleaned(f[k - 1], segs[k])
<1> DEFINE n == Len(segs)
           R == Seq(Seg)
           step == [p \in (1 .. n) \X R |-> Cleaned(p[2], segs[p[1]])]
           Eq(g) == g = [s \in SUBSET (1 .. n) |->
                          IF s = {} THEN <<>> ELSE Cleaned(g[s \ {Max(s)}], segs[Max(s)])]
           it == CHOOSE g : Eq(g)
<1>1. n \in Nat /\ DOMAIN segs = 1 .. n /\ \A i \in 1 .. n : segs[i] \in Seg
  OBVIOUS
<1>2. CleanFold(segs) = it[1 .. n]
  BY <1>1 DEF CleanFold, FoldLeft, MapThenFoldSet, Cleaned
<1>3. ASSUME NEW done \in R, NEW g \in Seg PROVE Cleaned(done, g) \in R
  <2>1. done # <<>> => Front(done) \in R
    BY DEF Front
  <2>2. Append(done, g) \in R
    OBVIOUS
  <2> HIDE DEF R
  <2> QED
    BY <2>1, <2>2 DEF Cleaned
<1>3a. <<>> \in R
  OBVIOUS
<1>4. step \in [(1 .. n) \X R -> R]
  BY <1>1, <1>3
<1>5. PICK f \in [SUBSET (1 .. n) -> R] : LastFold(f, n, R, <<>>, step)
  <2> HIDE DEF step, R
  <2> QED
    BY <1>1, <1>3a, <1>4, PrefixFold
<1>6. \A k \in 1 .. n, done \in R : step[<<k, done>>] = Cleaned(done, segs[k])
  OBVIOUS
<1>7. ASSUME NEW s \in SUBSET (1 .. n), s # {}
      PROVE  f[s] = Cleaned(f[s \ {Max(s)}], segs[Max(s)])
  <2>1. Max(s) \in 1 .. n /\ f[s \ {Max(s)}] \in R
    BY <1>1, <1>5, <1>7, MaxIsIn
  <2> QED
    BY <1>5, <1>6, <1>7, <2>1 DEF LastFold
<1>8. Eq(it)
  <2>1. Eq(f)
    BY <1>5, <1>7 DEF LastFold
  <2> QED
    BY <2>1
<1> HIDE DEF it, step, R
<1>9. LastFold(it, n, R, <<>>, step)
  <2>1. ASSUME NEW s \in SUBSET (1 .. n), s # {}, it[s \ {Max(s)}] \in R
        PROVE  it[s] = step[<<Max(s), it[s \ {Max(s)}]>>]
    <3>1. Max(s) \in 1 .. n
      BY <1>1, <2>1, MaxIsIn
    <3>2. it[s] = Cleaned(it[s \ {Max(s)}], segs[Max(s)])
      BY <1>8, <2>1
    <3> QED
      BY <1>6, <2>1, <3>1, <3>2
  <2>2. it[{}] = <<>>
    BY <1>8
  <2> QED
    BY <2>1, <2>2 DEF LastFold
<1>10. PICK F : States(F, n, R, <<>>, step, it[1 .. n])
  BY <1>1, <1>3a, <1>4, <1>9, FoldStates
<1>11. ASSUME NEW k \in 1 .. n PROVE F[k] = Cleaned(F[k - 1], segs[k])
  <2>1. k - 1 \in 0 .. n
    BY <1>1
  <2> QED
    BY <1>6, <1>10, <2>1 DEF States
<1> QED
  BY <1>2, <1>10, <1>11 DEF R, States

(* A path without empty, "." and ".." segments is clean.                   *)
Plain(Seg) == \A x \in Seg : x # "" /\ x # "." /\ x # ".."

LEMMA CleanIsKept ==
    ASSUME NEW Seg, Plain(Seg), NEW segs \in Seq(Seg), segs # <<>>
    PROVE  CleanPath(segs) = segs
<1> DEFINE n == Len(segs)
<1>1. PICK f \in [0 .. n -> Seq(Seg)] :
        f[0] = <<>> /\ f[n] = CleanFold(segs) /\ \A k \in 1 .. n : f[k] = Cleaned(f[k - 1], segs[k])
  BY CleanSteps
<1> DEFINE S == {k \in 0 .. n : f[k] = SubSeq(segs, 1, k)}
<1>2. n \in Nat /\ \A k \in 1 .. n : segs[k] \in Seg
  OBVIOUS
<1>3. 0 \in S
  <2>1. SubSeq(segs, 1, 0) = <<>>
    OBVIOUS
  <2> QED
    BY <1>1, <1>2, <2>1
<1>4. ASSUME NEW k \in 1 .. n, k - 1 \in S PROVE k \in S
  <2>1. segs[k] # "" /\ segs[k] # "." /\ segs[k] # ".."
    BY <1>2 DEF Plain
  <2>2. f[k] = Append(f[k - 1], segs[k])
    BY <1>1, <2>1 DEF Cleaned
  <2>3. f[k - 1] = SubSeq(segs, 1, k - 1)
    BY <1>4
  <2>4. SubSeq(segs, 1, k) = Append(SubSeq(segs, 1, k - 1), segs[k])
    BY PrefixGrows
  <2>5. f[k] = SubSeq(segs, 1, k)
    BY <2>2, <2>3, <2>4
  <2> QED
    BY <2>5
<1>5. f[n] = SubSeq(segs, 1, n)
  <2>1. \A k \in 1 .. n : k - 1 \in S => k \in S
    BY <1>4
  <2> HIDE DEF S
  <2>2. \A k \in 0 .. n : k \in S
    BY <1>2, <1>3, <2>1, Upwards
  <2>3. n \in S
    BY <1>2, <2>2
  <2> QED
    BY <2>3 DEF S
<1>6. CleanFold(segs) = segs
  BY <1>1, <1>5
<1>7. CleanPath(segs) = IF CleanFold(segs) = <<>> THEN <<".">> ELSE CleanFold(segs)
  BY DEF CleanPath, CleanFold, Cleaned
<1> QED
  BY <1>6, <1>7

(* Both matchers find what a glob means.                                   *)
LEMMA RunnerFindsTheMeaning ==
    ASSUME NEW Seg, NEW glob \in Seq(Seg), NEW path, Len(path) \in Nat
    PROVE  RunnerMatchGlob(glob, path) = GlobMeans(glob, path)
BY SqueezeKeepsMeaning, MatchIsMeant DEF RunnerMatchGlob

LEMMA EvaluationFindsTheMeaning ==
    ASSUME NEW Seg, Plain(Seg),
           NEW glob \in Seq(Seg), NEW path \in Seq(Seg), glob # <<>>, path # <<>>
    PROVE  EvaluationMatchGlob(glob, path) = GlobMeans(glob, path)
<1>1. CleanPath(glob) = glob /\ CleanPath(path) = path
  BY CleanIsKept
<1>2. Len(glob) \in Nat /\ Len(path) \in Nat
  OBVIOUS
<1> QED
  BY <1>1, <1>2, MatchIsMeant DEF EvaluationMatchGlob

(***************************************************************************)
(* The elements of a sequence                                              *)
(***************************************************************************)

LEMMA ToSetOfNone == ToSet(<<>>) = {}
BY DEF ToSet

LEMMA ToSetOfTail ==
    ASSUME NEW X, NEW s \in Seq(X), s # <<>>
    PROVE  /\ s[1] \in X /\ Tail(s) \in Seq(X)
           /\ ToSet(s) = {s[1]} \cup ToSet(Tail(s))
<1>1. /\ Len(s) \in Nat /\ Len(s) # 0 /\ DOMAIN s = 1 .. Len(s) /\ s[1] \in X
      /\ Tail(s) \in Seq(X) /\ DOMAIN Tail(s) = 1 .. Len(s) - 1
      /\ \A i \in 1 .. Len(s) - 1 : Tail(s)[i] = s[i + 1]
  OBVIOUS
<1>2. ToSet(s) = {s[i] : i \in 1 .. Len(s)} /\ ToSet(Tail(s)) = {Tail(s)[i] : i \in 1 .. Len(s) - 1}
  BY <1>1 DEF ToSet
<1>3. ASSUME NEW x \in ToSet(s) PROVE x = s[1] \/ x \in ToSet(Tail(s))
  <2>1. PICK i \in 1 .. Len(s) : x = s[i]
    BY <1>2, <1>3
  <2>2. CASE i # 1
    <3>1. i - 1 \in 1 .. Len(s) - 1 /\ (i - 1) + 1 = i
      BY <1>1, <2>2
    <3> QED
      BY <1>1, <1>2, <2>1, <3>1
  <2> QED
    BY <2>1, <2>2
<1>4. ASSUME NEW x \in ToSet(Tail(s)) PROVE x \in ToSet(s)
  <2>1. PICK i \in 1 .. Len(s) - 1 : x = Tail(s)[i]
    BY <1>2, <1>4
  <2>2. i + 1 \in 1 .. Len(s) /\ x = s[i + 1]
    BY <1>1, <2>1
  <2> QED
    BY <1>2, <2>2
<1>5. s[1] \in ToSet(s)
  BY <1>1, <1>2
<1> QED
  BY <1>1, <1>3, <1>4, <1>5

LEMMA ToSetOfAppend ==
    ASSUME NEW X, NEW s \in Seq(X), NEW x \in X
    PROVE  Append(s, x) \in Seq(X) /\ ToSet(Append(s, x)) = ToSet(s) \cup {x}
<1>1. /\ Len(s) \in Nat /\ DOMAIN s = 1 .. Len(s)
      /\ Append(s, x) \in Seq(X) /\ DOMAIN Append(s, x) = 1 .. Len(s) + 1
      /\ Append(s, x)[Len(s) + 1] = x /\ \A i \in 1 .. Len(s) : Append(s, x)[i] = s[i]
  OBVIOUS
<1> DEFINE t == Append(s, x)
<1> HIDE DEF t
<1>2. ToSet(s) = {s[i] : i \in 1 .. Len(s)} /\ ToSet(t) = {t[i] : i \in 1 .. Len(s) + 1}
  BY <1>1 DEF ToSet, t
<1>3. ASSUME NEW y \in ToSet(t) PROVE y \in ToSet(s) \cup {x}
  <2>1. PICK i \in 1 .. Len(s) + 1 : y = t[i]
    BY <1>2, <1>3
  <2>2. i = Len(s) + 1 \/ i \in 1 .. Len(s)
    BY <1>1
  <2> QED
    BY <1>1, <1>2, <2>1, <2>2 DEF t
<1>4. ASSUME NEW y \in ToSet(s) \cup {x} PROVE y \in ToSet(t)
  <2>1. CASE y = x
    <3>1. Len(s) + 1 \in 1 .. Len(s) + 1 /\ t[Len(s) + 1] = x
      BY <1>1 DEF t
    <3> QED
      BY <1>2, <2>1, <3>1
  <2>2. CASE y \in ToSet(s)
    <3>1. PICK i \in 1 .. Len(s) : y = s[i]
      BY <1>2, <2>2
    <3>2. i \in 1 .. Len(s) + 1 /\ y = t[i]
      BY <1>1, <3>1 DEF t
    <3> QED
      BY <1>2, <3>2
  <2> QED
    BY <1>4, <2>1, <2>2
<1> QED
  BY <1>1, <1>3, <1>4 DEF t

LEMMA ToSetOfBoth ==
    ASSUME NEW X, NEW s \in Seq(X), NEW t \in Seq(X)
    PROVE  s \o t \in Seq(X) /\ ToSet(s \o t) = ToSet(s) \cup ToSet(t)
<1> DEFINE b == s \o t
<1>1. /\ Len(s) \in Nat /\ DOMAIN s = 1 .. Len(s) /\ Len(t) \in Nat /\ DOMAIN t = 1 .. Len(t)
      /\ b \in Seq(X) /\ DOMAIN b = 1 .. Len(s) + Len(t)
      /\ \A i \in 1 .. Len(s) + Len(t) : b[i] = IF i <= Len(s) THEN s[i] ELSE t[i - Len(s)]
  OBVIOUS
<1> HIDE DEF b
<1>2. /\ ToSet(s) = {s[i] : i \in 1 .. Len(s)} /\ ToSet(t) = {t[i] : i \in 1 .. Len(t)}
      /\ ToSet(b) = {b[i] : i \in 1 .. Len(s) + Len(t)}
  BY <1>1 DEF ToSet
<1>3. ASSUME NEW y \in ToSet(b) PROVE y \in ToSet(s) \cup ToSet(t)
  <2>1. PICK i \in 1 .. Len(s) + Len(t) : y = b[i]
    BY <1>2, <1>3
  <2>2. CASE i <= Len(s)
    BY <1>1, <1>2, <2>1, <2>2
  <2>3. CASE i > Len(s)
    <3>1. i - Len(s) \in 1 .. Len(t) /\ y = t[i - Len(s)]
      BY <1>1, <2>1, <2>3
    <3> QED
      BY <1>2, <3>1
  <2> QED
    BY <1>1, <2>2, <2>3
<1>4. ASSUME NEW y \in ToSet(s) PROVE y \in ToSet(b)
  <2>1. PICK i \in 1 .. Len(s) : y = s[i]
    BY <1>2, <1>4
  <2>2. i \in 1 .. Len(s) + Len(t) /\ y = b[i]
    BY <1>1, <2>1
  <2> QED
    BY <1>2, <2>2
<1>5. ASSUME NEW y \in ToSet(t) PROVE y \in ToSet(b)
  <2>1. PICK i \in 1 .. Len(t) : y = t[i]
    BY <1>2, <1>5
  <2>2. i + Len(s) \in 1 .. Len(s) + Len(t) /\ y = b[i + Len(s)]
    BY <1>1, <2>1
  <2> QED
    BY <1>2, <2>2
<1> QED
  BY <1>1, <1>3, <1>4, <1>5 DEF b

LEMMA InjectiveAppend ==
    ASSUME NEW X, NEW s \in Seq(X), NEW x \in X, x \notin ToSet(s), IsInjective(s)
    PROVE  IsInjective(Append(s, x))
<1>1. /\ Len(s) \in Nat /\ DOMAIN s = 1 .. Len(s)
      /\ DOMAIN Append(s, x) = 1 .. Len(s) + 1
      /\ Append(s, x)[Len(s) + 1] = x /\ \A i \in 1 .. Len(s) : Append(s, x)[i] = s[i]
  OBVIOUS
<1> DEFINE t == Append(s, x)
<1> HIDE DEF t
<1>2. \A i \in 1 .. Len(s) : s[i] # x
  BY <1>1 DEF ToSet
<1>3. \A i, j \in 1 .. Len(s) : s[i] = s[j] => i = j
  BY <1>1 DEF IsInjective
<1>4. ASSUME NEW i \in 1 .. Len(s) + 1, NEW j \in 1 .. Len(s) + 1, t[i] = t[j] PROVE i = j
  BY <1>1, <1>2, <1>3, <1>4 DEF t
<1> QED
  BY <1>1, <1>4 DEF IsInjective, t

(***************************************************************************)
(* Sorting                                                                 *)
(***************************************************************************)

(* When it started and its id tell a row from every other.                 *)
ToldApart(S) ==
    /\ \A a \in S : a.started \in Int /\ a.id \in Int
    /\ \A a, b \in S : a.id = b.id => a = b
InOrder(s) == \A i, j \in 1 .. Len(s) : i < j => Older(s[i], s[j])

LEMMA OlderIsAnOrder ==
    ASSUME NEW S, ToldApart(S), NEW a \in S, NEW b \in S, NEW c \in S
    PROVE  /\ ~Older(a, a) /\ (Older(a, b) => ~Older(b, a))
           /\ Older(a, b) /\ Older(b, c) => Older(a, c)
           /\ a # b => Older(a, b) \/ Older(b, a)
<1>1. a.started \in Int /\ b.started \in Int /\ c.started \in Int
      /\ a.id \in Int /\ b.id \in Int /\ c.id \in Int
  BY DEF ToldApart
<1>2. a.id = b.id => a = b
  BY DEF ToldApart
<1> QED
  BY <1>1, <1>2 DEF Older

LEMMA BothParts ==
    ASSUME NEW X, NEW s \in Seq(X), NEW t \in Seq(X)
    PROVE  /\ s \o t \in Seq(X) /\ Len(s \o t) = Len(s) + Len(t)
           /\ \A i \in 1 .. Len(s) + Len(t) :
                (s \o t)[i] = IF i <= Len(s) THEN s[i] ELSE t[i - Len(s)]
OBVIOUS

LEMMA InsertedAt ==
    ASSUME NEW X, NEW s \in Seq(X), NEW e \in X, NEW k \in 1 .. Len(s) + 1
    PROVE  /\ InsertAt(s, k, e) \in Seq(X) /\ Len(InsertAt(s, k, e)) = Len(s) + 1
           /\ \A i \in 1 .. Len(s) + 1 :
                InsertAt(s, k, e)[i] = IF i < k THEN s[i] ELSE IF i = k THEN e ELSE s[i - 1]
<1> DEFINE a == SubSeq(s, 1, k - 1)
           b == SubSeq(s, k, Len(s))
<1>0. Len(s) \in Nat /\ k \in Nat /\ k # 0 /\ k <= Len(s) + 1
  OBVIOUS
<1>1. /\ a \in Seq(X) /\ Len(a) = k - 1 /\ \A i \in 1 .. k - 1 : a[i] = s[i]
      /\ b \in Seq(X) /\ Len(b) = Len(s) + 1 - k
      /\ \A i \in 1 .. Len(s) + 1 - k : b[i] = s[k + i - 1]
  OBVIOUS
<1> HIDE DEF a, b
<1>2. InsertAt(s, k, e) = a \o <<e>> \o b
  BY DEF InsertAt, a, b
<1> DEFINE m == a \o <<e>>
<1>3. /\ m \in Seq(X) /\ Len(m) = k
      /\ \A i \in 1 .. k : m[i] = IF i < k THEN s[i] ELSE e
  <2>1. m = Append(a, e)
    BY <1>1
  <2>2. m \in Seq(X) /\ Len(m) = Len(a) + 1 /\ m[Len(a) + 1] = e
        /\ \A i \in 1 .. Len(a) : m[i] = a[i]
    <3> HIDE DEF m
    <3> QED
      BY <1>1, <2>1
  <2> HIDE DEF m
  <2> QED
    BY <1>0, <1>1, <2>2
<1> HIDE DEF m
<1>4. m \o b \in Seq(X) /\ Len(m \o b) = Len(s) + 1
      /\ \A i \in 1 .. Len(s) + 1 : (m \o b)[i] = IF i <= k THEN m[i] ELSE b[i - k]
  <2>1. m \o b \in Seq(X) /\ Len(m \o b) = Len(m) + Len(b)
        /\ \A i \in 1 .. Len(m) + Len(b) : (m \o b)[i] = IF i <= Len(m) THEN m[i] ELSE b[i - Len(m)]
    BY <1>1, <1>3, BothParts
  <2>2. Len(m) + Len(b) = Len(s) + 1
    BY <1>0, <1>1, <1>3
  <2> QED
    BY <1>3, <2>1, <2>2
<1>5. ASSUME NEW i \in 1 .. Len(s) + 1
      PROVE  (m \o b)[i] = IF i < k THEN s[i] ELSE IF i = k THEN e ELSE s[i - 1]
  <2>1. CASE i <= k
    BY <1>3, <1>4, <2>1
  <2>2. CASE i > k
    <3>1. i - k \in 1 .. Len(s) + 1 - k /\ k + (i - k) - 1 = i - 1
      BY <2>2
    <3> QED
      BY <1>1, <1>4, <2>2, <3>1
  <2>3. i <= k \/ i > k
    BY <1>0
  <2> QED
    BY <2>1, <2>2, <2>3
<1> QED
  BY <1>2, <1>4, <1>5 DEF m

(* Where OldestFirst puts a row.                                           *)
Before(r, s) == {i \in DOMAIN s : Older(s[i], r)}
Inserted(r, s) == InsertAt(s, 1 + Cardinality(Before(r, s)), r)

LEMMA PrefixSize ==
    ASSUME NEW n \in Nat PROVE IsFiniteSet(1 .. n) /\ Cardinality(1 .. n) = n
<1>1. Cardinality(1 .. n) = IF 1 > n THEN 0 ELSE n - 1 + 1
  BY FS_Interval
<1>2. IsFiniteSet(1 .. n)
  BY FS_Interval
<1> QED
  BY <1>1, <1>2

(* The place of a row among those that are there.                          *)
LEMMA PlaceInList ==
    ASSUME NEW S, NEW s \in Seq(S), NEW r
    PROVE  /\ Len(s) \in Nat /\ DOMAIN s = 1 .. Len(s)
           /\ 1 + Cardinality(Before(r, s)) \in 1 .. Len(s) + 1
<1>1. DOMAIN s = 1 .. Len(s) /\ Len(s) \in Nat
  OBVIOUS
<1>2. Before(r, s) \subseteq 1 .. Len(s)
  <2>1. Before(r, s) \subseteq DOMAIN s
    BY DEF Before
  <2> QED
    BY <1>1, <2>1
<1>3. IsFiniteSet(1 .. Len(s)) /\ Cardinality(1 .. Len(s)) = Len(s)
  BY <1>1, PrefixSize
<1>4. IsFiniteSet(Before(r, s)) /\ Cardinality(Before(r, s)) <= Len(s)
  BY <1>2, <1>3, FS_Subset
<1>5. Cardinality(Before(r, s)) \in Nat
  BY <1>4, FS_CardinalityType
<1> QED
  BY <1>1, <1>4, <1>5

LEMMA InsertedSomewhere ==
    ASSUME NEW S, NEW s \in Seq(S), NEW r \in S
    PROVE  Inserted(r, s) \in Seq(S)
BY PlaceInList, InsertedAt DEF Inserted

LEMMA BeforeIsPrefix ==
    ASSUME NEW S, ToldApart(S), NEW s \in Seq(S), InOrder(s), NEW r \in S
    PROVE  \E c \in 0 .. Len(s) : Before(r, s) = 1 .. c /\ Cardinality(Before(r, s)) = c
<1> DEFINE n == Len(s)
           D == Before(r, s)
<1>1. n \in Nat /\ DOMAIN s = 1 .. n /\ \A i \in 1 .. n : s[i] \in S
  OBVIOUS
<1>2. D \in SUBSET (1 .. n) /\ \A i \in 1 .. n : i \in D <=> Older(s[i], r)
  BY <1>1 DEF Before
<1> HIDE DEF D
<1>3. \E c \in 0 .. n : D = 1 .. c
  <2>1. CASE D = {}
    <3>1. D = 1 .. 0 /\ 0 \in 0 .. n
      BY <1>1, <2>1
    <3> QED
      BY <3>1
  <2>2. CASE D # {}
    <3> DEFINE c == Max(D)
    <3>1. c \in D /\ c \in 1 .. n
      BY <1>1, <1>2, <2>2, MaxIsIn
    <3>2. \A i \in D : i <= c
      <4>1. \E x \in D : \A y \in D : x >= y
        BY <1>1, <1>2, <2>2, HasMaximum
      <4> QED
        BY <4>1 DEF Max
    <3> HIDE DEF c
    <3>3. ASSUME NEW i \in 1 .. c PROVE i \in D
      <4>1. i \in 1 .. n
        BY <1>1, <3>1
      <4>2. CASE i = c
        BY <3>1, <4>2
      <4>3. CASE i < c
        <5>1. Older(s[i], s[c]) /\ Older(s[c], r)
          BY <1>2, <3>1, <4>1, <4>3 DEF InOrder
        <5>2. s[i] \in S /\ s[c] \in S
          BY <1>1, <3>1, <4>1
        <5>3. Older(s[i], r)
          BY <5>1, <5>2, OlderIsAnOrder
        <5> QED
          BY <1>2, <4>1, <5>3
      <4> QED
        BY <3>1, <4>2, <4>3
    <3>4. \A i \in D : i \in 1 .. c
      BY <1>2, <3>1, <3>2
    <3>5. D = 1 .. c /\ c \in 0 .. n
      <4>1. D \subseteq 1 .. c /\ 1 .. c \subseteq D
        BY <3>3, <3>4
      <4>2. c \in 0 .. n
        BY <1>1, <3>1
      <4> QED
        BY <4>1, <4>2
    <3> QED
      BY <3>5
  <2> QED
    BY <2>1, <2>2
<1>4. PICK c \in 0 .. n : D = 1 .. c
  BY <1>3
<1>5. Cardinality(1 .. c) = c
  BY <1>1, PrefixSize
<1> QED
  BY <1>4, <1>5 DEF D

LEMMA InsertKeepsOrder ==
    ASSUME NEW S, ToldApart(S), NEW s \in Seq(S), InOrder(s), NEW r \in S, r \notin ToSet(s)
    PROVE  /\ InOrder(Inserted(r, s)) /\ Len(Inserted(r, s)) = Len(s) + 1
           /\ ToSet(Inserted(r, s)) = ToSet(s) \cup {r}
<1> DEFINE n == Len(s)
           t == Inserted(r, s)
<1>1. n \in Nat /\ DOMAIN s = 1 .. n /\ \A i \in 1 .. n : s[i] \in S /\ s[i] # r
  BY DEF ToSet
<1>2. PICK c \in 0 .. n : Before(r, s) = 1 .. c /\ Cardinality(Before(r, s)) = c
  BY BeforeIsPrefix
<1>3. c + 1 \in 1 .. n + 1 /\ 1 + c = c + 1
  BY <1>1, <1>2
<1>4. /\ t \in Seq(S) /\ Len(t) = n + 1 /\ t = InsertAt(s, c + 1, r)
      /\ \A i \in 1 .. n + 1 : t[i] = IF i < c + 1 THEN s[i] ELSE IF i = c + 1 THEN r ELSE s[i - 1]
  BY <1>2, <1>3, InsertedAt DEF Inserted
<1> HIDE DEF t
<1>5. \A i \in 1 .. c : Older(s[i], r)
  BY <1>1, <1>2 DEF Before
<1>6. ASSUME NEW i \in c + 1 .. n PROVE Older(r, s[i])
  <2>1. i \in 1 .. n /\ i \notin 1 .. c
    BY <1>2
  <2>2. ~Older(s[i], r)
    BY <1>1, <1>2, <2>1 DEF Before
  <2> QED
    BY <1>1, <2>1, <2>2, OlderIsAnOrder
<1>7. ASSUME NEW i \in 1 .. n + 1, NEW j \in 1 .. n + 1, i < j PROVE Older(t[i], t[j])
  <2>1. CASE j < c + 1
    BY <1>1, <1>4, <1>7, <2>1 DEF InOrder
  <2>2. CASE j = c + 1
    <3>1. i \in 1 .. c /\ t[i] = s[i] /\ t[j] = r
      BY <1>2, <1>4, <1>7, <2>2
    <3> QED
      BY <1>5, <3>1
  <2>3. CASE j > c + 1
    <3>1. j - 1 \in c + 1 .. n /\ t[j] = s[j - 1]
      BY <1>1, <1>2, <1>4, <2>3
    <3>2. CASE i < c + 1
      <4>1. t[i] = s[i] /\ i \in 1 .. n /\ j - 1 \in 1 .. n /\ i < j - 1
        BY <1>1, <1>2, <1>4, <3>1, <3>2
      <4> QED
        BY <3>1, <4>1 DEF InOrder
    <3>3. CASE i = c + 1
      BY <1>4, <1>6, <3>1, <3>3
    <3>4. CASE i > c + 1
      <4>1. t[i] = s[i - 1] /\ i - 1 \in 1 .. n /\ j - 1 \in 1 .. n /\ i - 1 < j - 1
        BY <1>1, <1>2, <1>4, <1>7, <3>1, <3>4
      <4> QED
        BY <3>1, <4>1 DEF InOrder
    <3> QED
      BY <1>1, <1>2, <3>2, <3>3, <3>4
  <2> QED
    BY <1>1, <1>2, <2>1, <2>2, <2>3
<1>8. InOrder(t)
  BY <1>4, <1>7 DEF InOrder
<1>9. ToSet(t) = {t[i] : i \in 1 .. n + 1} /\ ToSet(s) = {s[i] : i \in 1 .. n}
  BY <1>1, <1>4 DEF ToSet
<1>10. ASSUME NEW x \in ToSet(t) PROVE x \in ToSet(s) \cup {r}
  <2>1. PICK i \in 1 .. n + 1 : x = t[i]
    BY <1>9, <1>10
  <2>2. CASE i < c + 1
    <3>1. i \in 1 .. n /\ x = s[i]
      BY <1>1, <1>2, <1>4, <2>1, <2>2
    <3> QED
      BY <1>9, <3>1
  <2>3. CASE i = c + 1
    BY <1>4, <2>1, <2>3
  <2>4. CASE i > c + 1
    <3>1. i - 1 \in 1 .. n /\ x = s[i - 1]
      BY <1>1, <1>2, <1>4, <2>1, <2>4
    <3> QED
      BY <1>9, <3>1
  <2> QED
    BY <1>1, <1>2, <2>2, <2>3, <2>4
<1>11. r \in ToSet(t)
  BY <1>3, <1>4, <1>9
<1>12. ASSUME NEW x \in ToSet(s) PROVE x \in ToSet(t)
  <2>1. PICK i \in 1 .. n : x = s[i]
    BY <1>9, <1>12
  <2>2. CASE i < c + 1
    <3>1. i \in 1 .. n + 1 /\ x = t[i]
      BY <1>1, <1>4, <2>1, <2>2
    <3> QED
      BY <1>9, <3>1
  <2>3. CASE i >= c + 1
    <3>1. i + 1 \in 1 .. n + 1 /\ ~(i + 1 < c + 1) /\ i + 1 # c + 1 /\ (i + 1) - 1 = i
      BY <1>1, <1>2, <2>3
    <3>2. x = t[i + 1]
      BY <1>4, <2>1, <3>1
    <3> QED
      BY <1>9, <3>1, <3>2
  <2> QED
    BY <1>1, <1>2, <2>2, <2>3
<1> QED
  BY <1>4, <1>8, <1>10, <1>11, <1>12 DEF t

(* OldestFirst inserts the rows of a set one at a time.                    *)
LEMMA OldestFirstInserts ==
    ASSUME NEW S, IsFiniteSet(S)
    PROVE  \E it, ch :
              /\ it \in [SUBSET S -> Seq(S)] /\ OldestFirst(S) = it[S] /\ it[{}] = <<>> /\ Chooses(ch, S)
              /\ \A s \in SUBSET S : s # {} => it[s] = Inserted(ch[s], it[s \ {ch[s]}])
<1> DEFINE R == Seq(S)
           One(s) == CHOOSE x \in s : TRUE
           ch == [s \in SUBSET S |-> One(s)]
           step == [p \in S \X R |-> Inserted(p[1], p[2])]
           Eq(g) == g = [s \in SUBSET S |-> IF s = {} THEN <<>> ELSE Inserted(One(s), g[s \ {One(s)}])]
           it == CHOOSE g : Eq(g)
<1>1. OldestFirst(S) = it[S]
  BY DEF OldestFirst, FoldSet, MapThenFoldSet, Inserted, Before
<1>2. Chooses(ch, S) /\ \A s \in SUBSET S : ch[s] = One(s)
  BY DEF Chooses
<1>3. \A s \in SUBSET S : s # {} => One(s) \in s
  OBVIOUS
<1>4. step \in [S \X R -> R] /\ <<>> \in R
  BY InsertedSomewhere
<1>5. \A x \in S, q \in R : step[<<x, q>>] = Inserted(x, q)
  OBVIOUS
<1> HIDE DEF ch, step, One
<1>6. PICK f \in [SUBSET S -> R] : IsFold(f, S, <<>>, step, ch)
  <2> HIDE DEF R
  <2> QED
    BY <1>2, <1>4, FoldExists
<1>7. Eq(f)
  <2>1. ASSUME NEW s \in SUBSET S, s # {} PROVE f[s] = Inserted(One(s), f[s \ {One(s)}])
    <3>1. One(s) \in S /\ f[s \ {One(s)}] \in R
      BY <1>3, <1>6, <2>1
    <3> QED
      BY <1>2, <1>5, <1>6, <2>1, <3>1 DEF IsFold
  <2>2. f[{}] = <<>>
    BY <1>6 DEF IsFold
  <2>3. \A s \in SUBSET S : f[s] = IF s = {} THEN <<>> ELSE Inserted(One(s), f[s \ {One(s)}])
    BY <2>1, <2>2
  <2> HIDE DEF R
  <2> QED
    BY <1>6, <2>3
<1>8. Eq(it)
  BY <1>7
<1> HIDE DEF it
<1>9. it[{}] = <<>>
  BY <1>8
<1>10. \A s \in SUBSET S : s # {} => it[s] = Inserted(ch[s], it[s \ {ch[s]}])
  BY <1>2, <1>8
<1>11. it \in [SUBSET S -> R]
  <2> DEFINE Good == {s \in SUBSET S : it[s] \in R}
  <2>1. {} \in Good
    BY <1>4, <1>9
  <2>2. ASSUME NEW s \in SUBSET S, s # {}, s \ {ch[s]} \in Good PROVE s \in Good
    <3>1. ch[s] \in S /\ it[s \ {ch[s]}] \in Seq(S)
      BY <1>2, <1>3, <2>2
    <3>2. Inserted(ch[s], it[s \ {ch[s]}]) \in Seq(S)
      BY <3>1, InsertedSomewhere
    <3> QED
      BY <1>10, <2>2, <3>2
  <2>3. ASSUME NEW t \in SUBSET S PROVE t \in Good
    <3> DEFINE Better == {s \in SUBSET t : s \in Good}
    <3>1. IsFiniteSet(t) /\ Chooses(ch, t)
      BY <1>2, FS_Subset DEF Chooses
    <3>2. {} \in Better /\ \A s \in SUBSET t : s # {} /\ s \ {ch[s]} \in Better => s \in Better
      BY <2>1, <2>2
    <3>3. t \in Better
      <4> HIDE DEF Better
      <4> QED
        BY <3>1, <3>2, FoldInduction
    <3> QED
      BY <3>3
  <2>4. it = [s \in SUBSET S |-> it[s]]
    BY <1>8
  <2>5. \A s \in SUBSET S : it[s] \in R
    BY <2>3
  <2> HIDE DEF R, Eq
  <2> QED
    BY <2>4, <2>5
<1>12. /\ it \in [SUBSET S -> Seq(S)] /\ OldestFirst(S) = it[S] /\ it[{}] = <<>> /\ Chooses(ch, S)
       /\ \A s \in SUBSET S : s # {} => it[s] = Inserted(ch[s], it[s \ {ch[s]}])
  BY <1>1, <1>2, <1>9, <1>10, <1>11
<1> HIDE DEF R, Eq
<1> QED
  BY <1>12

LEMMA InsertedHolds ==
    ASSUME NEW S, NEW s \in Seq(S), NEW r \in S
    PROVE  Len(Inserted(r, s)) = Len(s) + 1 /\ ToSet(Inserted(r, s)) = ToSet(s) \cup {r}
<1> DEFINE n == Len(s)
           t == Inserted(r, s)
           k == 1 + Cardinality(Before(r, s))
<1>1. n \in Nat /\ DOMAIN s = 1 .. n /\ k \in 1 .. n + 1
  BY PlaceInList
<1>2. /\ t \in Seq(S) /\ Len(t) = n + 1
      /\ \A i \in 1 .. n + 1 : t[i] = IF i < k THEN s[i] ELSE IF i = k THEN r ELSE s[i - 1]
  <2>1. t = InsertAt(s, k, r)
    BY DEF Inserted
  <2> HIDE DEF k, t
  <2>2. /\ InsertAt(s, k, r) \in Seq(S) /\ Len(InsertAt(s, k, r)) = Len(s) + 1
        /\ \A i \in 1 .. Len(s) + 1 :
             InsertAt(s, k, r)[i] = IF i < k THEN s[i] ELSE IF i = k THEN r ELSE s[i - 1]
    BY <1>1, InsertedAt
  <2> QED
    BY <2>1, <2>2
<1> HIDE DEF k
<1> HIDE DEF t
<1>3. DOMAIN t = 1 .. n + 1
  BY <1>2
<1>4. ASSUME NEW x \in ToSet(t) PROVE x \in ToSet(s) \cup {r}
  <2>1. PICK i \in 1 .. n + 1 : x = t[i]
    BY <1>3 DEF ToSet
  <2>2. CASE i < k
    <3>1. i \in 1 .. n /\ x = s[i]
      BY <1>1, <1>2, <2>1, <2>2
    <3> QED
      BY <1>1, <3>1 DEF ToSet
  <2>3. CASE i > k
    <3>1. i - 1 \in 1 .. n /\ x = s[i - 1]
      BY <1>1, <1>2, <2>1, <2>3
    <3> QED
      BY <1>1, <3>1 DEF ToSet
  <2>4. CASE i = k
    BY <1>2, <2>1, <2>4
  <2> QED
    BY <1>1, <2>2, <2>3, <2>4
<1>5. ASSUME NEW i \in 1 .. n PROVE s[i] \in ToSet(t)
  <2>1. CASE i < k
    <3>1. i \in 1 .. n + 1 /\ s[i] = t[i]
      BY <1>1, <1>2, <2>1
    <3> QED
      BY <1>3, <3>1 DEF ToSet
  <2>2. CASE i >= k
    <3>1. i + 1 \in 1 .. n + 1 /\ s[i] = t[i + 1]
      BY <1>1, <1>2, <2>2
    <3> QED
      BY <1>3, <3>1 DEF ToSet
  <2> QED
    BY <1>1, <2>1, <2>2
<1>6. r \in ToSet(t)
  <2>1. t[k] = r
    BY <1>1, <1>2
  <2> QED
    BY <1>1, <1>3, <2>1 DEF ToSet
<1>7. ToSet(s) = {s[i] : i \in 1 .. n}
  BY <1>1 DEF ToSet
<1> QED
  BY <1>2, <1>4, <1>5, <1>6, <1>7 DEF t

(* Whatever the rows, all of them are there, and no more.                  *)
LEMMA OldestFirstHolds ==
    ASSUME NEW S, IsFiniteSet(S)
    PROVE  /\ OldestFirst(S) \in Seq(S)
           /\ ToSet(OldestFirst(S)) = S /\ Len(OldestFirst(S)) = Cardinality(S)
<1>1. PICK it, ch :
              /\ it \in [SUBSET S -> Seq(S)] /\ OldestFirst(S) = it[S] /\ it[{}] = <<>> /\ Chooses(ch, S)
              /\ \A s \in SUBSET S : s # {} => it[s] = Inserted(ch[s], it[s \ {ch[s]}])
  BY OldestFirstInserts
<1> DEFINE Good == {s \in SUBSET S : ToSet(it[s]) = s /\ Len(it[s]) = Cardinality(s)}
<1>2. {} \in Good
  <2>1. Len(<<>>) = 0 /\ Cardinality({}) = 0
    BY FS_EmptySet
  <2> QED
    BY <1>1, <2>1, ToSetOfNone
<1>3. ASSUME NEW s \in SUBSET S, s # {}, s \ {ch[s]} \in Good PROVE s \in Good
  <2> DEFINE r == ch[s]
             q == it[s \ {r}]
  <2>1. r \in s /\ r \in S
    BY <1>1, <1>3 DEF Chooses
  <2>2. q \in Seq(S) /\ ToSet(q) = s \ {r} /\ Len(q) = Cardinality(s \ {r})
    BY <1>1, <1>3
  <2>3. it[s] = Inserted(r, q)
    BY <1>1, <1>3
  <2>4. Cardinality(s \ {r}) = Cardinality(s) - 1 /\ Cardinality(s) \in Nat
    BY <2>1, FS_Subset, FS_RemoveElement, FS_CardinalityType
  <2> HIDE DEF r, q
  <2>5. Len(it[s]) = Len(q) + 1 /\ ToSet(it[s]) = ToSet(q) \cup {r}
    BY <2>1, <2>2, <2>3, InsertedHolds
  <2>6. ToSet(it[s]) = s
    BY <2>1, <2>2, <2>5
  <2>7. Len(it[s]) = Cardinality(s)
    BY <2>2, <2>4, <2>5
  <2> QED
    BY <2>6, <2>7
<1>4. S \in Good
  <2>1. \A s \in SUBSET S : s # {} /\ s \ {ch[s]} \in Good => s \in Good
    BY <1>3
  <2>2. Chooses(ch, S)
    BY <1>1
  <2> HIDE DEF Good
  <2> QED
    BY <1>2, <2>1, <2>2, FoldInduction
<1> QED
  BY <1>1, <1>4

(* OldestFirst lists every row of a set, once and in order.                *)
LEMMA OldestFirstSorts ==
    ASSUME NEW S, IsFiniteSet(S), ToldApart(S)
    PROVE  /\ OldestFirst(S) \in Seq(S) /\ InOrder(OldestFirst(S))
           /\ ToSet(OldestFirst(S)) = S /\ Len(OldestFirst(S)) = Cardinality(S)
<1>1. PICK it, ch :
              /\ it \in [SUBSET S -> Seq(S)] /\ OldestFirst(S) = it[S] /\ it[{}] = <<>> /\ Chooses(ch, S)
              /\ \A s \in SUBSET S : s # {} => it[s] = Inserted(ch[s], it[s \ {ch[s]}])
  BY OldestFirstInserts
<1> DEFINE Good == {s \in SUBSET S : InOrder(it[s]) /\ ToSet(it[s]) = s}
<1>2. {} \in Good
  <2>1. InOrder(<<>>) /\ ToSet(<<>>) = {}
    BY ToSetOfNone DEF InOrder
  <2> QED
    BY <1>1, <2>1
<1>3. ASSUME NEW s \in SUBSET S, s # {}, s \ {ch[s]} \in Good PROVE s \in Good
  <2> DEFINE r == ch[s]
             q == it[s \ {r}]
  <2>1. r \in s /\ r \in S
    BY <1>1, <1>3 DEF Chooses
  <2>2. q \in Seq(S) /\ InOrder(q) /\ ToSet(q) = s \ {r}
    BY <1>1, <1>3
  <2>3. it[s] = Inserted(r, q)
    BY <1>1, <1>3
  <2> HIDE DEF r, q
  <2>4. InOrder(it[s]) /\ ToSet(it[s]) = ToSet(q) \cup {r}
    <3>1. r \notin ToSet(q)
      BY <2>2
    <3> QED
      BY <2>1, <2>2, <2>3, <3>1, InsertKeepsOrder
  <2> QED
    BY <2>1, <2>2, <2>4
<1>4. S \in Good
  <2>1. \A s \in SUBSET S : s # {} /\ s \ {ch[s]} \in Good => s \in Good
    BY <1>3
  <2>2. Chooses(ch, S)
    BY <1>1
  <2> HIDE DEF Good
  <2> QED
    BY <1>2, <2>1, <2>2, FoldInduction
<1> QED
  BY <1>1, <1>4, OldestFirstHolds

LEMMA OneAndOne == ASSUME NEW q, NEW r PROVE <<q>> \o <<r>> = <<q, r>>
<1> DEFINE X == {q, r}
<1>0. q \in X /\ r \in X
  OBVIOUS
<1> HIDE DEF X
<1>1. ASSUME NEW a \in Seq(X), Len(a) = 1, a[1] = q PROVE a \o <<r>> = <<q, r>>
  <2> DEFINE c == Append(a, r)
  <2>1. a \o <<r>> = c
    OBVIOUS
  <2>2. c \in Seq(X) /\ Len(c) = Len(a) + 1 /\ c[Len(a) + 1] = r /\ \A i \in 1 .. Len(a) : c[i] = a[i]
    BY <1>0
  <2>4. c[1] = a[1] /\ Len(c) = 2 /\ c[2] = r
    <3> HIDE DEF c
    <3>1. 1 \in 1 .. Len(a) /\ Len(a) + 1 = 2
      BY <1>1
    <3> QED
      BY <1>1, <2>2, <3>1
  <2> HIDE DEF c
  <2>3. c = <<q, r>>
    BY <1>1, <2>2, <2>4
  <2> QED
    BY <2>1, <2>3
<1>2. <<q>> \in Seq(X) /\ Len(<<q>>) = 1
  BY <1>0
<1> QED
  BY <1>1, <1>2

LEMMA SomeLong ==
    ASSUME NEW X, NEW s \in Seq(X), Len(s) = 1
    PROVE  s # <<>>
  OBVIOUS

LEMMA FirstOfOne ==
    ASSUME NEW X, NEW s \in Seq(X), s # <<>>
    PROVE  FirstOf(s) = <<s[1]>> /\ s[1] \in X /\ 1 \in 1 .. Len(s)
<1>1. Len(s) \in Nat /\ Len(s) # 0 /\ s[1] \in X
  OBVIOUS
<1>2. 1 \in 1 .. Len(s)
  BY <1>1
<1>3. SubSeq(s, 1, 1) = <<s[1]>>
  <2>1. SubSeq(s, 1, 1) \in Seq(X) /\ Len(SubSeq(s, 1, 1)) = 1
    BY <1>1, <1>2
  <2>2. SubSeq(s, 1, 1)[1] = s[1]
    BY <1>1, <1>2
  <2> DEFINE q == SubSeq(s, 1, 1)
  <2> HIDE DEF q
  <2>3. q \in Seq(X) /\ Len(q) = 1 /\ q[1] = s[1]
    BY <2>1, <2>2 DEF q
  <2>4. q = <<s[1]>>
    BY <2>3
  <2> QED
    BY <2>4 DEF q
<1>4. FirstOf(s) = SubSeq(s, 1, 1)
  BY DEF FirstOf
<1> QED
  BY <1>1, <1>2, <1>3, <1>4

(* The newest row of a set, if there is one.                               *)
LEMMA NewestOfAll ==
    ASSUME NEW S, IsFiniteSet(S), ToldApart(S)
    PROVE  /\ S = {} => FirstOf(NewestFirst(S)) = <<>>
           /\ S # {} => \E x \in S : /\ FirstOf(NewestFirst(S)) = <<x>>
                                     /\ \A q \in S \ {x} : Older(q, x)
<1> DEFINE o == OldestFirst(S)
           n == Len(o)
           r == NewestFirst(S)
<1>1. o \in Seq(S) /\ InOrder(o) /\ ToSet(o) = S
  BY OldestFirstSorts
<1> HIDE DEF o
<1>2. n \in Nat /\ DOMAIN o = 1 .. n /\ S = {o[i] : i \in 1 .. n} /\ \A i \in 1 .. n : o[i] \in S
  BY <1>1 DEF ToSet
<1>3. r = [i \in 1 .. n |-> o[(n - i) + 1]]
  BY DEF NewestFirst, Reverse, o
<1>4. r \in Seq(S) /\ Len(r) = n
  <2>1. \A i \in 1 .. n : (n - i) + 1 \in 1 .. n
    BY <1>2
  <2>2. \A i \in 1 .. n : o[(n - i) + 1] \in S
    BY <1>2, <2>1
  <2> HIDE DEF r
  <2>3. r \in [1 .. n -> S]
    BY <1>3, <2>2
  <2> HIDE DEF n
  <2> QED
    BY <1>2, <2>3
<1>5. CASE S = {}
  <2>1. n = 0
    <3>1. SUFFICES ASSUME n # 0 PROVE FALSE
      OBVIOUS
    <3>2. 1 \in 1 .. n
      BY <1>2, <3>1
    <3> QED
      BY <1>2, <1>5, <3>2
  <2>2. r = <<>>
    BY <1>3, <2>1
  <2> QED
    BY <1>5, <2>2 DEF FirstOf
<1>6. CASE S # {}
  <2>1. n # 0 /\ n \in 1 .. n /\ 1 \in 1 .. n
    BY <1>2, <1>6
  <2>2. r # <<>> /\ r[1] = o[n]
    BY <1>2, <1>3, <1>4, <2>1
  <2>3. FirstOf(r) = <<o[n]>>
    BY <1>4, <2>2, FirstOfOne
  <2>4. ASSUME NEW q \in S \ {o[n]} PROVE Older(q, o[n])
    <3>1. PICK i \in 1 .. n : q = o[i]
      BY <1>2
    <3>2. i < n
      BY <1>2, <2>4, <3>1
    <3> QED
      BY <1>1, <2>1, <3>1, <3>2 DEF InOrder
  <2> QED
    BY <1>2, <1>6, <2>1, <2>3, <2>4
<1> QED
  BY <1>5, <1>6

LEMMA NoneIsFirst == FirstOf(OldestFirst({})) = <<>>
<1>1. ToldApart({}) /\ IsFiniteSet({}) /\ Cardinality({}) = 0
  BY FS_EmptySet DEF ToldApart
<1>2. OldestFirst({}) \in Seq({}) /\ Len(OldestFirst({})) = 0
  BY <1>1, OldestFirstSorts
<1>3. OldestFirst({}) = <<>>
  BY <1>2
<1> QED
  BY <1>3 DEF FirstOf

LEMMA OnlyIsFirst ==
    ASSUME NEW r, r.started \in Int, r.id \in Int
    PROVE  FirstOf(OldestFirst({r})) = <<r>>
<1>1. ToldApart({r}) /\ IsFiniteSet({r}) /\ Cardinality({r}) = 1
  BY FS_Singleton DEF ToldApart
<1>2. OldestFirst({r}) \in Seq({r}) /\ Len(OldestFirst({r})) = 1
  BY <1>1, OldestFirstSorts
<1> DEFINE o == OldestFirst({r})
<1> HIDE DEF o
<1>3. o \in Seq({r}) /\ Len(o) = 1
  BY <1>2 DEF o
<1>4. o # <<>>
  BY <1>3, SomeLong
<1>5. FirstOf(o) = <<o[1]>> /\ o[1] \in {r}
  BY <1>3, <1>4, FirstOfOne
<1> QED
  BY <1>5 DEF o

(***************************************************************************)
(* Sums                                                                    *)
(***************************************************************************)

AnyOf(s) == CHOOSE x \in s : TRUE

(* f[s] is the sum of w over s, taken in the order of the choice.          *)
Sums(f, w, S) ==
    f[{}] = 0 /\ \A s \in SUBSET S : s # {} => f[s] = w[AnyOf(s)] + f[s \ {AnyOf(s)}]

LEMMA SumsExist ==
    ASSUME NEW S, IsFiniteSet(S), NEW w \in [S -> Int]
    PROVE  \E f \in [SUBSET S -> Int] : Sums(f, w, S)
<1> DEFINE ch == [s \in SUBSET S |-> AnyOf(s)]
           step == [p \in S \X Int |-> w[p[1]] + p[2]]
<1>1. Chooses(ch, S) /\ \A s \in SUBSET S : ch[s] = AnyOf(s)
  BY DEF Chooses, AnyOf
<1>2. \A s \in SUBSET S : s # {} => AnyOf(s) \in S
  BY DEF AnyOf
<1>3. step \in [S \X Int -> Int] /\ \A x \in S, k \in Int : step[<<x, k>>] = w[x] + k
  OBVIOUS
<1> HIDE DEF ch, step
<1>4. PICK f \in [SUBSET S -> Int] : IsFold(f, S, 0, step, ch)
  <2> DEFINE R == Int
  <2>1. 0 \in R /\ step \in [S \X R -> R]
    BY <1>3
  <2> HIDE DEF R
  <2>2. \E f \in [SUBSET S -> R] : IsFold(f, S, 0, step, ch)
    BY <1>1, <2>1, FoldExists
  <2> QED
    BY <2>2 DEF R
<1>5. ASSUME NEW s \in SUBSET S, s # {} PROVE f[s] = w[AnyOf(s)] + f[s \ {AnyOf(s)}]
  <2>1. AnyOf(s) \in S /\ s \ {AnyOf(s)} \in SUBSET S
    BY <1>2, <1>5
  <2>2. f[s] = step[<<AnyOf(s), f[s \ {AnyOf(s)}]>>]
    BY <1>1, <1>4, <1>5 DEF IsFold
  <2>3. f[s \ {AnyOf(s)}] \in Int
    BY <1>4, <2>1
  <2> QED
    BY <1>3, <2>1, <2>2, <2>3
<1>6. f[{}] = 0
  BY <1>4 DEF IsFold
<1> QED
  BY <1>4, <1>5, <1>6 DEF Sums

LEMMA SumsAgree ==
    ASSUME NEW S, NEW A \in SUBSET S, IsFiniteSet(A), NEW w,
           NEW f, Sums(f, w, S), NEW g, Sums(g, w, A)
    PROVE  g[A] = f[A]
<1> DEFINE ch == [s \in SUBSET A |-> AnyOf(s)]
           Good == {s \in SUBSET A : g[s] = f[s]}
<1>1. Chooses(ch, A) /\ \A s \in SUBSET A : ch[s] = AnyOf(s)
  BY DEF Chooses, AnyOf
<1>2. {} \in Good
  BY DEF Sums
<1>3. ASSUME NEW s \in SUBSET A, s # {}, s \ {ch[s]} \in Good PROVE s \in Good
  <2>1. g[s \ {AnyOf(s)}] = f[s \ {AnyOf(s)}]
    BY <1>1, <1>3
  <2>2. g[s] = w[AnyOf(s)] + g[s \ {AnyOf(s)}]
    BY <1>3 DEF Sums
  <2>3. f[s] = w[AnyOf(s)] + f[s \ {AnyOf(s)}]
    BY <1>3 DEF Sums
  <2> QED
    BY <2>1, <2>2, <2>3
<1> HIDE DEF ch
<1>4. \A s \in SUBSET A : s # {} /\ s \ {ch[s]} \in Good => s \in Good
  BY <1>3
<1> QED
  <2>1. A \in Good
    <3> HIDE DEF Good
    <3> QED
      BY <1>1, <1>2, <1>4, FoldInduction
  <2> QED
    BY <2>1

LEMMA SumIsOne ==
    ASSUME NEW S, IsFiniteSet(S), NEW w \in [S -> Int],
           NEW f \in [SUBSET S -> Int], Sums(f, w, S), NEW A \in SUBSET S
    PROVE  SumFunctionOnSet(w, A) = f[A]
<1> DEFINE Eq(g) == g = [s \in SUBSET A |-> IF s = {} THEN 0 ELSE w[AnyOf(s)] + g[s \ {AnyOf(s)}]]
           it == CHOOSE g : Eq(g)
<1>1. SumFunctionOnSet(w, A) = it[A]
  BY DEF SumFunctionOnSet, FoldFunctionOnSet, MapThenFoldSet, AnyOf
<1>2. IsFiniteSet(A)
  BY FS_Subset
<1>3. \E g : Eq(g)
  <2> DEFINE g == [s \in SUBSET A |-> f[s]]
  <2>1. ASSUME NEW s \in SUBSET A PROVE g[s] = IF s = {} THEN 0 ELSE w[AnyOf(s)] + g[s \ {AnyOf(s)}]
    BY DEF Sums
  <2>2. g = [s \in SUBSET A |-> g[s]]
    OBVIOUS
  <2> HIDE DEF g
  <2>3. Eq(g)
    BY <2>1, <2>2
  <2> QED
    BY <2>3
<1>4. Eq(it)
  BY <1>3
<1> HIDE DEF it
<1>5. Sums(it, w, A)
  BY <1>4 DEF Sums
<1> QED
  BY <1>1, <1>2, <1>5, SumsAgree

LEMMA SumIsInt ==
    ASSUME NEW S, IsFiniteSet(S), NEW w \in [S -> Int], NEW A \in SUBSET S
    PROVE  SumFunctionOnSet(w, A) \in Int
<1>1. PICK f \in [SUBSET S -> Int] : Sums(f, w, S)
  BY SumsExist
<1>2. SumFunctionOnSet(w, A) = f[A]
  BY <1>1, SumIsOne
<1> QED
  BY <1>1, <1>2

(* The order does not matter: any element can be taken last.               *)
Removes(f, w, S) == \A A \in SUBSET S : \A x \in A : f[A] = f[A \ {x}] + w[x]
LEMMA SumsRemove ==
    ASSUME NEW S, IsFiniteSet(S), NEW w \in [S -> Int],
           NEW f \in [SUBSET S -> Int], Sums(f, w, S)
    PROVE  Removes(f, w, S)
<1> DEFINE Right(A) == \A x \in A : f[A] = f[A \ {x}] + w[x]
           N == {n \in Nat : \A A \in SUBSET S : Cardinality(A) = n => Right(A)}
<1>1. \A A \in SUBSET S : /\ IsFiniteSet(A) /\ Cardinality(A) \in Nat
                          /\ A = {} <=> Cardinality(A) = 0
                          /\ \A x \in A : Cardinality(A \ {x}) = Cardinality(A) - 1
  BY FS_Subset, FS_CardinalityType, FS_EmptySet, FS_RemoveElement
<1>2. 0 \in N
  BY <1>1
<1>3. ASSUME NEW n \in Nat, n \in N PROVE n + 1 \in N
  <2> SUFFICES ASSUME NEW A \in SUBSET S, Cardinality(A) = n + 1, NEW x \in A
               PROVE  f[A] = f[A \ {x}] + w[x]
    BY <1>3
  <2> DEFINE c == AnyOf(A)
  <2>1. c \in A
    BY DEF AnyOf
  <2>2. f[A] = w[c] + f[A \ {c}]
    BY DEF Sums
  <2> HIDE DEF c
  <2>3. CASE x = c
    <3>1. w[c] \in Int /\ f[A \ {c}] \in Int
      BY <2>1
    <3> QED
      BY <2>2, <2>3, <3>1
  <2>4. CASE x # c
    <3> DEFINE B == A \ {c}
               D == A \ {x}
    <3>1. /\ B \in SUBSET S /\ Cardinality(B) = n /\ x \in B
          /\ D \in SUBSET S /\ Cardinality(D) = n /\ c \in D
      BY <1>1, <2>1, <2>4
    <3>2. B \ {x} = D \ {c} /\ D \ {c} \in SUBSET S
      OBVIOUS
    <3> HIDE DEF B, D
    <3>3. f[B] = f[B \ {x}] + w[x] /\ f[D] = f[D \ {c}] + w[c]
      BY <1>3, <3>1
    <3>4. w[c] \in Int /\ w[x] \in Int /\ f[D \ {c}] \in Int
      BY <2>1, <3>2
    <3>5. f[A] = f[D] + w[x]
      <4>1. f[A] = w[c] + f[B]
        BY <2>2 DEF B
      <4>2. f[B \ {x}] = f[D \ {c}]
        BY <3>2
      <4> QED
        BY <3>3, <3>4, <4>1, <4>2
    <3> QED
      BY <3>5 DEF D
  <2> QED
    BY <2>3, <2>4
<1> HIDE DEF N
<1>4. \A n \in Nat : n \in N
  BY <1>2, <1>3, Induction
<1> QED
  BY <1>1, <1>4 DEF N, Removes

(* A sum of two sets that have nothing in common.                          *)
Adds(f, S) == \A A, B \in SUBSET S : A \cap B = {} => f[A \cup B] = f[A] + f[B]
LEMMA SumsOfUnion ==
    ASSUME NEW S, IsFiniteSet(S), NEW w \in [S -> Int],
           NEW f \in [SUBSET S -> Int], Sums(f, w, S)
    PROVE  Adds(f, S)
<1>0. Removes(f, w, S)
  BY SumsRemove
<1> SUFFICES ASSUME NEW A \in SUBSET S, NEW B \in SUBSET S, A \cap B = {}
             PROVE  f[A \cup B] = f[A] + f[B]
  BY DEF Adds
<1> DEFINE ch == [s \in SUBSET B |-> AnyOf(s)]
           Good == {s \in SUBSET B : f[A \cup s] = f[A] + f[s]}
<1>1. Chooses(ch, B) /\ \A s \in SUBSET B : ch[s] = AnyOf(s)
  BY DEF Chooses, AnyOf
<1>2. {} \in Good
  <2>1. f[{}] = 0 /\ f[A] \in Int /\ A \cup {} = A
    BY DEF Sums
  <2>2. f[A \cup {}] = f[A]
    BY <2>1
  <2> QED
    BY <2>1, <2>2
<1>3. ASSUME NEW s \in SUBSET B, s # {}, s \ {ch[s]} \in Good PROVE s \in Good
  <2> DEFINE c == AnyOf(s)
             r == s \ {c}
             U == A \cup s
  <2>1. c \in s
    BY <1>3 DEF AnyOf
  <2>2. /\ c \in S /\ c \notin A /\ c \in U /\ U \in SUBSET S /\ s \in SUBSET S
        /\ U \ {c} = A \cup r /\ r \in SUBSET S
    BY <2>1
  <2>3. f[A \cup r] = f[A] + f[r]
    BY <1>1, <1>3
  <2> HIDE DEF c, r, U
  <2>4. f[U] = f[U \ {c}] + w[c]
    BY <1>0, <2>2 DEF Removes
  <2>5. f[s] = f[s \ {c}] + w[c]
    BY <1>0, <2>1, <2>2 DEF Removes
  <2>6. f[U \ {c}] = f[A \cup r] /\ f[s \ {c}] = f[r]
    BY <2>2 DEF r
  <2>7. f[A] \in Int /\ f[r] \in Int /\ w[c] \in Int
    BY <2>2
  <2>8. f[U] = f[A] + f[s]
    BY <2>3, <2>4, <2>5, <2>6, <2>7
  <2> QED
    BY <2>8 DEF U
<1> HIDE DEF ch
<1>4. \A s \in SUBSET B : s # {} /\ s \ {ch[s]} \in Good => s \in Good
  BY <1>3
<1>5. B \in Good
  <2> HIDE DEF Good
  <2>1. IsFiniteSet(B)
    BY FS_Subset
  <2> QED
    BY <1>1, <1>2, <1>4, <2>1, FoldInduction
<1> QED
  BY <1>5

LEMMA SumsArePositive ==
    ASSUME NEW S, IsFiniteSet(S), NEW w \in [S -> Int], \A x \in S : w[x] > 0,
           NEW f \in [SUBSET S -> Int], Sums(f, w, S), NEW A \in SUBSET S
    PROVE  f[A] >= 0 /\ (A # {} => f[A] > 0)
<1> DEFINE ch == [s \in SUBSET A |-> AnyOf(s)]
           Good == {s \in SUBSET A : f[s] >= 0 /\ (s # {} => f[s] > 0)}
<1>1. Chooses(ch, A) /\ \A s \in SUBSET A : ch[s] = AnyOf(s)
  BY DEF Chooses, AnyOf
<1>2. {} \in Good
  BY DEF Sums
<1>3. ASSUME NEW s \in SUBSET A, s # {}, s \ {ch[s]} \in Good PROVE s \in Good
  <2>1. AnyOf(s) \in s /\ s \ {AnyOf(s)} \in SUBSET S
    BY <1>3 DEF AnyOf
  <2>2. f[s \ {AnyOf(s)}] >= 0 /\ f[s \ {AnyOf(s)}] \in Int
    BY <1>1, <1>3, <2>1
  <2>3. w[AnyOf(s)] > 0 /\ w[AnyOf(s)] \in Int
    BY <2>1
  <2>4. f[s] = w[AnyOf(s)] + f[s \ {AnyOf(s)}]
    BY <1>3 DEF Sums
  <2>5. f[s] > 0
    BY <2>2, <2>3, <2>4
  <2> QED
    BY <2>5
<1> HIDE DEF ch
<1>4. \A s \in SUBSET A : s # {} /\ s \ {ch[s]} \in Good => s \in Good
  BY <1>3
<1>5. A \in Good
  <2> HIDE DEF Good
  <2>1. IsFiniteSet(A)
    BY FS_Subset
  <2> QED
    BY <1>1, <1>2, <1>4, <2>1, FoldInduction
<1> QED
  BY <1>5

(* Of two sets of positive numbers, one in the other, the smaller set has  *)
(* the smaller sum.                                                        *)
LEMMA SumIsLess ==
    ASSUME NEW S, IsFiniteSet(S), NEW w \in [S -> Int], \A x \in S : w[x] > 0,
           NEW A \in SUBSET S, NEW B \in SUBSET S, A \cap B = {}, B # {}
    PROVE  SumFunctionOnSet(w, A) < SumFunctionOnSet(w, A \cup B)
<1>1. PICK f \in [SUBSET S -> Int] : Sums(f, w, S)
  BY SumsExist
<1>2. A \cup B \in SUBSET S
  OBVIOUS
<1>3. SumFunctionOnSet(w, A) = f[A] /\ SumFunctionOnSet(w, A \cup B) = f[A \cup B]
  BY <1>1, <1>2, SumIsOne
<1>4. f[A \cup B] = f[A] + f[B]
  <2>1. Adds(f, S)
    BY <1>1, SumsOfUnion
  <2> QED
    BY <2>1 DEF Adds
<1>5. f[B] > 0
  BY <1>1, SumsArePositive
<1>6. f[A] \in Int /\ f[B] \in Int
  OBVIOUS
<1> QED
  BY <1>3, <1>4, <1>5, <1>6

(* Equal elements, equal sums.                                             *)
LEMMA SumsSame ==
    ASSUME NEW S, NEW A \in SUBSET S, IsFiniteSet(A), NEW w, NEW v, \A x \in A : w[x] = v[x],
           NEW f, Sums(f, w, S), NEW g, Sums(g, v, S)
    PROVE  f[A] = g[A]
<1> DEFINE ch == [s \in SUBSET A |-> AnyOf(s)]
           Good == {s \in SUBSET A : g[s] = f[s]}
<1>1. Chooses(ch, A) /\ \A s \in SUBSET A : ch[s] = AnyOf(s)
  BY DEF Chooses, AnyOf
<1>2. {} \in Good
  BY DEF Sums
<1>3. ASSUME NEW s \in SUBSET A, s # {}, s \ {ch[s]} \in Good PROVE s \in Good
  <2>1. AnyOf(s) \in A
    BY <1>1, <1>3 DEF Chooses
  <2>2. g[s] = v[AnyOf(s)] + g[s \ {AnyOf(s)}] /\ f[s] = w[AnyOf(s)] + f[s \ {AnyOf(s)}]
    BY <1>3 DEF Sums
  <2> QED
    BY <1>1, <1>3, <2>1, <2>2
<1> HIDE DEF ch
<1>4. \A s \in SUBSET A : s # {} /\ s \ {ch[s]} \in Good => s \in Good
  BY <1>3
<1>5. A \in Good
  <2> HIDE DEF Good
  <2> QED
    BY <1>1, <1>2, <1>4, FoldInduction
<1> QED
  BY <1>5

LEMMA SumOfZeros ==
    ASSUME NEW S, IsFiniteSet(S), NEW w \in [S -> Int], \A x \in S : w[x] = 0
    PROVE  SumFunctionOnSet(w, S) = 0
<1> DEFINE f == [s \in SUBSET S |-> 0]
<1>1. \A s \in SUBSET S : s # {} => AnyOf(s) \in S
  BY DEF AnyOf
<1>2. Sums(f, w, S) /\ f \in [SUBSET S -> Int]
  BY <1>1 DEF Sums
<1>3. SumFunctionOnSet(w, S) = f[S]
  <2> HIDE DEF f
  <2> QED
    BY <1>2, SumIsOne
<1> QED
  BY <1>3

LEMMA SumPut ==
    ASSUME NEW S, IsFiniteSet(S), NEW w \in [S -> Int], NEW x \in S, NEW v \in [S -> Int],
           \A y \in S : y # x => v[y] = w[y]
    PROVE  SumFunctionOnSet(v, S) = SumFunctionOnSet(w, S) + (v[x] - w[x])
<1>1. PICK f \in [SUBSET S -> Int] : Sums(f, w, S)
  BY SumsExist
<1>2. PICK g \in [SUBSET S -> Int] : Sums(g, v, S)
  BY SumsExist
<1>3. SumFunctionOnSet(w, S) = f[S] /\ SumFunctionOnSet(v, S) = g[S]
  BY <1>1, <1>2, SumIsOne
<1> DEFINE A == S \ {x}
<1>4. A \in SUBSET S /\ IsFiniteSet(A) /\ \A y \in A : w[y] = v[y]
  BY FS_Subset
<1>5. f[A] = g[A]
  <2> HIDE DEF A
  <2> QED
    BY <1>1, <1>2, <1>4, SumsSame
<1>6. Removes(f, w, S) /\ Removes(g, v, S)
  BY <1>1, <1>2, SumsRemove
<1>7. f[S] = f[A] + w[x] /\ g[S] = g[A] + v[x]
  BY <1>6 DEF Removes
<1>8. f[A] \in Int /\ w[x] \in Int /\ v[x] \in Int
  BY <1>1
<1> HIDE DEF A
<1> QED
  BY <1>3, <1>5, <1>7, <1>8

(* f has the sums of w over all subsets of S.                              *)
IsSum(f, w, S) ==
    /\ f \in [SUBSET S -> Int] /\ Sums(f, w, S)
    /\ Adds(f, S) /\ \A A \in SUBSET S : SumFunctionOnSet(w, A) = f[A]

LEMMA SumOfAll ==
    ASSUME NEW S, IsFiniteSet(S), NEW w \in [S -> Int]
    PROVE  \E f : IsSum(f, w, S)
<1>1. PICK f \in [SUBSET S -> Int] : Sums(f, w, S)
  BY SumsExist
<1>2. Adds(f, S)
  BY <1>1, SumsOfUnion
<1>3. \A A \in SUBSET S : SumFunctionOnSet(w, A) = f[A]
  BY <1>1, SumIsOne
<1> QED
  BY <1>1, <1>2, <1>3 DEF IsSum

(* What is summed up by parts and then over the parts is summed up.        *)
SumsParts(v, w, S, K, key) ==
    /\ \A a \in S : key[a] \in K
    /\ \A k \in K : v[k] = SumFunctionOnSet(w, {a \in S : key[a] = k})

LEMMA PartSums ==
    ASSUME NEW S, NEW w, NEW K, NEW key, NEW v, SumsParts(v, w, S, K, key),
           NEW f, IsSum(f, w, S), NEW g, IsSum(g, v, K), IsFiniteSet(K)
    PROVE  g[K] = f[S]
<1> DEFINE Part(s) == {a \in S : key[a] \in s}
           ch == [s \in SUBSET K |-> AnyOf(s)]
           Good == {s \in SUBSET K : g[s] = f[Part(s)]}
<1>1. Chooses(ch, K)
  BY DEF Chooses, AnyOf
<1>2. \A s \in SUBSET K : ch[s] = AnyOf(s)
  OBVIOUS
<1>3. {} \in Good
  <2>1. Part({}) = {}
    OBVIOUS
  <2> QED
    BY <2>1 DEF Sums, IsSum
<1>4. ASSUME NEW s \in SUBSET K, s # {}, s \ {ch[s]} \in Good PROVE s \in Good
  <2> DEFINE k == AnyOf(s)
             one == {a \in S : key[a] = k}
             others == Part(s \ {k})
  <2>1. k \in K /\ k \in s /\ ch[s] = k
    BY <1>1, <1>2, <1>4 DEF Chooses
  <2>2. one \in SUBSET S /\ others \in SUBSET S /\ one \cap others = {} /\ Part(s) = one \cup others
    BY <2>1
  <2>3. g[s] = v[k] + g[s \ {k}]
    BY <1>4 DEF Sums, IsSum
  <2>4. v[k] = SumFunctionOnSet(w, one)
    BY <2>1 DEF SumsParts
  <2>5. g[s \ {k}] = f[others]
    BY <1>4, <2>1
  <2> HIDE DEF one, others, k
  <2>6. SumFunctionOnSet(w, one) = f[one]
    BY <2>2 DEF IsSum
  <2>7. f[one \cup others] = f[one] + f[others]
    BY <2>2 DEF IsSum, Adds
  <2>8. g[s] = f[Part(s)]
    BY <2>2, <2>3, <2>4, <2>5, <2>6, <2>7
  <2> QED
    BY <1>4, <2>8
<1>5. Part(K) = S
  BY DEF SumsParts
<1> HIDE DEF ch
<1>6. K \in Good
  <2>1. \A s \in SUBSET K : s # {} /\ s \ {ch[s]} \in Good => s \in Good
    BY <1>4
  <2> HIDE DEF Good
  <2> QED
    BY <1>1, <1>3, <2>1, FoldInduction
<1> QED
  BY <1>5, <1>6

LEMMA SumOfParts ==
    ASSUME NEW S, IsFiniteSet(S), NEW w \in [S -> Int], NEW K, IsFiniteSet(K), NEW key,
           NEW v \in [K -> Int], SumsParts(v, w, S, K, key)
    PROVE  SumFunctionOnSet(v, K) = SumFunctionOnSet(w, S)
<1>1. PICK f : IsSum(f, w, S)
  BY SumOfAll
<1>2. PICK g : IsSum(g, v, K)
  BY SumOfAll
<1>3. g[K] = f[S]
  BY <1>1, <1>2, PartSums
<1>4. SumFunctionOnSet(w, S) = f[S] /\ SumFunctionOnSet(v, K) = g[K]
  BY <1>1, <1>2 DEF IsSum
<1> QED
  BY <1>3, <1>4

(* A total, and the shares of those it comes from, all built up step by    *)
(* step: the shares add up to the total.                                   *)
Shares(share, total, n, of, d, A) ==
    /\ n \in Nat
    /\ \A k \in 1 .. n : of[k] \in A /\ d[k] \in Int
    /\ \A k \in 0 .. n : total[k] \in Int /\ \A a \in A : share[a][k] \in Int
    /\ total[0] = 0 /\ \A a \in A : share[a][0] = 0
    /\ \A k \in 1 .. n :
         /\ total[k] = total[k - 1] + d[k]
         /\ \A a \in A : share[a][k] = IF of[k] = a THEN share[a][k - 1] + d[k] ELSE share[a][k - 1]

LEMMA SharesAddUp ==
    ASSUME NEW A, IsFiniteSet(A), NEW n, NEW of, NEW d, NEW share, NEW total,
           Shares(share, total, n, of, d, A)
    PROVE  SumFunctionOnSet([a \in A |-> share[a][n]], A) = total[n]
<1> DEFINE W(k) == [a \in A |-> share[a][k]]
           Good == {k \in 0 .. n : SumFunctionOnSet(W(k), A) = total[k]}
<1>0. n \in Nat
  BY DEF Shares
<1>1. \A k \in 0 .. n : W(k) \in [A -> Int]
  BY DEF Shares
<1>2. 0 \in Good
  <2>1. \A a \in A : W(0)[a] = 0
    BY DEF Shares
  <2>2. W(0) \in [A -> Int] /\ total[0] = 0
    BY <1>0, <1>1 DEF Shares
  <2> HIDE DEF W
  <2>3. SumFunctionOnSet(W(0), A) = 0
    BY <2>1, <2>2, SumOfZeros
  <2> QED
    BY <1>0, <2>2, <2>3
<1>3. ASSUME NEW k \in 1 .. n, k - 1 \in Good PROVE k \in Good
  <2> DEFINE x == of[k]
  <2>1. x \in A /\ k \in 0 .. n /\ k - 1 \in 0 .. n
    BY <1>0 DEF Shares
  <2>2. \A y \in A : y # x => W(k)[y] = W(k - 1)[y]
    BY DEF Shares
  <2>3. W(k)[x] = W(k - 1)[x] + d[k]
    BY <2>1 DEF Shares
  <2>4. W(k) \in [A -> Int] /\ W(k - 1) \in [A -> Int]
    BY <1>1, <2>1
  <2>5. total[k] = total[k - 1] + d[k] /\ d[k] \in Int /\ total[k - 1] \in Int
    BY <2>1 DEF Shares
  <2>6. SumFunctionOnSet(W(k - 1), A) = total[k - 1]
    BY <1>3
  <2> HIDE DEF W, x
  <2>7. W(k - 1)[x] \in Int
    BY <2>1, <2>4
  <2>8. SumFunctionOnSet(W(k), A) = SumFunctionOnSet(W(k - 1), A) + (W(k)[x] - W(k - 1)[x])
    BY <2>1, <2>2, <2>4, SumPut
  <2>9. SumFunctionOnSet(W(k), A) = total[k - 1] + d[k]
    BY <2>3, <2>5, <2>6, <2>7, <2>8
  <2> QED
    BY <2>5, <2>9
<1>4. \A k \in 0 .. n : k \in Good
  <2> HIDE DEF Good
  <2> QED
    BY <1>0, <1>2, <1>3, Upwards
<1> QED
  BY <1>0, <1>4

(***************************************************************************)
(* Lists of lists, and lists of three                                      *)
(***************************************************************************)

LEMMA FlattenTyped ==
    ASSUME NEW X, NEW q \in Seq(Seq(X))
    PROVE  FlattenSeq(q) \in Seq(X)
<1> DEFINE n == Len(q)
           R == Seq(X)
           step == [p \in (1 .. n) \X R |-> IF p[1] = 1 THEN q[p[1]] ELSE p[2] \o q[p[1]]]
           Eq(g) == g = [i \in 1 .. n |-> IF i = 1 THEN q[i] ELSE g[i - 1] \o q[i]]
           it == CHOOSE g : Eq(g)
<1>1. n \in Nat /\ DOMAIN q = 1 .. n /\ \A i \in 1 .. n : q[i] \in R
  OBVIOUS
<1>2. FlattenSeq(q) = IF n = 0 THEN q ELSE it[n]
  BY DEF FlattenSeq
<1>3. CASE n = 0
  <2>1. q = <<>>
    BY <1>3
  <2> QED
    BY <1>2, <1>3, <2>1
<1>4. CASE n # 0
  <2>1. <<>> \in R /\ \A r \in R, s \in R : r \o s \in R
    OBVIOUS
  <2> HIDE DEF R
  <2>2. step \in [(1 .. n) \X R -> R]
    BY <1>1, <2>1
  <2>3. \A k \in 1 .. n, r \in R : step[<<k, r>>] = IF k = 1 THEN q[k] ELSE r \o q[k]
    OBVIOUS
  <2> HIDE DEF n, step
  <2>4. PICK f \in [SUBSET (1 .. n) -> R] : LastFold(f, n, R, <<>>, step)
    BY <1>1, <2>1, <2>2, PrefixFold
  <2>5. PICK F : States(F, n, R, <<>>, step, f[1 .. n])
    BY <1>1, <2>1, <2>2, <2>4, FoldStates
  <2>6. \A k \in 1 .. n : /\ F[k] = IF k = 1 THEN q[k] ELSE F[k - 1] \o q[k]
                          /\ F[k] \in R
    <3> TAKE k \in 1 .. n
    <3>1. k - 1 \in 0 .. n /\ k \in 0 .. n
      BY <1>1
    <3>2. F[k] = step[<<k, F[k - 1]>>] /\ F[k] \in R /\ F[k - 1] \in R
      BY <2>5, <3>1 DEF States
    <3>3. step[<<k, F[k - 1]>>] = IF k = 1 THEN q[k] ELSE F[k - 1] \o q[k]
      BY <2>3, <3>2
    <3> QED
      BY <3>2, <3>3
  <2>7. Eq([k \in 1 .. n |-> F[k]])
    <3> DEFINE g == [k \in 1 .. n |-> F[k]]
    <3>1. \A k \in 1 .. n : k # 1 => k - 1 \in 1 .. n
      BY <1>1
    <3>2. \A k \in 1 .. n : g[k] = IF k = 1 THEN q[k] ELSE g[k - 1] \o q[k]
      BY <2>6, <3>1
    <3>3. g = [k \in 1 .. n |-> g[k]]
      OBVIOUS
    <3> HIDE DEF g
    <3>4. Eq(g)
      BY <3>2, <3>3
    <3> QED
      BY <3>4 DEF g
  <2>8. Eq(it)
    BY <2>7
  <2> HIDE DEF it
  <2> DEFINE Good == {k \in 0 .. n : k # 0 => it[k] \in R}
  <2>9. 0 \in Good
    BY <1>1
  <2>10. ASSUME NEW k \in 1 .. n, k - 1 \in Good PROVE k \in Good
    <3>1. k # 1 => it[k - 1] \in R
      BY <1>1, <2>10
    <3>2. it[k] = IF k = 1 THEN q[k] ELSE it[k - 1] \o q[k]
      BY <2>8
    <3>3. it[k] \in R
      BY <1>1, <2>1, <3>1, <3>2
    <3> QED
      BY <1>1, <3>3
  <2>11. \A k \in 0 .. n : k \in Good
    <3> HIDE DEF Good
    <3> QED
      BY <1>1, <2>9, <2>10, Upwards
  <2>12. it[n] \in R
    BY <1>1, <1>4, <2>11
  <2> QED
    BY <1>2, <1>4, <2>12 DEF R
<1> QED
  BY <1>3, <1>4

LEMMA Triple ==
    ASSUME NEW x, NEW y, NEW z
    PROVE  /\ <<x, y, z>>[1] = x /\ <<x, y, z>>[2] = y /\ <<x, y, z>>[3] = z
           /\ Len(<<x, y, z>>) = 3 /\ Tail(<<x, y, z>>) = <<y, z>>
           /\ SubSeq(<<y, z>>, 1, 1) = <<y>> /\ Len(<<y, z>>) = 2
           /\ Append(<<x>> \o <<y>>, z) = <<x, y, z>>
<1> DEFINE X == {x, y, z}
<1>0. x \in X /\ y \in X /\ z \in X
  OBVIOUS
<1> HIDE DEF X
<1>1. <<x, y, z>> \in Seq(X) /\ <<y, z>> \in Seq(X) /\ <<x, y>> \in Seq(X) /\ <<y>> \in Seq(X)
  BY <1>0
<1>2. /\ <<x, y, z>>[1] = x /\ <<x, y, z>>[2] = y /\ <<x, y, z>>[3] = z /\ Len(<<x, y, z>>) = 3
      /\ <<y, z>>[1] = y /\ <<y, z>>[2] = z /\ Len(<<y, z>>) = 2
      /\ <<x, y>>[1] = x /\ <<x, y>>[2] = y /\ Len(<<x, y>>) = 2
  BY <1>0
<1>3. ASSUME NEW t \in Seq(X), Len(t) = 3, t[1] = x, t[2] = y, t[3] = z
      PROVE  Tail(t) = <<y, z>> /\ t = <<x, y, z>>
  <2> DEFINE c == Tail(t)
  <2>1. c \in Seq(X) /\ Len(c) = 2 /\ c[1] = y /\ c[2] = z
    <3>1. t # <<>>
      <4>1. Len(<<>>) = 0
        OBVIOUS
      <4>2. Len(t) # 0
        BY <1>3
      <4> QED
        BY <4>1, <4>2
    <3>2. c \in Seq(X) /\ Len(c) = Len(t) - 1 /\ \A i \in 1 .. Len(t) - 1 : c[i] = t[i + 1]
      BY <3>1, SMT
    <3> HIDE DEF c
    <3>3. 1 \in 1 .. Len(t) - 1 /\ 2 \in 1 .. Len(t) - 1 /\ 1 + 1 = 2 /\ 2 + 1 = 3
      BY <1>3
    <3>4. c[1] = t[1 + 1] /\ c[2] = t[2 + 1]
      BY <3>2, <3>3
    <3> QED
      BY <1>3, <3>2, <3>3, <3>4
  <2> HIDE DEF c
  <2>2. c = <<y, z>>
    BY <2>1
  <2>3. t = <<x, y, z>>
    BY <1>3
  <2> QED
    BY <2>2, <2>3 DEF c
<1>4. ASSUME NEW t \in Seq(X), Len(t) = 2, t[1] = y PROVE SubSeq(t, 1, 1) = <<y>>
  <2> DEFINE c == SubSeq(t, 1, 1)
  <2>1. c \in Seq(X) /\ Len(c) = 1 /\ c[1] = t[1]
    BY <1>4
  <2> HIDE DEF c
  <2>2. c = <<y>>
    BY <1>4, <2>1
  <2> QED
    BY <2>2 DEF c
<1>5. ASSUME NEW t \in Seq(X), Len(t) = 2, t[1] = x, t[2] = y PROVE Append(t, z) = <<x, y, z>>
  <2> DEFINE c == Append(t, z)
  <2>1. c \in Seq(X) /\ Len(c) = Len(t) + 1 /\ c[Len(t) + 1] = z /\ \A i \in 1 .. Len(t) : c[i] = t[i]
    BY <1>0
  <2> HIDE DEF c
  <2>2. 1 \in 1 .. Len(t) /\ 2 \in 1 .. Len(t) /\ Len(t) + 1 = 3
    BY <1>5
  <2>3. Len(c) = 3 /\ c[1] = x /\ c[2] = y /\ c[3] = z
    BY <1>5, <2>1, <2>2
  <2> QED
    BY <1>3, <2>1, <2>3 DEF c
<1>6. Append(<<x, y>>, z) = <<x, y, z>>
  BY <1>1, <1>2, <1>5
<1>7. Tail(<<x, y, z>>) = <<y, z>>
  BY <1>1, <1>2, <1>3
<1>8. SubSeq(<<y, z>>, 1, 1) = <<y>>
  BY <1>1, <1>2, <1>4
<1> QED
  BY <1>2, <1>6, <1>7, <1>8, OneAndOne

(***************************************************************************)
(* Lists that grow at their end                                            *)
(***************************************************************************)

(* One element more, one step more.                                        *)
LEMMA FoldMore ==
    ASSUME NEW n \in Nat, NEW R, NEW base, NEW step, NEW more, NEW F, NEW G, NEW last, NEW end,
           States(F, n, R, base, step, last), States(G, n + 1, R, base, more, end),
           \A k \in 1 .. n, r \in R : more[<<k, r>>] = step[<<k, r>>]
    PROVE  last \in R /\ end = more[<<n + 1, last>>]
<1> DEFINE Good == {k \in 0 .. n : G[k] = F[k]}
<1>1. 0 \in Good
  BY DEF States
<1>2. ASSUME NEW k \in 1 .. n, k - 1 \in Good PROVE k \in Good
  <2>1. k - 1 \in 0 .. n /\ k \in 0 .. n /\ k \in 1 .. n + 1 /\ G[k - 1] = F[k - 1]
    BY <1>2
  <2>2. F[k - 1] \in R /\ F[k] = step[<<k, F[k - 1]>>]
    BY <2>1 DEF States
  <2>3. G[k] = more[<<k, G[k - 1]>>]
    BY <2>1 DEF States
  <2>4. more[<<k, F[k - 1]>>] = step[<<k, F[k - 1]>>]
    BY <2>2
  <2> QED
    BY <2>1, <2>2, <2>3, <2>4
<1>3. \A k \in 0 .. n : k \in Good
  <2> HIDE DEF Good
  <2> QED
    BY <1>1, <1>2, Upwards
<1>4. n \in 0 .. n /\ n + 1 \in 1 .. n + 1 /\ (n + 1) - 1 = n
  OBVIOUS
<1>5. G[n] = last /\ last \in R
  BY <1>3, <1>4 DEF States
<1>6. G[n + 1] = more[<<n + 1, G[n]>>] /\ G[n + 1] = end
  BY <1>4 DEF States
<1> QED
  BY <1>5, <1>6

LEMMA FlattenNone == FlattenSeq(<<>>) = <<>>
BY DEF FlattenSeq

(* The parts of a list joined up to each of them.                          *)
Joined(q, it) == \A k \in 1 .. Len(q) : it[k] = IF k = 1 THEN q[k] ELSE it[k - 1] \o q[k]

LEMMA FlattenJoins ==
    ASSUME NEW X, NEW q \in Seq(Seq(X)), Len(q) # 0
    PROVE  \E it : Joined(q, it) /\ FlattenSeq(q) = it[Len(q)]
<1> DEFINE n == Len(q)
           R == Seq(X)
           step == [p \in (1 .. n) \X R |-> IF p[1] = 1 THEN q[p[1]] ELSE p[2] \o q[p[1]]]
           Eq(g) == g = [i \in 1 .. n |-> IF i = 1 THEN q[i] ELSE g[i - 1] \o q[i]]
           it == CHOOSE g : Eq(g)
<1>1. n \in Nat /\ n # 0 /\ \A i \in 1 .. n : q[i] \in R
  OBVIOUS
<1>2. FlattenSeq(q) = it[n]
  BY <1>1 DEF FlattenSeq
<1>3. <<>> \in R /\ \A r \in R, s \in R : r \o s \in R
  OBVIOUS
<1> HIDE DEF R
<1>4. step \in [(1 .. n) \X R -> R]
  BY <1>1, <1>3
<1>5. \A k \in 1 .. n, r \in R : step[<<k, r>>] = IF k = 1 THEN q[k] ELSE r \o q[k]
  OBVIOUS
<1> HIDE DEF n, step
<1>6. PICK f \in [SUBSET (1 .. n) -> R] : LastFold(f, n, R, <<>>, step)
  BY <1>1, <1>3, <1>4, PrefixFold
<1>7. PICK F : States(F, n, R, <<>>, step, f[1 .. n])
  BY <1>1, <1>3, <1>4, <1>6, FoldStates
<1> DEFINE g == [k \in 1 .. n |-> F[k]]
<1>8. \A k \in 1 .. n : g[k] = IF k = 1 THEN q[k] ELSE g[k - 1] \o q[k]
  <2> TAKE k \in 1 .. n
  <2>1. k - 1 \in 0 .. n /\ k \in 0 .. n /\ (k # 1 => k - 1 \in 1 .. n)
    BY <1>1
  <2>2. F[k] = step[<<k, F[k - 1]>>] /\ F[k - 1] \in R
    BY <1>7, <2>1 DEF States
  <2>3. F[k] = IF k = 1 THEN q[k] ELSE F[k - 1] \o q[k]
    BY <1>5, <2>2
  <2> QED
    BY <2>1, <2>3
<1>9. Eq(g)
  <2>1. g = [k \in 1 .. n |-> g[k]]
    OBVIOUS
  <2> HIDE DEF g
  <2> QED
    BY <1>8, <2>1
<1> HIDE DEF g
<1>10. Eq(it)
  BY <1>9
<1> HIDE DEF it
<1>11. \A k \in 1 .. n : it[k] = IF k = 1 THEN q[k] ELSE it[k - 1] \o q[k]
  BY <1>10
<1>12. Joined(q, it)
  BY <1>11 DEF Joined, n
<1> QED
  BY <1>2, <1>12 DEF n

(* What is appended to a list of lists ends up at the end.                 *)
LEMMA FlattenAppend ==
    ASSUME NEW X, NEW q \in Seq(Seq(X)), NEW x \in Seq(X)
    PROVE  FlattenSeq(Append(q, x)) = FlattenSeq(q) \o x
<1> DEFINE n == Len(q)
           c == Append(q, x)
<1>1. n \in Nat /\ c \in Seq(Seq(X)) /\ Len(c) = n + 1 /\ c[n + 1] = x /\ \A i \in 1 .. n : c[i] = q[i]
  OBVIOUS
<1> HIDE DEF c
<1>2. PICK more : Joined(c, more) /\ FlattenSeq(c) = more[n + 1]
  <2>1. Len(c) # 0
    BY <1>1
  <2>2. \E more : Joined(c, more) /\ FlattenSeq(c) = more[Len(c)]
    BY <1>1, <2>1, FlattenJoins
  <2> QED
    BY <1>1, <2>2
<1>3. CASE n = 0
  <2>1. q = <<>> /\ FlattenSeq(q) = <<>> /\ <<>> \o x = x
    BY <1>3, FlattenNone
  <2>2. more[1] = c[1]
    BY <1>1, <1>2, <1>3 DEF Joined
  <2> QED
    BY <1>1, <1>2, <1>3, <2>1, <2>2 DEF c
<1>4. CASE n # 0
  <2>1. PICK it : Joined(q, it) /\ FlattenSeq(q) = it[n]
    BY <1>4, FlattenJoins
  <2> HIDE DEF n
  <2> DEFINE Good == {k \in 0 .. n : k # 0 => more[k] = it[k]}
  <2>2. 0 \in Good
    BY <1>1
  <2>3. ASSUME NEW k \in 1 .. n, k - 1 \in Good PROVE k \in Good
    <3>1. k \in 1 .. n + 1 /\ c[k] = q[k] /\ (k # 1 => more[k - 1] = it[k - 1])
      BY <1>1, <2>3
    <3>2. more[k] = IF k = 1 THEN c[k] ELSE more[k - 1] \o c[k]
      BY <1>1, <1>2, <3>1 DEF Joined
    <3>3. it[k] = IF k = 1 THEN q[k] ELSE it[k - 1] \o q[k]
      BY <2>1 DEF Joined, n
    <3>4. more[k] = it[k]
      BY <3>1, <3>2, <3>3
    <3> QED
      BY <1>1, <3>4
  <2>4. \A k \in 0 .. n : k \in Good
    <3> HIDE DEF Good
    <3> QED
      BY <1>1, <2>2, <2>3, Upwards
  <2>5. more[n] = it[n]
    BY <1>1, <1>4, <2>4
  <2>6. n + 1 \in 1 .. n + 1 /\ n + 1 # 1 /\ (n + 1) - 1 = n
    BY <1>1, <1>4
  <2>7. more[n + 1] = more[n] \o c[n + 1]
    BY <1>1, <1>2, <2>6 DEF Joined
  <2> QED
    BY <1>1, <1>2, <2>1, <2>5, <2>7 DEF c
<1> QED
  BY <1>3, <1>4

LEMMA SumOfNone == ASSUME NEW w \in [1 .. 0 -> Int] PROVE SumFunctionOnSet(w, 1 .. 0) = 0
<1> DEFINE S == 1 .. 0
<1>1. S = {} /\ IsFiniteSet(S) /\ \A x \in S : w[x] = 0
  BY FS_EmptySet
<1>2. w \in [S -> Int]
  OBVIOUS
<1> HIDE DEF S
<1>3. SumFunctionOnSet(w, S) = 0
  BY <1>1, <1>2, SumOfZeros
<1> QED
  BY <1>3 DEF S

LEMMA HasSum ==
    ASSUME NEW S, IsFiniteSet(S), NEW w \in [S -> Int]
    PROVE  \E f \in [SUBSET S -> Int] : Sums(f, w, S) /\ SumFunctionOnSet(w, S) = f[S]
<1>1. PICK f \in [SUBSET S -> Int] : Sums(f, w, S)
  BY SumsExist
<1>2. SumFunctionOnSet(w, S) = f[S]
  BY <1>1, SumIsOne
<1> QED
  BY <1>1, <1>2

LEMMA SumOneMore ==
    ASSUME NEW S, IsFiniteSet(S), NEW x \in S, NEW w \in [S -> Int],
           NEW A \in SUBSET S, \A y \in S : y \in A <=> y # x,
           NEW v \in [A -> Int], \A y \in A : w[y] = v[y]
    PROVE  SumFunctionOnSet(w, S) = SumFunctionOnSet(v, A) + w[x]
<1>1. IsFiniteSet(A) /\ A \in SUBSET S /\ A \in SUBSET A /\ S \in SUBSET S
  BY FS_Subset
<1>2. PICK f \in [SUBSET S -> Int] : Sums(f, w, S) /\ SumFunctionOnSet(w, S) = f[S]
  BY HasSum
<1>3. PICK g \in [SUBSET A -> Int] : Sums(g, v, A) /\ SumFunctionOnSet(v, A) = g[A]
  BY <1>1, HasSum
<1>5. Removes(f, w, S)
  BY <1>2, SumsRemove
<1>6. f[S] = f[A] + w[x]
  <2>1. S \ {x} = A
    OBVIOUS
  <2> QED
    BY <1>1, <1>5, <2>1 DEF Removes
<1>7. Sums(f, w, A)
  <2>1. \A s \in SUBSET A : s \in SUBSET S
    BY <1>1
  <2> QED
    BY <1>2, <2>1 DEF Sums
<1>8. f[A] = g[A]
  BY <1>1, <1>3, <1>7, SumsSame
<1> QED
  BY <1>2, <1>3, <1>6, <1>8

LEMMA SumAppend ==
    ASSUME NEW n \in Nat, NEW v \in [1 .. n -> Int], NEW w \in [1 .. n + 1 -> Int],
           \A i \in 1 .. n : w[i] = v[i]
    PROVE  SumFunctionOnSet(w, 1 .. n + 1) = SumFunctionOnSet(v, 1 .. n) + w[n + 1]
<1> DEFINE A == 1 .. n
           S == 1 .. n + 1
           x == n + 1
<1>1. IsFiniteSet(S) /\ x \in S /\ A \in SUBSET S /\ \A y \in S : y \in A <=> y # x
  <2>1. x \in Int /\ IsFiniteSet(S)
    BY FS_Interval
  <2>2. x \in S /\ A \in SUBSET S /\ \A y \in S : y \in A <=> y # x
    OBVIOUS
  <2> QED
    BY <2>1, <2>2
<1>2. v \in [A -> Int] /\ w \in [S -> Int] /\ \A y \in A : w[y] = v[y]
  OBVIOUS
<1> HIDE DEF A, S, x
<1>3. SumFunctionOnSet(w, S) = SumFunctionOnSet(v, A) + w[x]
  BY <1>1, <1>2, SumOneMore
<1> QED
  BY <1>3 DEF A, S, x

(* How many of the first n + 1 there are.                                  *)
LEMMA CountAppend ==
    ASSUME NEW n \in Nat, NEW A \in SUBSET (1 .. n), NEW B \in SUBSET (1 .. n + 1),
           B \cap (1 .. n) = A
    PROVE  /\ Cardinality(A) \in Nat
           /\ Cardinality(B) = Cardinality(A) + (IF n + 1 \in B THEN 1 ELSE 0)
<1>1. IsFiniteSet(A) /\ Cardinality(A) \in Nat
  <2>1. IsFiniteSet(1 .. n)
    BY FS_Interval
  <2>2. IsFiniteSet(A)
    BY <2>1, FS_Subset
  <2> QED
    BY <2>2, FS_CardinalityType
<1>2. n + 1 \notin A
  OBVIOUS
<1>3. CASE n + 1 \in B
  <2>1. B = A \cup {n + 1}
    <3>1. \A x \in 1 .. n + 1 : x \in 1 .. n \/ x = n + 1
      OBVIOUS
    <3> QED
      BY <1>3, <3>1
  <2>2. Cardinality(A \cup {n + 1}) = Cardinality(A) + 1
    BY <1>1, <1>2, FS_AddElement
  <2> QED
    BY <1>1, <1>3, <2>1, <2>2
<1>4. CASE n + 1 \notin B
  <2>1. B = A
    <3>1. \A x \in 1 .. n + 1 : x \in 1 .. n \/ x = n + 1
      OBVIOUS
    <3> QED
      BY <1>4, <3>1
  <2> QED
    BY <1>1, <1>4, <2>1
<1> QED
  BY <1>3, <1>4

(***************************************************************************)
(* Lists of what a set holds, and sorted lists                             *)
(***************************************************************************)

(* Every element of a finite set has a place of its own in its list.       *)
LEMMA SetToSeqLists ==
    ASSUME NEW S, IsFiniteSet(S)
    PROVE  /\ Cardinality(S) \in Nat
           /\ SetToSeq(S) \in [1 .. Cardinality(S) -> S]
           /\ \A i, j \in 1 .. Cardinality(S) : SetToSeq(S)[i] = SetToSeq(S)[j] => i = j
<1>1. Cardinality(S) \in Nat /\ ExistsBijection(1 .. Cardinality(S), S)
  BY FS_CardinalityType
<1>2. PICK f \in [1 .. Cardinality(S) -> S] : IsInjective(f)
  BY <1>1 DEF ExistsBijection, Bijection, Injection, IsInjective
<1>3. SetToSeq(S) \in [1 .. Cardinality(S) -> S] /\ IsInjective(SetToSeq(S))
  BY <1>2 DEF SetToSeq
<1> QED
  BY <1>1, <1>3 DEF IsInjective

(* An order of numbers, as the set of its pairs, that tells any two apart. *)
Ranks(n, R) ==
    /\ \A i \in 1 .. n : <<i, i>> \notin R
    /\ \A i, j \in 1 .. n : i # j => <<i, j>> \in R \/ <<j, i>> \in R
    /\ \A i, j, k \in 1 .. n : <<i, j>> \in R /\ <<j, k>> \in R => <<i, k>> \in R
Ahead(n, R, i) == {j \in 1 .. n : <<j, i>> \in R}

(* One more than how many are ahead of it: every number has a place of its *)
(* own, every place is taken, and who has an earlier one is ahead.         *)
LEMMA PlacesAreTaken ==
    ASSUME NEW n \in Nat, NEW R, Ranks(n, R)
    PROVE  /\ \A k \in 1 .. n : \E i \in 1 .. n : 1 + Cardinality(Ahead(n, R, i)) = k
           /\ \A i \in 1 .. n : 1 + Cardinality(Ahead(n, R, i)) \in 1 .. n
           /\ \A i, j \in 1 .. n :
                /\ Cardinality(Ahead(n, R, i)) = Cardinality(Ahead(n, R, j)) => i = j
                /\ Cardinality(Ahead(n, R, i)) < Cardinality(Ahead(n, R, j)) => <<i, j>> \in R
<1> DEFINE N == 1 .. n
           A(i) == Ahead(n, R, i)
           place == [i \in N |-> 1 + Cardinality(A(i))]
<1>1. IsFiniteSet(N) /\ Cardinality(N) = n
  BY PrefixSize
<1>2. ASSUME NEW i \in N PROVE IsFiniteSet(A(i)) /\ Cardinality(A(i)) \in 0 .. n - 1
  <2>1. A(i) \subseteq N /\ i \notin A(i)
    BY DEF Ahead, Ranks
  <2> HIDE DEF A
  <2>2. A(i) \in SUBSET N /\ A(i) # N
    BY <2>1
  <2>3. IsFiniteSet(A(i)) /\ Cardinality(A(i)) <= n /\ Cardinality(A(i)) # n
    BY <1>1, <2>2, FS_Subset
  <2> QED
    BY <2>3, FS_CardinalityType
<1>3. place \in [N -> N]
  <2>1. \A i \in N : 1 + Cardinality(A(i)) \in N
    BY <1>2
  <2> QED
    BY <2>1
<1>4. ASSUME NEW i \in N, NEW j \in N, <<i, j>> \in R PROVE place[i] < place[j]
  <2>1. A(i) \subseteq A(j) /\ i \in A(j) /\ i \notin A(i)
    BY <1>4 DEF Ahead, Ranks
  <2> HIDE DEF A
  <2>2. A(i) \in SUBSET A(j) /\ A(i) # A(j)
    BY <2>1
  <2>3. Cardinality(A(i)) <= Cardinality(A(j)) /\ Cardinality(A(i)) # Cardinality(A(j))
    BY <1>2, <2>2, FS_Subset
  <2>4. Cardinality(A(i)) \in Int /\ Cardinality(A(j)) \in Int
    BY <1>2
  <2> QED
    BY <2>3, <2>4
<1>5. \A i \in N : place[i] = 1 + Cardinality(A(i))
  OBVIOUS
<1> HIDE DEF place
<1>6. ASSUME NEW i \in N, NEW j \in N, place[i] <= place[j], i # j PROVE <<i, j>> \in R
  <2>1. CASE <<j, i>> \in R
    <3>1. place[j] < place[i] /\ place[i] \in Int /\ place[j] \in Int
      BY <1>3, <1>4, <2>1
    <3> QED
      BY <1>6, <3>1
  <2> QED
    BY <1>6, <2>1 DEF Ranks
<1>7. ASSUME NEW i \in N, NEW j \in N, place[i] = place[j] PROVE i = j
  <2>1. place[i] \in Int
    BY <1>3
  <2>2. place[i] <= place[j] /\ place[j] <= place[i]
    BY <1>7, <2>1
  <2>3. i # j => <<i, j>> \in R /\ <<j, i>> \in R
    BY <1>6, <2>2
  <2>4. ~(<<i, j>> \in R /\ <<j, i>> \in R)
    BY DEF Ranks
  <2> QED
    BY <2>3, <2>4
<1>8. place \in Surjection(N, N)
  <2>1. place \in Injection(N, N)
    BY <1>3, <1>7 DEF Injection, IsInjective
  <2> QED
    BY <1>1, <2>1, FS_Injection
<1>9. \A k \in N : \E i \in N : place[i] = k
  BY <1>8 DEF Surjection
<1>10. \A i \in N : Cardinality(A(i)) \in Int
  BY <1>2
<1> HIDE DEF A
<1>11. ASSUME NEW i \in N, NEW j \in N
       PROVE  /\ Cardinality(A(i)) = Cardinality(A(j)) => i = j
              /\ Cardinality(A(i)) < Cardinality(A(j)) => <<i, j>> \in R
  <2>1. Cardinality(A(i)) = Cardinality(A(j)) => i = j
    BY <1>5, <1>7
  <2>2. Cardinality(A(i)) < Cardinality(A(j)) => place[i] <= place[j] /\ i # j
    BY <1>5, <1>10
  <2> QED
    BY <1>6, <2>1, <2>2
<1> QED
  BY <1>3, <1>5, <1>9, <1>11 DEF A

(* A list with the elements of another in their places.                    *)
InPlaces(t, s, n, R) ==
    \A k \in 1 .. n : \E i \in 1 .. n : 1 + Cardinality(Ahead(n, R, i)) = k /\ t[k] = s[i]
SortedBy(t, s, n, R) ==
    /\ \A k \in 1 .. n : \E i \in 1 .. n : t[k] = s[i]
    /\ \A i \in 1 .. n : \E k \in 1 .. n : t[k] = s[i]
    /\ \A k, l \in 1 .. n : k < l =>
         \E i, j \in 1 .. n : t[k] = s[i] /\ t[l] = s[j] /\ <<i, j>> \in R

LEMMA PlacesSort ==
    ASSUME NEW n \in Nat, NEW R, Ranks(n, R), NEW s, NEW t, InPlaces(t, s, n, R)
    PROVE  SortedBy(t, s, n, R)
<1> DEFINE c(i) == Cardinality(Ahead(n, R, i))
<1>1. \A i \in 1 .. n : 1 + c(i) \in 1 .. n /\ c(i) \in Int
  <2>1. \A i \in 1 .. n : c(i) \in Int
    <3>1. IsFiniteSet(1 .. n)
      BY PrefixSize
    <3>2. \A i \in 1 .. n : Ahead(n, R, i) \in SUBSET (1 .. n)
      BY DEF Ahead
    <3> QED
      BY <3>1, <3>2, FS_Subset, FS_CardinalityType
  <2> QED
    BY <2>1, PlacesAreTaken
<1>2. \A i, j \in 1 .. n : (c(i) = c(j) => i = j) /\ (c(i) < c(j) => <<i, j>> \in R)
  BY PlacesAreTaken
<1>3. \A k \in 1 .. n : \E i \in 1 .. n : 1 + c(i) = k /\ t[k] = s[i]
  BY DEF InPlaces
<1> HIDE DEF c
<1>4. ASSUME NEW i \in 1 .. n PROVE \E k \in 1 .. n : t[k] = s[i]
  <2> DEFINE k == 1 + c(i)
  <2>1. k \in 1 .. n
    BY <1>1
  <2>2. PICK j \in 1 .. n : 1 + c(j) = k /\ t[k] = s[j]
    BY <1>3, <2>1
  <2>3. c(i) \in Int /\ c(j) \in Int /\ 1 + c(j) = 1 + c(i)
    BY <1>1, <2>2
  <2>4. c(j) = c(i)
    BY <2>3
  <2>5. j = i
    BY <1>2, <2>4
  <2> QED
    BY <2>1, <2>2, <2>5
<1>5. ASSUME NEW k \in 1 .. n, NEW l \in 1 .. n, k < l
      PROVE  \E i, j \in 1 .. n : t[k] = s[i] /\ t[l] = s[j] /\ <<i, j>> \in R
  <2>1. PICK i \in 1 .. n : 1 + c(i) = k /\ t[k] = s[i]
    BY <1>3
  <2>2. PICK j \in 1 .. n : 1 + c(j) = l /\ t[l] = s[j]
    BY <1>3
  <2>3. c(i) < c(j)
    BY <1>1, <1>5, <2>1, <2>2
  <2> QED
    BY <1>2, <2>1, <2>2, <2>3
<1> QED
  BY <1>3, <1>4, <1>5 DEF SortedBy

(* What is before what, when some may be before neither.                   *)
Weak(n, W) ==
    /\ \A i, j \in 1 .. n : <<i, j>> \in W => <<j, i>> \notin W
    /\ \A i, j, k \in 1 .. n : <<i, j>> \notin W /\ <<j, k>> \notin W => <<i, k>> \notin W
Stable(n, W) ==
    {p \in (1 .. n) \X (1 .. n) : p \in W \/ (<<p[2], p[1]>> \notin W /\ p[1] < p[2])}

LEMMA StablePairs ==
    ASSUME NEW n \in Nat, NEW W, NEW i \in 1 .. n, NEW j \in 1 .. n
    PROVE  <<i, j>> \in Stable(n, W) <=> <<i, j>> \in W \/ (<<j, i>> \notin W /\ i < j)
BY DEF Stable

LEMMA StableRanks == ASSUME NEW n \in Nat, NEW W, Weak(n, W) PROVE Ranks(n, Stable(n, W))
<1> DEFINE N == 1 .. n
           R == Stable(n, W)
<1>1. \A i, j \in N : <<i, j>> \in R <=> <<i, j>> \in W \/ (<<j, i>> \notin W /\ i < j)
  BY StablePairs
<1> HIDE DEF R
<1>2. ASSUME NEW i \in N PROVE <<i, i>> \notin R
  BY <1>1 DEF Weak
<1>3. ASSUME NEW i \in N, NEW j \in N, i # j PROVE <<i, j>> \in R \/ <<j, i>> \in R
  BY <1>1, <1>3
<1>4. ASSUME NEW i \in N, NEW j \in N, NEW k \in N, <<i, j>> \in R, <<j, k>> \in R
      PROVE  <<i, k>> \in R
  <2>1. <<j, i>> \notin W /\ <<k, j>> \notin W
    BY <1>1, <1>4 DEF Weak
  <2>2. <<k, i>> \notin W
    BY <2>1 DEF Weak
  <2>3. CASE <<i, k>> \notin W
    <3>1. <<i, j>> \notin W /\ <<j, k>> \notin W
      BY <2>1, <2>3 DEF Weak
    <3>2. i < j /\ j < k
      BY <1>1, <1>4, <3>1
    <3> QED
      BY <1>1, <2>2, <3>2
  <2> QED
    BY <1>1, <2>3
<1> QED
  BY <1>2, <1>3, <1>4 DEF Ranks, R
===============================================================================

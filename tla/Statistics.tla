------------------------------ MODULE Statistics ------------------------------
(***************************************************************************)
(* Package stats, on rationals where the program has float64.  What needs  *)
(* a square root or a quantile of the normal distribution is left out; of  *)
(* it the conditions under which there is a result are kept.               *)
(***************************************************************************)
EXTENDS Integers, Sequences, FiniteSets, SequencesExt

(* A rational is [n, d] with d > 0.                                        *)
Ratio(n, d) == [n |-> n, d |-> d]
Less(a, b) == a.n * b.d < b.n * a.d
Same(a, b) == a.n * b.d = b.n * a.d
Plus(a, b) == Ratio(a.n * b.d + b.n * a.d, a.d * b.d)
Minus(a, b) == Plus(a, Ratio(-b.n, b.d))
Absolute(a) == IF a.n < 0 THEN Ratio(-a.n, a.d) ELSE a
Over(a, k) == Ratio(a.n, a.d * k)
Zero == Ratio(0, 1)
One == Ratio(1, 1)
Total(xs) == FoldLeft(Plus, Zero, xs)

(* sort.SliceStable: what is before something comes before it, and what    *)
(* neither is stays in the order it was in.                                *)
StableSort(s, before(_, _)) ==
    LET first(i, j) == before(s[i], s[j]) \/ (~before(s[j], s[i]) /\ i < j)
        place(i) == 1 + Cardinality({j \in DOMAIN s : first(j, i)})
    IN [k \in DOMAIN s |-> s[CHOOSE i \in DOMAIN s : place(i) = k]]

Mean(xs) == IF xs = <<>> THEN Zero ELSE Over(Total(xs), Len(xs))

Median(xs) ==
    LET s == StableSort(xs, Less)
        n == Len(xs)
    IN IF n = 0 THEN Zero
       ELSE IF n % 2 = 1 THEN s[n \div 2 + 1]
       ELSE Over(Plus(s[n \div 2], s[n \div 2 + 1]), 2)

PassAtK(outcomes) == \E i \in DOMAIN outcomes : outcomes[i]
PassAllK(outcomes) == outcomes # <<>> /\ \A i \in DOMAIN outcomes : outcomes[i]

(* A spread needs two observations; this is its square, relative to the    *)
(* mean, times its degrees of freedom.                                     *)
HasStdDev(xs) == Len(xs) >= 2
RelativeSpread(xs) ==
    LET sum == Total(xs).n
        n == Len(xs)
    IN Ratio(FoldLeft(LAMBDA t, x : t + (n * x.n - sum) * (n * x.n - sum), 0, xs), sum * sum)

(* Without a spread there is no detectable difference, and no number of    *)
(* repeats to plan.                                                        *)
HasMDE(xs, perArm) == HasStdDev(xs) /\ perArm >= 1
HasRepeats(spread) == Less(Zero, spread)

(* math/rand, seeded: the orders the pooled sample is shuffled to.         *)
Draws(n) == << [i \in 1 .. n |-> i], [i \in 1 .. n |-> n + 1 - i],
               [i \in 1 .. n |-> (i % n) + 1] >>

(* The statistic two samples are compared by.                              *)
StatOf(name, xs) == IF name = "mean" THEN Mean(xs) ELSE Median(xs)

PermutationP(a, b, stat) ==
    LET pooled == a \o b
        gap(xs) == Absolute(Minus(StatOf(stat, SubSeq(xs, 1, Len(a))),
                                  StatOf(stat, SubSeq(xs, Len(a) + 1, Len(xs)))))
        draws == Draws(Len(pooled))
        extreme == SelectSeq(draws, LAMBDA o :
                       ~Less(gap([i \in DOMAIN pooled |-> pooled[o[i]]]), gap(pooled)))
    IN IF a = <<>> \/ b = <<>> THEN One ELSE Ratio(Len(extreme) + 1, Len(draws) + 1)
===============================================================================

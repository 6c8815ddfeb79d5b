--------------------------- MODULE SymbolicProofs ---------------------------
(***************************************************************************)
(* The symbolic execution engine loses no path: for every chart in which   *)
(* every transition leads to states that can be left, and every evaluation *)
(* of blocks that answers a node for every node it is given.               *)
(***************************************************************************)
EXTENDS SymbolicExecution, StatechartProofs

-----------------------------------------------------------------------------
(* Recursion on numbers.                                                   *)

(* Induction up to n, for a set of numbers: its least exception up to n would
   be above 0 and just above a number in it.                               *)
LEMMA UpTo ==
    ASSUME NEW n \in Nat, NEW T, 0 \in T, \A i \in 1 .. n : i - 1 \in T => i \in T
    PROVE  0 .. n \subseteq T
  <1> DEFINE Bad == {k \in 0 .. n : k \notin T}
             U == {0 .. k : k \in Bad}
  <1> SUFFICES ASSUME Bad # {} PROVE FALSE
    OBVIOUS
  <1>1. IsWellFoundedOn(StrictSubsetOrdering(0 .. n), SUBSET (0 .. n))
    <2>1. IsFiniteSet(0 .. n)
      BY FS_Interval
    <2> QED
      BY <2>1, FS_StrictSubsetOrderingWellFounded, FS_FiniteSubsetsOfFinite
  <1>2. U \subseteq SUBSET (0 .. n) /\ U # {}
    OBVIOUS
  <1>3. PICK u \in U : \A v \in U : ~ (<<v, u>> \in StrictSubsetOrdering(0 .. n))
    BY <1>1, <1>2, WFMin
  <1>4. PICK k \in Bad : u = 0 .. k
    BY <1>3
  <1>5. k \in 1 .. n /\ k - 1 \in 0 .. n /\ k - 1 \in Bad
    BY <1>4
  <1>6. <<0 .. k - 1, 0 .. k>> \in StrictSubsetOrdering(0 .. n)
    <2>1. 0 .. k - 1 \subseteq 0 .. k /\ 0 .. k \subseteq 0 .. n /\ k \in 0 .. k
          /\ k \notin 0 .. k - 1
      BY <1>5
    <2> QED
      BY <2>1 DEF StrictSubsetOrdering
  <1> QED
    BY <1>3, <1>4, <1>5, <1>6

(* f has the first value base, and step leads from each value to the next. *)
Recursion(f, base, n, step) ==
    f[0] = base /\ \A i \in 1 .. n : f[i] = step[<<f[i - 1], i>>]

(* A function may be defined by its first value and a step from each value to
   the next.                                                               *)
LEMMA RecursionExists ==
    ASSUME NEW X, NEW base \in X, NEW n \in Nat, NEW step \in [X \X (1 .. n) -> X]
    PROVE  \E f \in [0 .. n -> X] : Recursion(f, base, n, step)
  <1> DEFINE Up(f, k) == \A i \in 1 .. k : f[i] = step[<<f[i - 1], i>>]
             T == {k \in 0 .. n : \E f \in [0 .. n -> X] : f[0] = base /\ Up(f, k)}
  <1>1. 0 \in T
    <2> DEFINE f == [i \in 0 .. n |-> base]
    <2>1. f \in [0 .. n -> X] /\ f[0] = base /\ Up(f, 0)
      OBVIOUS
    <2> HIDE DEF f, Up
    <2> QED
      BY <2>1
  <1>2. ASSUME NEW k \in 1 .. n, k - 1 \in T PROVE k \in T
    <2>1. PICK f \in [0 .. n -> X] : f[0] = base /\ Up(f, k - 1)
      BY <1>2
    <2> DEFINE g == [f EXCEPT ![k] = step[<<f[k - 1], k>>]]
    <2>2. k \in 0 .. n /\ k - 1 \in 0 .. n /\ f[k - 1] \in X
      BY <2>1
    <2>3. step[<<f[k - 1], k>>] \in X
      BY <2>2
    <2>4. g = [i \in 0 .. n |-> IF i = k THEN step[<<f[k - 1], k>>] ELSE f[i]]
      BY <2>1
    <2> HIDE DEF g
    <2>5. /\ \A i \in 0 .. k - 1 : g[i] = f[i]
          /\ g[k] = step[<<f[k - 1], k>>]
      BY <2>2, <2>4
    <2>6. /\ g[k] = step[<<g[k - 1], k>>] /\ g[0] = base
          /\ g \in [0 .. n -> X]
      <3>1. g[k - 1] = f[k - 1] /\ g[0] = f[0]
        BY <2>2, <2>5
      <3>2. \A i \in 0 .. n : f[i] \in X
        BY <2>1
      <3>3. g \in [0 .. n -> X]
        BY <2>3, <2>4, <3>2
      <3> QED
        BY <2>1, <2>5, <3>1, <3>3
    <2>7. ASSUME NEW i \in 1 .. k PROVE g[i] = step[<<g[i - 1], i>>]
      <3>1. CASE i = k
        BY <2>6, <3>1
      <3>2. CASE i # k
        <4>1. i \in 1 .. k - 1 /\ i \in 0 .. k - 1 /\ i - 1 \in 0 .. k - 1
          BY <3>2
        <4> QED
          BY <2>1, <2>5, <4>1
      <3> QED
        BY <3>1, <3>2
    <2> QED
      BY <2>2, <2>6, <2>7
  <1> HIDE DEF T
  <1>3. 0 .. n \subseteq T
    BY <1>1, <1>2, UpTo
  <1>4. n \in T
    BY <1>3
  <1> QED
    BY <1>4 DEF T, Recursion

(* What a step keeps in X stays in X.                                      *)
LEMMA RecursionTyped ==
    ASSUME NEW X, NEW n \in Nat, NEW f, f[0] \in X,
           \A i \in 1 .. n : f[i - 1] \in X => f[i] \in X
    PROVE  f[n] \in X
  <1> DEFINE T == {i \in 0 .. n : f[i] \in X}
  <1>1. 0 \in T
    OBVIOUS
  <1>2. \A i \in 1 .. n : i - 1 \in T => i \in T
    OBVIOUS
  <1> HIDE DEF T
  <1>3. 0 .. n \subseteq T
    BY <1>1, <1>2, UpTo
  <1>4. n \in T
    BY <1>3
  <1> QED
    BY <1>4 DEF T

-----------------------------------------------------------------------------
(* Kept and FlattenSeq.                                                    *)

(* A function on 1 .. n is a sequence.                                     *)
LEMMA FunctionIsSeq ==
    ASSUME NEW E, NEW n \in Nat, NEW f \in [1 .. n -> E]
    PROVE  f \in Seq(E) /\ Len(f) = n
  OBVIOUS

(* The elements of a sequence with one more.                               *)
LEMMA RangeAppend ==
    ASSUME NEW E, NEW q \in Seq(E), NEW e \in E
    PROVE  Append(q, e) \in Seq(E) /\ Range(Append(q, e)) = Range(q) \cup {e}
  <1>1. /\ Append(q, e) \in Seq(E) /\ Len(Append(q, e)) = Len(q) + 1
        /\ DOMAIN Append(q, e) = 1 .. Len(q) + 1
        /\ \A i \in 1 .. Len(q) : Append(q, e)[i] = q[i]
        /\ Append(q, e)[Len(q) + 1] = e
    OBVIOUS
  <1>2. Len(q) \in Nat /\ DOMAIN q = 1 .. Len(q)
    OBVIOUS
  <1>3. \A i \in 1 .. Len(q) + 1 : i \in 1 .. Len(q) \/ i = Len(q) + 1
    BY <1>2
  <1>4. /\ \A i \in 1 .. Len(q) : i \in 1 .. Len(q) + 1
        /\ Len(q) + 1 \in 1 .. Len(q) + 1
    BY <1>2
  <1> DEFINE a == Append(q, e)
             m == Len(q)
             m1 == m + 1
  <1> HIDE DEF a, m, m1
  <1>5. {a[i] : i \in 1 .. m1} = {q[i] : i \in 1 .. m} \cup {e}
    BY <1>1, <1>3, <1>4 DEF a, m, m1
  <1> QED
    BY <1>1, <1>2, <1>5 DEF Range, a, m, m1

(* A list without repetitions with a new element.                          *)
LEMMA InjectiveAppend ==
    ASSUME NEW E, NEW q \in Seq(E), IsInjective(q), NEW e \in E, e \notin Range(q)
    PROVE  IsInjective(Append(q, e))
  <1> DEFINE a == Append(q, e)
             m == Len(q)
  <1>1. /\ m \in Nat /\ DOMAIN q = 1 .. m /\ DOMAIN a = 1 .. m + 1
        /\ \A i \in 1 .. m : a[i] = q[i]
        /\ a[m + 1] = e
    OBVIOUS
  <1>2. /\ \A i \in 1 .. m : q[i] # e
        /\ \A i, j \in 1 .. m : q[i] = q[j] => i = j
    BY <1>1 DEF Range, IsInjective
  <1> HIDE DEF a, m
  <1>3. \A i \in 1 .. m + 1 : i \in 1 .. m \/ i = m + 1
    BY <1>1
  <1>4. \A i, j \in 1 .. m + 1 : a[i] = a[j] => i = j
    BY <1>1, <1>2, <1>3
  <1>5. IsInjective(a)
    BY <1>1, <1>4 DEF IsInjective
  <1> QED
    BY <1>5 DEF a

(* The elements of q in S are what Kept(q, S) lists, none of them more often
   than q does.                                                            *)
LEMMA KeptFacts ==
    ASSUME NEW E, NEW q \in Seq(E), NEW S
    PROVE  /\ Kept(q, S) \in Seq(E)
           /\ Range(Kept(q, S)) = Range(q) \cap S
           /\ IsInjective(q) => IsInjective(Kept(q, S))
  <1> DEFINE n == Len(q)
             G(x, i) == IF q[i] \in S THEN Append(x, q[i]) ELSE x
             F(f) == [i \in 0 .. n |-> IF i = 0 THEN << >>
                                       ELSE IF q[i] \in S THEN Append(f[i - 1], q[i])
                                       ELSE f[i - 1]]
             kept == CHOOSE f : f = F(f)
             step == [p \in Seq(E) \X (1 .. n) |-> G(p[1], p[2])]
  <1>1. Kept(q, S) = kept[n]
    BY DEF Kept
  <1>2. n \in Nat /\ \A i \in 1 .. n : q[i] \in E
    OBVIOUS
  <1>3. step \in [Seq(E) \X (1 .. n) -> Seq(E)]
    <2>1. \A p \in Seq(E) \X (1 .. n) : G(p[1], p[2]) \in Seq(E)
      BY <1>2
    <2> HIDE DEF G
    <2> QED
      BY <2>1
  <1>4. PICK g \in [0 .. n -> Seq(E)] :
            g[0] = << >> /\ \A i \in 1 .. n : g[i] = step[<<g[i - 1], i>>]
    <2> DEFINE X == Seq(E)
               base == << >>
    <2>1. base \in X /\ n \in Nat /\ step \in [X \X (1 .. n) -> X]
      BY <1>2, <1>3
    <2> HIDE DEF step, n, X, base
    <2>2. \E f \in [0 .. n -> X] : Recursion(f, base, n, step)
      BY <2>1, RecursionExists
    <2> QED
      BY <2>2 DEF X, base, Recursion
  <1>5. \A i \in 1 .. n : g[i] = G(g[i - 1], i)
    <2> SUFFICES ASSUME NEW i \in 1 .. n PROVE g[i] = G(g[i - 1], i)
      OBVIOUS
    <2>1. i - 1 \in 0 .. n
      BY <1>2
    <2>2. <<g[i - 1], i>> \in Seq(E) \X (1 .. n)
      BY <1>4, <2>1
    <2> HIDE DEF G, n
    <2> QED
      BY <1>4, <2>2
  <1>6. g = F(g)
    <2>1. \A i \in 0 .. n : i = 0 \/ i \in 1 .. n
      BY <1>2
    <2> HIDE DEF n
    <2>2. \A i \in 0 .. n : g[i] = F(g)[i]
      BY <1>4, <1>5, <2>1
    <2>3. g = [i \in 0 .. n |-> g[i]] /\ F(g) = [i \in 0 .. n |-> F(g)[i]]
      BY <1>4
    <2> HIDE DEF F
    <2> QED
      BY <2>2, <2>3
  <1>7. kept = F(kept)
    <2> HIDE DEF F
    <2> QED
      BY <1>6
  <1> HIDE DEF kept
  <1>8. kept[0] = << >> /\ \A i \in 1 .. n : kept[i] = G(kept[i - 1], i)
    <2>1. 0 \in 0 .. n /\ \A i \in 1 .. n : i \in 0 .. n /\ i # 0
      BY <1>2
    <2> HIDE DEF n
    <2> QED
      BY <1>7, <2>1
  <1> DEFINE T == {k \in 0 .. n : /\ kept[k] \in Seq(E)
                                  /\ Range(kept[k]) = {q[i] : i \in 1 .. k} \cap S
                                  /\ IsInjective(q) => IsInjective(kept[k])}
  <1>9. 0 \in T
    <2>1. << >> \in Seq(E) /\ Range(<< >>) = {} /\ 0 \in 0 .. n
          /\ {q[i] : i \in 1 .. 0} = {} /\ IsInjective(<< >>)
      BY <1>2 DEF Range, IsInjective
    <2> HIDE DEF n
    <2> QED
      BY <1>8, <2>1
  <1>10. ASSUME NEW k \in 1 .. n, k - 1 \in T PROVE k \in T
    <2>1. /\ kept[k - 1] \in Seq(E) /\ k \in 0 .. n /\ q[k] \in E
          /\ Range(kept[k - 1]) = {q[i] : i \in 1 .. k - 1} \cap S
          /\ IsInjective(q) => IsInjective(kept[k - 1])
      BY <1>2, <1>10
    <2>2. {q[i] : i \in 1 .. k} = {q[i] : i \in 1 .. k - 1} \cup {q[k]}
      <3>1. \A i \in 1 .. k : i \in 1 .. k - 1 \/ i = k
        BY <1>2
      <3>2. \A i \in 1 .. k - 1 : i \in 1 .. k
        BY <1>2
      <3> QED
        BY <1>2, <3>1, <3>2
    <2>3. CASE q[k] \in S
      <3>1. kept[k] = Append(kept[k - 1], q[k])
        BY <1>8, <2>3
      <3>2. kept[k] \in Seq(E) /\ Range(kept[k]) = Range(kept[k - 1]) \cup {q[k]}
        BY <2>1, <3>1, RangeAppend
      <3>3. ASSUME IsInjective(q) PROVE IsInjective(kept[k])
        <4>1. \A i \in 1 .. k - 1 : i \in 1 .. n /\ i # k
          BY <1>2
        <4>2. DOMAIN q = 1 .. n
          OBVIOUS
        <4>3. \A i \in 1 .. k - 1 : q[i] # q[k]
          BY <3>3, <4>1, <4>2 DEF IsInjective
        <4>4. q[k] \notin Range(kept[k - 1])
          BY <2>1, <4>3
        <4> QED
          BY <2>1, <3>1, <3>3, <4>4, InjectiveAppend
      <3> QED
        BY <2>1, <2>2, <2>3, <3>2, <3>3
    <2>4. CASE q[k] \notin S
      <3>1. kept[k] = kept[k - 1]
        BY <1>8, <2>4
      <3> QED
        BY <2>1, <2>2, <2>4, <3>1
    <2> QED
      BY <2>3, <2>4
  <1>11. n \in T
    <2> HIDE DEF T, n
    <2>1. 0 .. n \subseteq T
      BY <1>2, <1>9, <1>10, UpTo
    <2> QED
      BY <1>2, <2>1
  <1>12. Range(q) = {q[i] : i \in 1 .. n}
    BY DEF Range
  <1> QED
    BY <1>1, <1>11, <1>12

(* FlattenSeq(q) lists the elements of the elements of q.                  *)
LEMMA FlattenFacts ==
    ASSUME NEW E, NEW q \in Seq(Seq(E))
    PROVE  /\ FlattenSeq(q) \in Seq(E)
           /\ Range(FlattenSeq(q)) = UNION {Range(q[i]) : i \in 1 .. Len(q)}
  <1> DEFINE n == Len(q)
             F(f) == [i \in 1 .. n |-> IF i = 1 THEN q[i] ELSE f[i - 1] \o q[i]]
             flatten == CHOOSE f : f = F(f)
             step == [p \in Seq(E) \X (1 .. n) |-> p[1] \o q[p[2]]]
  <1>1. FlattenSeq(q) = IF n = 0 THEN q ELSE flatten[n]
    BY DEF FlattenSeq
  <1>2. n \in Nat /\ \A i \in 1 .. n : q[i] \in Seq(E)
    OBVIOUS
  <1>3. CASE n = 0
    <2>1. q = << >> /\ q \in Seq(E) /\ Range(q) = {}
      BY <1>3 DEF Range
    <2>2. {Range(q[i]) : i \in 1 .. Len(q)} = {}
      BY <1>3
    <2> HIDE DEF n
    <2> QED
      BY <1>1, <1>3, <2>1, <2>2
  <1>4. CASE n # 0
    <2>1. step \in [Seq(E) \X (1 .. n) -> Seq(E)]
      <3>1. \A p \in Seq(E) \X (1 .. n) : p[1] \o q[p[2]] \in Seq(E)
        BY <1>2
      <3> HIDE DEF n
      <3> QED
        BY <3>1
    <2>2. PICK g \in [0 .. n -> Seq(E)] :
              g[0] = << >> /\ \A i \in 1 .. n : g[i] = step[<<g[i - 1], i>>]
      <3> DEFINE X == Seq(E)
                 base == << >>
      <3>1. base \in X /\ n \in Nat /\ step \in [X \X (1 .. n) -> X]
        BY <1>2, <2>1
      <3> HIDE DEF step, n, X, base
      <3>2. \E f \in [0 .. n -> X] : Recursion(f, base, n, step)
        BY <3>1, RecursionExists
      <3> QED
        BY <3>2 DEF X, base, Recursion
    <2>3. \A i \in 1 .. n : /\ g[i] = g[i - 1] \o q[i]
                            /\ i - 1 \in 0 .. n /\ g[i - 1] \in Seq(E)
      <3> SUFFICES ASSUME NEW i \in 1 .. n
                   PROVE  /\ g[i] = g[i - 1] \o q[i]
                          /\ i - 1 \in 0 .. n /\ g[i - 1] \in Seq(E)
        OBVIOUS
      <3>1. i - 1 \in 0 .. n
        BY <1>2
      <3>2. g[i - 1] \in Seq(E) /\ <<g[i - 1], i>> \in Seq(E) \X (1 .. n)
        BY <2>2, <3>1
      <3> HIDE DEF n
      <3> QED
        BY <2>2, <3>1, <3>2
    <2> DEFINE g1 == [i \in 1 .. n |-> g[i]]
    <2>4. g1 = F(g1)
      <3>1. ASSUME NEW i \in 1 .. n, i = 1 PROVE g1[i] = q[i]
        <4>1. g[i] = << >> \o q[i] /\ q[i] \in Seq(E)
          <5>1. i - 1 = 0
            BY <3>1
          <5>2. g[i - 1] = << >>
            BY <2>2, <5>1
          <5> HIDE DEF n
          <5> QED
            BY <1>2, <2>3, <5>2
        <4>2. << >> \o q[i] = q[i]
          BY <4>1, ConcatEmptySeq
        <4> QED
          BY <4>1, <4>2
      <3>2. ASSUME NEW i \in 1 .. n, i # 1 PROVE g1[i] = g1[i - 1] \o q[i]
        <4>1. i - 1 \in 1 .. n
          BY <1>2, <3>2
        <4> HIDE DEF n
        <4> QED
          BY <2>3, <4>1
      <3> HIDE DEF n
      <3>3. \A i \in 1 .. n : g1[i] = F(g1)[i]
        <4> HIDE DEF g1
        <4> QED
          BY <3>1, <3>2
      <3>4. g1 = [i \in 1 .. n |-> g1[i]] /\ F(g1) = [i \in 1 .. n |-> F(g1)[i]]
        OBVIOUS
      <3> HIDE DEF F, g1
      <3> QED
        BY <3>3, <3>4
    <2>5. flatten = F(flatten)
      <3> HIDE DEF F, g1
      <3> QED
        BY <2>4
    <2> HIDE DEF flatten
    <2>6. /\ flatten[1] = q[1]
          /\ \A i \in 1 .. n : i # 1 => flatten[i] = flatten[i - 1] \o q[i]
      <3>1. 1 \in 1 .. n
        BY <1>2, <1>4
      <3> HIDE DEF n
      <3> QED
        BY <2>5, <3>1
    <2> DEFINE R(k) == UNION {Range(q[i]) : i \in 1 .. k}
               T == {k \in 0 .. n : k = 0 \/ (flatten[k] \in Seq(E)
                                              /\ Range(flatten[k]) = R(k))}
    <2>7. ASSUME NEW k \in 1 .. n, k - 1 \in T PROVE k \in T
      <3>1. k \in 0 .. n /\ q[k] \in Seq(E)
        BY <1>2
      <3>2. R(k) = R(k - 1) \cup Range(q[k])
        <4>1. \A i \in 1 .. k : i \in 1 .. k - 1 \/ i = k
          BY <1>2
        <4>2. k \in 1 .. k /\ \A i \in 1 .. k - 1 : i \in 1 .. k
          BY <1>2
        <4> QED
          BY <4>1, <4>2
      <3>3. CASE k = 1
        <4>1. R(k - 1) = {}
          BY <3>3
        <4>2. flatten[k] = q[k]
          BY <2>6, <3>3
        <4> HIDE DEF R, n
        <4> QED
          BY <3>1, <3>2, <4>1, <4>2
      <3>4. CASE k # 1
        <4>1. k - 1 # 0 /\ flatten[k] = flatten[k - 1] \o q[k]
          <5>1. k - 1 # 0
            BY <3>4
          <5> HIDE DEF n
          <5> QED
            BY <2>6, <3>4, <5>1
        <4>2. flatten[k - 1] \in Seq(E) /\ Range(flatten[k - 1]) = R(k - 1)
          BY <2>7, <4>1
        <4>3. /\ flatten[k] \in Seq(E)
              /\ Range(flatten[k]) = Range(flatten[k - 1]) \cup Range(q[k])
          BY <3>1, <4>1, <4>2, RangeConcatenation, ConcatProperties
        <4> HIDE DEF R, n
        <4> QED
          BY <3>1, <3>2, <4>2, <4>3
      <3> QED
        BY <3>3, <3>4
    <2>8. 0 \in T
      BY <1>2
    <2>9. n \in T
      <3> HIDE DEF T, n
      <3>1. 0 .. n \subseteq T
        BY <1>2, <2>7, <2>8, UpTo
      <3> QED
        BY <1>2, <3>1
    <2> QED
      BY <1>1, <1>4, <2>9
  <1> QED
    BY <1>3, <1>4

-----------------------------------------------------------------------------
(* A node and the nodes behind it.                                         *)

(* A path begins with another when it agrees with it as far as that goes.  *)
LEMMA PrefixMeans ==
    ASSUME NEW N, NEW a \in Seq(N), NEW b \in Seq(N)
    PROVE  IsPrefix(a, b) <=> /\ Len(a) <= Len(b)
                              /\ \A i \in 1 .. Len(a) : a[i] = b[i]
  <1>1. CASE Len(a) <= Len(b)
    <2>1. /\ SubSeq(a, 1, Len(a)) \in Seq(N) /\ Len(SubSeq(a, 1, Len(a))) = Len(a)
          /\ \A i \in 1 .. Len(a) : SubSeq(a, 1, Len(a))[i] = a[i]
      OBVIOUS
    <2>2. /\ SubSeq(b, 1, Len(a)) \in Seq(N) /\ Len(SubSeq(b, 1, Len(a))) = Len(a)
          /\ \A i \in 1 .. Len(a) : SubSeq(b, 1, Len(a))[i] = b[i]
      BY <1>1
    <2> DEFINE x == SubSeq(a, 1, Len(a))
               y == SubSeq(b, 1, Len(a))
    <2>3. IsPrefix(a, b) <=> x = y
      BY <1>1 DEF IsPrefix
    <2> HIDE DEF x, y
    <2>4. x = y <=> \A i \in 1 .. Len(a) : a[i] = b[i]
      <3>1. x \in Seq(N) /\ y \in Seq(N) /\ Len(x) = Len(y) /\ Len(x) = Len(a)
        BY <2>1, <2>2 DEF x, y
      <3>2. \A i \in 1 .. Len(a) : x[i] = a[i] /\ y[i] = b[i]
        BY <2>1, <2>2 DEF x, y
      <3>3. ASSUME \A i \in 1 .. Len(a) : a[i] = b[i] PROVE x = y
        BY <3>1, <3>2, <3>3, SeqEqual
      <3> QED
        BY <3>2, <3>3
    <2> QED
      BY <1>1, <2>3, <2>4
  <1>2. CASE ~(Len(a) <= Len(b))
    BY <1>2 DEF IsPrefix
  <1> QED
    BY <1>1, <1>2

(* A path begins with itself, and what it is extended to begins with it.   *)
LEMMA PrefixOfConcat ==
    ASSUME NEW N, NEW a \in Seq(N), NEW b \in Seq(N)
    PROVE  a \o b \in Seq(N) /\ IsPrefix(a, a) /\ IsPrefix(a, a \o b)
  <1>1. /\ a \o b \in Seq(N) /\ Len(a) <= Len(a \o b)
        /\ \A i \in 1 .. Len(a) : a[i] = (a \o b)[i]
    OBVIOUS
  <1>2. Len(a) <= Len(a)
    OBVIOUS
  <1> DEFINE c == a \o b
  <1> HIDE DEF c
  <1>3. IsPrefix(a, c)
    BY <1>1, PrefixMeans DEF c
  <1>4. IsPrefix(a, a)
    BY <1>2, PrefixMeans
  <1> QED
    BY <1>1, <1>3, <1>4 DEF c

(* The same when a node is put behind it.                                  *)
LEMMA PrefixOfAppend ==
    ASSUME NEW N, NEW a \in Seq(N), NEW e \in N
    PROVE  Append(a, e) \in Seq(N) /\ IsPrefix(a, Append(a, e))
  <1>1. /\ Append(a, e) \in Seq(N) /\ Len(a) <= Len(Append(a, e))
        /\ \A i \in 1 .. Len(a) : a[i] = Append(a, e)[i]
    OBVIOUS
  <1> DEFINE c == Append(a, e)
  <1> HIDE DEF c
  <1>2. IsPrefix(a, c)
    BY <1>1, PrefixMeans DEF c
  <1> QED
    BY <1>1, <1>2 DEF c

(* The extension of an extension is an extension.                          *)
LEMMA PrefixTransitive ==
    ASSUME NEW N, NEW a \in Seq(N), NEW b \in Seq(N), NEW c \in Seq(N),
           IsPrefix(a, b), IsPrefix(b, c)
    PROVE  IsPrefix(a, c)
  <1>1. /\ Len(a) <= Len(b) /\ \A i \in 1 .. Len(a) : a[i] = b[i]
        /\ Len(b) <= Len(c) /\ \A i \in 1 .. Len(b) : b[i] = c[i]
    BY PrefixMeans
  <1>2. Len(a) <= Len(c) /\ \A i \in 1 .. Len(a) : i \in 1 .. Len(b)
    BY <1>1
  <1>3. \A i \in 1 .. Len(a) : a[i] = c[i]
    BY <1>1, <1>2
  <1> QED
    BY <1>2, <1>3, PrefixMeans
-----------------------------------------------------------------------------
(* What is asked of the nodes and of the blocks.                           *)

(* The nodes the engine makes itself.                                      *)
OwnNodes == {[node |-> "entry", s |-> st] : st \in States}
                \cup {[node |-> "exit", s |-> st] : st \in States}
                \cup {Instruction(d, Const(initialValue(d))) : d \in Declarations}

Results(N) == [done : Seq(Seq(N)), live : Seq(Seq(N))]

(* Results with finished paths in C and live ones in L.                    *)
Outcomes(C, L) == [done : Seq(C), live : Seq(L)]

(* With nodes from N, a block answers paths.                               *)
BlocksTyped(N) ==
    /\ OwnNodes \subseteq N
    /\ \A b \in Blocks, leaf \in Seq(N), md \in Depths :
           ExecuteBlock(b, leaf, md) \subseteq Results(N)

(* One of them continues the one it was given.                             *)
BlocksContinue(N) ==
    /\ BlocksTyped(N)
    /\ \A b \in Blocks, leaf \in Seq(N), md \in Depths :
           \A r \in ExecuteBlock(b, leaf, md) : Continues(r, leaf)

(* The two lists of a result.                                              *)
LEMMA ResultFacts ==
    ASSUME NEW N, NEW d \in Seq(Seq(N)), NEW l \in Seq(Seq(N))
    PROVE  /\ Result(d, l) \in Results(N)
           /\ Result(d, l).done = d /\ Result(d, l).live = l
           /\ Reached(Result(d, l)) = Range(d) \cup Range(l)
  BY DEF Result, Results, Reached

(* Results of one kind are put together to results of that kind.           *)
LEMMA JoinedOutcome ==
    ASSUME NEW C, NEW L, NEW r1 \in Outcomes(C, L), NEW r2 \in Outcomes(C, L)
    PROVE  Joined(r1, r2) \in Outcomes(C, L)
  <1>1. /\ r1.done \in Seq(C) /\ r1.live \in Seq(L)
        /\ r2.done \in Seq(C) /\ r2.live \in Seq(L)
    BY DEF Outcomes
  <1>2. r1.done \o r2.done \in Seq(C) /\ r1.live \o r2.live \in Seq(L)
    BY <1>1, ConcatProperties
  <1> QED
    BY <1>2 DEF Joined, Result, Outcomes

(* What two results reach is reached by the two of them put together.      *)
LEMMA JoinedFacts ==
    ASSUME NEW N, NEW r1 \in Results(N), NEW r2 \in Results(N)
    PROVE  /\ Joined(r1, r2) \in Results(N)
           /\ Reached(Joined(r1, r2)) = Reached(r1) \cup Reached(r2)
  <1>1. /\ r1.done \in Seq(Seq(N)) /\ r1.live \in Seq(Seq(N))
        /\ r2.done \in Seq(Seq(N)) /\ r2.live \in Seq(Seq(N))
    BY DEF Results
  <1>2. /\ r1.done \o r2.done \in Seq(Seq(N)) /\ r1.live \o r2.live \in Seq(Seq(N))
        /\ Range(r1.done \o r2.done) = Range(r1.done) \cup Range(r2.done)
        /\ Range(r1.live \o r2.live) = Range(r1.live) \cup Range(r2.live)
    BY <1>1, ConcatProperties, RangeConcatenation
  <1> DEFINE d == r1.done \o r2.done
             l == r1.live \o r2.live
  <1> HIDE DEF d, l
  <1>3. Joined(r1, r2) = Result(d, l)
    BY DEF Joined, d, l
  <1>4. d \in Seq(Seq(N)) /\ l \in Seq(Seq(N))
    BY <1>2 DEF d, l
  <1>5. Joined(r1, r2) \in Results(N) /\ Reached(Joined(r1, r2)) = Range(d) \cup Range(l)
    BY <1>3, <1>4, ResultFacts
  <1> QED
    BY <1>2, <1>5 DEF Reached, d, l

(* What continues a path continues those it continues.                     *)
LEMMA ContinuesFurther ==
    ASSUME NEW N, NEW a \in Seq(N), NEW b \in Seq(N), NEW r \in Results(N),
           IsPrefix(a, b), Continues(r, b)
    PROVE  Continues(r, a)
  <1>1. PICK l \in Reached(r) : IsPrefix(b, l)
    BY DEF Continues
  <1>2. l \in Seq(N)
    BY <1>1, RangeOfSeq DEF Results, Reached
  <1>3. IsPrefix(a, l)
    BY <1>1, <1>2, PrefixTransitive
  <1> QED
    BY <1>1, <1>3 DEF Continues

(* Quiet continuations may be put together.                                *)
LEMMA QuietFacts ==
    ASSUME NEW N, NEW a \in Seq(N), NEW b \in Seq(N), NEW c \in Seq(N)
    PROVE  /\ Quiet(a, a)
           /\ Quiet(a, b) /\ Quiet(b, c) => Quiet(a, c)
  <1>1. Quiet(a, a)
    <2>1. IsPrefix(a, a) /\ Len(a) + 1 .. Len(a) = {}
      BY PrefixOfConcat
    <2> QED
      BY <2>1 DEF Quiet
  <1>2. ASSUME Quiet(a, b), Quiet(b, c) PROVE Quiet(a, c)
    <2>1. IsPrefix(a, b) /\ IsPrefix(b, c) /\ IsPrefix(a, c)
      BY <1>2, PrefixTransitive DEF Quiet
    <2>2. Len(a) <= Len(b) /\ Len(b) <= Len(c) /\ \A i \in 1 .. Len(b) : b[i] = c[i]
      BY <2>1, PrefixMeans
    <2>3. ASSUME NEW i \in Len(a) + 1 .. Len(c) PROVE c[i].node \notin {"entry", "exit"}
      <3>1. CASE i \in Len(b) + 1 .. Len(c)
        BY <1>2, <3>1 DEF Quiet
      <3>2. CASE i \in 1 .. Len(b)
        <4>1. i \in Len(a) + 1 .. Len(b) /\ b[i] = c[i]
          BY <2>2, <2>3, <3>2
        <4> QED
          BY <1>2, <4>1 DEF Quiet
      <3> QED
        BY <2>2, <2>3, <3>1, <3>2
    <2> QED
      BY <2>1, <2>3 DEF Quiet
  <1> QED
    BY <1>1, <1>2

(* initialize_variables adds nodes to a path, none for states.             *)
LEMMA InitializeFacts ==
    ASSUME NEW N, BlocksTyped(N), NEW st \in States, NEW sc, NEW leaf \in Seq(N)
    PROVE  /\ initialize_variables(st, sc, leaf) \in Seq(N)
           /\ Quiet(leaf, initialize_variables(st, sc, leaf))
  <1> DEFINE ds == Kept(declarations[st], {d \in Declarations : /\ scope[d] = sc
                                                    /\ typeName[d] \in BasicTypes})
             ns == [i \in DOMAIN ds |-> Instruction(ds[i], Const(initialValue(ds[i])))]
             l == leaf \o ns
  <1>1. ds \in Seq(Declarations)
    BY DeclarationAssumption, KeptFacts DEF DeclarationsWellFormed
  <1>2. initialize_variables(st, sc, leaf) = l
    BY DEF initialize_variables
  <1> HIDE DEF ds
  <1>3. \A i \in DOMAIN ds : ds[i] \in Declarations
    BY <1>1
  <1>4. \A i \in DOMAIN ds : Instruction(ds[i], Const(initialValue(ds[i]))) \in N
    BY <1>3 DEF BlocksTyped, OwnNodes
  <1>5. Len(ds) \in Nat /\ DOMAIN ds = 1 .. Len(ds)
    BY <1>1
  <1>6. ns \in [1 .. Len(ds) -> N]
    BY <1>4, <1>5
  <1>7. \A i \in 1 .. Len(ds) : ns[i].node = "instruction"
    BY <1>5 DEF Instruction
  <1> DEFINE m == Len(ds)
  <1>8. ns \in Seq(N) /\ Len(ns) = m
    <2>1. m \in Nat /\ ns \in [1 .. m -> N]
      BY <1>5, <1>6
    <2> HIDE DEF ns, m
    <2> QED
      BY <2>1
  <1>9. \A i \in 1 .. Len(ns) : ns[i].node = "instruction"
    BY <1>7, <1>8
  <1> HIDE DEF ns, m
  <1>10. l \in Seq(N) /\ IsPrefix(leaf, l)
    BY <1>8, PrefixOfConcat
  <1>11. ASSUME NEW i \in Len(leaf) + 1 .. Len(l) PROVE l[i].node \notin {"entry", "exit"}
    <2>1. i - Len(leaf) \in 1 .. Len(ns) /\ l[i] = ns[i - Len(leaf)]
      BY <1>8
    <2> QED
      BY <1>9, <2>1
  <1> HIDE DEF l
  <1> QED
    BY <1>2, <1>10, <1>11 DEF Quiet

(* The node for a state is put behind a path.                              *)
LEMMA NodeFacts ==
    ASSUME NEW N, BlocksTyped(N), NEW st \in States, NEW leaf \in Seq(N)
    PROVE  /\ StateEntryNode(st, leaf) \in Seq(N)
           /\ IsPrefix(leaf, StateEntryNode(st, leaf))
           /\ StateExitNode(st, leaf) \in Seq(N)
           /\ IsPrefix(leaf, StateExitNode(st, leaf))
  <1> DEFINE e == [node |-> "entry", s |-> st]
             x == [node |-> "exit", s |-> st]
  <1>1. e \in N /\ x \in N
    BY DEF BlocksTyped, OwnNodes
  <1>2. StateEntryNode(st, leaf) = Append(leaf, e) /\ StateExitNode(st, leaf) = Append(leaf, x)
    BY DEF StateEntryNode, StateExitNode
  <1> HIDE DEF e, x
  <1> QED
    BY <1>1, <1>2, PrefixOfAppend

-----------------------------------------------------------------------------
(* The works of a transition.                                              *)

Works == [work : {"exit", "enterSuperstate", "enterSubstate"}, of : States]
             \cup [work : {"action"}, of : {t.action : t \in Transitions}]

(* A path with the node for the state that a work is about.                *)
Marked(w, leaf) == CASE w.work = "exit"   -> StateExitNode(w.of, leaf)
                     [] w.work = "action" -> leaf
                     [] OTHER             -> StateEntryNode(w.of, leaf)

(* A work puts the node for its state behind a path, then quiet ones, and
   executes a block.                                                       *)
LEMMA PerformExecutes ==
    ASSUME NEW N, BlocksTyped(N), NEW w \in Works, NEW leaf \in Seq(N),
           NEW r \in perform(w, leaf)
    PROVE  /\ Marked(w, leaf) \in Seq(N) /\ IsPrefix(leaf, Marked(w, leaf))
           /\ \E b \in Blocks, l \in Seq(N) : /\ Quiet(Marked(w, leaf), l)
                                               /\ r \in ExecuteBlock(b, l, max_depth)
  <1>1. CASE w.work = "exit"
    <2>1. w.of \in States /\ exit[w.of] \in Blocks
      BY <1>1 DEF Works, Blocks
    <2>2. Marked(w, leaf) = StateExitNode(w.of, leaf)
      BY <1>1 DEF Marked
    <2>3. r \in ExecuteBlock(exit[w.of], Marked(w, leaf), max_depth)
      BY <1>1, <2>2 DEF perform, exitState
    <2>4. Marked(w, leaf) \in Seq(N) /\ IsPrefix(leaf, Marked(w, leaf))
      BY <2>1, <2>2, NodeFacts
    <2>5. Quiet(Marked(w, leaf), Marked(w, leaf))
      BY <2>4, QuietFacts
    <2> QED
      BY <2>1, <2>3, <2>4, <2>5
  <1>2. CASE w.work = "action"
    <2>1. w.of \in Blocks
      BY <1>2 DEF Works, Blocks
    <2>2. Marked(w, leaf) = leaf
      BY <1>2 DEF Marked
    <2>3. r \in ExecuteBlock(w.of, leaf, max_depth)
      BY <1>2 DEF perform
    <2>4. IsPrefix(leaf, leaf) /\ Quiet(leaf, leaf)
      BY PrefixOfConcat, QuietFacts
    <2> QED
      BY <2>1, <2>2, <2>3, <2>4
  <1>3. CASE w.work = "enterSuperstate"
    <2> DEFINE l1 == StateEntryNode(w.of, leaf)
               l2 == initialize_variables(w.of, "local", l1)
    <2>1. w.of \in States /\ entry[w.of] \in Blocks
      BY <1>3 DEF Works, Blocks
    <2>2. r \in ExecuteBlock(entry[w.of], l2, max_depth)
      BY <1>3 DEF perform, enterSuperstate
    <2>3. Marked(w, leaf) = l1
      BY <1>3 DEF Marked
    <2>4. l1 \in Seq(N) /\ IsPrefix(leaf, l1)
      BY <2>1, NodeFacts
    <2> HIDE DEF l1
    <2>5. l2 \in Seq(N) /\ Quiet(l1, l2)
      BY <2>1, <2>4, InitializeFacts
    <2> HIDE DEF l2
    <2> QED
      BY <2>1, <2>2, <2>3, <2>4, <2>5
  <1>4. CASE w.work = "enterSubstate"
    <2> DEFINE l1 == StateEntryNode(w.of, leaf)
               l2 == initialize_variables(w.of, "local", l1)
               l3 == initialize_variables(w.of, "parameter", l2)
    <2>1. w.of \in States /\ entry[w.of] \in Blocks
      BY <1>4 DEF Works, Blocks
    <2>2. r \in ExecuteBlock(entry[w.of], l3, max_depth)
      BY <1>4 DEF perform, enterSubstate
    <2>3. Marked(w, leaf) = l1
      BY <1>4 DEF Marked
    <2>4. l1 \in Seq(N) /\ IsPrefix(leaf, l1)
      BY <2>1, NodeFacts
    <2> HIDE DEF l1
    <2>5. l2 \in Seq(N) /\ Quiet(l1, l2)
      BY <2>1, <2>4, InitializeFacts
    <2> HIDE DEF l2
    <2>6. l3 \in Seq(N) /\ Quiet(l2, l3)
      BY <2>1, <2>5, InitializeFacts
    <2> HIDE DEF l3
    <2>7. Quiet(l1, l3)
      BY <2>4, <2>5, <2>6, QuietFacts
    <2> QED
      BY <2>1, <2>2, <2>3, <2>4, <2>6, <2>7
  <1> QED
    BY <1>1, <1>2, <1>3, <1>4 DEF Works

(* A work turns a path into results.                                       *)
LEMMA PerformTyped ==
    ASSUME NEW N, BlocksTyped(N), max_depth \in Depths,
           NEW w \in Works, NEW leaf \in Seq(N)
    PROVE  perform(w, leaf) \subseteq Results(N)
  BY PerformExecutes DEF BlocksTyped

(* Entering a state is a work.                                             *)
LEMMA EnterIsWork ==
    ASSUME NEW st \in States, NEW leaf
    PROVE  /\ [work |-> "enterSubstate", of |-> st] \in Works
           /\ perform([work |-> "enterSubstate", of |-> st], leaf) = enterSubstate(st, leaf)
  BY DEF Works, perform

(* A work turns a path into results that continue it.                      *)
LEMMA PerformContinues ==
    ASSUME NEW N, BlocksContinue(N), max_depth \in Depths,
           NEW w \in Works, NEW leaf \in Seq(N), NEW r \in perform(w, leaf)
    PROVE  r \in Results(N) /\ Continues(r, leaf)
  <1> DEFINE l1 == Marked(w, leaf)
  <1>1. BlocksTyped(N)
    BY DEF BlocksContinue
  <1>2. /\ l1 \in Seq(N) /\ IsPrefix(leaf, l1)
        /\ \E b \in Blocks, l \in Seq(N) : /\ Quiet(l1, l)
                                            /\ r \in ExecuteBlock(b, l, max_depth)
    BY <1>1, PerformExecutes
  <1> HIDE DEF l1
  <1>3. PICK b \in Blocks, l \in Seq(N) : /\ Quiet(l1, l)
                                          /\ r \in ExecuteBlock(b, l, max_depth)
    BY <1>2
  <1>4. IsPrefix(leaf, l)
    BY <1>2, <1>3, PrefixTransitive DEF Quiet
  <1>5. r \in Results(N) /\ Continues(r, l)
    BY <1>1, <1>3 DEF BlocksContinue, BlocksTyped
  <1> QED
    BY <1>4, <1>5, ContinuesFurther

(* f[n] has what the first n lists of results are joined to.               *)
JoinedUpTo(f, rs) ==
    /\ f[0] = {Result(<< >>, << >>)}
    /\ \A i \in 1 .. Len(rs) : f[i] = {Joined(r1, r2) : r1 \in f[i - 1], r2 \in rs[i]}

(* The recursion that joins results: they stay of their kind.              *)
LEMMA JoinedAllEquation ==
    ASSUME NEW C, NEW L, NEW rs \in Seq(SUBSET Outcomes(C, L))
    PROVE  /\ \E f : JoinedUpTo(f, rs) /\ JoinedAll(rs) = f[Len(rs)]
           /\ JoinedAll(rs) \subseteq Outcomes(C, L)
  <1> DEFINE n == Len(rs)
             X == SUBSET Outcomes(C, L)
             base == {Result(<< >>, << >>)}
             G(R, i) == {Joined(r1, r2) : r1 \in R, r2 \in rs[i]}
             F(f) == [i \in 0 .. n |-> IF i = 0 THEN base ELSE G(f[i - 1], i)]
             results == CHOOSE f : f = F(f)
             step == [p \in X \X (1 .. n) |-> G(p[1], p[2])]
  <1>1. JoinedAll(rs) = results[n]
    BY DEF JoinedAll
  <1>2. n \in Nat /\ \A i \in 1 .. n : rs[i] \subseteq Outcomes(C, L)
    OBVIOUS
  <1>3. ASSUME NEW R \in X, NEW i \in 1 .. n PROVE G(R, i) \in X
    <2>1. \A r1 \in R, r2 \in rs[i] : Joined(r1, r2) \in Outcomes(C, L)
      BY <1>2, JoinedOutcome
    <2> QED
      BY <2>1
  <1>4. base \in X
    <2>1. << >> \in Seq(C) /\ << >> \in Seq(L)
      OBVIOUS
    <2>2. Result(<< >>, << >>) \in Outcomes(C, L)
      BY <2>1 DEF Result, Outcomes
    <2> QED
      BY <2>2
  <1>5. step \in [X \X (1 .. n) -> X]
    <2>1. \A p \in X \X (1 .. n) : G(p[1], p[2]) \in X
      BY <1>3
    <2> HIDE DEF G, X, n
    <2> QED
      BY <2>1
  <1>6. PICK g \in [0 .. n -> X] : Recursion(g, base, n, step)
    <2> HIDE DEF X, base, n, step
    <2> QED
      BY <1>2, <1>4, <1>5, RecursionExists
  <1>7. g[0] = base /\ \A i \in 1 .. n : g[i] = G(g[i - 1], i)
    <2> SUFFICES ASSUME NEW i \in 1 .. n PROVE g[i] = G(g[i - 1], i)
      BY <1>6 DEF Recursion
    <2>1. i - 1 \in 0 .. n
      BY <1>2
    <2>2. g[i - 1] \in X /\ <<g[i - 1], i>> \in X \X (1 .. n)
      BY <1>6, <2>1
    <2> HIDE DEF G, n, X
    <2> QED
      BY <1>6, <2>2 DEF Recursion
  <1>8. g = F(g)
    <2>1. \A i \in 0 .. n : i = 0 \/ i \in 1 .. n
      BY <1>2
    <2> HIDE DEF n, G, base
    <2>2. \A i \in 0 .. n : g[i] = F(g)[i]
      BY <1>7, <2>1
    <2>3. g = [i \in 0 .. n |-> g[i]] /\ F(g) = [i \in 0 .. n |-> F(g)[i]]
      BY <1>6
    <2> HIDE DEF F
    <2> QED
      BY <2>2, <2>3
  <1>9. results = F(results)
    <2> HIDE DEF F
    <2> QED
      BY <1>8
  <1> HIDE DEF results
  <1>10. results[0] = base /\ \A i \in 1 .. n : results[i] = G(results[i - 1], i)
    <2>1. 0 \in 0 .. n /\ \A i \in 1 .. n : i \in 0 .. n /\ i # 0
      BY <1>2
    <2> HIDE DEF n, G, base
    <2> QED
      BY <1>9, <2>1
  <1>11. JoinedUpTo(results, rs)
    BY <1>10 DEF JoinedUpTo
  <1>12. results[n] \in X
    <2> HIDE DEF n, X, G, base
    <2>1. results[0] \in X /\ \A i \in 1 .. n : results[i - 1] \in X => results[i] \in X
      BY <1>3, <1>4, <1>10
    <2> QED
      BY <1>2, <2>1, RecursionTyped
  <1> QED
    BY <1>1, <1>11, <1>12

(* Joined results reach what one result of each list reaches.              *)
LEMMA JoinedAllFacts ==
    ASSUME NEW N, NEW rs \in Seq(SUBSET Results(N)), NEW r \in JoinedAll(rs)
    PROVE  /\ r \in Results(N)
           /\ \A i \in 1 .. Len(rs) : \E q \in rs[i] : Reached(q) \subseteq Reached(r)
  <1> DEFINE n == Len(rs)
             X == SUBSET Results(N)
             base == {Result(<< >>, << >>)}
             G(R, i) == {Joined(r1, r2) : r1 \in R, r2 \in rs[i]}
  <1>0. Results(N) = Outcomes(Seq(N), Seq(N))
    BY DEF Results, Outcomes
  <1>1. PICK results : JoinedUpTo(results, rs) /\ JoinedAll(rs) = results[n]
    BY <1>0, JoinedAllEquation
  <1>2. n \in Nat /\ \A i \in 1 .. n : rs[i] \subseteq Results(N)
    OBVIOUS
  <1>3. ASSUME NEW R \in X, NEW i \in 1 .. n PROVE G(R, i) \in X
    <2>1. \A r1 \in R, r2 \in rs[i] : Joined(r1, r2) \in Results(N)
      BY <1>2, JoinedFacts
    <2> QED
      BY <2>1
  <1>4. base \in X
    <2>1. << >> \in Seq(Seq(N))
      OBVIOUS
    <2>2. Result(<< >>, << >>) \in Results(N)
      BY <2>1 DEF Result, Results
    <2> QED
      BY <2>2
  <1> DEFINE P(x, k) == \A i \in 1 .. k : \E q \in rs[i] : Reached(q) \subseteq Reached(x)
             T == {k \in 0 .. n : results[k] \in X /\ \A x \in results[k] : P(x, k)}
  <1>11. 0 \in T
    <2>1. 0 \in 0 .. n /\ \A x : P(x, 0)
      BY <1>2
    <2> HIDE DEF n, base, X, P
    <2> QED
      BY <1>4, <1>1, <2>1 DEF JoinedUpTo, base
  <1>12. ASSUME NEW k \in 1 .. n, k - 1 \in T PROVE k \in T
    <2>1. k \in 0 .. n /\ results[k - 1] \in X /\ \A x \in results[k - 1] : P(x, k - 1)
      BY <1>2, <1>12
    <2>2. results[k] = G(results[k - 1], k)
      BY <1>1 DEF JoinedUpTo
    <2>3. results[k] \in X
      <3> HIDE DEF G, X, n
      <3> QED
        BY <1>3, <2>1, <2>2
    <2>4. ASSUME NEW x \in results[k] PROVE P(x, k)
      <3>1. PICK r1 \in results[k - 1], r2 \in rs[k] : x = Joined(r1, r2)
        BY <2>2
      <3>2. r1 \in Results(N) /\ r2 \in Results(N)
        BY <1>2, <2>1, <3>1
      <3>3. Reached(x) = Reached(r1) \cup Reached(r2)
        BY <3>1, <3>2, JoinedFacts
      <3> SUFFICES ASSUME NEW i \in 1 .. k
                   PROVE  \E q \in rs[i] : Reached(q) \subseteq Reached(x)
        OBVIOUS
      <3>4. CASE i = k
        BY <3>1, <3>3, <3>4
      <3>5. CASE i # k
        <4>1. i \in 1 .. k - 1
          BY <3>5
        <4>2. \E q \in rs[i] : Reached(q) \subseteq Reached(r1)
          BY <2>1, <3>1, <4>1
        <4> QED
          BY <3>3, <4>2
      <3> QED
        BY <3>4, <3>5
    <2> HIDE DEF P, X, n
    <2> QED
      BY <2>1, <2>3, <2>4
  <1>13. n \in T
    <2> HIDE DEF T, n
    <2>1. 0 .. n \subseteq T
      BY <1>2, <1>11, <1>12, UpTo
    <2> QED
      BY <1>2, <2>1
  <1> QED
    BY <1>1, <1>13

(* A work done on each of a list of paths has outcomes as on each of them.  *)
LEMMA OnEachOutcome ==
    ASSUME NEW C, NEW L, NEW M, NEW w, NEW nodes \in Seq(M),
           \A l \in M : perform(w, l) \subseteq Outcomes(C, L)
    PROVE  onEach(w, nodes) \subseteq Outcomes(C, L)
  <1> DEFINE rs == [i \in DOMAIN nodes |-> perform(w, nodes[i])]
             SR == SUBSET Outcomes(C, L)
             m == Len(nodes)
  <1>1. m \in Nat /\ DOMAIN nodes = 1 .. m /\ \A i \in DOMAIN nodes : nodes[i] \in M
    OBVIOUS
  <1>2. \A i \in DOMAIN nodes : perform(w, nodes[i]) \in SR
    BY <1>1
  <1>3. rs \in [1 .. m -> SR]
    <2> HIDE DEF SR
    <2> QED
      BY <1>1, <1>2
  <1>4. onEach(w, nodes) = JoinedAll(rs)
    BY DEF onEach
  <1>5. rs \in Seq(SR)
    <2> HIDE DEF rs, SR, m
    <2> QED
      BY <1>1, <1>3
  <1> HIDE DEF rs
  <1> QED
    BY <1>4, <1>5, JoinedAllEquation

(* It gives results.                                                       *)
LEMMA OnEachTyped ==
    ASSUME NEW N, BlocksTyped(N), max_depth \in Depths, NEW w \in Works,
           NEW nodes \in Seq(Seq(N))
    PROVE  onEach(w, nodes) \subseteq Results(N)
  <1> DEFINE Z == Seq(N)
  <1>1. Results(N) = Outcomes(Z, Z)
    BY DEF Results, Outcomes
  <1>2. \A l \in Z : perform(w, l) \subseteq Outcomes(Z, Z)
    BY <1>1, PerformTyped
  <1> HIDE DEF Z
  <1>3. nodes \in Seq(Z)
    BY DEF Z
  <1>4. onEach(w, nodes) \subseteq Outcomes(Z, Z)
    BY <1>2, <1>3, OnEachOutcome
  <1> QED
    BY <1>1, <1>4

(* A work done on each of a list of paths continues all of them.           *)
LEMMA OnEachContinues ==
    ASSUME NEW N, BlocksContinue(N), max_depth \in Depths, NEW w \in Works,
           NEW nodes \in Seq(Seq(N)), NEW r \in onEach(w, nodes)
    PROVE  /\ r \in Results(N)
           /\ \A l \in Range(nodes) : Continues(r, l)
  <1> DEFINE rs == [i \in DOMAIN nodes |-> perform(w, nodes[i])]
             SR == SUBSET Results(N)
  <1>1. r \in JoinedAll(rs)
    BY DEF onEach
  <1>2. Len(nodes) \in Nat /\ DOMAIN nodes = 1 .. Len(nodes)
        /\ \A i \in DOMAIN nodes : nodes[i] \in Seq(N)
    OBVIOUS
  <1>3. \A i \in DOMAIN nodes : perform(w, nodes[i]) \in SR
    BY <1>2, PerformContinues
  <1>4. rs \in Seq(SR) /\ Len(rs) = Len(nodes)
    <2> DEFINE m == Len(nodes)
    <2> HIDE DEF SR
    <2>1. rs \in [1 .. m -> SR] /\ m \in Nat
      BY <1>2, <1>3
    <2>2. ASSUME NEW k \in Nat, NEW f \in [1 .. k -> SR]
          PROVE  f \in Seq(SR) /\ Len(f) = k
      OBVIOUS
    <2> HIDE DEF rs, m
    <2>3. rs \in Seq(SR) /\ Len(rs) = m
      BY <2>1, <2>2
    <2> QED
      BY <2>3 DEF m
  <1>5. /\ r \in Results(N)
        /\ \A i \in 1 .. Len(rs) : \E q \in rs[i] : Reached(q) \subseteq Reached(r)
    <2> HIDE DEF rs
    <2> QED
      BY <1>1, <1>4, JoinedAllFacts
  <1>6. ASSUME NEW l \in Range(nodes) PROVE Continues(r, l)
    <2>1. PICK i \in DOMAIN nodes : l = nodes[i]
      BY DEF Range
    <2>2. rs[i] = perform(w, l) /\ l \in Seq(N)
      BY <1>2, <2>1
    <2>3. PICK q \in rs[i] : Reached(q) \subseteq Reached(r)
      BY <1>2, <1>4, <1>5
    <2>4. Continues(q, l)
      BY <2>2, <2>3, PerformContinues
    <2> QED
      BY <2>3, <2>4 DEF Continues
  <1> QED
    BY <1>5, <1>6
-----------------------------------------------------------------------------
(* The states a transition leaves and enters.                              *)

(* upTo lists states, one at least.                                        *)
LEMMA UpToFacts ==
    ASSUME NEW st \in States, NEW top \in States,
           Len(top) < Len(st), top = Prefix(st, Len(top))
    PROVE  upTo(st, top) \in Seq(States) /\ upTo(st, top) # << >>
  <1> DEFINE same == {n \in 1 .. Len(st) - 1 : Last(Prefix(st, n)) = Last(top)}
             m == Max(same)
  <1>1. /\ Len(st) \in Nat \ {0} /\ Len(top) \in Nat \ {0} /\ st \in Seq(Identifiers)
        /\ \A n \in 1 .. Len(st) : Prefix(st, n) \in States
    BY StateFacts
  <1>2. Len(top) \in 1 .. Len(st) - 1 /\ Len(st) - 1 \in Nat
        /\ 1 .. Len(st) - 1 \subseteq 0 .. Len(st) - 1
    BY <1>1
  <1>3. Len(top) \in same /\ same \subseteq 0 .. Len(st) - 1
    BY <1>2
  <1>4. m \in same
    <2> HIDE DEF same
    <2> QED
      BY <1>2, <1>3, MaxExists
  <1>5. m \in 1 .. Len(st) /\ m \in 0 .. Len(st) /\ m < Len(st)
    BY <1>1, <1>4
  <1>6. upTo(st, top) = PathBelow(st, Prefix(st, m))
    BY DEF upTo
  <1> HIDE DEF m, same
  <1>7. Prefix(st, m) \in States /\ Len(Prefix(st, m)) = m
    BY <1>1, <1>5, PrefixFacts
  <1> QED
    BY <1>5, <1>6, <1>7, PathFacts

(* firstSubstates lists states.                                            *)
LEMMA FirstSubstatesFacts ==
    ASSUME NEW st \in States
    PROVE  firstSubstates(st) \in Seq(States)
  <1> DEFINE h == [x \in States |-> NoState]
             leaf == AtomicBelow(st, h)
             n == Len(leaf) - Len(st)
  <1>1. h \in Histories
    BY DEF Histories
  <1>2. leaf \in LeavesFrom(st, h)
    <2> HIDE DEF h
    <2> QED
      BY <1>1, AtomicBelowReached
  <1>3. leaf \in States /\ Len(st) <= Len(leaf)
    <2> HIDE DEF leaf, h
    <2> QED
      BY <1>2 DEF LeavesFrom, LeadsTo
  <1>4. firstSubstates(st) = [i \in 1 .. n |-> Prefix(leaf, Len(st) + i)]
    BY DEF firstSubstates
  <1> HIDE DEF leaf
  <1>5. /\ Len(st) \in Nat /\ Len(leaf) \in Nat
        /\ \A k \in 1 .. Len(leaf) : Prefix(leaf, k) \in States
    BY <1>3, StateFacts
  <1>6. n \in Nat /\ \A i \in 1 .. n : Len(st) + i \in 1 .. Len(leaf)
    BY <1>3, <1>5
  <1>7. \A i \in 1 .. n : Prefix(leaf, Len(st) + i) \in States
    BY <1>5, <1>6
  <1> HIDE DEF n
  <1>8. firstSubstates(st) \in [1 .. n -> States]
    BY <1>4, <1>7
  <1> QED
    BY <1>6, <1>8

(* One work for each element of a list.                                    *)
LEMMA EachFacts ==
    ASSUME NEW S, NEW list \in Seq(S), NEW kind, NEW W,
           \A x \in S : [work |-> kind, of |-> x] \in W
    PROVE  Each(kind, list) \in Seq(W)
  <1>1. /\ Len(list) \in Nat /\ DOMAIN list = 1 .. Len(list)
        /\ \A i \in DOMAIN list : list[i] \in S
    OBVIOUS
  <1>2. Each(kind, list) \in [1 .. Len(list) -> W]
    BY <1>1 DEF Each
  <1> QED
    BY <1>1, <1>2

(* The states a transition leads to, and its works.                        *)
LEMMA WorksFacts ==
    ASSUME NEW t \in Transitions
    PROVE  /\ upTo(t.source, t.state) \in Seq(States)
           /\ upTo(t.destination, t.state) \in Seq(States)
           /\ firstSubstates(t.destination) \in Seq(States)
           /\ worksOf(t) \in Seq(Works)
  <1>1. /\ t.source \in States /\ t.destination \in States /\ t.state \in States
        /\ Len(t.state) < Len(t.destination)
        /\ t.state = Prefix(t.destination, Len(t.state))
        /\ Len(t.state) < Len(t.source)
        /\ t.state = Prefix(t.source, Len(t.state))
    BY TransitionFacts
  <1> DEFINE a == upTo(t.source, t.state)
             b == upTo(t.destination, t.state)
             c == firstSubstates(t.destination)
             A == {tr.action : tr \in Transitions}
             ac == <<t.action>>
             wa == Each("exit", a)
             wt == Each("action", ac)
             wb == Each("enterSuperstate", b)
             wc == Each("enterSubstate", c)
  <1>2. a \in Seq(States)
    BY <1>1, UpToFacts
  <1>3. b \in Seq(States)
    BY <1>1, UpToFacts
  <1>4. c \in Seq(States)
    BY <1>1, FirstSubstatesFacts
  <1>5. ac \in Seq(A)
    <2>1. t.action \in A
      OBVIOUS
    <2> HIDE DEF A
    <2> QED
      BY <2>1
  <1>6. worksOf(t) = ((wa \o wt) \o wb) \o wc
    BY DEF worksOf
  <1>7. /\ \A x \in States : /\ [work |-> "exit", of |-> x] \in Works
                             /\ [work |-> "enterSuperstate", of |-> x] \in Works
                             /\ [work |-> "enterSubstate", of |-> x] \in Works
        /\ \A x \in A : [work |-> "action", of |-> x] \in Works
    BY DEF Works
  <1> HIDE DEF a, b, c, A, ac
  <1>8. wa \in Seq(Works) /\ wb \in Seq(Works) /\ wc \in Seq(Works)
    BY <1>2, <1>3, <1>4, <1>7, EachFacts
  <1>9. wt \in Seq(Works)
    BY <1>5, <1>7, EachFacts
  <1> HIDE DEF wa, wb, wc, wt
  <1>10. ((wa \o wt) \o wb) \o wc \in Seq(Works)
    BY <1>8, <1>9
  <1> QED
    BY <1>2, <1>3, <1>4, <1>6, <1>10 DEF a, b, c

-----------------------------------------------------------------------------
(* The loops of the engine.                                                *)

(* f[n] has what the first n works of t result in from leaf.               *)
TakenUpTo(f, t, leaf) ==
    /\ f[0] = {Result(<< >>, <<leaf>>)}
    /\ \A i \in 1 .. Len(worksOf(t)) :
           f[i] = UNION {{Result(r1.done \o r2.done, r2.live)
                              : r2 \in onEach(worksOf(t)[i], r1.live)} : r1 \in f[i - 1]}

(* The recursion over the works of a transition.                           *)
LEMMA TakeTransitionEquation ==
    ASSUME NEW N, BlocksTyped(N), max_depth \in Depths,
           NEW t \in Transitions, NEW leaf \in Seq(N)
    PROVE  \E f : TakenUpTo(f, t, leaf) /\ takeTransition(t, leaf) = f[Len(worksOf(t))]
  <1> DEFINE works == worksOf(t)
             n == Len(works)
             X == SUBSET Results(N)
             base == {Result(<< >>, <<leaf>>)}
             G(R, i) == UNION {{Result(r1.done \o r2.done, r2.live)
                                    : r2 \in onEach(works[i], r1.live)} : r1 \in R}
             F(f) == [i \in 0 .. n |-> IF i = 0 THEN base ELSE G(f[i - 1], i)]
             results == CHOOSE f : f = F(f)
             step == [p \in X \X (1 .. n) |-> G(p[1], p[2])]
  <1>1. takeTransition(t, leaf) = results[n]
    BY DEF takeTransition
  <1>2. n \in Nat /\ \A i \in 1 .. n : works[i] \in Works
    <2>1. works \in Seq(Works)
      BY WorksFacts
    <2> HIDE DEF works
    <2> QED
      BY <2>1
  <1> HIDE DEF works
  <1>3. ASSUME NEW R \in X, NEW i \in 1 .. n PROVE G(R, i) \in X
    <2> SUFFICES ASSUME NEW r1 \in R, NEW r2 \in onEach(works[i], r1.live)
                 PROVE  Result(r1.done \o r2.done, r2.live) \in Results(N)
      OBVIOUS
    <2>1. r1.done \in Seq(Seq(N)) /\ r1.live \in Seq(Seq(N))
      BY DEF Results
    <2>2. r2 \in Results(N)
      BY <1>2, <2>1, OnEachTyped
    <2>3. r2.done \in Seq(Seq(N)) /\ r2.live \in Seq(Seq(N))
      BY <2>2 DEF Results
    <2>4. r1.done \o r2.done \in Seq(Seq(N))
      BY <2>1, <2>3, ConcatProperties
    <2> QED
      BY <2>3, <2>4, ResultFacts
  <1>4. base \in X
    <2> DEFINE e == << >>
               one == <<leaf>>
    <2>1. e \in Seq(Seq(N)) /\ one \in Seq(Seq(N))
      OBVIOUS
    <2>2. base = {Result(e, one)}
      OBVIOUS
    <2> HIDE DEF e, one, base
    <2> QED
      BY <2>1, <2>2, ResultFacts
  <1>5. step \in [X \X (1 .. n) -> X]
    <2>1. \A p \in X \X (1 .. n) : G(p[1], p[2]) \in X
      <3> HIDE DEF G, X, n
      <3> QED
        BY <1>3
    <2> HIDE DEF G, X, n
    <2> QED
      BY <2>1
  <1>6. PICK g \in [0 .. n -> X] : Recursion(g, base, n, step)
    <2> HIDE DEF X, base, n, step
    <2> QED
      BY <1>2, <1>4, <1>5, RecursionExists
  <1> HIDE DEF G, base, X
  <1>7. g[0] = base /\ \A i \in 1 .. n : g[i] = G(g[i - 1], i)
    <2> SUFFICES ASSUME NEW i \in 1 .. n PROVE g[i] = G(g[i - 1], i)
      BY <1>6 DEF Recursion
    <2>1. i - 1 \in 0 .. n
      BY <1>2
    <2>2. g[i - 1] \in X /\ <<g[i - 1], i>> \in X \X (1 .. n)
      BY <1>6, <2>1
    <2> HIDE DEF n
    <2> QED
      BY <1>6, <2>2 DEF Recursion
  <1>8. g = F(g)
    <2>1. \A i \in 0 .. n : i = 0 \/ i \in 1 .. n
      BY <1>2
    <2> HIDE DEF n
    <2>2. \A i \in 0 .. n : g[i] = F(g)[i]
      BY <1>7, <2>1
    <2>3. g = [i \in 0 .. n |-> g[i]] /\ F(g) = [i \in 0 .. n |-> F(g)[i]]
      BY <1>6
    <2> HIDE DEF F
    <2> QED
      BY <2>2, <2>3
  <1>9. results = F(results)
    <2> HIDE DEF F
    <2> QED
      BY <1>8
  <1> HIDE DEF results
  <1>10. results[0] = base /\ \A i \in 1 .. n : results[i] = G(results[i - 1], i)
    <2>1. 0 \in 0 .. n /\ \A i \in 1 .. n : i \in 0 .. n /\ i # 0
      BY <1>2
    <2> HIDE DEF n
    <2> QED
      BY <1>9, <2>1
  <1>11. TakenUpTo(results, t, leaf)
    BY <1>10 DEF TakenUpTo, G, base, works
  <1> QED
    BY <1>1, <1>11 DEF works

(* What each work of a transition does to the paths it is done on, the whole
   does: when the n-th leads from the paths in L[n - 1] to those in L[n] and
   finishes paths in C only, the transition leads to the last of these.    *)
LEMMA TakeTransitionOutcome ==
    ASSUME NEW N, BlocksTyped(N), max_depth \in Depths,
           NEW t \in Transitions, NEW leaf \in Seq(N), NEW C, NEW L, leaf \in L[0],
           \A i \in 1 .. Len(worksOf(t)) :
               \A l \in L[i - 1] : perform(worksOf(t)[i], l) \subseteq Outcomes(C, L[i])
    PROVE  takeTransition(t, leaf) \subseteq Outcomes(C, L[Len(worksOf(t))])
  <1> DEFINE works == worksOf(t)
             n == Len(works)
  <1>1. PICK f : TakenUpTo(f, t, leaf) /\ takeTransition(t, leaf) = f[n]
    BY TakeTransitionEquation
  <1>2. n \in Nat
    BY WorksFacts
  <1> DEFINE U == {i \in 0 .. n : f[i] \subseteq Outcomes(C, L[i])}
  <1>3. 0 \in U
    <2> DEFINE e == << >>
               one == <<leaf>>
               L0 == L[0]
    <2>1. f[0] = {Result(e, one)}
      BY <1>1 DEF TakenUpTo
    <2>2. e \in Seq(C) /\ one \in Seq(L0)
      <3>1. leaf \in L0
        OBVIOUS
      <3> HIDE DEF L0
      <3> QED
        BY <3>1
    <2> HIDE DEF e, one, L0
    <2>3. Result(e, one) \in Outcomes(C, L0)
      BY <2>2 DEF Result, Outcomes
    <2> QED
      BY <1>2, <2>1, <2>3 DEF L0
  <1>4. ASSUME NEW i \in 1 .. n, i - 1 \in U PROVE i \in U
    <2> DEFINE L1 == L[i - 1]
               L2 == L[i]
               w == works[i]
    <2>1. /\ f[i - 1] \subseteq Outcomes(C, L1) /\ i \in 0 .. n
          /\ \A l \in L1 : perform(w, l) \subseteq Outcomes(C, L2)
      <3>1. i \in 0 .. n
        BY <1>2
      <3>2. f[i - 1] \subseteq Outcomes(C, L1)
        BY <1>4
      <3>3. i \in 1 .. Len(worksOf(t))
        OBVIOUS
      <3>4. \A l \in L1 : perform(w, l) \subseteq Outcomes(C, L2)
        BY <3>3
      <3> QED
        BY <3>1, <3>2, <3>4
    <2>2. f[i] = UNION {{Result(r1.done \o r2.done, r2.live)
                              : r2 \in onEach(w, r1.live)} : r1 \in f[i - 1]}
      <3>1. i \in 1 .. Len(worksOf(t))
        OBVIOUS
      <3> QED
        BY <1>1, <3>1 DEF TakenUpTo
    <2> HIDE DEF L1, L2, w, works
    <2>3. ASSUME NEW r1 \in f[i - 1], NEW r2 \in onEach(w, r1.live)
          PROVE  Result(r1.done \o r2.done, r2.live) \in Outcomes(C, L2)
      <3>1. r1.done \in Seq(C) /\ r1.live \in Seq(L1)
        BY <2>1 DEF Outcomes
      <3>2. r2 \in Outcomes(C, L2)
        BY <2>1, <3>1, OnEachOutcome
      <3>3. r2.done \in Seq(C) /\ r2.live \in Seq(L2)
        BY <3>2 DEF Outcomes
      <3>4. r1.done \o r2.done \in Seq(C)
        BY <3>1, <3>3, ConcatProperties
      <3> QED
        BY <3>3, <3>4 DEF Result, Outcomes
    <2>4. f[i] \subseteq Outcomes(C, L2)
      BY <2>2, <2>3
    <2> QED
      BY <2>1, <2>4 DEF L2
  <1> HIDE DEF U, n
  <1>5. 0 .. n \subseteq U
    BY <1>2, <1>3, <1>4, UpTo
  <1>6. n \in U
    BY <1>2, <1>5
  <1> QED
    BY <1>1, <1>6 DEF U, n

(* Taking a transition gives results.                                      *)
LEMMA TakeTransitionTyped ==
    ASSUME NEW N, BlocksTyped(N), max_depth \in Depths,
           NEW t \in Transitions, NEW leaf \in Seq(N)
    PROVE  takeTransition(t, leaf) \subseteq Results(N)
  <1> DEFINE Z == Seq(N)
             n == Len(worksOf(t))
             L == [i \in 0 .. n |-> Z]
  <1>1. Results(N) = Outcomes(Z, Z)
    BY DEF Results, Outcomes
  <1>2. n \in Nat /\ \A i \in 1 .. n : worksOf(t)[i] \in Works
    <2>1. worksOf(t) \in Seq(Works)
      BY WorksFacts
    <2> DEFINE works == worksOf(t)
    <2> HIDE DEF works
    <2> QED
      BY <2>1 DEF works
  <1>3. \A i \in 0 .. n : L[i] = Z
    OBVIOUS
  <1>4. 0 \in 0 .. n /\ n \in 0 .. n /\ \A i \in 1 .. n : i \in 0 .. n /\ i - 1 \in 0 .. n
    BY <1>2
  <1> HIDE DEF L
  <1>5. \A i \in 1 .. n :
            \A l \in L[i - 1] : perform(worksOf(t)[i], l) \subseteq Outcomes(Z, L[i])
    BY <1>1, <1>2, <1>3, <1>4, PerformTyped
  <1>6. leaf \in L[0]
    BY <1>3, <1>4
  <1>7. takeTransition(t, leaf) \subseteq Outcomes(Z, L[n])
    BY <1>5, <1>6, TakeTransitionOutcome
  <1> QED
    BY <1>1, <1>3, <1>4, <1>7

(* Taking a transition turns a path into results that continue it: those of
   each work continue the paths the one before has left alive.             *)
LEMMA TakeTransitionContinues ==
    ASSUME NEW N, BlocksContinue(N), max_depth \in Depths,
           NEW t \in Transitions, NEW leaf \in Seq(N), NEW r \in takeTransition(t, leaf)
    PROVE  r \in Results(N) /\ Continues(r, leaf)
  <1> DEFINE works == worksOf(t)
             n == Len(works)
             X == SUBSET {x \in Results(N) : Continues(x, leaf)}
             base == {Result(<< >>, <<leaf>>)}
             G(R, i) == UNION {{Result(r1.done \o r2.done, r2.live)
                                    : r2 \in onEach(works[i], r1.live)} : r1 \in R}
  <1>0. PICK results : TakenUpTo(results, t, leaf) /\ takeTransition(t, leaf) = results[n]
    BY TakeTransitionEquation DEF BlocksContinue
  <1>1. /\ results[0] = base
        /\ \A i \in 1 .. n : results[i] = G(results[i - 1], i)
        /\ takeTransition(t, leaf) = results[n]
    BY <1>0 DEF TakenUpTo
  <1>2. n \in Nat /\ \A i \in 1 .. n : works[i] \in Works
    <2>1. works \in Seq(Works)
      BY WorksFacts
    <2> HIDE DEF works
    <2> QED
      BY <2>1
  <1> HIDE DEF works
  <1>3. ASSUME NEW R \in X, NEW i \in 1 .. n PROVE G(R, i) \in X
    <2> SUFFICES ASSUME NEW r1 \in R, NEW r2 \in onEach(works[i], r1.live)
                 PROVE  /\ Result(r1.done \o r2.done, r2.live) \in Results(N)
                        /\ Continues(Result(r1.done \o r2.done, r2.live), leaf)
      OBVIOUS
    <2>1. /\ r1 \in Results(N) /\ Continues(r1, leaf)
          /\ r1.done \in Seq(Seq(N)) /\ r1.live \in Seq(Seq(N))
      BY DEF Results
    <2>2. /\ r2 \in Results(N) /\ \A l \in Range(r1.live) : Continues(r2, l)
          /\ r2.done \in Seq(Seq(N)) /\ r2.live \in Seq(Seq(N))
      <3>1. r2 \in Results(N) /\ \A l \in Range(r1.live) : Continues(r2, l)
        BY <1>2, <2>1, OnEachContinues
      <3> QED
        BY <3>1 DEF Results
    <2> DEFINE d == r1.done \o r2.done
               x == Result(d, r2.live)
    <2>3. d \in Seq(Seq(N)) /\ Range(d) = Range(r1.done) \cup Range(r2.done)
      BY <2>1, <2>2, ConcatProperties, RangeConcatenation
    <2> HIDE DEF d
    <2>4. x \in Results(N) /\ Reached(x) = Range(d) \cup Range(r2.live)
      BY <2>2, <2>3, ResultFacts
    <2> HIDE DEF x
    <2>5. Reached(r2) \subseteq Reached(x)
      BY <2>3, <2>4 DEF Reached
    <2>6. PICK l \in Reached(r1) : IsPrefix(leaf, l)
      BY <2>1 DEF Continues
    <2>7. Continues(x, leaf)
      <3>1. CASE l \in Range(r1.done)
        BY <2>3, <2>4, <2>6, <3>1 DEF Continues
      <3>2. CASE l \in Range(r1.live)
        <4>1. l \in Seq(N) /\ Continues(r2, l)
          BY <2>1, <2>2, <3>2, RangeOfSeq
        <4>2. Continues(r2, leaf)
          BY <2>2, <2>6, <4>1, ContinuesFurther
        <4> QED
          BY <2>5, <4>2 DEF Continues
      <3> QED
        BY <2>6, <3>1, <3>2 DEF Reached
    <2> QED
      BY <2>4, <2>7 DEF x, d
  <1>4. base \in X
    <2> DEFINE e == << >>
               one == <<leaf>>
    <2>1. e \in Seq(Seq(N)) /\ one \in Seq(Seq(N)) /\ leaf \in Range(one)
      BY DEF Range
    <2>2. base = {Result(e, one)}
      OBVIOUS
    <2>3. IsPrefix(leaf, leaf)
      BY PrefixOfConcat
    <2> HIDE DEF e, one, base
    <2>4. Result(e, one) \in Results(N) /\ Continues(Result(e, one), leaf)
      BY <2>1, <2>3, ResultFacts DEF Continues
    <2> QED
      BY <2>2, <2>4
  <1> HIDE DEF G, base, X
  <1>5. results[n] \in X
    <2> HIDE DEF n
    <2>1. results[0] \in X /\ \A i \in 1 .. n : results[i - 1] \in X => results[i] \in X
      BY <1>1, <1>3, <1>4
    <2> QED
      BY <1>2, <2>1, RecursionTyped
  <1> QED
    BY <1>1, <1>5 DEF X

(* Entering a state of conf on all leaves has outcomes as on each of them.  *)
LEMMA EnteredFacts ==
    ASSUME NEW C, NEW L, NEW M, leaves \in Seq(M), NEW st \in States,
           \A l \in M : enterSubstate(st, l) \subseteq Outcomes(C, L),
           NEW r \in entered(st)
    PROVE  r \in Outcomes(C, L)
  <1> DEFINE n == Len(leaves)
             B == [broken : BOOLEAN, res : Outcomes(C, L)]
             X == SUBSET B
             base == {[broken |-> FALSE, res |-> Result(<< >>, << >>)]}
             H(b, i) == IF b.broken THEN {b}
                        ELSE {[broken |-> q.live = << >>, res |-> Joined(b.res, q)]
                                  : q \in enterSubstate(st, leaves[i])}
             G(R, i) == UNION {H(b, i) : b \in R}
             F(f) == [i \in 0 .. n |-> IF i = 0 THEN base ELSE G(f[i - 1], i)]
             results == CHOOSE f : f = F(f)
             step == [p \in X \X (1 .. n) |-> G(p[1], p[2])]
  <1>1. r \in {b.res : b \in results[n]}
    BY DEF entered
  <1>2. n \in Nat /\ \A i \in 1 .. n : leaves[i] \in M
    OBVIOUS
  <1>3. ASSUME NEW R \in X, NEW i \in 1 .. n PROVE G(R, i) \in X
    <2> SUFFICES ASSUME NEW b \in R PROVE H(b, i) \in X
      OBVIOUS
    <2>1. b \in B /\ b.res \in Outcomes(C, L)
      OBVIOUS
    <2>2. CASE b.broken
      BY <2>1, <2>2
    <2>3. CASE ~b.broken
      <3>1. ASSUME NEW q \in enterSubstate(st, leaves[i])
            PROVE  [broken |-> q.live = << >>, res |-> Joined(b.res, q)] \in B
        <4>1. q \in Outcomes(C, L)
          BY <1>2
        <4>2. Joined(b.res, q) \in Outcomes(C, L)
          BY <2>1, <4>1, JoinedOutcome
        <4>3. (q.live = << >>) \in BOOLEAN
          OBVIOUS
        <4> QED
          BY <4>2, <4>3
      <3> HIDE DEF B
      <3> QED
        BY <2>3, <3>1
    <2> QED
      BY <2>2, <2>3
  <1>4. base \in X
    <2>1. << >> \in Seq(C) /\ << >> \in Seq(L)
      OBVIOUS
    <2>2. Result(<< >>, << >>) \in Outcomes(C, L)
      BY <2>1 DEF Result, Outcomes
    <2> QED
      BY <2>2
  <1>5. step \in [X \X (1 .. n) -> X]
    <2>1. \A p \in X \X (1 .. n) : G(p[1], p[2]) \in X
      <3> HIDE DEF G, X, n
      <3> QED
        BY <1>3
    <2> HIDE DEF G, X, n
    <2> QED
      BY <2>1
  <1>6. PICK g \in [0 .. n -> X] : Recursion(g, base, n, step)
    <2> HIDE DEF X, base, n, step
    <2> QED
      BY <1>2, <1>4, <1>5, RecursionExists
  <1> HIDE DEF G, base, X
  <1>7. g[0] = base /\ \A i \in 1 .. n : g[i] = G(g[i - 1], i)
    <2> SUFFICES ASSUME NEW i \in 1 .. n PROVE g[i] = G(g[i - 1], i)
      BY <1>6 DEF Recursion
    <2>1. i - 1 \in 0 .. n
      BY <1>2
    <2>2. g[i - 1] \in X /\ <<g[i - 1], i>> \in X \X (1 .. n)
      BY <1>6, <2>1
    <2> HIDE DEF n
    <2> QED
      BY <1>6, <2>2 DEF Recursion
  <1>8. g = F(g)
    <2>1. \A i \in 0 .. n : i = 0 \/ i \in 1 .. n
      BY <1>2
    <2> HIDE DEF n
    <2>2. \A i \in 0 .. n : g[i] = F(g)[i]
      BY <1>7, <2>1
    <2>3. g = [i \in 0 .. n |-> g[i]] /\ F(g) = [i \in 0 .. n |-> F(g)[i]]
      BY <1>6
    <2> HIDE DEF F
    <2> QED
      BY <2>2, <2>3
  <1>9. results = F(results)
    <2> HIDE DEF F
    <2> QED
      BY <1>8
  <1> HIDE DEF results
  <1>10. results[0] = base /\ \A i \in 1 .. n : results[i] = G(results[i - 1], i)
    <2>1. 0 \in 0 .. n /\ \A i \in 1 .. n : i \in 0 .. n /\ i # 0
      BY <1>2
    <2> HIDE DEF n
    <2> QED
      BY <1>9, <2>1
  <1>11. results[n] \in X
    <2> HIDE DEF n
    <2>1. results[0] \in X /\ \A i \in 1 .. n : results[i - 1] \in X => results[i] \in X
      BY <1>3, <1>4, <1>10
    <2> QED
      BY <1>2, <2>1, RecursionTyped
  <1> QED
    BY <1>1, <1>11 DEF X

(* A chart is of finite depth: else there would ever be deeper states, and
   ever fewer.                                                             *)
LEMMA DepthBounded ==
    \E D \in Nat : \A x \in States : Len(x) <= D
  <1> DEFINE Deep(k) == {x \in States : Len(x) >= k}
             U == {Deep(k) : k \in Nat}
  <1>1. IsFiniteSet(States)
    BY TreeAssumption DEF TreeWellFormed
  <1>2. IsWellFoundedOn(StrictSubsetOrdering(States), SUBSET States)
    BY <1>1, FS_StrictSubsetOrderingWellFounded, FS_FiniteSubsetsOfFinite
  <1>3. U \subseteq SUBSET States /\ U # {}
    <2>1. \A k \in Nat : Deep(k) \in SUBSET States
      OBVIOUS
    <2>2. 0 \in Nat
      OBVIOUS
    <2> HIDE DEF Deep
    <2> QED
      BY <2>1, <2>2
  <1>4. PICK u \in U : \A v \in U : ~ (<<v, u>> \in StrictSubsetOrdering(States))
    BY <1>2, <1>3, WFMin
  <1>5. PICK k \in Nat : u = Deep(k)
    BY <1>4
  <1>6. \A x \in States : Len(x) \in Nat
    BY StateFacts
  <1>7. ASSUME NEW x \in Deep(k) PROVE FALSE
    <2> DEFINE m == Len(x) + 1
    <2>1. m \in Nat /\ Deep(m) \subseteq Deep(k) /\ x \notin Deep(m)
      BY <1>6
    <2>2. Deep(m) \in SUBSET States /\ Deep(k) \in SUBSET States
      OBVIOUS
    <2> HIDE DEF Deep, m
    <2>3. <<Deep(m), Deep(k)>> \in StrictSubsetOrdering(States)
      BY <1>7, <2>1, <2>2 DEF StrictSubsetOrdering
    <2> QED
      BY <1>4, <1>5, <2>1, <2>3
  <1>8. \A x \in States : Len(x) <= k
    BY <1>6, <1>7
  <1> QED
    BY <1>8

(* get_all_states lists states: its recursion has a solution, for what is
   below states of equal depth can be listed, the deepest first.           *)
LEMMA AllStatesFacts ==
    ASSUME NEW st \in States
    PROVE  get_all_states(st) \in Seq(States)
  <1> DEFINE subs(f, x) == [i \in DOMAIN states[x] |-> f[states[x][i]]]
             A(f, x) == <<x>> \o FlattenSeq(subs(f, x))
             F(f) == [x \in States |-> A(f, x)]
             below == CHOOSE f : f = F(f)
             X == [States -> Seq(States)]
             base == [x \in States |-> << >>]
  <1>1. get_all_states(st) = below[st]
    BY DEF get_all_states
  <1>2. ASSUME NEW x \in States
        PROVE  /\ Len(states[x]) \in Nat /\ DOMAIN states[x] = 1 .. Len(states[x])
               /\ \A i \in DOMAIN states[x] : /\ states[x][i] \in States
                                              /\ Len(states[x][i]) = Len(x) + 1
    <2>1. states[x] \in Seq(States) /\ Range(states[x]) = {c \in States : getSuperstate(c) = x}
      BY TreeAssumption DEF TreeWellFormed
    <2>2. \A i \in DOMAIN states[x] : /\ states[x][i] \in States
                                      /\ getSuperstate(states[x][i]) = x
      BY <2>1 DEF Range
    <2>3. \A c \in States : Len(getSuperstate(c)) = Len(c) - 1 /\ Len(c) \in Nat
      BY StateFacts, SuperstateFacts DEF NoState
    <2>4. \A i \in DOMAIN states[x] : Len(states[x][i]) = Len(x) + 1
      <3> SUFFICES ASSUME NEW i \in DOMAIN states[x] PROVE Len(states[x][i]) = Len(x) + 1
        OBVIOUS
      <3>1. Len(x) = Len(states[x][i]) - 1 /\ Len(states[x][i]) \in Nat
        BY <2>2, <2>3
      <3> QED
        BY <3>1
    <2> QED
      BY <2>1, <2>2, <2>4
  <1>3. ASSUME NEW f, NEW x \in States,
               \A i \in DOMAIN states[x] : f[states[x][i]] \in Seq(States)
        PROVE  A(f, x) \in Seq(States)
    <2> DEFINE SS == Seq(States)
               q == subs(f, x)
    <2>1. q \in [1 .. Len(states[x]) -> SS]
      BY <1>2, <1>3
    <2>2. q \in Seq(SS)
      <3> HIDE DEF q, SS
      <3> QED
        BY <1>2, <2>1
    <2> HIDE DEF q
    <2>3. FlattenSeq(q) \in Seq(States)
      BY <2>2, FlattenFacts
    <2>4. <<x>> \in Seq(States)
      OBVIOUS
    <2> QED
      BY <2>3, <2>4, ConcatProperties DEF q
  <1>4. \A f \in X : F(f) \in X
    <2> SUFFICES ASSUME NEW f \in X PROVE \A x \in States : A(f, x) \in Seq(States)
      OBVIOUS
    <2> HIDE DEF A
    <2> QED
      BY <1>2, <1>3
  <1>5. PICK D \in Nat : \A x \in States : Len(x) <= D /\ Len(x) \in Nat
    BY DepthBounded, StateFacts
  <1> DEFINE n == D + 1
             step == [p \in X \X (1 .. n) |-> F(p[1])]
  <1>6. base \in X /\ n \in Nat
    OBVIOUS
  <1>7. step \in [X \X (1 .. n) -> X]
    <2> HIDE DEF F, X, n
    <2> QED
      BY <1>4
  <1>8. PICK h \in [0 .. n -> X] : Recursion(h, base, n, step)
    <2> HIDE DEF X, base, n, step
    <2> QED
      BY <1>6, <1>7, RecursionExists
  <1>9. \A i \in 1 .. n : h[i] = F(h[i - 1]) /\ h[i - 1] \in X
    <2> SUFFICES ASSUME NEW i \in 1 .. n PROVE h[i] = F(h[i - 1]) /\ h[i - 1] \in X
      OBVIOUS
    <2>1. i - 1 \in 0 .. n
      OBVIOUS
    <2>2. h[i - 1] \in X /\ <<h[i - 1], i>> \in X \X (1 .. n)
      BY <1>8, <2>1
    <2> HIDE DEF F, n, X
    <2> QED
      BY <1>8, <2>2 DEF Recursion
  <1> DEFINE T == {k \in 0 .. D : \A x \in States :
                       Len(x) + k > D => h[k + 1][x] = h[k][x]}
  <1>10. 0 \in T
    BY <1>5
  <1>11. ASSUME NEW k \in 1 .. D, k - 1 \in T PROVE k \in T
    <2>1. /\ k \in 0 .. D /\ k \in 1 .. n /\ k + 1 \in 1 .. n
          /\ (k - 1) + 1 = k /\ (k + 1) - 1 = k
      OBVIOUS
    <2>2. h[k + 1] = F(h[k]) /\ h[k] = F(h[k - 1])
      <3> HIDE DEF F, n
      <3> QED
        BY <1>9, <2>1
    <2>3. \A x \in States : Len(x) + (k - 1) > D => h[k][x] = h[k - 1][x]
      BY <1>11, <2>1
    <2>4. ASSUME NEW x \in States, Len(x) + k > D PROVE h[k + 1][x] = h[k][x]
      <3>1. \A i \in DOMAIN states[x] : Len(states[x][i]) + (k - 1) > D
        <4>1. (Len(x) + 1) + (k - 1) > D
          BY <1>5, <2>4
        <4> QED
          BY <1>2, <4>1
      <3>2. \A i \in DOMAIN states[x] : h[k][states[x][i]] = h[k - 1][states[x][i]]
        BY <1>2, <2>3, <3>1
      <3>3. subs(h[k], x) = subs(h[k - 1], x)
        BY <3>2
      <3>4. A(h[k], x) = A(h[k - 1], x)
        <4> HIDE DEF subs
        <4> QED
          BY <3>3
      <3>5. F(h[k])[x] = A(h[k], x) /\ F(h[k - 1])[x] = A(h[k - 1], x)
        <4> HIDE DEF A
        <4> QED
          OBVIOUS
      <3> HIDE DEF F, A
      <3> QED
        BY <2>2, <3>4, <3>5
    <2> QED
      BY <2>1, <2>4
  <1>12. D \in T
    <2> HIDE DEF T
    <2>1. 0 .. D \subseteq T
      BY <1>10, <1>11, UpTo
    <2> QED
      BY <2>1
  <1>13. h[D] = F(h[D])
    <2>1. D + 1 \in 1 .. n /\ (D + 1) - 1 = D /\ D + 1 \in 0 .. n
      OBVIOUS
    <2>2. h[D + 1] = F(h[D]) /\ h[D] \in X /\ h[D + 1] \in X
      <3> HIDE DEF F, X, n
      <3> QED
        BY <1>8, <1>9, <2>1
    <2>3. \A x \in States : h[D + 1][x] = h[D][x]
      <3>1. \A x \in States : Len(x) + D > D
        BY <1>5, StateFacts
      <3> QED
        BY <1>12, <3>1
    <2>4. h[D + 1] = [x \in States |-> h[D + 1][x]] /\ h[D] = [x \in States |-> h[D][x]]
      <3> HIDE DEF F
      <3> QED
        BY <2>2
    <2>5. h[D + 1] = h[D]
      BY <2>3, <2>4
    <2> HIDE DEF F
    <2> QED
      BY <2>2, <2>5
  <1>14. below = F(below)
    <2> HIDE DEF F
    <2> QED
      BY <1>13
  <1> HIDE DEF below
  <1>15. \A x \in States : below[x] = A(below, x)
    <2> HIDE DEF A
    <2> QED
      BY <1>14
  <1> DEFINE V == {k \in 0 .. D : \A x \in States :
                       Len(x) + k > D => below[x] \in Seq(States)}
  <1>16. 0 \in V
    BY <1>5
  <1>17. ASSUME NEW k \in 1 .. D, k - 1 \in V PROVE k \in V
    <2>1. \A x \in States : Len(x) + (k - 1) > D => below[x] \in Seq(States)
      BY <1>17
    <2>2. ASSUME NEW x \in States, Len(x) + k > D PROVE below[x] \in Seq(States)
      <3>1. \A i \in DOMAIN states[x] : Len(states[x][i]) + (k - 1) > D
        <4>1. (Len(x) + 1) + (k - 1) > D
          BY <1>5, <2>2
        <4> QED
          BY <1>2, <4>1
      <3>2. \A i \in DOMAIN states[x] : below[states[x][i]] \in Seq(States)
        BY <1>2, <2>1, <3>1
      <3> HIDE DEF A
      <3> QED
        BY <1>3, <1>15, <3>2
    <2> QED
      BY <2>2
  <1>18. D \in V
    <2> HIDE DEF V
    <2>1. 0 .. D \subseteq V
      BY <1>16, <1>17, UpTo
    <2> QED
      BY <2>1
  <1>19. Len(st) + D > D
    BY StateFacts
  <1> QED
    BY <1>1, <1>18, <1>19

(* The root of the tree is a path on which no state is entered.            *)
LEMMA StartnodeFacts ==
    ASSUME NEW N, BlocksTyped(N)
    PROVE  startnode \in Seq(N) /\ Quiet(<< >>, startnode)
  <1> DEFINE all_states == get_all_states(Root)
             n == Len(all_states)
             X == {l \in Seq(N) : Quiet(<< >>, l)}
             base == << >>
             G(l, i) == initialize_variables(all_states[i], "static", l)
             F(f) == [i \in 0 .. n |-> IF i = 0 THEN base ELSE G(f[i - 1], i)]
             node == CHOOSE f : f = F(f)
             step == [p \in X \X (1 .. n) |-> G(p[1], p[2])]
  <1>1. startnode = node[n]
    BY DEF startnode
  <1>2. n \in Nat /\ \A i \in 1 .. n : all_states[i] \in States
    <2>1. Root \in States
      BY TreeAssumption DEF TreeWellFormed
    <2>2. all_states \in Seq(States)
      BY <2>1, AllStatesFacts
    <2> HIDE DEF all_states
    <2> QED
      BY <2>2
  <1> HIDE DEF all_states
  <1>3. ASSUME NEW l \in X, NEW i \in 1 .. n PROVE G(l, i) \in X
    <2> DEFINE g1 == G(l, i)
               e == << >>
    <2>1. g1 \in Seq(N) /\ Quiet(l, g1) /\ l \in Seq(N) /\ Quiet(e, l)
      BY <1>2, InitializeFacts
    <2>2. e \in Seq(N)
      OBVIOUS
    <2> HIDE DEF g1, e
    <2>3. Quiet(e, g1)
      BY <2>1, <2>2, QuietFacts
    <2> QED
      BY <2>1, <2>3 DEF g1, e
  <1>4. base \in X
    <2>1. base \in Seq(N)
      OBVIOUS
    <2> HIDE DEF base
    <2>2. Quiet(base, base)
      BY <2>1, QuietFacts
    <2> QED
      BY <2>1, <2>2 DEF base
  <1> HIDE DEF G, base, X
  <1>5. step \in [X \X (1 .. n) -> X]
    <2> HIDE DEF n
    <2> QED
      BY <1>3
  <1>6. PICK g \in [0 .. n -> X] : Recursion(g, base, n, step)
    <2> HIDE DEF n, step
    <2> QED
      BY <1>2, <1>4, <1>5, RecursionExists
  <1>7. g[0] = base /\ \A i \in 1 .. n : g[i] = G(g[i - 1], i)
    <2> SUFFICES ASSUME NEW i \in 1 .. n PROVE g[i] = G(g[i - 1], i)
      BY <1>6 DEF Recursion
    <2>1. i - 1 \in 0 .. n
      BY <1>2
    <2>2. g[i - 1] \in X /\ <<g[i - 1], i>> \in X \X (1 .. n)
      BY <1>6, <2>1
    <2> HIDE DEF n
    <2> QED
      BY <1>6, <2>2 DEF Recursion
  <1>8. g = F(g)
    <2>1. \A i \in 0 .. n : i = 0 \/ i \in 1 .. n
      BY <1>2
    <2> HIDE DEF n
    <2>2. \A i \in 0 .. n : g[i] = F(g)[i]
      BY <1>7, <2>1
    <2>3. g = [i \in 0 .. n |-> g[i]] /\ F(g) = [i \in 0 .. n |-> F(g)[i]]
      BY <1>6
    <2> HIDE DEF F
    <2> QED
      BY <2>2, <2>3
  <1>9. node = F(node)
    <2> HIDE DEF F
    <2> QED
      BY <1>8
  <1> HIDE DEF node
  <1>10. node[0] = base /\ \A i \in 1 .. n : node[i] = G(node[i - 1], i)
    <2>1. 0 \in 0 .. n /\ \A i \in 1 .. n : i \in 0 .. n /\ i # 0
      BY <1>2
    <2> HIDE DEF n
    <2> QED
      BY <1>9, <2>1
  <1>11. node[n] \in X
    <2> HIDE DEF n
    <2>1. node[0] \in X /\ \A i \in 1 .. n : node[i - 1] \in X => node[i] \in X
      BY <1>3, <1>4, <1>10
    <2> QED
      BY <1>2, <2>1, RecursionTyped
  <1> QED
    BY <1>1, <1>11 DEF X

-----------------------------------------------------------------------------
(* conf and the transitions that leave it.                                 *)

(* What is added to a set of states and what is left of it.                *)
LEMMA SetFacts ==
    ASSUME NEW c \in Seq(States), NEW sts \in Seq(States)
    PROVE  /\ Added(c, sts) \in Seq(States)
           /\ Range(Added(c, sts)) = Range(c) \cup Range(sts)
           /\ Removed(c, sts) \in Seq(States)
           /\ Range(Removed(c, sts)) = Range(c) \ Range(sts)
  <1> DEFINE k == Kept(sts, States \ Range(c))
  <1>1. /\ k \in Seq(States) /\ Range(k) = Range(sts) \cap (States \ Range(c))
        /\ Removed(c, sts) \in Seq(States)
        /\ Range(Removed(c, sts)) = Range(c) \cap (States \ Range(sts))
    BY KeptFacts DEF Removed
  <1>2. Added(c, sts) = c \o k
    BY DEF Added
  <1> HIDE DEF k
  <1>3. c \o k \in Seq(States) /\ Range(c \o k) = Range(c) \cup Range(k)
    BY <1>1, ConcatProperties, RangeConcatenation
  <1>4. Range(sts) \subseteq States /\ Range(c) \subseteq States
    BY RangeOfSeq
  <1> QED
    BY <1>1, <1>2, <1>3, <1>4

(* The more states, the more transitions that leave them.                  *)
LEMMA OuttsFacts ==
    ASSUME NEW c, NEW d, Range(c) \subseteq Range(d)
    PROVE  /\ compute_outts(d) \in Seq(Transitions)
           /\ \A t \in Range(compute_outts(d)) :
                  t \in Transitions /\ \E st \in Range(d) : Last(st) = Last(t.source)
           /\ compute_outts(c) # << >> => compute_outts(d) # << >>
  <1> DEFINE O(x) == {tr \in Transitions : \E st \in Range(x) : Last(st) = Last(tr.source)}
  <1>1. \A x : compute_outts(x) = Kept(all_ts, O(x))
    BY DEF compute_outts
  <1>2. all_ts \in Seq(Transitions) /\ Range(all_ts) = Transitions
    BY EngineAssumption
  <1>3. O(c) \subseteq O(d) /\ \A x : O(x) \subseteq Transitions
    OBVIOUS
  <1> HIDE DEF O
  <1>4. \A x : /\ compute_outts(x) \in Seq(Transitions)
               /\ Range(compute_outts(x)) = O(x)
    <2> SUFFICES ASSUME NEW x
                 PROVE  /\ compute_outts(x) \in Seq(Transitions)
                        /\ Range(compute_outts(x)) = O(x)
      OBVIOUS
    <2> DEFINE S == O(x)
               K == Kept(all_ts, S)
    <2>1. K \in Seq(Transitions) /\ Range(K) = Range(all_ts) \cap S
      <3> HIDE DEF S
      <3> QED
        BY <1>2, KeptFacts
    <2>2. compute_outts(x) = K /\ S \subseteq Transitions
      BY <1>1, <1>3
    <2> HIDE DEF K
    <2> QED
      BY <1>2, <2>1, <2>2
  <1>5. ASSUME compute_outts(d) = << >>, compute_outts(c) # << >> PROVE FALSE
    <2>1. O(d) = {} /\ O(c) = {}
      BY <1>3, <1>4, <1>5 DEF Range
    <2> DEFINE o == compute_outts(c)
    <2>2. o \in Seq(Transitions) /\ Range(o) = {} /\ o # << >>
      BY <1>4, <1>5, <2>1
    <2> HIDE DEF o
    <2>3. Len(o) \in Nat \ {0} /\ DOMAIN o = 1 .. Len(o)
      BY <2>2
    <2>4. o[1] \in Range(o)
      BY <2>3 DEF Range
    <2> QED
      BY <2>2, <2>4
  <1>6. \A t \in O(d) : t \in Transitions /\ \E st \in Range(d) : Last(st) = Last(t.source)
    BY DEF O
  <1> QED
    BY <1>4, <1>5, <1>6

-----------------------------------------------------------------------------
(* The invariant.                                                          *)

(* Paths are sequences of nodes and conf lists states.                     *)
PathsTyped(N) ==
    /\ max_depth \in Depths
    /\ leaves \in Seq(Seq(N)) /\ leaves_temp2 \in Seq(Seq(N)) /\ done \in Seq(Seq(N))
    /\ conf \in Seq(States) /\ entering \in Seq(States)
    /\ agenda \in Seq(Seq(N) \X Transitions)

(* While execute runs, some transition leaves a state of conf.             *)
CanLeave == pc # "idle" => compute_outts(conf) # << >>

(* leaf is still to be tried with a transition, or a path continues it.    *)
Accounted(leaf) == \/ \E p \in Range(agenda) : p[1] = leaf
                   \/ \E l \in Range(done) \cup Range(leaves_temp2) : IsPrefix(leaf, l)

(* Within a round, no leaf is forgotten.                                   *)
LeavesAccounted == pc = "try" => \A leaf \in Range(leaves) : Accounted(leaf)

PathInv(N) == PathsTyped(N) /\ CanLeave /\ LeavesAccounted

(* Every leaf of a list is on an agenda.                                   *)
EachTried(ls, ag) == \A leaf \in Range(ls) : \E p \in Range(ag) : p[1] = leaf

(* Leaves are tried with transitions, and every leaf is if there is one.   *)
LEMMA AgendaFacts ==
    ASSUME NEW N, NEW ls \in Seq(Seq(N)), NEW ts \in Seq(Transitions)
    PROVE  /\ tried(ls, ts) \in Seq(Seq(N) \X Transitions)
           /\ \A p \in Range(tried(ls, ts)) : p[1] \in Range(ls) /\ p[2] \in Range(ts)
           /\ ts # << >> => EachTried(ls, tried(ls, ts))
  <1> DEFINE Y == Seq(N) \X Transitions
             SY == Seq(Y)
             row(i) == [j \in DOMAIN ts |-> <<ls[i], ts[j]>>]
             q == [i \in DOMAIN ls |-> row(i)]
             a == FlattenSeq(q)
  <1>1. /\ Len(ls) \in Nat /\ DOMAIN ls = 1 .. Len(ls) /\ \A i \in DOMAIN ls : ls[i] \in Seq(N)
        /\ Len(ts) \in Nat /\ DOMAIN ts = 1 .. Len(ts)
        /\ \A j \in DOMAIN ts : ts[j] \in Transitions
    OBVIOUS
  <1>2. ASSUME NEW i \in DOMAIN ls
        PROVE  /\ row(i) \in SY
               /\ \A p \in Range(row(i)) : p[1] \in Range(ls) /\ p[2] \in Range(ts)
               /\ ts # << >> => \E p \in Range(row(i)) : p[1] = ls[i]
    <2>1. \A j \in DOMAIN ts : <<ls[i], ts[j]>> \in Y
      BY <1>1
    <2>2. row(i) \in [1 .. Len(ts) -> Y]
      <3> HIDE DEF Y
      <3> QED
        BY <1>1, <2>1
    <2>3. row(i) \in SY
      <3> DEFINE x == row(i)
                 m == Len(ts)
      <3>1. x \in [1 .. m -> Y] /\ m \in Nat
        BY <1>1, <2>2
      <3> HIDE DEF x, m, Y
      <3>2. x \in Seq(Y)
        BY <3>1, FunctionIsSeq
      <3> QED
        BY <3>2 DEF x
    <2>4. \A j \in DOMAIN ts : <<ls[i], ts[j]>> \in Range(row(i))
      BY DEF Range
    <2>5. ASSUME ts # << >> PROVE 1 \in DOMAIN ts
      BY <1>1, <2>5
    <2>6. \A p \in Range(row(i)) : \E j \in DOMAIN ts : p = <<ls[i], ts[j]>>
      BY DEF Range
    <2>7. ls[i] \in Range(ls) /\ \A j \in DOMAIN ts : ts[j] \in Range(ts)
      BY DEF Range
    <2> HIDE DEF row, SY
    <2>8. \A p \in Range(row(i)) : p[1] \in Range(ls) /\ p[2] \in Range(ts)
      BY <2>6, <2>7
    <2>9. ASSUME ts # << >> PROVE \E p \in Range(row(i)) : p[1] = ls[i]
      <3>1. <<ls[i], ts[1]>> \in Range(row(i)) /\ <<ls[i], ts[1]>>[1] = ls[i]
        BY <2>4, <2>5, <2>9
      <3> QED
        BY <3>1
    <2> QED
      BY <2>3, <2>8, <2>9
  <1> HIDE DEF row
  <1>3. q \in [1 .. Len(ls) -> SY]
    <2> HIDE DEF SY
    <2> QED
      BY <1>1, <1>2
  <1>4. q \in Seq(SY) /\ Len(q) = Len(ls)
    <2> DEFINE m == Len(ls)
    <2>1. m \in Nat /\ q \in [1 .. m -> SY]
      BY <1>1, <1>3
    <2> HIDE DEF q, SY, m
    <2>2. q \in Seq(SY) /\ Len(q) = m
      BY <2>1
    <2> QED
      BY <2>2 DEF m
  <1>5. a \in Seq(Y) /\ Range(a) = UNION {Range(q[i]) : i \in 1 .. Len(q)}
    <2> HIDE DEF q, Y
    <2> QED
      BY <1>4, FlattenFacts
  <1>6. ASSUME ts # << >>, NEW leaf \in Range(ls) PROVE \E p \in Range(a) : p[1] = leaf
    <2>1. PICK i \in DOMAIN ls : leaf = ls[i]
      BY DEF Range
    <2>2. PICK p \in Range(row(i)) : p[1] = leaf
      BY <1>2, <1>6, <2>1
    <2>3. q[i] = row(i) /\ i \in 1 .. Len(q)
      BY <1>1, <1>4
    <2> HIDE DEF q, a
    <2> QED
      BY <1>5, <2>2, <2>3
  <1>7. ASSUME NEW p \in Range(a) PROVE p[1] \in Range(ls) /\ p[2] \in Range(ts)
    <2>1. PICK i \in 1 .. Len(q) : p \in Range(q[i])
      <3> HIDE DEF q, a
      <3> QED
        BY <1>5
    <2>2. i \in DOMAIN ls /\ q[i] = row(i)
      BY <1>1, <1>4
    <2> QED
      BY <1>2, <2>1, <2>2
  <1>8. a = tried(ls, ts)
    BY DEF row, tried
  <1> HIDE DEF a, q
  <1>9. ts # << >> => EachTried(ls, a)
    BY <1>6 DEF EachTried
  <1> QED
    BY <1>5, <1>7, <1>8, <1>9

(* The first element of a list and the others.                             *)
LEMMA HeadTail ==
    ASSUME NEW E, NEW q \in Seq(E), q # << >>
    PROVE  /\ Head(q) \in E /\ Tail(q) \in Seq(E)
           /\ Range(q) = {Head(q)} \cup Range(Tail(q))
  <1>1. Head(q) \in E /\ Tail(q) \in Seq(E) /\ <<Head(q)>> \in Seq(E)
    OBVIOUS
  <1>2. q = <<Head(q)>> \o Tail(q)
    OBVIOUS
  <1> DEFINE hd == <<Head(q)>>
             tl == Tail(q)
  <1>3. Range(hd) = {Head(q)}
    BY DEF Range
  <1>4. hd \in Seq(E) /\ tl \in Seq(E) /\ q = hd \o tl
    BY <1>1, <1>2
  <1> HIDE DEF hd, tl
  <1>5. Range(hd \o tl) = Range(hd) \cup Range(tl)
    BY <1>4, RangeConcatenation
  <1> QED
    BY <1>1, <1>3, <1>4, <1>5 DEF tl

(* Before the first call there are no paths.                               *)
LEMMA InitTyped ==
    ASSUME NEW N, Init
    PROVE  PathsTyped(N)
  <1> DEFINE Y == Seq(N) \X Transitions
             Z == Seq(N)
  <1>1. << >> \in Seq(Z) /\ << >> \in Seq(States) /\ << >> \in Seq(Y)
    <2> HIDE DEF Y, Z
    <2> QED
      OBVIOUS
  <1> HIDE DEF Y, Z
  <1>2. /\ max_depth \in Depths
        /\ leaves \in Seq(Z) /\ leaves_temp2 \in Seq(Z) /\ done \in Seq(Z)
        /\ conf \in Seq(States) /\ entering \in Seq(States) /\ agenda \in Seq(Y)
    BY <1>1 DEF Init
  <1> QED
    BY <1>2 DEF PathsTyped, Y, Z

(* A call adds the statechart and its first substates to conf.             *)
LEMMA StartTyped ==
    ASSUME NEW N, BlocksTyped(N), PathsTyped(N), Start
    PROVE  /\ PathsTyped(N)'
           /\ Range(conf') = Range(conf) \cup Range(<<Root>> \o firstSubstates(Root))
  <1> DEFINE sts == <<Root>> \o firstSubstates(Root)
             Z == Seq(N)
             n0 == startnode
  <1>1. sts \in Seq(States)
    <2>1. Root \in States
      BY TreeAssumption DEF TreeWellFormed
    <2>2. firstSubstates(Root) \in Seq(States) /\ <<Root>> \in Seq(States)
      BY <2>1, FirstSubstatesFacts
    <2> QED
      BY <2>2, ConcatProperties
  <1>2. conf' = Added(conf, sts)
    BY DEF Start
  <1>3. n0 \in Z
    BY StartnodeFacts
  <1> HIDE DEF sts, Z, n0
  <1>4. conf' \in Seq(States) /\ Range(conf') = Range(conf) \cup Range(sts)
    BY <1>1, <1>2, SetFacts DEF PathsTyped
  <1>5. /\ leaves' = <<n0>> /\ done' = << >> /\ entering' = conf'
        /\ UNCHANGED <<max_depth, leaves_temp2, agenda>>
    BY DEF Start, n0
  <1>6. leaves' \in Seq(Z) /\ done' \in Seq(Z)
    BY <1>3, <1>5
  <1>7. PathsTyped(N)'
    BY <1>4, <1>5, <1>6 DEF PathsTyped, Z
  <1> QED
    BY <1>4, <1>7 DEF sts

(* Entering a state of conf turns leaves into paths.                       *)
LEMMA EnterInitialTyped ==
    ASSUME NEW N, BlocksTyped(N), PathsTyped(N), EnterInitial
    PROVE  PathsTyped(N)'
  <1> DEFINE Z == Seq(N)
  <1>1. /\ Head(entering) \in States /\ Tail(entering) \in Seq(States)
        /\ max_depth \in Depths /\ leaves \in Seq(Z) /\ done \in Seq(Z)
    BY HeadTail DEF EnterInitial, PathsTyped
  <1>2. PICK r \in entered(Head(entering)) : done' = done \o r.done /\ leaves' = r.live
    BY DEF EnterInitial
  <1>3. \A l \in Z : enterSubstate(Head(entering), l) \subseteq Outcomes(Z, Z)
    <2> SUFFICES ASSUME NEW l \in Z
                 PROVE  enterSubstate(Head(entering), l) \subseteq Outcomes(Z, Z)
      OBVIOUS
    <2>1. enterSubstate(Head(entering), l) \subseteq Results(N)
      BY <1>1, EnterIsWork, PerformTyped
    <2> QED
      BY <2>1 DEF Results, Outcomes
  <1> HIDE DEF Z
  <1>4. r \in Outcomes(Z, Z)
    BY <1>1, <1>2, <1>3, EnteredFacts
  <1>5. r.done \in Seq(Z) /\ r.live \in Seq(Z)
    BY <1>4 DEF Outcomes
  <1>6. done' \in Seq(Z) /\ leaves' \in Seq(Z)
    BY <1>1, <1>2, <1>5, ConcatProperties
  <1>7. entering' = Tail(entering) /\ UNCHANGED <<max_depth, conf, leaves_temp2, agenda>>
    BY DEF EnterInitial
  <1> QED
    BY <1>1, <1>6, <1>7 DEF PathsTyped, Z

(* A round begins with the leaves and the transitions that leave conf.     *)
LEMMA StartRoundTyped ==
    ASSUME NEW N, PathsTyped(N), StartRound
    PROVE  /\ PathsTyped(N)'
           /\ \A p \in Range(agenda') :
                  p[1] \in Range(leaves) /\ p[2] \in Range(compute_outts(conf))
           /\ compute_outts(conf) # << >> =>
                  \A leaf \in Range(leaves) : \E p \in Range(agenda') : p[1] = leaf
  <1> DEFINE ts == compute_outts(conf)
             Z == Seq(N)
  <1>1. ts \in Seq(Transitions)
    BY OuttsFacts
  <1>2. /\ agenda' = tried(leaves, ts) /\ leaves_temp2' = << >>
        /\ UNCHANGED <<max_depth, conf, leaves, done, entering>>
    BY DEF StartRound
  <1>3. leaves \in Seq(Seq(N))
    BY DEF PathsTyped
  <1> HIDE DEF ts
  <1>4. /\ agenda' \in Seq(Seq(N) \X Transitions)
        /\ \A p \in Range(agenda') : p[1] \in Range(leaves) /\ p[2] \in Range(ts)
        /\ ts # << >> => \A leaf \in Range(leaves) : \E p \in Range(agenda') : p[1] = leaf
    <2> DEFINE a == tried(leaves, ts)
    <2>1. /\ a \in Seq(Seq(N) \X Transitions)
          /\ \A p \in Range(a) : p[1] \in Range(leaves) /\ p[2] \in Range(ts)
          /\ ts # << >> => \A leaf \in Range(leaves) : \E p \in Range(a) : p[1] = leaf
      <3>1. a \in Seq(Seq(N) \X Transitions)
        BY <1>1, <1>3, AgendaFacts
      <3>2. \A p \in Range(a) : p[1] \in Range(leaves) /\ p[2] \in Range(ts)
        BY <1>1, <1>3, AgendaFacts
      <3>3. ASSUME ts # << >>
            PROVE  \A leaf \in Range(leaves) : \E p \in Range(a) : p[1] = leaf
        <4>1. EachTried(leaves, tried(leaves, ts))
          BY <1>1, <1>3, <3>3, AgendaFacts
        <4> QED
          BY <4>1 DEF EachTried
      <3> QED
        BY <3>1, <3>2, <3>3
    <2>2. agenda' = a
      BY <1>2
    <2> HIDE DEF a
    <2> QED
      BY <2>1, <2>2
  <1> HIDE DEF Z
  <1>5. leaves_temp2' \in Seq(Z)
    BY <1>2
  <1>6. PathsTyped(N)'
    BY <1>2, <1>4, <1>5 DEF PathsTyped, Z
  <1> QED
    BY <1>4, <1>6 DEF ts

(* A transition is tried on a leaf: paths are added to the lists, and conf is
   changed as the transition says or left as it is.                        *)
LEMMA TryTransitionTyped ==
    ASSUME NEW N, BlocksTyped(N), PathsTyped(N), TryTransition
    PROVE  PathsTyped(N)'
  <1> DEFINE leaf == Head(agenda)[1]
             t == Head(agenda)[2]
             Y == Seq(N) \X Transitions
             Z == Seq(N)
  <1>1. /\ agenda # << >> /\ agenda \in Seq(Y) /\ max_depth \in Depths
        /\ done \in Seq(Z) /\ leaves_temp2 \in Seq(Z) /\ conf \in Seq(States)
    BY DEF TryTransition, PathsTyped
  <1>2. Head(agenda) \in Y /\ Tail(agenda) \in Seq(Y)
    <2> HIDE DEF Y
    <2> QED
      BY <1>1, HeadTail
  <1>3. leaf \in Z /\ t \in Transitions
    BY <1>2
  <1>4. /\ agenda' = Tail(agenda) /\ UNCHANGED <<max_depth, leaves, entering>>
        /\ \/ /\ \E r \in takeTransition(t, leaf) :
                     /\ done' = done \o r.done
                     /\ leaves_temp2' = leaves_temp2 \o r.live
              /\ conf' = confAfter(t)
           \/ /\ done' = Append(done, leaf)
              /\ UNCHANGED <<leaves_temp2, conf>>
    BY DEF TryTransition
  <1>5. \A r \in takeTransition(t, leaf) : r.done \in Seq(Z) /\ r.live \in Seq(Z)
    <2> HIDE DEF leaf, t
    <2>1. takeTransition(t, leaf) \subseteq Results(N)
      BY <1>1, <1>3, TakeTransitionTyped
    <2> QED
      BY <2>1 DEF Results
  <1>6. confAfter(t) \in Seq(States)
    <2> DEFINE left == upTo(t.source, t.state)
               new == upTo(t.destination, t.state) \o firstSubstates(t.destination)
    <2>1. confAfter(t) = Added(Removed(conf, left), new)
      BY DEF confAfter
    <2> HIDE DEF t
    <2>2. left \in Seq(States) /\ new \in Seq(States)
      BY <1>3, WorksFacts, ConcatProperties
    <2> HIDE DEF left, new
    <2>3. Removed(conf, left) \in Seq(States)
      BY <1>1, <2>2, SetFacts
    <2>4. Added(Removed(conf, left), new) \in Seq(States)
      BY <2>2, <2>3, SetFacts
    <2> QED
      BY <2>1, <2>4
  <1> HIDE DEF leaf, t, Z
  <1>7. done' \in Seq(Z) /\ leaves_temp2' \in Seq(Z) /\ conf' \in Seq(States)
    <2>1. ASSUME NEW r \in takeTransition(t, leaf), done' = done \o r.done,
                 leaves_temp2' = leaves_temp2 \o r.live
          PROVE  done' \in Seq(Z) /\ leaves_temp2' \in Seq(Z)
      BY <1>1, <1>5, <2>1, ConcatProperties
    <2>2. Append(done, leaf) \in Seq(Z)
      BY <1>1, <1>3, RangeAppend
    <2> QED
      BY <1>1, <1>4, <1>6, <2>1, <2>2
  <1> QED
    BY <1>2, <1>4, <1>7 DEF PathsTyped, Z

(* A round ends: the paths of the next round are live or done.             *)
LEMMA EndRoundTyped ==
    ASSUME NEW N, PathsTyped(N), EndRound
    PROVE  /\ PathsTyped(N)'
           /\ Range(leaves') = Range(leaves_temp2) \ tooDeep
           /\ Range(done') = Range(done) \cup (Range(leaves_temp2) \cap tooDeep)
  <1> DEFINE L == Range(leaves_temp2)
             Z == Seq(N)
             deep == tooDeep
             k1 == Kept(leaves_temp2, deep)
             k2 == Kept(leaves_temp2, L \ deep)
  <1>1. leaves_temp2 \in Seq(Z) /\ done \in Seq(Z)
    BY DEF PathsTyped
  <1>2. /\ done' = done \o k1 /\ leaves' = k2 /\ leaves_temp2' = << >>
        /\ UNCHANGED <<max_depth, conf, entering, agenda>>
    BY DEF EndRound
  <1> HIDE DEF Z, deep
  <1>3. /\ k1 \in Seq(Z) /\ Range(k1) = L \cap deep
        /\ k2 \in Seq(Z) /\ Range(k2) = L \cap (L \ deep)
    BY <1>1, KeptFacts
  <1> HIDE DEF k1, k2
  <1>4. done' \in Seq(Z) /\ Range(done') = Range(done) \cup Range(k1)
    BY <1>1, <1>2, <1>3, ConcatProperties, RangeConcatenation
  <1>5. leaves_temp2' \in Seq(Z)
    BY <1>2
  <1>6. PathsTyped(N)'
    BY <1>2, <1>3, <1>4, <1>5 DEF PathsTyped, Z
  <1> QED
    BY <1>2, <1>3, <1>4, <1>6 DEF deep

(* Every step keeps the types.                                             *)
LEMMA NextTyped ==
    ASSUME NEW N, BlocksTyped(N), PathsTyped(N), [Next]_vars
    PROVE  PathsTyped(N)'
  <1>1. CASE Start
    BY <1>1, StartTyped
  <1>2. CASE EnterInitial
    BY <1>2, EnterInitialTyped
  <1>3. CASE StartRound
    BY <1>3, StartRoundTyped
  <1>4. CASE Return
    BY <1>4 DEF PathsTyped, Return
  <1>5. CASE TryTransition
    BY <1>5, TryTransitionTyped
  <1>6. CASE EndRound
    BY <1>6, EndRoundTyped
  <1>7. CASE UNCHANGED vars
    BY <1>7 DEF PathsTyped, vars
  <1> QED
    BY <1>1, <1>2, <1>3, <1>4, <1>5, <1>6, <1>7 DEF Next, Compute, Finished

(* The invariant holds before the first call.                              *)
LEMMA InitPathInv ==
    ASSUME NEW N, Init
    PROVE  PathInv(N)
  <1>1. PathsTyped(N)
    BY InitTyped
  <1>2. pc = "idle"
    BY DEF Init
  <1> QED
    BY <1>1, <1>2 DEF PathInv, CanLeave, LeavesAccounted

(* A call begins with states that can be left.                             *)
LEMMA StartPathInv ==
    ASSUME NEW N, BlocksContinue(N), NoDeadEnds, PathInv(N), Start
    PROVE  PathInv(N)'
  <1> DEFINE sts == <<Root>> \o firstSubstates(Root)
  <1>1. PathsTyped(N)' /\ Range(sts) \subseteq Range(conf')
    BY StartTyped DEF BlocksContinue, PathInv
  <1>2. compute_outts(sts) # << >>
    BY DEF NoDeadEnds
  <1> HIDE DEF sts
  <1>3. compute_outts(conf') # << >>
    BY <1>1, <1>2, OuttsFacts
  <1>4. compute_outts(conf)' = compute_outts(conf')
    BY DEF compute_outts
  <1>5. CanLeave'
    BY <1>3, <1>4 DEF CanLeave
  <1>6. LeavesAccounted'
    BY DEF Start, LeavesAccounted
  <1> QED
    BY <1>1, <1>5, <1>6 DEF PathInv

(* Entering a state of conf.                                               *)
LEMMA EnterInitialPathInv ==
    ASSUME NEW N, BlocksContinue(N), PathInv(N), EnterInitial
    PROVE  PathInv(N)'
  <1>1. PathsTyped(N)'
    BY EnterInitialTyped DEF PathInv, BlocksContinue
  <1>2. pc' = "enter" /\ pc = "enter" /\ UNCHANGED conf
    BY DEF EnterInitial
  <1>3. CanLeave'
    BY <1>2 DEF PathInv, CanLeave, compute_outts
  <1> QED
    BY <1>1, <1>2, <1>3 DEF PathInv, LeavesAccounted

(* A round begins: every leaf is on the agenda.                            *)
LEMMA StartRoundPathInv ==
    ASSUME NEW N, PathInv(N), StartRound
    PROVE  PathInv(N)'
  <1>1. compute_outts(conf) # << >>
    BY DEF PathInv, CanLeave, StartRound
  <1>2. /\ PathsTyped(N)'
        /\ \A leaf \in Range(leaves) : \E p \in Range(agenda') : p[1] = leaf
    BY <1>1, StartRoundTyped DEF PathInv
  <1>3. UNCHANGED <<conf, leaves>>
    BY DEF StartRound
  <1>4. CanLeave'
    BY <1>1, <1>3 DEF CanLeave, compute_outts
  <1>5. LeavesAccounted'
    BY <1>2, <1>3 DEF LeavesAccounted, Accounted
  <1> QED
    BY <1>2, <1>4, <1>5 DEF PathInv

(* execute returns.                                                        *)
LEMMA ReturnPathInv ==
    ASSUME NEW N, PathInv(N), Return
    PROVE  PathInv(N)'
  BY DEF PathInv, PathsTyped, CanLeave, LeavesAccounted, Return

(* A transition is tried on a leaf: it goes on as what takeTransition answers
   or is done, and conf gets the states the transition leads to.           *)
LEMMA TryTransitionPathInv ==
    ASSUME NEW N, BlocksContinue(N), NoDeadEnds, PathInv(N), TryTransition
    PROVE  PathInv(N)'
  <1> DEFINE leaf == Head(agenda)[1]
             t == Head(agenda)[2]
             Y == Seq(N) \X Transitions
  <1>1. PathsTyped(N) /\ CanLeave /\ LeavesAccounted
    BY DEF PathInv
  <1>2. agenda # << >> /\ agenda \in Seq(Y)
    BY <1>1 DEF TryTransition, PathsTyped
  <1>3. /\ Head(agenda) \in Y /\ Tail(agenda) \in Seq(Y)
        /\ Range(agenda) = {Head(agenda)} \cup Range(Tail(agenda))
    <2> HIDE DEF Y
    <2> QED
      BY <1>2, HeadTail
  <1>4. leaf \in Seq(N) /\ t \in Transitions
    BY <1>3
  <1>5. /\ pc = "try" /\ pc' = "try" /\ agenda' = Tail(agenda)
        /\ UNCHANGED <<max_depth, leaves, entering>>
        /\ \/ /\ \E r \in takeTransition(t, leaf) :
                     /\ done' = done \o r.done
                     /\ leaves_temp2' = leaves_temp2 \o r.live
              /\ conf' = confAfter(t)
           \/ /\ done' = Append(done, leaf)
              /\ UNCHANGED <<leaves_temp2, conf>>
    BY DEF TryTransition
  <1>6. max_depth \in Depths /\ done \in Seq(Seq(N)) /\ leaves_temp2 \in Seq(Seq(N))
        /\ conf \in Seq(States) /\ leaves \in Seq(Seq(N)) /\ entering \in Seq(States)
    BY <1>1 DEF PathsTyped
  <1> HIDE DEF leaf, t
  <1>7. /\ done' \in Seq(Seq(N)) /\ leaves_temp2' \in Seq(Seq(N))
        /\ conf' \in Seq(States) /\ compute_outts(conf') # << >>
        /\ Range(done) \subseteq Range(done')
        /\ Range(leaves_temp2) \subseteq Range(leaves_temp2')
        /\ \E l \in Range(done') \cup Range(leaves_temp2') : IsPrefix(leaf, l)
    <2>1. ASSUME NEW r \in takeTransition(t, leaf), done' = done \o r.done,
                 leaves_temp2' = leaves_temp2 \o r.live, conf' = confAfter(t)
          PROVE  <1>7!:
      <3>1. r \in Results(N) /\ Continues(r, leaf)
        BY <1>4, <1>6, TakeTransitionContinues
      <3>2. r.done \in Seq(Seq(N)) /\ r.live \in Seq(Seq(N))
        BY <3>1 DEF Results
      <3>3. /\ done' \in Seq(Seq(N)) /\ leaves_temp2' \in Seq(Seq(N))
            /\ Range(done') = Range(done) \cup Range(r.done)
            /\ Range(leaves_temp2') = Range(leaves_temp2) \cup Range(r.live)
        BY <1>6, <2>1, <3>2, ConcatProperties, RangeConcatenation
      <3>4. \E l \in Range(done') \cup Range(leaves_temp2') : IsPrefix(leaf, l)
        BY <3>1, <3>3 DEF Continues, Reached
      <3> DEFINE left == upTo(t.source, t.state)
                 new == upTo(t.destination, t.state) \o firstSubstates(t.destination)
      <3>5. left \in Seq(States) /\ new \in Seq(States)
        BY <1>4, WorksFacts, ConcatProperties
      <3>6. conf' = Added(Removed(conf, left), new) /\ compute_outts(new) # << >>
        BY <1>4, <2>1 DEF confAfter, NoDeadEnds
      <3> HIDE DEF left, new
      <3>7. Removed(conf, left) \in Seq(States)
        BY <1>6, <3>5, SetFacts
      <3>8. conf' \in Seq(States) /\ Range(new) \subseteq Range(conf')
        BY <3>5, <3>6, <3>7, SetFacts
      <3>9. compute_outts(conf') # << >>
        BY <3>6, <3>8, OuttsFacts
      <3> QED
        BY <3>3, <3>4, <3>8, <3>9
    <2>2. ASSUME done' = Append(done, leaf), UNCHANGED <<leaves_temp2, conf>>
          PROVE  <1>7!:
      <3>1. done' \in Seq(Seq(N)) /\ Range(done') = Range(done) \cup {leaf}
        BY <1>4, <1>6, <2>2, RangeAppend
      <3>2. IsPrefix(leaf, leaf)
        BY <1>4, PrefixOfConcat
      <3>3. compute_outts(conf') # << >>
        BY <1>1, <1>5, <2>2 DEF CanLeave
      <3> QED
        BY <1>6, <2>2, <3>1, <3>2, <3>3
    <2> QED
      BY <1>5, <2>1, <2>2
  <1>8. PathsTyped(N)'
    BY <1>1, TryTransitionTyped DEF BlocksContinue
  <1>9. CanLeave'
    BY <1>7 DEF CanLeave, compute_outts
  <1>10. ASSUME NEW x \in Range(leaves) PROVE Accounted(x)'
    <2>1. Accounted(x)
      BY <1>1, <1>5 DEF LeavesAccounted
    <2>2. CASE \E l \in Range(done) \cup Range(leaves_temp2) : IsPrefix(x, l)
      BY <1>7, <2>2 DEF Accounted
    <2>3. CASE \E p \in Range(agenda) : p[1] = x
      <3>1. PICK p \in Range(agenda) : p[1] = x
        BY <2>3
      <3>2. CASE p \in Range(Tail(agenda))
        BY <1>5, <3>1, <3>2 DEF Accounted
      <3>3. CASE p = Head(agenda)
        <4>1. x = leaf
          BY <3>1, <3>3 DEF leaf
        <4> QED
          BY <1>7, <4>1 DEF Accounted
      <3> QED
        BY <1>3, <3>1, <3>2, <3>3
    <2> QED
      BY <2>1, <2>2, <2>3 DEF Accounted
  <1>11. LeavesAccounted'
    BY <1>5, <1>10 DEF LeavesAccounted
  <1> QED
    BY <1>8, <1>9, <1>11 DEF PathInv

(* The round ends: what continues a leaf lives on or is done.              *)
LEMMA EndRoundPathInv ==
    ASSUME NEW N, PathInv(N), EndRound
    PROVE  /\ PathInv(N)'
           /\ \A leaf \in Range(leaves) :
                  \E l \in Range(done') \cup Range(leaves') : IsPrefix(leaf, l)
  <1>1. PathsTyped(N) /\ CanLeave /\ LeavesAccounted
    BY DEF PathInv
  <1>2. /\ PathsTyped(N)'
        /\ Range(done') \cup Range(leaves') = Range(done) \cup Range(leaves_temp2)
    BY <1>1, EndRoundTyped
  <1>3. agenda = << >> /\ pc = "try" /\ pc' = "enter" /\ UNCHANGED conf
    BY DEF EndRound
  <1>4. CanLeave'
    BY <1>1, <1>3 DEF CanLeave, compute_outts
  <1>5. LeavesAccounted'
    BY <1>3 DEF LeavesAccounted
  <1>6. Range(agenda) = {}
    BY <1>3 DEF Range
  <1>7. \A leaf \in Range(leaves) :
            \E l \in Range(done) \cup Range(leaves_temp2) : IsPrefix(leaf, l)
    BY <1>1, <1>3, <1>6 DEF LeavesAccounted, Accounted
  <1> QED
    BY <1>2, <1>4, <1>5, <1>7 DEF PathInv

(* Every step keeps the invariant.                                         *)
LEMMA NextPathInv ==
    ASSUME NEW N, BlocksContinue(N), NoDeadEnds, PathInv(N), [Next]_vars
    PROVE  PathInv(N)'
  <1>1. CASE Start
    BY <1>1, StartPathInv
  <1>2. CASE EnterInitial
    BY <1>2, EnterInitialPathInv
  <1>3. CASE StartRound
    BY <1>3, StartRoundPathInv
  <1>4. CASE Return
    BY <1>4, ReturnPathInv
  <1>5. CASE TryTransition
    BY <1>5, TryTransitionPathInv
  <1>6. CASE EndRound
    BY <1>6, EndRoundPathInv
  <1>7. CASE UNCHANGED vars
    BY <1>7 DEF PathInv, PathsTyped, CanLeave, LeavesAccounted, Accounted,
                compute_outts, vars
  <1> QED
    BY <1>1, <1>2, <1>3, <1>4, <1>5, <1>6, <1>7 DEF Next, Compute, Finished

-----------------------------------------------------------------------------
(* The theorem.                                                            *)

(* No path is lost: with blocks that answer a node for every node they are
   given, in a chart whose transitions lead to states that can be left, at
   the end of a round of execute every leaf it began with is finished or has
   a successor, however often the solver fails and whatever it answers.    *)
THEOREM PathsAreKept ==
    ASSUME NEW N, BlocksContinue(N), NoDeadEnds
    PROVE  Spec => NoPathLost
  <1> DEFINE Kept1 == pc = "try" /\ agenda = << >> =>
                          \A leaf \in Range(leaves) :
                              \E l \in Range(done') \cup Range(leaves') : IsPrefix(leaf, l)
  <1>1. Init => PathInv(N)
    BY InitPathInv
  <1>2. PathInv(N) /\ [Next]_vars => PathInv(N)'
    BY NextPathInv
  <1>3. PathInv(N) /\ [Next]_vars => [Kept1]_vars
    <2> SUFFICES ASSUME PathInv(N), Next, pc = "try", agenda = << >>, ~UNCHANGED vars
                 PROVE  \A leaf \in Range(leaves) :
                            \E l \in Range(done') \cup Range(leaves') : IsPrefix(leaf, l)
      OBVIOUS
    <2>1. EndRound
      BY DEF Next, Compute, Finished, Start, EnterInitial, StartRound, Return, TryTransition
    <2> QED
      BY <2>1, EndRoundPathInv
  <1> QED
    BY <1>1, <1>2, <1>3, PTL DEF Spec, NoPathLost
=============================================================================

------------------------- MODULE SymbolicStateProofs -------------------------
(***************************************************************************)
(* The states on the paths of symbolic execution: rounds take paths deeper *)
(* for every chart; and in a chart whose states have distinct names, whose *)
(* transitions leave atomic states, and whose guards exclude each other on *)
(* the paths of a round, the transitions taken on a path fit together and  *)
(* the one set conf is right for every live path.                          *)
(***************************************************************************)
EXTENDS SymbolicProofs

-----------------------------------------------------------------------------
(* The states that are active on a path.                                   *)

(* Of two paths, one of which continues the other, the shorter parts that
   both have are the same.                                                 *)
LEMMA SharedPrefix ==
    ASSUME NEW N, NEW a \in Seq(N), NEW b \in Seq(N), IsPrefix(a, b),
           NEW n \in 0 .. Len(a)
    PROVE  Prefix(b, n) = Prefix(a, n)
  <1>1. Len(a) <= Len(b) /\ \A i \in 1 .. Len(a) : a[i] = b[i]
    BY PrefixMeans
  <1>2. n \in 0 .. Len(b) /\ \A i \in 1 .. n : i \in 1 .. Len(a)
    BY <1>1
  <1> DEFINE x == Prefix(a, n)
             y == Prefix(b, n)
  <1>3. /\ x \in Seq(N) /\ Len(x) = n /\ \A i \in 1 .. n : x[i] = a[i]
        /\ y \in Seq(N) /\ Len(y) = n /\ \A i \in 1 .. n : y[i] = b[i]
    BY <1>2, PrefixFacts
  <1> HIDE DEF x, y
  <1>4. \A i \in 1 .. n : x[i] = y[i]
    BY <1>1, <1>2, <1>3
  <1>5. x = y
    BY <1>3, <1>4, SeqEqual
  <1> QED
    BY <1>5 DEF x, y

(* Nodes that are not for states change nothing of what is active.         *)
LEMMA ActiveQuiet ==
    ASSUME NEW N, NEW a \in Seq(N), NEW b \in Seq(N), Quiet(a, b)
    PROVE  ActiveOn(b) = ActiveOn(a)
  <1>1. /\ Len(a) <= Len(b) /\ \A i \in 1 .. Len(a) : a[i] = b[i]
        /\ \A i \in Len(a) + 1 .. Len(b) : b[i].node \notin {"entry", "exit"}
    BY PrefixMeans DEF Quiet
  <1>2. /\ Len(a) \in Nat /\ Len(b) \in Nat
        /\ DOMAIN a = 1 .. Len(a) /\ DOMAIN b = 1 .. Len(b)
    OBVIOUS
  <1> DEFINE Since(l, st, i) == \A j \in i + 1 .. Len(l) :
                                    ~(l[j].node = "exit" /\ l[j].s = st)
  <1>3. ASSUME NEW st \in States, NEW i \in DOMAIN b,
               b[i].node = "entry" /\ b[i].s = st, Since(b, st, i)
        PROVE  st \in ActiveOn(a)
    <2>1. i \in 1 .. Len(a)
      BY <1>1, <1>2, <1>3
    <2>2. a[i].node = "entry" /\ a[i].s = st
      BY <1>1, <1>3, <2>1
    <2>3. ASSUME NEW j \in i + 1 .. Len(a) PROVE ~(a[j].node = "exit" /\ a[j].s = st)
      <3>1. j \in i + 1 .. Len(b) /\ j \in 1 .. Len(a)
        BY <1>1, <1>2, <2>1
      <3> QED
        BY <1>1, <1>3, <3>1
    <2> QED
      BY <1>2, <2>1, <2>2, <2>3 DEF ActiveOn
  <1>4. ASSUME NEW st \in States, NEW i \in DOMAIN a,
               a[i].node = "entry" /\ a[i].s = st, Since(a, st, i)
        PROVE  st \in ActiveOn(b)
    <2>1. i \in DOMAIN b /\ b[i].node = "entry" /\ b[i].s = st
      BY <1>1, <1>2, <1>4
    <2>2. ASSUME NEW j \in i + 1 .. Len(b) PROVE ~(b[j].node = "exit" /\ b[j].s = st)
      <3>1. CASE j \in Len(a) + 1 .. Len(b)
        BY <1>1, <3>1
      <3>2. CASE j \in i + 1 .. Len(a)
        <4>1. j \in 1 .. Len(a)
          BY <1>2, <3>2
        <4> QED
          BY <1>1, <1>4, <3>2, <4>1
      <3> QED
        BY <1>2, <2>2, <3>1, <3>2
    <2> QED
      BY <2>1, <2>2 DEF ActiveOn
  <1>5. ActiveOn(b) \subseteq ActiveOn(a)
    BY <1>3 DEF ActiveOn
  <1>6. ActiveOn(a) \subseteq ActiveOn(b)
    BY <1>4 DEF ActiveOn
  <1> QED
    BY <1>5, <1>6

(* A path stays consistent when the nodes behind it fit.                   *)
LEMMA ConsistentFurther ==
    ASSUME NEW N, NEW a \in Seq(N), NEW b \in Seq(N), IsPrefix(a, b), PathConsistent(a),
           \A i \in Len(a) + 1 .. Len(b) :
               /\ b[i].node = "entry" => b[i].s \notin ActiveOn(Prefix(b, i - 1))
               /\ b[i].node = "exit" => b[i].s \in ActiveOn(Prefix(b, i - 1))
    PROVE  PathConsistent(b)
  <1> SUFFICES ASSUME NEW i \in DOMAIN b
               PROVE  /\ b[i].node = "entry" => b[i].s \notin ActiveOn(Prefix(b, i - 1))
                      /\ b[i].node = "exit" => b[i].s \in ActiveOn(Prefix(b, i - 1))
    BY DEF PathConsistent
  <1>1. Len(a) <= Len(b) /\ \A j \in 1 .. Len(a) : a[j] = b[j]
    BY PrefixMeans
  <1>2. CASE i \in Len(a) + 1 .. Len(b)
    BY <1>2
  <1>3. CASE i \in 1 .. Len(a)
    <2>1. i - 1 \in 0 .. Len(a) /\ i \in DOMAIN a /\ a[i] = b[i]
      BY <1>1, <1>3
    <2>2. Prefix(b, i - 1) = Prefix(a, i - 1)
      BY <2>1, SharedPrefix
    <2>3. /\ a[i].node = "entry" => a[i].s \notin ActiveOn(Prefix(a, i - 1))
          /\ a[i].node = "exit" => a[i].s \in ActiveOn(Prefix(a, i - 1))
      BY <2>1 DEF PathConsistent
    <2> QED
      BY <2>1, <2>2, <2>3
  <1>4. i \in 1 .. Len(a) \/ i \in Len(a) + 1 .. Len(b)
    OBVIOUS
  <1> QED
    BY <1>2, <1>3, <1>4

(* Nodes that are not for states always fit.                               *)
LEMMA ConsistentQuiet ==
    ASSUME NEW N, NEW a \in Seq(N), NEW b \in Seq(N), Quiet(a, b), PathConsistent(a)
    PROVE  PathConsistent(b)
  BY ConsistentFurther DEF Quiet

(* A path with a node more.                                                *)
LEMMA AppendFacts ==
    ASSUME NEW N, NEW a \in Seq(N), NEW e \in N
    PROVE  /\ Append(a, e) \in Seq(N) /\ Len(Append(a, e)) = Len(a) + 1
           /\ IsPrefix(a, Append(a, e))
           /\ \A i \in 1 .. Len(a) : Append(a, e)[i] = a[i]
           /\ Append(a, e)[Len(a) + 1] = e
           /\ Prefix(Append(a, e), Len(a)) = a
  <1> DEFINE b == Append(a, e)
  <1>1. /\ b \in Seq(N) /\ Len(b) = Len(a) + 1
        /\ \A i \in 1 .. Len(a) : b[i] = a[i]
        /\ b[Len(a) + 1] = e
    OBVIOUS
  <1>2. IsPrefix(a, b)
    BY PrefixOfAppend
  <1> HIDE DEF b
  <1>3. Len(a) \in 0 .. Len(a) /\ Prefix(a, Len(a)) = a
    BY WholePrefix
  <1>4. Prefix(b, Len(a)) = a
    BY <1>1, <1>2, <1>3, SharedPrefix
  <1> QED
    BY <1>1, <1>2, <1>4 DEF b

(* The node for a state's entry makes the state active, the node for its exit
   makes it inactive.                                                      *)
LEMMA ActiveAppend ==
    ASSUME NEW N, NEW a \in Seq(N), NEW st \in States,
           [node |-> "entry", s |-> st] \in N, [node |-> "exit", s |-> st] \in N
    PROVE  /\ ActiveOn(StateEntryNode(st, a)) = ActiveOn(a) \cup {st}
           /\ ActiveOn(StateExitNode(st, a)) = ActiveOn(a) \ {st}
  <1> DEFINE en == [node |-> "entry", s |-> st]
             ex == [node |-> "exit", s |-> st]
             b == Append(a, en)
             c == Append(a, ex)
             n == Len(a)
  <1>1. /\ en.node = "entry" /\ en.s = st /\ ex.node = "exit" /\ ex.s = st
        /\ en \in N /\ ex \in N
    OBVIOUS
  <1>2. StateEntryNode(st, a) = b /\ StateExitNode(st, a) = c
    BY DEF StateEntryNode, StateExitNode
  <1> HIDE DEF en, ex
  <1>3. /\ b \in Seq(N) /\ Len(b) = n + 1 /\ b[n + 1] = en /\ \A i \in 1 .. n : b[i] = a[i]
        /\ c \in Seq(N) /\ Len(c) = n + 1 /\ c[n + 1] = ex /\ \A i \in 1 .. n : c[i] = a[i]
    BY <1>1, AppendFacts
  <1>4. /\ n \in Nat /\ DOMAIN a = 1 .. n /\ DOMAIN b = 1 .. n + 1 /\ DOMAIN c = 1 .. n + 1
        /\ \A i \in 1 .. n + 1 : i = n + 1 \/ i \in 1 .. n
        /\ \A i \in 1 .. n : i \in 1 .. n + 1
    BY <1>3
  <1> HIDE DEF b, c, n
  <1> DEFINE Since(l, m, x, i) == \A j \in i + 1 .. m : ~(l[j].node = "exit" /\ l[j].s = x)
             On(l, m) == {x \in States : \E i \in 1 .. m : /\ l[i].node = "entry" /\ l[i].s = x
                                                           /\ Since(l, m, x, i)}
  <1>5. ActiveOn(a) = On(a, n) /\ ActiveOn(b) = On(b, n + 1) /\ ActiveOn(c) = On(c, n + 1)
    BY <1>3, <1>4 DEF ActiveOn, n
  <1>6. st \in On(b, n + 1) /\ st \notin On(c, n + 1)
    <2>1. Since(b, n + 1, st, n + 1)
      BY <1>4
    <2>2. n + 1 \in 1 .. n + 1 /\ b[n + 1].node = "entry" /\ b[n + 1].s = st
      BY <1>1, <1>3, <1>4
    <2>3. ASSUME NEW i \in 1 .. n + 1, c[i].node = "entry", Since(c, n + 1, st, i) PROVE FALSE
      <3>1. i # n + 1
        BY <1>1, <1>3, <2>3
      <3>2. n + 1 \in i + 1 .. n + 1
        BY <1>4, <3>1
      <3> QED
        BY <1>1, <1>3, <2>3, <3>2
    <2> HIDE DEF Since
    <2> QED
      BY <2>1, <2>2, <2>3
  <1>7. ASSUME NEW x \in States, x # st PROVE x \in On(a, n) <=> x \in On(b, n + 1)
    <2>1. ASSUME NEW i \in 1 .. n PROVE Since(a, n, x, i) <=> Since(b, n + 1, x, i)
      <3>1. \A j \in i + 1 .. n : j \in 1 .. n /\ j \in i + 1 .. n + 1
        BY <1>4
      <3>2. \A j \in i + 1 .. n + 1 : j = n + 1 \/ (j \in i + 1 .. n /\ j \in 1 .. n)
        BY <1>4
      <3>3. b[n + 1].node # "exit"
        BY <1>1, <1>3
      <3> QED
        BY <1>3, <3>1, <3>2, <3>3
    <2>2. ~(b[n + 1].node = "entry" /\ b[n + 1].s = x)
      BY <1>1, <1>3, <1>7
    <2> HIDE DEF Since
    <2> QED
      BY <1>3, <1>4, <2>1, <2>2
  <1>8. ASSUME NEW x \in States, x # st PROVE x \in On(a, n) <=> x \in On(c, n + 1)
    <2>1. ASSUME NEW i \in 1 .. n PROVE Since(a, n, x, i) <=> Since(c, n + 1, x, i)
      <3>1. \A j \in i + 1 .. n : j \in 1 .. n /\ j \in i + 1 .. n + 1
        BY <1>4
      <3>2. \A j \in i + 1 .. n + 1 : j = n + 1 \/ (j \in i + 1 .. n /\ j \in 1 .. n)
        BY <1>4
      <3>3. c[n + 1].s # x
        BY <1>1, <1>3, <1>8
      <3> QED
        BY <1>3, <3>1, <3>2, <3>3
    <2>2. c[n + 1].node # "entry"
      BY <1>1, <1>3
    <2> HIDE DEF Since
    <2> QED
      BY <1>3, <1>4, <2>1, <2>2
  <1>9. On(a, n) \subseteq States /\ On(b, n + 1) \subseteq States /\ On(c, n + 1) \subseteq States
    OBVIOUS
  <1> HIDE DEF On
  <1> QED
    BY <1>2, <1>5, <1>6, <1>7, <1>8, <1>9

(* A state is entered where it is inactive and left where it is active.    *)
LEMMA ConsistentAppend ==
    ASSUME NEW N, NEW a \in Seq(N), PathConsistent(a), NEW st \in States,
           [node |-> "entry", s |-> st] \in N, [node |-> "exit", s |-> st] \in N
    PROVE  /\ st \notin ActiveOn(a) => PathConsistent(StateEntryNode(st, a))
           /\ st \in ActiveOn(a) => PathConsistent(StateExitNode(st, a))
  <1> DEFINE en == [node |-> "entry", s |-> st]
             ex == [node |-> "exit", s |-> st]
  <1>1. /\ en.node = "entry" /\ en.s = st /\ ex.node = "exit" /\ ex.s = st
        /\ en \in N /\ ex \in N
        /\ StateEntryNode(st, a) = Append(a, en) /\ StateExitNode(st, a) = Append(a, ex)
    BY DEF StateEntryNode, StateExitNode
  <1> HIDE DEF en, ex
  <1>2. ASSUME NEW e \in N,
               e.node = "entry" => e.s \notin ActiveOn(a),
               e.node = "exit" => e.s \in ActiveOn(a)
        PROVE  PathConsistent(Append(a, e))
    <2> DEFINE b == Append(a, e)
    <2>1. /\ b \in Seq(N) /\ Len(b) = Len(a) + 1 /\ IsPrefix(a, b)
          /\ b[Len(a) + 1] = e /\ Prefix(b, Len(a)) = a
      BY AppendFacts
    <2> HIDE DEF b
    <2>2. ASSUME NEW i \in Len(a) + 1 .. Len(b)
          PROVE  /\ b[i].node = "entry" => b[i].s \notin ActiveOn(Prefix(b, i - 1))
                 /\ b[i].node = "exit" => b[i].s \in ActiveOn(Prefix(b, i - 1))
      <3>1. i = Len(a) + 1 /\ i - 1 = Len(a)
        BY <2>1, <2>2
      <3> QED
        BY <1>2, <2>1, <3>1
    <2>3. PathConsistent(b)
      BY <2>1, <2>2, ConsistentFurther
    <2> QED
      BY <2>3 DEF b
  <1> QED
    BY <1>1, <1>2

-----------------------------------------------------------------------------
(* What is asked of the blocks, and what a work does to a path.            *)

(* A block continues the path it is given and neither enters nor leaves
   states.                                                                 *)
BlocksQuiet(N) ==
    /\ BlocksTyped(N)
    /\ \A b \in Blocks, leaf \in Seq(N), md \in Depths :
           \A r \in ExecuteBlock(b, leaf, md) : \A l \in Reached(r) : Quiet(leaf, l)

(* A work results in quiet continuations of the path with its mark.        *)
LEMMA PerformQuiet ==
    ASSUME NEW N, BlocksQuiet(N), max_depth \in Depths,
           NEW w \in Works, NEW leaf \in Seq(N), NEW r \in perform(w, leaf)
    PROVE  /\ r \in Results(N)
           /\ Marked(w, leaf) \in Seq(N) /\ IsPrefix(leaf, Marked(w, leaf))
           /\ \A l \in Reached(r) : l \in Seq(N) /\ Quiet(Marked(w, leaf), l)
  <1> DEFINE m == Marked(w, leaf)
  <1>1. BlocksTyped(N)
    BY DEF BlocksQuiet
  <1>2. /\ m \in Seq(N) /\ IsPrefix(leaf, m)
        /\ \E b \in Blocks, l \in Seq(N) : /\ Quiet(m, l)
                                            /\ r \in ExecuteBlock(b, l, max_depth)
    BY <1>1, PerformExecutes
  <1> HIDE DEF m
  <1>3. PICK b \in Blocks, l0 \in Seq(N) : /\ Quiet(m, l0)
                                           /\ r \in ExecuteBlock(b, l0, max_depth)
    BY <1>2
  <1>4. r \in Results(N) /\ \A l \in Reached(r) : Quiet(l0, l)
    BY <1>1, <1>3 DEF BlocksQuiet, BlocksTyped
  <1>5. \A l \in Reached(r) : l \in Seq(N)
    BY <1>4, RangeOfSeq DEF Results, Reached
  <1>6. \A l \in Reached(r) : Quiet(m, l)
    BY <1>2, <1>3, <1>4, <1>5, QuietFacts
  <1> QED
    BY <1>2, <1>4, <1>5, <1>6 DEF m

(* A list of elements of S is one.                                         *)
LEMMA ListWithin ==
    ASSUME NEW E, NEW q \in Seq(E), NEW S, \A x \in Range(q) : x \in S
    PROVE  q \in Seq(S)
  <1>1. \A i \in 1 .. Len(q) : q[i] \in S
    BY DEF Range
  <1> QED
    BY <1>1

(* A work has outcomes of a kind when all such continuations are of it.    *)
LEMMA PerformOutcome ==
    ASSUME NEW N, BlocksQuiet(N), max_depth \in Depths,
           NEW w \in Works, NEW leaf \in Seq(N), NEW C, NEW L,
           \A l \in Seq(N) : (/\ Marked(w, leaf) \in Seq(N)
                              /\ IsPrefix(leaf, Marked(w, leaf))
                              /\ Quiet(Marked(w, leaf), l)) => l \in C /\ l \in L
    PROVE  perform(w, leaf) \subseteq Outcomes(C, L)
  <1> SUFFICES ASSUME NEW r \in perform(w, leaf) PROVE r \in Outcomes(C, L)
    OBVIOUS
  <1>1. /\ r \in Results(N)
        /\ Marked(w, leaf) \in Seq(N) /\ IsPrefix(leaf, Marked(w, leaf))
        /\ \A l \in Reached(r) : l \in Seq(N) /\ Quiet(Marked(w, leaf), l)
    BY PerformQuiet
  <1>2. \A l \in Reached(r) : l \in C /\ l \in L
    BY <1>1
  <1>3. r.done \in Seq(Seq(N)) /\ r.live \in Seq(Seq(N))
    BY <1>1 DEF Results
  <1>4. /\ \A l \in Range(r.done) : l \in C
        /\ \A l \in Range(r.live) : l \in L
    BY <1>2 DEF Reached
  <1>5. r.done \in Seq(C) /\ r.live \in Seq(L)
    BY <1>3, <1>4, ListWithin
  <1>6. r = [done |-> r.done, live |-> r.live]
    BY <1>1 DEF Results
  <1> QED
    BY <1>5, <1>6 DEF Outcomes

-----------------------------------------------------------------------------
(* Rounds take paths deeper.                                               *)

(* The elements of two lists put together.                                 *)
LEMMA ConcatElements ==
    ASSUME NEW E, NEW a \in Seq(E), NEW b \in Seq(E)
    PROVE  /\ a \o b \in Seq(E) /\ Len(a \o b) = Len(a) + Len(b)
           /\ \A i \in 1 .. Len(a) : (a \o b)[i] = a[i]
           /\ \A i \in 1 .. Len(b) : (a \o b)[Len(a) + i] = b[i]
  <1>1. /\ a \o b \in Seq(E) /\ Len(a \o b) = Len(a) + Len(b)
        /\ \A i \in 1 .. Len(a) + Len(b) :
               (a \o b)[i] = IF i <= Len(a) THEN a[i] ELSE b[i - Len(a)]
        /\ Len(a) \in Nat /\ Len(b) \in Nat
    BY ConcatProperties
  <1> DEFINE c == a \o b
             m == Len(a)
             n == Len(b)
  <1> HIDE DEF c, m, n
  <1>2. /\ m \in Nat /\ n \in Nat
        /\ \A i \in 1 .. m + n : c[i] = IF i <= m THEN a[i] ELSE b[i - m]
    BY <1>1 DEF c, m, n
  <1>3. \A i \in 1 .. m : c[i] = a[i]
    BY <1>2
  <1>4. ASSUME NEW i \in 1 .. n PROVE c[m + i] = b[i]
    <2>1. m + i \in 1 .. m + n /\ ~(m + i <= m) /\ (m + i) - m = i
      BY <1>2
    <2> QED
      BY <1>2, <2>1
  <1> QED
    BY <1>1, <1>3, <1>4 DEF c, m, n

(* The states a transition leaves, and those it enters.                    *)
Left(t) == upTo(t.source, t.state)

Entered(t) == upTo(t.destination, t.state) \o firstSubstates(t.destination)

(* The works of a transition in their order: those of the states it leaves,
   its action, those of the states it enters.                              *)
LEMMA WorksInOrder ==
    ASSUME NEW t \in Transitions
    PROVE  LET x == Len(Left(t))
               works == worksOf(t)
           IN  /\ Left(t) \in Seq(States) /\ Entered(t) \in Seq(States)
               /\ works \in Seq(Works) /\ Len(works) = x + 1 + Len(Entered(t))
               /\ \A i \in 1 .. x : works[i].work = "exit" /\ works[i].of = Left(t)[i]
               /\ works[x + 1].work = "action"
               /\ \A i \in 1 .. Len(Entered(t)) :
                      /\ works[x + 1 + i].work \in {"enterSuperstate", "enterSubstate"}
                      /\ works[x + 1 + i].of = Entered(t)[i]
  <1> DEFINE a == upTo(t.source, t.state)
             b == upTo(t.destination, t.state)
             c == firstSubstates(t.destination)
             ac == <<t.action>>
             A == {tr.action : tr \in Transitions}
             wa == Each("exit", a)
             wt == Each("action", ac)
             wb == Each("enterSuperstate", b)
             wc == Each("enterSubstate", c)
  <1>1. a \in Seq(States) /\ b \in Seq(States) /\ c \in Seq(States) /\ worksOf(t) \in Seq(Works)
    BY WorksFacts
  <1>2. ac \in Seq(A) /\ Len(ac) = 1 /\ ac[1] = t.action
    <2>1. t.action \in A
      OBVIOUS
    <2> HIDE DEF A
    <2> QED
      BY <2>1
  <1>3. worksOf(t) = ((wa \o wt) \o wb) \o wc
    BY DEF worksOf
  <1>4. /\ \A x \in States : /\ [work |-> "exit", of |-> x] \in Works
                             /\ [work |-> "enterSuperstate", of |-> x] \in Works
                             /\ [work |-> "enterSubstate", of |-> x] \in Works
        /\ \A x \in A : [work |-> "action", of |-> x] \in Works
    BY DEF Works
  <1>5. Left(t) = a /\ Entered(t) = b \o c
    BY DEF Left, Entered
  <1> HIDE DEF a, b, c, A, ac
  <1>6. ASSUME NEW S, NEW list \in Seq(S), NEW kind
        PROVE  /\ Len(Each(kind, list)) = Len(list)
               /\ \A i \in 1 .. Len(list) : /\ Each(kind, list)[i].work = kind
                                            /\ Each(kind, list)[i].of = list[i]
    <2> DEFINE q == Each(kind, list)
               m == Len(list)
    <2>1. m \in Nat /\ DOMAIN list = 1 .. m
      OBVIOUS
    <2>2. q = [i \in 1 .. m |-> [work |-> kind, of |-> list[i]]]
      BY <2>1 DEF Each
    <2>3. DOMAIN q = 1 .. m
      BY <2>2
    <2>4. \A i \in 1 .. m : q[i].work = kind /\ q[i].of = list[i]
      BY <2>2
    <2> HIDE DEF q, m
    <2>5. Len(q) = m
      <3>1. q \in [1 .. m -> Range(q)]
        BY <2>2, <2>3 DEF Range
      <3> QED
        BY <2>1, <3>1, FunctionIsSeq
    <2> QED
      BY <2>4, <2>5 DEF q, m
  <1>7. wa \in Seq(Works) /\ wb \in Seq(Works) /\ wc \in Seq(Works)
    BY <1>1, <1>4, EachFacts
  <1>8. wt \in Seq(Works)
    BY <1>2, <1>4, EachFacts
  <1>9. /\ Len(wa) = Len(a) /\ \A i \in 1 .. Len(a) : wa[i].work = "exit" /\ wa[i].of = a[i]
        /\ Len(wb) = Len(b)
        /\ \A i \in 1 .. Len(b) : wb[i].work = "enterSuperstate" /\ wb[i].of = b[i]
        /\ Len(wc) = Len(c)
        /\ \A i \in 1 .. Len(c) : wc[i].work = "enterSubstate" /\ wc[i].of = c[i]
    BY <1>1, <1>6
  <1>10. Len(wt) = 1 /\ wt[1].work = "action"
    BY <1>2, <1>6
  <1> HIDE DEF wa, wb, wc, wt
  <1> DEFINE w1 == wa \o wt
             w2 == wb \o wc
             w == w1 \o w2
             e == b \o c
             x == Len(a)
             y == Len(b)
  <1>11. /\ w1 \in Seq(Works) /\ Len(w1) = Len(wa) + Len(wt)
         /\ \A i \in 1 .. Len(wa) : w1[i] = wa[i]
         /\ \A i \in 1 .. Len(wt) : w1[Len(wa) + i] = wt[i]
    BY <1>7, <1>8, ConcatElements
  <1>12. /\ w2 \in Seq(Works) /\ Len(w2) = Len(wb) + Len(wc)
         /\ \A i \in 1 .. Len(wb) : w2[i] = wb[i]
         /\ \A i \in 1 .. Len(wc) : w2[Len(wb) + i] = wc[i]
    BY <1>7, ConcatElements
  <1>13. /\ e \in Seq(States) /\ Len(e) = y + Len(c)
         /\ \A i \in 1 .. y : e[i] = b[i]
         /\ \A i \in 1 .. Len(c) : e[y + i] = c[i]
    BY <1>1, ConcatElements
  <1>14. worksOf(t) = w
    <2>1. w1 \in Seq(Works) /\ wb \in Seq(Works) /\ wc \in Seq(Works)
      BY <1>7, <1>11
    <2>2. (w1 \o wb) \o wc = w1 \o (wb \o wc)
      <3> HIDE DEF w1
      <3> QED
        BY <2>1, ConcatAssociative
    <2> QED
      BY <1>3, <2>2
  <1>15. ASSUME NEW i \in 1 .. Len(e)
         PROVE  w2[i].work \in {"enterSuperstate", "enterSubstate"} /\ w2[i].of = e[i]
    <2> HIDE DEF w2, e
    <2>1. y \in Nat /\ Len(c) \in Nat
      BY <1>1
    <2>2. CASE i \in 1 .. y
      BY <1>9, <1>12, <1>13, <2>2
    <2>3. CASE i \in y + 1 .. y + Len(c)
      <3> DEFINE j == i - y
      <3>1. j \in 1 .. Len(c) /\ i = y + j
        BY <2>1, <2>3
      <3> HIDE DEF j
      <3>2. Len(wb) = y /\ Len(wc) = Len(c)
        BY <1>9
      <3> HIDE DEF y
      <3>3. w2[y + j] = wc[j] /\ e[y + j] = c[j]
        BY <1>12, <1>13, <3>1, <3>2
      <3>4. wc[j].work = "enterSubstate" /\ wc[j].of = c[j]
        BY <1>9, <3>1
      <3> QED
        BY <3>1, <3>3, <3>4
    <2> QED
      BY <1>13, <2>1, <2>2, <2>3
  <1> HIDE DEF w1, w2, e
  <1>16. /\ w \in Seq(Works) /\ Len(w) = (x + 1) + Len(e)
         /\ \A i \in 1 .. x + 1 : w[i] = w1[i]
         /\ \A i \in 1 .. Len(e) : w[(x + 1) + i] = w2[i]
    <2>1. Len(w1) = x + 1 /\ Len(w2) = Len(e)
      BY <1>9, <1>10, <1>11, <1>12, <1>13
    <2>2. /\ w \in Seq(Works) /\ Len(w) = Len(w1) + Len(w2)
          /\ \A i \in 1 .. Len(w1) : w[i] = w1[i]
          /\ \A i \in 1 .. Len(w2) : w[Len(w1) + i] = w2[i]
      <3>1. w1 \in Seq(Works) /\ w2 \in Seq(Works)
        BY <1>11, <1>12
      <3> QED
        BY <3>1, ConcatElements
    <2> HIDE DEF w
    <2> QED
      BY <2>1, <2>2
  <1>17. \A i \in 1 .. x : i \in 1 .. x + 1
    BY <1>1
  <1>18. x + 1 \in 1 .. x + 1
    BY <1>1
  <1> HIDE DEF w
  <1>19. /\ \A i \in 1 .. x : w[i].work = "exit" /\ w[i].of = a[i]
         /\ w[x + 1].work = "action"
    <2>1. w1[x + 1] = wt[1]
      <3>1. 1 \in 1 .. Len(wt)
        BY <1>10
      <3> QED
        BY <1>9, <1>11, <3>1
    <2>2. \A i \in 1 .. x : w[i] = wa[i]
      BY <1>9, <1>11, <1>16, <1>17
    <2>3. w[x + 1] = wt[1]
      BY <1>16, <1>18, <2>1
    <2> QED
      BY <1>9, <1>10, <2>2, <2>3
  <1>20. Entered(t) = e
    BY <1>5 DEF e
  <1>21. /\ w \in Seq(Works) /\ Len(w) = x + 1 + Len(e) /\ w[x + 1].work = "action"
         /\ \A i \in 1 .. x : w[i].work = "exit" /\ w[i].of = a[i]
         /\ \A i \in 1 .. Len(e) : /\ w[x + 1 + i].work \in {"enterSuperstate", "enterSubstate"}
                                   /\ w[x + 1 + i].of = e[i]
    BY <1>15, <1>16, <1>19
  <1>22. e \in Seq(States)
    BY <1>13
  <1> HIDE DEF x
  <1>23. x = Len(Left(t))
    BY <1>5 DEF x
  <1> QED
    BY <1>1, <1>5, <1>14, <1>20, <1>21, <1>22, <1>23

(* A path that continues another by a node at least.                       *)
Deeper(N, leaf) == {l \in Seq(N) : IsPrefix(leaf, l) /\ treedepth(leaf) < treedepth(l)}

(* Taking a transition takes a path deeper: a state is left at least.      *)
LEMMA TakeTransitionDeepens ==
    ASSUME NEW N, BlocksQuiet(N), max_depth \in Depths,
           NEW t \in Transitions, NEW leaf \in Seq(N)
    PROVE  takeTransition(t, leaf) \subseteq Outcomes(Seq(N), Deeper(N, leaf))
  <1> DEFINE works == worksOf(t)
             n == Len(works)
             D == Deeper(N, leaf)
             L == [i \in 0 .. n |-> IF i = 0 THEN {leaf} ELSE D]
  <1>1. BlocksTyped(N)
    BY DEF BlocksQuiet
  <1>2. n \in Nat \ {0} /\ \A i \in 1 .. n : works[i] \in Works
    <2>1. works \in Seq(Works) /\ n = Len(Left(t)) + 1 + Len(Entered(t))
          /\ Left(t) \in Seq(States) /\ Entered(t) \in Seq(States)
      BY WorksInOrder
    <2> HIDE DEF works
    <2> QED
      BY <2>1
  <1>3. works[1].work = "exit" /\ works[1].of \in States
    <2>1. Left(t) \in Seq(States) /\ Left(t) # << >>
      BY TransitionFacts, UpToFacts DEF Left
    <2>2. 1 \in 1 .. Len(Left(t)) /\ Left(t)[1] \in States
      BY <2>1
    <2> QED
      BY <2>2, WorksInOrder
  <1>4. /\ L[0] = {leaf} /\ \A i \in 1 .. n : L[i] = D
        /\ \A i \in 1 .. n : i - 1 = 0 \/ i - 1 \in 1 .. n
    BY <1>2
  <1> HIDE DEF works, n, L
  <1>5. ASSUME NEW i \in 1 .. n, NEW l0 \in L[i - 1]
        PROVE  perform(works[i], l0) \subseteq Outcomes(Seq(N), D)
    <2> DEFINE m == Marked(works[i], l0)
    <2>1. l0 \in Seq(N) /\ IsPrefix(leaf, l0) /\ Len(leaf) <= Len(l0)
      <3>1. CASE i - 1 = 0
        <4>1. IsPrefix(leaf, leaf)
          BY PrefixOfConcat
        <4> QED
          BY <1>4, <1>5, <3>1, <4>1
      <3>2. CASE i - 1 \in 1 .. n
        BY <1>4, <1>5, <3>2 DEF Deeper, treedepth
      <3> QED
        BY <1>4, <3>1, <3>2
    <2>2. m \in Seq(N) => Len(leaf) < Len(m) \/ (Len(leaf) < Len(l0) /\ i # 1)
      <3>1. CASE i = 1
        <4>1. m = StateExitNode(works[1].of, l0)
          BY <1>3, <3>1 DEF Marked
        <4>2. Len(m) = Len(l0) + 1
          BY <2>1, <4>1 DEF StateExitNode
        <4> QED
          BY <2>1, <4>2
      <3>2. CASE i # 1
        <4>1. i - 1 \in 1 .. n
          BY <1>4, <3>2
        <4> QED
          BY <1>4, <1>5, <3>2, <4>1 DEF Deeper, treedepth
      <3> QED
        BY <3>1, <3>2
    <2> HIDE DEF m
    <2>3. ASSUME NEW l \in Seq(N), m \in Seq(N), IsPrefix(l0, m), Quiet(m, l)
          PROVE  l \in D
      <3>1. IsPrefix(m, l) /\ IsPrefix(l0, l) /\ IsPrefix(leaf, l)
        BY <2>1, <2>3, PrefixTransitive DEF Quiet
      <3>2. Len(m) <= Len(l) /\ Len(l0) <= Len(l)
        BY <2>1, <2>3, <3>1, PrefixMeans
      <3>3. Len(leaf) < Len(l)
        BY <2>1, <2>2, <2>3, <3>2
      <3> QED
        BY <3>1, <3>3 DEF Deeper, treedepth
    <2> QED
      BY <1>2, <2>1, <2>3, PerformOutcome DEF m
  <1>6. \A i \in 1 .. n : \A l \in L[i - 1] : perform(works[i], l) \subseteq Outcomes(Seq(N), L[i])
    BY <1>4, <1>5
  <1>7. leaf \in L[0] /\ L[n] = D
    BY <1>2, <1>4
  <1>8. takeTransition(t, leaf) \subseteq Outcomes(Seq(N), L[n])
    BY <1>1, <1>6, <1>7, TakeTransitionOutcome DEF works, n
  <1> QED
    BY <1>7, <1>8

(* Within a round the agenda has leaves of the round, and the paths of the
   next continue some of these.                                            *)
RoundInv ==
    /\ max_tree_depth \in TreeDepths
    /\ pc = "try" =>
           /\ \A p \in Range(agenda) : p[1] \in Range(leaves)
           /\ \A l2 \in Range(leaves_temp2) :
                  \E l1 \in Range(leaves) :
                      IsPrefix(l1, l2) /\ treedepth(l1) < treedepth(l2)

(* To try a transition keeps this.                                         *)
LEMMA TryTransitionRound ==
    ASSUME NEW N, BlocksQuiet(N), PathsTyped(N), RoundInv, TryTransition
    PROVE  RoundInv'
  <1> DEFINE leaf == Head(agenda)[1]
             t == Head(agenda)[2]
             Y == Seq(N) \X Transitions
  <1>1. /\ agenda # << >> /\ agenda \in Seq(Y) /\ max_depth \in Depths
        /\ leaves_temp2 \in Seq(Seq(N)) /\ pc = "try"
    BY DEF TryTransition, PathsTyped
  <1>2. /\ Head(agenda) \in Y /\ Tail(agenda) \in Seq(Y)
        /\ Range(agenda) = {Head(agenda)} \cup Range(Tail(agenda))
    <2> HIDE DEF Y
    <2> QED
      BY <1>1, HeadTail
  <1>3. leaf \in Seq(N) /\ t \in Transitions /\ leaf \in Range(leaves)
    BY <1>1, <1>2 DEF RoundInv
  <1>4. /\ agenda' = Tail(agenda) /\ UNCHANGED <<max_tree_depth, leaves>>
        /\ \/ \E r \in takeTransition(t, leaf) : leaves_temp2' = leaves_temp2 \o r.live
           \/ UNCHANGED leaves_temp2
    BY DEF TryTransition
  <1> HIDE DEF leaf, t
  <1>5. ASSUME NEW l2 \in Range(leaves_temp2')
        PROVE  \E l1 \in Range(leaves) : IsPrefix(l1, l2) /\ treedepth(l1) < treedepth(l2)
    <2>1. CASE l2 \in Range(leaves_temp2)
      BY <1>1, <2>1 DEF RoundInv
    <2>2. ASSUME NEW r \in takeTransition(t, leaf), leaves_temp2' = leaves_temp2 \o r.live,
                 l2 \notin Range(leaves_temp2)
          PROVE  \E l1 \in Range(leaves) : IsPrefix(l1, l2) /\ treedepth(l1) < treedepth(l2)
      <3>1. r.live \in Seq(Deeper(N, leaf))
        BY <1>1, <1>3, TakeTransitionDeepens DEF Outcomes
      <3>2. r.live \in Seq(Seq(N))
        BY <1>1, <1>3, TakeTransitionTyped DEF BlocksQuiet, Results
      <3>3. l2 \in Range(r.live)
        BY <1>1, <1>5, <2>2, <3>2, RangeConcatenation
      <3>4. l2 \in Deeper(N, leaf)
        BY <3>1, <3>3, RangeOfSeq
      <3> QED
        BY <1>3, <3>4 DEF Deeper
    <2> QED
      BY <1>4, <1>5, <2>1, <2>2
  <1>6. \A p \in Range(agenda') : p[1] \in Range(leaves)
    BY <1>1, <1>2, <1>4 DEF RoundInv
  <1> QED
    BY <1>4, <1>5, <1>6 DEF RoundInv

(* Every step keeps it.                                                    *)
LEMMA NextRound ==
    ASSUME NEW N, BlocksQuiet(N), PathsTyped(N), RoundInv, [Next]_vars
    PROVE  RoundInv'
  <1>1. CASE Start
    BY <1>1 DEF Start, RoundInv
  <1>2. CASE EnterInitial
    BY <1>2 DEF EnterInitial, RoundInv
  <1>3. CASE StartRound
    <2>1. \A p \in Range(agenda') : p[1] \in Range(leaves)
      BY <1>3, StartRoundTyped
    <2>2. leaves_temp2' = << >> /\ UNCHANGED <<leaves, max_tree_depth>>
      BY <1>3 DEF StartRound
    <2>3. Range(leaves_temp2') = {}
      BY <2>2 DEF Range
    <2> QED
      BY <2>1, <2>2, <2>3 DEF RoundInv
  <1>4. CASE Return
    BY <1>4 DEF Return, RoundInv
  <1>5. CASE TryTransition
    BY <1>5, TryTransitionRound
  <1>6. CASE EndRound
    BY <1>6 DEF EndRound, RoundInv
  <1>7. CASE UNCHANGED vars
    BY <1>7 DEF RoundInv, vars
  <1> QED
    BY <1>1, <1>2, <1>3, <1>4, <1>5, <1>6, <1>7 DEF Next, Compute, Finished

(* Rounds take paths deeper, for every chart: each path that lives on after a
   round of execute goes on from a leaf of the round by a node at least, and
   is not deeper than max_tree_depth.  So there is no round in which a path
   treads water, and only finitely many rounds on a path.                  *)
THEOREM RoundsTakePathsDeeper ==
    ASSUME NEW N, BlocksQuiet(N)
    PROVE  Spec => RoundsDeepen
  <1> DEFINE Inv1 == PathsTyped(N) /\ RoundInv
             Deep1 == pc = "try" /\ agenda = << >> =>
                          \A l2 \in Range(leaves') :
                              /\ treedepth(l2) <= max_tree_depth
                              /\ \E l1 \in Range(leaves) :
                                     IsPrefix(l1, l2) /\ treedepth(l1) < treedepth(l2)
  <1>1. Init => Inv1
    BY InitTyped DEF Init, RoundInv
  <1>2. Inv1 /\ [Next]_vars => Inv1'
    BY NextTyped, NextRound DEF BlocksQuiet
  <1>3. Inv1 /\ [Next]_vars => [Deep1]_vars
    <2> SUFFICES ASSUME PathsTyped(N), RoundInv, Next, pc = "try", agenda = << >>,
                        ~UNCHANGED vars, NEW l2 \in Range(leaves')
                 PROVE  /\ treedepth(l2) <= max_tree_depth
                        /\ \E l1 \in Range(leaves) :
                               IsPrefix(l1, l2) /\ treedepth(l1) < treedepth(l2)
      OBVIOUS
    <2>1. EndRound
      BY DEF Next, Compute, Finished, Start, EnterInitial, StartRound, Return, TryTransition
    <2>2. l2 \in Range(leaves_temp2) /\ l2 \notin tooDeep
      BY <2>1, EndRoundTyped
    <2>3. l2 \in Seq(N) /\ max_tree_depth \in Nat
      BY <2>2, RangeOfSeq, EngineAssumption DEF PathsTyped, RoundInv
    <2>4. treedepth(l2) <= max_tree_depth
      BY <2>2, <2>3 DEF tooDeep, treedepth
    <2> QED
      BY <2>2, <2>4 DEF RoundInv
  <1> QED
    BY <1>1, <1>2, <1>3, PTL DEF Spec, RoundsDeepen

-----------------------------------------------------------------------------
(* The states a transition leaves and enters, when names are distinct.     *)

(* upTo finds the state it is given by its name.                           *)
LEMMA UpToIsPath ==
    ASSUME DistinctNames, NEW st \in States, NEW top \in States,
           Len(top) < Len(st), top = Prefix(st, Len(top))
    PROVE  upTo(st, top) = PathBelow(st, top)
  <1> DEFINE same == {n \in 1 .. Len(st) - 1 : Last(Prefix(st, n)) = Last(top)}
  <1>1. /\ Len(st) \in Nat \ {0} /\ Len(top) \in Nat \ {0} /\ st \in Seq(Identifiers)
        /\ \A n \in 1 .. Len(st) : Prefix(st, n) \in States
    BY StateFacts
  <1>2. Len(top) \in 1 .. Len(st) - 1 /\ Len(st) - 1 \in Nat
        /\ \A n \in 1 .. Len(st) - 1 : n \in 0 .. Len(st) /\ n \in 1 .. Len(st)
        /\ 1 .. Len(st) - 1 \subseteq 0 .. Len(st) - 1
    BY <1>1
  <1>3. Len(top) \in same /\ same \subseteq 0 .. Len(st) - 1
    BY <1>2
  <1>4. ASSUME NEW n \in same PROVE n = Len(top)
    <2>1. Prefix(st, n) \in States /\ Last(Prefix(st, n)) = Last(top) /\ n \in 0 .. Len(st)
      BY <1>1, <1>2
    <2>2. Prefix(st, n) = top
      BY <2>1 DEF DistinctNames
    <2>3. Len(Prefix(st, n)) = n
      BY <1>1, <2>1, PrefixFacts
    <2> QED
      BY <2>2, <2>3
  <1>5. Max(same) = Len(top)
    <2>1. Max(same) \in same
      <3> HIDE DEF same
      <3> QED
        BY <1>2, <1>3, MaxExists
    <2> HIDE DEF same
    <2> QED
      BY <1>4, <2>1
  <1>6. upTo(st, top) = PathBelow(st, Prefix(st, Max(same)))
    BY DEF upTo
  <1> HIDE DEF same
  <1> QED
    BY <1>5, <1>6

(* The superstates of g from the one below the k-th to the n-th.           *)
Between(g, k, n) == {Prefix(g, i) : i \in k + 1 .. n}

(* These in two parts, none of them in both.                               *)
LEMMA BetweenFacts ==
    ASSUME NEW S, NEW g \in Seq(S), NEW k \in Nat, NEW n \in Nat, NEW m \in Nat,
           k <= n, n <= m, m <= Len(g)
    PROVE  /\ Between(g, k, m) = Between(g, k, n) \cup Between(g, n, m)
           /\ Between(g, k, n) \cap Between(g, n, m) = {}
           /\ Between(Prefix(g, m), k, n) = Between(g, k, n)
  <1> DEFINE P(i) == Prefix(g, i)
  <1>1. \A i \in k + 1 .. m : i \in k + 1 .. n \/ i \in n + 1 .. m
    OBVIOUS
  <1>2. /\ \A i \in k + 1 .. n : i \in k + 1 .. m /\ i \in 0 .. Len(g) /\ i \in 0 .. m
        /\ \A i \in n + 1 .. m : i \in k + 1 .. m /\ i \in 0 .. Len(g)
        /\ m \in 0 .. Len(g)
    OBVIOUS
  <1>3. \A i \in 0 .. Len(g) : Len(P(i)) = i
    BY PrefixFacts
  <1>4. \A i \in 0 .. m : Prefix(Prefix(g, m), i) = P(i)
    BY <1>2, PrefixFacts
  <1>5. Between(Prefix(g, m), k, n) = Between(g, k, n)
    BY <1>2, <1>4 DEF Between
  <1>6. ASSUME NEW i \in k + 1 .. n, NEW j \in n + 1 .. m, P(i) = P(j) PROVE FALSE
    <2>1. i = j
      BY <1>2, <1>3, <1>6
    <2> QED
      BY <2>1
  <1> HIDE DEF P
  <1>7. /\ Between(g, k, m) = {P(i) : i \in k + 1 .. m}
        /\ Between(g, k, n) = {P(i) : i \in k + 1 .. n}
        /\ Between(g, n, m) = {P(i) : i \in n + 1 .. m}
    BY DEF Between, P
  <1>8. Between(g, k, n) \cap Between(g, n, m) = {}
    BY <1>6, <1>7
  <1>9. Between(g, k, m) = Between(g, k, n) \cup Between(g, n, m)
    BY <1>1, <1>2, <1>7
  <1> QED
    BY <1>5, <1>8, <1>9

(* The chain of a state in two parts.                                      *)
LEMMA ChainBetween ==
    ASSUME NEW g \in States, NEW k \in Nat, k <= Len(g)
    PROVE  /\ Range(Chain(g)) = Range(Chain(Prefix(g, k))) \cup Between(g, k, Len(g))
           /\ Range(Chain(Prefix(g, k))) \cap Between(g, k, Len(g)) = {}
  <1>1. g \in Seq(Identifiers) /\ Len(g) \in Nat /\ k \in 0 .. Len(g)
    BY StateFacts
  <1> DEFINE p == Prefix(g, k)
  <1>2. p \in Seq(Identifiers) /\ Len(p) = k
    BY <1>1, PrefixFacts
  <1>3. /\ Range(Chain(g)) = {Prefix(g, i) : i \in 1 .. Len(g)}
    BY <1>1, ChainFacts
  <1>4. Range(Chain(p)) = {Prefix(p, i) : i \in 1 .. Len(p)}
    <2> HIDE DEF p
    <2> QED
      BY <1>2, ChainFacts
  <1>5. 0 \in Nat /\ 0 <= k /\ k <= k /\ k <= Len(g)
        /\ 0 + 1 .. Len(g) = 1 .. Len(g) /\ 0 + 1 .. k = 1 .. k
    BY <1>1
  <1>6. Range(Chain(g)) = Between(g, 0, Len(g)) /\ Range(Chain(p)) = Between(p, 0, k)
    <2> HIDE DEF p
    <2> QED
      BY <1>2, <1>3, <1>4, <1>5 DEF Between
  <1>7. Between(p, 0, k) = Between(g, 0, k)
    BY <1>1, <1>5, BetweenFacts
  <1>8. /\ Between(g, 0, Len(g)) = Between(g, 0, k) \cup Between(g, k, Len(g))
        /\ Between(g, 0, k) \cap Between(g, k, Len(g)) = {}
    <2>1. Len(g) <= Len(g)
      BY <1>1
    <2> QED
      BY <1>1, <1>5, <2>1, BetweenFacts
  <1> QED
    BY <1>6, <1>7, <1>8 DEF p

(* Two lists without a state twice, and with none in both.                 *)
LEMMA InjectiveConcat ==
    ASSUME NEW E, NEW a \in Seq(E), NEW b \in Seq(E), IsInjective(a), IsInjective(b),
           Range(a) \cap Range(b) = {}
    PROVE  IsInjective(a \o b)
  <1> DEFINE c == a \o b
             m == Len(a)
             n == Len(b)
  <1>1. /\ c \in Seq(E) /\ Len(c) = m + n
        /\ \A i \in 1 .. m : c[i] = a[i]
        /\ \A i \in 1 .. n : c[m + i] = b[i]
    BY ConcatElements
  <1>2. m \in Nat /\ n \in Nat /\ DOMAIN a = 1 .. m /\ DOMAIN b = 1 .. n
    OBVIOUS
  <1> HIDE DEF c, m, n
  <1>3. DOMAIN c = 1 .. m + n
    BY <1>1
  <1>4. /\ \A i, j \in 1 .. m : a[i] = a[j] => i = j
        /\ \A i, j \in 1 .. n : b[i] = b[j] => i = j
    BY <1>2 DEF IsInjective
  <1>5. \A i \in 1 .. m : \A j \in 1 .. n : a[i] # b[j]
    BY <1>2 DEF Range
  <1>6. \A i \in 1 .. m + n : i \in 1 .. m \/ \E j \in 1 .. n : i = m + j
    <2> SUFFICES ASSUME NEW i \in 1 .. m + n, i \notin 1 .. m
                 PROVE  \E j \in 1 .. n : i = m + j
      OBVIOUS
    <2>1. i - m \in 1 .. n /\ i = m + (i - m)
      BY <1>2
    <2> QED
      BY <2>1
  <1>7. ASSUME NEW i \in 1 .. m + n, NEW j \in 1 .. m + n, c[i] = c[j] PROVE i = j
    <2>1. CASE i \in 1 .. m /\ j \in 1 .. m
      BY <1>1, <1>4, <1>7, <2>1
    <2>2. ASSUME NEW j1 \in 1 .. n, i \in 1 .. m, j = m + j1 PROVE FALSE
      BY <1>1, <1>5, <1>7, <2>2
    <2>3. ASSUME NEW i1 \in 1 .. n, j \in 1 .. m, i = m + i1 PROVE FALSE
      <3>1. c[i] = b[i1] /\ c[j] = a[j]
        BY <1>1, <2>3
      <3> QED
        BY <1>5, <1>7, <2>3, <3>1
    <2>4. ASSUME NEW i1 \in 1 .. n, NEW j1 \in 1 .. n, i = m + i1, j = m + j1 PROVE i = j
      <3>1. b[i1] = b[j1]
        BY <1>1, <1>7, <2>4
      <3> QED
        BY <1>4, <2>4, <3>1
    <2> QED
      BY <1>6, <2>1, <2>2, <2>3, <2>4
  <1>8. IsInjective(c)
    BY <1>3, <1>7 DEF IsInjective
  <1> QED
    BY <1>8 DEF c

(* PathBelow lists what is between two states.                             *)
LEMMA PathBelowStates ==
    ASSUME NEW d \in States, NEW top \in States, Len(top) < Len(d)
    PROVE  /\ PathBelow(d, top) \in Seq(States) /\ IsInjective(PathBelow(d, top))
           /\ Range(PathBelow(d, top)) = Between(d, Len(top), Len(d))
  <1> DEFINE q == PathBelow(d, top)
             G == Len(d)
             K == Len(top)
  <1>1. /\ q \in Seq(States) /\ Len(q) = G - K
        /\ \A i \in 1 .. Len(q) : q[i] = Prefix(d, G - i + 1)
    BY PathFacts
  <1>2. G \in Nat /\ K \in Nat /\ K < G /\ d \in Seq(Identifiers)
    BY StateFacts
  <1>3. \A i \in 0 .. G : Len(Prefix(d, i)) = i
    BY <1>2, PrefixFacts
  <1>4. DOMAIN q = 1 .. G - K
    BY <1>1
  <1> DEFINE P(i) == Prefix(d, i)
  <1>5. /\ \A i \in 1 .. G - K : q[i] = P(G - i + 1)
        /\ \A i \in 0 .. G : Len(P(i)) = i
        /\ Between(d, K, G) = {P(i) : i \in K + 1 .. G}
    BY <1>1, <1>3 DEF Between
  <1> HIDE DEF q, G, K, P
  <1>6. /\ \A i \in 1 .. G - K : G - i + 1 \in K + 1 .. G /\ G - i + 1 \in 0 .. G
        /\ \A i \in K + 1 .. G : G - i + 1 \in 1 .. G - K /\ G - (G - i + 1) + 1 = i
    BY <1>2
  <1>7. IsInjective(q)
    <2> SUFFICES ASSUME NEW i \in 1 .. G - K, NEW j \in 1 .. G - K, q[i] = q[j] PROVE i = j
      BY <1>4 DEF IsInjective
    <2>1. G - i + 1 = G - j + 1
      BY <1>5, <1>6
    <2> QED
      BY <1>2, <2>1
  <1>8. Range(q) \subseteq Between(d, K, G)
    BY <1>4, <1>5, <1>6 DEF Range
  <1>9. ASSUME NEW i \in K + 1 .. G PROVE P(i) \in Range(q)
    <2>1. q[G - i + 1] = P(i) /\ G - i + 1 \in DOMAIN q
      BY <1>4, <1>5, <1>6
    <2> QED
      BY <2>1 DEF Range
  <1>10. Range(q) = Between(d, K, G)
    BY <1>5, <1>8, <1>9
  <1> QED
    BY <1>1, <1>7, <1>10 DEF q, G, K

(* The atomic state that first substates lead to.                          *)
Innermost(st) == AtomicBelow(st, [x \in States |-> NoState])

(* It is at or below the state, and firstSubstates lists what is between.  *)
LEMMA InnermostFacts ==
    ASSUME NEW st \in States
    PROVE  /\ Innermost(st) \in States /\ isAtomic(Innermost(st))
           /\ Len(st) <= Len(Innermost(st)) /\ st = Prefix(Innermost(st), Len(st))
           /\ Len(firstSubstates(st)) = Len(Innermost(st)) - Len(st)
           /\ \A i \in 1 .. Len(firstSubstates(st)) :
                  firstSubstates(st)[i] = Prefix(Innermost(st), Len(st) + i)
  <1> DEFINE h == [x \in States |-> NoState]
             g == Innermost(st)
             n == Len(g) - Len(st)
  <1>1. h \in Histories
    BY DEF Histories
  <1>2. g \in LeavesFrom(st, h)
    <2> HIDE DEF h
    <2>1. g = AtomicBelow(st, h)
      BY DEF Innermost, h
    <2> QED
      BY <1>1, <2>1, AtomicBelowReached
  <1>3. firstSubstates(st) = [i \in 1 .. n |-> Prefix(g, Len(st) + i)]
    BY DEF firstSubstates, Innermost
  <1> HIDE DEF g, h
  <1>4. g \in States /\ isAtomic(g) /\ Len(st) <= Len(g) /\ st = Prefix(g, Len(st))
    BY <1>2 DEF LeavesFrom, LeadsTo
  <1>5. Len(st) \in Nat /\ Len(g) \in Nat
    BY <1>4, StateFacts
  <1>6. n \in Nat
    BY <1>4, <1>5
  <1> DEFINE q == firstSubstates(st)
  <1> HIDE DEF n
  <1>7. q \in [1 .. n -> Range(q)] /\ \A i \in 1 .. n : q[i] = Prefix(g, Len(st) + i)
    BY <1>3 DEF Range
  <1>8. Len(q) = n
    <2> HIDE DEF q
    <2> QED
      BY <1>6, <1>7, FunctionIsSeq
  <1> QED
    BY <1>4, <1>7, <1>8 DEF g, n

(* firstSubstates lists what is between the two.                           *)
LEMMA FirstSubstatesStates ==
    ASSUME NEW st \in States
    PROVE  /\ firstSubstates(st) \in Seq(States) /\ IsInjective(firstSubstates(st))
           /\ Range(firstSubstates(st)) = Between(Innermost(st), Len(st), Len(Innermost(st)))
  <1> DEFINE q == firstSubstates(st)
             g == Innermost(st)
             G == Len(g)
             K == Len(st)
             P(i) == Prefix(g, i)
  <1>1. /\ g \in States /\ K <= G /\ Len(q) = G - K
        /\ \A i \in 1 .. Len(q) : q[i] = P(K + i)
    BY InnermostFacts
  <1>2. q \in Seq(States)
    BY FirstSubstatesFacts
  <1> HIDE DEF q, g
  <1>3. G \in Nat /\ K \in Nat /\ g \in Seq(Identifiers)
    BY <1>1, StateFacts
  <1>4. \A i \in 0 .. G : Len(P(i)) = i
    BY <1>3, PrefixFacts
  <1>5. DOMAIN q = 1 .. G - K /\ \A i \in 1 .. G - K : q[i] = P(K + i)
    BY <1>1, <1>2
  <1>6. Between(g, K, G) = {P(i) : i \in K + 1 .. G}
    BY DEF Between
  <1> HIDE DEF G, K, P
  <1>7. /\ \A i \in 1 .. G - K : K + i \in K + 1 .. G /\ K + i \in 0 .. G
        /\ \A i \in K + 1 .. G : i - K \in 1 .. G - K /\ K + (i - K) = i
    BY <1>3
  <1>8. IsInjective(q)
    <2> SUFFICES ASSUME NEW i \in 1 .. G - K, NEW j \in 1 .. G - K, q[i] = q[j] PROVE i = j
      BY <1>5 DEF IsInjective
    <2>1. K + i = K + j
      BY <1>4, <1>5, <1>7
    <2> QED
      BY <1>3, <2>1
  <1>9. Range(q) \subseteq Between(g, K, G)
    BY <1>5, <1>6, <1>7 DEF Range
  <1>10. ASSUME NEW i \in K + 1 .. G PROVE P(i) \in Range(q)
    <2>1. q[i - K] = P(i) /\ i - K \in DOMAIN q
      BY <1>5, <1>7
    <2> QED
      BY <2>1 DEF Range
  <1>11. Range(q) = Between(g, K, G)
    BY <1>6, <1>9, <1>10
  <1> QED
    BY <1>2, <1>8, <1>11 DEF q, g, G, K

(* What a transition leaves: all between the state it is declared in and its
   source.                                                                 *)
LEMMA LeftStatesFacts ==
    ASSUME DistinctNames, NEW t \in Transitions
    PROVE  /\ IsInjective(Left(t))
           /\ Range(Chain(t.source)) = Range(Chain(t.state)) \cup Range(Left(t))
           /\ Range(Chain(t.state)) \cap Range(Left(t)) = {}
  <1>1. /\ t.source \in States /\ t.state \in States /\ Len(t.state) < Len(t.source)
        /\ t.state = Prefix(t.source, Len(t.state))
    BY TransitionFacts
  <1>2. Left(t) = PathBelow(t.source, t.state)
    BY <1>1, UpToIsPath DEF Left
  <1>3. /\ IsInjective(PathBelow(t.source, t.state))
        /\ Range(PathBelow(t.source, t.state))
               = Between(t.source, Len(t.state), Len(t.source))
    BY <1>1, PathBelowStates
  <1>4. Len(t.state) \in Nat /\ Len(t.source) \in Nat /\ Len(t.state) <= Len(t.source)
    BY <1>1, StateFacts
  <1> DEFINE g == t.source
             k == Len(t.state)
  <1> HIDE DEF g, k
  <1>5. /\ Range(Chain(g)) = Range(Chain(Prefix(g, k))) \cup Between(g, k, Len(g))
        /\ Range(Chain(Prefix(g, k))) \cap Between(g, k, Len(g)) = {}
    BY <1>1, <1>4, ChainBetween DEF g, k
  <1> QED
    BY <1>1, <1>2, <1>3, <1>5 DEF g, k

(* What it enters: all between that state and the atomic state below its
   destination.                                                            *)
LEMMA EnteredStatesFacts ==
    ASSUME DistinctNames, NEW t \in Transitions
    PROVE  /\ IsInjective(Entered(t))
           /\ Range(Chain(Innermost(t.destination)))
                  = Range(Chain(t.state)) \cup Range(Entered(t))
           /\ Range(Chain(t.state)) \cap Range(Entered(t)) = {}
  <1> DEFINE d == t.destination
             top == t.state
             g == Innermost(d)
             b == PathBelow(d, top)
             c == firstSubstates(d)
             D == Len(d)
             K == Len(top)
             G == Len(g)
  <1>1. d \in States /\ top \in States /\ K < D /\ top = Prefix(d, K)
    BY TransitionFacts
  <1>2. upTo(d, top) = b
    BY <1>1, UpToIsPath
  <1>3. Entered(t) = b \o c
    BY <1>2 DEF Entered
  <1>4. b \in Seq(States) /\ IsInjective(b) /\ Range(b) = Between(d, K, D)
    BY <1>1, PathBelowStates
  <1>5. c \in Seq(States) /\ IsInjective(c) /\ Range(c) = Between(g, D, G)
    BY <1>1, FirstSubstatesStates
  <1>6. g \in States /\ D <= G /\ d = Prefix(g, D)
    BY <1>1, InnermostFacts
  <1>7. D \in Nat /\ K \in Nat /\ G \in Nat /\ g \in Seq(Identifiers)
    BY <1>1, <1>6, StateFacts
  <1>8. K <= D /\ D <= G /\ G <= Len(g) /\ K \in 0 .. D /\ D \in 0 .. Len(g) /\ K <= Len(g)
        /\ D <= D /\ D <= Len(g)
    BY <1>1, <1>6, <1>7
  <1> HIDE DEF g, b, c, D, K, G
  <1>9. /\ Between(g, K, G) = Between(g, K, D) \cup Between(g, D, G)
        /\ Between(g, K, D) \cap Between(g, D, G) = {}
    BY <1>7, <1>8, BetweenFacts
  <1>10. Between(Prefix(g, D), K, D) = Between(g, K, D)
    BY <1>7, <1>8, BetweenFacts
  <1>11. Range(b) = Between(g, K, D)
    BY <1>4, <1>6, <1>10
  <1>12. IsInjective(b \o c)
    <2>1. Range(b) \cap Range(c) = {}
      BY <1>5, <1>9, <1>11
    <2> QED
      BY <1>4, <1>5, <2>1, InjectiveConcat
  <1>13. Range(b \o c) = Between(g, K, G)
    <2>1. Range(b \o c) = Range(b) \cup Range(c)
      BY <1>4, <1>5, RangeConcatenation
    <2> QED
      BY <1>5, <1>9, <1>11, <2>1
  <1>14. top = Prefix(g, K)
    <2>1. Prefix(Prefix(g, D), K) = Prefix(g, K)
      BY <1>7, <1>8, PrefixFacts
    <2> QED
      BY <1>1, <1>6, <2>1
  <1>15. /\ Range(Chain(g)) = Range(Chain(Prefix(g, K))) \cup Between(g, K, Len(g))
         /\ Range(Chain(Prefix(g, K))) \cap Between(g, K, Len(g)) = {}
    BY <1>6, <1>7, <1>8, ChainBetween
  <1>16. /\ Range(Chain(g)) = Range(Chain(top)) \cup Range(Entered(t))
         /\ Range(Chain(top)) \cap Range(Entered(t)) = {}
    BY <1>3, <1>13, <1>14, <1>15 DEF G
  <1> QED
    BY <1>3, <1>12, <1>16 DEF g

(* The states a call begins with.                                          *)
LEMMA FirstStatesFacts ==
    LET sts == <<Root>> \o firstSubstates(Root)
    IN  /\ sts \in Seq(States) /\ IsInjective(sts)
        /\ Range(sts) = Range(Chain(Innermost(Root)))
  <1> DEFINE c == firstSubstates(Root)
             r == <<Root>>
             g == Innermost(Root)
  <1>1. Root \in States /\ Len(Root) = 1
    BY TreeAssumption DEF TreeWellFormed
  <1>2. g \in States /\ 1 <= Len(g) /\ Root = Prefix(g, 1)
    BY <1>1, InnermostFacts
  <1>3. c \in Seq(States) /\ IsInjective(c) /\ Range(c) = Between(g, 1, Len(g))
    BY <1>1, FirstSubstatesStates
  <1>4. r \in Seq(States) /\ IsInjective(r) /\ Range(r) = {Root}
    BY <1>1 DEF IsInjective, Range
  <1> HIDE DEF c, r, g
  <1>5. /\ Range(Chain(g)) = Range(Chain(Prefix(g, 1))) \cup Between(g, 1, Len(g))
        /\ Range(Chain(Prefix(g, 1))) \cap Between(g, 1, Len(g)) = {}
    BY <1>2, ChainBetween
  <1>6. Range(Chain(Root)) = {Root}
    <2>1. Root \in Seq(Identifiers) /\ Prefix(Root, Len(Root)) = Root
      BY <1>1, StateFacts, WholePrefix
    <2>2. Range(Chain(Root)) = {Prefix(Root, i) : i \in 1 .. 1}
      BY <1>1, <2>1, ChainFacts
    <2> QED
      BY <1>1, <2>1, <2>2
  <1>7. Range(r) \cap Range(c) = {} /\ Range(Chain(g)) = Range(r) \cup Range(c)
    BY <1>2, <1>3, <1>4, <1>5, <1>6
  <1>8. IsInjective(r \o c)
    BY <1>3, <1>4, <1>7, InjectiveConcat
  <1>9. r \o c \in Seq(States) /\ Range(r \o c) = Range(r) \cup Range(c)
    BY <1>3, <1>4, RangeConcatenation
  <1> QED
    BY <1>7, <1>8, <1>9 DEF r, c, g

-----------------------------------------------------------------------------
(* What a transition makes of the states that are active on a path.        *)

(* Paths that fit together, and those of them on which A is active.        *)
Fit(N) == {l \in Seq(N) : PathConsistent(l)}

At(N, A) == {l \in Fit(N) : ActiveOn(l) = A}

(* What is active after a work.                                            *)
After(w, A) == CASE w.work = "exit"   -> A \ {w.of}
                 [] w.work = "action" -> A
                 [] OTHER             -> A \cup {w.of}

(* A work that leaves an active state, or enters an inactive one, does just
   this to the paths it is done on.                                        *)
LEMMA PerformMoves ==
    ASSUME NEW N, BlocksQuiet(N), max_depth \in Depths,
           NEW w \in Works, NEW A, NEW leaf \in At(N, A),
           w.work = "exit" => w.of \in A,
           w.work \in {"enterSuperstate", "enterSubstate"} => w.of \notin A
    PROVE  perform(w, leaf) \subseteq Outcomes(Fit(N), At(N, After(w, A)))
  <1> DEFINE m == Marked(w, leaf)
  <1>1. leaf \in Seq(N) /\ PathConsistent(leaf) /\ ActiveOn(leaf) = A /\ BlocksTyped(N)
    BY DEF At, Fit, BlocksQuiet
  <1>2. m \in Seq(N) => PathConsistent(m) /\ ActiveOn(m) = After(w, A)
    <2>1. CASE w.work = "action"
      BY <1>1, <2>1 DEF Marked, After
    <2>2. CASE w.work = "exit"
      <3>1. w.of \in States /\ m = StateExitNode(w.of, leaf) /\ After(w, A) = A \ {w.of}
        BY <2>2 DEF Marked, After, Works
      <3>2. [node |-> "entry", s |-> w.of] \in N /\ [node |-> "exit", s |-> w.of] \in N
        BY <1>1, <3>1 DEF BlocksTyped, OwnNodes
      <3>3. ActiveOn(StateExitNode(w.of, leaf)) = ActiveOn(leaf) \ {w.of}
        BY <1>1, <3>1, <3>2, ActiveAppend
      <3>4. PathConsistent(StateExitNode(w.of, leaf))
        BY <1>1, <2>2, <3>1, <3>2, ConsistentAppend
      <3> QED
        BY <1>1, <3>1, <3>3, <3>4
    <2>3. CASE w.work \in {"enterSuperstate", "enterSubstate"}
      <3>1. w.of \in States /\ m = StateEntryNode(w.of, leaf) /\ After(w, A) = A \cup {w.of}
        BY <2>3 DEF Marked, After, Works
      <3>2. [node |-> "entry", s |-> w.of] \in N /\ [node |-> "exit", s |-> w.of] \in N
        BY <1>1, <3>1 DEF BlocksTyped, OwnNodes
      <3>3. ActiveOn(StateEntryNode(w.of, leaf)) = ActiveOn(leaf) \cup {w.of}
        BY <1>1, <3>1, <3>2, ActiveAppend
      <3>4. PathConsistent(StateEntryNode(w.of, leaf))
        BY <1>1, <2>3, <3>1, <3>2, ConsistentAppend
      <3> QED
        BY <1>1, <3>1, <3>3, <3>4
    <2> QED
      BY <2>1, <2>2, <2>3 DEF Works
  <1> HIDE DEF m
  <1>3. ASSUME NEW l \in Seq(N), m \in Seq(N), IsPrefix(leaf, m), Quiet(m, l)
        PROVE  l \in Fit(N) /\ l \in At(N, After(w, A))
    <2>1. ActiveOn(l) = ActiveOn(m)
      BY <1>3, ActiveQuiet
    <2>2. PathConsistent(l)
      BY <1>2, <1>3, ConsistentQuiet
    <2> QED
      BY <1>2, <1>3, <2>1, <2>2 DEF At, Fit
  <1> QED
    BY <1>1, <1>3, PerformOutcome DEF m

(* What is active after i works of t on a path on which t.source is: of what
   t leaves the rest, and of what it enters the first ones.                *)
Midway(t, i) == Range(Chain(t.state))
                    \cup {Left(t)[j] : j \in i + 1 .. Len(Left(t))}
                    \cup {Entered(t)[j] : j \in 1 .. i - (Len(Left(t)) + 1)}

(* It begins with the source and ends with the atomic state below the
   destination.                                                            *)
LEMMA MidwayEnds ==
    ASSUME DistinctNames, NEW t \in Transitions
    PROVE  /\ Midway(t, 0) = Range(Chain(t.source))
           /\ Midway(t, Len(worksOf(t))) = Range(Chain(Innermost(t.destination)))
  <1> DEFINE a == Left(t)
             b == Entered(t)
             x == Len(a)
             y == Len(b)
             n == Len(worksOf(t))
  <1>1. a \in Seq(States) /\ b \in Seq(States) /\ n = x + 1 + y
    BY WorksInOrder
  <1>2. /\ Range(Chain(t.source)) = Range(Chain(t.state)) \cup Range(a)
        /\ Range(Chain(Innermost(t.destination))) = Range(Chain(t.state)) \cup Range(b)
    BY LeftStatesFacts, EnteredStatesFacts
  <1>3. /\ x \in Nat /\ y \in Nat /\ DOMAIN a = 1 .. x /\ DOMAIN b = 1 .. y
    BY <1>1
  <1>4. Range(a) = {a[j] : j \in 1 .. x} /\ Range(b) = {b[j] : j \in 1 .. y}
    BY <1>3 DEF Range
  <1>5. /\ Midway(t, 0) = Range(Chain(t.state)) \cup {a[j] : j \in 0 + 1 .. x}
                              \cup {b[j] : j \in 1 .. 0 - (x + 1)}
        /\ Midway(t, n) = Range(Chain(t.state)) \cup {a[j] : j \in n + 1 .. x}
                              \cup {b[j] : j \in 1 .. n - (x + 1)}
    BY DEF Midway
  <1> HIDE DEF a, b, x, y, n
  <1>6. /\ 0 + 1 .. x = 1 .. x /\ 1 .. 0 - (x + 1) = {}
        /\ n + 1 .. x = {} /\ n - (x + 1) = y
    BY <1>1, <1>3
  <1>7. /\ Midway(t, 0) = Range(Chain(t.state)) \cup Range(a)
        /\ Midway(t, n) = Range(Chain(t.state)) \cup Range(b)
    BY <1>4, <1>5, <1>6
  <1> QED
    BY <1>2, <1>7 DEF n

(* Each work of t takes it a step further.                                 *)
LEMMA MidwaySteps ==
    ASSUME DistinctNames, NEW t \in Transitions, NEW i \in 1 .. Len(worksOf(t))
    PROVE  LET w == worksOf(t)[i]
           IN  /\ w \in Works
               /\ w.work = "exit" => w.of \in Midway(t, i - 1)
               /\ w.work \in {"enterSuperstate", "enterSubstate"}
                      => w.of \notin Midway(t, i - 1)
               /\ After(w, Midway(t, i - 1)) = Midway(t, i)
  <1> DEFINE a == Left(t)
             b == Entered(t)
             x == Len(a)
             y == Len(b)
             w == worksOf(t)[i]
             B == Range(Chain(t.state))
             L(k) == {a[j] : j \in k + 1 .. x}
             E(k) == {b[j] : j \in 1 .. k - (x + 1)}
  <1>1. /\ a \in Seq(States) /\ b \in Seq(States)
        /\ worksOf(t) \in Seq(Works) /\ Len(worksOf(t)) = x + 1 + y
        /\ \A j \in 1 .. x : worksOf(t)[j].work = "exit" /\ worksOf(t)[j].of = a[j]
        /\ worksOf(t)[x + 1].work = "action"
        /\ \A j \in 1 .. y :
               /\ worksOf(t)[x + 1 + j].work \in {"enterSuperstate", "enterSubstate"}
               /\ worksOf(t)[x + 1 + j].of = b[j]
    BY WorksInOrder
  <1>2. w \in Works
    <2> DEFINE works == worksOf(t)
    <2>1. works \in Seq(Works) /\ i \in 1 .. Len(works)
      BY <1>1
    <2> HIDE DEF works
    <2>2. works[i] \in Works
      BY <2>1
    <2> QED
      BY <2>2 DEF works
  <1>3. x \in Nat /\ y \in Nat /\ DOMAIN a = 1 .. x /\ DOMAIN b = 1 .. y /\ i \in 1 .. x + 1 + y
    BY <1>1
  <1>4. /\ IsInjective(a) /\ B \cap Range(a) = {} /\ IsInjective(b) /\ B \cap Range(b) = {}
    BY LeftStatesFacts, EnteredStatesFacts
  <1> HIDE DEF a, b, x, y, B
  <1>5. /\ \A j, k \in 1 .. x : a[j] = a[k] => j = k
        /\ \A j, k \in 1 .. y : b[j] = b[k] => j = k
        /\ \A j \in 1 .. x : a[j] \notin B
        /\ \A j \in 1 .. y : b[j] \notin B
    BY <1>3, <1>4 DEF IsInjective, Range
  <1>6. Midway(t, i - 1) = B \cup L(i - 1) \cup E(i - 1) /\ Midway(t, i) = B \cup L(i) \cup E(i)
    BY DEF Midway, a, b, x, B
  <1>7. /\ i \in 1 .. x => w.work = "exit" /\ w.of = a[i]
        /\ i = x + 1 => w.work = "action"
        /\ \A j \in 1 .. y : i = x + 1 + j =>
               w.work \in {"enterSuperstate", "enterSubstate"} /\ w.of = b[j]
    BY <1>1
  <1> HIDE DEF w
  <1>8. ASSUME i \in 1 .. x
        PROVE  /\ w.work = "exit" /\ w.of \in Midway(t, i - 1)
               /\ After(w, Midway(t, i - 1)) = Midway(t, i)
    <2>1. w.work = "exit" /\ w.of = a[i] /\ After(w, Midway(t, i - 1)) = Midway(t, i - 1) \ {w.of}
      BY <1>7, <1>8 DEF After
    <2>2. 1 .. (i - 1) - (x + 1) = {} /\ 1 .. i - (x + 1) = {}
      BY <1>3, <1>8
    <2>3. E(i - 1) = {} /\ E(i) = {}
      BY <2>2
    <2>4. /\ (i - 1) + 1 .. x = {i} \cup (i + 1 .. x)
          /\ \A j \in i + 1 .. x : j \in 1 .. x /\ j # i
      BY <1>3, <1>8
    <2>5. L(i - 1) = {a[i]} \cup L(i)
      BY <2>4
    <2>6. a[i] \notin L(i) /\ a[i] \notin B
      BY <1>5, <1>8, <2>4
    <2> HIDE DEF L, E
    <2> QED
      BY <1>6, <2>1, <2>3, <2>5, <2>6
  <1>9. ASSUME i = x + 1
        PROVE  w.work = "action" /\ After(w, Midway(t, i - 1)) = Midway(t, i)
    <2>1. w.work = "action" /\ After(w, Midway(t, i - 1)) = Midway(t, i - 1)
      BY <1>7, <1>9 DEF After
    <2>2. /\ 1 .. (i - 1) - (x + 1) = {} /\ 1 .. i - (x + 1) = {}
          /\ (i - 1) + 1 .. x = {} /\ i + 1 .. x = {}
      BY <1>3, <1>9
    <2>3. E(i - 1) = {} /\ E(i) = {} /\ L(i - 1) = {} /\ L(i) = {}
      BY <2>2
    <2> HIDE DEF L, E
    <2> QED
      BY <1>6, <2>1, <2>3
  <1>10. ASSUME NEW k \in 1 .. y, i = x + 1 + k
         PROVE  /\ w.work \in {"enterSuperstate", "enterSubstate"}
                /\ w.of \notin Midway(t, i - 1)
                /\ After(w, Midway(t, i - 1)) = Midway(t, i)
    <2>1. /\ w.work \in {"enterSuperstate", "enterSubstate"} /\ w.of = b[k]
          /\ After(w, Midway(t, i - 1)) = Midway(t, i - 1) \cup {w.of}
      BY <1>7, <1>10 DEF After
    <2>2. /\ (i - 1) + 1 .. x = {} /\ i + 1 .. x = {}
          /\ (i - 1) - (x + 1) = k - 1 /\ i - (x + 1) = k
      BY <1>3, <1>10
    <2>3. /\ L(i - 1) = {} /\ L(i) = {}
          /\ E(i - 1) = {b[j] : j \in 1 .. k - 1} /\ E(i) = {b[j] : j \in 1 .. k}
      BY <2>2
    <2>4. /\ 1 .. k = (1 .. k - 1) \cup {k}
          /\ \A j \in 1 .. k - 1 : j \in 1 .. y /\ j # k
      BY <1>3
    <2>5. E(i) = E(i - 1) \cup {b[k]}
      BY <2>3, <2>4
    <2>6. b[k] \notin E(i - 1) /\ b[k] \notin B
      <3>1. \A j \in 1 .. k - 1 : b[j] # b[k]
        BY <1>5, <2>4
      <3>2. b[k] \notin E(i - 1)
        BY <2>3, <3>1
      <3> QED
        BY <1>5, <3>2
    <2> HIDE DEF L, E
    <2> QED
      BY <1>6, <2>1, <2>3, <2>5, <2>6
  <1>11. i \in 1 .. x \/ i = x + 1 \/ \E k \in 1 .. y : i = x + 1 + k
    <2>1. i - (x + 1) \in 1 .. y \/ i \in 1 .. x \/ i = x + 1
      BY <1>3
    <2>2. i = x + 1 + (i - (x + 1))
      BY <1>3
    <2> QED
      BY <2>1, <2>2
  <1> QED
    BY <1>2, <1>8, <1>9, <1>10, <1>11 DEF w

(* A transition taken on a path on which its source is active leads to paths
   on which the atomic state below its destination is.                     *)
LEMMA TakeTransitionMoves ==
    ASSUME NEW N, BlocksQuiet(N), max_depth \in Depths, DistinctNames,
           NEW t \in Transitions, NEW leaf \in At(N, Range(Chain(t.source)))
    PROVE  takeTransition(t, leaf)
               \subseteq Outcomes(Fit(N), At(N, Range(Chain(Innermost(t.destination)))))
  <1> DEFINE works == worksOf(t)
             n == Len(works)
             L == [i \in 0 .. n |-> At(N, Midway(t, i))]
  <1>1. BlocksTyped(N) /\ leaf \in Seq(N)
    BY DEF BlocksQuiet, At, Fit
  <1>2. n \in Nat
    BY WorksFacts
  <1>3. /\ Midway(t, 0) = Range(Chain(t.source))
        /\ Midway(t, n) = Range(Chain(Innermost(t.destination)))
    BY MidwayEnds
  <1> HIDE DEF n
  <1>4. \A i \in 0 .. n : L[i] = At(N, Midway(t, i))
    OBVIOUS
  <1>5. /\ 0 \in 0 .. n /\ n \in 0 .. n
        /\ \A i \in 1 .. n : i \in 0 .. n /\ i - 1 \in 0 .. n
    BY <1>2
  <1> HIDE DEF L
  <1>6. leaf \in L[0] /\ L[n] = At(N, Range(Chain(Innermost(t.destination))))
    BY <1>3, <1>4, <1>5
  <1>7. ASSUME NEW i \in 1 .. n, NEW l \in L[i - 1]
        PROVE  perform(works[i], l) \subseteq Outcomes(Fit(N), L[i])
    <2> DEFINE w == works[i]
               A == Midway(t, i - 1)
    <2>1. /\ w \in Works
          /\ w.work = "exit" => w.of \in A
          /\ w.work \in {"enterSuperstate", "enterSubstate"} => w.of \notin A
          /\ After(w, A) = Midway(t, i)
      BY <1>7, MidwaySteps DEF n
    <2>2. l \in At(N, A) /\ L[i] = At(N, Midway(t, i))
      BY <1>4, <1>5, <1>7
    <2> HIDE DEF w, A
    <2>3. perform(w, l) \subseteq Outcomes(Fit(N), At(N, After(w, A)))
      BY <2>1, <2>2, PerformMoves
    <2> QED
      BY <2>1, <2>2, <2>3 DEF w
  <1>8. takeTransition(t, leaf) \subseteq Outcomes(Fit(N), L[n])
    BY <1>1, <1>6, <1>7, TakeTransitionOutcome DEF n
  <1> QED
    BY <1>6, <1>8

(* conf follows: it becomes the chain of that state, and stays it when the
   transition is taken again on another path of the round.                 *)
LEMMA ConfMoves ==
    ASSUME DistinctNames, NEW t \in Transitions, conf \in Seq(States),
           \/ Range(conf) = Range(Chain(t.source))
           \/ Range(conf) = Range(Chain(Innermost(t.destination)))
    PROVE  Range(confAfter(t)) = Range(Chain(Innermost(t.destination)))
  <1> DEFINE a == Left(t)
             b == Entered(t)
             B == Range(Chain(t.state))
             c == Removed(conf, a)
  <1>1. confAfter(t) = Added(c, b)
    BY DEF confAfter, Left, Entered
  <1>2. a \in Seq(States) /\ b \in Seq(States)
    BY WorksInOrder
  <1>3. /\ Range(Chain(t.source)) = B \cup Range(a) /\ B \cap Range(a) = {}
        /\ Range(Chain(Innermost(t.destination))) = B \cup Range(b)
    BY LeftStatesFacts, EnteredStatesFacts
  <1> HIDE DEF a, b, B
  <1>4. c \in Seq(States) /\ Range(c) = Range(conf) \ Range(a)
    BY <1>2, SetFacts
  <1> HIDE DEF c
  <1>5. Range(Added(c, b)) = Range(c) \cup Range(b)
    BY <1>2, <1>4, SetFacts
  <1> QED
    BY <1>1, <1>3, <1>4, <1>5

(* The only atomic state of a chain is the innermost one.                  *)
LEMMA AtomicInChain ==
    ASSUME NEW a \in States, NEW st \in Range(Chain(a)), isAtomic(st)
    PROVE  st = a
  <1>1. a \in Seq(Identifiers) /\ Len(a) \in Nat \ {0} /\ Prefix(a, Len(a)) = a
    BY StateFacts, WholePrefix
  <1>2. PICK i \in 1 .. Len(a) : st = Prefix(a, i)
    BY <1>1, ChainFacts
  <1>3. ASSUME i # Len(a) PROVE FALSE
    <2>1. i + 1 \in 2 .. Len(a) /\ (i + 1) - 1 = i
      BY <1>1, <1>3
    <2>2. Prefix(a, i + 1) \in States /\ getSuperstate(Prefix(a, i + 1)) = Prefix(a, i)
      BY <2>1, PrefixSuperstate
    <2> QED
      BY <1>2, <2>2, TreeAssumption DEF TreeWellFormed, isAtomic, Range
  <1> QED
    BY <1>1, <1>2, <1>3

-----------------------------------------------------------------------------
(* The invariant.                                                          *)

(* execute begins with an empty conf, for it is called once.               *)
CalledOnce ==
    /\ calls \in Nat
    /\ pc # "idle" => calls # 0
    /\ calls = 0 => conf = << >>

(* Between rounds, and while the first states are entered, the states of conf
   are the chain of an atomic state, and those that are not still to be
   entered are active on all live paths.                                   *)
EnteredSoFar ==
    pc = "enter" =>
        /\ IsInjective(entering) /\ Range(entering) \subseteq Range(conf)
        /\ \A l \in Range(leaves) : ActiveOn(l) = Range(conf) \ Range(entering)
        /\ \E a \in States : isAtomic(a) /\ Range(conf) = Range(Chain(a))

(* The paths of a round agree: they began it with the atomic state a and no
   other active, its transitions are tried on them, and conf and the paths of
   the next round are where the one transition leads that was taken, if one
   was.                                                                    *)
RoundAgrees(a) ==
    /\ \A l \in Range(leaves) : ActiveOn(l) = Range(Chain(a))
    /\ \A p \in Range(agenda) : p[1] \in Range(leaves) /\ p[2].source = a
    /\ \/ leaves_temp2 = << >> /\ Range(conf) = Range(Chain(a))
       \/ \E t \in Transitions, l \in Range(leaves) :
              /\ t.source = a /\ MayTake(t, l)
              /\ Range(conf) = Range(Chain(Innermost(t.destination)))
              /\ \A l2 \in Range(leaves_temp2) : ActiveOn(l2) = Range(conf)

RoundsAgree ==
    pc = "try" => entering = << >> /\ \E a \in States : isAtomic(a) /\ RoundAgrees(a)

StateInv == CalledOnce /\ PathsConsistent /\ EnteredSoFar /\ RoundsAgree

(* A path among those of a list.                                           *)
LEMMA PathAt ==
    ASSUME NEW N, NEW q \in Seq(Seq(N)), NEW l \in Range(q), PathConsistent(l), NEW A,
           ActiveOn(l) = A
    PROVE  l \in At(N, A)
  BY RangeOfSeq DEF At, Fit

(* A list without repetitions has its first element once.                  *)
LEMMA InjectiveTail ==
    ASSUME NEW E, NEW q \in Seq(E), q # << >>, IsInjective(q)
    PROVE  IsInjective(Tail(q)) /\ Head(q) \notin Range(Tail(q))
  <1> DEFINE b == Tail(q)
             n == Len(q)
  <1>1. /\ n \in Nat \ {0} /\ DOMAIN q = 1 .. n /\ Head(q) = q[1]
        /\ b \in Seq(E) /\ Len(b) = n - 1 /\ \A i \in 1 .. n - 1 : b[i] = q[i + 1]
    OBVIOUS
  <1>2. DOMAIN b = 1 .. n - 1
    BY <1>1
  <1>3. \A i, j \in 1 .. n : q[i] = q[j] => i = j
    BY <1>1 DEF IsInjective
  <1> HIDE DEF b, n
  <1>4. 1 \in 1 .. n /\ \A i \in 1 .. n - 1 : i + 1 \in 1 .. n /\ i + 1 # 1 /\ i \in Nat
    BY <1>1
  <1>5. ASSUME NEW i \in 1 .. n - 1, NEW j \in 1 .. n - 1, b[i] = b[j] PROVE i = j
    <2>1. i + 1 = j + 1
      BY <1>1, <1>3, <1>4, <1>5
    <2> QED
      BY <1>4, <2>1
  <1>6. \A i \in 1 .. n - 1 : b[i] # q[1]
    BY <1>1, <1>3, <1>4
  <1>7. IsInjective(b) /\ q[1] \notin Range(b)
    BY <1>2, <1>5, <1>6 DEF IsInjective, Range
  <1> QED
    BY <1>1, <1>7 DEF b

(* The invariant holds before the first call.                              *)
LEMMA InitState ==
    ASSUME Init
    PROVE  StateInv
  <1>1. Range(<< >>) = {}
    BY DEF Range
  <1> QED
    BY <1>1 DEF Init, StateInv, CalledOnce, PathsConsistent, Nodes, EnteredSoFar, RoundsAgree

(* A call keeps it: nothing is active at the root of the tree.             *)
LEMMA StartState ==
    ASSUME NEW N, BlocksQuiet(N), MaxCalls = 1, PathsTyped(N), StateInv, Start
    PROVE  StateInv'
  <1> DEFINE sts == <<Root>> \o firstSubstates(Root)
             n0 == startnode
             e == << >>
  <1>1. calls = 0 /\ conf = e
    <2>1. calls \in Nat /\ (calls = 0 => conf = << >>)
      BY DEF StateInv, CalledOnce
    <2>2. calls < 1
      BY DEF Start
    <2>3. calls = 0
      BY <2>1, <2>2
    <2> QED
      BY <2>1, <2>3
  <1>2. BlocksTyped(N)
    BY DEF BlocksQuiet
  <1>3. Range(conf') = Range(conf) \cup Range(sts)
    BY <1>2, StartTyped
  <1>4. /\ calls' = 1 /\ pc' = "enter" /\ leaves' = <<n0>> /\ done' = << >>
        /\ entering' = conf' /\ conf' = Added(e, sts) /\ UNCHANGED leaves_temp2
    <2>1. calls' = calls + 1
      BY DEF Start
    <2>2. calls' = 1
      BY <1>1, <2>1
    <2>3. conf' = Added(conf, sts)
      BY DEF Start
    <2>4. conf' = Added(e, sts)
      <3> HIDE DEF e, sts
      <3> QED
        BY <1>1, <2>3
    <2>5. /\ pc' = "enter" /\ leaves' = <<n0>> /\ done' = << >> /\ entering' = conf'
          /\ UNCHANGED leaves_temp2
      BY DEF Start
    <2> HIDE DEF e, sts, n0
    <2> QED
      BY <2>2, <2>4, <2>5
  <1>5. sts \in Seq(States) /\ IsInjective(sts) /\ Range(sts) = Range(Chain(Innermost(Root)))
    BY FirstStatesFacts
  <1>6. n0 \in Seq(N) /\ Quiet(e, n0)
    BY <1>2, StartnodeFacts
  <1>7. Range(e) = {} /\ e \in Seq(States) /\ e \in Seq(N) /\ IsInjective(e)
        /\ ActiveOn(e) = {} /\ PathConsistent(e)
    BY DEF Range, IsInjective, ActiveOn, PathConsistent
  <1>8. Range(leaves') = {n0} /\ Range(done') = {}
    BY <1>4, <1>7 DEF Range
  <1> HIDE DEF sts, n0, e
  <1>9. ActiveOn(n0) = {} /\ PathConsistent(n0)
    BY <1>6, <1>7, ActiveQuiet, ConsistentQuiet
  <1>10. IsInjective(conf')
    <2> DEFINE k == Kept(sts, States \ Range(e))
    <2>1. k \in Seq(States) /\ IsInjective(k)
      BY <1>5, KeptFacts
    <2>2. conf' = e \o k
      BY <1>4 DEF Added
    <2> HIDE DEF k
    <2>3. IsInjective(e \o k)
      BY <1>7, <2>1, InjectiveConcat
    <2> QED
      BY <2>2, <2>3
  <1>11. Innermost(Root) \in States /\ isAtomic(Innermost(Root))
    <2>1. Root \in States
      BY TreeAssumption DEF TreeWellFormed
    <2> QED
      BY <2>1, InnermostFacts
  <1>12. Range(conf') = Range(Chain(Innermost(Root)))
    BY <1>1, <1>3, <1>5, <1>7
  <1>13. EnteredSoFar'
    BY <1>4, <1>8, <1>9, <1>10, <1>11, <1>12 DEF EnteredSoFar
  <1>14. PathsConsistent'
    BY <1>4, <1>8, <1>9 DEF StateInv, PathsConsistent, Nodes
  <1>15. CalledOnce' /\ RoundsAgree'
    BY <1>4 DEF CalledOnce, RoundsAgree
  <1> QED
    BY <1>13, <1>14, <1>15 DEF StateInv

(* Entering a state of conf keeps it: it becomes active on every path.     *)
LEMMA EnterInitialState ==
    ASSUME NEW N, BlocksQuiet(N), PathsTyped(N), StateInv, EnterInitial
    PROVE  StateInv'
  <1> DEFINE h == Head(entering)
             tl == Tail(entering)
             A == Range(conf) \ Range(entering)
             B == Range(conf) \ Range(tl)
             w == [work |-> "enterSubstate", of |-> h]
  <1>1. /\ pc = "enter" /\ entering # << >> /\ entering \in Seq(States)
        /\ IsInjective(entering) /\ Range(entering) \subseteq Range(conf)
        /\ \A l \in Range(leaves) : ActiveOn(l) = A
        /\ \E a \in States : isAtomic(a) /\ Range(conf) = Range(Chain(a))
    BY DEF EnterInitial, PathsTyped, StateInv, EnteredSoFar
  <1>2. /\ h \in States /\ tl \in Seq(States) /\ Range(entering) = {h} \cup Range(tl)
    BY <1>1, HeadTail
  <1>3. IsInjective(tl) /\ h \notin Range(tl)
    BY <1>1, InjectiveTail
  <1>4. PICK r \in entered(h) : done' = done \o r.done /\ leaves' = r.live
    BY DEF EnterInitial
  <1>5. /\ entering' = tl
        /\ UNCHANGED <<max_depth, max_tree_depth, conf, calls, pc, leaves_temp2, agenda, s>>
    BY DEF EnterInitial
  <1>6. /\ max_depth \in Depths /\ leaves \in Seq(Seq(N)) /\ done \in Seq(Seq(N))
    BY DEF PathsTyped
  <1> HIDE DEF h, tl
  <1>7. w \in Works /\ w.work = "enterSubstate" /\ w.of = h
        /\ \A l : perform(w, l) = enterSubstate(h, l)
    BY <1>2, EnterIsWork
  <1>8. B = A \cup {h} /\ h \notin A /\ Range(tl) \subseteq Range(conf)
    BY <1>1, <1>2, <1>3
  <1> HIDE DEF A, B, w
  <1>9. After(w, A) = B
    BY <1>7, <1>8 DEF After
  <1>10. leaves \in Seq(At(N, A))
    <2>1. \A l \in Range(leaves) : l \in At(N, A)
      BY <1>1, <1>6, PathAt DEF StateInv, PathsConsistent, Nodes
    <2> QED
      BY <1>6, <2>1, ListWithin
  <1>11. \A l \in At(N, A) : enterSubstate(h, l) \subseteq Outcomes(Fit(N), At(N, B))
    <2> SUFFICES ASSUME NEW l \in At(N, A)
                 PROVE  perform(w, l) \subseteq Outcomes(Fit(N), At(N, B))
      BY <1>7
    <2>1. perform(w, l) \subseteq Outcomes(Fit(N), At(N, After(w, A)))
      BY <1>6, <1>7, <1>8, PerformMoves
    <2> QED
      BY <1>9, <2>1
  <1>12. r \in Outcomes(Fit(N), At(N, B))
    BY <1>2, <1>4, <1>10, <1>11, EnteredFacts
  <1>13. /\ r.done \in Seq(Fit(N)) /\ r.live \in Seq(At(N, B))
    BY <1>12 DEF Outcomes
  <1>14. /\ \A l \in Range(leaves') : PathConsistent(l) /\ ActiveOn(l) = B
        /\ \A l \in Range(r.done) : PathConsistent(l) /\ l \in Seq(N)
    BY <1>4, <1>13, RangeOfSeq DEF At, Fit
  <1>15. Range(done') = Range(done) \cup Range(r.done)
    <2>1. r.done \in Seq(Seq(N))
      <3>1. Fit(N) \subseteq Seq(N)
        BY DEF Fit
      <3> QED
        BY <1>13, <3>1
    <2> QED
      BY <1>4, <1>6, <2>1, RangeConcatenation
  <1>16. PathsConsistent'
    BY <1>5, <1>14, <1>15 DEF StateInv, PathsConsistent, Nodes
  <1>17. EnteredSoFar'
    BY <1>1, <1>3, <1>5, <1>8, <1>14 DEF EnteredSoFar, B
  <1>18. CalledOnce' /\ RoundsAgree'
    BY <1>1, <1>5 DEF StateInv, CalledOnce, RoundsAgree
  <1> QED
    BY <1>16, <1>17, <1>18 DEF StateInv

(* The beginning of a round keeps it: the transitions to try leave the atomic
   state that is active.                                                   *)
LEMMA StartRoundState ==
    ASSUME NEW N, DistinctNames, AtomicSources, PathsTyped(N), StateInv, StartRound
    PROVE  StateInv'
  <1>1. /\ pc = "enter" /\ entering = << >> /\ pc' = "try" /\ leaves_temp2' = << >>
        /\ UNCHANGED <<conf, calls, leaves, done, entering>>
    BY DEF StartRound
  <1>2. Range(entering) = {} /\ Range(leaves_temp2') = {}
    BY <1>1 DEF Range
  <1>3. PICK a \in States : isAtomic(a) /\ Range(conf) = Range(Chain(a))
    BY <1>1 DEF StateInv, EnteredSoFar
  <1>4. \A l \in Range(leaves) : ActiveOn(l) = Range(Chain(a))
    BY <1>1, <1>2, <1>3 DEF StateInv, EnteredSoFar
  <1>5. ASSUME NEW p \in Range(agenda') PROVE p[1] \in Range(leaves) /\ p[2].source = a
    <2> DEFINE t == p[2]
    <2>1. p[1] \in Range(leaves) /\ t \in Range(compute_outts(conf))
      BY <1>5, StartRoundTyped
    <2>2. t \in Transitions /\ \E st \in Range(conf) : Last(st) = Last(t.source)
      BY <2>1, OuttsFacts
    <2> HIDE DEF t
    <2>3. PICK st \in Range(conf) : Last(st) = Last(t.source)
      BY <2>2
    <2>4. st \in States /\ t.source \in States
      BY <2>2, <2>3, TransitionFacts, RangeOfSeq DEF PathsTyped
    <2>5. st = t.source
      BY <2>3, <2>4 DEF DistinctNames
    <2>6. isAtomic(st) /\ st \in Range(Chain(a))
      BY <1>3, <2>2, <2>3, <2>5 DEF AtomicSources
    <2>7. st = a
      BY <2>6, AtomicInChain
    <2> QED
      BY <2>1, <2>5, <2>7 DEF t
  <1>6. RoundAgrees(a)'
    BY <1>1, <1>3, <1>4, <1>5 DEF RoundAgrees
  <1>7. RoundsAgree'
    BY <1>1, <1>3, <1>6 DEF RoundsAgree
  <1>8. PathsConsistent'
    BY <1>1, <1>2 DEF StateInv, PathsConsistent, Nodes
  <1>9. CalledOnce' /\ EnteredSoFar'
    BY <1>1 DEF StateInv, CalledOnce, EnteredSoFar
  <1> QED
    BY <1>7, <1>8, <1>9 DEF StateInv

(* To try a transition keeps it: a transition that is taken is the one that
   was taken before in the round, if one was.                              *)
LEMMA TryTransitionState ==
    ASSUME NEW N, BlocksQuiet(N), DistinctNames, GuardsExclude,
           PathsTyped(N), StateInv, TryTransition
    PROVE  StateInv'
  <1> DEFINE leaf == Head(agenda)[1]
             t == Head(agenda)[2]
             Y == Seq(N) \X Transitions
  <1>1. /\ pc = "try" /\ agenda # << >> /\ agenda \in Seq(Y) /\ max_depth \in Depths
        /\ leaves \in Seq(Seq(N)) /\ leaves_temp2 \in Seq(Seq(N)) /\ done \in Seq(Seq(N))
        /\ conf \in Seq(States)
    BY DEF TryTransition, PathsTyped
  <1>2. /\ Head(agenda) \in Y
        /\ Range(agenda) = {Head(agenda)} \cup Range(Tail(agenda))
    <2> HIDE DEF Y
    <2> QED
      BY <1>1, HeadTail
  <1>3. entering = << >> /\ \E a \in States : isAtomic(a) /\ RoundAgrees(a)
    BY <1>1 DEF StateInv, RoundsAgree
  <1>4. PICK a \in States : isAtomic(a) /\ RoundAgrees(a)
    BY <1>3
  <1>5. /\ \A l \in Range(leaves) : ActiveOn(l) = Range(Chain(a))
        /\ \A p \in Range(agenda) : p[1] \in Range(leaves) /\ p[2].source = a
        /\ \/ leaves_temp2 = << >> /\ Range(conf) = Range(Chain(a))
           \/ \E t1 \in Transitions, l \in Range(leaves) :
                  /\ t1.source = a /\ MayTake(t1, l)
                  /\ Range(conf) = Range(Chain(Innermost(t1.destination)))
                  /\ \A l2 \in Range(leaves_temp2) : ActiveOn(l2) = Range(conf)
    BY <1>4 DEF RoundAgrees
  <1>6. leaf \in Seq(N) /\ t \in Transitions /\ leaf \in Range(leaves) /\ t.source = a
    BY <1>2, <1>5
  <1>7. /\ agenda' = Tail(agenda) /\ Ask(t, leaf)
        /\ UNCHANGED <<calls, pc, leaves, entering>>
        /\ \/ /\ s' = "sat"
              /\ \E r \in takeTransition(t, leaf) :
                     /\ done' = done \o r.done
                     /\ leaves_temp2' = leaves_temp2 \o r.live
              /\ conf' = confAfter(t)
           \/ /\ done' = Append(done, leaf)
              /\ UNCHANGED <<leaves_temp2, conf>>
    BY DEF TryTransition
  <1> HIDE DEF leaf, t
  <1>8. \A p \in Range(agenda') : p[1] \in Range(leaves) /\ p[2].source = a
    BY <1>2, <1>5, <1>7
  <1>9. CalledOnce' /\ EnteredSoFar'
    <2>1. pc' = "try" /\ calls' # 0 /\ calls' \in Nat
      BY <1>1, <1>7 DEF StateInv, CalledOnce
    <2> QED
      BY <2>1 DEF CalledOnce, EnteredSoFar
  <1>10. CASE done' = Append(done, leaf) /\ UNCHANGED <<leaves_temp2, conf>>
    <2>1. Range(done') = Range(done) \cup {leaf}
      BY <1>1, <1>6, <1>10, RangeAppend
    <2>2. PathsConsistent'
      BY <1>6, <1>7, <1>10, <2>1 DEF StateInv, PathsConsistent, Nodes
    <2>3. RoundAgrees(a)'
      BY <1>5, <1>7, <1>8, <1>10 DEF RoundAgrees
    <2>4. RoundsAgree'
      BY <1>3, <1>4, <1>7, <2>3 DEF RoundsAgree
    <2> QED
      BY <1>9, <2>2, <2>4 DEF StateInv
  <1>11. ASSUME s' = "sat", conf' = confAfter(t), NEW r \in takeTransition(t, leaf),
                done' = done \o r.done, leaves_temp2' = leaves_temp2 \o r.live
         PROVE  StateInv'
    <2> DEFINE B == Range(Chain(Innermost(t.destination)))
    <2>1. MayTake(t, leaf)
      <3>1. PICK answer \in Solve(t.guard, leaf) :
                     s' = IF answer = "IOException" THEN s ELSE answer
        BY <1>7 DEF Ask
      <3>2. answer \in {"sat", "IOException"}
        BY <1>11, <3>1
      <3> QED
        BY <3>1, <3>2 DEF MayTake
    <2>2. leaf \in At(N, Range(Chain(t.source)))
      <3>1. PathConsistent(leaf)
        BY <1>6 DEF StateInv, PathsConsistent, Nodes
      <3> QED
        BY <1>1, <1>5, <1>6, <3>1, PathAt
    <2>3. r \in Outcomes(Fit(N), At(N, B))
      BY <1>1, <1>6, <1>11, <2>2, TakeTransitionMoves
    <2> HIDE DEF B
    <2>4. r.done \in Seq(Fit(N)) /\ r.live \in Seq(At(N, B))
      BY <2>3 DEF Outcomes
    <2>5. /\ \A l \in Range(r.done) : PathConsistent(l)
          /\ \A l \in Range(r.live) : PathConsistent(l) /\ ActiveOn(l) = B
      BY <2>4, RangeOfSeq DEF At, Fit
    <2>6. /\ Range(done') = Range(done) \cup Range(r.done)
          /\ Range(leaves_temp2') = Range(leaves_temp2) \cup Range(r.live)
      <3>1. Fit(N) \subseteq Seq(N) /\ At(N, B) \subseteq Seq(N)
        BY DEF Fit, At
      <3>2. r.done \in Seq(Seq(N)) /\ r.live \in Seq(Seq(N))
        BY <2>4, <3>1
      <3> QED
        BY <1>1, <1>11, <3>2, RangeConcatenation
    <2>7. PathsConsistent'
      BY <1>7, <2>5, <2>6 DEF StateInv, PathsConsistent, Nodes
    <2>8. /\ Range(conf) = Range(Chain(t.source)) \/ Range(conf) = B
          /\ \A l2 \in Range(leaves_temp2) : ActiveOn(l2) = B
      <3>1. CASE leaves_temp2 = << >> /\ Range(conf) = Range(Chain(a))
        <4>1. Range(leaves_temp2) = {}
          BY <3>1 DEF Range
        <4> QED
          BY <1>6, <3>1, <4>1
      <3>2. ASSUME NEW t1 \in Transitions, NEW l \in Range(leaves),
                   t1.source = a, MayTake(t1, l),
                   Range(conf) = Range(Chain(Innermost(t1.destination))),
                   \A l2 \in Range(leaves_temp2) : ActiveOn(l2) = Range(conf)
            PROVE  Range(conf) = B /\ \A l2 \in Range(leaves_temp2) : ActiveOn(l2) = B
        <4>1. a \in Range(Chain(a))
          <5>1. a \in Seq(Identifiers) /\ Len(a) \in 1 .. Len(a) /\ Prefix(a, Len(a)) = a
            BY StateFacts, WholePrefix
          <5>2. Range(Chain(a)) = {Prefix(a, i) : i \in 1 .. Len(a)}
            BY <5>1, ChainFacts
          <5> QED
            BY <5>1, <5>2
        <4>2. a \in ActiveOn(l) \cap ActiveOn(leaf)
          BY <1>5, <1>6, <3>2, <4>1
        <4>3. t1 = t
          BY <1>1, <1>6, <2>1, <3>2, <4>2 DEF GuardsExclude
        <4> QED
          BY <3>2, <4>3 DEF B
      <3> QED
        BY <1>5, <3>1, <3>2
    <2>9. Range(conf') = B
      <3>1. Range(confAfter(t)) = B
        BY <1>1, <1>6, <2>8, ConfMoves DEF B
      <3> QED
        BY <1>11, <3>1
    <2>10. \A l2 \in Range(leaves_temp2') : ActiveOn(l2) = Range(conf')
      BY <2>5, <2>6, <2>8, <2>9
    <2>11. /\ t.source = a /\ MayTake(t, leaf) /\ leaf \in Range(leaves')
           /\ Range(conf') = Range(Chain(Innermost(t.destination)))
      BY <1>6, <1>7, <2>1, <2>9 DEF B
    <2>12. RoundAgrees(a)'
      BY <1>5, <1>6, <1>7, <1>8, <2>10, <2>11 DEF RoundAgrees, MayTake
    <2>13. RoundsAgree'
      BY <1>3, <1>4, <1>7, <2>12 DEF RoundsAgree
    <2> QED
      BY <1>9, <2>7, <2>13 DEF StateInv
  <1> QED
    BY <1>7, <1>10, <1>11

(* The end of a round keeps it: conf is where the paths are.               *)
LEMMA EndRoundState ==
    ASSUME NEW N, PathsTyped(N), StateInv, EndRound
    PROVE  StateInv'
  <1>1. /\ pc = "try" /\ pc' = "enter" /\ leaves_temp2' = << >>
        /\ UNCHANGED <<conf, calls, entering>>
    BY DEF EndRound
  <1>2. entering = << >> /\ \E a \in States : isAtomic(a) /\ RoundAgrees(a)
    BY <1>1 DEF StateInv, RoundsAgree
  <1>3. PICK a \in States : isAtomic(a) /\ RoundAgrees(a)
    BY <1>2
  <1>4. /\ Range(leaves') \subseteq Range(leaves_temp2)
        /\ Range(done') \subseteq Range(done) \cup Range(leaves_temp2)
    BY EndRoundTyped
  <1>5. Range(entering') = {} /\ IsInjective(entering') /\ Range(leaves_temp2') = {}
    BY <1>1, <1>2 DEF Range, IsInjective
  <1>6. /\ \A l \in Range(leaves_temp2) : ActiveOn(l) = Range(conf)
        /\ \E b \in States : isAtomic(b) /\ Range(conf) = Range(Chain(b))
    <2>1. CASE leaves_temp2 = << >> /\ Range(conf) = Range(Chain(a))
      <3>1. Range(leaves_temp2) = {}
        BY <2>1 DEF Range
      <3> QED
        BY <1>3, <2>1, <3>1
    <2>2. ASSUME NEW t \in Transitions,
                 Range(conf) = Range(Chain(Innermost(t.destination))),
                 \A l2 \in Range(leaves_temp2) : ActiveOn(l2) = Range(conf)
          PROVE  /\ \A l \in Range(leaves_temp2) : ActiveOn(l) = Range(conf)
                 /\ \E b \in States : isAtomic(b) /\ Range(conf) = Range(Chain(b))
      <3>1. Innermost(t.destination) \in States /\ isAtomic(Innermost(t.destination))
        BY <2>2, TransitionFacts, InnermostFacts
      <3> QED
        BY <2>2, <3>1
    <2> QED
      BY <1>3, <2>1, <2>2 DEF RoundAgrees
  <1>7. EnteredSoFar'
    BY <1>1, <1>4, <1>5, <1>6 DEF EnteredSoFar
  <1>8. PathsConsistent'
    BY <1>4, <1>5 DEF StateInv, PathsConsistent, Nodes
  <1>9. CalledOnce' /\ RoundsAgree'
    BY <1>1 DEF StateInv, CalledOnce, RoundsAgree
  <1> QED
    BY <1>7, <1>8, <1>9 DEF StateInv

(* Every step keeps it.                                                    *)
LEMMA NextState ==
    ASSUME NEW N, BlocksQuiet(N), DistinctNames, AtomicSources, MaxCalls = 1,
           GuardsExclude, PathsTyped(N), StateInv, [Next]_vars
    PROVE  StateInv'
  <1>1. CASE Start
    BY <1>1, StartState
  <1>2. CASE EnterInitial
    BY <1>2, EnterInitialState
  <1>3. CASE StartRound
    BY <1>3, StartRoundState
  <1>4. CASE Return
    BY <1>4 DEF Return, StateInv, CalledOnce, PathsConsistent, Nodes, EnteredSoFar, RoundsAgree
  <1>5. CASE TryTransition
    BY <1>5, TryTransitionState
  <1>6. CASE EndRound
    BY <1>6, EndRoundState
  <1>7. CASE UNCHANGED vars
    <2>1. /\ UNCHANGED <<CalledOnce, PathsConsistent, EnteredSoFar>>
      BY <1>7 DEF vars, CalledOnce, PathsConsistent, Nodes, EnteredSoFar
    <2>2. UNCHANGED RoundsAgree
      BY <1>7 DEF vars, RoundsAgree, RoundAgrees
    <2> QED
      BY <2>1, <2>2 DEF StateInv
  <1> QED
    BY <1>1, <1>2, <1>3, <1>4, <1>5, <1>6, <1>7 DEF Next, Compute, Finished

(* The invariant holds throughout, as long as guards exclude each other.   *)
LEMMA StateInvHolds ==
    ASSUME NEW N, BlocksQuiet(N), DistinctNames, AtomicSources, MaxCalls = 1
    PROVE  Spec /\ []GuardsExclude => [](PathsTyped(N) /\ StateInv)
  <1>1. Init => PathsTyped(N) /\ StateInv
    BY InitTyped, InitState
  <1>2. (PathsTyped(N) /\ StateInv) /\ GuardsExclude /\ [Next]_vars
            => (PathsTyped(N) /\ StateInv)'
    BY NextTyped, NextState DEF BlocksQuiet
  <1> QED
    BY <1>1, <1>2, PTL DEF Spec

(* The transitions that execute takes on a path fit together, in every chart
   whose states have distinct names and whose transitions leave atomic states,
   when the program calls execute once and the guards of a round exclude each
   other: takeTransition never leaves a state that is not active on the path
   it is given, and never enters one that is, though the transitions are
   looked for in the one set conf.                                         *)
THEOREM TransitionsFitTogether ==
    ASSUME NEW N, BlocksQuiet(N), DistinctNames, AtomicSources, MaxCalls = 1
    PROVE  Spec /\ []GuardsExclude => []PathsConsistent
  <1>1. PathsTyped(N) /\ StateInv => PathsConsistent
    BY DEF StateInv
  <1>2. Spec /\ []GuardsExclude => [](PathsTyped(N) /\ StateInv)
    BY StateInvHolds
  <1> QED
    BY <1>1, <1>2, PTL

(* Under the same conditions conf is right for all live paths at once: between
   two rounds of execute its states are those that are active on each of them,
   and they are an atomic state and its superstates.                       *)
THEOREM ConfIsRightForAllPaths ==
    ASSUME NEW N, BlocksQuiet(N), DistinctNames, AtomicSources, MaxCalls = 1
    PROVE  Spec /\ []GuardsExclude => []LeavesAreConfigurations
  <1>1. ASSUME StateInv PROVE LeavesAreConfigurations
    <2> SUFFICES ASSUME pc = "enter", entering = << >>, NEW leaf \in Range(leaves)
                 PROVE  /\ ActiveOn(leaf) = Range(conf)
                        /\ \E st \in States : isAtomic(st) /\ ActiveOn(leaf) = Range(Chain(st))
      BY DEF LeavesAreConfigurations
    <2>1. Range(entering) = {}
      BY DEF Range
    <2> QED
      BY <1>1, <2>1 DEF StateInv, EnteredSoFar
  <1>2. PathsTyped(N) /\ StateInv => LeavesAreConfigurations
    BY <1>1
  <1>3. Spec /\ []GuardsExclude => [](PathsTyped(N) /\ StateInv)
    BY StateInvHolds
  <1> QED
    BY <1>2, <1>3, PTL

(* A chart in which guards exclude each other whatever they are: at most one
   transition leaves a state.                                              *)
SingleExits == \A t1 \in Transitions, t2 \in Transitions : t1.source = t2.source => t1 = t2

(* In such a chart both hold of execute whatever its guards are and whatever
   the solver answers or fails to answer.                                  *)
THEOREM SingleExitsSuffice ==
    ASSUME NEW N, BlocksQuiet(N), DistinctNames, AtomicSources, MaxCalls = 1, SingleExits
    PROVE  Spec => []PathsConsistent /\ []LeavesAreConfigurations
  <1>1. GuardsExclude
    BY DEF SingleExits, GuardsExclude
  <1>2. /\ Spec /\ []GuardsExclude => []PathsConsistent
        /\ Spec /\ []GuardsExclude => []LeavesAreConfigurations
    BY TransitionsFitTogether, ConfIsRightForAllPaths
  <1> QED
    BY <1>1, <1>2, PTL
=============================================================================

-------------------------- MODULE StatechartProofs --------------------------
(***************************************************************************)
(* Facts about the tree of states: chains, prefixes, the least upper bound *)
(* that Statechart.lub computes, the paths between states, histories and   *)
(* the atomic states they lead to.                                         *)
(***************************************************************************)
EXTENDS Statechart, WellFoundedInduction, FiniteSetTheorems, SequenceTheorems,
        TLAPS

(* A prefix of a name, and the prefix of a prefix.                         *)
LEMMA PrefixFacts ==
    ASSUME NEW S, NEW s \in Seq(S), NEW n \in 0 .. Len(s)
    PROVE  /\ Prefix(s, n) \in Seq(S)
           /\ Len(Prefix(s, n)) = n
           /\ \A i \in 1 .. n : Prefix(s, n)[i] = s[i]
           /\ \A m \in 0 .. n : Prefix(Prefix(s, n), m) = Prefix(s, m)
  BY DEF Prefix

(* A name is its own longest prefix.                                       *)
LEMMA WholePrefix ==
    ASSUME NEW S, NEW s \in Seq(S)
    PROVE  Prefix(s, Len(s)) = s
  BY DEF Prefix

(* A state is a non-empty name, and its prefixes are states.               *)
LEMMA StateFacts ==
    ASSUME NEW s \in States
    PROVE  /\ s \in Seq(Identifiers)
           /\ Len(s) \in Nat \ {0}
           /\ s # NoState
           /\ \A n \in 1 .. Len(s) : Prefix(s, n) \in States
  BY TreeAssumption DEF TreeWellFormed, NoState

(* The chain of a name lists its prefixes, the name itself last.           *)
LEMMA ChainFacts ==
    ASSUME NEW S, NEW s \in Seq(S)
    PROVE  /\ Chain(s) \in Seq(Seq(S))
           /\ Len(Chain(s)) = Len(s)
           /\ \A i \in 1 .. Len(s) : Chain(s)[i] = Prefix(s, i)
           /\ Range(Chain(s)) = {Prefix(s, i) : i \in 1 .. Len(s)}
  <1>1. \A i \in 1 .. Len(s) : Prefix(s, i) \in Seq(S)
    BY PrefixFacts
  <1> QED
    BY <1>1 DEF Chain, Range

(* The superstate of a name: all of it but the last identifier.            *)
LEMMA SuperstateFacts ==
    ASSUME NEW S, NEW s \in Seq(S), s # << >>
    PROVE  /\ getSuperstate(s) \in Seq(S)
           /\ Len(getSuperstate(s)) = Len(s) - 1
           /\ \A m \in 0 .. Len(s) - 1 : Prefix(getSuperstate(s), m) = Prefix(s, m)
  BY PrefixFacts DEF getSuperstate

(* Entering a state extends the chain of its superstate by the state.      *)
LEMMA ChainAppend ==
    ASSUME NEW S, NEW s \in Seq(S), s # << >>
    PROVE  Chain(s) = Append(Chain(getSuperstate(s)), s)
  <1> DEFINE u == getSuperstate(s)
  <1>1. /\ u \in Seq(S) /\ Len(u) = Len(s) - 1
        /\ \A m \in 0 .. Len(s) - 1 : Prefix(u, m) = Prefix(s, m)
    BY SuperstateFacts
  <1>2. /\ Chain(u) \in Seq(Seq(S)) /\ Len(Chain(u)) = Len(s) - 1
        /\ \A i \in 1 .. Len(s) - 1 : Chain(u)[i] = Prefix(s, i)
    BY <1>1, ChainFacts
  <1>3. /\ Chain(s) \in Seq(Seq(S)) /\ Len(Chain(s)) = Len(s)
        /\ \A i \in 1 .. Len(s) : Chain(s)[i] = Prefix(s, i)
    BY ChainFacts
  <1>4. Prefix(s, Len(s)) = s
    BY WholePrefix
  <1> HIDE DEF u
  <1>5. Append(Chain(u), s) \in Seq(Seq(S)) /\ Len(Append(Chain(u), s)) = Len(s)
    BY <1>2
  <1>6. \A i \in 1 .. Len(s) : Append(Chain(u), s)[i] = Chain(s)[i]
    BY <1>2, <1>3, <1>4
  <1>7. Chain(s) = Append(Chain(u), s)
    <2> DEFINE c == Chain(s)
               d == Append(Chain(u), s)
    <2>1. c \in Seq(Seq(S)) /\ d \in Seq(Seq(S)) /\ Len(c) = Len(d)
          /\ \A i \in 1 .. Len(c) : c[i] = d[i]
      BY <1>3, <1>5, <1>6
    <2> HIDE DEF c, d
    <2>2. c = d
      BY <2>1, SeqEqual
    <2> QED
      BY <2>2 DEF c, d
  <1> QED
    BY <1>7 DEF u

(* A bounded, non-empty set of naturals has a greatest element: the one
   above which the fewest of 0 .. b lie.                                   *)
LEMMA MaxExists ==
    ASSUME NEW T, NEW b \in Nat, T \subseteq 0 .. b, T # {}
    PROVE  Max(T) \in T /\ \A k \in T : k <= Max(T)
  <1> DEFINE Above(k) == (k + 1) .. b
             U == {Above(k) : k \in T}
  <1>1. IsFiniteSet(0 .. b)
    BY FS_Interval
  <1>2. IsWellFoundedOn(StrictSubsetOrdering(0 .. b), SUBSET (0 .. b))
    BY <1>1, FS_StrictSubsetOrderingWellFounded, FS_FiniteSubsetsOfFinite
  <1>3. \A k \in T : Above(k) \in SUBSET (0 .. b)
    OBVIOUS
  <1>4. U \subseteq SUBSET (0 .. b) /\ U # {}
    BY <1>3
  <1>5. PICK x \in U : \A y \in U : ~ (<<y, x>> \in StrictSubsetOrdering(0 .. b))
    BY <1>2, <1>4, WFMin
  <1>6. PICK m \in T : x = Above(m)
    BY <1>5
  <1>7. ASSUME NEW k \in T, ~ (k <= m) PROVE FALSE
    <2>1. Above(k) \subseteq Above(m) /\ k \in Above(m) /\ k \notin Above(k)
      BY <1>7
    <2>2. <<Above(k), Above(m)>> \in StrictSubsetOrdering(0 .. b)
      BY <2>1, <1>3 DEF StrictSubsetOrdering
    <2> QED
      BY <2>2, <1>5, <1>6
  <1> QED
    BY <1>7 DEF Max

(* lub answers a proper superstate of both its arguments, if any state at
   all: a prefix they share.                                               *)
LEMMA LubFacts ==
    ASSUME NEW s1 \in States, NEW s2 \in States, lub(s1, s2) # NoState
    PROVE  \E n \in 1 .. Len(s1) - 1 : /\ n <= Len(s2) - 1
                                        /\ lub(s1, s2) = Prefix(s1, n)
                                        /\ lub(s1, s2) = Prefix(s2, n)
  <1> DEFINE a1 == getAllSuperstates(s1)
             a2 == getAllSuperstates(s2)
             popped == {n \in 0 .. Len(a1) : /\ n <= Len(a2)
                                             /\ \A i \in 1 .. n : a1[i] = a2[i]}
             n == Max(popped)
  <1>1. /\ Len(a1) = Len(s1) - 1 /\ Len(a2) = Len(s2) - 1
        /\ \A i \in 1 .. Len(s1) - 1 : a1[i] = Prefix(s1, i)
        /\ \A i \in 1 .. Len(s2) - 1 : a2[i] = Prefix(s2, i)
        /\ Len(s1) \in Nat \ {0} /\ Len(s2) \in Nat \ {0}
    BY StateFacts, SuperstateFacts, ChainFacts DEF getAllSuperstates, NoState
  <1>2. popped \subseteq 0 .. Len(a1) /\ 0 \in popped
    BY <1>1
  <1>3. n \in popped
    <2>1. Len(a1) \in Nat /\ popped # {}
      BY <1>1, <1>2
    <2> HIDE DEF popped, a1, a2
    <2> QED
      BY <2>1, <1>2, MaxExists
  <1>4. lub(s1, s2) = IF n = 0 THEN NoState ELSE a1[n]
    BY DEF lub
  <1>5. n \in 0 .. Len(a1) /\ n <= Len(a2) /\ \A i \in 1 .. n : a1[i] = a2[i]
    BY <1>3
  <1> HIDE DEF n, a1, a2, popped
  <1>6. n # 0 /\ lub(s1, s2) = a1[n]
    BY <1>4
  <1>7. n \in 1 .. Len(s1) - 1 /\ n <= Len(s2) - 1 /\ a1[n] = a2[n]
    BY <1>1, <1>5, <1>6
  <1> QED
    BY <1>1, <1>6, <1>7

(* A transition's least upper bound is the state it is placed in, a proper
   superstate of its source and of its destination.                        *)
LEMMA TransitionFacts ==
    ASSUME NEW tr \in Transitions
    PROVE  /\ tr.source \in States /\ tr.destination \in States
           /\ tr.state \in States
           /\ lub(tr.source, tr.destination) = tr.state
           /\ Len(tr.state) < Len(tr.destination)
           /\ tr.state = Prefix(tr.destination, Len(tr.state))
           /\ Len(tr.state) < Len(tr.source)
           /\ tr.state = Prefix(tr.source, Len(tr.state))
  <1>1. /\ tr.source \in States /\ tr.destination \in States
        /\ lub(tr.source, tr.destination) # NoState
        /\ tr.state = lub(tr.source, tr.destination)
    BY TransitionAssumption DEF TransitionsWellPlaced
  <1>2. PICK n \in 1 .. Len(tr.source) - 1 :
            /\ n <= Len(tr.destination) - 1
            /\ tr.state = Prefix(tr.source, n)
            /\ tr.state = Prefix(tr.destination, n)
    BY <1>1, LubFacts
  <1>3. /\ Len(tr.source) \in Nat \ {0} /\ Len(tr.destination) \in Nat \ {0}
        /\ tr.source \in Seq(Identifiers)
        /\ \A m \in 1 .. Len(tr.source) : Prefix(tr.source, m) \in States
    BY <1>1, StateFacts
  <1>4. n \in 0 .. Len(tr.source) /\ n \in 1 .. Len(tr.source)
    BY <1>2, <1>3
  <1>5. Len(Prefix(tr.source, n)) = n /\ Prefix(tr.source, n) \in States
    BY <1>3, <1>4, PrefixFacts
  <1>6. n < Len(tr.source) /\ n < Len(tr.destination)
    BY <1>2, <1>3
  <1> QED
    <2>1. Len(tr.state) = n /\ tr.state \in States
      BY <1>2, <1>5
    <2> QED
      BY <1>1, <1>2, <2>1, <1>6

(* The path down to a state from one above it.                             *)
LEMMA PathFacts ==
    ASSUME NEW d \in States, NEW top \in States, Len(top) < Len(d)
    PROVE  /\ PathBelow(d, top) \in Seq(States)
           /\ PathBelow(d, top) # << >>
           /\ Len(PathBelow(d, top)) = Len(d) - Len(top)
           /\ \A i \in 1 .. Len(PathBelow(d, top)) :
                  PathBelow(d, top)[i] = Prefix(d, Len(d) - i + 1)
  <1>1. /\ Len(d) \in Nat \ {0} /\ Len(top) \in Nat \ {0}
        /\ \A i \in 1 .. Len(d) : Prefix(d, i) \in States
    BY StateFacts
  <1>2. \A i \in 1 .. Len(d) - Len(top) : Len(d) - i + 1 \in 1 .. Len(d)
    BY <1>1
  <1>3. \A i \in 1 .. Len(d) - Len(top) : Prefix(d, Len(d) - i + 1) \in States
    BY <1>1, <1>2
  <1>4. PICK n \in Nat \ {0} : n = Len(d) - Len(top)
    BY <1>1
  <1>5. PathBelow(d, top) = [i \in 1 .. n |-> Prefix(d, Len(d) - i + 1)]
    BY <1>4 DEF PathBelow
  <1>6. \A i \in 1 .. n : Prefix(d, Len(d) - i + 1) \in States
    BY <1>3, <1>4
  <1>7. PathBelow(d, top) \in [1 .. n -> States]
    BY <1>5, <1>6
  <1>8. PathBelow(d, top) \in Seq(States) /\ Len(PathBelow(d, top)) = n
    BY <1>7
  <1>9. \A i \in 1 .. n : PathBelow(d, top)[i] = Prefix(d, Len(d) - i + 1)
    BY <1>5
  <1> QED
    BY <1>4, <1>8, <1>9

-----------------------------------------------------------------------------
(* Histories and the atomic state they lead to.                            *)

(* A history remembers, for a state, nothing or one of its substates.      *)
Histories ==
    {h \in [States -> States \cup {NoState}] :
        \A s \in States : h[s] # NoState => getSuperstate(h[s]) = s}

(* The substate that is entered with s.                                    *)
Resumed(s, h) == IF s \in HistoryStates /\ h[s] # NoState THEN h[s]
                                                          ELSE Head(states[s])

(* From s, entering resumed substates one after the other ends in leaf.    *)
LeadsTo(s, leaf, h) ==
    /\ isAtomic(leaf)
    /\ Len(s) <= Len(leaf)
    /\ s = Prefix(leaf, Len(s))
    /\ \A n \in Len(s) .. Len(leaf) - 1 :
           Prefix(leaf, n + 1) = Resumed(Prefix(leaf, n), h)

LeavesFrom(s, h) == {leaf \in States : LeadsTo(s, leaf, h)}

(* Entering goes down by one.                                              *)
LEMMA ResumedFacts ==
    ASSUME NEW h \in Histories, NEW s \in States, ~isAtomic(s)
    PROVE  /\ Resumed(s, h) \in States
           /\ getSuperstate(Resumed(s, h)) = s
           /\ Len(Resumed(s, h)) = Len(s) + 1
  <1>1. /\ states[s] \in Seq(States) /\ states[s] # << >>
        /\ Range(states[s]) = {c \in States : getSuperstate(c) = s}
    BY TreeAssumption DEF TreeWellFormed, isAtomic
  <1>2. Head(states[s]) \in Range(states[s])
    BY <1>1 DEF Range
  <1>3. Resumed(s, h) \in States /\ getSuperstate(Resumed(s, h)) = s
    BY <1>1, <1>2 DEF Resumed, Histories
  <1>4. /\ Resumed(s, h) # << >> /\ Resumed(s, h) \in Seq(Identifiers)
        /\ Len(Resumed(s, h)) \in Nat
    BY <1>3, StateFacts DEF NoState
  <1>5. Len(getSuperstate(Resumed(s, h))) = Len(Resumed(s, h)) - 1
    BY <1>4, SuperstateFacts
  <1> QED
    BY <1>3, <1>4, <1>5

(* A state below another has a prefix that is a substate of that one.      *)
LEMMA PrefixSuperstate ==
    ASSUME NEW s \in States, NEW n \in 2 .. Len(s)
    PROVE  Prefix(s, n) \in States /\ getSuperstate(Prefix(s, n)) = Prefix(s, n - 1)
  <1>1. s \in Seq(Identifiers) /\ Len(s) \in Nat
    BY StateFacts
  <1>2. n \in 0 .. Len(s) /\ n \in 1 .. Len(s) /\ n - 1 \in 0 .. n
    BY <1>1
  <1>3. /\ Len(Prefix(s, n)) = n
        /\ \A m \in 0 .. n : Prefix(Prefix(s, n), m) = Prefix(s, m)
    BY <1>1, <1>2, PrefixFacts
  <1>4. getSuperstate(Prefix(s, n)) = Prefix(s, n - 1)
    BY <1>2, <1>3 DEF getSuperstate
  <1> QED
    BY <1>2, <1>4, StateFacts

(* From an atomic state only the state itself is reached.                  *)
LEMMA LeavesOfAtomic ==
    ASSUME NEW h, NEW s \in States, isAtomic(s)
    PROVE  LeavesFrom(s, h) = {s}
  <1>1. s \in Seq(Identifiers) /\ Len(s) \in Nat \ {0} /\ Prefix(s, Len(s)) = s
    BY StateFacts, WholePrefix
  <1>2. LeadsTo(s, s, h)
    BY <1>1 DEF LeadsTo
  <1>3. ASSUME NEW leaf \in States, LeadsTo(s, leaf, h) PROVE leaf = s
    <2>1. /\ leaf \in Seq(Identifiers) /\ Len(leaf) \in Nat
          /\ Prefix(leaf, Len(leaf)) = leaf
          /\ Len(s) <= Len(leaf) /\ s = Prefix(leaf, Len(s))
      BY <1>3, StateFacts, WholePrefix DEF LeadsTo
    <2>2. CASE Len(s) < Len(leaf)
      <3>1. Len(s) + 1 \in 2 .. Len(leaf) /\ (Len(s) + 1) - 1 = Len(s)
        BY <1>1, <2>1, <2>2
      <3>2. /\ Prefix(leaf, Len(s) + 1) \in States
            /\ getSuperstate(Prefix(leaf, Len(s) + 1)) = s
        BY <2>1, <3>1, PrefixSuperstate
      <3>3. Prefix(leaf, Len(s) + 1) \in Range(states[s])
        BY <3>2, TreeAssumption DEF TreeWellFormed
      <3> QED
        BY <3>3 DEF isAtomic, Range
    <2>3. CASE Len(s) = Len(leaf)
      BY <2>1, <2>3
    <2> QED
      BY <1>1, <2>1, <2>2, <2>3
  <1> QED
    BY <1>2, <1>3 DEF LeavesFrom

(* From any other state the same is reached as from the substate entered
   with it.                                                                *)
LEMMA LeavesOfResumed ==
    ASSUME NEW h \in Histories, NEW s \in States, ~isAtomic(s)
    PROVE  LeavesFrom(s, h) = LeavesFrom(Resumed(s, h), h)
  <1> DEFINE c == Resumed(s, h)
             k == Len(s)
  <1>1. c \in States /\ getSuperstate(c) = s /\ Len(c) = k + 1
    BY ResumedFacts
  <1>2. k \in Nat \ {0} /\ s \in Seq(Identifiers) /\ c \in Seq(Identifiers)
    BY <1>1, StateFacts
  <1> SUFFICES ASSUME NEW leaf \in States
               PROVE  LeadsTo(s, leaf, h) <=> LeadsTo(c, leaf, h)
    BY DEF LeavesFrom
  <1>3. leaf \in Seq(Identifiers) /\ Len(leaf) \in Nat /\ Prefix(leaf, Len(leaf)) = leaf
    BY StateFacts, WholePrefix
  <1> HIDE DEF c, k
  <1>4. ASSUME LeadsTo(s, leaf, h) PROVE LeadsTo(c, leaf, h)
    <2>1. /\ isAtomic(leaf) /\ k <= Len(leaf) /\ s = Prefix(leaf, k)
          /\ \A n \in k .. Len(leaf) - 1 :
                 Prefix(leaf, n + 1) = Resumed(Prefix(leaf, n), h)
      BY <1>4 DEF LeadsTo, k
    <2>2. k # Len(leaf)
      BY <1>3, <2>1
    <2>3. k \in k .. Len(leaf) - 1 /\ k + 1 <= Len(leaf)
      BY <1>2, <1>3, <2>1, <2>2
    <2>4. Prefix(leaf, k + 1) = c
      BY <2>1, <2>3 DEF c
    <2>5. \A n \in k + 1 .. Len(leaf) - 1 : n \in k .. Len(leaf) - 1
      BY <1>2, <1>3
    <2> QED
      BY <1>1, <2>1, <2>3, <2>4, <2>5 DEF LeadsTo
  <1>5. ASSUME LeadsTo(c, leaf, h) PROVE LeadsTo(s, leaf, h)
    <2>1. /\ isAtomic(leaf) /\ k + 1 <= Len(leaf) /\ c = Prefix(leaf, k + 1)
          /\ \A n \in k + 1 .. Len(leaf) - 1 :
                 Prefix(leaf, n + 1) = Resumed(Prefix(leaf, n), h)
      BY <1>1, <1>5 DEF LeadsTo
    <2>2. k + 1 \in 2 .. Len(leaf) /\ (k + 1) - 1 = k
      BY <1>2, <1>3, <2>1
    <2>3. s = Prefix(leaf, k)
      BY <1>1, <2>1, <2>2, PrefixSuperstate
    <2>4. Prefix(leaf, k + 1) = Resumed(Prefix(leaf, k), h)
      BY <2>1, <2>3 DEF c
    <2>5. \A n \in k .. Len(leaf) - 1 : n = k \/ n \in k + 1 .. Len(leaf) - 1
      BY <1>2, <1>3
    <2> QED
      BY <1>2, <1>3, <2>1, <2>3, <2>4, <2>5 DEF LeadsTo, k
  <1> QED
    BY <1>4, <1>5 DEF c

(* The recursion of AtomicBelow has a solution, so AtomicBelow satisfies its
   own equation: an atomic state leads to itself, any other state where the
   substate entered with it leads.                                         *)
LEMMA AtomicBelowEquation ==
    ASSUME NEW h \in Histories, NEW s \in States
    PROVE  AtomicBelow(s, h) = IF isAtomic(s) THEN s
                               ELSE AtomicBelow(Resumed(s, h), h)
  <1> DEFINE F(f) == [x \in States |->
                         IF isAtomic(x) THEN x
                         ELSE IF x \in HistoryStates /\ h[x] # NoState THEN f[h[x]]
                         ELSE f[Head(states[x])]]
             atomic == CHOOSE f : f = F(f)
             g == [x \in States |-> CHOOSE leaf : leaf \in LeavesFrom(x, h)]
  <1>1. \A x : AtomicBelow(x, h) = atomic[x]
    BY DEF AtomicBelow
  <1>2. ASSUME NEW x \in States, isAtomic(x) PROVE g[x] = x
    <2>1. LeavesFrom(x, h) = {x}
      BY <1>2, LeavesOfAtomic
    <2> QED
      BY <2>1
  <1>3. ASSUME NEW x \in States, ~isAtomic(x)
        PROVE  Resumed(x, h) \in States /\ g[x] = g[Resumed(x, h)]
    <2>1. Resumed(x, h) \in States
      BY <1>3, ResumedFacts
    <2>2. LeavesFrom(x, h) = LeavesFrom(Resumed(x, h), h)
      BY <1>3, LeavesOfResumed
    <2> QED
      BY <2>1, <2>2
  <1>4. g = F(g)
    <2>1. \A x \in States : g[x] = F(g)[x]
      <3> HIDE DEF g
      <3> QED
        BY <1>2, <1>3 DEF Resumed
    <2>2. g = [x \in States |-> g[x]] /\ F(g) = [x \in States |-> F(g)[x]]
      OBVIOUS
    <2> HIDE DEF g, F
    <2> QED
      BY <2>1, <2>2
  <1>5. atomic = F(atomic)
    <2> HIDE DEF F, g
    <2> QED
      BY <1>4
  <1> HIDE DEF atomic
  <1>6. atomic[s] = IF isAtomic(s) THEN s ELSE atomic[Resumed(s, h)]
    BY <1>5 DEF Resumed
  <1> QED
    BY <1>1, <1>6

(* What AtomicBelow answers is an atomic state that entering the substates
   from s on ends in.  Were it not so for some state, take one with as few
   states below it as possible: it has a substate to go on with, for which it
   is not so either, and which has fewer states below it.                  *)
LEMMA AtomicBelowReached ==
    ASSUME NEW h \in Histories, NEW s \in States
    PROVE  AtomicBelow(s, h) \in LeavesFrom(s, h)
  <1> DEFINE Below(x) == {y \in States : Len(x) < Len(y) /\ x = Prefix(y, Len(x))}
             Wrong == {x \in States : AtomicBelow(x, h) \notin LeavesFrom(x, h)}
             U == {Below(x) : x \in Wrong}
  <1> SUFFICES ASSUME Wrong # {} PROVE FALSE
    OBVIOUS
  <1>1. IsFiniteSet(States)
    BY TreeAssumption DEF TreeWellFormed
  <1>2. IsWellFoundedOn(StrictSubsetOrdering(States), SUBSET States)
    BY <1>1, FS_StrictSubsetOrderingWellFounded, FS_FiniteSubsetsOfFinite
  <1>3. \A x \in States : Below(x) \in SUBSET States
    OBVIOUS
  <1>4. U \subseteq SUBSET States /\ U # {}
    <2>1. Wrong \subseteq States
      OBVIOUS
    <2> HIDE DEF Below, Wrong
    <2> QED
      BY <1>3, <2>1
  <1>5. PICK u \in U : \A v \in U : ~ (<<v, u>> \in StrictSubsetOrdering(States))
    BY <1>2, <1>4, WFMin
  <1>6. PICK x \in Wrong : u = Below(x)
    BY <1>5
  <1>7. ~isAtomic(x)
    BY <1>6, AtomicBelowEquation, LeavesOfAtomic
  <1> DEFINE c == Resumed(x, h)
  <1>8. c \in States /\ getSuperstate(c) = x /\ Len(c) = Len(x) + 1
    BY <1>6, <1>7, ResumedFacts
  <1>9. c \in Wrong
    BY <1>6, <1>7, <1>8, AtomicBelowEquation, LeavesOfResumed
  <1>10. /\ x \in Seq(Identifiers) /\ Len(x) \in Nat \ {0}
         /\ c \in Seq(Identifiers) /\ Prefix(c, Len(c)) = c
    BY <1>6, <1>8, StateFacts, WholePrefix
  <1> HIDE DEF c
  <1>11. c \in Below(x) /\ c \notin Below(c)
    <2>1. Prefix(c, Len(x)) = x
      BY <1>8, <1>10 DEF getSuperstate
    <2> QED
      BY <1>8, <1>10, <2>1
  <1>12. Below(c) \subseteq Below(x)
    <2> SUFFICES ASSUME NEW y \in States, Len(c) < Len(y), c = Prefix(y, Len(c))
                 PROVE  Len(x) < Len(y) /\ x = Prefix(y, Len(x))
      OBVIOUS
    <2>1. Len(y) \in Nat
      BY StateFacts
    <2>2. Len(c) \in 2 .. Len(y) /\ Len(c) - 1 = Len(x) /\ Len(x) < Len(y)
      BY <1>8, <1>10, <2>1
    <2>3. getSuperstate(Prefix(y, Len(c))) = Prefix(y, Len(c) - 1)
      BY <2>2, PrefixSuperstate
    <2> QED
      BY <1>8, <2>2, <2>3
  <1>13. <<Below(c), Below(x)>> \in StrictSubsetOrdering(States)
    <2>1. Below(c) \in SUBSET States /\ Below(x) \in SUBSET States
      OBVIOUS
    <2>2. Below(c) # Below(x)
      BY <1>11
    <2> HIDE DEF Below
    <2> QED
      BY <1>12, <2>1, <2>2 DEF StrictSubsetOrdering
  <1> HIDE DEF Below, Wrong
  <1> QED
    BY <1>5, <1>6, <1>9, <1>13

-----------------------------------------------------------------------------
(* The history once states are left.                                       *)

(* The states performTransition leaves on its way up to top.               *)
LEMMA LeftStates ==
    ASSUME NEW s \in States, NEW top \in States
    PROVE  Range(PathBelow(s, top)) = {Prefix(s, n) : n \in Len(top) + 1 .. Len(s)}
  <1>1. Len(s) \in Nat \ {0} /\ Len(top) \in Nat \ {0}
    BY StateFacts
  <1>2. \A i \in 1 .. Len(s) - Len(top) : Len(s) - i + 1 \in Len(top) + 1 .. Len(s)
    BY <1>1
  <1>3. ASSUME NEW n \in Len(top) + 1 .. Len(s)
        PROVE  \E i \in 1 .. Len(s) - Len(top) : Len(s) - i + 1 = n
    <2>1. /\ Len(s) - n + 1 \in 1 .. Len(s) - Len(top)
          /\ Len(s) - (Len(s) - n + 1) + 1 = n
      BY <1>1
    <2> QED
      BY <2>1
  <1>4. Range(PathBelow(s, top))
            = {Prefix(s, Len(s) - i + 1) : i \in 1 .. Len(s) - Len(top)}
    BY DEF Range, PathBelow
  <1> QED
    BY <1>2, <1>3, <1>4

(* Nothing is left when the loop starts at top.                            *)
LEMMA NothingLeft ==
    ASSUME NEW top \in States, NEW h \in Histories
    PROVE  HistoryAfterLeaving(top, top, h) = h
  <1>1. Range(PathBelow(top, top)) = {}
    <2>1. Len(top) \in Nat
      BY StateFacts
    <2> QED
      BY <2>1, LeftStates
  <1> QED
    BY <1>1 DEF HistoryAfterLeaving, Histories

(* Leaving s and then, from its superstate, the states up to top is leaving
   all of them: exitState may set the history one state at a time.         *)
LEMMA LeavingInSteps ==
    ASSUME NEW s \in States, NEW top \in States, NEW h \in Histories,
           Len(top) < Len(s), top = Prefix(s, Len(top))
    PROVE  HistoryAfterLeaving(getSuperstate(s), top,
                               [h EXCEPT ![getSuperstate(s)] = s])
               = HistoryAfterLeaving(s, top, h)
  <1> DEFINE u == getSuperstate(s)
             h1 == [h EXCEPT ![u] = s]
             L == Range(PathBelow(s, top))
             M == Range(PathBelow(u, top))
  <1>1. /\ s \in Seq(Identifiers) /\ Len(s) \in Nat \ {0} /\ s # << >>
        /\ Len(top) \in Nat \ {0} /\ Prefix(s, Len(s)) = s
    BY StateFacts, WholePrefix DEF NoState
  <1>2. Len(s) \in 2 .. Len(s) /\ Len(s) - 1 \in 1 .. Len(s)
    BY <1>1
  <1>3. /\ u \in States /\ Len(u) = Len(s) - 1
        /\ \A m \in 0 .. Len(s) - 1 : Prefix(u, m) = Prefix(s, m)
    BY <1>1, <1>2, StateFacts, SuperstateFacts DEF getSuperstate
  <1>4. \A n \in Len(top) + 1 .. Len(s) :
            Len(getSuperstate(Prefix(s, n))) = n - 1
    <2> SUFFICES ASSUME NEW n \in Len(top) + 1 .. Len(s)
                 PROVE  Len(getSuperstate(Prefix(s, n))) = n - 1
      OBVIOUS
    <2>1. n \in 2 .. Len(s) /\ n - 1 \in 0 .. Len(s)
      BY <1>1
    <2>2. getSuperstate(Prefix(s, n)) = Prefix(s, n - 1)
      BY <2>1, PrefixSuperstate
    <2>3. Len(Prefix(s, n - 1)) = n - 1
      BY <1>1, <2>1, PrefixFacts
    <2> QED
      BY <2>2, <2>3
  <1>5. L = {Prefix(s, n) : n \in Len(top) + 1 .. Len(s)}
    BY LeftStates
  <1>6. M = {Prefix(s, n) : n \in Len(top) + 1 .. Len(s) - 1}
    <2>1. M = {Prefix(u, n) : n \in Len(top) + 1 .. Len(u)}
      BY <1>3, LeftStates
    <2>2. \A n \in Len(top) + 1 .. Len(s) - 1 : Prefix(u, n) = Prefix(s, n)
      BY <1>1, <1>3
    <2> HIDE DEF M, u
    <2> QED
      BY <1>3, <2>1, <2>2
  <1>7. s \in L /\ \A c \in L : c \in M \/ c = s
    <2>1. Len(s) \in Len(top) + 1 .. Len(s)
      BY <1>1
    <2>2. \A n \in Len(top) + 1 .. Len(s) : n \in Len(top) + 1 .. Len(s) - 1 \/ n = Len(s)
      BY <1>1
    <2> HIDE DEF L, M
    <2> QED
      BY <1>1, <1>5, <1>6, <2>1, <2>2
  <1>8. M \subseteq L
    <2>1. \A n \in Len(top) + 1 .. Len(s) - 1 : n \in Len(top) + 1 .. Len(s)
      BY <1>1
    <2> HIDE DEF L, M
    <2> QED
      BY <1>5, <1>6, <2>1
  <1>9. ASSUME NEW c \in L, NEW d \in L, getSuperstate(c) = getSuperstate(d)
        PROVE  c = d
    <2>1. PICK n \in Len(top) + 1 .. Len(s) : c = Prefix(s, n)
      BY <1>5
    <2>2. PICK m \in Len(top) + 1 .. Len(s) : d = Prefix(s, m)
      BY <1>5
    <2>3. n - 1 = m - 1
      BY <1>4, <1>9, <2>1, <2>2
    <2>4. n = m
      BY <1>1, <2>3
    <2> QED
      BY <2>1, <2>2, <2>4
  <1>10. \A c \in M : getSuperstate(c) # u
    <2> SUFFICES ASSUME NEW c \in M PROVE Len(getSuperstate(c)) # Len(u)
      OBVIOUS
    <2>1. PICK n \in Len(top) + 1 .. Len(s) - 1 : c = Prefix(s, n)
      BY <1>6
    <2>2. Len(getSuperstate(c)) = n - 1 /\ n - 1 # Len(s) - 1
      BY <1>1, <1>4, <2>1
    <2> QED
      BY <1>3, <2>2
  <1> HIDE DEF L, M
  <1>11. ASSUME NEW x \in States
         PROVE  (IF \E c \in M : getSuperstate(c) = x
                 THEN CHOOSE c \in M : getSuperstate(c) = x ELSE h1[x])
                = (IF \E c \in L : getSuperstate(c) = x
                   THEN CHOOSE c \in L : getSuperstate(c) = x ELSE h[x])
    <2>1. CASE x = u
      <3>1. h1[x] = s
        BY <1>3, <2>1 DEF Histories
      <3>2. (CHOOSE c \in L : getSuperstate(c) = x) = s
        BY <1>7, <1>9, <2>1
      <3> QED
        BY <1>7, <1>10, <2>1, <3>1, <3>2
    <2>2. CASE x # u
      <3>1. h1[x] = h[x]
        BY <2>2 DEF Histories
      <3>2. \A c \in L : getSuperstate(c) = x => c \in M
        BY <1>7, <2>2
      <3>3. CASE \E c \in M : getSuperstate(c) = x
        <4>1. PICK c \in M : getSuperstate(c) = x
          BY <3>3
        <4>2. (CHOOSE d \in M : getSuperstate(d) = x) = c
          BY <1>8, <1>9, <4>1
        <4>3. (CHOOSE d \in L : getSuperstate(d) = x) = c
          BY <1>8, <1>9, <4>1
        <4> QED
          BY <1>8, <4>1, <4>2, <4>3
      <3>4. CASE ~ \E c \in M : getSuperstate(c) = x
        BY <3>1, <3>2, <3>4
      <3> QED
        BY <3>3, <3>4
    <2> QED
      BY <2>1, <2>2
  <1>12. HistoryAfterLeaving(u, top, h1) = HistoryAfterLeaving(s, top, h)
    <2> HIDE DEF u, h1
    <2> QED
      BY <1>11 DEF HistoryAfterLeaving, L, M
  <1> QED
    BY <1>12

(* Leaving states turns a history into a history.                          *)
LEMMA LeavingKeepsHistories ==
    ASSUME NEW s \in States, NEW top \in States, NEW h \in Histories
    PROVE  HistoryAfterLeaving(s, top, h) \in Histories
  <1> DEFINE L == Range(PathBelow(s, top))
             H(x) == IF \E c \in L : getSuperstate(c) = x
                     THEN CHOOSE c \in L : getSuperstate(c) = x ELSE h[x]
  <1>1. L \subseteq States
    <2>1. Len(s) \in Nat /\ Len(top) \in Nat
      BY StateFacts
    <2>2. \A n \in Len(top) + 1 .. Len(s) : n \in 1 .. Len(s)
      BY <2>1
    <2> QED
      BY <2>2, LeftStates, StateFacts
  <1>2. HistoryAfterLeaving(s, top, h) = [x \in States |-> H(x)]
    BY DEF HistoryAfterLeaving
  <1>3. ASSUME NEW x \in States
        PROVE  /\ H(x) \in States \cup {NoState}
               /\ H(x) # NoState => getSuperstate(H(x)) = x
    <2> HIDE DEF L
    <2> QED
      BY <1>1 DEF Histories
  <1> HIDE DEF H
  <1> QED
    BY <1>2, <1>3 DEF Histories
=============================================================================

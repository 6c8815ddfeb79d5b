--------------------------- MODULE VariableProofs ---------------------------
(***************************************************************************)
(* Values of variables against the configuration: locals exist while their *)
(* state is active, statics are kept while it is not.  For charts in which *)
(* enterState never throws and statements assign what is in their scope.   *)
(***************************************************************************)
EXTENDS ConfigurationProofs

-----------------------------------------------------------------------------
(* The inductive invariant.                                                *)

(* The states performTransition is about to enter.  The action may already
   have assigned their variables, which enterState will overwrite.         *)
Pending == IF pc = "enter" THEN Range(path) ELSE {}

LocalsLive(s) ==
    \A d \in Scoped(s, "local") :
        valueEnvironment[d] # Absent <=> presentInConfiguration(s)

StaticsKept(s) ==
    \A d \in Scoped(s, "static") :
        ~presentInConfiguration(s) /\ valueHistory[s] # NoHistory
            => Got(valueEnvironment[d]) = valueHistory[s][d]

VariableInv ==
    pc # "stopped" =>
        \A s \in States \ Pending : LocalsLive(s) /\ StaticsKept(s)

-----------------------------------------------------------------------------
(* Declarations and the states that have them.                             *)

(* A declaration belongs to one state and has one scope.                   *)
LEMMA OwnerFacts ==
    ASSUME NEW s \in States, NEW sc, NEW d \in Scoped(s, sc)
    PROVE  /\ d \in Declarations /\ d \in Declared(s) /\ scope[d] = sc
           /\ \A s2 \in States : d \in Declared(s2) => s2 = s
  <1>1. d \in Declared(s) /\ scope[d] = sc
    BY DEF Scoped
  <1>2. d \in Declarations
    BY <1>1, DeclaredType
  <1> QED
    BY <1>1, <1>2, DeclarationAssumption DEF DeclarationsWellFormed

(* The variables of a state and its superstates.                           *)
LEMMA EnvironmentOwner ==
    ASSUME NEW s, s = << >> \/ s \in States,
           NEW x \in States, NEW sc, NEW d \in Scoped(x, sc),
           d \in getEnvironment(s)
    PROVE  x \in Range(Chain(s))
  <1>1. PICK a \in Range(Chain(s)) : d \in Declared(a)
    BY DEF getEnvironment
  <1>2. a \in States
    <2>1. CASE s \in States
      <3>1. s \in Seq(Identifiers) /\ \A n \in 1 .. Len(s) : Prefix(s, n) \in States
        BY <2>1, StateFacts
      <3> QED
        BY <1>1, <3>1, ChainFacts
    <2>2. CASE s = << >>
      <3>1. s \in Seq(Identifiers) /\ Len(s) = 0
        BY <2>2
      <3>2. Range(Chain(s)) = {Prefix(s, i) : i \in 1 .. Len(s)}
        BY <3>1, ChainFacts
      <3>3. Range(Chain(s)) = {}
        BY <3>1, <3>2
      <3> QED
        BY <1>1, <3>3
    <2> QED
      BY <2>1, <2>2
  <1> QED
    BY <1>1, <1>2, OwnerFacts

(* Which states are active after a state is entered, or left.              *)
LEMMA ChainMembers ==
    ASSUME NEW s \in States
    PROVE  /\ s \in Range(Chain(s))
           /\ s \notin Range(Chain(getSuperstate(s)))
           /\ \A x : x # s => (x \in Range(Chain(s))
                                   <=> x \in Range(Chain(getSuperstate(s))))
  <1> DEFINE u == getSuperstate(s)
  <1>1. /\ s \in Seq(Identifiers) /\ s # << >> /\ Len(s) \in Nat \ {0}
        /\ u \in Seq(Identifiers) /\ Len(u) = Len(s) - 1
        /\ \A m \in 0 .. Len(s) - 1 : Prefix(u, m) = Prefix(s, m)
        /\ Prefix(s, Len(s)) = s
    BY StateFacts, SuperstateFacts, WholePrefix DEF NoState
  <1>2. \A n \in 0 .. Len(s) : Len(Prefix(s, n)) = n
    BY <1>1, PrefixFacts
  <1>3. /\ Range(Chain(s)) = {Prefix(s, i) : i \in 1 .. Len(s)}
        /\ Range(Chain(u)) = {Prefix(u, i) : i \in 1 .. Len(u)}
    BY <1>1, ChainFacts
  <1> HIDE DEF u
  <1>4. Range(Chain(u)) = {Prefix(s, i) : i \in 1 .. Len(s) - 1}
    <2>1. \A i \in 1 .. Len(u) : Prefix(u, i) = Prefix(s, i)
      BY <1>1
    <2> QED
      BY <1>1, <1>3, <2>1
  <1>5. Range(Chain(s)) = Range(Chain(u)) \cup {s}
    <2>1. 1 .. Len(s) = (1 .. Len(s) - 1) \cup {Len(s)}
      BY <1>1
    <2> QED
      BY <1>1, <1>3, <1>4, <2>1
  <1>6. s \notin Range(Chain(u))
    <2> SUFFICES ASSUME NEW i \in 1 .. Len(s) - 1, s = Prefix(s, i) PROVE FALSE
      BY <1>4
    <2>1. Len(Prefix(s, i)) = i
      BY <1>1, <1>2
    <2> QED
      BY <1>1, <2>1
  <1> QED
    BY <1>5, <1>6 DEF u

-----------------------------------------------------------------------------
(* What entering and leaving a state does.                                 *)

(* A state is entered and its entry statement executed.                    *)
LEMMA EnterVariables ==
    ASSUME FullInv, StatementsRespectScope, NEW s \in States, NEW P,
           configuration = Chain(getSuperstate(s)),
           \A x \in States \ P : x # s => LocalsLive(x) /\ StaticsKept(x),
           configuration' = enteredConfiguration(s),
           NEW o \in Execute(entry[s], enteredEnvironment(s)),
           valueEnvironment' = o.env, UNCHANGED valueHistory
    PROVE  \A x \in States \ P : LocalsLive(x)' /\ StaticsKept(x)'
  <1> DEFINE E == enteredEnvironment(s)
  <1>1. /\ E \in Environments /\ TypeOK
        /\ AssignsOnly(getEnvironment(s), E, o.env)
    BY EnteredType DEF FullInv, Inv, StatementsRespectScope
  <1>2. Reached(s) = Declared(s)
    BY NeverThrows DEF FullInv, Reached
  <1>3. \A d \in Declarations : d \notin Declared(s) => E[d] = valueEnvironment[d]
    BY <1>2 DEF enteredEnvironment
  <1>4. \A d \in Scoped(s, "local") : E[d] = Null
    BY <1>2, OwnerFacts DEF enteredEnvironment
  <1>5. configuration' = Chain(s)
    BY ChainPush
  <1> HIDE DEF E
  <1>6. ASSUME NEW x \in States \ P PROVE LocalsLive(x)'
    <2> SUFFICES ASSUME NEW d \in Scoped(x, "local")
                 PROVE  o.env[d] # Absent <=> x \in Range(Chain(s))
      BY <1>5 DEF LocalsLive, presentInConfiguration
    <2>1. d \in Declarations /\ \A s2 \in States : d \in Declared(s2) => s2 = x
      BY OwnerFacts
    <2>2. o.env[d] # E[d] => x \in Range(Chain(s)) /\ o.env[d] # Absent
      BY <1>1, <2>1, EnvironmentOwner DEF AssignsOnly
    <2>3. CASE x = s
      BY <1>4, <2>2, <2>3, ChainMembers, NullAssumption
    <2>4. CASE x # s
      <3>1. E[d] = valueEnvironment[d]
        BY <1>3, <2>1, <2>4
      <3>2. E[d] # Absent <=> x \in Range(Chain(getSuperstate(s)))
        BY <3>1, <2>4 DEF LocalsLive, presentInConfiguration
      <3> QED
        BY <2>2, <2>4, <3>2, ChainMembers
    <2> QED
      BY <2>3, <2>4
  <1>7. ASSUME NEW x \in States \ P PROVE StaticsKept(x)'
    <2> SUFFICES ASSUME NEW d \in Scoped(x, "static"), x \notin Range(Chain(s)),
                        valueHistory[x] # NoHistory
                 PROVE  Got(o.env[d]) = valueHistory[x][d]
      BY <1>5 DEF StaticsKept, presentInConfiguration
    <2>1. d \in Declarations /\ \A s2 \in States : d \in Declared(s2) => s2 = x
      BY OwnerFacts
    <2>2. o.env[d] = E[d]
      BY <1>1, <2>1, EnvironmentOwner DEF AssignsOnly
    <2>3. x # s /\ x \notin Range(Chain(getSuperstate(s)))
      BY ChainMembers
    <2>4. E[d] = valueEnvironment[d]
      BY <1>3, <2>1, <2>3
    <2> QED
      BY <2>2, <2>3, <2>4 DEF StaticsKept, presentInConfiguration
  <1> QED
    BY <1>6, <1>7

(* The innermost active state is left after its exit statement.            *)
LEMMA ExitVariables ==
    ASSUME FullInv, StatementsRespectScope, NEW s \in States,
           configuration = Chain(s), Nested(configuration, s),
           \A x \in States : LocalsLive(x) /\ StaticsKept(x),
           configuration' = exitedConfiguration(s),
           NEW o \in Execute(exit[s], valueEnvironment),
           valueEnvironment' = exitedEnvironment(s, o.env),
           valueHistory' = exitedValueHistory(s, o.env)
    PROVE  \A x \in States : LocalsLive(x)' /\ StaticsKept(x)'
  <1>1. /\ valueEnvironment \in Environments /\ configuration \in Seq(States)
        /\ valueHistory \in [States -> SavedValues \cup {NoHistory}]
        /\ AssignsOnly(getEnvironment(s), valueEnvironment, o.env)
    BY DEF FullInv, Inv, TypeOK, StatementsRespectScope
  <1>2. configuration' = Chain(getSuperstate(s))
    BY <1>1, ChainPop
  <1>3. ASSUME NEW x \in States PROVE LocalsLive(x)'
    <2> SUFFICES ASSUME NEW d \in Scoped(x, "local")
                 PROVE  valueEnvironment'[d] # Absent
                            <=> x \in Range(Chain(getSuperstate(s)))
      BY <1>2 DEF LocalsLive, presentInConfiguration
    <2>1. d \in Declarations /\ \A s2 \in States : d \in Declared(s2) => s2 = x
      BY OwnerFacts
    <2>2. CASE x = s
      BY <2>1, <2>2, ChainMembers DEF exitedEnvironment
    <2>3. CASE x # s
      <3>1. valueEnvironment'[d] = o.env[d]
        BY <2>1, <2>3 DEF exitedEnvironment, Scoped
      <3>2. valueEnvironment[d] # Absent <=> x \in Range(Chain(s))
        BY DEF LocalsLive, presentInConfiguration
      <3>3. o.env[d] # valueEnvironment[d]
                => x \in Range(Chain(s)) /\ o.env[d] # Absent
        BY <1>1, <2>1, EnvironmentOwner DEF AssignsOnly
      <3> QED
        BY <2>3, <3>1, <3>2, <3>3, ChainMembers
    <2> QED
      BY <2>2, <2>3
  <1>4. ASSUME NEW x \in States PROVE StaticsKept(x)'
    <2> SUFFICES ASSUME NEW d \in Scoped(x, "static"),
                        x \notin Range(Chain(getSuperstate(s))),
                        valueHistory'[x] # NoHistory
                 PROVE  Got(valueEnvironment'[d]) = valueHistory'[x][d]
      BY <1>2 DEF StaticsKept, presentInConfiguration
    <2>1. /\ d \in Declarations /\ scope[d] = "static" /\ d \in Declared(x)
          /\ \A s2 \in States : d \in Declared(s2) => s2 = x
      BY OwnerFacts
    <2>2. valueEnvironment'[d] = o.env[d]
      BY <2>1 DEF exitedEnvironment, Scoped
    <2>3. CASE x = s
      <3>1. Declared(s) # {}
        BY <2>1, <2>3
      <3>2. valueHistory'[s] = [d1 \in Declarations |->
                                   IF d1 \in Declared(s) THEN Got(o.env[d1]) ELSE Null]
        BY <1>1, <3>1 DEF exitedValueHistory
      <3> QED
        BY <2>1, <2>2, <2>3, <3>2
    <2>4. CASE x # s
      <3>1. x \notin Range(Chain(s))
        BY <2>4, ChainMembers
      <3>2. o.env[d] = valueEnvironment[d]
        BY <1>1, <2>1, <3>1, EnvironmentOwner DEF AssignsOnly
      <3>3. valueHistory'[x] = valueHistory[x]
        BY <1>1, <2>4 DEF exitedValueHistory
      <3> QED
        BY <2>2, <3>1, <3>2, <3>3 DEF StaticsKept, presentInConfiguration
    <2> QED
      BY <2>3, <2>4
  <1> QED
    BY <1>3, <1>4

(* The action: what it assigns to inactive states is assigned to states it
   is about to enter.                                                      *)
LEMMA ActionVariables ==
    ASSUME FullInv, StatementsRespectScope, t \in Transitions,
           configuration = Chain(t.state),
           \A x \in States : LocalsLive(x) /\ StaticsKept(x),
           NEW o \in Execute(t.action, valueEnvironment),
           valueEnvironment' = o.env, UNCHANGED <<configuration, valueHistory>>
    PROVE  \A x \in States \ Range(PathBelow(t.destination, t.state)) :
               LocalsLive(x)' /\ StaticsKept(x)'
  <1> DEFINE dst == t.destination
             top == t.state
             P == Range(PathBelow(t.destination, t.state))
  <1>1. AssignsOnly(getWriteEnvironment(t), valueEnvironment, o.env)
    BY DEF FullInv, Inv, TypeOK, StatementsRespectScope
  <1>2. /\ dst \in States /\ top \in States
        /\ Len(top) < Len(dst) /\ top = Prefix(dst, Len(top))
    BY TransitionFacts
  <1>3. /\ dst \in Seq(Identifiers) /\ Len(dst) \in Nat \ {0} /\ dst # << >>
        /\ top \in Seq(Identifiers) /\ Len(top) \in Nat \ {0}
    BY <1>2, StateFacts DEF NoState
  <1>4. /\ getSuperstate(dst) \in Seq(Identifiers)
        /\ Len(getSuperstate(dst)) = Len(dst) - 1
        /\ \A m \in 0 .. Len(dst) - 1 : Prefix(getSuperstate(dst), m) = Prefix(dst, m)
    BY <1>3, SuperstateFacts
  <1>5. getSuperstate(dst) \in States
    <2>1. Len(dst) - 1 \in 1 .. Len(dst)
      BY <1>2, <1>3
    <2> QED
      BY <1>2, <2>1, StateFacts DEF getSuperstate
  <1>6. ASSUME NEW x \in Range(Chain(getSuperstate(dst)))
        PROVE  x \in P \/ x \in Range(Chain(top))
    <2>1. PICK n \in 1 .. Len(dst) - 1 : x = Prefix(dst, n)
      <3>1. Range(Chain(getSuperstate(dst)))
                = {Prefix(getSuperstate(dst), i) : i \in 1 .. Len(dst) - 1}
        BY <1>4, ChainFacts
      <3>2. PICK i \in 1 .. Len(dst) - 1 : x = Prefix(getSuperstate(dst), i)
        BY <3>1
      <3>3. i \in 0 .. Len(dst) - 1
        BY <3>2
      <3> QED
        BY <1>4, <3>2, <3>3
    <2>2. CASE n <= Len(top)
      <3>1. Len(top) \in 0 .. Len(dst) /\ n \in 0 .. Len(top)
        BY <1>2, <1>3, <2>1, <2>2
      <3>2. Prefix(Prefix(dst, Len(top)), n) = Prefix(dst, n)
        BY <1>3, <3>1, PrefixFacts
      <3>3. x = Prefix(top, n) /\ n \in 1 .. Len(top)
        BY <1>2, <1>3, <2>1, <2>2, <3>2
      <3> QED
        BY <1>3, <3>3, ChainFacts
    <2>3. CASE ~(n <= Len(top))
      <3> DEFINE p == PathBelow(dst, top)
                 i == Len(dst) - n + 1
      <3>1. /\ p \in Seq(States) /\ Len(p) = Len(dst) - Len(top)
            /\ \A j \in 1 .. Len(p) : p[j] = Prefix(dst, Len(dst) - j + 1)
        BY <1>2, PathFacts
      <3>2. i \in 1 .. Len(dst) - Len(top) /\ Len(dst) - i + 1 = n
        <4> HIDE DEF dst, top
        <4> QED
          BY <1>3, <2>1, <2>3
      <3> HIDE DEF p, i
      <3>3. p[i] = x
        BY <2>1, <3>1, <3>2
      <3>4. i \in DOMAIN p
        BY <3>1, <3>2
      <3>5. x \in Range(p)
        BY <3>3, <3>4 DEF Range
      <3> QED
        BY <3>5 DEF p
    <2> QED
      BY <2>2, <2>3
  <1>7. ASSUME NEW x \in States \ P, NEW sc \in {"local", "static"},
               NEW d \in Scoped(x, sc), o.env[d] # valueEnvironment[d]
        PROVE  x \in Range(Chain(top)) /\ o.env[d] # Absent
    <2>1. /\ d \in Declarations /\ scope[d] = sc
      BY OwnerFacts
    <2>2. d \in getWriteEnvironment(t) /\ o.env[d] # Absent
      BY <1>1, <1>7, <2>1 DEF AssignsOnly
    <2>3. d \in getEnvironment(getSuperstate(dst))
      BY <2>1, <2>2 DEF getWriteEnvironment, Scoped
    <2>4. x \in Range(Chain(getSuperstate(dst)))
      BY <1>5, <2>3, EnvironmentOwner
    <2> QED
      BY <1>6, <2>2, <2>4
  <1>8. ASSUME NEW x \in States \ P PROVE LocalsLive(x)' /\ StaticsKept(x)'
    <2> HIDE DEF P
    <2>1. LocalsLive(x)'
      BY <1>7 DEF LocalsLive, presentInConfiguration
    <2>2. StaticsKept(x)'
      BY <1>7 DEF StaticsKept, presentInConfiguration
    <2> QED
      BY <2>1, <2>2
  <1> QED
    BY <1>8

-----------------------------------------------------------------------------
(* Every action preserves the invariant.                                   *)

(* The constructor gives no value to a local and saves null for the statics
   it knows.                                                               *)
LEMMA InitVariableInv == Init => VariableInv
  <1> SUFFICES ASSUME Init, NEW s \in States PROVE LocalsLive(s) /\ StaticsKept(s)
    BY DEF VariableInv
  <1>1. configuration = << >> /\ Range(configuration) = {}
    BY DEF Init, Range
  <1>2. Root \in States /\ states[Root] \in Seq(States)
    BY TreeAssumption DEF TreeWellFormed
  <1>3. populated \subseteq States
    BY <1>2 DEF populated, Range
  <1>4. LocalsLive(s)
    <2> SUFFICES ASSUME NEW d \in Scoped(s, "local") PROVE valueEnvironment[d] = Absent
      BY <1>1 DEF LocalsLive, presentInConfiguration
    <2>1. d \in Declarations /\ \A s2 \in States : d \in Declared(s2) => s2 = s
      BY OwnerFacts
    <2>2. ~ \E s2 \in populated : d \in NonLocals(s2)
      BY <1>3, <2>1 DEF NonLocals
    <2> QED
      BY <2>1, <2>2 DEF Init, InitialEnvironment
  <1>5. StaticsKept(s)
    <2> SUFFICES ASSUME NEW d \in Scoped(s, "static"), valueHistory[s] # NoHistory
                 PROVE  Got(valueEnvironment[d]) = valueHistory[s][d]
      BY DEF StaticsKept
    <2>1. d \in Declarations /\ d \in Declared(s) /\ scope[d] = "static"
      BY OwnerFacts
    <2>2. s \in populated /\ valueHistory[s] = [d1 \in Declarations |-> Null]
      BY DEF Init, InitialValueHistory
    <2>3. d \in NonLocals(s)
      BY <2>1 DEF NonLocals, Scoped
    <2>4. valueEnvironment[d] = Null
      BY <2>1, <2>2, <2>3 DEF Init, InitialEnvironment
    <2> QED
      BY <2>1, <2>2, <2>4, NullAssumption DEF Got
  <1> QED
    BY <1>4, <1>5

(* Steps that change no value, no configuration and nothing still to enter. *)
LEMMA IdleVariables ==
    ASSUME VariableInv, pc # "stopped",
           UNCHANGED <<valueEnvironment, configuration, valueHistory>>,
           pc' # "stopped" => Pending' = Pending
    PROVE  VariableInv'
  <1> SUFFICES ASSUME pc' # "stopped", NEW s \in States \ Pending
               PROVE  LocalsLive(s)' /\ StaticsKept(s)'
    BY DEF VariableInv
  <1>1. LocalsLive(s) /\ StaticsKept(s)
    BY DEF VariableInv
  <1> QED
    BY <1>1 DEF LocalsLive, StaticsKept, presentInConfiguration

(* One turn of the loop that enters states.                                *)
LEMMA EnterPathVariables ==
    ASSUME FullInv, StatementsRespectScope, VariableInv, EnterPath
    PROVE  VariableInv'
  <1>1. /\ pc = "enter" /\ Inv /\ path \in Seq(States) /\ path # << >>
        /\ configuration' = enteredConfiguration(Last(path))
        /\ path' = Front(path) /\ UNCHANGED valueHistory
    BY DEF EnterPath, FullInv, Inv, TypeOK, ControlInv
  <1>2. /\ Last(path) \in States /\ getSuperstate(Last(path)) = Cursor
        /\ Len(path) \in Nat \ {0}
        /\ Front(path) \in Seq(States)
        /\ Len(Front(path)) = Len(path) - 1
        /\ \A i \in 1 .. Len(path) - 1 : Front(path)[i] = path[i]
    BY <1>1, PathStep
  <1>3. configuration = Chain(getSuperstate(Last(path)))
    BY <1>1, <1>2 DEF FullInv, ChainInv
  <1>4. PICK o \in Execute(entry[Last(path)], enteredEnvironment(Last(path))) :
            /\ valueEnvironment' = o.env
            /\ pc' = "enter" \/ pc' = "stopped" \/ (Len(path) = 1 /\ pc' = "get_atomic_state")
    BY DEF EnterPath, Arrive
  <1>5. Range(path) = Range(Front(path)) \cup {Last(path)}
    <2>1. /\ DOMAIN path = 1 .. Len(path) /\ DOMAIN Front(path) = 1 .. Len(path) - 1
          /\ path[Len(path)] = Last(path)
      BY <1>1, <1>2 DEF Last
    <2>2. 1 .. Len(path) = (1 .. Len(path) - 1) \cup {Len(path)}
      BY <1>2
    <2> QED
      BY <1>2, <2>1, <2>2 DEF Range
  <1>6. \A x \in States \ Range(Front(path)) :
            x # Last(path) => LocalsLive(x) /\ StaticsKept(x)
    BY <1>1, <1>5 DEF VariableInv, Pending
  <1>7. \A x \in States \ Range(Front(path)) : LocalsLive(x)' /\ StaticsKept(x)'
    BY <1>1, <1>2, <1>3, <1>4, <1>6, EnterVariables
  <1>8. CASE pc' = "stopped"
    BY <1>8 DEF VariableInv
  <1>9. CASE pc' = "enter"
    BY <1>1, <1>7, <1>9 DEF VariableInv, Pending
  <1>10. CASE Len(path) = 1 /\ pc' = "get_atomic_state"
    <2>1. Front(path) = << >>
      BY <1>2, <1>10, EmptySeq
    <2>2. Range(Front(path)) = {}
      BY <2>1 DEF Range
    <2> QED
      BY <1>7, <1>10, <2>2 DEF VariableInv, Pending
  <1> QED
    BY <1>4, <1>8, <1>9, <1>10

(* The invariant is inductive.                                             *)
LEMMA NextVariableInv ==
    ASSUME FullInv, StatementsRespectScope, VariableInv, [Next]_vars
    PROVE  VariableInv'
  <1>1. /\ Inv /\ StaticsSaved /\ ChainInv /\ TypeOK /\ current \in States
    BY DEF FullInv, Inv, TypeOK
  <1>2. CASE EnterAtomicPath
    <2>1. /\ pc = "get_atomic_state" /\ tag = 1 /\ UNCHANGED valueHistory
          /\ configuration' = enteredConfiguration(current)
          /\ pc' \in {"get_atomic_state", "getEvent", "stopped"}
      BY <1>2 DEF EnterAtomicPath, Descend
    <2>2. PICK o \in Execute(entry[current], enteredEnvironment(current)) :
              valueEnvironment' = o.env
      BY <1>2 DEF EnterAtomicPath
    <2>3. configuration = Chain(getSuperstate(current))
      BY <1>1, <2>1, CursorFacts DEF ChainInv
    <2>4. \A x \in States \ {} : x # current => LocalsLive(x) /\ StaticsKept(x)
      BY <2>1 DEF VariableInv, Pending
    <2>5. \A x \in States \ {} : LocalsLive(x)' /\ StaticsKept(x)'
      BY <1>1, <2>1, <2>2, <2>3, <2>4, EnterVariables
    <2> QED
      BY <2>1, <2>5 DEF VariableInv
  <1>3. ~EnterAtomicPathThrows
    BY <1>1, NeverThrows DEF EnterAtomicPathThrows
  <1>4. ~EnterPathThrows
    BY <1>1, PathStep, NeverThrows DEF EnterPathThrows
  <1>5. CASE \/ AlreadyEntered \/ GetEvent \/ AddEvents \/ NextLine \/ DeclineEvents
             \/ InputFails \/ Halt \/ GetValidTransition
    <2>1. /\ UNCHANGED <<valueEnvironment, configuration, valueHistory>>
          /\ pc \in Resting \cup {"get_atomic_state"}
          /\ pc' \in Resting \cup {"get_atomic_state", "exit", "stopped"}
      BY <1>5 DEF AlreadyEntered, Descend, GetEvent, AddEvents, NextLine,
                  DeclineEvents, InputFails, Halt, GetValidTransition, stateVars,
                  Resting
    <2> QED
      BY <2>1, IdleVariables DEF Pending, Resting
  <1>6. CASE ExitState
    <2>1. pc = "exit" /\ Cursor = current
      BY <1>6, CursorFacts DEF ExitState, LeaveCurrent
    <2>2. Nested(configuration, current) /\ configuration = Chain(current)
      BY <1>1, <2>1 DEF Inv, NestedInv, ChainInv
    <2>3. \A x \in States : LocalsLive(x) /\ StaticsKept(x)
      BY <2>1 DEF VariableInv, Pending
    <2>4. PICK o \in Execute(exit[current], valueEnvironment) :
              \/ pc' = "stopped"
              \/ /\ valueEnvironment' = exitedEnvironment(current, o.env)
                 /\ valueHistory' = exitedValueHistory(current, o.env)
                 /\ configuration' = exitedConfiguration(current)
      BY <1>6 DEF ExitState, LeaveCurrent
    <2>5. CASE pc' = "stopped"
      BY <2>5 DEF VariableInv
    <2>6. CASE pc' # "stopped"
      <3>1. \A x \in States : LocalsLive(x)' /\ StaticsKept(x)'
        BY <1>1, <2>2, <2>3, <2>4, <2>6, ExitVariables
      <3> QED
        BY <3>1 DEF VariableInv
    <2> QED
      BY <2>5, <2>6
  <1>7. CASE TransitionAction
    <2>1. /\ pc = "exit" /\ current = Top /\ t \in Transitions
          /\ UNCHANGED <<configuration, valueHistory>>
          /\ path' = PathBelow(t.destination, Top)
          /\ pc' \in {"enter", "stopped"}
      BY <1>1, <1>7 DEF TransitionAction, Inv, ControlInv
    <2>2. PICK o \in Execute(t.action, valueEnvironment) : valueEnvironment' = o.env
      BY <1>7 DEF TransitionAction
    <2>3. Top = t.state /\ configuration = Chain(t.state)
      BY <1>1, <2>1, TopFacts, CursorFacts DEF ChainInv
    <2>4. \A x \in States : LocalsLive(x) /\ StaticsKept(x)
      BY <2>1 DEF VariableInv, Pending
    <2>5. \A x \in States \ Range(path') : LocalsLive(x)' /\ StaticsKept(x)'
      BY <2>1, <2>2, <2>3, <2>4, ActionVariables
    <2> QED
      BY <2>1, <2>5 DEF VariableInv, Pending
  <1>8. CASE EnterPath
    BY <1>8, EnterPathVariables
  <1>9. CASE UNCHANGED vars
    <2>1. UNCHANGED <<valueEnvironment, configuration, valueHistory, pc, path>>
      BY <1>9 DEF vars, stateVars, controlVars
    <2>2. Pending' = Pending
      BY <2>1 DEF Pending
    <2>3. CASE pc = "stopped"
      BY <2>1, <2>3 DEF VariableInv
    <2>4. CASE pc # "stopped"
      BY <2>1, <2>2, <2>4, IdleVariables
    <2> QED
      BY <2>3, <2>4
  <1> QED
    BY <1>2, <1>3, <1>4, <1>5, <1>6, <1>7, <1>8, <1>9
       DEF Next, Compute, User, Terminated

-----------------------------------------------------------------------------
(* Theorems.                                                               *)

(* The strengthened invariant holds in every state the simulator reaches.   *)
LEMMA VariableInvariance ==
    ASSUME NoDeepStatics, StatementsRespectScope
    PROVE  Spec => [](FullInv /\ VariableInv)
  <1>1. Init => VariableInv
    BY InitVariableInv
  <1>2. FullInv /\ VariableInv /\ [Next]_vars => VariableInv'
    BY NextVariableInv
  <1> QED
    BY <1>1, <1>2, FullInvariance, PTL DEF Spec

(* In charts whose statements respect their scope, a local variable has an
   entry in the value environment between two transitions exactly while its
   state is active, though an action assigns locals of states that are not
   entered yet and exitState removes them one state at a time.             *)
THEOREM LocalsLiveWithTheState ==
    ASSUME NoDeepStatics, StatementsRespectScope
    PROVE  Spec => []LocalsLiveWithTheirState
  <1>1. FullInv /\ VariableInv => LocalsLiveWithTheirState
    BY DEF VariableInv, LocalsLive, LocalsLiveWithTheirState, AtRest, Pending
  <1> QED
    BY <1>1, VariableInvariance, PTL

(* In such charts the two copies of a static variable agree between two
   transitions while its state is inactive: enterState resumes the state
   with the value it was left with.                                        *)
THEOREM StaticsKeptWhileInactive ==
    ASSUME NoDeepStatics, StatementsRespectScope
    PROVE  Spec => []InactiveStaticsKept
  <1>1. FullInv /\ VariableInv => InactiveStaticsKept
    BY DEF VariableInv, StaticsKept, InactiveStaticsKept, AtRest, Pending
  <1> QED
    BY <1>1, VariableInvariance, PTL
=============================================================================

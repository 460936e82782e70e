------------------------- MODULE MCAlgorithms_proofs -------------------------
(***************************************************************************)
(* Theorems about EventRules, StoredHistory and EventTemplates, for every  *)
(* definition, system, environment, history and text, and what they and    *)
(* those of the calendar say of the inputs that MCAlgorithms goes through, *)
(* for every value of its constants.                                       *)
(***************************************************************************)
EXTENDS MCAlgorithms, ZoneCalendar_proofs, SequenceTheorems

-----------------------------------------------------------------------------
(* Triggers and events.                                                    *)

\* The capability a trigger needs begins with its type.
LEMMA CapabilityTellsType ==
    ASSUME NEW t \in Trigger
    PROVE  Capability(t)[1] = t.type
BY DEF Trigger, Capability, AppEvent, SessionEvent, PresenceEvent

LEMMA CapabilityTellsDirection ==
    ASSUME NEW t \in Trigger, t.type = "transfer"
    PROVE  Capability(t)[2] = "received" <=> t.received
BY DEF Trigger, Capability

\* What a text may name is settled by the capability, and so by the kind of an event.
THEOREM CapabilityTellsOffer ==
    ASSUME NEW t \in Trigger, NEW u \in Trigger, Capability(t) = Capability(u)
    PROVE  AvailableVariables(t) = AvailableVariables(u)
<1>1. t.type = u.type
  BY CapabilityTellsType
<1>2. t.type = "transfer" => (t.received <=> u.received)
  BY <1>1, CapabilityTellsDirection
<1>3. CASE t.type = "transfer"
  BY <1>1, <1>2, <1>3 DEF AvailableVariables
<1>4. CASE t.type # "transfer"
  BY <1>1, <1>4 DEF AvailableVariables
<1> QED BY <1>3, <1>4

-----------------------------------------------------------------------------
(* Preflight.                                                              *)

AnyStep ==
    [type : {"shell"}, shell : ShellKind] \cup [type : {"notification"}, mobile : BOOLEAN]
    \cup [type : {"action"}, action : Action] \cup [type : {"delay"}]

AnyDefinition ==
    [trigger : Trigger, ask : BOOLEAN, steps : Seq(AnyStep), conditions : Seq(Condition)]

AnyEnvironment ==
    [running : SUBSET Value, connected : SUBSET Value, presence : PresenceEvent \cup {NoPresence}]

\* What preflight makes sure of for a step with an action.
LEMMA StepPreflight ==
    ASSUME NEW d, NEW s, s.type = "action", NEW sys, PreflightStep(d, s, sys) = {}
    PROVE  /\ s.action \in DOMAIN sys.actions
           /\ ~(sys.actions[s.action].unlocked /\ AtLockedSession(d.trigger))
BY DEF PreflightStep, PreflightAction

LEMMA ConditionPreflight ==
    ASSUME NEW c \in Condition, NEW sys, PreflightCondition(c, sys) = {},
           NEW env \in AnyEnvironment
    PROVE  Holds(c, Seen(env, sys)) <=> Holds(c, env)
<1> DEFINE seen == Seen(env, sys)
<1>1. /\ seen.running = IF <<"application", "started">> \in sys.capable THEN env.running ELSE {}
      /\ seen.connected = env.connected
      /\ seen.presence = IF <<"presence", env.presence>> \in sys.capable THEN env.presence ELSE NoPresence
  BY DEF Seen, AnyEnvironment
<1> HIDE DEF seen
<1>2. CASE c.type = "application"
  <2>1. <<"application", "started">> \in sys.capable
    BY <1>2 DEF PreflightCondition, Require
  <2> QED BY <1>1, <1>2, <2>1 DEF Holds, seen
<1>3. CASE c.type = "device"
  BY <1>1, <1>3 DEF Holds, seen
<1>4. CASE c.type = "presence"
  <2>1. <<"presence", c.state>> \in sys.capable
    BY <1>4 DEF PreflightCondition, Require
  <2>2. c.state # NoPresence
    BY <1>4 DEF Condition, PresenceEvent, NoPresence
  <2> QED BY <1>1, <1>4, <2>1, <2>2 DEF Holds, seen
<1> QED BY <1>2, <1>3, <1>4 DEF Condition

\* Conditions that are judged alike, one by one, fail alike.
LEMMA SameFailure ==
    ASSUME NEW conditions, NEW e, NEW f,
           \A i \in DOMAIN conditions : Holds(conditions[i], e) <=> Holds(conditions[i], f)
    PROVE  ConditionFailure(conditions, e) = ConditionFailure(conditions, f)
<1>1. {i \in DOMAIN conditions : ~Holds(conditions[i], e)} = {i \in DOMAIN conditions : ~Holds(conditions[i], f)}
  OBVIOUS
<1> DEFINE first(failing) == IF failing = {} THEN 0 ELSE CHOOSE i \in failing : \A j \in failing : i <= j
<1>2. /\ ConditionFailure(conditions, e) = first({i \in DOMAIN conditions : ~Holds(conditions[i], e)})
      /\ ConditionFailure(conditions, f) = first({i \in DOMAIN conditions : ~Holds(conditions[i], f)})
  BY Zenon DEF ConditionFailure
<1> HIDE DEF first
<1> QED BY <1>1, <1>2

LEMMA PreflightParts ==
    ASSUME NEW d, NEW sys, Preflight(d, sys) = {}
    PROVE  /\ PreflightTrigger(d, sys) = {}
           /\ \A i \in DOMAIN d.conditions : PreflightCondition(d.conditions[i], sys) = {}
           /\ \A i \in DOMAIN d.steps : PreflightStep(d, d.steps[i], sys) = {}
           /\ Applications(d) \subseteq sys.installed
<1> DEFINE OfTrigger == PreflightTrigger(d, sys)
           OfConditions == UNION {PreflightCondition(d.conditions[i], sys) : i \in DOMAIN d.conditions}
           OfSteps == UNION {PreflightStep(d, d.steps[i], sys) : i \in DOMAIN d.steps}
           OfApps == {<<"application", "missing", app>> : app \in Applications(d) \ sys.installed}
<1>1. OfTrigger \cup OfConditions \cup OfSteps \cup OfApps = {}
  BY DEF Preflight
<1> HIDE DEF OfTrigger, OfConditions, OfSteps, OfApps
<1>2. OfTrigger = {} /\ OfConditions = {} /\ OfSteps = {} /\ OfApps = {}
  BY <1>1
<1>3. \A i \in DOMAIN d.conditions : PreflightCondition(d.conditions[i], sys) = {}
  <2>1. ASSUME NEW i \in DOMAIN d.conditions, NEW x \in PreflightCondition(d.conditions[i], sys) PROVE FALSE
    <3>1. x \in OfConditions
      BY DEF OfConditions
    <3> QED BY <1>2, <3>1
  <2> QED BY <2>1
<1>4. \A i \in DOMAIN d.steps : PreflightStep(d, d.steps[i], sys) = {}
  BY <1>2 DEF OfSteps
<1>5. ASSUME NEW app \in Applications(d) PROVE app \in sys.installed
  <2>1. app \notin sys.installed => <<"application", "missing", app>> \in OfApps
    BY DEF OfApps
  <2> QED BY <1>2, <2>1
<1> QED BY <1>2, <1>3, <1>4, <1>5 DEF OfTrigger

\* A definition that passes preflight, with the actions it found there, has all its steps
\* handed over, whatever they are and however many: at any state of the session if its
\* trigger is the session being locked or going to sleep, and else while it is not locked.
THEOREM PreflightSuffices ==
    ASSUME NEW d \in AnyDefinition, NEW sys, Preflight(d, sys) = {},
           NEW locked \in [DOMAIN d.steps -> BOOLEAN],
           d.trigger \in LosesSession \/ \A i \in DOMAIN locked : ~locked[i]
    PROVE  HandedOver(d, sys, locked) = DOMAIN d.steps
<1>1. \A i \in ActionSteps(d) : /\ d.steps[i].action \in DOMAIN sys.actions
                               /\ ~(sys.actions[d.steps[i].action].unlocked /\ AtLockedSession(d.trigger))
  BY PreflightParts, StepPreflight, Zenon DEF ActionSteps
<1>2. TakesSnapshots(d, sys)
  BY <1>1, Zenon DEF TakesSnapshots
<1>3. ASSUME NEW i \in ActionSteps(d) PROVE ~Refuses(d, i, sys, locked)
  <2>1. CASE d.trigger \in LosesSession
    <3>1. AtLockedSession(d.trigger)
      BY <2>1 DEF LosesSession, AtLockedSession
    <3> QED BY <1>1, <3>1, Zenon DEF Refuses
  <2>2. CASE \A j \in DOMAIN locked : ~locked[j]
    <3>1. i \in DOMAIN locked
      BY DEF ActionSteps
    <3> QED BY <2>2, <3>1, Zenon DEF Refuses
  <2> QED BY <2>1, <2>2
<1>4. \A i : ~Refuses(d, i, sys, locked)
  BY <1>3, Zenon DEF Refuses
<1> QED BY <1>2, <1>4, Zenon DEF HandedOver

\* After preflight the conditions are judged by the facts: what the host cannot observe
\* never decides.
THEOREM PreflightJudges ==
    ASSUME NEW d \in AnyDefinition, NEW sys, Preflight(d, sys) = {},
           NEW env \in AnyEnvironment
    PROVE  ConditionFailure(d.conditions, Seen(env, sys)) = ConditionFailure(d.conditions, env)
<1>1. \A i \in DOMAIN d.conditions : d.conditions[i] \in Condition
  BY DEF AnyDefinition
<1>2. \A i \in DOMAIN d.conditions : Holds(d.conditions[i], Seen(env, sys)) <=> Holds(d.conditions[i], env)
  BY <1>1, PreflightParts, ConditionPreflight
<1> QED BY <1>2, SameFailure

-----------------------------------------------------------------------------
(* Retention.                                                              *)

Row == [id : Nat, made : Int, finished : BOOLEAN]

\* What RetainsTheLatest says of the rows left at a time.
LatestLeft(rows, left, time) ==
    LET gone == rows \ left
        done == {x \in left : x.finished}
    IN  /\ \A x \in gone : x.finished /\ \A y \in done : x.made <= y.made
        /\ Cardinality(done) <= Keep
        /\ \A x \in done : time - x.made <= MaxAge
        /\ \A x \in gone : time - x.made <= MaxAge =>
              Cardinality({y \in left : y.made >= x.made}) >= Keep

\* A prune keeps what is not finished, and of what is finished the latest that are young
\* enough, as many as the limit allows: whatever the history.
THEOREM PruneRetainsTheLatest ==
    ASSUME NEW rows, IsFiniteSet(rows), rows \subseteq Row, NEW time \in Int,
           NEW left \in Prune(rows, FALSE, time)
    PROVE  LatestLeft(rows, left, time)
<1>1. PICK latest \in SUBSET rows : IsLatest(latest, rows) /\ left = rows \ Pruned(rows, latest, FALSE, time)
  BY DEF Prune
<1>2. /\ \A x \in rows : x.made \in Int /\ x.finished \in BOOLEAN
      /\ \A x \in rows : x \in left <=> ~(x.finished /\ (x.made < time - MaxAge \/ x \notin latest))
      /\ left \subseteq rows /\ latest \subseteq rows
      /\ \A x \in latest, y \in rows \ latest : y.made <= x.made
      /\ Keep \in Nat /\ MaxAge \in Nat
  BY <1>1, RetentionAssumption DEF Row, Pruned, IsLatest
<1> DEFINE gone == rows \ left
           done == {x \in left : x.finished}
<1>3. IsFiniteSet(latest) /\ Cardinality(latest) <= Keep /\ Cardinality(latest) \in Nat
  <2>1. IsFiniteSet(latest) /\ Cardinality(latest) \in Nat /\ Cardinality(rows) \in Nat
    <3>1. IsFiniteSet(latest)
      BY FS_Subset
    <3> QED BY <3>1, FS_CardinalityType
  <2>2. Cardinality(latest) = IF Cardinality(rows) < Keep THEN Cardinality(rows) ELSE Keep
    BY <1>1 DEF IsLatest
  <2> QED BY <1>2, <2>1, <2>2
<1>4. Cardinality(done) <= Keep
  <2>1. done \subseteq latest
    BY <1>2
  <2>2. Cardinality(done) <= Cardinality(latest) /\ Cardinality(done) \in Nat
    BY <1>3, <2>1, FS_Subset, FS_CardinalityType
  <2> QED BY <1>2, <1>3, <2>2
<1>5. \A x \in done : time - x.made <= MaxAge
  BY <1>2
<1>6. \A x \in gone : x.finished /\ \A y \in done : x.made <= y.made
  BY <1>2
<1>7. ASSUME NEW x \in gone, time - x.made <= MaxAge
      PROVE  Cardinality({y \in left : y.made >= x.made}) >= Keep
  <2> DEFINE newer == {y \in left : y.made >= x.made}
  <2>1. x \in rows \ latest
    BY <1>2, <1>7
  <2>2. latest \subseteq newer
    BY <1>2, <1>7, <2>1
  <2>3. Cardinality(latest) = Keep
    <3>1. latest # rows
      BY <2>1
    <3>2. Cardinality(latest) < Cardinality(rows) /\ Cardinality(rows) \in Nat
      <4>1. Cardinality(latest) <= Cardinality(rows) /\ Cardinality(latest) # Cardinality(rows)
        BY <3>1, FS_Subset
      <4>2. Cardinality(rows) \in Nat
        BY FS_CardinalityType
      <4> QED BY <1>3, <4>1, <4>2
    <3>3. Cardinality(latest) = IF Cardinality(rows) < Keep THEN Cardinality(rows) ELSE Keep
      BY <1>1 DEF IsLatest
    <3> QED BY <3>2, <3>3
  <2>4. IsFiniteSet(newer)
    BY <1>2, FS_Subset
  <2>5. Cardinality(latest) <= Cardinality(newer)
    BY <2>2, <2>4, FS_Subset
  <2> QED BY <1>2, <2>3, <2>4, <2>5, FS_CardinalityType
<1> QED BY <1>4, <1>5, <1>6, <1>7 DEF LatestLeft

-----------------------------------------------------------------------------
(* Functions defined by recursion.                                        *)

\* A function over S is defined by an equation whose right-hand side, E, uses the function at
\* arguments of smaller size only: there is such a function.
Smaller(S, size, g, h, x) == \A y \in S : size[y] < size[x] => g[y] = h[y]
Shrinks(S, V, size, E) ==
    /\ size \in [S -> Nat] /\ V # {}
    /\ \A g \in [S -> V], x \in S : E[<<g, x>>] \in V
    /\ \A g, h \in [S -> V], x \in S : Smaller(S, size, g, h, x) => E[<<g, x>>] = E[<<h, x>>]

\* Of the elements of a set one has the least size: what holds of x when it holds of all that
\* is smaller holds of all, as there is no least exception.
LEMMA LeastOf ==
    ASSUME NEW S, NEW size \in [S -> Nat], NEW T, T \subseteq S, T # {}
    PROVE  \E x \in T : \A y \in T : size[x] <= size[y]
<1> DEFINE sizes == {size[y] : y \in T}
<1>1. sizes \in SUBSET Int /\ sizes # {} /\ \A n \in sizes : 0 <= n
  OBVIOUS
<1> HIDE DEF sizes
<1>2. Min(sizes) \in sizes /\ \A n \in sizes : Min(sizes) <= n
  BY <1>1, MinIsLeast
<1> QED BY <1>2 DEF sizes

\* Below each size the equation has one solution only; they agree, and f takes its value at x
\* from the one that goes just beyond x.
LEMMA RecursionExists ==
    ASSUME NEW S, NEW V, NEW size, NEW E, Shrinks(S, V, size, E)
    PROVE  \E f \in [S -> V] : \A x \in S : f[x] = E[<<f, x>>]
<1> USE DEF Shrinks
<1>0. PICK v0 \in V : TRUE
  OBVIOUS
<1> DEFINE Solves(g, n) == \A x \in S : size[x] < n => g[x] = E[<<g, x>>]
           unsolved == {n \in Nat : ~\E g \in [S -> V] : Solves(g, n)}
<1>1. \A g, h \in [S -> V], n \in Nat : Solves(g, n) /\ Solves(h, n)
         => \A x \in S : size[x] < n => g[x] = h[x]
  <2> SUFFICES ASSUME NEW g \in [S -> V], NEW h \in [S -> V], NEW n \in Nat, Solves(g, n), Solves(h, n)
               PROVE  \A x \in S : size[x] < n => g[x] = h[x]
    BY Zenon
  <2> DEFINE T == {x \in S : size[x] < n /\ g[x] # h[x]}
  <2>1. SUFFICES ASSUME T # {} PROVE FALSE
    OBVIOUS
  <2>2. PICK x \in T : \A y \in T : size[x] <= size[y]
    BY <2>1, LeastOf
  <2>3. Smaller(S, size, g, h, x)
    BY <2>2 DEF Smaller
  <2>4. E[<<g, x>>] = E[<<h, x>>]
    BY <2>2, <2>3
  <2> QED BY <2>2, <2>4
<1>2. unsolved = {}
  <2> SUFFICES ASSUME unsolved # {} PROVE FALSE
    OBVIOUS
  <2>1. unsolved \in SUBSET Int /\ \A n \in unsolved : 0 <= n
    OBVIOUS
  <2>2. PICK m \in unsolved : \A n \in unsolved : m <= n
    <3> HIDE DEF unsolved
    <3>1. Min(unsolved) \in unsolved /\ \A n \in unsolved : Min(unsolved) <= n
      BY <2>1, MinIsLeast
    <3> QED BY <3>1
  <2>3. m # 0
    <3> DEFINE g == [x \in S |-> v0]
    <3>1. g \in [S -> V] /\ Solves(g, 0)
      OBVIOUS
    <3> QED BY <3>1, <2>2
  <2>4. m - 1 \in Nat /\ m - 1 \notin unsolved
    BY <2>2, <2>3
  <2>5. PICK g \in [S -> V] : Solves(g, m - 1)
    BY <2>4
  <2> DEFINE h == [x \in S |-> E[<<g, x>>]]
  <2>6. h \in [S -> V]
    OBVIOUS
  <2>7. ASSUME NEW x \in S, size[x] < m PROVE h[x] = E[<<h, x>>]
    <3>1. \A y \in S : size[y] < size[x] => h[y] = g[y]
      BY <2>5, <2>7, <2>2
    <3>2. E[<<h, x>>] = E[<<g, x>>]
      BY <3>1, <2>6 DEF Smaller
    <3> QED BY <3>2
  <2>8. Solves(h, m)
    BY <2>7
  <2> QED BY <2>2, <2>6, <2>8
<1>3. \A n \in Nat : \E g \in [S -> V] : Solves(g, n)
  BY <1>2
<1> HIDE DEF Solves
<1> DEFINE upto(n) == CHOOSE g \in [S -> V] : Solves(g, n)
           f == [x \in S |-> upto(size[x] + 1)[x]]
<1>4. \A n \in Nat : upto(n) \in [S -> V] /\ Solves(upto(n), n)
  BY <1>3
<1> HIDE DEF upto
<1>5. f \in [S -> V]
  BY <1>4
<1>6. ASSUME NEW x \in S PROVE f[x] = E[<<f, x>>]
  <2> DEFINE g == upto(size[x] + 1)
  <2>1. g \in [S -> V] /\ Solves(g, size[x] + 1)
    BY <1>4
  <2>2. g[x] = E[<<g, x>>]
    BY <2>1 DEF Solves
  <2>3. ASSUME NEW y \in S, size[y] < size[x] PROVE f[y] = g[y]
    <3>1. upto(size[y] + 1) \in [S -> V] /\ Solves(upto(size[y] + 1), size[y] + 1)
      BY <1>4
    <3>2. Solves(g, size[y] + 1)
      BY <2>1, <2>3 DEF Solves
    <3> QED BY <1>1, <2>1, <3>1, <3>2
  <2>4. E[<<g, x>>] = E[<<f, x>>]
    BY <2>1, <2>3, <1>5 DEF Smaller
  <2> QED BY <2>2, <2>4
<1> QED BY <1>5, <1>6

-----------------------------------------------------------------------------
(* Sequences of tokens.                                                    *)

\* An element in front is the head, what was there the tail; and every sequence is so made.
LEMMA FirstOf ==
    ASSUME NEW S, NEW t \in S, NEW b \in Seq(S)
    PROVE  /\ <<t>> \o b \in Seq(S) /\ <<t>> \o b # <<>>
           /\ Head(<<t>> \o b) = t /\ Tail(<<t>> \o b) = b
<1> DEFINE x == <<t>> \o b
<1>1. <<t>> \in Seq(S) /\ Len(<<t>>) = 1 /\ <<t>>[1] = t /\ Len(b) \in Nat
  OBVIOUS
<1>2. /\ x \in Seq(S) /\ Len(x) = 1 + Len(b)
      /\ \A i \in 1 .. 1 + Len(b) : x[i] = IF i <= 1 THEN <<t>>[i] ELSE b[i - 1]
  BY <1>1, ConcatProperties
<1> HIDE DEF x
<1>3. x # <<>> /\ x[1] = t
  <2>1. Len(x) # 0 /\ 1 \in 1 .. 1 + Len(b)
    BY <1>1, <1>2
  <2>2. x[1] = <<t>>[1]
    BY <1>2, <2>1
  <2> QED BY <1>1, <2>1, <2>2
<1>4. Head(x) = t
  BY <1>2, <1>3
<1>5. Tail(x) \in Seq(S) /\ Len(Tail(x)) = Len(b) /\ \A i \in 1 .. Len(b) : Tail(x)[i] = x[i + 1]
  BY <1>1, <1>2, <1>3, HeadTailProperties
<1>6. \A i \in 1 .. Len(b) : x[i + 1] = b[i]
  BY <1>1, <1>2
<1>7. Tail(x) = b
  BY <1>1, <1>5, <1>6, SeqEqual
<1> QED BY <1>2, <1>3, <1>4, <1>7 DEF x

LEMMA FirstThenRest ==
    ASSUME NEW S, NEW a \in Seq(S), a # <<>>
    PROVE  a = <<Head(a)>> \o Tail(a)
<1>1. Len(a) \in Nat /\ 1 \in 1 .. Len(a) /\ Len(a) \in 1 .. Len(a)
  BY EmptySeq
<1>2. SubSeq(a, 1, Len(a)) = <<a[1]>> \o SubSeq(a, 1 + 1, Len(a))
  BY <1>1, SubSeqRecursiveFirst
<1>3. SubSeq(a, 1, Len(a)) = a /\ SubSeq(a, 2, Len(a)) = Tail(a) /\ Head(a) = a[1]
  BY <1>1, SubSeqFull, TailIsSubSeq
<1> QED BY <1>2, <1>3

\* Joining is associative, with the empty sequence as its unit.
LEMMA Joins ==
    ASSUME NEW S
    PROVE  /\ <<>> \in Seq(S) /\ \A t \in S : <<t>> \in Seq(S)
           /\ \A a, b \in Seq(S) : a \o b \in Seq(S)
           /\ \A a, b, c \in Seq(S) : (a \o b) \o c = a \o (b \o c)
           /\ \A a \in Seq(S) : a \o <<>> = a /\ <<>> \o a = a
<1>1. <<>> \in Seq(S) /\ \A t \in S : <<t>> \in Seq(S)
  OBVIOUS
<1>2. \A a, b \in Seq(S) : a \o b \in Seq(S)
  OBVIOUS
<1>3. \A a, b, c \in Seq(S) : (a \o b) \o c = a \o (b \o c)
  BY ConcatAssociative
<1>4. \A a \in Seq(S) : a \o <<>> = a /\ <<>> \o a = a
  BY ConcatEmptySeq
<1> QED BY <1>1, <1>2, <1>3, <1>4

LEMMA TokensJoin ==
    /\ <<>> \in Tokens /\ \A t \in Token : <<t>> \in Tokens
    /\ \A a, b \in Tokens : a \o b \in Tokens
    /\ \A a, b, c \in Tokens : (a \o b) \o c = a \o (b \o c)
    /\ \A a \in Tokens : a \o <<>> = a /\ <<>> \o a = a
<1>1. /\ <<>> \in Seq(Token) /\ \A t \in Token : <<t>> \in Seq(Token)
      /\ \A a, b \in Seq(Token) : a \o b \in Seq(Token)
      /\ \A a, b, c \in Seq(Token) : (a \o b) \o c = a \o (b \o c)
      /\ \A a \in Seq(Token) : a \o <<>> = a /\ <<>> \o a = a
  BY Joins, Zenon
<1> QED BY <1>1, Zenon DEF Tokens

LEMMA FirstAndRest ==
    ASSUME NEW t \in Token, NEW b \in Tokens
    PROVE  /\ <<t>> \o b \in Tokens /\ <<t>> \o b # <<>>
           /\ Head(<<t>> \o b) = t /\ Tail(<<t>> \o b) = b
BY FirstOf, Zenon DEF Tokens

LEMMA Decomposed ==
    ASSUME NEW a \in Tokens, a # <<>>
    PROVE  a = <<Head(a)>> \o Tail(a)
BY FirstThenRest, Zenon DEF Tokens

LEMMA PartsOf ==
    ASSUME NEW S, NEW w \in Seq(S), NEW b \in Seq(S)
    PROVE  /\ Len(w) \in Nat /\ Len(b) \in Nat /\ Len(w \o b) = Len(w) + Len(b)
           /\ \A i \in 1 .. Len(w) : (w \o b)[i] = w[i]
           /\ \A i \in 1 .. Len(b) : (w \o b)[Len(w) + i] = b[i]
<1>1. Len(w) \in Nat /\ Len(b) \in Nat
  OBVIOUS
<1>2. /\ Len(w \o b) = Len(w) + Len(b)
      /\ \A i \in 1 .. Len(w) + Len(b) : (w \o b)[i] = IF i <= Len(w) THEN w[i] ELSE b[i - Len(w)]
  BY ConcatProperties
<1>3. \A i \in 1 .. Len(w) : (w \o b)[i] = w[i]
  BY <1>1, <1>2
<1>4. ASSUME NEW i \in 1 .. Len(b) PROVE (w \o b)[Len(w) + i] = b[i]
  <2>1. Len(w) + i \in 1 .. Len(w) + Len(b) /\ ~(Len(w) + i <= Len(w)) /\ (Len(w) + i) - Len(w) = i
    BY <1>1
  <2> QED BY <1>2, <2>1, Zenon
<1> QED BY <1>1, <1>2, <1>3, <1>4

\* Where the elements of w and b are in w \o b.
Beside(w, b) ==
    /\ Len(w) \in Nat /\ Len(b) \in Nat /\ Len(w \o b) = Len(w) + Len(b)
    /\ \A i \in 1 .. Len(w) : (w \o b)[i] = w[i]
    /\ \A i \in 1 .. Len(b) : (w \o b)[Len(w) + i] = b[i]

LEMMA TokensParts == \A w, b \in Tokens : Beside(w, b)
<1>1. ASSUME NEW S, NEW w \in Seq(S), NEW b \in Seq(S) PROVE Beside(w, b)
  BY PartsOf DEF Beside
<1>2. \A w, b \in Seq(Token) : Beside(w, b)
  BY <1>1, Zenon
<1> QED BY <1>2, Zenon DEF Tokens

Associate(a, b, c) == (a \o b) \o c = a \o (b \o c)

LEMMA Associating ==
    ASSUME NEW S, NEW a \in Seq(S), NEW b \in Seq(S), NEW c \in Seq(S)
    PROVE  Associate(a, b, c)
BY ConcatAssociative DEF Associate

LEMMA TokensAssociate == \A a, b, c \in Tokens : Associate(a, b, c)
<1>1. ASSUME NEW a \in Tokens, NEW b \in Tokens, NEW c \in Tokens PROVE Associate(a, b, c)
  BY Associating, Zenon DEF Tokens
<1> QED BY <1>1, Zenon

Regroup(a, b, c, d) == ((a \o b) \o c) \o d = a \o (b \o (c \o d))

LEMMA TokensRegroup == \A a, b, c, d \in Tokens : Regroup(a, b, c, d)
<1> SUFFICES ASSUME NEW a \in Tokens, NEW b \in Tokens, NEW c \in Tokens, NEW d \in Tokens
             PROVE  ((a \o b) \o c) \o d = a \o (b \o (c \o d))
  BY Zenon DEF Regroup
<1>1. a \o b \in Tokens /\ c \o d \in Tokens
  BY TokensJoin, Zenon
<1>2. ((a \o b) \o c) \o d = (a \o b) \o (c \o d)
  <2>1. Associate(a \o b, c, d)
    BY <1>1, TokensAssociate, Zenon
  <2> QED BY <2>1, Zenon DEF Associate
<1>3. (a \o b) \o (c \o d) = a \o (b \o (c \o d))
  <2>1. Associate(a, b, c \o d)
    BY <1>1, TokensAssociate, Zenon
  <2> QED BY <2>1, Zenon DEF Associate
<1> QED BY <1>2, <1>3, Zenon

-----------------------------------------------------------------------------
(* One turn of the three loops.                                            *)

Open(rest) == Has(rest, "{")
Literal(rest) == Before(rest, "{")
Within(rest) == After(rest, "{")
Name(rest) == Key(After(rest, "{"))
Closed(rest) == Has(After(rest, "{"), "}")
Named(rest, keys) == Closed(rest) /\ Name(rest) \in keys
Onward(rest) == Rest(After(rest, "{"))

\* Around a pair of braces a text has parts that are shorter.
LEMMA AroundPair ==
    ASSUME NEW P, NEW text \in Seq(P), NEW b, Has(text, b)
    PROVE  /\ Before(text, b) \in Seq(P) /\ After(text, b) \in Seq(P)
           /\ Len(Before(text, b)) \in Nat /\ Len(After(text, b)) \in Nat
           /\ Len(Before(text, b)) + 2 + Len(After(text, b)) = Len(text)
<1>1. Len(text) \in Nat /\ \A i \in 1 .. Len(text) : text[i] \in P
  OBVIOUS
<1>2. Pairs(text, b) \in SUBSET Int /\ Pairs(text, b) # {} /\ \A i \in Pairs(text, b) : 1 <= i
  BY <1>1 DEF Pairs, Has
<1>3. PICK m \in 1 .. Len(text) - 1 : m = Min(Pairs(text, b))
  <2>1. Min(Pairs(text, b)) \in Pairs(text, b)
    BY <1>2, MinIsLeast
  <2> QED BY <2>1 DEF Pairs
<1>4. /\ SubSeq(text, 1, m - 1) \in Seq(P)
      /\ Len(SubSeq(text, 1, m - 1)) = IF 1 <= m - 1 THEN m - 1 - 1 + 1 ELSE 0
  <2>1. \A i \in 1 .. m - 1 : text[i] \in P
    BY <1>1, <1>3
  <2> QED BY <1>1, <1>3, <2>1, SubSeqProperties
<1>5. /\ SubSeq(text, m + 2, Len(text)) \in Seq(P)
      /\ Len(SubSeq(text, m + 2, Len(text)))
           = IF m + 2 <= Len(text) THEN Len(text) - (m + 2) + 1 ELSE 0
  <2>1. \A i \in m + 2 .. Len(text) : text[i] \in P
    BY <1>1, <1>3
  <2> QED BY <1>1, <1>3, <2>1, SubSeqProperties
<1>6. Before(text, b) = SubSeq(text, 1, m - 1) /\ After(text, b) = SubSeq(text, m + 2, Len(text))
  BY <1>3, Zenon DEF Before, After
<1>7. Len(Before(text, b)) = m - 1
  <2>1. \A k \in 1 .. Len(text) - 1 : (IF 1 <= k - 1 THEN k - 1 - 1 + 1 ELSE 0) = k - 1
    BY <1>1
  <2> QED BY <1>3, <1>4, <1>6, <2>1, Zenon
<1>8. Len(After(text, b)) = Len(text) - m - 1
  <2>1. \A l \in Nat : \A k \in 1 .. l - 1 :
            (IF k + 2 <= l THEN l - (k + 2) + 1 ELSE 0) = l - k - 1
    OBVIOUS
  <2> QED BY <1>1, <1>3, <1>5, <1>6, <2>1, Zenon
<1>9. \A l \in Nat : \A k \in 1 .. l - 1 :
          k - 1 \in Nat /\ l - k - 1 \in Nat /\ (k - 1) + 2 + (l - k - 1) = l
  OBVIOUS
<1>10. m - 1 \in Nat /\ Len(text) - m - 1 \in Nat /\ (m - 1) + 2 + (Len(text) - m - 1) = Len(text)
  BY <1>1, <1>3, <1>9, Zenon
<1> QED BY <1>4, <1>5, <1>6, <1>7, <1>8, <1>10, Zenon

LEMMA Turn ==
    ASSUME NEW P, NEW rest \in Seq(P), Open(rest)
    PROVE  /\ Literal(rest) \in Seq(P)
           /\ Closed(rest) => /\ Onward(rest) \in Seq(P) /\ Len(Onward(rest)) \in Nat
                              /\ Len(Onward(rest)) + 4 <= Len(rest)
<1>0. Len(rest) \in Nat
  OBVIOUS
<1>1. /\ Literal(rest) \in Seq(P) /\ Within(rest) \in Seq(P)
      /\ Len(Literal(rest)) \in Nat /\ Len(Within(rest)) \in Nat
      /\ Len(Literal(rest)) + 2 + Len(Within(rest)) = Len(rest)
  BY AroundPair DEF Open, Literal, Within
<1>2. ASSUME Closed(rest)
      PROVE  \E a \in Nat : /\ Onward(rest) \in Seq(P) /\ Len(Onward(rest)) \in Nat
                           /\ a + 2 + Len(Onward(rest)) = Len(Within(rest))
  <2>1. /\ After(Within(rest), "}") \in Seq(P)
        /\ Len(Before(Within(rest), "}")) \in Nat /\ Len(After(Within(rest), "}")) \in Nat
        /\ Len(Before(Within(rest), "}")) + 2 + Len(After(Within(rest), "}")) = Len(Within(rest))
    BY <1>1, <1>2, AroundPair DEF Closed, Within
  <2>2. Onward(rest) = After(Within(rest), "}")
    BY DEF Onward, Rest, Within
  <2> QED BY <2>1, <2>2
<1> QED BY <1>0, <1>1, <1>2

\* Lengths are the sizes by which texts shrink.
Lengths == [rest \in Tokens |-> Len(rest)]

LEMMA LengthsType == Lengths \in [Tokens -> Nat]
BY DEF Lengths, Tokens

LEMMA TurnShortens ==
    ASSUME NEW rest \in Tokens, Open(rest), Closed(rest)
    PROVE  Onward(rest) \in Tokens /\ Lengths[Onward(rest)] < Lengths[rest]
<1>0. \A x \in Tokens : Lengths[x] = Len(x) /\ Lengths[x] \in Nat
  BY LengthsType DEF Lengths
<1>1. /\ Onward(rest) \in Tokens /\ Len(Onward(rest)) \in Nat
      /\ Len(Onward(rest)) + 4 <= Len(rest)
  BY Turn DEF Tokens
<1> QED BY <1>0, <1>1

\* The equation of validate_variables' loop, as it is written, holds: there is such a function.
LEMMA ValidatingIs ==
    ASSUME NEW allowed, NEW rest \in Tokens
    PROVE  Validating(allowed)[rest]
             <=> ~Open(rest) \/ (Named(rest, allowed) /\ Validating(allowed)[Onward(rest)])
<1> DEFINE body(g, x) == ~Open(x) \/ (Named(x, allowed) /\ g[Onward(x)])
           def(g) == [x \in Tokens |-> body(g, x)]
           E == [p \in [Tokens -> BOOLEAN] \X Tokens |-> body(p[1], p[2])]
<1>1. \A g \in [Tokens -> BOOLEAN], x \in Tokens : E[<<g, x>>] = body(g, x) /\ E[<<g, x>>] \in BOOLEAN
  BY Zenon
<1>2. ASSUME NEW g \in [Tokens -> BOOLEAN], NEW h \in [Tokens -> BOOLEAN], NEW x \in Tokens,
             Smaller(Tokens, Lengths, g, h, x)
      PROVE  E[<<g, x>>] = E[<<h, x>>]
  <2>1. CASE ~Open(x) \/ ~Named(x, allowed)
    BY <1>1, <2>1
  <2>2. CASE Open(x) /\ Named(x, allowed)
    <3>1. Onward(x) \in Tokens /\ Lengths[Onward(x)] < Lengths[x]
      BY <2>2, TurnShortens DEF Named
    <3>2. g[Onward(x)] = h[Onward(x)]
      BY <1>2, <3>1 DEF Smaller
    <3> QED BY <1>1, <3>2
  <2> QED BY <2>1, <2>2
<1> HIDE DEF E
<1>3. PICK f \in [Tokens -> BOOLEAN] : \A x \in Tokens : f[x] = E[<<f, x>>]
  <2>1. TRUE \in BOOLEAN
    OBVIOUS
  <2>2. \A g, h \in [Tokens -> BOOLEAN], x \in Tokens :
           Smaller(Tokens, Lengths, g, h, x) => E[<<g, x>>] = E[<<h, x>>]
    BY <1>2
  <2>3. \A g \in [Tokens -> BOOLEAN], x \in Tokens : E[<<g, x>>] \in BOOLEAN
    BY <1>1
  <2>4. PICK V : V = BOOLEAN
    OBVIOUS
  <2>5. Shrinks(Tokens, V, Lengths, E)
    BY <2>1, <2>2, <2>3, <2>4, LengthsType DEF Shrinks
  <2>6. \E f \in [Tokens -> V] : \A x \in Tokens : f[x] = E[<<f, x>>]
    BY ONLY <2>5, RecursionExists
  <2> QED BY <2>4, <2>6
<1>4. f = def(f)
  BY <1>1, <1>3
<1>5. Validating(allowed) = CHOOSE g : g = def(g)
  BY DEF Validating, Open, Named, Closed, Name, Onward
<1>6. Validating(allowed) = def(Validating(allowed))
  BY <1>4, <1>5, Zenon
<1> QED BY <1>6

\* What render_text answers, and what prepare_script does.
Answer == [ok : BOOLEAN, text : Tokens]

LEMMA PrependType ==
    ASSUME NEW head \in Tokens, NEW r \in Answer
    PROVE  /\ Prepend(head, r) \in Answer /\ Prepend(head, r).ok = r.ok
           /\ r.ok => Prepend(head, r).text = head \o r.text
           /\ ~r.ok => Prepend(head, r) = r
<1>1. head \o r.text \in Tokens /\ r.ok \in BOOLEAN
  BY DEF Answer, Tokens
<1>2. CASE r.ok
  <2>1. Prepend(head, r) = [r EXCEPT !.text = head \o r.text]
    BY <1>2 DEF Prepend
  <2> QED BY <1>1, <1>2, <2>1 DEF Answer
<1>3. CASE ~r.ok
  BY <1>3 DEF Prepend
<1> QED BY <1>1, <1>2, <1>3

LEMMA ErrorType == Error \in Answer /\ ~Error.ok /\ Error.text = <<>>
BY DEF Error, Answer, Tokens

\* render_text's loop: one turn of it, by what g says of the rest.
Whole(rest) == [ok |-> TRUE, text |-> rest]
Rendered(v, g, x) ==
    IF ~Open(x) THEN Whole(x)
    ELSE IF ~Named(x, DOMAIN v) THEN Error
    ELSE Prepend(Literal(x) \o v[Name(x)], g[Onward(x)])

\* Its equation holds, and its values are answers.
LEMMA RenderingIs ==
    ASSUME NEW K, NEW v \in [K -> Tokens], NEW rest \in Tokens
    PROVE  /\ Rendering(v)[rest] = Rendered(v, Rendering(v), rest)
           /\ Rendering(v)[rest] \in Answer
<1> DEFINE def(g) == [x \in Tokens |-> Rendered(v, g, x)]
           E == [p \in [Tokens -> Answer] \X Tokens |-> Rendered(v, p[1], p[2])]
<1>1. ASSUME NEW g, NEW x \in Tokens,
             Open(x) /\ Named(x, K) => g[Onward(x)] \in Answer
      PROVE  Rendered(v, g, x) \in Answer
  <2>1. CASE ~Open(x)
    BY <2>1 DEF Rendered, Whole, Answer
  <2>2. CASE Open(x) /\ ~Named(x, K)
    BY <2>2, ErrorType DEF Rendered
  <2>3. CASE Open(x) /\ Named(x, K)
    <3>1. Literal(x) \in Tokens
      BY <2>3, Turn DEF Tokens
    <3>2. v[Name(x)] \in Tokens
      BY <2>3 DEF Named
    <3>3. Literal(x) \o v[Name(x)] \in Tokens
      BY <3>1, <3>2 DEF Tokens
    <3>4. Prepend(Literal(x) \o v[Name(x)], g[Onward(x)]) \in Answer
      BY <1>1, <2>3, <3>3, PrependType
    <3> QED BY <2>3, <3>4 DEF Rendered
  <2> QED BY <2>1, <2>2, <2>3
<1>2. \A x \in Tokens : Open(x) /\ Named(x, K) => Onward(x) \in Tokens /\ Lengths[Onward(x)] < Lengths[x]
  BY TurnShortens DEF Named
<1>3. \A g \in [Tokens -> Answer], x \in Tokens : E[<<g, x>>] = Rendered(v, g, x)
  BY Zenon
<1>4. Shrinks(Tokens, Answer, Lengths, E)
  <2>1. \A g \in [Tokens -> Answer], x \in Tokens : E[<<g, x>>] \in Answer
    BY <1>1, <1>2, <1>3
  <2>2. ASSUME NEW g \in [Tokens -> Answer], NEW h \in [Tokens -> Answer], NEW x \in Tokens,
               Smaller(Tokens, Lengths, g, h, x)
        PROVE  E[<<g, x>>] = E[<<h, x>>]
    <3>1. Open(x) /\ Named(x, K) => g[Onward(x)] = h[Onward(x)]
      BY <1>2, <2>2 DEF Smaller
    <3>2. Rendered(v, g, x) = Rendered(v, h, x)
      BY <3>1 DEF Rendered
    <3> QED BY <1>3, <3>2
  <2>3. Answer # {}
    BY ErrorType
  <2> HIDE DEF E
  <2> QED BY <2>1, <2>2, <2>3, LengthsType DEF Shrinks
<1> HIDE DEF E
<1>5. PICK f \in [Tokens -> Answer] : \A x \in Tokens : f[x] = E[<<f, x>>]
  BY <1>4, RecursionExists
<1>6. f = def(f)
  BY <1>3, <1>5
<1>7. Rendering(v) = CHOOSE g : g = def(g)
  BY DEF Rendering, Rendered, Whole, Open, Named, Closed, Name, Onward, Literal
<1>8. Rendering(v) = def(Rendering(v))
  BY <1>6, <1>7, Zenon
<1>9. \A x \in Tokens : Rendering(v)[x] = Rendered(v, Rendering(v), x)
  BY <1>8, Zenon
<1> DEFINE T == {x \in Tokens : Rendering(v)[x] \notin Answer}
<1>10. T = {}
  <2> SUFFICES ASSUME T # {} PROVE FALSE
    OBVIOUS
  <2>1. PICK x \in T : \A y \in T : Lengths[x] <= Lengths[y]
    BY LengthsType, LeastOf
  <2>2. Open(x) /\ Named(x, K) => Rendering(v)[Onward(x)] \in Answer
    BY <1>2, <2>1, LengthsType
  <2> QED BY <1>1, <1>9, <2>1, <2>2
<1> QED BY <1>9, <1>10

-----------------------------------------------------------------------------
(* The loop of prepare_script.                                             *)

Made == [ok : BOOLEAN, text : Tokens, env : Seq(Tokens)]
Remaining == [s \in Loop |-> Len(s.rest)]

Finished(s) == [ok |-> TRUE, text |-> s.output \o s.rest, env |-> s.env]
TurnOf(v, s) ==
    [rest   |-> Onward(s.rest),
     output |-> s.output \o Literal(s.rest) \o <<Reference[Len(s.env) + 1]>>,
     env    |-> Append(s.env, v[Name(s.rest)])]
Fails(v, s) == ~Named(s.rest, DOMAIN v) \/ Len(s.env) >= Len(Reference)
Prepares(v, g, s) ==
    IF ~Open(s.rest) THEN Finished(s) ELSE IF Fails(v, s) THEN NoScript ELSE g[TurnOf(v, s)]

LEMMA RemainingType ==
    /\ Remaining \in [Loop -> Nat]
    /\ \A s \in Loop : Remaining[s] = Len(s.rest)
<1>1. \A s \in Loop : Len(s.rest) \in Nat
  BY DEF Loop, Tokens
<1> QED BY <1>1 DEF Remaining

LEMMA NameExists ==
    ASSUME NEW n \in 1 .. Len(Reference)
    PROVE  Reference[n] \in Token
BY TemplateAssumption

LEMMA TurnOfType ==
    ASSUME NEW K, NEW v \in [K -> Tokens], NEW s \in Loop, Open(s.rest), ~Fails(v, s)
    PROVE  /\ TurnOf(v, s) \in Loop /\ Remaining[TurnOf(v, s)] < Remaining[s]
           /\ Len(TurnOf(v, s).env) = Len(s.env) + 1 /\ Len(s.env) + 1 <= Len(Reference)
<1>1. s.rest \in Tokens /\ s.output \in Tokens /\ s.env \in Seq(Tokens)
  BY DEF Loop
<1>2. Onward(s.rest) \in Tokens /\ Lengths[Onward(s.rest)] < Lengths[s.rest]
  BY <1>1, TurnShortens DEF Fails, Named
<1>3. Literal(s.rest) \in Tokens
  BY <1>1, Turn DEF Tokens
<1>4. v[Name(s.rest)] \in Tokens
  BY DEF Fails, Named
<1>5. Len(s.env) \in Nat /\ Len(Reference) \in Nat /\ Len(s.env) + 1 <= Len(Reference)
  BY <1>1, TemplateAssumption DEF Fails
<1>6. Append(s.env, v[Name(s.rest)]) \in Seq(Tokens) /\ Len(Append(s.env, v[Name(s.rest)])) = Len(s.env) + 1
  BY <1>1, <1>4, AppendProperties
<1>7. s.output \o Literal(s.rest) \o <<Reference[Len(s.env) + 1]>> \in Tokens
  <2>1. <<Reference[Len(s.env) + 1]>> \in Tokens
    BY <1>5, NameExists DEF Tokens
  <2> QED BY <1>1, <1>3, <2>1 DEF Tokens
<1>8. TurnOf(v, s) \in Loop
  BY <1>2, <1>6, <1>7 DEF TurnOf, Loop
<1>9. TurnOf(v, s).rest = Onward(s.rest) /\ TurnOf(v, s).env = Append(s.env, v[Name(s.rest)])
  BY DEF TurnOf
<1> QED BY <1>1, <1>2, <1>5, <1>6, <1>8, <1>9, RemainingType DEF Lengths

\* The equation of prepare_script's loop holds.
LEMMA PreparingIs ==
    ASSUME NEW K, NEW v \in [K -> Tokens], NEW s \in Loop
    PROVE  Preparing(v)[s] = Prepares(v, Preparing(v), s)
<1> DEFINE def(g) == [x \in Loop |-> Prepares(v, g, x)]
           E == [p \in [Loop -> Made] \X Loop |-> Prepares(v, p[1], p[2])]
<1>1. \A g \in [Loop -> Made], x \in Loop : E[<<g, x>>] = Prepares(v, g, x)
  BY Zenon
<1>2. \A x \in Loop : Open(x.rest) /\ ~Fails(v, x)
         => TurnOf(v, x) \in Loop /\ Remaining[TurnOf(v, x)] < Remaining[x]
  BY TurnOfType
<1>3. \A x \in Loop : Finished(x) \in Made
  BY DEF Loop, Finished, Made, Tokens
<1>4. NoScript \in Made
  BY DEF NoScript, Made, Tokens
<1>5. Shrinks(Loop, Made, Remaining, E)
  <2>1. ASSUME NEW g \in [Loop -> Made], NEW x \in Loop PROVE E[<<g, x>>] \in Made
    <3>1. CASE ~Open(x.rest)
      BY <1>1, <1>3, <3>1 DEF Prepares
    <3>2. CASE Open(x.rest) /\ Fails(v, x)
      BY <1>1, <1>4, <3>2 DEF Prepares
    <3>3. CASE Open(x.rest) /\ ~Fails(v, x)
      BY <1>1, <1>2, <3>3 DEF Prepares
    <3> QED BY <3>1, <3>2, <3>3
  <2>2. ASSUME NEW g \in [Loop -> Made], NEW h \in [Loop -> Made], NEW x \in Loop,
               Smaller(Loop, Remaining, g, h, x)
        PROVE  E[<<g, x>>] = E[<<h, x>>]
    <3>1. Open(x.rest) /\ ~Fails(v, x) => g[TurnOf(v, x)] = h[TurnOf(v, x)]
      BY <1>2, <2>2 DEF Smaller
    <3>2. Prepares(v, g, x) = Prepares(v, h, x)
      BY <3>1 DEF Prepares
    <3> QED BY <1>1, <3>2
  <2> HIDE DEF E
  <2> QED BY <1>4, <2>1, <2>2, RemainingType DEF Shrinks
<1> HIDE DEF E
<1>6. PICK f \in [Loop -> Made] : \A x \in Loop : f[x] = E[<<f, x>>]
  BY <1>5, RecursionExists
<1>7. f = def(f)
  BY <1>1, <1>6
<1>8. Preparing(v) = CHOOSE g : g = def(g)
  BY DEF Preparing, Prepares, Finished, Fails, TurnOf, Open, Named, Closed, Name, Onward, Literal
<1>9. Preparing(v) = def(Preparing(v))
  BY <1>7, <1>8, Zenon
<1> QED BY <1>9, Zenon

-----------------------------------------------------------------------------
(* What the shell makes of it.                                             *)

\* The token t refers to a variable of env, and to which; where the name of the reference at
\* the head of a script ends.
IsReference(t, env) == \E n \in DOMAIN env : Refers(t, n, env)
Number(t, env) == CHOOSE n \in DOMAIN env : Refers(t, n, env)
Ends(rest) == {i \in 2 .. Len(rest) : rest[i] \notin Letter} \cup {Len(rest) + 1}
End(rest, powershell) == IF powershell THEN Min(Ends(rest)) ELSE 2
Expanded(env, powershell, g, rest) ==
    IF rest = <<>> THEN <<>>
    ELSE IF ~IsReference(Head(rest), env) THEN <<Head(rest)>> \o g[Tail(rest)]
    ELSE (IF End(rest, powershell) = 2 THEN env[Number(Head(rest), env)] ELSE <<>>)
         \o g[SubSeq(rest, End(rest, powershell), Len(rest))]

LEMMA TailShortens ==
    ASSUME NEW rest \in Tokens, rest # <<>>
    PROVE  /\ Head(rest) \in Token /\ <<Head(rest)>> \in Tokens
           /\ Tail(rest) \in Tokens /\ Lengths[Tail(rest)] < Lengths[rest]
<1>1. /\ Head(rest) \in Token /\ Tail(rest) \in Tokens /\ Len(Tail(rest)) = Len(rest) - 1
  BY HeadTailProperties DEF Tokens
<1>2. Len(rest) \in Nat /\ <<Head(rest)>> \in Tokens
  BY <1>1 DEF Tokens
<1> QED BY <1>1, <1>2 DEF Lengths

LEMMA EndShortens ==
    ASSUME NEW rest \in Tokens, rest # <<>>, NEW powershell \in BOOLEAN
    PROVE  LET rest1 == SubSeq(rest, End(rest, powershell), Len(rest))
           IN  /\ rest1 \in Tokens /\ Lengths[rest1] < Lengths[rest]
               /\ End(rest, powershell) = 2 => rest1 = Tail(rest)
<1>1. Len(rest) \in Nat \ {0} /\ \A i \in 1 .. Len(rest) : rest[i] \in Token
  BY DEF Tokens
<1>2. End(rest, powershell) \in 2 .. Len(rest) + 1
  <2>1. Ends(rest) \in SUBSET Int /\ Ends(rest) # {} /\ \A i \in Ends(rest) : 2 <= i
    BY <1>1 DEF Ends
  <2>2. Min(Ends(rest)) \in Ends(rest)
    BY <2>1, MinIsLeast
  <2>3. Ends(rest) \subseteq 2 .. Len(rest) + 1
    BY <1>1 DEF Ends
  <2> QED BY <1>1, <2>2, <2>3 DEF End
<1>3. PICK e \in 2 .. Len(rest) + 1 : e = End(rest, powershell)
  BY <1>2
<1>4. /\ SubSeq(rest, e, Len(rest)) \in Seq(Token)
      /\ Len(SubSeq(rest, e, Len(rest))) = IF e <= Len(rest) THEN Len(rest) - e + 1 ELSE 0
  <2>1. \A i \in e .. Len(rest) : rest[i] \in Token
    BY <1>1
  <2> QED BY <1>1, <1>3, <2>1, SubSeqProperties
<1>5. Tail(rest) = SubSeq(rest, 2, Len(rest))
  BY TailIsSubSeq DEF Tokens
<1>6. SubSeq(rest, e, Len(rest)) \in Tokens
  BY <1>4 DEF Tokens
<1>7. Lengths[SubSeq(rest, e, Len(rest))] < Lengths[rest]
  BY <1>1, <1>3, <1>4, <1>6 DEF Lengths
<1> QED BY <1>3, <1>5, <1>6, <1>7

LEMMA NumberIs ==
    ASSUME NEW env \in Seq(Tokens), NEW t
    PROVE  /\ IsReference(t, env) => /\ Number(t, env) \in 1 .. Len(env) /\ env[Number(t, env)] \in Tokens
                                     /\ Reference[Number(t, env)] = t
           /\ \A n \in 1 .. Len(env) : t = Reference[n] /\ n <= Len(Reference) /\ Len(env) <= Len(Reference)
                => IsReference(t, env) /\ Number(t, env) = n
<1>1. /\ DOMAIN env = 1 .. Len(env) /\ DOMAIN Reference = 1 .. Len(Reference)
      /\ Len(env) \in Nat /\ Len(Reference) \in Nat
  BY TemplateAssumption
<1>2. IsReference(t, env) => /\ Number(t, env) \in 1 .. Len(env) /\ Reference[Number(t, env)] = t
  BY <1>1, Zenon DEF IsReference, Number, Refers
<1>3. IsReference(t, env) => env[Number(t, env)] \in Tokens
  BY <1>2
<1>4. ASSUME NEW n \in 1 .. Len(env), t = Reference[n], n <= Len(Reference), Len(env) <= Len(Reference)
      PROVE  IsReference(t, env) /\ Number(t, env) = n
  <2>1. IsReference(t, env)
    BY <1>1, <1>4 DEF IsReference, Refers
  <2>2. Number(t, env) \in DOMAIN Reference /\ n \in DOMAIN Reference
    BY <1>1, <1>2, <1>4, <2>1
  <2> QED BY <1>2, <1>4, <2>1, <2>2, TemplateAssumption
<1> QED BY <1>2, <1>3, <1>4

\* The equation of what a shell makes of a script holds, and its values are texts.
LEMMA ExpandingIs ==
    ASSUME NEW env \in Seq(Tokens), NEW powershell \in BOOLEAN, NEW rest \in Tokens
    PROVE  /\ Expanding(env, powershell)[rest] = Expanded(env, powershell, Expanding(env, powershell), rest)
           /\ Expanding(env, powershell)[rest] \in Tokens
<1> DEFINE def(g) == [x \in Tokens |-> Expanded(env, powershell, g, x)]
           E == [p \in [Tokens -> Tokens] \X Tokens |-> Expanded(env, powershell, p[1], p[2])]
           after(x) == SubSeq(x, End(x, powershell), Len(x))
<1>1. \A g \in [Tokens -> Tokens], x \in Tokens : E[<<g, x>>] = Expanded(env, powershell, g, x)
  BY Zenon
<1>2. \A x \in Tokens : x # <<>> => /\ Tail(x) \in Tokens /\ Lengths[Tail(x)] < Lengths[x]
                                    /\ after(x) \in Tokens /\ Lengths[after(x)] < Lengths[x]
  BY TailShortens, EndShortens
<1> HIDE DEF E, after
<1>3. ASSUME NEW g, NEW x \in Tokens, x # <<>> => g[Tail(x)] \in Tokens /\ g[after(x)] \in Tokens
      PROVE  Expanded(env, powershell, g, x) \in Tokens
  <2>1. \A a, b \in Tokens : a \o b \in Tokens
    BY DEF Tokens
  <2>2. <<>> \in Tokens
    BY DEF Tokens
  <2>3. CASE x = <<>>
    BY <2>2, <2>3 DEF Expanded
  <2>4. CASE x # <<>> /\ ~IsReference(Head(x), env)
    BY <1>3, <2>1, <2>4, TailShortens DEF Expanded
  <2>5. CASE x # <<>> /\ IsReference(Head(x), env)
    BY <1>3, <2>1, <2>2, <2>5, NumberIs DEF Expanded, after
  <2> QED BY <2>3, <2>4, <2>5
<1>4. Shrinks(Tokens, Tokens, Lengths, E)
  <2>1. \A g \in [Tokens -> Tokens], x \in Tokens : E[<<g, x>>] \in Tokens
    BY <1>1, <1>2, <1>3
  <2>2. ASSUME NEW g \in [Tokens -> Tokens], NEW h \in [Tokens -> Tokens], NEW x \in Tokens,
               Smaller(Tokens, Lengths, g, h, x)
        PROVE  E[<<g, x>>] = E[<<h, x>>]
    <3>1. x # <<>> => g[Tail(x)] = h[Tail(x)] /\ g[after(x)] = h[after(x)]
      BY <1>2, <2>2 DEF Smaller
    <3>2. Expanded(env, powershell, g, x) = Expanded(env, powershell, h, x)
      BY <3>1 DEF Expanded, after
    <3> QED BY <1>1, <3>2
  <2>3. Tokens # {}
    BY DEF Tokens
  <2> QED BY <2>1, <2>2, <2>3, LengthsType DEF Shrinks
<1>5. PICK f \in [Tokens -> Tokens] : \A x \in Tokens : f[x] = E[<<f, x>>]
  BY <1>4, RecursionExists
<1>6. f = def(f)
  BY <1>1, <1>5
<1>7. Expanding(env, powershell) = CHOOSE g : g = def(g)
  BY DEF Expanding, Expanded, IsReference, Number, Ends, End
<1>8. Expanding(env, powershell) = def(Expanding(env, powershell))
  BY <1>6, <1>7, Zenon
<1>9. \A x \in Tokens :
         Expanding(env, powershell)[x] = Expanded(env, powershell, Expanding(env, powershell), x)
  BY <1>8, Zenon
<1> DEFINE T == {x \in Tokens : Expanding(env, powershell)[x] \notin Tokens}
<1>10. T = {}
  <2> SUFFICES ASSUME T # {} PROVE FALSE
    OBVIOUS
  <2>1. PICK x \in T : \A y \in T : Lengths[x] <= Lengths[y]
    BY LengthsType, LeastOf
  <2>2. x # <<>> => /\ Expanding(env, powershell)[Tail(x)] \in Tokens
                    /\ Expanding(env, powershell)[after(x)] \in Tokens
    BY <1>2, <2>1, LengthsType
  <2> QED BY <1>3, <1>9, <2>1, <2>2
<1> QED BY <1>9, <1>10

\* A token of a text that is saved is no reference.
Plain == {t \in Token : \A n \in DOMAIN Reference : t # Reference[n]}

LEMMA PlainText == \A a \in Seq(Plain) : a \in Tokens
BY SeqMonotonic DEF Plain, Tokens

\* The shell leaves a text without references alone.
LEMMA PlainStays ==
    ASSUME NEW env \in Seq(Tokens), Len(env) <= Len(Reference), NEW powershell \in BOOLEAN,
           NEW a \in Seq(Plain), NEW b \in Tokens
    PROVE  Expanding(env, powershell)[a \o b] = a \o Expanding(env, powershell)[b]
<1> DEFINE X == Expanding(env, powershell)
           T == {c \in Seq(Plain) : X[c \o b] # c \o X[b]}
<1>1. SUFFICES ASSUME T # {} PROVE FALSE
  OBVIOUS
<1>2. T \subseteq Tokens
  BY PlainText
<1>3. PICK c \in T : \A d \in T : Lengths[c] <= Lengths[d]
  BY <1>1, <1>2, LengthsType, LeastOf
<1>4. X[b] \in Tokens /\ c \in Tokens /\ c \in Seq(Plain) /\ X[c \o b] # c \o X[b]
  BY <1>2, ExpandingIs
<1>5. ASSUME NEW d \in Seq(Plain), d \in Tokens, Lengths[d] < Lengths[c]
      PROVE  X[d \o b] = d \o X[b]
  <2>1. Lengths[c] \in Nat /\ Lengths[d] \in Nat
    BY <1>4, <1>5, LengthsType, Zenon
  <2>2. ~(Lengths[c] <= Lengths[d])
    BY <1>5, <2>1
  <2> QED BY <1>3, <1>5, <2>2, Zenon
<1> HIDE DEF X, T
<1>6. <<>> \o b = b /\ <<>> \o X[b] = X[b]
  BY <1>4, TokensJoin, Zenon
<1>7. c # <<>>
  BY <1>4, <1>6, Zenon
<1>8. Head(c) \in Plain /\ Tail(c) \in Seq(Plain)
  BY <1>4, <1>7, HeadTailProperties, Zenon
<1>9. Head(c) \in Token /\ <<Head(c)>> \in Tokens /\ Tail(c) \in Tokens /\ Lengths[Tail(c)] < Lengths[c]
  BY <1>4, <1>7, TailShortens, Zenon
<1>10. X[Tail(c) \o b] = Tail(c) \o X[b]
  BY <1>5, <1>8, <1>9, Zenon
<1>11. c = <<Head(c)>> \o Tail(c)
  BY <1>4, <1>7, Decomposed, Zenon
<1>12. /\ (<<Head(c)>> \o Tail(c)) \o b = <<Head(c)>> \o (Tail(c) \o b) /\ Tail(c) \o b \in Tokens
       /\ (<<Head(c)>> \o Tail(c)) \o X[b] = <<Head(c)>> \o (Tail(c) \o X[b])
  <2>1. Tail(c) \o b \in Tokens
    BY <1>9, TokensJoin, Zenon
  <2>2. Associate(<<Head(c)>>, Tail(c), b)
    BY <1>9, TokensAssociate, Zenon
  <2>3. Associate(<<Head(c)>>, Tail(c), X[b])
    BY <1>4, <1>9, TokensAssociate, Zenon
  <2> QED BY <2>1, <2>2, <2>3, Zenon DEF Associate
<1>13. c \o b = <<Head(c)>> \o (Tail(c) \o b) /\ c \o X[b] = <<Head(c)>> \o (Tail(c) \o X[b])
  BY <1>11, <1>12, Zenon
<1>14. /\ c \o b \in Tokens /\ c \o b # <<>>
       /\ Head(c \o b) = Head(c) /\ Tail(c \o b) = Tail(c) \o b
  BY <1>9, <1>12, <1>13, FirstAndRest
<1>15. ~IsReference(Head(c), env)
  <2>1. \A n \in DOMAIN env : n \in DOMAIN Reference
    BY TemplateAssumption
  <2> QED BY <1>8, <2>1, Zenon DEF Plain, IsReference, Refers
<1>16. X[c \o b] = Expanded(env, powershell, X, c \o b)
  BY <1>14, ExpandingIs, Zenon DEF X
<1>17. X[c \o b] = <<Head(c)>> \o X[Tail(c) \o b]
  BY <1>14, <1>15, <1>16, Zenon DEF Expanded
<1> QED BY <1>4, <1>10, <1>13, <1>17, Zenon

\* It puts a value in the place of a reference, in PowerShell if no letter follows.
LEMMA ReferenceGoes ==
    ASSUME NEW env \in Seq(Tokens), Len(env) <= Len(Reference), NEW powershell \in BOOLEAN,
           NEW n \in 1 .. Len(env), NEW b \in Tokens,
           powershell => b = <<>> \/ Head(b) \notin Letter
    PROVE  Expanding(env, powershell)[<<Reference[n]>> \o b] = env[n] \o Expanding(env, powershell)[b]
<1> DEFINE x == <<Reference[n]>> \o b
<1>1. n \in 1 .. Len(Reference) /\ Reference[n] \in Token
  <2>1. n \in 1 .. Len(Reference)
    BY TemplateAssumption
  <2> QED BY <2>1, NameExists
<1>2. x \in Tokens /\ x # <<>> /\ Head(x) = Reference[n] /\ Tail(x) = b
  BY <1>1, FirstAndRest
<1>3. IsReference(Head(x), env) /\ Number(Head(x), env) = n
  BY <1>1, <1>2, NumberIs
<1> HIDE DEF x
<1>4. /\ Len(x) \in Nat \ {0} /\ Len(b) \in Nat /\ Len(b) = Len(x) - 1
      /\ IF b = <<>> THEN Len(b) = 0 ELSE Len(b) # 0 /\ x[2] = Head(b)
  <2>1. /\ Len(b) = Len(x) - 1 /\ \A i \in 1 .. Len(b) : b[i] = x[i + 1]
    BY <1>2, HeadTailProperties DEF Tokens
  <2>2. Len(x) \in Nat \ {0} /\ Len(b) \in Nat
    BY <1>2 DEF Tokens
  <2>3. IF b = <<>> THEN Len(b) = 0 ELSE Len(b) # 0 /\ Head(b) = b[1]
    BY EmptySeq DEF Tokens
  <2>4. b # <<>> => b[1] = x[2]
    BY <2>1, <2>2, <2>3
  <2> QED BY <2>1, <2>2, <2>3, <2>4, Zenon
<1>5. End(x, powershell) = 2
  <2>1. CASE ~powershell
    BY <2>1 DEF End
  <2>2. CASE powershell
    <3>1. 2 \in Ends(x)
      <4>1. CASE b = <<>>
        <5>1. Len(b) = 0
          BY <1>4, <4>1, Zenon
        <5>2. \A k \in Nat : 0 = k - 1 => 2 = k + 1
          OBVIOUS
        <5>3. Len(x) \in Nat /\ 0 = Len(x) - 1
          BY <1>4, <5>1, Zenon
        <5>4. 2 = Len(x) + 1
          BY <5>2, <5>3, Zenon
        <5> QED BY <5>4, Zenon DEF Ends
      <4>2. CASE b # <<>>
        <5>1. 2 \in 2 .. Len(x)
          BY <1>4, <4>2
        <5>2. x[2] \notin Letter
          BY <1>4, <2>2, <4>2, Zenon
        <5> QED BY <5>1, <5>2, Zenon DEF Ends
      <4> QED BY <4>1, <4>2
    <3>2. Ends(x) \in SUBSET Int /\ Ends(x) # {} /\ \A i \in Ends(x) : 2 <= i
      BY <1>4, <3>1 DEF Ends
    <3>3. Min(Ends(x)) \in Ends(x) /\ \A i \in Ends(x) : Min(Ends(x)) <= i
      BY <3>2, MinIsLeast
    <3> QED BY <2>2, <3>1, <3>2, <3>3 DEF End
  <2> QED BY <2>1, <2>2
<1>6. SubSeq(x, End(x, powershell), Len(x)) = b
  BY <1>2, <1>5, EndShortens
<1>7. Expanding(env, powershell)[x] = Expanded(env, powershell, Expanding(env, powershell), x)
  BY <1>2, ExpandingIs, Zenon
<1>8. Expanding(env, powershell)[x] = env[n] \o Expanding(env, powershell)[b]
  BY <1>2, <1>3, <1>5, <1>6, <1>7, Zenon DEF Expanded
<1> QED BY <1>8 DEF x

-----------------------------------------------------------------------------
(* Texts that were accepted.                                               *)

\* What an event shows under the names that a trigger offers.
LEMMA OnlyType ==
    ASSUME NEW K, NEW v \in [K -> Tokens], NEW allowed \in SUBSET K
    PROVE  /\ Only(v, allowed) \in [allowed -> Tokens] /\ DOMAIN v = K
           /\ \A k \in allowed : Only(v, allowed)[k] = v[k]
<1>1. DOMAIN v = K /\ K \cap allowed = allowed
  OBVIOUS
<1>2. Only(v, allowed) = [k \in allowed |-> v[k]]
  BY <1>1 DEF Only
<1> QED BY <1>1, <1>2

\* A text that validate_variables accepts is rendered for every event that has the variables,
\* and shows of the event only those.
THEOREM AcceptedIsRendered ==
    ASSUME NEW K, NEW v \in [K -> Tokens], NEW allowed \in SUBSET K, NEW text \in Tokens,
           ValidateVariables(text, allowed)
    PROVE  RenderText(text, v).ok /\ RenderText(text, v) = RenderText(text, Only(v, allowed))
<1> DEFINE w == Only(v, allowed)
           fine(x) == Rendering(v)[x].ok /\ Rendering(v)[x] = Rendering(w)[x]
           T == {x \in Tokens : Validating(allowed)[x] /\ ~fine(x)}
<1>1. w \in [allowed -> Tokens] /\ DOMAIN v = K /\ DOMAIN w = allowed /\ \A k \in allowed : w[k] = v[k]
  BY OnlyType
<1> HIDE DEF w
<1>2. T = {}
  <2> SUFFICES ASSUME T # {} PROVE FALSE
    OBVIOUS
  <2>1. T \subseteq Tokens
    OBVIOUS
  <2>2. PICK x \in T : \A y \in T : Lengths[x] <= Lengths[y]
    BY <2>1, LengthsType, LeastOf
  <2>3. /\ Rendering(v)[x] = Rendered(v, Rendering(v), x)
        /\ Rendering(w)[x] = Rendered(w, Rendering(w), x)
    BY <1>1, <2>2, RenderingIs, Zenon
  <2>4. CASE ~Open(x)
    <3>1. Rendering(v)[x] = Whole(x) /\ Rendering(w)[x] = Whole(x)
      BY <2>3, <2>4 DEF Rendered
    <3>2. Whole(x).ok
      BY DEF Whole
    <3> QED BY <2>2, <3>1, <3>2
  <2>5. CASE Open(x)
    <3>1. Named(x, allowed) /\ Validating(allowed)[Onward(x)]
      BY <2>2, <2>5, ValidatingIs, Zenon
    <3>2. Onward(x) \in Tokens /\ Lengths[Onward(x)] < Lengths[x]
      BY <2>2, <2>5, <3>1, TurnShortens DEF Named
    <3>3. fine(Onward(x))
      BY <2>2, <3>1, <3>2, LengthsType
    <3>4. Named(x, DOMAIN v) /\ Named(x, DOMAIN w) /\ w[Name(x)] = v[Name(x)]
      BY <1>1, <3>1 DEF Named
    <3>5. /\ Rendering(v)[x] = Prepend(Literal(x) \o v[Name(x)], Rendering(v)[Onward(x)])
          /\ Rendering(w)[x] = Prepend(Literal(x) \o v[Name(x)], Rendering(w)[Onward(x)])
      BY <2>3, <2>5, <3>4, Zenon DEF Rendered
    <3>6. Literal(x) \o v[Name(x)] \in Tokens
      <4>1. Literal(x) \in Tokens
        BY <2>2, <2>5, Turn DEF Tokens
      <4>2. v[Name(x)] \in Tokens
        BY <3>1 DEF Named
      <4> QED BY <4>1, <4>2, TokensJoin, Zenon
    <3>7. Rendering(v)[Onward(x)] \in Answer
      BY <3>2, RenderingIs, Zenon
    <3>8. Rendering(v)[x].ok
      BY <3>3, <3>5, <3>6, <3>7, PrependType
    <3> QED BY <2>2, <3>3, <3>5, <3>8
  <2> QED BY <2>4, <2>5
<1> QED BY <1>2 DEF ValidateVariables, RenderText, w

\* There are names enough for what is left of a text: each variable takes four braces.
Affords(s) == 4 * Len(s.env) + Len(s.rest) <= 4 * Len(Reference)

LEMMA TurnAffords ==
    ASSUME NEW K, NEW v \in [K -> Tokens], NEW s \in Loop, Affords(s), Open(s.rest), Named(s.rest, K)
    PROVE  ~Fails(v, s) /\ Affords(TurnOf(v, s))
<1>1. s.rest \in Tokens /\ Len(s.env) \in Nat /\ Len(Reference) \in Nat /\ Len(s.rest) \in Nat
  <2>1. s.rest \in Tokens /\ s.env \in Seq(Tokens)
    BY DEF Loop
  <2>2. Len(s.rest) \in Nat
    BY <2>1 DEF Tokens
  <2>3. Len(Reference) \in Nat
    BY TemplateAssumption
  <2> QED BY <2>1, <2>2, <2>3
<1>2. Len(Onward(s.rest)) \in Nat /\ Len(Onward(s.rest)) + 4 <= Len(s.rest)
  <2>1. Closed(s.rest)
    BY DEF Named
  <2>2. s.rest \in Seq(Token)
    BY <1>1 DEF Tokens
  <2> QED BY <2>1, <2>2, Turn
<1>0. \A e, r, o, n \in Nat :
         4 * e + r <= 4 * n /\ o + 4 <= r => ~(e >= n) /\ 4 * (e + 1) + o <= 4 * n
  OBVIOUS
<1>3. ~(Len(s.env) >= Len(Reference)) /\ 4 * (Len(s.env) + 1) + Len(Onward(s.rest)) <= 4 * Len(Reference)
  BY <1>0, <1>1, <1>2, Zenon DEF Affords
<1>4. ~Fails(v, s)
  <2>1. DOMAIN v = K
    OBVIOUS
  <2> QED BY <1>3, <2>1 DEF Fails
<1>5. Len(TurnOf(v, s).env) = Len(s.env) + 1 /\ TurnOf(v, s).rest = Onward(s.rest)
  BY <1>4, TurnOfType DEF TurnOf
<1>7. Affords(TurnOf(v, s))
  BY <1>3, <1>5, Zenon DEF Affords
<1> QED BY <1>4, <1>7

LEMMA AcceptedLoop ==
    ASSUME NEW K, NEW v \in [K -> Tokens], NEW allowed \in SUBSET K, NEW s \in Loop,
           Affords(s), Validating(allowed)[s.rest]
    PROVE  Preparing(v)[s].ok
<1> DEFINE T == {x \in Loop : Affords(x) /\ Validating(allowed)[x.rest] /\ ~Preparing(v)[x].ok}
<1>1. SUFFICES ASSUME T # {} PROVE FALSE
  OBVIOUS
<1>2. T \subseteq Loop
  OBVIOUS
<1>3. PICK x \in T : \A y \in T : Remaining[x] <= Remaining[y]
  BY <1>1, <1>2, RemainingType, LeastOf
<1>4. Preparing(v)[x] = Prepares(v, Preparing(v), x)
  BY <1>3, PreparingIs, Zenon
<1>5. CASE ~Open(x.rest)
  <2>1. Preparing(v)[x] = Finished(x)
    BY <1>4, <1>5 DEF Prepares
  <2> QED BY <1>3, <2>1 DEF Finished
<1>6. CASE Open(x.rest)
  <2>0. x.rest \in Tokens
    BY <1>3 DEF Loop
  <2>1. Named(x.rest, allowed) /\ Validating(allowed)[Onward(x.rest)]
    BY <1>3, <1>6, <2>0, ValidatingIs, Zenon
  <2>2. Named(x.rest, K)
    BY <2>1 DEF Named
  <2>3. ~Fails(v, x) /\ Affords(TurnOf(v, x))
    BY <1>3, <1>6, <2>2, TurnAffords
  <2>4. TurnOf(v, x) \in Loop /\ Remaining[TurnOf(v, x)] < Remaining[x]
    BY <1>3, <1>6, <2>3, TurnOfType
  <2>5. TurnOf(v, x).rest = Onward(x.rest)
    BY DEF TurnOf
  <2>6. Preparing(v)[x] = Preparing(v)[TurnOf(v, x)]
    BY <1>4, <1>6, <2>3, Zenon DEF Prepares
  <2> QED BY <1>3, <2>1, <2>3, <2>4, <2>5, <2>6, RemainingType
<1> QED BY <1>5, <1>6

LEMMA LoopStarts ==
    ASSUME NEW text \in Tokens, Len(text) <= 4 * Len(Reference)
    PROVE  LET s == [rest |-> text, output |-> <<>>, env |-> <<>>] IN s \in Loop /\ Affords(s)
<1>1. <<>> \in Tokens /\ <<>> \in Seq(Tokens) /\ Len(<<>>) = 0 /\ Len(text) \in Nat /\ Len(Reference) \in Nat
  BY TokensJoin, TemplateAssumption DEF Tokens
<1> QED BY <1>1 DEF Loop, Affords

\* As a script it is prepared too, as long as there are names for its variables.
THEOREM AcceptedIsPrepared ==
    ASSUME NEW K, NEW v \in [K -> Tokens], NEW allowed \in SUBSET K, NEW text \in Tokens,
           Len(text) <= 4 * Len(Reference), ValidateVariables(text, allowed)
    PROVE  PrepareScript(text, v).ok
<1> DEFINE s == [rest |-> text, output |-> <<>>, env |-> <<>>]
<1>1. s \in Loop /\ Affords(s) /\ s.rest = text
  BY LoopStarts
<1> HIDE DEF s
<1>2. Preparing(v)[s].ok
  BY <1>1, AcceptedLoop DEF ValidateVariables
<1> QED BY <1>2 DEF PrepareScript, s

-----------------------------------------------------------------------------
(* Values are data.                                                        *)

\* The turns of a text without references.
LEMMA PlainTurn ==
    ASSUME NEW x \in Seq(Plain), Open(x)
    PROVE  /\ Literal(x) \in Seq(Plain)
           /\ Closed(x) => Onward(x) \in Seq(Plain) /\ Onward(x) \in Tokens /\ Lengths[Onward(x)] < Lengths[x]
<1>1. x \in Tokens
  BY PlainText
<1>2. PICK P : P = Plain
  OBVIOUS
<1>3. Literal(x) \in Seq(P) /\ (Closed(x) => Onward(x) \in Seq(P))
  BY <1>2, Turn, Zenon
<1> QED BY <1>1, <1>2, <1>3, TurnShortens, Zenon

LEMMA EmptyStays ==
    ASSUME NEW env \in Seq(Tokens), NEW powershell \in BOOLEAN
    PROVE  Expanding(env, powershell)[<<>>] = <<>>
<1>1. <<>> \in Tokens
  BY TokensJoin
<1>2. Expanding(env, powershell)[<<>>] = Expanded(env, powershell, Expanding(env, powershell), <<>>)
  BY <1>1, ExpandingIs, Zenon
<1> QED BY <1>2 DEF Expanded

\* A literal and a variable go before what is rendered of the rest.
RendersTurn(v, x) ==
    /\ Rendering(v)[Onward(x)] \in Answer /\ Literal(x) \in Tokens /\ v[Name(x)] \in Tokens
    /\ Rendering(v)[x].ok = Rendering(v)[Onward(x)].ok
    /\ Rendering(v)[x].text = IF Rendering(v)[Onward(x)].ok
                              THEN (Literal(x) \o v[Name(x)]) \o Rendering(v)[Onward(x)].text
                              ELSE Rendering(v)[Onward(x)].text

LEMMA TurnRenders ==
    ASSUME NEW K, NEW v \in [K -> Tokens], NEW x \in Tokens, Open(x), Named(x, K)
    PROVE  RendersTurn(v, x)
<1>1. Onward(x) \in Tokens
  BY TurnShortens DEF Named
<1>2. Literal(x) \in Tokens
  BY Turn DEF Tokens
<1>3. v[Name(x)] \in Tokens /\ DOMAIN v = K
  BY DEF Named
<1>4. Literal(x) \o v[Name(x)] \in Tokens
  BY <1>2, <1>3, TokensJoin, Zenon
<1>5. Rendering(v)[x] = Rendered(v, Rendering(v), x) /\ Rendering(v)[Onward(x)] \in Answer
  BY <1>1, RenderingIs, Zenon
<1>6. Rendering(v)[x] = Prepend(Literal(x) \o v[Name(x)], Rendering(v)[Onward(x)])
  BY <1>3, <1>5, Zenon DEF Rendered
<1> DEFINE h == Literal(x) \o v[Name(x)]
           r == Rendering(v)[Onward(x)]
<1>7. h \in Tokens /\ r \in Answer /\ Rendering(v)[x] = Prepend(h, r)
  BY <1>4, <1>5, <1>6
<1> HIDE DEF h, r
<1>8. Rendering(v)[x].ok = r.ok /\ Rendering(v)[x].text = IF r.ok THEN h \o r.text ELSE r.text
  <2>1. /\ Prepend(h, r).ok = r.ok
        /\ r.ok => Prepend(h, r).text = h \o r.text
        /\ ~r.ok => Prepend(h, r) = r
    BY <1>7, PrependType, Zenon
  <2> QED BY <1>7, <2>1, Zenon
<1> QED BY <1>2, <1>3, <1>7, <1>8, Zenon DEF h, r, RendersTurn

LEMMA TurnStops ==
    ASSUME NEW K, NEW v \in [K -> Tokens], NEW x \in Tokens
    PROVE  Rendering(v)[x] = IF ~Open(x) THEN Whole(x)
                             ELSE IF ~Named(x, K) THEN Error ELSE Rendering(v)[x]
<1>1. DOMAIN v = K
  OBVIOUS
<1>2. Rendering(v)[x] = Rendered(v, Rendering(v), x)
  BY RenderingIs, Zenon
<1> QED BY <1>1, <1>2, Zenon DEF Rendered

\* The n-th value stands in the place of its reference, between a and the rest.
Placed(env, powershell, n, a, b) ==
    /\ a \o (<<Reference[n]>> \o b) \in Tokens
    /\ Expanding(env, powershell)[a \o (<<Reference[n]>> \o b)]
         = (a \o env[n]) \o Expanding(env, powershell)[b]

LEMMA PlainThenReference ==
    ASSUME NEW env \in Seq(Tokens), Len(env) <= Len(Reference), NEW powershell \in BOOLEAN,
           NEW n \in 1 .. Len(env), NEW a \in Seq(Plain), NEW b \in Tokens,
           powershell => b = <<>> \/ Head(b) \notin Letter
    PROVE  Placed(env, powershell, n, a, b)
<1>1. n \in 1 .. Len(Reference) /\ Reference[n] \in Token
  <2>1. n \in 1 .. Len(Reference)
    BY TemplateAssumption
  <2> QED BY <2>1, NameExists
<1>2. <<Reference[n]>> \o b \in Tokens /\ a \in Tokens
  BY <1>1, FirstAndRest, PlainText
<1>3. Expanding(env, powershell)[a \o (<<Reference[n]>> \o b)]
        = a \o Expanding(env, powershell)[<<Reference[n]>> \o b]
  BY <1>2, PlainStays
<1>4. Expanding(env, powershell)[<<Reference[n]>> \o b] = env[n] \o Expanding(env, powershell)[b]
  BY ReferenceGoes
<1>5. env[n] \in Tokens
  OBVIOUS
<1>6. Expanding(env, powershell)[b] \in Tokens
  BY ExpandingIs, Zenon
<1>7. a \o (<<Reference[n]>> \o b) \in Tokens
  BY <1>2, TokensJoin, Zenon
<1>8. a \o (env[n] \o Expanding(env, powershell)[b]) = (a \o env[n]) \o Expanding(env, powershell)[b]
  BY <1>2, <1>5, <1>6, TokensJoin, Zenon
<1> QED BY <1>3, <1>4, <1>7, <1>8, Zenon DEF Placed

\* The values v are those of env, and each mark refers to its value.
MarkedBy(v, marks, env, K) ==
    \E index \in [K -> 1 .. Len(env)] :
       \A k \in K : v[k] = env[index[k]] /\ marks[k] = <<Reference[index[k]]>>
Replaced(text, v, marks, env) ==
    /\ RenderText(text, v).ok = RenderText(text, marks).ok
    /\ RenderText(text, v).text = Expand(RenderText(text, marks).text, env, FALSE)

\* Values are data for render_text: rendering with the values is rendering with marks, whose
\* places the values then take.
THEOREM MarksAreReplaced ==
    ASSUME NEW K, NEW env \in Seq(Tokens), Len(env) <= Len(Reference),
           NEW v \in [K -> Tokens], NEW marks \in [K -> Tokens], MarkedBy(v, marks, env, K),
           NEW text \in Seq(Plain)
    PROVE  Replaced(text, v, marks, env)
<1>0. PICK index \in [K -> 1 .. Len(env)] :
         \A k \in K : v[k] = env[index[k]] /\ marks[k] = <<Reference[index[k]]>>
  BY Zenon DEF MarkedBy
<1> DEFINE X == Expanding(env, FALSE)
           fine(x) == /\ Rendering(v)[x].ok = Rendering(marks)[x].ok
                      /\ Rendering(v)[x].text = X[Rendering(marks)[x].text]
           T == {x \in Seq(Plain) : ~fine(x)}
<1>1. T = {}
  <2> SUFFICES ASSUME T # {} PROVE FALSE
    OBVIOUS
  <2>1. T \subseteq Tokens
    BY PlainText
  <2>2. PICK x \in T : \A y \in T : Lengths[x] <= Lengths[y]
    BY <2>1, LengthsType, LeastOf
  <2>3. x \in Seq(Plain) /\ x \in Tokens /\ ~fine(x)
    BY <2>1, <2>2
  <2>4. ASSUME NEW y \in Seq(Plain), y \in Tokens, Lengths[y] < Lengths[x] PROVE fine(y)
    <3>1. Lengths[x] \in Nat /\ Lengths[y] \in Nat
      BY <2>3, <2>4, LengthsType
    <3>2. ~(Lengths[x] <= Lengths[y])
      BY <2>4, <3>1
    <3> QED BY <2>2, <3>2, Zenon
  <2> HIDE DEF T
  <2>5. CASE ~Open(x)
    <3>1. Rendering(v)[x] = Whole(x) /\ Rendering(marks)[x] = Whole(x)
      BY <2>3, <2>5, TurnStops, Zenon
    <3>2. X[x \o <<>>] = x \o X[<<>>] /\ X[<<>>] = <<>>
      <4>1. <<>> \in Tokens /\ FALSE \in BOOLEAN
        BY TokensJoin
      <4> QED BY <2>3, <4>1, PlainStays, EmptyStays, Zenon
    <3>3. x \o <<>> = x
      BY <2>3, TokensJoin, Zenon
    <3>4. Whole(x).text = x
      BY DEF Whole
    <3> QED BY <2>3, <3>1, <3>2, <3>3, <3>4, Zenon
  <2>6. CASE Open(x) /\ ~Named(x, K)
    <3>1. Rendering(v)[x] = Error /\ Rendering(marks)[x] = Error
      BY <2>3, <2>6, TurnStops, Zenon
    <3>2. X[<<>>] = <<>>
      BY EmptyStays
    <3> QED BY <2>3, <3>1, <3>2, ErrorType, Zenon
  <2>7. CASE Open(x) /\ Named(x, K)
    <3> DEFINE o == Onward(x)
               n == index[Name(x)]
    <3>1. Literal(x) \in Seq(Plain) /\ o \in Seq(Plain) /\ o \in Tokens /\ Lengths[o] < Lengths[x]
      BY <2>3, <2>7, PlainTurn DEF Named
    <3>2. Name(x) \in K /\ n \in 1 .. Len(env) /\ v[Name(x)] = env[n] /\ marks[Name(x)] = <<Reference[n]>>
      BY <1>0, <2>7 DEF Named
    <3>3. fine(o)
      BY <2>4, <3>1
    <3>4. /\ Rendering(v)[o] \in Answer
          /\ Rendering(v)[x].ok = Rendering(v)[o].ok
          /\ Rendering(v)[x].text = IF Rendering(v)[o].ok
                                    THEN (Literal(x) \o v[Name(x)]) \o Rendering(v)[o].text
                                    ELSE Rendering(v)[o].text
      <4>1. RendersTurn(v, x)
        BY <2>3, <2>7, TurnRenders, Zenon
      <4> QED BY <4>1, Zenon DEF RendersTurn
    <3>5. /\ Rendering(marks)[o] \in Answer
          /\ Literal(x) \in Tokens /\ marks[Name(x)] \in Tokens
          /\ Rendering(marks)[x].ok = Rendering(marks)[o].ok
          /\ Rendering(marks)[x].text = IF Rendering(marks)[o].ok
                                        THEN (Literal(x) \o marks[Name(x)]) \o Rendering(marks)[o].text
                                        ELSE Rendering(marks)[o].text
      <4>1. marks \in [K -> Tokens] /\ x \in Tokens /\ Open(x) /\ Named(x, K)
        BY <2>3, <2>7
      <4>2. RendersTurn(marks, x)
        BY <4>1, TurnRenders, Zenon
      <4> QED BY <4>2, Zenon DEF RendersTurn
    <3> HIDE DEF o, n, X
    <3>6. CASE ~Rendering(v)[o].ok
      <4>1. Rendering(v)[x].text = Rendering(v)[o].text /\ Rendering(marks)[x].text = Rendering(marks)[o].text
        BY <3>3, <3>4, <3>5, <3>6, Zenon
      <4> QED BY <2>3, <3>3, <3>4, <3>5, <4>1, Zenon
    <3>7. CASE Rendering(v)[o].ok
      <4> DEFINE b == Rendering(marks)[o].text
      <4>1. b \in Tokens
        BY <3>5 DEF Answer
      <4>2. Rendering(marks)[x].text = (Literal(x) \o <<Reference[n]>>) \o b
        BY <3>2, <3>3, <3>5, <3>7, Zenon
      <4>3. Rendering(v)[x].text = (Literal(x) \o env[n]) \o X[b]
        BY <3>2, <3>3, <3>4, <3>7, Zenon
      <4> HIDE DEF b
      <4>4. (Literal(x) \o <<Reference[n]>>) \o b = Literal(x) \o (<<Reference[n]>> \o b)
        <5>1. <<Reference[n]>> \in Tokens
          BY <3>2, <3>5, Zenon
        <5> QED BY <3>5, <4>1, <5>1, TokensJoin, Zenon
      <4>5. X[Literal(x) \o (<<Reference[n]>> \o b)] = (Literal(x) \o env[n]) \o X[b]
        BY <3>1, <3>2, <4>1, PlainThenReference DEF X, Placed
      <4> QED BY <2>3, <3>3, <3>4, <3>5, <4>2, <4>3, <4>4, <4>5, Zenon
    <3> QED BY <3>6, <3>7
  <2> QED BY <2>5, <2>6, <2>7
<1>2. fine(text)
  BY <1>1
<1> QED BY <1>2 DEF Replaced, RenderText, Expand

\* No letter follows a reference in a part of a script when none does in the whole.
LEMMA SeparateParts ==
    ASSUME NEW n \in DOMAIN Reference, NEW a \in Tokens, NEW b \in Tokens,
           Separate(a \o (<<Reference[n]>> \o b))
    PROVE  Separate(b) /\ (b = <<>> \/ Head(b) \notin Letter)
<1> DEFINE one == <<Reference[n]>>
           w == a \o one
           x == w \o b
<1>1. Reference[n] \in Token
  <2>1. n \in 1 .. Len(Reference)
    BY TemplateAssumption
  <2> QED BY <2>1, NameExists
<1>2. one \in Tokens /\ Len(one) = 1 /\ one[1] = Reference[n]
  <2>1. one \in Tokens
    BY <1>1, TokensJoin, Zenon
  <2> QED BY <2>1
<1> HIDE DEF one
<1>3. w \in Tokens /\ a \o (one \o b) = x
  BY <1>2, TokensJoin, Zenon
<1>4. /\ Len(a) \in Nat /\ Len(w) = Len(a) + 1 /\ w[Len(a) + 1] = Reference[n]
  <2>1. /\ Len(a) \in Nat /\ Len(w) = Len(a) + Len(one)
        /\ \A i \in 1 .. Len(one) : w[Len(a) + i] = one[i]
    BY <1>2, TokensParts, Zenon DEF Beside
  <2>2. 1 \in 1 .. Len(one)
    BY <1>2
  <2> QED BY <1>2, <2>1, <2>2, Zenon
<1> HIDE DEF w
<1>5. /\ Len(b) \in Nat /\ Len(x) = Len(w) + Len(b)
      /\ \A i \in 1 .. Len(w) : x[i] = w[i]
      /\ \A i \in 1 .. Len(b) : x[Len(w) + i] = b[i]
  BY <1>3, TokensParts, Zenon DEF Beside
<1> HIDE DEF x
<1>6. Separate(x)
  BY <1>3 DEF one
<1>7. PICK k \in Nat : k = Len(w) /\ k >= 1
  BY <1>4
<1>8. PICK l \in Nat : l = Len(b)
  BY <1>5
<1>9. /\ \A i \in 1 .. l : x[k + i] = b[i]
      /\ x[k] = Reference[n]
      /\ \A i \in 1 .. Len(x) - 1, m \in DOMAIN Reference : x[i] = Reference[m] => x[i + 1] \notin Letter
      /\ Len(x) = k + l
  <2>1. Len(x) = k + l /\ k = Len(a) + 1 /\ k \in 1 .. Len(w)
    BY <1>4, <1>5, <1>7, <1>8
  <2>2. x[k] = Reference[n]
    BY <1>4, <1>5, <2>1, Zenon
  <2>3. \A i \in 1 .. Len(x) - 1, m \in DOMAIN Reference : x[i] = Reference[m] => x[i + 1] \notin Letter
    BY <1>6, Zenon DEF Separate
  <2>4. \A i \in 1 .. l : x[k + i] = b[i]
    BY <1>5, <1>7, <1>8, Zenon
  <2> QED BY <2>1, <2>2, <2>3, <2>4, Zenon
<1>10. ASSUME NEW i \in 1 .. l - 1, NEW m \in DOMAIN Reference, b[i] = Reference[m] PROVE b[i + 1] \notin Letter
  <2>1. i \in 1 .. l /\ i + 1 \in 1 .. l /\ k + i \in 1 .. Len(x) - 1 /\ k + (i + 1) = (k + i) + 1
    BY <1>7, <1>8, <1>9
  <2> QED BY <1>9, <1>10, <2>1, Zenon
<1>11. ASSUME b # <<>> PROVE Head(b) \notin Letter
  <2>1. l # 0 /\ Head(b) = b[1]
    BY <1>8, <1>11, EmptySeq DEF Tokens
  <2>2. 1 \in 1 .. l /\ k \in 1 .. Len(x) - 1
    BY <1>7, <1>8, <1>9, <2>1
  <2> QED BY <1>9, <2>1, <2>2, Zenon
<1> QED BY <1>8, <1>10, <1>11, Zenon DEF Separate

\* What the loop adds to the script and its environment, the shell makes what is rendered.
Fills(made, s, r) ==
    \E more \in Seq(Tokens), tail \in Tokens :
       /\ made.env = s.env \o more /\ Len(made.env) <= Len(Reference)
       /\ made.text = s.output \o tail
       /\ \A powershell \in BOOLEAN :
             (powershell => Separate(tail)) => Expanding(made.env, powershell)[tail] = r.text
Goes(made, s, r) ==
    /\ made.ok = r.ok
    /\ IF r.ok THEN Fills(made, s, r) ELSE made = NoScript /\ r.text = <<>>

\* What holds of the loop after a turn holds before: the turn adds a literal and a reference
\* to the script, and the value to the environment.
LEMMA TurnFills ==
    ASSUME NEW K, NEW v \in [K -> Tokens], NEW s \in Loop, s.rest \in Seq(Plain),
           Open(s.rest), Named(s.rest, K), ~Fails(v, s),
           Rendering(v)[s.rest].ok, NEW made, Fills(made, TurnOf(v, s), Rendering(v)[Onward(s.rest)])
    PROVE  Fills(made, s, Rendering(v)[s.rest])
<1> DEFINE e == v[Name(s.rest)]
           lit == Literal(s.rest)
           n == Len(s.env) + 1
           t == TurnOf(v, s)
<1>1. PICK more \in Seq(Tokens), tail \in Tokens :
         /\ made.env = t.env \o more /\ Len(made.env) <= Len(Reference)
         /\ made.text = t.output \o tail
         /\ \A powershell \in BOOLEAN :
               (powershell => Separate(tail))
                 => Expanding(made.env, powershell)[tail] = Rendering(v)[Onward(s.rest)].text
  BY DEF Fills
<1>2. s.rest \in Tokens /\ s.output \in Tokens /\ s.env \in Seq(Tokens)
  BY DEF Loop
<1>3. /\ e \in Tokens /\ lit \in Tokens
      /\ Rendering(v)[s.rest].text = (lit \o e) \o Rendering(v)[Onward(s.rest)].text
  <2>1. RendersTurn(v, s.rest)
    BY <1>2, TurnRenders, Zenon
  <2> QED BY <2>1, Zenon DEF RendersTurn
<1>4. lit \in Seq(Plain)
  BY PlainTurn, Zenon
<1>5. t.env = Append(s.env, e) /\ t.output = (s.output \o lit) \o <<Reference[n]>>
  BY DEF TurnOf
<1>6. n \in 1 .. Len(Reference) /\ n = Len(s.env) + 1 /\ Len(s.env) \in Nat
  BY <1>2, TemplateAssumption DEF Fails
<1> HIDE DEF e, lit, n, t
<1>7. PICK L : /\ L = Append(s.env, e) /\ L \in Seq(Tokens) /\ L[n] = e /\ n \in 1 .. Len(L)
                /\ L = s.env \o <<e>>
  <2>1. /\ Append(s.env, e) \in Seq(Tokens) /\ Append(s.env, e)[Len(s.env) + 1] = e
        /\ Len(Append(s.env, e)) = Len(s.env) + 1
    BY <1>2, <1>3, AppendProperties
  <2>2. Append(s.env, e) = s.env \o <<e>>
    BY <1>2, <1>3, AppendIsConcat
  <2>3. n \in 1 .. Len(s.env) + 1
    BY <1>6
  <2> QED BY <1>6, <2>1, <2>2, <2>3, Zenon
<1>8. made.env \in Seq(Tokens) /\ made.env[n] = e /\ n \in 1 .. Len(made.env)
  <2>1. made.env = L \o more /\ L \in Seq(Tokens) /\ more \in Seq(Tokens)
    BY <1>1, <1>5, <1>7, Zenon
  <2>2. /\ Len(L) \in Nat /\ Len(more) \in Nat
        /\ Len(L \o more) = Len(L) + Len(more)
        /\ \A i \in 1 .. Len(L) : (L \o more)[i] = L[i]
    BY <2>1, PartsOf
  <2>3. L \o more \in Seq(Tokens)
    BY <2>1, Joins, Zenon
  <2>4. n \in 1 .. Len(L) + Len(more)
    BY <1>7, <2>2
  <2> QED BY <1>7, <2>1, <2>2, <2>3, <2>4, Zenon
<1>9. <<e>> \o more \in Seq(Tokens) /\ made.env = s.env \o (<<e>> \o more)
  <2>1. <<e>> \in Seq(Tokens)
    BY <1>3, Joins, Zenon
  <2>2. (s.env \o <<e>>) \o more = s.env \o (<<e>> \o more)
    <3>1. s.env \in Seq(Tokens) /\ <<e>> \in Seq(Tokens) /\ more \in Seq(Tokens)
      BY <1>1, <1>2, <2>1
    <3>2. Associate(s.env, <<e>>, more)
      BY <3>1, Associating, Zenon
    <3> QED BY <3>2, Zenon DEF Associate
  <2>3. <<e>> \o more \in Seq(Tokens)
    BY <1>1, <2>1, Joins, Zenon
  <2> QED BY <1>1, <1>5, <1>7, <2>2, <2>3, Zenon
<1> DEFINE one == <<Reference[n]>>
           long == lit \o (one \o tail)
<1>10. one \in Tokens /\ one \o tail \in Tokens /\ long \in Tokens
  <2>1. one \in Tokens
    BY <1>6, NameExists, TokensJoin
  <2> QED BY <1>1, <1>3, <2>1, TokensJoin, Zenon
<1>11. made.text = s.output \o long
  <2>1. ((s.output \o lit) \o one) \o tail = s.output \o (lit \o (one \o tail))
    <3>1. s.output \in Tokens /\ lit \in Tokens /\ one \in Tokens /\ tail \in Tokens
      BY <1>1, <1>2, <1>3, <1>10
    <3>2. Regroup(s.output, lit, one, tail)
      BY <3>1, TokensRegroup, Zenon
    <3> QED BY <3>2, Zenon DEF Regroup
  <2> QED BY <1>1, <1>5, <2>1, Zenon
<1>12. ASSUME NEW powershell \in BOOLEAN, powershell => Separate(long)
       PROVE  Expanding(made.env, powershell)[long] = Rendering(v)[s.rest].text
  <2>1. powershell => Separate(tail) /\ (tail = <<>> \/ Head(tail) \notin Letter)
    <3>1. n \in DOMAIN Reference
      BY <1>6, TemplateAssumption
    <3> QED BY <1>3, <1>12, <3>1, SeparateParts
  <2>2. Expanding(made.env, powershell)[long] = (lit \o made.env[n]) \o Expanding(made.env, powershell)[tail]
    <3>1. PICK env : env = made.env /\ env \in Seq(Tokens) /\ Len(env) <= Len(Reference) /\ n \in 1 .. Len(env)
      BY <1>1, <1>8, Zenon
    <3>2. Expanding(env, powershell)[long] = (lit \o env[n]) \o Expanding(env, powershell)[tail]
      <4>1. lit \in Seq(Plain) /\ tail \in Tokens /\ (powershell => tail = <<>> \/ Head(tail) \notin Letter)
        BY <1>1, <1>4, <2>1, Zenon
      <4>2. Placed(env, powershell, n, lit, tail)
        BY <3>1, <4>1, PlainThenReference, Zenon
      <4> QED BY <4>2, Zenon DEF Placed
    <3> QED BY <3>1, <3>2, Zenon
  <2> QED BY <1>1, <1>3, <1>8, <2>1, <2>2, Zenon
<1> HIDE DEF long
<1> QED BY <1>1, <1>9, <1>10, <1>11, <1>12, Zenon DEF Fills

\* By the least exception: the loop answers as render_text does, and what it has added reads
\* the same.
LEMMA ScriptGoes ==
    ASSUME NEW K, NEW v \in [K -> Tokens], NEW s \in Loop, s.rest \in Seq(Plain), Affords(s)
    PROVE  Goes(Preparing(v)[s], s, Rendering(v)[s.rest])
<1> DEFINE goes(x) == Goes(Preparing(v)[x], x, Rendering(v)[x.rest])
           T == {x \in Loop : x.rest \in Seq(Plain) /\ Affords(x) /\ ~goes(x)}
<1>1. SUFFICES ASSUME T # {} PROVE FALSE
  OBVIOUS
<1>2. T \subseteq Loop
  OBVIOUS
<1>3. PICK x \in T : \A y \in T : Remaining[x] <= Remaining[y]
  BY <1>1, <1>2, RemainingType, LeastOf
<1>4. x \in Loop /\ x.rest \in Seq(Plain) /\ Affords(x) /\ ~goes(x)
  BY <1>3
<1>5. ASSUME NEW y \in Loop, y.rest \in Seq(Plain), Affords(y), Remaining[y] < Remaining[x] PROVE goes(y)
  <2>1. Remaining[x] \in Nat /\ Remaining[y] \in Nat
    BY <1>4, <1>5, RemainingType
  <2>2. ~(Remaining[x] <= Remaining[y])
    BY <1>5, <2>1
  <2> QED BY <1>3, <1>5, <2>2, Zenon
<1> HIDE DEF T
<1>6. x.rest \in Tokens /\ x.output \in Tokens /\ x.env \in Seq(Tokens)
  BY <1>4 DEF Loop
<1>7. Preparing(v)[x] = Prepares(v, Preparing(v), x)
  BY <1>4, PreparingIs, Zenon
<1>8. CASE ~Open(x.rest)
  <2>1. Rendering(v)[x.rest] = Whole(x.rest)
    BY <1>6, <1>8, TurnStops, Zenon
  <2>2. Preparing(v)[x] = Finished(x)
    BY <1>7, <1>8, Zenon DEF Prepares
  <2>3. /\ Whole(x.rest).ok /\ Whole(x.rest).text = x.rest
        /\ Finished(x).ok = Whole(x.rest).ok
        /\ Finished(x).env = x.env /\ Finished(x).text = x.output \o x.rest
    BY DEF Whole, Finished
  <2>4. Len(x.env) <= Len(Reference)
    <3>1. \A e, r, n \in Nat : 4 * e + r <= 4 * n => e <= n
      OBVIOUS
    <3>2. Len(x.env) \in Nat /\ Len(x.rest) \in Nat /\ Len(Reference) \in Nat
      <4>1. Len(x.rest) \in Nat
        BY <1>6 DEF Tokens
      <4>2. Len(Reference) \in Nat
        BY TemplateAssumption
      <4> QED BY <1>6, <4>1, <4>2
    <3> QED BY <1>4, <3>1, <3>2, Zenon DEF Affords
  <2>5. <<>> \in Seq(Tokens) /\ x.env = x.env \o <<>>
    BY <1>6, Joins, Zenon
  <2>6. ASSUME NEW powershell \in BOOLEAN PROVE Expanding(x.env, powershell)[x.rest] = x.rest
    <3>1. <<>> \in Tokens /\ x.rest \o <<>> = x.rest
      BY <1>6, TokensJoin, Zenon
    <3>2. Expanding(x.env, powershell)[<<>>] = <<>>
      BY <1>6, EmptyStays, Zenon
    <3>3. Expanding(x.env, powershell)[x.rest \o <<>>] = x.rest \o Expanding(x.env, powershell)[<<>>]
      BY <1>4, <1>6, <2>4, <3>1, PlainStays, Zenon
    <3> QED BY <3>1, <3>2, <3>3, Zenon
  <2>7. Fills(Finished(x), x, Whole(x.rest))
    BY <1>6, <2>3, <2>4, <2>5, <2>6, Zenon DEF Fills
  <2> QED BY <1>4, <2>1, <2>2, <2>3, <2>7, Zenon DEF Goes
<1>9. CASE Open(x.rest) /\ ~Named(x.rest, K)
  <2>1. Rendering(v)[x.rest] = Error
    BY <1>6, <1>9, TurnStops, Zenon
  <2>2. Fails(v, x)
    <3>1. DOMAIN v = K
      OBVIOUS
    <3> QED BY <1>9, <3>1, Zenon DEF Fails
  <2>3. Preparing(v)[x] = NoScript
    BY <1>7, <1>9, <2>2, Zenon DEF Prepares
  <2>4. NoScript.ok = Error.ok
    BY DEF NoScript, Error
  <2> QED BY <1>4, <2>1, <2>3, <2>4, ErrorType, Zenon DEF Goes
<1>10. CASE Open(x.rest) /\ Named(x.rest, K)
  <2> DEFINE t == TurnOf(v, x)
  <2>1. ~Fails(v, x) /\ Affords(t)
    BY <1>4, <1>10, TurnAffords
  <2>2. t \in Loop /\ Remaining[t] < Remaining[x]
    BY <1>4, <1>10, <2>1, TurnOfType
  <2>3. t.rest = Onward(x.rest) /\ Onward(x.rest) \in Seq(Plain)
    <3>1. Onward(x.rest) \in Seq(Plain)
      BY <1>4, <1>10, PlainTurn, Zenon DEF Named
    <3> QED BY <3>1 DEF TurnOf
  <2>4. goes(t)
    BY <1>5, <2>1, <2>2, <2>3
  <2>5. Preparing(v)[x] = Preparing(v)[t]
    BY <1>7, <1>10, <2>1, Zenon DEF Prepares
  <2>6. /\ Rendering(v)[x.rest].ok = Rendering(v)[t.rest].ok
        /\ ~Rendering(v)[t.rest].ok => Rendering(v)[x.rest].text = Rendering(v)[t.rest].text
    <3>1. RendersTurn(v, x.rest)
      BY <1>6, <1>10, TurnRenders, Zenon
    <3> QED BY <2>3, <3>1, Zenon DEF RendersTurn
  <2> DEFINE made == Preparing(v)[t]
  <2>7. CASE Rendering(v)[t.rest].ok
    <3>1. Fills(made, t, Rendering(v)[Onward(x.rest)])
      BY <2>3, <2>4, <2>7, Zenon DEF Goes
    <3>2. Fills(made, x, Rendering(v)[x.rest])
      BY <1>4, <1>10, <2>1, <2>6, <2>7, <3>1, TurnFills
    <3> QED BY <1>4, <2>4, <2>5, <2>6, <2>7, <3>2, Zenon DEF Goes
  <2>8. CASE ~Rendering(v)[t.rest].ok
    BY <1>4, <2>4, <2>5, <2>6, <2>8, Zenon DEF Goes
  <2> QED BY <2>7, <2>8
<1> QED BY <1>8, <1>9, <1>10

\* Values are data for prepare_script: the shell, with the environment it is given, makes of
\* the script what render_text makes of the text, in PowerShell if no letter follows a
\* reference; and the one fails exactly when the other does.
THEOREM ScriptIsRendered ==
    ASSUME NEW K, NEW v \in [K -> Tokens], NEW text \in Seq(Plain), Len(text) <= 4 * Len(Reference)
    PROVE  LET script == PrepareScript(text, v)
               rendered == RenderText(text, v)
           IN  /\ script.ok = rendered.ok
               /\ \A powershell \in BOOLEAN :
                     \/ powershell /\ ~Separate(script.text)
                     \/ Expand(script.text, script.env, powershell) = rendered.text
<1> DEFINE s == [rest |-> text, output |-> <<>>, env |-> <<>>]
           made == Preparing(v)[s]
           r == Rendering(v)[text]
<1>1. text \in Tokens
  BY PlainText
<1>2. s \in Loop /\ Affords(s)
  BY <1>1, LoopStarts
<1>3. s.rest = text /\ s.output = <<>> /\ s.env = <<>>
  OBVIOUS
<1> HIDE DEF s
<1>4. Goes(made, s, r)
  BY <1>2, <1>3, ScriptGoes
<1>5. PrepareScript(text, v) = made /\ RenderText(text, v) = r
  BY DEF PrepareScript, RenderText, s
<1> HIDE DEF made, r
<1>6. CASE r.ok
  <2>1. PICK more \in Seq(Tokens), tail \in Tokens :
           /\ made.env = <<>> \o more /\ made.text = <<>> \o tail
           /\ \A powershell \in BOOLEAN :
                 (powershell => Separate(tail)) => Expanding(made.env, powershell)[tail] = r.text
    BY <1>3, <1>4, <1>6, Zenon DEF Goes, Fills
  <2>2. made.text = tail
    BY <2>1, TokensJoin, Zenon
  <2> QED BY <1>4, <1>5, <2>1, <2>2, Zenon DEF Expand, Goes
<1>7. CASE ~r.ok
  <2>1. made = NoScript /\ r.text = <<>> /\ made.ok = r.ok
    BY <1>4, <1>7, Zenon DEF Goes
  <2>2. NoScript.text = <<>> /\ NoScript.env = <<>> /\ <<>> \in Seq(Tokens)
    BY DEF NoScript
  <2>3. \A powershell \in BOOLEAN : Expanding(<<>>, powershell)[<<>>] = <<>>
    BY <2>2, EmptyStays
  <2> QED BY <1>5, <2>1, <2>2, <2>3, Zenon DEF Expand
<1> QED BY <1>6, <1>7

-----------------------------------------------------------------------------
(* The inputs that are gone through.                                       *)

\* What is known of a text that is gone through: how long it may be.
InText(t) ==
    /\ t.text \in Seq(Plain) /\ t.pieces \in Nat /\ t.pieces <= MaxPieces.text
    /\ Len(t.text) \in Nat /\ Len(t.text) <= 3 * t.pieces

LEMMA Few ==
    ASSUME NEW S, NEW a \in S, NEW b \in S, NEW c \in S
    PROVE  /\ <<a>> \in Seq(S) /\ Len(<<a>>) \in 0 .. 3
           /\ <<a, b>> \in Seq(S) /\ Len(<<a, b>>) \in 0 .. 3
           /\ <<a, b, a>> \in Seq(S) /\ Len(<<a, b, a>>) \in 0 .. 3
           /\ <<a, a, b, c, c>> \in Seq(S)
OBVIOUS

LEMMA FewTokens ==
    \A a, b, c \in Token :
       /\ <<a>> \in Seq(Token) /\ Len(<<a>>) \in 0 .. 3
       /\ <<a, b>> \in Seq(Token) /\ Len(<<a, b>>) \in 0 .. 3
       /\ <<a, b, a>> \in Seq(Token) /\ Len(<<a, b, a>>) \in 0 .. 3
       /\ <<a, a, b, c, c>> \in Seq(Token)
BY Few, Zenon

LEMMA PiecesArePlain ==
    ASSUME NEW piece \in Piece
    PROVE  piece \in Seq(Plain) /\ Len(piece) \in 0 .. 3
<1>1. /\ piece \in Seq(Token) /\ Len(piece) \in 0 .. 3
  BY FewTokens, TokenAssumption, Zenon DEF Piece, Blank
<1>2. DOMAIN piece = 1 .. Len(piece)
  BY <1>1
<1>3. \A i \in 1 .. Len(piece) : piece[i] \in Plain
  BY <1>1, <1>2, ReferenceAssumption, ElementOfSeq DEF Plain
<1> QED BY <1>1, <1>3, SeqDef

LEMMA TextGrows ==
    ASSUME NEW t, InText(t), t.pieces < MaxPieces.text, NEW piece \in Piece
    PROVE  InText([text |-> t.text \o piece, pieces |-> t.pieces + 1])
<1>1. piece \in Seq(Plain) /\ Len(piece) \in 0 .. 3
  BY PiecesArePlain
<1>2. t.text \in Seq(Plain) /\ t.pieces \in Nat /\ Len(t.text) \in Nat /\ Len(t.text) <= 3 * t.pieces
  BY DEF InText
<1>3. t.text \o piece \in Seq(Plain) /\ Len(t.text \o piece) = Len(t.text) + Len(piece)
  BY <1>1, <1>2, ConcatProperties
<1>4. t.pieces + 1 <= MaxPieces.text
  BY <1>2 DEF MaxPieces
<1>5. Len(t.text) + Len(piece) \in Nat /\ Len(t.text) + Len(piece) <= 3 * (t.pieces + 1)
  <2>1. \A l, n, p \in Nat : l <= 3 * p /\ n <= 3 => l + n \in Nat /\ l + n <= 3 * (p + 1)
    OBVIOUS
  <2>2. Len(piece) \in Nat /\ Len(piece) <= 3
    <3>1. \A n \in 0 .. 3 : n \in Nat /\ n <= 3
      OBVIOUS
    <3> QED BY <1>1, <3>1, Zenon
  <2> QED BY <1>2, <2>1, <2>2, Zenon
<1> QED BY <1>2, <1>3, <1>4, <1>5 DEF InText

LEMMA TextFits ==
    ASSUME NEW t, InText(t)
    PROVE  t.text \in Seq(Plain) /\ t.text \in Tokens /\ Len(t.text) <= 4 * Len(Reference)
<1>1. \A p, l, r \in Nat : p <= 6 /\ l <= 3 * p /\ r >= 6 => l <= 4 * r
  OBVIOUS
<1>2. Len(Reference) \in Nat /\ Len(Reference) >= 6
  BY TemplateAssumption, ReferenceAssumption DEF MaxPieces
<1>3. MaxPieces.text = 6
  BY DEF MaxPieces
<1>4. t.text \in Tokens
  BY PlainText DEF InText
<1> QED BY <1>1, <1>2, <1>3, <1>4, Zenon DEF InText

LEMMA ValuesAreTokens ==
    /\ Values \subseteq Tokens
    /\ \A v \in [{A, B} -> Values] : v \in [{A, B} -> Tokens]
    /\ \A v \in Variables : v \in [DOMAIN v -> Tokens]
<1>1. Values \subseteq Tokens
  BY FewTokens, TokenAssumption, Zenon DEF Values, Tokens
<1> HIDE DEF Values
<1> QED BY <1>1 DEF Variables

\* The two properties of texts, from the theorems about any text.
LEMMA TextIsValidated == ASSUME about = "text", InText(input) PROVE ValidatedRenders
<1> SUFFICES ASSUME NEW allowed \in Allowed, NEW v \in Variables,
                    ValidateVariables(Text, allowed), allowed \subseteq DOMAIN v
             PROVE  /\ RenderText(Text, v).ok /\ PrepareScript(Text, v).ok
                    /\ RenderText(Text, v) = RenderText(Text, Only(v, allowed))
  BY DEF ValidatedRenders
<1>1. Text \in Tokens /\ Len(Text) <= 4 * Len(Reference)
  BY TextFits DEF Text
<1>2. PICK K : K = DOMAIN v
  OBVIOUS
<1>3. v \in [K -> Tokens] /\ allowed \in SUBSET K
  BY <1>2, ValuesAreTokens
<1>4. RenderText(Text, v).ok /\ RenderText(Text, v) = RenderText(Text, Only(v, allowed))
  BY <1>1, <1>3, AcceptedIsRendered
<1>5. PrepareScript(Text, v).ok
  BY <1>1, <1>3, AcceptedIsPrepared
<1> QED BY <1>4, <1>5

LEMMA TextIsData == ASSUME about = "text", InText(input) PROVE ValuesAreData
<1> SUFFICES ASSUME NEW v \in [{A, B} -> Values], NEW powershell \in BOOLEAN
             PROVE  /\ RenderText(Text, v).ok = RenderText(Text, Marks).ok
                    /\ RenderText(Text, v).text = Expand(RenderText(Text, Marks).text, <<v[A], v[B]>>, FALSE)
                    /\ PrepareScript(Text, v).ok = RenderText(Text, v).ok
                    /\ \/ powershell /\ ~Separate(PrepareScript(Text, v).text)
                       \/ Expand(PrepareScript(Text, v).text, PrepareScript(Text, v).env, powershell)
                            = RenderText(Text, v).text
  BY Zenon DEF ValuesAreData
<1>1. Text \in Seq(Plain) /\ Len(Text) <= 4 * Len(Reference)
  BY TextFits DEF Text
<1>2. v \in [{A, B} -> Tokens]
  BY ValuesAreTokens, Zenon
<1>3. /\ PrepareScript(Text, v).ok = RenderText(Text, v).ok
      /\ \/ powershell /\ ~Separate(PrepareScript(Text, v).text)
         \/ Expand(PrepareScript(Text, v).text, PrepareScript(Text, v).env, powershell) = RenderText(Text, v).text
  BY <1>1, <1>2, ScriptIsRendered, Zenon
<1> DEFINE env == <<v[A], v[B]>>
           index == [k \in {A, B} |-> IF k = A THEN 1 ELSE 2]
<1>4. A # B
  BY DEF A, B
<1>5. /\ env \in Seq(Tokens) /\ Len(env) = 2 /\ env[1] = v[A] /\ env[2] = v[B]
  BY <1>2
<1>6. Len(env) <= Len(Reference) /\ Reference[1] \in Token /\ Reference[2] \in Token
  <2>1. Len(Reference) \in Nat /\ Len(Reference) >= 6
    BY TemplateAssumption, ReferenceAssumption DEF MaxPieces
  <2>2. 1 \in 1 .. Len(Reference) /\ 2 \in 1 .. Len(Reference)
    BY <2>1
  <2> QED BY <1>5, <2>1, <2>2, NameExists
<1> HIDE DEF env
<1>7. /\ index \in [{A, B} -> 1 .. Len(env)] /\ \A k \in {A, B} : v[k] = env[index[k]]
  BY <1>4, <1>5
<1>8. Marks \in [{A, B} -> Tokens] /\ \A k \in {A, B} : Marks[k] = <<Reference[index[k]]>>
  <2>1. <<Reference[1]>> \in Tokens /\ <<Reference[2]>> \in Tokens
    BY <1>6, TokensJoin, Zenon
  <2> QED BY <2>1, <1>4 DEF Marks
<1> HIDE DEF index
<1>9. Replaced(Text, v, Marks, env)
  <2>1. MarkedBy(v, Marks, env, {A, B})
    BY <1>7, <1>8, Zenon DEF MarkedBy
  <2> QED BY <1>1, <1>2, <1>5, <1>6, <1>8, <2>1, MarksAreReplaced, Zenon
<1> QED BY <1>3, <1>9, Zenon DEF env, Replaced

InputInv ==
    /\ now \in Int /\ IsRule(rule) /\ range.start \in Int /\ range.end \in Int
    /\ about = "trigger" => input \in Trigger
    /\ about = "definition" => input \in AnyDefinition
    /\ about = "rows" => IsFiniteSet(input) /\ input \subseteq Row
    /\ about = "text" => InText(input)

LEMMA SomeAreDefinitions == SomeDefinition \subseteq AnyDefinition
<1>1. SomeTrigger \subseteq Trigger
  BY ValueAssumption DEF SomeTrigger, Trigger, AppEvent, PresenceEvent
<1>2. SomeCondition \subseteq Condition
  <2>2. [type : {"application"}, app : {"x"}, running : BOOLEAN] \subseteq Condition
    BY ValueAssumption DEF Condition
  <2>3. /\ [type |-> "presence", state |-> "absent"] \in Condition
        /\ [type |-> "device", device |-> "x", connected |-> TRUE] \in Condition
    BY ValueAssumption DEF Condition, PresenceEvent
  <2> QED BY <2>2, <2>3 DEF SomeCondition
<1>3. Step \subseteq AnyStep /\ Script \in AnyStep
  BY DEF Step, Script, AnyStep, ShellKind
<1>4. \A c \in Condition : <<c>> \in Seq(Condition)
  OBVIOUS
<1>5. \A s \in AnyStep : <<s>> \in Seq(AnyStep) /\ <<Script, s>> \in Seq(AnyStep)
  BY <1>3
<1>6. <<>> \in Seq(Condition)
  OBVIOUS
<1> QED BY <1>1, <1>2, <1>3, <1>4, <1>5, <1>6 DEF SomeDefinition, AnyDefinition

LEMMA InputInit == AllInit => InputInv
<1>1. AtRest => now \in Int /\ IsRule(rule) /\ range.start \in Int /\ range.end \in Int
  BY ZoneAssumption, LastAssumption DEF AtRest, IsRule
<1>2. Init => now \in Int /\ IsRule(rule) /\ range.start \in Int /\ range.end \in Int
  BY ZoneAssumption DEF Init, IsRule, TimesOfDay, WeekdaySets
<1>3. IsFiniteSet({})
  BY FS_EmptySet
<1>4. InText([text |-> <<>>, pieces |-> 0])
  BY EmptySeq DEF InText, MaxPieces
<1> QED BY <1>1, <1>2, <1>3, <1>4, SomeAreDefinitions DEF AllInit, InputInv

LEMMA InputStep == InputInv /\ [AllNext]_<<vars, about, input>> => InputInv'
<1> SUFFICES ASSUME InputInv, [AllNext]_<<vars, about, input>> PROVE InputInv'
  OBVIOUS
<1>1. CASE UNCHANGED <<vars, about, input>>
  BY <1>1 DEF InputInv, vars
<1>2. CASE about = "calendar" /\ Next /\ UNCHANGED <<about, input>>
  BY <1>2 DEF InputInv, Next
<1>3. CASE about = "text" /\ Pieces < MaxPieces[about] /\ Bigger /\ UNCHANGED <<vars, about>>
  <2>1. PICK piece \in Piece : input' = [text |-> input.text \o piece, pieces |-> input.pieces + 1]
    BY <1>3 DEF Bigger
  <2>2. InText(input) /\ input.pieces < MaxPieces.text
    BY <1>3 DEF InputInv, Pieces
  <2>3. InText(input')
    BY <2>1, <2>2, TextGrows
  <2> QED BY <1>3, <2>3 DEF InputInv, vars
<1>4. CASE about = "rows" /\ Bigger /\ UNCHANGED <<vars, about>>
  <2>1. PICK made \in 0 .. 4, finished \in BOOLEAN :
           input' = input \cup {[id |-> Cardinality(input), made |-> made, finished |-> finished]}
    BY <1>4 DEF Bigger
  <2>2. IsFiniteSet(input) /\ input \subseteq Row
    BY <1>4 DEF InputInv
  <2>3. Cardinality(input) \in Nat
    BY <2>2, FS_CardinalityType
  <2>4. IsFiniteSet(input')
    BY <2>1, <2>2, FS_AddElement
  <2>5. input' \subseteq Row
    BY <2>1, <2>2, <2>3 DEF Row
  <2> QED BY <1>4, <2>4, <2>5 DEF InputInv, vars
<1> QED BY <1>1, <1>2, <1>3, <1>4 DEF AllNext

LEMMA InputsAre == AllSpec => []InputInv
BY InputInit, InputStep, PTL DEF AllSpec

\* A slot that next_schedule finds is the first instant at which the rule comes round, and
\* only a rule of one weekday may find none.
THEOREM NextIsFirst == AllSpec => []NextIsTheFirst
<1>1. InputInv => NextIsTheFirst
  BY NextScheduleIsFirst, OnlyOneWeekdayFindsNone DEF InputInv, NextIsTheFirst
<1> QED BY <1>1, InputsAre, PTL

\* Away from a change of the clocks, a time range holds in its intervals.
THEOREM RangeIsInItsIntervals == AllSpec => []RangeIsIntervals
<1>1. InputInv => RangeIsIntervals
  BY RangeHoldsInIntervals DEF InputInv, RangeIsIntervals
<1> QED BY <1>1, InputsAre, PTL

\* An event that lacks the variable a definition picks its events by sets it off only if the
\* definition takes unnamed devices or kinds, and offers the same variables to each that it
\* sets off.
THEOREM EventsFit == AllSpec => []EventsFitTriggers
<1>1. InputInv => MatchIsNamed
  BY DEF InputInv, MatchIsNamed, ValidTrigger, Heard, Matches, Get, Kinds, TakesUnnamed
<1>2. InputInv => OneEventOneOffer
  BY CapabilityTellsOffer DEF InputInv, OneEventOneOffer, Heard, Matches
<1>3. InputInv => EventsFitTriggers
  BY <1>1, <1>2 DEF EventsFitTriggers
<1> QED BY <1>3, InputsAre, PTL

\* The session check of preflight covers the one of execute, and what the host cannot observe
\* decides no condition of a definition that preflight accepted.
THEOREM PreflightEnough == AllSpec => []PreflightIsEnough
<1>1. InputInv => PreflightSuits
  BY PreflightSuffices DEF InputInv, PreflightSuits
<1>2. InputInv => ConditionsAreJudged
  <2> SUFFICES ASSUME InputInv, about = "definition", NEW sys \in Systems, Preflight(input, sys) = {},
                      NEW env \in Environments
               PROVE  ConditionFailure(input.conditions, Seen(env, sys)) = ConditionFailure(input.conditions, env)
    BY DEF ConditionsAreJudged
  <2>1. env \in AnyEnvironment
    BY ValueAssumption DEF Environments, AnyEnvironment, PresenceEvent
  <2>2. input \in AnyDefinition
    BY DEF InputInv
  <2> QED BY <2>1, <2>2, PreflightJudges
<1>3. InputInv => PreflightIsEnough
  BY <1>1, <1>2 DEF PreflightIsEnough
<1> QED BY <1>3, InputsAre, PTL

\* A prune keeps the latest of what is finished, and all that is not.
THEOREM PruneKeepsTheLatest == AllSpec => []RetainsTheLatest
<1>1. InputInv => RetainsTheLatest
  <2> SUFFICES ASSUME InputInv, about = "rows", NEW time \in 0 .. 7, NEW left \in Prune(input, FALSE, time)
               PROVE  LatestLeft(input, left, time)
    BY DEF RetainsTheLatest, LatestLeft
  <2>1. IsFiniteSet(input) /\ input \subseteq Row /\ time \in Int
    BY DEF InputInv
  <2> QED BY <2>1, PruneRetainsTheLatest
<1> QED BY <1>1, InputsAre, PTL

\* A text that was accepted for a trigger is rendered, as notification and as script, for every
\* event that has the trigger's variables, and shows nothing else of the event.
THEOREM AcceptedTextsAreRendered == AllSpec => []ValidatedRenders
<1>1. InputInv => ValidatedRenders
  <2>1. CASE about = "text"
    BY <2>1, TextIsValidated DEF InputInv
  <2>2. CASE about # "text"
    BY <2>2 DEF ValidatedRenders
  <2> QED BY <2>1, <2>2
<1> QED BY <1>1, InputsAre, PTL

\* Values are data, in a notification and, if in PowerShell no letter follows a variable, in a
\* script.
THEOREM TextsShowValuesAsData == AllSpec => []ValuesAreData
<1>1. InputInv => ValuesAreData
  <2>1. CASE about = "text"
    BY <2>1, TextIsData DEF InputInv
  <2>2. CASE about # "text"
    BY <2>2 DEF ValuesAreData
  <2> QED BY <2>1, <2>2
<1> QED BY <1>1, InputsAre, PTL
=============================================================================

------------------------ MODULE StoreOpening_proofs ------------------------
(***************************************************************************)
(* The first use of the store, for any number of callers, statements,      *)
(* errors and crashes.                                                     *)
(***************************************************************************)
EXTENDS StoreOpening, TLAPS

\* Who opens has the permit, and nobody opens what is open.
PermitInv ==
    /\ \A c \in Caller : Opening(c) => permit = c /\ cell = Nobody
    /\ \A c \in Caller : got[c] # Nobody => got[c] = cell

\* An opening has made what comes before its next statement; a value stands for all of it.
SchemaInv ==
    /\ \A c \in Caller : pc[c] = "schema" => 1 .. next[c] - 1 \subseteq made
    /\ cell # Nobody => made = 1 .. Statements

IInv == TypeOK /\ PermitInv /\ SchemaInv

USE StatementsAssumption, BoundAssumption, NobodyAssumption

LEMMA InitInv == Init => IInv
<1> SUFFICES ASSUME Init PROVE IInv OBVIOUS
<1> USE DEF Init
<1>1. TypeOK BY DEF TypeOK
<1>2. PermitInv BY DEF PermitInv, Opening
<1>3. SchemaInv BY DEF SchemaInv
<1> QED BY <1>1, <1>2, <1>3 DEF IInv

LEMMA TypeStep == TypeOK /\ [Next]_vars => TypeOK'
<1> SUFFICES ASSUME TypeOK, [Next]_vars PROVE TypeOK' OBVIOUS
<1> USE DEF TypeOK, disk, callers, At, Give, Release
<1>1. CASE UNCHANGED vars BY <1>1 DEF vars
<1>2. ASSUME NEW c \in Caller, Call(c) PROVE TypeOK' BY <1>2 DEF Call
<1>3. ASSUME NEW c \in Caller, Acquire(c) PROVE TypeOK' BY <1>3 DEF Acquire
<1>4. ASSUME NEW c \in Caller, Awake(c) PROVE TypeOK' BY <1>4 DEF Awake
<1>5. ASSUME NEW c \in Caller, Connect(c) PROVE TypeOK'
  BY <1>5 DEF Connect, FirstStatement, OpenFile
<1>6. ASSUME NEW c \in Caller, Execute(c) PROVE TypeOK'
  <2>1. next[c] \in 1 .. Statements BY <1>6 DEF Execute
  <2>2. made' \subseteq 1 .. Statements BY <1>6, <2>1 DEF Execute
  <2>3. next' \in [Caller -> 1 .. Statements + 1] BY <1>6, <2>1 DEF Execute
  <2> QED BY <1>6, <2>2, <2>3 DEF Execute
<1>7. ASSUME NEW c \in Caller, Publish(c) PROVE TypeOK' BY <1>7 DEF Publish
<1>8. ASSUME NEW c \in Caller, Fail(c) PROVE TypeOK'
  <2>1. faults' \in 0 .. MaxFaults BY <1>8 DEF Fail
  <2> QED BY <1>8, <2>1 DEF Fail, EndOpening
<1>9. ASSUME NEW c \in Caller, GiveUp(c) PROVE TypeOK'
  <2>1. faults' \in 0 .. MaxFaults BY <1>9 DEF GiveUp
  <2> QED BY <1>9, <2>1 DEF GiveUp
<1>10. CASE Crash
  <2>1. crashes' \in 0 .. MaxCrashes BY <1>10 DEF Crash
  <2> QED BY <1>10, <2>1 DEF Crash
<1>11. CASE MakeDirectory BY <1>11 DEF MakeDirectory
<1> QED BY <1>1, <1>2, <1>3, <1>4, <1>5, <1>6, <1>7, <1>8, <1>9, <1>10, <1>11 DEF Next, Step

LEMMA PermitStep == TypeOK /\ PermitInv /\ [Next]_vars => PermitInv'
<1> SUFFICES ASSUME TypeOK, PermitInv, [Next]_vars PROVE PermitInv' OBVIOUS
<1> USE DEF TypeOK, PermitInv, Opening, disk, callers, At, Give, Release
<1>1. CASE UNCHANGED vars BY <1>1 DEF vars
<1>2. ASSUME NEW c \in Caller, Call(c) \/ Acquire(c) \/ Awake(c) PROVE PermitInv'
  BY <1>2 DEF Call, Acquire, Awake
<1>3. ASSUME NEW c \in Caller, Connect(c) \/ Execute(c) PROVE PermitInv'
  BY <1>3 DEF Connect, Execute
<1>5. ASSUME NEW c \in Caller, Publish(c) PROVE PermitInv'
  BY <1>5 DEF Publish
<1>6. ASSUME NEW c \in Caller, Fail(c) \/ GiveUp(c) PROVE PermitInv'
  BY <1>6 DEF Fail, GiveUp, EndOpening
<1>7. CASE Crash \/ MakeDirectory BY <1>7 DEF Crash, MakeDirectory
<1> QED BY <1>1, <1>2, <1>3, <1>5, <1>6, <1>7 DEF Next, Step

LEMMA SchemaStep == TypeOK /\ TypeOK' /\ PermitInv /\ SchemaInv /\ [Next]_vars => SchemaInv'
<1> SUFFICES ASSUME TypeOK, TypeOK', PermitInv, SchemaInv, [Next]_vars PROVE SchemaInv' OBVIOUS
<1> USE DEF TypeOK, PermitInv, SchemaInv, Opening, disk, callers, At, Give, Release
<1>1. CASE UNCHANGED vars BY <1>1 DEF vars
<1>2. ASSUME NEW c \in Caller, Call(c) \/ Acquire(c) \/ Awake(c) PROVE SchemaInv'
  BY <1>2 DEF Call, Acquire, Awake
<1>3. ASSUME NEW c \in Caller, Connect(c) PROVE SchemaInv'
  BY <1>3 DEF Connect, FirstStatement, OpenFile
<1>4. ASSUME NEW c \in Caller, Execute(c) PROVE SchemaInv'
  BY <1>4 DEF Execute
<1>5. ASSUME NEW c \in Caller, Publish(c) PROVE SchemaInv'
  <2>1. 1 .. next[c] - 1 \subseteq made /\ next[c] = Statements + 1 BY <1>5 DEF Publish
  <2>2. made' = 1 .. Statements
    <3>1. next[c] - 1 = Statements BY <2>1
    <3>2. made = 1 .. Statements BY <2>1, <3>1
    <3> QED BY <1>5, <3>2 DEF Publish
  <2>3. ASSUME NEW d \in Caller, pc'[d] = "schema" PROVE FALSE BY <1>5, <2>3 DEF Publish
  <2> QED BY <2>2, <2>3
<1>6. ASSUME NEW c \in Caller, Fail(c) \/ GiveUp(c) PROVE SchemaInv'
  BY <1>6 DEF Fail, GiveUp, EndOpening
<1>7. CASE Crash \/ MakeDirectory BY <1>7 DEF Crash, MakeDirectory
<1> QED BY <1>1, <1>2, <1>3, <1>4, <1>5, <1>6, <1>7 DEF Next, Step

\* The inductive invariant holds.
THEOREM Safe == Spec => []IInv
<1>1. IInv /\ [Next]_vars => IInv' BY TypeStep, PermitStep, SchemaStep DEF IInv
<1> QED BY <1>1, InitInv, PTL DEF Spec

\* The variables of an opening keep their types.
THEOREM OpeningTypeCorrect == Spec => []TypeOK
<1>1. IInv => TypeOK BY DEF IInv
<1> QED BY <1>1, Safe, PTL

\* One caller opens at a time, and all have the same pool.
THEOREM PoolIsShared == Spec => []OnePool
<1>1. IInv => OnePool BY DEF IInv, PermitInv, OnePool
<1> QED BY <1>1, Safe, PTL

\* No pool is handed out before the schema is complete.
THEOREM SchemaIsComplete == Spec => []SchemaBeforeUse
<1>1. IInv => SchemaBeforeUse
  BY DEF IInv, PermitInv, SchemaInv, SchemaBeforeUse
<1> QED BY <1>1, Safe, PTL

\* Openings only add to the file, and leave one that is corrupt as it is.
THEOREM FileIsKept == Spec => NothingReplaced
<1>1. [Next]_vars => [made \subseteq made' /\ (~Missing => file' = file)]_vars
  BY DEF Next, Step, vars, disk, callers, Missing, Call, Acquire, Awake, Connect, OpenFile, Execute, Publish,
         Fail, GiveUp, Crash, MakeDirectory
<1> QED BY <1>1, PTL DEF Spec, NothingReplaced
=============================================================================

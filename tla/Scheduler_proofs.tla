-------------------------- MODULE Scheduler_proofs --------------------------
(***************************************************************************)
(* Theorems about Scheduler: a slot makes one activity and gets a record   *)
(* before it moves on, a sleep is caught up once, and slots are times of   *)
(* the definition that is stored.                                          *)
(***************************************************************************)
EXTENDS Scheduler, ZoneCalendar_proofs

-----------------------------------------------------------------------------
(* The inductive invariant.                                                *)

\* The id of the event that the slot of a makes.
IdOf(a) == <<a, defs[a].revision, slot[a]>>

TypeInv ==
    /\ clock \in Int
    /\ defs \in [Automation -> Definition \cup {NoDef}]
    /\ slot \in [Automation -> Int \cup {NoTime}]
    /\ handled \in [Automation -> Int]
    /\ clears \in Nat
    /\ tick \in [pc : {"idle", "each", "insert", "advance"}, due : SUBSET (Automation \X Int),
                 id : (Automation \X Nat \X Int) \cup {NoDef}, now : Int,
                 kind : {"enqueued", "missed"}]

\* A slot that made no activity yet is later than the last one that did.
SlotInv ==
    \A a \in Automation :
       /\ handled[a] <= clock
       /\ slot[a] # NoTime =>
             /\ defs[a] # NoDef /\ defs[a].enabled /\ ComesRound(defs[a].rule, slot[a])
             /\ slot[a] > handled[a] \/ IdOf(a) \in DOMAIN made

\* What a tick has read still holds: the slots that are left to look at, and the one that
\* is looked at, of another automation, which has its activity before it is advanced.
TickInv ==
    /\ tick.pc # "idle" =>
          \A p \in tick.due : slot[p[1]] # NoTime /\ slot[p[1]] = p[2]
    /\ tick.pc \in {"insert", "advance"} =>
          \E a \in Automation :
             /\ slot[a] # NoTime /\ tick.id = IdOf(a)
             /\ tick.now \in Int /\ handled[a] <= tick.now /\ tick.now <= clock
             /\ \A p \in tick.due : p[1] # a
             /\ tick.pc = "advance" => tick.id \in DOMAIN made

\* The history is what was made, until it is cleared.
RowsInv ==
    /\ \A x \in rows : x.id \in DOMAIN made
    /\ clears = 0 => \A id \in DOMAIN made : made[id] = 1 /\ \E x \in rows : x.id = id

IInv == TypeInv /\ SlotInv /\ TickInv /\ RowsInv

LEMMA RuleOf ==
    ASSUME NEW def \in Definition
    PROVE  IsRule(def.rule) /\ def.revision \in Nat /\ def.enabled \in BOOLEAN
BY RuleAssumption, BoundsAssumption DEF Definition, IsRule

LEMMA InitIInv == Init => IInv
<1> SUFFICES ASSUME Init PROVE IInv
  OBVIOUS
<1>1. DayLength \in Int
  BY ZoneAssumption
<1>2. TypeInv
  BY <1>1 DEF Init, TypeInv, Idle
<1>3. SlotInv
  BY <1>1, ZoneAssumption DEF Init, SlotInv
<1>4. TickInv
  BY DEF Init, TickInv, Idle
<1>5. RowsInv
  BY DEF Init, RowsInv, EmptyBag, SetToBag
<1> QED BY <1>2, <1>3, <1>4, <1>5 DEF IInv

-----------------------------------------------------------------------------
(* Saves and deletes hold the gate, so that no tick is under way.          *)

LEMMA SlotOfType ==
    ASSUME NEW a \in Automation, NEW def \in Definition, clock \in Int, SlotOf(a, def) # NoTime
    PROVE  /\ SlotOf(a, def) \in Int /\ SlotOf(a, def) > clock
           /\ def.enabled /\ ComesRound(def.rule, SlotOf(a, def))
BY RuleOf, NextScheduleIsFirst DEF SlotOf

LEMMA SaveKeeps ==
    ASSUME IInv, NEW a \in Automation, NEW def \in Definition, Save(a, def)
    PROVE  IInv'
<1>1. /\ tick.pc = "idle" /\ tick' = tick /\ clock' = clock /\ rows' = rows /\ clears' = clears
      /\ made' = made /\ handled' = handled
      /\ defs' = [defs EXCEPT ![a] = def] /\ slot' = [slot EXCEPT ![a] = SlotOf(a, def)]
  BY DEF Save, GateFree, history
<1>2. def # NoDef /\ clock \in Int
  BY NoDefAssumption DEF IInv, TypeInv
<1>3. SlotOf(a, def) \in Int \cup {NoTime}
  BY <1>2, SlotOfType
<1>4. TypeInv'
  BY <1>1, <1>3 DEF IInv, TypeInv
<1>5. SlotInv'
  <2> SUFFICES ASSUME NEW b \in Automation
               PROVE  /\ (handled[b] <= clock)'
                      /\ (slot[b] # NoTime)' =>
                            /\ (defs[b] # NoDef /\ defs[b].enabled /\ ComesRound(defs[b].rule, slot[b]))'
                            /\ (slot[b] > handled[b] \/ IdOf(b) \in DOMAIN made)'
    BY DEF SlotInv
  <2>1. handled[b] <= clock /\ handled[b] \in Int
    BY DEF IInv, SlotInv, TypeInv
  <2>2. CASE b = a
    <3>1. defs'[b] = def /\ slot'[b] = SlotOf(a, def)
      BY <1>1, <2>2 DEF IInv, TypeInv
    <3> QED BY <1>1, <1>2, <2>1, <3>1, SlotOfType
  <2>3. CASE b # a
    <3>1. defs'[b] = defs[b] /\ slot'[b] = slot[b] /\ IdOf(b)' = IdOf(b)
      BY <1>1, <2>3 DEF IInv, TypeInv, IdOf
    <3> QED BY <1>1, <3>1 DEF IInv, SlotInv
  <2> QED BY <2>2, <2>3
<1>6. TickInv'
  BY <1>1 DEF TickInv
<1>7. RowsInv'
  BY <1>1 DEF IInv, RowsInv
<1> QED BY <1>4, <1>5, <1>6, <1>7 DEF IInv

LEMMA DeleteKeeps ==
    ASSUME IInv, NEW a \in Automation, Delete(a)
    PROVE  IInv'
<1>1. /\ tick.pc = "idle" /\ tick' = tick /\ clock' = clock /\ rows' = rows /\ clears' = clears
      /\ made' = made /\ handled' = handled
      /\ defs' = [defs EXCEPT ![a] = NoDef] /\ slot' = [slot EXCEPT ![a] = NoTime]
  BY DEF Delete, GateFree, history, bounds
<1>2. TypeInv'
  BY <1>1 DEF IInv, TypeInv
<1>3. SlotInv'
  <2> SUFFICES ASSUME NEW b \in Automation
               PROVE  /\ (handled[b] <= clock)'
                      /\ (slot[b] # NoTime)' =>
                            /\ (defs[b] # NoDef /\ defs[b].enabled /\ ComesRound(defs[b].rule, slot[b]))'
                            /\ (slot[b] > handled[b] \/ IdOf(b) \in DOMAIN made)'
    BY DEF SlotInv
  <2>1. CASE b = a
    BY <1>1, <2>1 DEF IInv, TypeInv, SlotInv
  <2>2. CASE b # a
    <3>1. defs'[b] = defs[b] /\ slot'[b] = slot[b] /\ IdOf(b)' = IdOf(b)
      BY <1>1, <2>2 DEF IInv, TypeInv, IdOf
    <3> QED BY <1>1, <3>1 DEF IInv, SlotInv
  <2> QED BY <2>1, <2>2
<1>4. TickInv'
  BY <1>1 DEF TickInv
<1>5. RowsInv'
  BY <1>1 DEF IInv, RowsInv
<1> QED BY <1>2, <1>3, <1>4, <1>5 DEF IInv

-----------------------------------------------------------------------------
(* A tick.                                                                 *)

\* A step of a tick that writes neither slots nor rows.
LEMMA ReadKeeps ==
    ASSUME IInv, UNCHANGED <<clock, defs, slot, rows, bounds, history>>
    PROVE  /\ SlotInv' /\ RowsInv'
           /\ \A a \in Automation : IdOf(a)' = IdOf(a)
BY DEF IInv, SlotInv, RowsInv, IdOf, bounds, history

LEMMA TickDueKeeps == ASSUME IInv, TickDue PROVE IInv'
<1>1. /\ tick' = [Idle EXCEPT !.pc = "each", !.due = Due]
      /\ UNCHANGED <<clock, defs, slot, rows, bounds, history>>
  BY DEF TickDue
<1>2. Due \subseteq Automation \X Int /\ \A p \in Due : slot[p[1]] # NoTime /\ slot[p[1]] = p[2]
  BY DEF IInv, TypeInv, Due
<1>3. TypeInv'
  <2>1. tick' = [pc |-> "each", due |-> Due, id |-> NoDef, now |-> 0, kind |-> "enqueued"]
    BY <1>1 DEF Idle
  <2> QED BY <1>1, <1>2, <2>1 DEF IInv, TypeInv, bounds, history
<1>4. TickInv'
  BY <1>1, <1>2 DEF TickInv, Idle
<1> QED BY <1>1, <1>3, <1>4, ReadKeeps DEF IInv

LEMMA TickEachKeeps == ASSUME IInv, NEW p \in tick.due, TickEach(p) PROVE IInv'
<1> DEFINE a == p[1]
<1>1. /\ UNCHANGED <<clock, defs, slot, rows, bounds, history>>
      /\ tick.pc = "each" /\ defs[a] # NoDef
  BY DEF TickEach
<1>2. /\ a \in Automation /\ p[2] \in Int /\ slot[a] # NoTime /\ slot[a] = p[2]
      /\ defs[a] \in Definition /\ defs[a].revision \in Nat /\ clock \in Int /\ handled[a] <= clock
  BY <1>1, RuleOf DEF IInv, TypeInv, TickInv, SlotInv
<1>3. tick' = IF defs[a].enabled
              THEN [pc |-> "insert", due |-> tick.due \ {p}, now |-> clock,
                    id |-> <<a, defs[a].revision, p[2]>>,
                    kind |-> IF Late(defs[a], p[2]) THEN "missed" ELSE "enqueued"]
              ELSE [tick EXCEPT !.due = @ \ {p}]
  BY DEF TickEach
<1>4. TypeInv'
  BY <1>1, <1>2, <1>3 DEF IInv, TypeInv, bounds, history
<1>5. tick'.due = tick.due \ {p}
  BY <1>3 DEF IInv, TypeInv
<1>6. TickInv'
  <2>1. \A q \in tick'.due : slot[q[1]] # NoTime /\ slot[q[1]] = q[2]
    BY <1>1, <1>5 DEF IInv, TickInv
  <2>2. \A q \in tick'.due : q[1] # a
    <3> SUFFICES ASSUME NEW q \in tick.due, q # p, q[1] = a PROVE FALSE
      BY <1>5
    <3>1. q[2] = p[2] /\ q = <<q[1], q[2]>> /\ p = <<p[1], p[2]>>
      BY <1>1, <1>2 DEF IInv, TypeInv, TickInv
    <3> QED BY <3>1
  <2>3. CASE defs[a].enabled
    <3>1. tick'.pc = "insert" /\ tick'.now = clock /\ tick'.id = IdOf(a)
      BY <1>2, <1>3, <2>3 DEF IdOf
    <3> QED BY <1>1, <1>2, <2>1, <2>2, <3>1, ReadKeeps DEF TickInv, history, bounds
  <2>4. CASE ~defs[a].enabled
    <3>1. tick'.pc = "each"
      BY <1>1, <1>3, <2>4 DEF IInv, TypeInv
    <3> QED BY <1>1, <2>1, <3>1 DEF TickInv
  <2> QED BY <2>3, <2>4
<1> QED BY <1>1, <1>4, <1>6, ReadKeeps DEF IInv

LEMMA TickInsertKeeps == ASSUME IInv, TickInsert PROVE IInv'
<1>1. /\ tick.pc = "insert" /\ tick' = [tick EXCEPT !.pc = "advance"]
      /\ clock' = clock /\ defs' = defs /\ slot' = slot /\ clears' = clears
      /\ IF IsDuplicate(tick.id)
         THEN rows' = rows /\ made' = made /\ handled' = handled
         ELSE /\ rows' = rows \cup {[id |-> tick.id, kind |-> tick.kind]}
              /\ made' = made (+) SetToBag({tick.id})
              /\ handled' = [handled EXCEPT ![tick.id[1]] = tick.now]
  BY DEF TickInsert, bounds
<1>2. PICK a \in Automation :
         /\ slot[a] # NoTime /\ tick.id = IdOf(a) /\ tick.id[1] = a
         /\ tick.now \in Int /\ handled[a] <= tick.now /\ tick.now <= clock
         /\ \A p \in tick.due : p[1] # a
  BY <1>1 DEF IInv, TickInv, IdOf
<1>3. /\ tick' \in [pc : {"idle", "each", "insert", "advance"}, due : SUBSET (Automation \X Int),
                    id : (Automation \X Nat \X Int) \cup {NoDef}, now : Int, kind : {"enqueued", "missed"}]
      /\ tick'.pc = "advance" /\ tick'.due = tick.due /\ tick'.id = tick.id /\ tick'.now = tick.now
  BY <1>1 DEF IInv, TypeInv
<1>4. /\ handled' \in [Automation -> Int]
      /\ \A b \in Automation : b # a => handled'[b] = handled[b]
      /\ handled'[a] <= tick.now
  BY <1>1, <1>2 DEF IInv, TypeInv
<1>5. TypeInv'
  BY <1>1, <1>3, <1>4 DEF IInv, TypeInv
<1>6. /\ DOMAIN made' = DOMAIN made \cup {tick.id}
      /\ \A b \in Automation : IdOf(b)' = IdOf(b)
  BY <1>1 DEF IInv, RowsInv, IsDuplicate, IdOf, (+), SetToBag
<1>7. SlotInv'
  <2> SUFFICES ASSUME NEW b \in Automation
               PROVE  /\ (handled[b] <= clock)'
                      /\ (slot[b] # NoTime)' =>
                            /\ (defs[b] # NoDef /\ defs[b].enabled /\ ComesRound(defs[b].rule, slot[b]))'
                            /\ (slot[b] > handled[b] \/ IdOf(b) \in DOMAIN made)'
    BY DEF SlotInv
  <2>1. CASE b = a
    <3>1. handled'[a] <= clock
      BY <1>2, <1>4 DEF IInv, TypeInv
    <3> QED BY <1>1, <1>2, <1>6, <2>1, <3>1 DEF IInv, SlotInv
  <2>2. CASE b # a
    BY <1>1, <1>4, <1>6, <2>2 DEF IInv, SlotInv
  <2> QED BY <2>1, <2>2
<1>8. TickInv'
  BY <1>1, <1>2, <1>3, <1>4, <1>6 DEF IInv, TickInv
<1>9. RowsInv'
  <2>1. CASE IsDuplicate(tick.id)
    BY <1>1, <2>1 DEF IInv, RowsInv
  <2>2. CASE ~IsDuplicate(tick.id)
    <3>1. clears = 0 => tick.id \notin DOMAIN made /\ made'[tick.id] = 1
                        /\ \A id \in DOMAIN made : made'[id] = made[id]
      BY <1>1, <2>2 DEF IInv, RowsInv, IsDuplicate, (+), SetToBag
    <3>2. /\ rows \subseteq rows' /\ \A x \in rows' : x \in rows \/ x.id = tick.id
          /\ \E x \in rows' : x.id = tick.id
      <4> DEFINE row == [id |-> tick.id, kind |-> tick.kind]
      <4>1. rows' = rows \cup {row} /\ row.id = tick.id
        BY <1>1, <2>2
      <4> QED BY <4>1
    <3>3. \A x \in rows' : x.id \in DOMAIN made'
      BY <1>6, <3>2 DEF IInv, RowsInv
    <3>4. clears' = 0 => \A id \in DOMAIN made' : made'[id] = 1 /\ \E x \in rows' : x.id = id
      BY <1>1, <1>6, <3>1, <3>2 DEF IInv, RowsInv
    <3> QED BY <3>3, <3>4 DEF RowsInv
  <2> QED BY <2>1, <2>2
<1> QED BY <1>5, <1>7, <1>8, <1>9 DEF IInv

LEMMA TickAdvanceKeeps == ASSUME IInv, TickAdvance PROVE IInv'
<1> DEFINE next == NextSlot(tick.id[1])
<1>1. /\ tick.pc = "advance"
      /\ slot' = IF next = NoTime THEN slot ELSE [slot EXCEPT ![tick.id[1]] = next]
      /\ tick' = [Idle EXCEPT !.pc = "each", !.due = tick.due]
      /\ clock' = clock /\ defs' = defs /\ rows' = rows /\ clears' = clears
      /\ made' = made /\ handled' = handled
  BY DEF TickAdvance, bounds, history
<1>2. PICK a \in Automation :
         /\ slot[a] # NoTime /\ tick.id[1] = a
         /\ tick.now \in Int /\ handled[a] <= tick.now
         /\ \A p \in tick.due : p[1] # a
  BY <1>1 DEF IInv, TickInv, IdOf
<1>3. /\ defs[a] \in Definition /\ defs[a].enabled
      /\ handled[a] \in Int /\ handled[a] <= clock
  BY <1>2 DEF IInv, TypeInv, SlotInv
<1>4. next # NoTime => next \in Int /\ next > tick.now /\ ComesRound(defs[a].rule, next)
  BY <1>2, <1>3, RuleOf, NextScheduleIsFirst DEF NextSlot
<1> HIDE DEF next
<1>5. /\ slot' \in [Automation -> Int \cup {NoTime}]
      /\ \A b \in Automation : b # a => slot'[b] = slot[b]
      /\ slot'[a] = slot[a] \/ (next # NoTime /\ slot'[a] = next)
  BY <1>1, <1>2, <1>4 DEF IInv, TypeInv
<1>6. tick' = [pc |-> "each", due |-> tick.due, id |-> NoDef, now |-> 0, kind |-> "enqueued"]
  BY <1>1 DEF Idle
<1>7. TypeInv'
  BY <1>1, <1>5, <1>6 DEF IInv, TypeInv
<1>8. SlotInv'
  <2> SUFFICES ASSUME NEW b \in Automation
               PROVE  /\ (handled[b] <= clock)'
                      /\ (slot[b] # NoTime)' =>
                            /\ (defs[b] # NoDef /\ defs[b].enabled /\ ComesRound(defs[b].rule, slot[b]))'
                            /\ (slot[b] > handled[b] \/ IdOf(b) \in DOMAIN made)'
    BY DEF SlotInv
  <2>1. CASE slot'[b] = slot[b]
    <3>1. IdOf(b)' = IdOf(b)
      BY <1>1, <2>1 DEF IdOf
    <3> QED BY <1>1, <2>1, <3>1 DEF IInv, SlotInv
  <2>2. CASE slot'[b] # slot[b]
    <3>1. b = a /\ slot'[b] = next /\ next # NoTime
      BY <1>5, <2>2
    <3> QED BY <1>1, <1>2, <1>3, <1>4, <3>1, NoDefAssumption
  <2> QED BY <2>1, <2>2
<1>9. TickInv'
  BY <1>1, <1>2, <1>5, <1>6 DEF IInv, TypeInv, TickInv
<1>10. RowsInv'
  BY <1>1 DEF IInv, RowsInv
<1> QED BY <1>7, <1>8, <1>9, <1>10 DEF IInv

\* A tick that ends, fails or is cut short leaves the slots and the rows as they are.
LEMMA TickEndsKeeps ==
    ASSUME IInv, tick' = Idle, UNCHANGED <<clock, defs, slot, rows, clears, history>>
    PROVE  IInv'
<1>1. tick' = [pc |-> "idle", due |-> {}, id |-> NoDef, now |-> 0, kind |-> "enqueued"]
  BY DEF Idle
<1>2. TypeInv'
  BY <1>1 DEF IInv, TypeInv, history
<1>3. SlotInv' /\ RowsInv'
  BY DEF IInv, SlotInv, RowsInv, IdOf, history
<1>4. TickInv'
  BY <1>1 DEF TickInv
<1> QED BY <1>2, <1>3, <1>4 DEF IInv

-----------------------------------------------------------------------------
(* Everything else.                                                        *)

LEMMA PassKeeps == ASSUME IInv, Pass PROVE IInv'
<1>1. /\ UNCHANGED <<defs, slot, rows, tick, clears, made, handled>>
      /\ clock' \in Int /\ clock <= clock'
  BY BoundsAssumption DEF Pass, bounds, history, IInv, TypeInv
<1>2. TypeInv'
  BY <1>1 DEF IInv, TypeInv
<1>3. SlotInv'
  <2>1. ASSUME NEW a \in Automation
        PROVE  IdOf(a)' = IdOf(a) /\ handled'[a] <= clock'
    <3>1. clock \in Int /\ handled[a] \in Int /\ handled[a] <= clock
      BY DEF IInv, TypeInv, SlotInv
    <3> QED BY <1>1, <3>1 DEF IdOf
  <2> QED BY <1>1, <2>1 DEF IInv, SlotInv
<1>4. TickInv'
  <2>1. \A a \in Automation : IdOf(a)' = IdOf(a)
    BY <1>1 DEF IdOf
  <2>2. \A n \in Int : n <= clock => n <= clock'
    BY <1>1 DEF IInv, TypeInv
  <2> QED BY <1>1, <2>1, <2>2 DEF IInv, TickInv
<1>5. RowsInv'
  BY <1>1 DEF IInv, RowsInv
<1> QED BY <1>2, <1>3, <1>4, <1>5 DEF IInv

LEMMA ClearKeeps == ASSUME IInv, Clear PROVE IInv'
<1>1. /\ UNCHANGED <<clock, defs, slot, tick, made, handled>>
      /\ clears' = clears + 1 /\ rows' \subseteq rows
  BY DEF Clear, history
<1>2. TypeInv'
  BY <1>1 DEF IInv, TypeInv
<1>3. SlotInv' /\ \A a \in Automation : IdOf(a)' = IdOf(a)
  BY <1>1 DEF IInv, SlotInv, IdOf
<1>4. TickInv'
  BY <1>1, <1>3 DEF IInv, TickInv
<1>5. RowsInv'
  BY <1>1 DEF IInv, TypeInv, RowsInv
<1> QED BY <1>2, <1>3, <1>4, <1>5 DEF IInv

LEMMA NextKeeps == ASSUME IInv, [Next]_vars PROVE IInv'
<1>1. CASE \E a \in Automation, def \in Definition : Save(a, def)
  BY <1>1, SaveKeeps
<1>2. CASE \E a \in Automation : Delete(a)
  BY <1>2, DeleteKeeps
<1>3. CASE Tick
  <2>1. CASE TickDue
    BY <2>1, TickDueKeeps
  <2>2. CASE \E p \in tick.due : TickEach(p)
    BY <2>2, TickEachKeeps
  <2>3. CASE TickInsert
    BY <2>3, TickInsertKeeps
  <2>4. CASE TickAdvance
    BY <2>4, TickAdvanceKeeps
  <2>5. CASE TickDone
    BY <2>5, TickEndsKeeps DEF TickDone, bounds
  <2> QED BY <1>3, <2>1, <2>2, <2>3, <2>4, <2>5 DEF Tick
<1>4. CASE TickFails
  BY <1>4, TickEndsKeeps DEF TickFails
<1>5. CASE Pass
  BY <1>5, PassKeeps
<1>6. CASE Clear
  BY <1>6, ClearKeeps
<1>7. CASE Crash
  BY <1>7, TickEndsKeeps DEF Crash
<1>8. CASE UNCHANGED vars
  <2>1. UNCHANGED <<clock, defs, slot, rows, tick, clears, made, handled>>
    BY <1>8 DEF vars, bounds, history
  <2> QED BY <2>1 DEF IInv, TypeInv, SlotInv, TickInv, RowsInv, IdOf
<1> QED BY <1>1, <1>2, <1>3, <1>4, <1>5, <1>6, <1>7, <1>8 DEF Next

\* Slots are of their definitions, a tick works on slots that are due, and what was made has
\* its row: the invariant the others follow from.
THEOREM Invariance == Spec => []IInv
<1> QED BY InitIInv, NextKeeps, PTL DEF Spec

-----------------------------------------------------------------------------
(* What follows from it.                                                   *)

\* As long as the history is not cleared a slot makes one activity, through ticks that fail
\* between insert and advance, crashes, and ticks that find the slot due again.
THEOREM SlotRunsOnce == Spec => []OncePerKeptSlot
<1>1. IInv => OncePerKeptSlot
  BY DEF IInv, RowsInv, OncePerKeptSlot, OncePerSlot, BagToSet
<1> QED BY <1>1, Invariance, PTL

\* A slot is a time of the enabled definition that is stored, whatever was saved, deleted
\* or advanced in between.
THEOREM SlotFitsDefinition == Spec => []SlotIsOfDefinition
<1>1. IInv => SlotIsOfDefinition
  BY DEF IInv, SlotInv, SlotIsOfDefinition
<1> QED BY <1>1, Invariance, PTL

\* An activity is for a slot later than the moment the one before it was made: the slots
\* that a sleep passed over give one activity.
THEOREM SleepIsCaughtUpOnce == Spec => CatchUpOnce
<1>1. ASSUME IInv, [Next]_vars
      PROVE  [\A id \in BagToSet(made') \ BagToSet(made) : id[3] > handled[id[1]]]_vars
  <2> SUFFICES ASSUME NEW id \in DOMAIN made', id \notin DOMAIN made PROVE id[3] > handled[id[1]]
    BY DEF BagToSet
  <2>1. made' # made
    OBVIOUS
  <2>2. TickInsert
    BY <1>1, <2>1 DEF Next, Save, Delete, Tick, TickDue, TickEach, TickAdvance, TickDone, TickFails,
                      Pass, Clear, Crash, vars, history
  <2>3. id = tick.id
    BY <2>1, <2>2 DEF TickInsert, IsDuplicate, (+), SetToBag
  <2>4. PICK a \in Automation : slot[a] # NoTime /\ tick.id = IdOf(a)
    BY <1>1, <2>2 DEF TickInsert, IInv, TickInv
  <2> QED BY <1>1, <2>3, <2>4 DEF IInv, SlotInv, IdOf
<1> QED BY <1>1, Invariance, PTL DEF Spec, CatchUpOnce

\* A slot of a definition that stays only moves on when it has its record, be it one of an
\* activity that was skipped or missed.
THEOREM SlotsAreNotLost == Spec => NoSlotLost
<1> DEFINE A == \A a \in Automation :
                   slot[a] # NoTime /\ slot'[a] # slot[a] /\ defs'[a] = defs[a]
                      => <<a, defs[a].revision, slot[a]>> \in BagToSet(made)
<1>1. ASSUME IInv, [Next]_vars PROVE [A]_vars
  <2> SUFFICES ASSUME NEW a \in Automation, slot[a] # NoTime, slot'[a] # slot[a], defs'[a] = defs[a]
               PROVE  IdOf(a) \in DOMAIN made
    BY DEF IdOf, BagToSet
  <2>1. defs[a] # NoDef /\ defs[a] \in Definition /\ defs[a].revision \in Nat
    BY <1>1, RuleOf DEF IInv, TypeInv, SlotInv
  <2>2. ASSUME NEW b \in Automation, NEW def \in Definition, Save(b, def) PROVE FALSE
    <3>1. b = a /\ defs'[a] = def
      BY <1>1, <2>2 DEF Save, IInv, TypeInv
    <3> QED BY <2>1, <2>2, <3>1 DEF Save
  <2>3. ASSUME NEW b \in Automation, Delete(b) PROVE FALSE
    BY <1>1, <2>1, <2>3 DEF Delete, IInv, TypeInv
  <2>4. TickAdvance
    BY <1>1, <2>2, <2>3 DEF Next, Tick, TickDue, TickEach, TickInsert, TickDone, TickFails,
                            Pass, Clear, Crash, vars
  <2>5. PICK b \in Automation : tick.id = IdOf(b) /\ tick.id \in DOMAIN made
    BY <1>1, <2>4 DEF TickAdvance, IInv, TickInv
  <2>6. b = a
    BY <1>1, <2>4, <2>5 DEF TickAdvance, IInv, TypeInv, IdOf
  <2> QED BY <2>5, <2>6
<1> QED BY <1>1, Invariance, PTL DEF Spec, NoSlotLost
=============================================================================

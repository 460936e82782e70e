----------------------------- MODULE Scheduler -----------------------------
(***************************************************************************)
(* Scheduled automations: the slot that save stores with a definition, and *)
(* the tick of the engine, every 15 seconds, that makes an activity of     *)
(* each due slot and advances it (engine.rs tick, start_scheduler;         *)
(* store.rs save, delete, due, advance_schedule).  tick, save and delete   *)
(* hold the gate; the clock runs, the history is cleared and the process   *)
(* dies at any point of a tick.                                            *)
(***************************************************************************)
EXTENDS ZoneCalendar, Bags

CONSTANTS
    Automation,  \* automations with a schedule trigger
    Rule,        \* times of day with their weekdays
    Grace,       \* a slot that is older was missed (90 seconds in the code)
    Sleep,       \* by how much the clock moves on at once
    LastInstant, \* bound: the clock stops there
    MaxEdits,    \* bound: saves in a behaviour
    MaxClears,   \* bound: clears of the history in a behaviour
    MaxCrashes,  \* bound: process crashes in a behaviour
    MaxFaults,   \* bound: failing database calls in a behaviour
    MaxMishaps,  \* bound: clears, crashes and failing calls together
    NoDef

ASSUME BoundsAssumption ==
    /\ Grace \in Nat /\ Sleep \subseteq Nat \ {0} /\ LastInstant \in Nat
    /\ MaxEdits \in Nat /\ MaxClears \in Nat /\ MaxCrashes \in Nat /\ MaxFaults \in Nat
    /\ MaxMishaps \in Nat

\* What validate lets pass.
ASSUME RuleAssumption ==
    Rule \subseteq [time : 0 .. DayLength - 1, weekdays : (SUBSET (1 .. 7)) \ {{}}]

VARIABLES
    clock,   \* UTC
    defs,    \* table automations
    slot,    \* table automation_schedule
    rows,    \* table automation_runs: the activities of slots
    tick,    \* where the tick that holds the gate stands
    edits, clears, crashes, faults,   \* how many so far
    made,    \* history: the activities ever inserted, as a bag of slots
    handled  \* history: the clock when the last slot of a definition got its activity

bounds  == <<edits, clears, crashes, faults>>
history == <<made, handled>>
vars == <<clock, defs, slot, rows, tick, bounds, history>>

Instant == 0 .. LastInstant
Definition == [revision : 1 .. MaxEdits, enabled : BOOLEAN, rule : Rule, catchUp : BOOLEAN]
ASSUME NoDefAssumption == NoDef \notin Definition

\* The id of a tick is that of a slot's event: <<automation, revision, instant>>.
Idle == [pc |-> "idle", due |-> {}, id |-> NoDef, now |-> 0, kind |-> "enqueued"]

Init ==
    /\ clock = DayLength
    /\ defs = [a \in Automation |-> NoDef]
    /\ slot = [a \in Automation |-> NoTime]
    /\ rows = {}
    /\ tick = Idle
    /\ edits = 0 /\ clears = 0 /\ crashes = 0 /\ faults = 0
    /\ made = EmptyBag
    /\ handled = [a \in Automation |-> 0]

MishapLeft == clears + crashes + faults < MaxMishaps

GateFree == tick.pc = "idle"

-----------------------------------------------------------------------------
(* save and delete, each a transaction under the gate.                     *)

\* Mutant: an old slot is left when there is no new one.
SlotLeft(a, def) ==
    IF def.enabled THEN NextSchedule(def.rule, clock) ELSE slot[a]

\* The slot is deleted and, for an enabled definition, its next one inserted, if any.
SlotOf(a, def) ==
    IF def.enabled THEN NextSchedule(def.rule, clock) ELSE NoTime

Save(a, def) ==
    /\ GateFree
    /\ edits < MaxEdits
    /\ edits' = edits + 1
    /\ def.revision = (IF defs[a] = NoDef THEN 1 ELSE defs[a].revision + 1)
    /\ defs' = [defs EXCEPT ![a] = def]
    /\ slot' = [slot EXCEPT ![a] = SlotOf(a, def)]
    /\ UNCHANGED <<clock, rows, tick, clears, crashes, faults, history>>

Delete(a) ==
    /\ GateFree
    /\ defs' = [defs EXCEPT ![a] = NoDef]
    /\ slot' = [slot EXCEPT ![a] = NoTime]
    /\ UNCHANGED <<clock, rows, tick, bounds, history>>

-----------------------------------------------------------------------------
(* tick                                                                    *)

Due == {<<a, slot[a]>> : a \in {b \in Automation : slot[b] # NoTime /\ slot[b] <= clock}}

TickDue ==
    /\ GateFree
    /\ Due # {}
    /\ tick' = [Idle EXCEPT !.pc = "each", !.due = Due]
    /\ UNCHANGED <<clock, defs, slot, rows, bounds, history>>

Late(def, at) == clock - at > Grace /\ ~def.catchUp

\* Mutant: a slot that is too old is passed over without a record.
TickEachInTime(p) ==
    LET def == defs[p[1]]
    IN  /\ tick.pc = "each"
        /\ p \in tick.due
        /\ def # NoDef
        /\ tick' = IF def.enabled
                   THEN [pc |-> IF Late(def, p[2]) THEN "advance" ELSE "insert",
                         due |-> tick.due \ {p}, now |-> clock, id |-> <<p[1], def.revision, p[2]>>,
                         kind |-> "enqueued"]
                   ELSE [tick EXCEPT !.due = @ \ {p}]
        /\ UNCHANGED <<clock, defs, slot, rows, bounds, history>>

\* The loop reads a definition and the clock: a due slot is handed to enqueue (which may
\* still skip it), a slot that was missed is only recorded.
TickEach(p) ==
    LET def == defs[p[1]]
    IN  /\ tick.pc = "each"
        /\ p \in tick.due
        /\ def # NoDef
        /\ tick' = IF def.enabled
                   THEN [pc |-> "insert", due |-> tick.due \ {p}, now |-> clock,
                         id |-> <<p[1], def.revision, p[2]>>,
                         kind |-> IF Late(def, p[2]) THEN "missed" ELSE "enqueued"]
                   ELSE [tick EXCEPT !.due = @ \ {p}]
        /\ UNCHANGED <<clock, defs, slot, rows, bounds, history>>

\* Mutant: the event of a slot gets a new id each time.
NeverInRows(id) == FALSE

\* UNIQUE(automation_id, event_id), INSERT OR IGNORE
IsDuplicate(id) == \E x \in rows : x.id = id

TickInsert ==
    /\ tick.pc = "insert"
    /\ tick' = [tick EXCEPT !.pc = "advance"]
    /\ IF IsDuplicate(tick.id)
       THEN UNCHANGED <<rows, made, handled>>
       ELSE /\ rows' = rows \cup {[id |-> tick.id, kind |-> tick.kind]}
            /\ made' = made (+) SetToBag({tick.id})
            /\ handled' = [handled EXCEPT ![tick.id[1]] = tick.now]
    /\ UNCHANGED <<clock, defs, slot, bounds>>

\* Mutant: the next slot is looked for from the slot that was due.
AdvanceFromSlot(a) == NextSchedule(defs[a].rule, tick.id[3])

\* Mutant: a missed slot is recorded and left there.
NextUnlessMissed(a) ==
    IF tick.kind = "missed" THEN NoTime ELSE NextSchedule(defs[a].rule, tick.now)

\* The next slot is looked for from the clock the loop read.
NextSlot(a) == NextSchedule(defs[a].rule, tick.now)

\* A slot without a next one stays as it is.
TickAdvance ==
    LET a == tick.id[1]
    IN  /\ tick.pc = "advance"
        /\ slot' = IF NextSlot(a) = NoTime THEN slot ELSE [slot EXCEPT ![a] = NextSlot(a)]
        /\ tick' = [Idle EXCEPT !.pc = "each", !.due = tick.due]
        /\ UNCHANGED <<clock, defs, rows, bounds, history>>

TickDone ==
    /\ tick.pc = "each"
    /\ tick.due = {}
    /\ tick' = Idle
    /\ UNCHANGED <<clock, defs, slot, rows, bounds, history>>

Tick == TickDue \/ (\E p \in tick.due : TickEach(p)) \/ TickInsert \/ TickAdvance \/ TickDone

\* A ? ends the tick, for the definitions that are still due as well; its error is logged.
TickFails ==
    /\ tick.pc # "idle"
    /\ faults < MaxFaults /\ MishapLeft
    /\ faults' = faults + 1
    /\ tick' = Idle
    /\ UNCHANGED <<clock, defs, slot, rows, edits, clears, crashes, history>>

-----------------------------------------------------------------------------
(* Everything else.                                                        *)

\* Time passes, also while the computer is asleep.
Pass ==
    /\ \E d \in Sleep : clock + d \in Instant /\ clock' = clock + d
    /\ UNCHANGED <<defs, slot, rows, tick, bounds, history>>

\* clear_activities: any of the activities may have ended, a missed one has.
Clear ==
    /\ clears < MaxClears /\ MishapLeft
    /\ clears' = clears + 1
    /\ \E running \in SUBSET {x \in rows : x.kind = "enqueued"} : rows' = running
    /\ UNCHANGED <<clock, defs, slot, tick, edits, crashes, faults, history>>

Crash ==
    /\ crashes < MaxCrashes /\ MishapLeft
    /\ crashes' = crashes + 1
    /\ tick' = Idle
    /\ UNCHANGED <<clock, defs, slot, rows, edits, clears, faults, history>>

Next ==
    \/ \E a \in Automation, def \in Definition : Save(a, def)
    \/ \E a \in Automation : Delete(a)
    \/ Tick \/ TickFails
    \/ Pass \/ Clear \/ Crash

Spec == Init /\ [][Next]_vars

\* interval.tick() comes again and again, and the gate is fair.
FairSpec == Spec /\ WF_vars(Tick)

-----------------------------------------------------------------------------
\* A slot makes one activity, however often the tick that inserts it fails or is cut
\* short by a crash before it advances the slot ("skip or catch up once").
OncePerSlot == \A id \in BagToSet(made) : made[id] = 1

\* The same, as long as its activity stays in the history.
OncePerKeptSlot == clears = 0 => OncePerSlot

\* The slots that passed during one sleep are caught up by one activity: the next one
\* is for a slot that came after the clock the last one was made at.
CatchUpOnce ==
    [][\A id \in BagToSet(made') \ BagToSet(made) : id[3] > handled[id[1]]]_vars

\* A slot belongs to the enabled definition that is stored, and is one of its times.
SlotIsOfDefinition ==
    \A a \in Automation : slot[a] # NoTime =>
       defs[a] # NoDef /\ defs[a].enabled /\ ComesRound(defs[a].rule, slot[a])

\* No slot of a definition is passed over without a record of it.
NoSlotLost ==
    [][\A a \in Automation :
          slot[a] # NoTime /\ slot'[a] # slot[a] /\ defs'[a] = defs[a]
             => <<a, defs[a].revision, slot[a]>> \in BagToSet(made)]_vars

\* A slot that is due does not stay due: with NoSlotLost, it gets its record in the end.
DueMovesOn ==
    \A a \in Automation :
       (slot[a] # NoTime /\ slot[a] <= clock) ~> (slot[a] = NoTime \/ slot[a] > clock)
=============================================================================

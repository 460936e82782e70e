-------------------------- MODULE AutomationEngine --------------------------
(***************************************************************************)
(* The life of an activity (one row of automation_runs) inside the         *)
(* AutomationEngine of src/src/engine.rs.  Three kinds of actor share the  *)
(* database:                                                               *)
(*                                                                         *)
(*   - the call that holds the gate mutex (dispatch, run, test, confirm,   *)
(*     cancel, recover), described by the variable op;                     *)
(*   - the tokio tasks that launch spawns, one per ticket, each executing  *)
(*     an activity on a private copy of its row (variables pc, of, copy,   *)
(*     at); they write the row without holding the gate, except for the    *)
(*     transition to "awaitingConfirmation";                               *)
(*   - clear_activities, which takes no gate.                              *)
(*                                                                         *)
(* An action is what the code does between two awaits at which another     *)
(* actor can interfere.  The data of a step (script, text, output) and of  *)
(* an environment (conditions, clock) is abstracted to its outcome.        *)
(***************************************************************************)
EXTENDS Naturals, FiniteSets

CONSTANTS
    Automation,   \* ids of automation definitions
    Event,        \* ids of events an outside source may deliver, even twice
    Run,          \* ids of activities (uuids)
    Ticket,       \* tickets of launched tasks (uuids)
    NumSteps,     \* number of steps of a definition
    QuickAction,  \* {<<a, i>>} : step i of a is a QuickAction
    Dangerous,    \* {<<a, i>>} : its snapshot says requires_confirmation
    AskFirst,     \* automations whose run_mode is AskBeforeRun
    Chained,      \* events that carry an origin_automation_id
    MaxActive,    \* bound on outstanding activities (128 in the code)
    Capacity,     \* permits of the capacity semaphore (16 in the code)
    MaxCrashes,   \* bound: process crashes in a behaviour
    MaxFaults,    \* bound: failing database calls in a behaviour
    NoRow, NoTicket, NoRun, NoEvent

Step == 1 .. NumSteps

ASSUME NumStepsAssumption == NumSteps \in Nat \ {0}
ASSUME StepSetsAssumption ==
    /\ Dangerous \subseteq QuickAction
    /\ QuickAction \subseteq Automation \X Step
    /\ AskFirst \subseteq Automation
    /\ Chained \subseteq Event
ASSUME LimitsAssumption ==
    /\ MaxActive \in Nat \ {0}
    /\ Capacity \in Nat \ {0}
    /\ MaxCrashes \in Nat
    /\ MaxFaults \in Nat
    /\ IsFiniteSet(Run)
ASSUME NullsAssumption ==
    /\ NoTicket \notin Ticket
    /\ NoRun \notin Run
    /\ NoEvent \notin Event

-----------------------------------------------------------------------------
(* Statuses and documents.                                                 *)

Terminal == {"skipped", "succeeded", "failed", "canceled", "interrupted"}
InFlight == {"queued", "running"}
Active   == InFlight \cup {"awaitingConfirmation"}
Status   == Active \cup Terminal

\* A step has a status of its own; "absent" is a step not yet pushed.
StepStatus == Status \cup {"absent"}

Activity == [auto : Automation, event : Event \cup {NoEvent}, status : Status,
             steps : [Step -> StepStatus], confirmed : SUBSET Step,
             runConfirmed : BOOLEAN]

\* What an activity is created for.
Job == [auto : Automation, event : Event \cup {NoEvent}]

ASSUME NoRowAssumption == NoRow \notin Activity \cup Job

NewActivity(a, e, s) ==
    [auto |-> a, event |-> e, status |-> s, steps |-> [i \in Step |-> "absent"],
     confirmed |-> {}, runConfirmed |-> FALSE]

-----------------------------------------------------------------------------
VARIABLES
    db,        \* automation_runs: the persisted document of each activity
    active,    \* Inner.active: the ticket a run is cancelled through
    pc,        \* where the task of a ticket stands
    of,        \* the run the task of a ticket executes
    copy,      \* the task's private copy of the activity
    at,        \* the task's loop index
    canceled,  \* the tickets whose CancellationToken is cancelled
    op,        \* the call that holds the gate
    crashes,   \* crashes so far
    faults,    \* failed database calls so far
    born,      \* history: the (automation, event) each activity was created for
    ran,       \* history: how often each step was handed to its executor
    grants     \* history: confirmations the user gave to each activity

dbVars   == <<db, born>>
taskVars == <<pc, of, copy, at>>
history  == <<ran, grants>>
vars == <<db, active, pc, of, copy, at, canceled, op, crashes, faults, born, ran, grants>>

TaskPc == {"unspawned", "start", "acquire", "abandon", "loop", "gate", "parking",
           "begin", "recheck", "ready", "executing", "stepDone", "final", "error",
           "remove", "gone"}

\* The task holds a permit of the capacity semaphore.
Holding == {"loop", "gate", "parking", "begin", "recheck", "ready", "executing",
            "stepDone", "final"}

\* The task has not yet finished writing its row.
Working == Holding \cup {"start", "acquire", "abandon", "error"}

OpPc == {"idle", "check", "insert", "persist", "launch", "prune", "confirm",
         "confirmLaunch", "cancel", "recover"}

Call == [pc : OpPc, run : Run \cup {NoRun}, act : Activity \cup {NoRow},
         todo : SUBSET Automation, event : Event \cup {NoEvent}, manual : BOOLEAN]

Idle == [pc |-> "idle", run |-> NoRun, act |-> NoRow, todo |-> {}, event |-> NoEvent,
         manual |-> FALSE]

TypeOK ==
    /\ db \in [Run -> Activity \cup {NoRow}]
    /\ active \in [Run -> Ticket \cup {NoTicket}]
    /\ pc \in [Ticket -> TaskPc]
    /\ of \in [Ticket -> Run \cup {NoRun}]
    /\ copy \in [Ticket -> Activity \cup {NoRow}]
    /\ at \in [Ticket -> 1 .. NumSteps + 1]
    /\ canceled \subseteq Ticket
    /\ op \in Call
    /\ crashes \in 0 .. MaxCrashes
    /\ faults \in 0 .. MaxFaults
    /\ born \in [Run -> Job \cup {NoRow}]
    /\ ran \in [Run -> [Step -> Nat]]
    /\ grants \in [Run -> Nat]

Init ==
    /\ db = [r \in Run |-> NoRow]
    /\ active = [r \in Run |-> NoTicket]
    /\ pc = [k \in Ticket |-> "unspawned"]
    /\ of = [k \in Ticket |-> NoRun]
    /\ copy = [k \in Ticket |-> NoRow]
    /\ at = [k \in Ticket |-> 1]
    /\ canceled = {}
    /\ op = Idle
    /\ crashes = 0
    /\ faults = 0
    /\ born = [r \in Run |-> NoRow]
    /\ ran = [r \in Run |-> [i \in Step |-> 0]]
    /\ grants = [r \in Run |-> 0]

-----------------------------------------------------------------------------
(* The database and the gate.                                              *)

Rows(S) == {r \in Run : db[r] # NoRow /\ db[r].status \in S}

\* save_activity is an UPDATE: it changes nothing when the row is gone.
Save(r, act) == db' = IF db[r] = NoRow THEN db ELSE [db EXCEPT ![r] = act]

\* The gate is held by op or by a task that is parking its activity.
GateFree == op.pc = "idle" /\ \A k \in Ticket : pc[k] # "parking"

DbFails == faults < MaxFaults /\ faults' = faults + 1

\* Bounds: there are uuids left for n more activities and their tasks.
IdsLeft(n) ==
    /\ Cardinality({r \in Run : born[r] = NoRow}) >= n
    /\ Cardinality({k \in Ticket : pc[k] = "unspawned"}) >= n

-----------------------------------------------------------------------------
(* dispatch, run, test: one or several enqueue calls under the gate.       *)

StartEnqueue(targets, e, isManual) ==
    /\ GateFree
    /\ IdsLeft(Cardinality(targets))
    /\ op' = [Idle EXCEPT !.pc = "check", !.todo = targets, !.event = e, !.manual = isManual]
    /\ UNCHANGED <<dbVars, active, taskVars, canceled, crashes, faults, history>>

\* Which enabled definitions match is up to the definitions of the moment.
Dispatch(targets, e) == targets # {} /\ StartEnqueue(targets, e, FALSE)

\* run makes a new manual event, which no other activity can carry.
RunNow(a) == StartEnqueue({a}, NoEvent, TRUE)

Test(a, e) == StartEnqueue({a}, e, TRUE)

\* Mutant: the previous run is not looked at.
SkipsNoOverlap(a, e) == e \in Chained \/ Cardinality(Rows(Active)) >= MaxActive

\* Mutant: the limit is one too high.
SkipsTooLate(a, e) ==
    \/ e \in Chained
    \/ \E r \in Rows(Active) : db[r].auto = a
    \/ Cardinality(Rows(Active)) > MaxActive

\* The reasons to skip that do not depend on the clock or the environment.
MustSkip(a, e) ==
    \/ e \in Chained
    \/ \E r \in Rows(Active) : db[r].auto = a
    \/ Cardinality(Rows(Active)) >= MaxActive

\* A cooldown or a failing condition may skip an event, never a manual run.
Verdict(a, e, isManual) ==
    IF MustSkip(a, e) THEN {"skipped"}
    ELSE IF isManual THEN {"queued"} ELSE {"queued", "skipped"}

EnqueueCheck ==
    /\ op.pc = "check"
    /\ \E a \in op.todo, r \in Run :
          /\ born[r] = NoRow
          /\ \E s \in Verdict(a, op.event, op.manual) :
                op' = [op EXCEPT !.pc = "insert", !.run = r, !.todo = @ \ {a},
                                 !.act = NewActivity(a, op.event, s)]
    /\ UNCHANGED <<dbVars, active, taskVars, canceled, crashes, faults, history>>

\* The loop of dispatch goes on to its next definition, or the gate is dropped.
NextTarget == IF op.todo = {} THEN Idle ELSE [op EXCEPT !.pc = "check", !.run = NoRun, !.act = NoRow]

\* UNIQUE(automation_id, event_id)
IsDuplicate(act) ==
    /\ act.event # NoEvent
    /\ \E r \in Run : db[r] # NoRow /\ db[r].auto = act.auto /\ db[r].event = act.event

\* INSERT OR IGNORE: a duplicate ends this enqueue with the id of the first one.
EnqueueInsert ==
    /\ op.pc = "insert"
    /\ IF IsDuplicate(op.act)
       THEN op' = NextTarget /\ UNCHANGED dbVars
       ELSE /\ db' = [db EXCEPT ![op.run] = op.act]
            /\ born' = [born EXCEPT ![op.run] = [auto |-> op.act.auto, event |-> op.act.event]]
            /\ op' = [op EXCEPT !.pc = "persist"]
    /\ UNCHANGED <<active, taskVars, canceled, crashes, faults, history>>

\* The document after the snapshots of its first n steps are taken.
Snapshotted(act, n) ==
    [act EXCEPT
       !.steps = [i \in Step |-> IF i <= n THEN "queued" ELSE "absent"],
       !.status = IF n < NumSteps THEN "failed"
                  ELSE IF act.auto \in AskFirst THEN "awaitingConfirmation" ELSE "queued"]

\* Taking the snapshots stops at a QuickAction that no longer exists.
SnapshotOutcomes(act) ==
    IF act.status \in Terminal THEN {act}
    ELSE {Snapshotted(act, n) : n \in {NumSteps} \cup {i - 1 : i \in {j \in Step : <<act.auto, j>> \in QuickAction}}}

EnqueuePersist ==
    /\ op.pc = "persist"
    /\ \E act \in SnapshotOutcomes(op.act) :
          /\ Save(op.run, act)
          /\ op' = [op EXCEPT !.act = act, !.pc = IF act.status = "queued" THEN "launch" ELSE "prune"]
    /\ UNCHANGED <<born, active, taskVars, canceled, crashes, faults, history>>

Launch(r, k) ==
    /\ pc[k] = "unspawned"
    /\ active' = [active EXCEPT ![r] = k]
    /\ pc' = [pc EXCEPT ![k] = "start"]
    /\ of' = [of EXCEPT ![k] = r]

EnqueueLaunch ==
    /\ op.pc = "launch"
    /\ \E k \in Ticket : Launch(op.run, k)
    /\ op' = [op EXCEPT !.pc = "prune"]
    /\ UNCHANGED <<dbVars, copy, at, canceled, crashes, faults, history>>

Forget(gone) == db' = [r \in Run |-> IF r \in gone THEN NoRow ELSE db[r]]

\* prune(false): any finished rows may be past the retention limits.
EnqueuePrune ==
    /\ op.pc = "prune"
    /\ \E gone \in SUBSET Rows(Terminal) : Forget(gone)
    /\ op' = NextTarget
    /\ UNCHANGED <<born, active, taskVars, canceled, crashes, faults, history>>

\* Mutant: only rows with a task are kept.
ClearAllButInFlight ==
    /\ Forget(Rows(Status \ InFlight))
    /\ UNCHANGED <<born, active, taskVars, canceled, op, crashes, faults, history>>

\* clear_activities: prune(true), without the gate, also while recover is at work.
ClearActivities ==
    /\ Forget(Rows(Terminal))
    /\ UNCHANGED <<born, active, taskVars, canceled, op, crashes, faults, history>>

-----------------------------------------------------------------------------
(* confirm                                                                 *)

First(S) == {i \in S : \A j \in S : i <= j}

\* Mutant: one confirmation confirms the run and everything in it.
ConfirmedAtOnce(act) ==
    [act EXCEPT !.runConfirmed = TRUE, !.status = "queued", !.confirmed = Step]

\* What a confirmation is taken for: the run first, then the waiting step.
Confirmed(act) ==
    IF ~act.runConfirmed /\ act.auto \in AskFirst
    THEN [act EXCEPT !.runConfirmed = TRUE, !.status = "queued"]
    ELSE [act EXCEPT !.status = "queued",
                     !.confirmed = @ \cup First({i \in Step : act.steps[i] = "awaitingConfirmation"})]

\* The session is unlocked, or confirm would have returned an error.
ConfirmRead(r) ==
    /\ GateFree
    /\ \E k \in Ticket : pc[k] = "unspawned"
    /\ r \in Rows({"awaitingConfirmation"})
    /\ op' = [Idle EXCEPT !.pc = "confirm", !.run = r, !.act = Confirmed(db[r])]
    /\ UNCHANGED <<dbVars, active, taskVars, canceled, crashes, faults, history>>

ConfirmPersist ==
    /\ op.pc = "confirm"
    /\ Save(op.run, op.act)
    /\ grants' = [grants EXCEPT ![op.run] = @ + 1]
    /\ op' = [op EXCEPT !.pc = "confirmLaunch"]
    /\ UNCHANGED <<born, active, taskVars, canceled, crashes, faults, ran>>

ConfirmLaunch ==
    /\ op.pc = "confirmLaunch"
    /\ \E k \in Ticket : Launch(op.run, k)
    /\ op' = Idle
    /\ UNCHANGED <<dbVars, copy, at, canceled, crashes, faults, history>>

-----------------------------------------------------------------------------
(* cancel                                                                  *)

\* A terminal activity is left alone.
CancelRead(r) ==
    /\ GateFree
    /\ r \in Rows(Active)
    /\ op' = [Idle EXCEPT !.pc = "cancel", !.run = r, !.act = db[r]]
    /\ UNCHANGED <<dbVars, active, taskVars, canceled, crashes, faults, history>>

\* The document read before the wait for the active map is the one written.
CancelWrites == active[op.run] = NoTicket \/ op.act.status = "awaitingConfirmation"

CancelDecide ==
    /\ op.pc = "cancel"
    /\ canceled' = IF active[op.run] = NoTicket THEN canceled
                   ELSE canceled \cup {active[op.run]}
    /\ IF CancelWrites THEN Save(op.run, [op.act EXCEPT !.status = "canceled"]) ELSE UNCHANGED db
    /\ op' = Idle
    /\ UNCHANGED <<born, active, taskVars, crashes, faults, history>>

-----------------------------------------------------------------------------
(* execute: the task of ticket k.  Go says where the task stands next.     *)

Go(k, p) == pc' = [pc EXCEPT ![k] = p]

TaskOnly == UNCHANGED <<active, of, canceled, op, crashes, faults, born, grants>>

\* The end of execute: the run succeeded unless the loop was left early, and
\* the steps that never ran are closed.
Closed(act) ==
    [act EXCEPT
       !.status = IF @ \in InFlight THEN "succeeded" ELSE @,
       !.steps = [i \in Step |->
                    IF act.steps[i] \notin InFlight THEN act.steps[i]
                    ELSE IF act.status = "canceled" THEN "canceled" ELSE "skipped"]]

Canceled(act) == Closed([act EXCEPT !.status = "canceled"])

ExecuteLoad(k) ==
    /\ pc[k] = "start"
    /\ copy' = [copy EXCEPT ![k] = db[of[k]]]
    /\ Go(k, IF db[of[k]] = NoRow THEN "error" ELSE "acquire")
    /\ TaskOnly /\ UNCHANGED <<db, at, ran>>

ExecuteAcquire(k) ==
    /\ pc[k] = "acquire"
    /\ Cardinality({j \in Ticket : pc[j] \in Holding}) < Capacity
    /\ Go(k, "loop")
    /\ TaskOnly /\ UNCHANGED <<db, copy, at, ran>>

\* Mutant: the task gives up and forgets to say so.
ExecuteGiveUpSilently(k) ==
    /\ pc[k] = "acquire"
    /\ k \in canceled
    /\ Go(k, "abandon")
    /\ TaskOnly /\ UNCHANGED <<db, copy, at, ran>>

\* Cancelled while it waits for a permit: the steps are left as they are.
ExecuteGiveUp(k) ==
    /\ pc[k] = "acquire"
    /\ k \in canceled
    /\ copy' = [copy EXCEPT ![k].status = "canceled"]
    /\ Go(k, "abandon")
    /\ TaskOnly /\ UNCHANGED <<db, at, ran>>

InLoop(k) == pc[k] = "loop" /\ at[k] \in Step

\* Mutant: a task that goes on after a confirmation starts all over.
NeverSkips(k) == FALSE

\* The step the loop is at was done by an earlier task of the activity.
IsDone(k) == copy[k].steps[at[k]] = "succeeded"

ExecuteSkipSucceeded(k) ==
    /\ InLoop(k)
    /\ IsDone(k)
    /\ at' = [at EXCEPT ![k] = @ + 1]
    /\ TaskOnly /\ UNCHANGED <<db, pc, copy, ran>>

ExecuteCanceled(k) ==
    /\ InLoop(k)
    /\ ~IsDone(k)
    /\ k \in canceled
    /\ copy' = [copy EXCEPT ![k] = Canceled(@)]
    /\ Go(k, "final")
    /\ TaskOnly /\ UNCHANGED <<db, at, ran>>

NeedsConfirmation(k) ==
    <<copy[k].auto, at[k]>> \in Dangerous /\ at[k] \notin copy[k].confirmed

ExecuteAsk(k) ==
    /\ InLoop(k)
    /\ ~IsDone(k)
    /\ k \notin canceled
    /\ NeedsConfirmation(k)
    /\ Go(k, "gate")
    /\ TaskOnly /\ UNCHANGED <<db, copy, at, ran>>

\* Mutant: the token is not looked at again under the gate.
ExecuteGateBlindly(k) ==
    /\ pc[k] = "gate"
    /\ GateFree
    /\ copy' = [copy EXCEPT ![k].status = "awaitingConfirmation",
                            ![k].steps[at[k]] = "awaitingConfirmation"]
    /\ Go(k, "parking")
    /\ TaskOnly /\ UNCHANGED <<db, at, ran>>

\* With the gate held, the token is looked at once more.
ExecuteGate(k) ==
    /\ pc[k] = "gate"
    /\ GateFree
    /\ IF k \in canceled
       THEN copy' = [copy EXCEPT ![k] = Canceled(@)] /\ Go(k, "final")
       ELSE /\ copy' = [copy EXCEPT ![k].status = "awaitingConfirmation",
                                    ![k].steps[at[k]] = "awaitingConfirmation"]
            /\ Go(k, "parking")
    /\ TaskOnly /\ UNCHANGED <<db, at, ran>>

\* Persist the request for confirmation, drop the gate, end the task.
ExecutePark(k) ==
    /\ pc[k] = "parking"
    /\ Save(of[k], copy[k])
    /\ Go(k, "remove")
    /\ TaskOnly /\ UNCHANGED <<copy, at, ran>>

ExecuteBegin(k) ==
    /\ InLoop(k)
    /\ ~IsDone(k)
    /\ k \notin canceled
    /\ ~NeedsConfirmation(k)
    /\ copy' = [copy EXCEPT ![k].status = "running", ![k].steps[at[k]] = "running"]
    /\ Go(k, "begin")
    /\ TaskOnly /\ UNCHANGED <<db, at, ran>>

ExecutePersistBegin(k) ==
    /\ pc[k] = "begin"
    /\ Save(of[k], copy[k])
    /\ Go(k, "recheck")
    /\ TaskOnly /\ UNCHANGED <<copy, at, ran>>

\* The token is looked at again after the write.
ExecuteRecheck(k) ==
    /\ pc[k] = "recheck"
    /\ IF k \in canceled
       THEN copy' = [copy EXCEPT ![k] = Canceled(@)] /\ Go(k, "final")
       ELSE UNCHANGED copy /\ Go(k, "ready")
    /\ TaskOnly /\ UNCHANGED <<db, at, ran>>

\* The action, script, delay or notification starts.
ExecuteStart(k) ==
    /\ pc[k] = "ready"
    /\ ran' = [ran EXCEPT ![of[k]][at[k]] = @ + 1]
    /\ Go(k, "executing")
    /\ TaskOnly /\ UNCHANGED <<db, copy, at>>

\* What the copy becomes when the step ends; an early end leaves the loop.
AfterStep(act, i, s) ==
    LET ended == [act EXCEPT !.steps[i] = s]
    IN  IF s = "succeeded" THEN ended ELSE Closed([ended EXCEPT !.status = s])

\* Mutant: the loop goes on after a step that did not succeed.
StepEndsRegardless(k, outcome) ==
    /\ copy' = [copy EXCEPT ![k].steps[at[k]] = IF k \in canceled THEN "canceled" ELSE outcome]
    /\ Go(k, "stepDone")

\* A result that arrives after the token was cancelled counts as canceled.
StepEnds(k, outcome) ==
    LET s == IF k \in canceled THEN "canceled" ELSE outcome
    IN  /\ copy' = [copy EXCEPT ![k] = AfterStep(@, at[k], s)]
        /\ Go(k, IF s = "succeeded" THEN "stepDone" ELSE "final")

ExecuteResult(k) ==
    /\ pc[k] = "executing"
    /\ \E outcome \in {"succeeded", "failed"} : StepEnds(k, outcome)
    /\ TaskOnly /\ UNCHANGED <<db, at, ran>>

\* An action that needs an unlocked session fails without being started.
ExecuteRefused(k) ==
    /\ pc[k] = "ready"
    /\ <<copy[k].auto, at[k]>> \in QuickAction
    /\ StepEnds(k, "failed")
    /\ TaskOnly /\ UNCHANGED <<db, at, ran>>

ExecutePersistStep(k) ==
    /\ pc[k] = "stepDone"
    /\ Save(of[k], copy[k])
    /\ at' = [at EXCEPT ![k] = @ + 1]
    /\ Go(k, "loop")
    /\ TaskOnly /\ UNCHANGED <<copy, ran>>

ExecuteComplete(k) ==
    /\ pc[k] = "loop"
    /\ at[k] = NumSteps + 1
    /\ copy' = [copy EXCEPT ![k] = Closed(@)]
    /\ Go(k, "final")
    /\ TaskOnly /\ UNCHANGED <<db, at, ran>>

\* The last write of execute, with a permit ("final") or without ("abandon").
ExecuteFinal(k) ==
    /\ pc[k] \in {"final", "abandon"}
    /\ Save(of[k], copy[k])
    /\ Go(k, "remove")
    /\ TaskOnly /\ UNCHANGED <<copy, at, ran>>

\* launch's task: execute returned an error; the stored row is marked failed.
TaskError(k) ==
    /\ pc[k] = "error"
    /\ Save(of[k], [db[of[k]] EXCEPT !.status = "failed"])
    /\ Go(k, "remove")
    /\ TaskOnly /\ UNCHANGED <<copy, at, ran>>

\* Mutant: the ticket is not compared.
TaskRemoveAny(k) ==
    /\ pc[k] = "remove"
    /\ active' = [active EXCEPT ![of[k]] = NoTicket]
    /\ Go(k, "gone")
    /\ UNCHANGED <<dbVars, of, copy, at, canceled, op, crashes, faults, history>>

\* The entry of a later launch of the same activity is not removed.
TaskRemove(k) ==
    /\ pc[k] = "remove"
    /\ active' = IF active[of[k]] = k THEN [active EXCEPT ![of[k]] = NoTicket] ELSE active
    /\ Go(k, "gone")
    /\ UNCHANGED <<dbVars, of, copy, at, canceled, op, crashes, faults, history>>

Task(k) ==
    \/ ExecuteLoad(k) \/ ExecuteAcquire(k) \/ ExecuteGiveUp(k)
    \/ ExecuteSkipSucceeded(k) \/ ExecuteCanceled(k)
    \/ ExecuteAsk(k) \/ ExecuteGate(k) \/ ExecutePark(k)
    \/ ExecuteBegin(k) \/ ExecutePersistBegin(k) \/ ExecuteRecheck(k)
    \/ ExecuteStart(k) \/ ExecuteResult(k) \/ ExecuteRefused(k)
    \/ ExecutePersistStep(k) \/ ExecuteComplete(k) \/ ExecuteFinal(k)
    \/ TaskError(k) \/ TaskRemove(k)

-----------------------------------------------------------------------------
(* Failing database calls, crash and recovery.                             *)

\* A ? in a call under the gate: the call returns, a dispatch loop is cut short.
OpFails ==
    /\ \/ op.pc \in {"check", "insert", "persist", "prune", "confirm", "recover"}
       \/ (op.pc = "cancel" /\ CancelWrites)
    /\ DbFails
    /\ canceled' = IF op.pc = "cancel" /\ active[op.run] # NoTicket
                   THEN canceled \cup {active[op.run]} ELSE canceled
    /\ op' = Idle
    /\ UNCHANGED <<dbVars, active, taskVars, crashes, history>>

\* A ? in execute.
TaskFails(k) ==
    /\ pc[k] \in {"start", "abandon", "parking", "begin", "stepDone", "final"}
    /\ DbFails
    /\ Go(k, "error")
    /\ UNCHANGED <<dbVars, active, of, copy, at, canceled, op, crashes, history>>

\* The write of the error itself fails, and its error is ignored.
TaskErrorFails(k) ==
    /\ pc[k] = "error"
    /\ DbFails
    /\ Go(k, "remove")
    /\ UNCHANGED <<dbVars, active, of, copy, at, canceled, op, crashes, history>>

\* The process dies: only the database survives.  A fresh engine starts with recover.
Crash ==
    /\ crashes < MaxCrashes
    /\ crashes' = crashes + 1
    /\ active' = [r \in Run |-> NoTicket]
    /\ pc' = [k \in Ticket |-> IF pc[k] = "unspawned" THEN "unspawned" ELSE "gone"]
    /\ op' = [Idle EXCEPT !.pc = "recover"]
    /\ UNCHANGED <<dbVars, of, copy, at, canceled, faults, history>>

Interrupted(act) ==
    [act EXCEPT !.status = "interrupted",
                !.steps = [i \in Step |-> IF act.steps[i] = "running" THEN "interrupted"
                                          ELSE act.steps[i]]]

RecoverRow(r) ==
    /\ op.pc = "recover"
    /\ r \in Rows(InFlight)
    /\ Save(r, Interrupted(db[r]))
    /\ UNCHANGED <<born, active, taskVars, canceled, op, crashes, faults, history>>

\* Mutant: an activity that was queued when the process died is left as it is.
RecoverRunningOnly ==
    /\ op.pc = "recover"
    /\ Rows({"running"}) = {}
    /\ op' = Idle
    /\ UNCHANGED <<dbVars, active, taskVars, canceled, crashes, faults, history>>

RecoverDone ==
    /\ op.pc = "recover"
    /\ Rows(InFlight) = {}
    /\ op' = Idle
    /\ UNCHANGED <<dbVars, active, taskVars, canceled, crashes, faults, history>>

-----------------------------------------------------------------------------
Enqueue == EnqueueCheck \/ EnqueueInsert \/ EnqueuePersist \/ EnqueueLaunch \/ EnqueuePrune
Confirm == ConfirmPersist \/ ConfirmLaunch
Recover == RecoverDone \/ \E r \in Run : RecoverRow(r)

\* The call that holds the gate goes on.
Operation == Enqueue \/ Confirm \/ CancelDecide \/ Recover

\* The outside world calls the engine.
Request ==
    \/ \E targets \in SUBSET Automation, e \in Event : Dispatch(targets, e)
    \/ \E a \in Automation : RunNow(a)
    \/ \E a \in Automation, e \in Event : Test(a, e)
    \/ \E r \in Run : ConfirmRead(r)
    \/ \E r \in Run : CancelRead(r)
    \/ ClearActivities

Failure == OpFails \/ Crash \/ \E k \in Ticket : TaskFails(k) \/ TaskErrorFails(k)

Next == Request \/ Operation \/ Failure \/ \E k \in Ticket : Task(k)

Spec == Init /\ [][Next]_vars

\* tokio runs every ready task; Mutex and Semaphore are FIFO, so a task that waits
\* for the gate or for a permit gets it; executors return.  Nobody has to call.
Fairness ==
    /\ WF_vars(Operation)
    /\ \A k \in Ticket : /\ WF_vars(Task(k))
                         /\ SF_vars(ExecuteGate(k))
                         /\ SF_vars(ExecuteAcquire(k))

FairSpec == Spec /\ Fairness

-----------------------------------------------------------------------------
(* Safety.                                                                 *)

\* No step is handed to its executor twice, across confirmations, relaunches,
\* crashes and recover ("completed actions will not run again automatically").
AtMostOnce == \A r \in Run, i \in Step : ran[r][i] <= 1

\* Every dangerous step that ran, and an ask-before-run start, took a confirmation
\* of its own ("a dangerous QuickAction always requires a separate ... confirmation").
ConfirmationsDue(r) ==
    Cardinality({i \in Step : ran[r][i] > 0 /\ <<born[r].auto, i>> \in Dangerous})
      + (IF born[r].auto \in AskFirst /\ \E i \in Step : ran[r][i] > 0 THEN 1 ELSE 0)
SeparateConfirmation == \A r \in Run : born[r] # NoRow => ConfirmationsDue(r) <= grants[r]

\* Two activities of one automation are never outstanding together, although enqueue
\* reads the active rows some awaits before it inserts its own.
NoOverlap == \A r, s \in Rows(Active) : db[r].auto = db[s].auto => r = s

\* The number of outstanding activities stays within its limit.
OutstandingBound == Cardinality(Rows(Active)) <= MaxActive

\* No step runs after a step of the same activity that did not succeed.
StopOnFailure ==
    \A r \in Run : db[r] # NoRow =>
       \A i, j \in Step :
          i < j /\ db[r].steps[i] \in {"failed", "canceled", "interrupted"} => ran[r][j] = 0

\* The task that works on an activity is the one cancel finds, also when the task of
\* an earlier launch of the same activity removes its entry late (the ticket).
CancelReachesTask == \A k \in Ticket : pc[k] \in Working => active[of[k]] = k

\* "A canceled queued task must not subsequently resurrect itself as a confirmation
\* request": no step makes a cancelled activity wait for the user.
Awaiting(r) == db[r] # NoRow /\ db[r].status = "awaitingConfirmation"
NoResurrection ==
    [][\A r \in Run : active[r] \in canceled /\ ~Awaiting(r) => ~Awaiting(r)']_vars

\* A task, the call that is about to launch one, or recover takes care of the activity.
Attended(r) ==
    \/ op.pc = "recover"
    \/ op.run = r /\ op.pc \in {"persist", "launch", "confirmLaunch"}
    \/ \E k \in Ticket : of[k] = r /\ pc[k] \in Working

\* Nobody will finish the activity before the next start.
Orphan(r) == r \in Rows(InFlight) /\ ~Attended(r)

\* An activity in flight is left to nobody only by a database call that fails: not by
\* the end of a task, a confirmation, a cancellation, a crash or a recovery.
OnlyFailuresOrphan == [][\A r \in Run : Orphan(r)' => Orphan(r) \/ faults' > faults]_vars

\* Finding: the status a finished activity ended with is not its last word.
OutcomeIsFinal ==
    [][\A r \in Run : r \in Rows(Terminal) /\ db'[r] # NoRow => db'[r].status = db[r].status]_vars

-----------------------------------------------------------------------------
(* The engine implements the contract of an activity.                      *)

Phase(r) ==
    IF born[r] = NoRow THEN "unknown"
    ELSE IF db[r] = NoRow THEN "gone"
    ELSE IF db[r].status \in Terminal THEN "closed"
    ELSE IF Awaiting(r) THEN "waiting" ELSE "open"

Contract == INSTANCE RunContract WITH
    NoJob <- NoRow, phase <- [r \in Run |-> Phase(r)], job <- born, done <- ran,
    approvals <- grants

\* Whatever the tasks, the calls, crashes and failing writes do, each activity only
\* takes the steps of the contract.
ImplementsContract == Contract!Spec

-----------------------------------------------------------------------------
(* Liveness, when the database works.                                      *)

\* An activity that was launched, or that a crash interrupted, does not stay in flight.
Settles == \A r \in Run : r \in Rows(InFlight) ~> r \notin Rows(InFlight)

\* A cancelled task leaves its activity finished, and not waiting for the user.
CancelSettles ==
    \A k \in Ticket : k \in canceled ~> (of[k] \notin Rows(Active))
=============================================================================

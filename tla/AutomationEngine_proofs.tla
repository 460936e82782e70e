----------------------- MODULE AutomationEngine_proofs -----------------------
(***************************************************************************)
(* Theorems about AutomationEngine, for every set of automations, events,  *)
(* activities and tickets and every number of steps: what documents, rows  *)
(* and tasks are, that the engine implements RunContract, the limits that  *)
(* enqueue enforces, and how activities end.                               *)
(***************************************************************************)
EXTENDS AutomationEngine, FiniteSetTheorems, TLAPS

USE DEF Terminal, InFlight, Active, Status, StepStatus

-----------------------------------------------------------------------------
(* What the operators on documents return.                                 *)

LEMMA StatusType ==
    ASSUME NEW act \in Activity, NEW s \in Status
    PROVE  [act EXCEPT !.status = s] \in Activity
BY DEF Activity

LEMMA StepType ==
    ASSUME NEW act \in Activity, NEW i \in Step, NEW s \in Status
    PROVE  /\ [act EXCEPT !.steps[i] = s] \in Activity
           /\ [act EXCEPT !.status = s, !.steps[i] = s] \in Activity
BY DEF Activity

LEMMA NewActivityType ==
    ASSUME NEW a \in Automation, NEW e \in Event \cup {NoEvent}, NEW s \in Status
    PROVE  NewActivity(a, e, s) \in Activity
BY DEF NewActivity, Activity

LEMMA SnapshottedType ==
    ASSUME NEW act \in Activity, NEW n \in Nat
    PROVE  Snapshotted(act, n) \in Activity
BY DEF Snapshotted, Activity

LEMMA SnapshotOutcomesType ==
    ASSUME NEW act \in Activity
    PROVE  SnapshotOutcomes(act) \subseteq Activity
<1>1. NumSteps \in Nat /\ \A i \in Step : i - 1 \in Nat
  BY NumStepsAssumption DEF Step
<1>2. \A n \in {NumSteps} \cup {i - 1 : i \in {j \in Step : <<act.auto, j>> \in QuickAction}} :
         Snapshotted(act, n) \in Activity
  BY <1>1, SnapshottedType
<1> QED BY <1>2 DEF SnapshotOutcomes

LEMMA ConfirmedType ==
    ASSUME NEW act \in Activity
    PROVE  Confirmed(act) \in Activity
BY DEF Confirmed, First, Activity

LEMMA ClosedType ==
    ASSUME NEW act \in Activity
    PROVE  Closed(act) \in Activity
BY DEF Closed, Activity

LEMMA CanceledType ==
    ASSUME NEW act \in Activity
    PROVE  Canceled(act) \in Activity
<1>1. [act EXCEPT !.status = "canceled"] \in Activity BY StatusType
<1> QED BY <1>1, ClosedType DEF Canceled

LEMMA AfterStepType ==
    ASSUME NEW act \in Activity, NEW i \in Step, NEW s \in Status
    PROVE  AfterStep(act, i, s) \in Activity
<1> DEFINE ended == [act EXCEPT !.steps[i] = s]
<1>1. ended \in Activity BY StepType
<1>2. [ended EXCEPT !.status = s] \in Activity BY <1>1, StatusType
<1>3. Closed([ended EXCEPT !.status = s]) \in Activity BY <1>2, ClosedType
<1> QED BY <1>1, <1>3 DEF AfterStep

LEMMA InterruptedType ==
    ASSUME NEW act \in Activity
    PROVE  Interrupted(act) \in Activity
BY DEF Interrupted, Activity

-----------------------------------------------------------------------------
(* Type correctness.                                                       *)

\* Where a task or a call stands says which of its values are defined.
TaskShape ==
    \A k \in Ticket :
       /\ pc[k] # "unspawned" => of[k] \in Run
       /\ pc[k] \in Holding \cup {"acquire", "abandon"} => copy[k] \in Activity
       /\ pc[k] \in {"gate", "parking", "begin", "recheck", "ready", "executing", "stepDone"}
             => at[k] \in Step

OpShape ==
    /\ op.pc \in {"insert", "persist", "launch", "prune", "confirm", "confirmLaunch", "cancel"}
          => op.run \in Run
    /\ op.pc \in {"insert", "persist", "confirm", "cancel"} => op.act \in Activity

TypeInv == TypeOK /\ TaskShape /\ OpShape

LEMMA SaveType ==
    ASSUME db \in [Run -> Activity \cup {NoRow}], NEW r \in Run, NEW act,
           db[r] # NoRow => act \in Activity, Save(r, act)
    PROVE  db' \in [Run -> Activity \cup {NoRow}]
BY DEF Save

LEMMA TypeInit == Init => TypeInv
<1> SUFFICES ASSUME Init PROVE TypeInv OBVIOUS
<1>1. Idle \in Call BY DEF Idle, Call, OpPc
<1>2. 1 \in 1 .. NumSteps + 1 BY NumStepsAssumption
<1>3. TypeOK BY <1>1, <1>2, LimitsAssumption DEF Init, TypeOK, TaskPc
<1>4. TaskShape BY DEF Init, TaskShape, Holding
<1>5. OpShape BY DEF Init, OpShape, Idle
<1> QED BY <1>3, <1>4, <1>5 DEF TypeInv

LEMMA TypeRequest == TypeInv /\ Request => TypeInv'
<1> SUFFICES ASSUME TypeInv, Request PROVE TypeInv' OBVIOUS
<1> USE DEF TypeInv, TypeOK, TaskShape, OpShape, Call, dbVars, taskVars, history
<1>1. ASSUME NEW targets \in SUBSET Automation, NEW e \in Event \cup {NoEvent},
             NEW m \in BOOLEAN, StartEnqueue(targets, e, m)
      PROVE  TypeInv'
  BY <1>1 DEF StartEnqueue, Idle, OpPc
<1>2. ASSUME NEW r \in Run, ConfirmRead(r) PROVE TypeInv'
  <2>1. db[r] \in Activity BY <1>2 DEF ConfirmRead, Rows
  <2>2. Confirmed(db[r]) \in Activity BY <2>1, ConfirmedType
  <2> QED BY <1>2, <2>2 DEF ConfirmRead, Idle, OpPc
<1>3. ASSUME NEW r \in Run, CancelRead(r) PROVE TypeInv'
  <2>1. db[r] \in Activity BY <1>3 DEF CancelRead, Rows
  <2> QED BY <1>3, <2>1 DEF CancelRead, Idle, OpPc
<1>4. CASE ClearActivities BY <1>4 DEF ClearActivities, Forget
<1> QED BY <1>1, <1>2, <1>3, <1>4 DEF Request, Dispatch, RunNow, Test

LEMMA TypeOperation == TypeInv /\ Operation => TypeInv'
<1> SUFFICES ASSUME TypeInv, Operation PROVE TypeInv' OBVIOUS
<1> USE DEF TypeInv, TypeOK, TaskShape, OpShape, Call, dbVars, taskVars, history
<1>1. CASE EnqueueCheck
  <2> PICK a \in op.todo, r \in Run :
         \E s \in Verdict(a, op.event, op.manual) :
            op' = [op EXCEPT !.pc = "insert", !.run = r, !.todo = @ \ {a},
                             !.act = NewActivity(a, op.event, s)]
    BY <1>1 DEF EnqueueCheck
  <2> PICK s \in Verdict(a, op.event, op.manual) :
         op' = [op EXCEPT !.pc = "insert", !.run = r, !.todo = @ \ {a},
                          !.act = NewActivity(a, op.event, s)]
    BY <1>1 DEF EnqueueCheck
  <2>1. NewActivity(a, op.event, s) \in Activity BY NewActivityType DEF Verdict
  <2> QED BY <1>1, <2>1 DEF EnqueueCheck, OpPc
<1>2. CASE EnqueueInsert
  <2>1. NextTarget \in Call BY DEF NextTarget, Idle, Call, OpPc
  <2>2. NextTarget.pc \in {"idle", "check"} BY DEF NextTarget, Idle
  <2>3. op.act \in Activity /\ op.run \in Run BY <1>2 DEF EnqueueInsert
  <2>4. [auto |-> op.act.auto, event |-> op.act.event] \in Job BY <2>3 DEF Activity, Job
  <2>5. op' \in Call /\ OpShape'
    <3>1. CASE IsDuplicate(op.act)
      BY <1>2, <2>1, <2>2, <3>1 DEF EnqueueInsert
    <3>2. CASE ~IsDuplicate(op.act)
      <4>1. op \in Call /\ op' = [op EXCEPT !.pc = "persist"]
        BY <1>2, <3>2 DEF EnqueueInsert
      <4>2. op' \in Call /\ op'.run = op.run /\ op'.act = op.act
        BY ONLY <4>1 DEF Call, OpPc
      <4> QED BY ONLY <2>3, <4>2 DEF OpShape
    <3> QED BY <3>1, <3>2
  <2>6. db' \in [Run -> Activity \cup {NoRow}] /\ born' \in [Run -> Job \cup {NoRow}]
    <3>1. \/ UNCHANGED dbVars
          \/ /\ db' = [db EXCEPT ![op.run] = op.act]
             /\ born' = [born EXCEPT ![op.run] = [auto |-> op.act.auto, event |-> op.act.event]]
      BY <1>2 DEF EnqueueInsert
    <3>2. db \in [Run -> Activity \cup {NoRow}] /\ born \in [Run -> Job \cup {NoRow}]
      OBVIOUS
    <3> QED BY ONLY <2>3, <2>4, <3>1, <3>2 DEF dbVars
  <2>7. UNCHANGED <<active, taskVars, canceled, crashes, faults, history>>
    BY <1>2 DEF EnqueueInsert
  <2> QED BY <2>5, <2>6, <2>7
<1>3. CASE EnqueuePersist
  <2> PICK act \in SnapshotOutcomes(op.act) :
         /\ Save(op.run, act)
         /\ op' = [op EXCEPT !.act = act, !.pc = IF act.status = "queued" THEN "launch" ELSE "prune"]
    BY <1>3 DEF EnqueuePersist
  <2>1. act \in Activity BY <1>3, SnapshotOutcomesType DEF EnqueuePersist
  <2>2. CASE act.status = "queued" BY <1>3, <2>1, <2>2 DEF EnqueuePersist, Save, OpPc
  <2>3. CASE act.status # "queued" BY <1>3, <2>1, <2>3 DEF EnqueuePersist, Save, OpPc
  <2> QED BY <2>2, <2>3
<1>4. CASE EnqueueLaunch
  <2>1. PICK k \in Ticket : Launch(op.run, k) BY <1>4 DEF EnqueueLaunch
  <2>2. op.run \in Run BY <1>4 DEF EnqueueLaunch
  <2>3. op' \in Call /\ op'.pc = "prune" /\ op'.run = op.run BY <1>4 DEF EnqueueLaunch, OpPc
  <2> QED BY <1>4, <2>1, <2>2, <2>3 DEF EnqueueLaunch, Launch, TaskPc, Holding
<1>5. CASE EnqueuePrune
  <2>1. NextTarget \in Call BY DEF NextTarget, Idle, Call, OpPc
  <2>2. NextTarget.pc \in {"idle", "check"} BY DEF NextTarget, Idle
  <2>3. PICK gone \in SUBSET Rows(Terminal) : Forget(gone) BY <1>5 DEF EnqueuePrune
  <2>4. db' \in [Run -> Activity \cup {NoRow}] BY <2>3 DEF Forget
  <2> QED BY <1>5, <2>1, <2>2, <2>4 DEF EnqueuePrune
<1>6. CASE ConfirmPersist
  <2>1. op.run \in Run /\ op.act \in Activity BY <1>6 DEF ConfirmPersist
  <2>2. db' \in [Run -> Activity \cup {NoRow}] BY <1>6, <2>1, SaveType DEF ConfirmPersist
  <2>3. op' \in Call /\ op'.pc = "confirmLaunch" /\ op'.run = op.run
    BY <1>6 DEF ConfirmPersist, OpPc
  <2>4. grants' \in [Run -> Nat] BY <1>6, <2>1 DEF ConfirmPersist
  <2> QED BY <1>6, <2>1, <2>2, <2>3, <2>4 DEF ConfirmPersist
<1>7. CASE ConfirmLaunch
  <2>1. PICK k \in Ticket : Launch(op.run, k) BY <1>7 DEF ConfirmLaunch
  <2>2. op.run \in Run BY <1>7 DEF ConfirmLaunch
  <2>3. op' \in Call /\ op'.pc = "idle" BY <1>7 DEF ConfirmLaunch, OpPc, Idle
  <2> QED BY <1>7, <2>1, <2>2, <2>3 DEF ConfirmLaunch, Launch, TaskPc, Holding
<1>8. CASE CancelDecide
  <2>1. op.run \in Run /\ op.act \in Activity BY <1>8 DEF CancelDecide
  <2>2. [op.act EXCEPT !.status = "canceled"] \in Activity BY <2>1, StatusType
  <2> QED BY <1>8, <2>1, <2>2 DEF CancelDecide, Save, OpPc, Idle
<1>9. ASSUME NEW r \in Run, RecoverRow(r) PROVE TypeInv'
  <2>1. db[r] \in Activity BY <1>9 DEF RecoverRow, Rows
  <2>2. Interrupted(db[r]) \in Activity BY <2>1, InterruptedType
  <2> QED BY <1>9, <2>2 DEF RecoverRow, Save
<1>10. CASE RecoverDone BY <1>10 DEF RecoverDone, Idle, OpPc
<1> QED BY <1>1, <1>2, <1>3, <1>4, <1>5, <1>6, <1>7, <1>8, <1>9, <1>10
        DEF Operation, Enqueue, Confirm, Recover

LEMMA TypeTask == ASSUME NEW k \in Ticket PROVE TypeInv /\ Task(k) => TypeInv'
<1> SUFFICES ASSUME TypeInv, Task(k) PROVE TypeInv' OBVIOUS
<1> USE DEF TypeInv, TypeOK, TaskShape, OpShape, TaskPc, Holding, Go, TaskOnly, dbVars, history
<1>1. CASE ExecuteLoad(k) BY <1>1 DEF ExecuteLoad
<1>2. CASE ExecuteAcquire(k) BY <1>2 DEF ExecuteAcquire
<1>3. CASE ExecuteGiveUp(k)
  <2>1. [copy[k] EXCEPT !.status = "canceled"] \in Activity
    BY <1>3, StatusType DEF ExecuteGiveUp
  <2> QED BY <1>3, <2>1 DEF ExecuteGiveUp
<1>4. CASE ExecuteSkipSucceeded(k)
  BY <1>4, NumStepsAssumption DEF ExecuteSkipSucceeded, InLoop, Step
<1>5. CASE ExecuteCanceled(k) BY <1>5, CanceledType DEF ExecuteCanceled, InLoop
<1>6. CASE ExecuteAsk(k) BY <1>6 DEF ExecuteAsk, InLoop
<1>7. CASE ExecuteGate(k)
  <2>1. [copy[k] EXCEPT !.status = "awaitingConfirmation",
                        !.steps[at[k]] = "awaitingConfirmation"] \in Activity
    BY <1>7, StepType DEF ExecuteGate
  <2>2. Canceled(copy[k]) \in Activity BY <1>7, CanceledType DEF ExecuteGate
  <2>3. CASE k \in canceled BY <1>7, <2>2, <2>3 DEF ExecuteGate
  <2>4. CASE k \notin canceled
    <3>1. copy' = [copy EXCEPT ![k] = [copy[k] EXCEPT !.status = "awaitingConfirmation",
                                         !.steps[at[k]] = "awaitingConfirmation"]]
      BY <1>7, <2>4 DEF ExecuteGate
    <3>2. pc' = [pc EXCEPT ![k] = "parking"] /\ pc[k] = "gate" BY <1>7, <2>4 DEF ExecuteGate
    <3> QED BY <1>7, <2>1, <3>1, <3>2 DEF ExecuteGate
  <2> QED BY <2>3, <2>4
<1>8. CASE ExecutePark(k) BY <1>8 DEF ExecutePark, Save
<1>9. CASE ExecuteBegin(k)
  <2>1. [copy[k] EXCEPT !.status = "running", !.steps[at[k]] = "running"] \in Activity
    BY <1>9, StepType DEF ExecuteBegin, InLoop
  <2> QED BY <1>9, <2>1 DEF ExecuteBegin, InLoop
<1>10. CASE ExecutePersistBegin(k) BY <1>10 DEF ExecutePersistBegin, Save
<1>11. CASE ExecuteRecheck(k)
  <2>1. Canceled(copy[k]) \in Activity BY <1>11, CanceledType DEF ExecuteRecheck
  <2>2. CASE k \in canceled BY <1>11, <2>1, <2>2 DEF ExecuteRecheck
  <2>3. CASE k \notin canceled BY <1>11, <2>3 DEF ExecuteRecheck
  <2> QED BY <2>2, <2>3
<1>12. CASE ExecuteStart(k) BY <1>12 DEF ExecuteStart
<1>13. ASSUME NEW outcome \in {"succeeded", "failed"}, StepEnds(k, outcome),
              pc[k] \in {"ready", "executing"}, TaskOnly, UNCHANGED <<db, at, ran>>
       PROVE  TypeInv'
  <2> DEFINE s == IF k \in canceled THEN "canceled" ELSE outcome
  <2>1. s \in Status /\ at[k] \in Step /\ copy[k] \in Activity BY <1>13
  <2>2. AfterStep(copy[k], at[k], s) \in Activity BY <2>1, AfterStepType
  <2>3. copy' = [copy EXCEPT ![k] = AfterStep(copy[k], at[k], s)] BY <1>13 DEF StepEnds
  <2>4. pc' = [pc EXCEPT ![k] = "stepDone"] \/ pc' = [pc EXCEPT ![k] = "final"]
    BY <1>13 DEF StepEnds
  <2> HIDE DEF s
  <2> QED BY <1>13, <2>1, <2>2, <2>3, <2>4
<1>14. CASE ExecuteResult(k) BY <1>13, <1>14 DEF ExecuteResult
<1>15. CASE ExecuteRefused(k) BY <1>13, <1>15 DEF ExecuteRefused
<1>16. CASE ExecutePersistStep(k)
  BY <1>16, NumStepsAssumption DEF ExecutePersistStep, Save, Step
<1>17. CASE ExecuteComplete(k) BY <1>17, ClosedType DEF ExecuteComplete
<1>18. CASE ExecuteFinal(k) BY <1>18 DEF ExecuteFinal, Save
<1>19. CASE TaskError(k)
  <2>1. of[k] \in Run BY <1>19 DEF TaskError
  <2>2. db[of[k]] # NoRow => db[of[k]] \in Activity BY <2>1
  <2>3. db[of[k]] # NoRow => [db[of[k]] EXCEPT !.status = "failed"] \in Activity
    BY <2>2, StatusType
  <2>4. db' \in [Run -> Activity \cup {NoRow}] BY <1>19, <2>1, <2>3, SaveType DEF TaskError
  <2> QED BY <1>19, <2>4 DEF TaskError
<1>20. CASE TaskRemove(k) BY <1>20 DEF TaskRemove
<1> QED BY <1>1, <1>2, <1>3, <1>4, <1>5, <1>6, <1>7, <1>8, <1>9, <1>10, <1>11, <1>12,
           <1>14, <1>15, <1>16, <1>17, <1>18, <1>19, <1>20 DEF Task

LEMMA TypeFailure == TypeInv /\ Failure => TypeInv'
<1> SUFFICES ASSUME TypeInv, Failure PROVE TypeInv' OBVIOUS
<1> USE DEF TypeInv, TypeOK, TaskShape, OpShape, DbFails, dbVars, taskVars, history
<1>1. CASE OpFails BY <1>1, LimitsAssumption DEF OpFails, Idle, Call, OpPc
<1>2. CASE Crash
  <2>1. op' \in Call /\ op'.pc = "recover" BY <1>2 DEF Crash, Idle, Call, OpPc
  <2>2. pc' \in [Ticket -> {"unspawned", "gone"}] BY <1>2 DEF Crash
  <2>3. \A k \in Ticket : pc'[k] # "unspawned" => pc[k] # "unspawned" BY <1>2 DEF Crash
  <2>4. active' \in [Run -> Ticket \cup {NoTicket}] BY <1>2 DEF Crash
  <2>5. crashes' \in 0 .. MaxCrashes BY <1>2, LimitsAssumption DEF Crash
  <2> QED BY <1>2, <2>1, <2>2, <2>3, <2>4, <2>5 DEF Crash, TaskPc, Holding
<1>3. ASSUME NEW k \in Ticket, TaskFails(k) PROVE TypeInv'
  BY <1>3, LimitsAssumption DEF TaskFails, Go, TaskPc, Holding
<1>4. ASSUME NEW k \in Ticket, TaskErrorFails(k) PROVE TypeInv'
  BY <1>4, LimitsAssumption DEF TaskErrorFails, Go, TaskPc, Holding
<1> QED BY <1>1, <1>2, <1>3, <1>4 DEF Failure

LEMMA TypeStep == TypeInv /\ [Next]_vars => TypeInv'
<1>1. TypeInv /\ UNCHANGED vars => TypeInv'
  BY DEF TypeInv, TypeOK, TaskShape, OpShape, vars
<1> QED BY <1>1, TypeRequest, TypeOperation, TypeTask, TypeFailure DEF Next

\* Every variable keeps its type: what is stored, copied and asked for is always a
\* complete activity, and a task's loop index never leaves the list of steps.
THEOREM TypeCorrect == Spec => []TypeOK
<1>1. TypeInv => TypeOK BY DEF TypeInv
<1> QED BY <1>1, TypeInit, TypeStep, PTL DEF Spec

-----------------------------------------------------------------------------
(* The inductive invariant.  What a task knows (its copy), what the row says *)
(* and what really happened (ran, grants) drift apart while a step executes; *)
(* the invariant says where they agree.                                    *)

\* The document shows exactly the steps that ran, a prefix of all steps, and each
\* dangerous one among them is confirmed in it.
Shows(r, act, i) ==
    /\ ran[r][i] = IF act.steps[i] = "succeeded" THEN 1 ELSE 0
    /\ act.steps[i] = "succeeded" =>
          /\ <<act.auto, i>> \in Dangerous => i \in act.confirmed
          /\ \A j \in Step : j < i => act.steps[j] = "succeeded"
Exact(r, act) == \A i \in Step : Shows(r, act, i)

\* The document belongs to the activity, and the user gave the confirmations in it.
PaidWith(act, job, n) ==
    /\ act.auto = job.auto
    /\ Cardinality(act.confirmed) + (IF act.runConfirmed THEN 1 ELSE 0) <= n
    /\ IsFiniteSet(act.confirmed)
Paid(r, act) == PaidWith(act, born[r], grants[r])

\* The activity need not ask before it runs, or has asked.
Cleared(act) == act.auto \in AskFirst => act.runConfirmed

RowInv(r) ==
    /\ \A i \in Step : ran[r][i] <= 1
    /\ born[r] = NoRow => db[r] = NoRow /\ active[r] = NoTicket /\ \A i \in Step : ran[r][i] = 0
    /\ born[r] # NoRow => ConfirmationsDue(r) <= grants[r]
    /\ db[r] # NoRow => Paid(r, db[r])
    /\ Awaiting(r) => Exact(r, db[r])

\* A row a task may be launched for, or has just been launched for.
Launchable(r) ==
    /\ r \in Rows(InFlight)
    /\ Exact(r, db[r]) /\ Cleared(db[r])

\* The places where a task's copy shows what ran, and where its loop index is set.
InStep == {"gate", "parking", "begin", "recheck", "ready"}
Between == {"acquire", "loop", "stepDone"}

TaskInv(k) ==
    LET r == of[k] IN
    /\ pc[k] \in Working => active[r] = k /\ r \in Rows(InFlight)
    /\ pc[k] = "unspawned" => at[k] = 1
    /\ pc[k] = "start" => Launchable(r)
    /\ pc[k] \in {"start", "acquire"} => at[k] = 1
    /\ pc[k] \in InStep \cup Between => Exact(r, copy[k])
    /\ pc[k] \in InStep \cup Between \cup {"executing"} => Cleared(copy[k])
    /\ pc[k] \in InStep \cup Between \cup {"executing", "final", "abandon"} => Paid(r, copy[k])
    /\ pc[k] \in InStep \cup {"loop", "executing", "stepDone"} =>
          \A j \in Step : j < at[k] => copy[k].steps[j] = "succeeded"
    /\ pc[k] = "stepDone" => copy[k].steps[at[k]] = "succeeded"
    /\ pc[k] \in Between \cup {"gate"} => copy[k].status \in InFlight
    /\ pc[k] \in InStep => copy[k].steps[at[k]] # "succeeded"
    /\ pc[k] \in {"begin", "recheck", "ready", "executing"} =>
          /\ copy[k].status = "running"
          /\ ~NeedsConfirmation(k)
    /\ pc[k] = "executing" =>
          /\ \A i \in Step \ {at[k]} : Shows(r, copy[k], i)
          /\ ran[r][at[k]] = 1
    /\ pc[k] = "parking" =>
          /\ op.pc = "idle"
          /\ k \notin canceled
          /\ copy[k].status = "awaitingConfirmation"
    /\ pc[k] \in {"final", "abandon"} => copy[k].status \in Terminal

Fresh(act) ==
    /\ act.status \in {"queued", "skipped"}
    /\ act.steps = [i \in Step |-> "absent"]
    /\ act.confirmed = {} /\ ~act.runConfirmed

NoWorker(r) == \A k \in Ticket : of[k] = r => pc[k] \notin Working

CallInv ==
    /\ op.pc = "insert" => Fresh(op.act) /\ born[op.run] = NoRow
    /\ op.pc = "persist" =>
          /\ Fresh(op.act)
          /\ born[op.run] # NoRow /\ born[op.run].auto = op.act.auto
          /\ active[op.run] = NoTicket
          /\ \A i \in Step : ran[op.run][i] = 0
          /\ db[op.run] = op.act \/ (db[op.run] = NoRow /\ op.act.status = "skipped")
    /\ op.pc = "launch" => Launchable(op.run) /\ active[op.run] = NoTicket
    /\ op.pc = "confirm" => Awaiting(op.run) /\ op.act = Confirmed(db[op.run])
    /\ op.pc = "confirmLaunch" => Launchable(op.run) /\ NoWorker(op.run)
    /\ op.pc = "cancel" =>
          /\ born[op.run] # NoRow /\ Paid(op.run, op.act)
          /\ op.act.status = "awaitingConfirmation" => Awaiting(op.run)
    /\ op.pc = "recover" => \A k \in Ticket : pc[k] \in {"unspawned", "gone"}

SafetyInv ==
    /\ \A r \in Run : RowInv(r)
    /\ \A k \in Ticket : TaskInv(k)
    /\ CallInv

-----------------------------------------------------------------------------
(* What a step that does not touch an activity, a task or the call keeps.  *)

LEMMA RowSame ==
    ASSUME NEW r \in Run, RowInv(r), db'[r] = db[r], born'[r] = born[r], ran'[r] = ran[r],
           grants'[r] = grants[r], born[r] = NoRow => active'[r] = active[r]
    PROVE  RowInv(r)'
BY DEF RowInv, Awaiting, Exact, Shows, Paid, ConfirmationsDue

\* The row is removed, or stored with another status and other step statuses.
LEMMA RowChanged ==
    ASSUME NEW r \in Run, RowInv(r), born[r] # NoRow, born' = born, ran'[r] = ran[r],
           grants'[r] = grants[r], db'[r] # NoRow => Paid(r, db'[r]),
           Awaiting(r)' => Exact(r, db'[r])
    PROVE  RowInv(r)'
BY DEF RowInv, Exact, Shows, Paid, ConfirmationsDue

SameFor(r) ==
    /\ active'[r] = active[r] /\ db'[r] = db[r] /\ born'[r] = born[r]
    /\ ran'[r] = ran[r] /\ grants'[r] = grants[r]

LEMMA TaskSame ==
    ASSUME NEW k \in Ticket, of[k] \in Run \/ pc[k] = "unspawned", TaskInv(k),
           pc'[k] = pc[k], of'[k] = of[k], copy'[k] = copy[k], at'[k] = at[k],
           pc[k] \in Working => SameFor(of[k]),
           pc[k] = "parking" => op' = op /\ (k \in canceled' => k \in canceled)
    PROVE  TaskInv(k)'
<1> USE DEF Working, Holding, InStep, Between
<1>1. CASE pc[k] \notin Working BY <1>1 DEF TaskInv
<1>2. CASE pc[k] \in Working
  <2> DEFINE r == of[k]
  <2>1. r \in Run /\ SameFor(r) BY <1>2
  <2>2. r \in Rows(InFlight) => r \in Rows(InFlight)' BY <2>1 DEF Rows, SameFor
  <2>3. Launchable(r) => Launchable(r)' BY <2>1, <2>2 DEF Launchable, Exact, Shows, Cleared, SameFor
  <2>4. Exact(r, copy[k]) => Exact(of[k], copy[k])' BY <2>1 DEF Exact, Shows, SameFor
  <2>5. Paid(r, copy[k]) => Paid(of[k], copy[k])' BY <2>1 DEF Paid, SameFor
  <2>6. (\A i \in Step \ {at[k]} : Shows(r, copy[k], i))
           => (\A i \in Step \ {at[k]} : Shows(of[k], copy[k], i))'
    BY <2>1 DEF Shows, SameFor
  <2>7. NeedsConfirmation(k)' = NeedsConfirmation(k) BY DEF NeedsConfirmation
  <2>8. Cleared(copy[k])' = Cleared(copy[k]) BY DEF Cleared
  <2> QED BY <1>2, <2>1, <2>2, <2>3, <2>4, <2>5, <2>6, <2>7, <2>8 DEF TaskInv, SameFor
<1> QED BY <1>1, <1>2

LEMMA CallSame ==
    ASSUME TypeInv, CallInv, op' = op,
           op.run \in Run => SameFor(op.run),
           op.pc = "confirmLaunch" => NoWorker(op.run)',
           op.pc = "recover" => pc' = pc
    PROVE  CallInv'
<1> DEFINE r == op.run
<1>1. op.pc \in {"insert", "persist", "launch", "confirm", "confirmLaunch", "cancel"}
         => r \in Run /\ SameFor(r)
  BY DEF TypeInv, OpShape
<1>2. r \in Run /\ SameFor(r) =>
         /\ Launchable(r) => Launchable(r)'
         /\ Awaiting(r) => Awaiting(r)'
         /\ Paid(r, op.act) => Paid(r, op.act)'
  BY DEF Launchable, Rows, Exact, Shows, Cleared, Awaiting, Paid, SameFor
<1>3. Fresh(op.act)' = Fresh(op.act) BY DEF Fresh
<1>4. SameFor(r) => Confirmed(db[r])' = Confirmed(db[r]) BY DEF SameFor, Confirmed, First
<1> QED BY <1>1, <1>2, <1>3, <1>4 DEF CallInv, SameFor

LEMMA ParkedMeansIdle ==
    ASSUME SafetyInv, NEW k \in Ticket, pc[k] = "parking"
    PROVE  op.pc = "idle"
BY DEF SafetyInv, TaskInv

LEMMA SafetyInit == Init => SafetyInv
<1> SUFFICES ASSUME Init PROVE SafetyInv OBVIOUS
<1>1. ASSUME NEW r \in Run PROVE RowInv(r)
  BY <1>1 DEF Init, RowInv, Awaiting
<1>2. ASSUME NEW k \in Ticket PROVE TaskInv(k)
  BY <1>2 DEF Init, TaskInv, Working, Holding, InStep, Between
<1>3. CallInv BY DEF Init, CallInv, Idle
<1> QED BY <1>1, <1>2, <1>3 DEF SafetyInv

LEMMA ForgetSafe ==
    ASSUME TypeInv, SafetyInv, NEW gone \in SUBSET Rows(Terminal), Forget(gone),
           UNCHANGED <<born, active, taskVars, canceled, history>>,
           op' = op \/ op.pc # "idle"
    PROVE  /\ \A r \in Run : db'[r] = db[r] \/ (r \in Rows(Terminal) /\ db'[r] = NoRow)
           /\ \A r \in Run : RowInv(r)'
           /\ \A k \in Ticket : TaskInv(k)'
<1> USE DEF taskVars, history
<1>1. \A r \in Run : db'[r] = db[r] \/ (r \in Rows(Terminal) /\ db'[r] = NoRow)
  BY DEF Forget
<1>2. \A r \in Rows(InFlight) : SameFor(r) BY <1>1 DEF Rows, SameFor
<1>3. ASSUME NEW r \in Run PROVE RowInv(r)'
  <2>1. RowInv(r) BY DEF SafetyInv
  <2>2. CASE db'[r] = db[r] BY <2>1, <2>2, RowSame
  <2>3. CASE db[r] # NoRow /\ db'[r] = NoRow BY <2>1, <2>3, RowChanged DEF RowInv, Awaiting
  <2> QED BY <1>1, <2>2, <2>3 DEF Rows
<1>4. ASSUME NEW k \in Ticket PROVE TaskInv(k)'
  <2>1. TaskInv(k) /\ (of[k] \in Run \/ pc[k] = "unspawned")
    BY DEF SafetyInv, TypeInv, TaskShape
  <2>2. pc[k] \in Working => SameFor(of[k]) BY <1>2, <2>1 DEF TaskInv
  <2> QED BY <2>1, <2>2, TaskSame, ParkedMeansIdle
<1> QED BY <1>1, <1>3, <1>4

LEMMA SafetyRequest == TypeInv /\ SafetyInv /\ Request => SafetyInv'
<1> SUFFICES ASSUME TypeInv, SafetyInv, Request PROVE SafetyInv' OBVIOUS
<1> USE DEF dbVars, taskVars, history
<1>1. ASSUME NEW k \in Ticket PROVE TaskInv(k) /\ (of[k] \in Run \/ pc[k] = "unspawned")
  BY DEF SafetyInv, TypeInv, TaskShape
<1>2. ASSUME NEW r \in Run PROVE RowInv(r) BY DEF SafetyInv
<1>3. ASSUME GateFree, UNCHANGED <<dbVars, active, taskVars, canceled, history>>, CallInv'
      PROVE  SafetyInv'
  <2>1. ASSUME NEW r \in Run PROVE RowInv(r)' BY <1>2, <1>3, RowSame
  <2>2. ASSUME NEW k \in Ticket PROVE TaskInv(k)'
    BY <1>1, <1>3, TaskSame DEF GateFree, SameFor
  <2> QED BY <1>3, <2>1, <2>2 DEF SafetyInv
<1>4. ASSUME NEW targets, NEW e, NEW m, StartEnqueue(targets, e, m) PROVE SafetyInv'
  <2>1. CallInv' BY <1>4 DEF StartEnqueue, CallInv, Idle
  <2> QED BY <1>3, <1>4, <2>1 DEF StartEnqueue
<1>5. ASSUME NEW r \in Run, ConfirmRead(r) PROVE SafetyInv'
  <2>1. Awaiting(r) BY <1>5 DEF ConfirmRead, Rows, Awaiting
  <2>2. op'.pc = "confirm" /\ op'.run = r /\ op'.act = Confirmed(db[r]) /\ db' = db
    BY <1>5 DEF ConfirmRead, Idle
  <2>3. Confirmed(db[r])' = Confirmed(db[r]) BY <2>2 DEF Confirmed, First
  <2>4. CallInv' BY <2>1, <2>2, <2>3 DEF CallInv, Awaiting
  <2> QED BY <1>3, <1>5, <2>4 DEF ConfirmRead
<1>6. ASSUME NEW r \in Run, CancelRead(r) PROVE SafetyInv'
  <2>1. op'.pc = "cancel" /\ op'.run = r /\ op'.act = db[r] /\ UNCHANGED <<db, born, grants>>
    BY <1>6 DEF CancelRead, Idle
  <2>2. db[r] # NoRow BY <1>6 DEF CancelRead, Rows
  <2>3. born[r] # NoRow /\ Paid(r, db[r]) BY <1>2, <2>2 DEF RowInv
  <2>4. Paid(r, db[r])' BY <2>1, <2>3 DEF Paid
  <2>5. CallInv' BY <2>1, <2>2, <2>3, <2>4 DEF CallInv, Awaiting, Paid
  <2> QED BY <1>3, <1>6, <2>5 DEF CancelRead
<1>7. CASE ClearActivities
  <2>1. /\ \A r \in Run : db'[r] = db[r] \/ (r \in Rows(Terminal) /\ db'[r] = NoRow)
        /\ \A r \in Run : RowInv(r)'
        /\ \A k \in Ticket : TaskInv(k)'
    BY <1>7, ForgetSafe DEF ClearActivities
  <2>5. CallInv'
    <3>1. CallInv /\ op' = op /\ UNCHANGED <<active, born, ran, grants, pc, of>>
      BY <1>7 DEF SafetyInv, ClearActivities
    <3>2. op.pc = "recover" => pc' = pc BY <3>1
    <3>3. NoWorker(op.run) => NoWorker(op.run)' BY <3>1 DEF NoWorker
    <3>4. CASE op.run \in Run => SameFor(op.run)
      BY <3>1, <3>2, <3>3, <3>4, CallSame DEF CallInv
    <3>5. CASE op.run \in Run /\ op.run \in Rows(Terminal) /\ db'[op.run] = NoRow
      <4>1. op.pc \notin {"launch", "confirm", "confirmLaunch"}
        BY <3>1, <3>5 DEF CallInv, Launchable, Awaiting, Rows
      <4>2. op.pc = "persist" => op.act.status = "skipped"
        BY <3>1, <3>5 DEF CallInv, Rows, Fresh
      <4>3. op.pc = "cancel" => op.act.status # "awaitingConfirmation"
        BY <3>1, <3>5 DEF CallInv, Awaiting, Rows
      <4>4. Fresh(op.act)' = Fresh(op.act) BY <3>1 DEF Fresh
      <4>5. Paid(op.run, op.act) => Paid(op.run, op.act)' BY <3>1 DEF Paid
      <4> QED BY <3>1, <3>2, <3>5, <4>1, <4>2, <4>3, <4>4, <4>5 DEF CallInv
    <3> QED BY <2>1, <3>1, <3>4, <3>5 DEF SameFor
  <2> QED BY <2>1, <2>5 DEF SafetyInv
<1> QED BY <1>4, <1>5, <1>6, <1>7 DEF Request, Dispatch, RunNow, Test

LEMMA ConfirmedFields ==
    ASSUME NEW act \in Activity
    PROVE  LET c == Confirmed(act) IN
           /\ c.auto = act.auto /\ c.steps = act.steps /\ c.status = "queued" /\ Cleared(c)
           /\ act.confirmed \subseteq c.confirmed
           /\ \/ /\ ~act.runConfirmed /\ c.runConfirmed
                 /\ c.confirmed = act.confirmed
              \/ /\ c.runConfirmed = act.runConfirmed
                 /\ \E x \in Step : c.confirmed \in {act.confirmed, act.confirmed \cup {x}}
<1> DEFINE S == {i \in Step : act.steps[i] = "awaitingConfirmation"}
           c == Confirmed(act)
<1>1. CASE ~act.runConfirmed /\ act.auto \in AskFirst
  BY <1>1 DEF Confirmed, Activity, Cleared
<1>2. CASE ~(~act.runConfirmed /\ act.auto \in AskFirst)
  <2>1. c = [act EXCEPT !.status = "queued", !.confirmed = act.confirmed \cup First(S)]
    BY <1>2 DEF Confirmed
  <2>2. /\ c.auto = act.auto /\ c.steps = act.steps /\ c.status = "queued"
        /\ c.runConfirmed = act.runConfirmed /\ c.confirmed = act.confirmed \cup First(S)
    BY <2>1 DEF Activity
  <2>3. \A i, j \in First(S) : i = j
    BY NumStepsAssumption DEF First, Step
  <2>4. \E x \in Step : First(S) \in {{}, {x}}
    <3>1. CASE First(S) = {} BY <3>1, NumStepsAssumption DEF Step
    <3>2. ASSUME NEW x \in First(S) PROVE x \in Step /\ First(S) = {x} BY <2>3 DEF First
    <3> QED BY <3>1, <3>2
  <2> QED BY <1>2, <2>2, <2>4 DEF Cleared
<1> QED BY <1>1, <1>2

LEMMA NoneCounted == IsFiniteSet({}) /\ Cardinality({}) = 0
BY FS_EmptySet

LEMMA OneMore ==
    ASSUME NEW S, NEW x, IsFiniteSet(S)
    PROVE  /\ IsFiniteSet(S \cup {x})
           /\ Cardinality(S \cup {x}) <= Cardinality(S) + 1
<1>1. Cardinality(S) \in Nat BY FS_CardinalityType
<1>2. IsFiniteSet(S \cup {x}) BY FS_AddElement
<1>3. Cardinality(S \cup {x}) = IF x \in S THEN Cardinality(S) ELSE Cardinality(S) + 1
  BY FS_AddElement
<1> QED BY <1>1, <1>2, <1>3

LEMMA ConfirmedPaid ==
    ASSUME NEW act \in Activity, NEW job, NEW n \in Nat, PaidWith(act, job, n)
    PROVE  PaidWith(Confirmed(act), job, n + 1)
<1> DEFINE c == Confirmed(act)
<1>1. \A x : /\ IsFiniteSet(act.confirmed \cup {x})
             /\ Cardinality(act.confirmed \cup {x}) <= Cardinality(act.confirmed) + 1
  BY OneMore DEF PaidWith
<1>2. Cardinality(act.confirmed) \in Nat BY FS_CardinalityType DEF PaidWith
<1>3. IsFiniteSet(c.confirmed) /\ Cardinality(c.confirmed) \in Nat
  BY <1>1, ConfirmedFields, FS_CardinalityType DEF PaidWith
<1>4. Cardinality(c.confirmed) + (IF c.runConfirmed THEN 1 ELSE 0) <= n + 1
  <2>1. CASE ~act.runConfirmed /\ c.runConfirmed /\ c.confirmed = act.confirmed
    <3>1. Cardinality(act.confirmed) <= n BY <1>2, <2>1 DEF PaidWith
    <3> QED BY <1>2, <2>1, <3>1
  <2>2. ASSUME NEW x, c.runConfirmed = act.runConfirmed,
               c.confirmed \in {act.confirmed, act.confirmed \cup {x}}
        PROVE  Cardinality(c.confirmed) + (IF c.runConfirmed THEN 1 ELSE 0) <= n + 1
    <3>1. Cardinality(c.confirmed) <= Cardinality(act.confirmed) + 1
      <4>1. CASE c.confirmed = act.confirmed BY <1>2, <4>1
      <4>2. CASE c.confirmed = act.confirmed \cup {x} BY <1>1, <4>2, Zenon
      <4> HIDE DEF c
      <4> QED BY <2>2, <4>1, <4>2
    <3> QED BY <1>2, <1>3, <2>2, <3>1 DEF PaidWith
  <2> QED BY <2>1, <2>2, ConfirmedFields
<1>5. c.auto = act.auto BY ConfirmedFields
<1> QED BY <1>3, <1>4, <1>5 DEF PaidWith

LEMMA DueType == ASSUME NEW r \in Run PROVE ConfirmationsDue(r) \in Nat
<1> DEFINE S == {i \in Step : ran[r][i] > 0 /\ <<born[r].auto, i>> \in Dangerous}
<1>1. IsFiniteSet(Step) BY NumStepsAssumption, FS_Interval DEF Step
<1>2. Cardinality(S) \in Nat BY <1>1, FS_Subset, FS_CardinalityType
<1> QED BY <1>2 DEF ConfirmationsDue

LEMMA LaunchSafe ==
    ASSUME TypeInv, SafetyInv, NEW r \in Run, NEW k \in Ticket, Launch(r, k),
           Launchable(r), NoWorker(r), op.pc # "idle",
           UNCHANGED <<dbVars, copy, at, canceled, history>>
    PROVE  /\ \A s \in Run : RowInv(s)'
           /\ \A j \in Ticket : TaskInv(j)'
<1> USE DEF dbVars, history
<1>1. born[r] # NoRow BY DEF SafetyInv, RowInv, Launchable, Rows
<1>2. ASSUME NEW s \in Run PROVE RowInv(s)'
  <2>1. born[s] = NoRow => active'[s] = active[s] BY <1>1 DEF Launch, TypeInv, TypeOK
  <2> QED BY <2>1, RowSame DEF SafetyInv
<1>3. TaskInv(k)'
  <2>1. pc'[k] = "start" /\ of'[k] = r /\ active'[r] = k /\ at'[k] = 1
    BY DEF Launch, TypeInv, TypeOK, SafetyInv, TaskInv
  <2>2. Launchable(r)' BY DEF Launchable, Rows, Exact, Shows, Cleared
  <2> QED BY <2>1, <2>2 DEF TaskInv, Launchable, Working, Holding, InStep, Between
<1>4. ASSUME NEW j \in Ticket, j # k PROVE TaskInv(j)'
  <2>1. TaskInv(j) /\ (of[j] \in Run \/ pc[j] = "unspawned")
    BY DEF SafetyInv, TypeInv, TaskShape
  <2>2. pc'[j] = pc[j] /\ of'[j] = of[j] BY <1>4 DEF Launch, TypeInv, TypeOK
  <2>3. pc[j] \in Working => SameFor(of[j])
    BY <2>1 DEF NoWorker, SameFor, Launch, TypeInv, TypeOK
  <2> QED BY <2>1, <2>2, <2>3, TaskSame, ParkedMeansIdle
<1> QED BY <1>2, <1>3, <1>4

LEMMA SafetyEnqueue == TypeInv /\ SafetyInv /\ Enqueue => SafetyInv'
<1> SUFFICES ASSUME TypeInv, SafetyInv, Enqueue PROVE SafetyInv' OBVIOUS
<1> USE DEF dbVars, taskVars, history
<1> PICK r : r = op.run OBVIOUS
<1>0. op.pc # "idle" /\ op.pc # "recover"
  BY DEF Enqueue, EnqueueCheck, EnqueueInsert, EnqueuePersist, EnqueueLaunch, EnqueuePrune
<1>1. ASSUME NEW k \in Ticket
      PROVE  TaskInv(k) /\ (of[k] \in Run \/ pc[k] = "unspawned") /\ pc[k] # "parking"
  BY <1>0, ParkedMeansIdle DEF SafetyInv, TypeInv, TaskShape
<1>2. ASSUME NEW s \in Run PROVE RowInv(s) BY DEF SafetyInv
<1>3. NextTarget.pc \in {"idle", "check"} BY DEF NextTarget, Idle
<1>4. ASSUME UNCHANGED <<dbVars, active, taskVars, canceled, history>>, CallInv'
      PROVE  SafetyInv'
  <2>1. ASSUME NEW s \in Run PROVE RowInv(s)' BY <1>2, <1>4, RowSame
  <2>2. ASSUME NEW k \in Ticket PROVE TaskInv(k)' BY <1>1, <1>4, TaskSame DEF SameFor
  <2> QED BY <1>4, <2>1, <2>2 DEF SafetyInv
<1>5. CASE EnqueueCheck
  <2>1. PICK a \in op.todo, s \in Run :
          /\ born[s] = NoRow
          /\ \E st \in Verdict(a, op.event, op.manual) :
               op' = [op EXCEPT !.pc = "insert", !.run = s, !.todo = @ \ {a},
                                !.act = NewActivity(a, op.event, st)]
    BY <1>5 DEF EnqueueCheck
  <2>2. PICK st \in {"queued", "skipped"} :
          op' = [op EXCEPT !.pc = "insert", !.run = s, !.todo = @ \ {a},
                           !.act = NewActivity(a, op.event, st)]
    BY <2>1 DEF Verdict
  <2>3. op'.pc = "insert" /\ op'.run = s /\ op'.act = NewActivity(a, op.event, st)
    BY <2>2 DEF TypeInv, TypeOK, Call
  <2>4. Fresh(op'.act) BY <2>3 DEF Fresh, NewActivity
  <2>5. born' = born BY <1>5 DEF EnqueueCheck
  <2>6. CallInv' BY <2>1, <2>3, <2>4, <2>5 DEF CallInv, Fresh
  <2> QED BY <1>4, <1>5, <2>6 DEF EnqueueCheck
<1>6. CASE EnqueueInsert /\ IsDuplicate(op.act)
  <2>1. op' = NextTarget BY <1>6 DEF EnqueueInsert
  <2>2. CallInv' BY <2>1, <1>3 DEF CallInv
  <2> QED BY <1>4, <1>6, <2>2 DEF EnqueueInsert
<1>7. CASE EnqueueInsert /\ ~IsDuplicate(op.act)
  <2>1. /\ r \in Run /\ op.act \in Activity /\ Fresh(op.act) /\ born[r] = NoRow
    BY <1>7 DEF EnqueueInsert, TypeInv, OpShape, SafetyInv, CallInv
  <2>2. /\ db' = [db EXCEPT ![r] = op.act]
        /\ born' = [born EXCEPT ![r] = [auto |-> op.act.auto, event |-> op.act.event]]
        /\ op' = [op EXCEPT !.pc = "persist"]
        /\ UNCHANGED <<active, taskVars, canceled, history>>
    BY <1>7 DEF EnqueueInsert
  <2>3. db'[r] = op.act /\ born'[r] = [auto |-> op.act.auto, event |-> op.act.event]
    BY <2>1, <2>2 DEF TypeInv, TypeOK
  <2>4. \A s \in Run : s # r => SameFor(s) BY <2>2 DEF TypeInv, TypeOK, SameFor
  <2>5. born'[r] # NoRow /\ born'[r].auto = op.act.auto
    <3>1. born'[r] \in Job BY <2>1, <2>3 DEF Activity, Job
    <3> QED BY <3>1, <2>3, NoRowAssumption
  <2>6. ASSUME NEW s \in Run PROVE RowInv(s)'
    <3>1. CASE s # r BY <1>2, <2>4, <3>1, RowSame DEF SameFor
    <3>2. CASE s = r
      <4>1. \A i \in Step : ran[r][i] = 0 BY <1>2, <2>1 DEF RowInv
      <4>2. grants[r] \in Nat /\ ran' = ran /\ grants' = grants BY <2>1, <2>2 DEF TypeInv, TypeOK
      <4>3. ConfirmationsDue(r)' = 0
        <5>1. {i \in Step : ran'[r][i] > 0 /\ <<born'[r].auto, i>> \in Dangerous} = {}
          BY <4>1, <4>2
        <5>2. ~ \E i \in Step : ran'[r][i] > 0 BY <4>1, <4>2
        <5>3. Cardinality({i \in Step : ran'[r][i] > 0 /\ <<born'[r].auto, i>> \in Dangerous}) = 0
          BY <5>1, NoneCounted
        <5> QED BY <5>2, <5>3 DEF ConfirmationsDue
      <4>4. Paid(r, db[r])'
        <5>1. db'[r].confirmed = {} /\ ~db'[r].runConfirmed /\ db'[r].auto = born'[r].auto
          BY <2>1, <2>3, <2>5 DEF Fresh
        <5>2. IsFiniteSet(db'[r].confirmed) /\ Cardinality(db'[r].confirmed) = 0
          BY <5>1, NoneCounted
        <5> QED BY <4>2, <5>1, <5>2 DEF Paid, PaidWith
      <4>5. ~Awaiting(r)' BY <2>1, <2>3 DEF Awaiting, Fresh
      <4> QED BY <2>1, <2>3, <2>5, <3>2, <4>1, <4>2, <4>3, <4>4, <4>5 DEF RowInv
    <3> QED BY <3>1, <3>2
  <2>7. ASSUME NEW k \in Ticket PROVE TaskInv(k)'
    <3>1. pc[k] \in Working => of[k] \in Run /\ of[k] # r
      BY <1>1, <1>2, <2>1 DEF TaskInv, RowInv, Rows
    <3> QED BY <1>1, <2>2, <2>4, <3>1, TaskSame
  <2>8. CallInv'
    <3>1. op'.pc = "persist" /\ op'.run = r /\ op'.act = op.act
      BY <2>2 DEF TypeInv, TypeOK, Call
    <3>2. active[r] = NoTicket /\ \A i \in Step : ran[r][i] = 0 BY <1>2, <2>1 DEF RowInv
    <3> QED BY <2>1, <2>2, <2>3, <2>5, <3>1, <3>2 DEF CallInv, Fresh
  <2> QED BY <2>6, <2>7, <2>8 DEF SafetyInv
<1>8. CASE EnqueuePersist
  <2>0. /\ r \in Run /\ op.act \in Activity /\ Fresh(op.act)
        /\ born[r] # NoRow /\ born[r].auto = op.act.auto /\ active[r] = NoTicket
        /\ \A i \in Step : ran[r][i] = 0
        /\ db[r] = op.act \/ (db[r] = NoRow /\ op.act.status = "skipped")
    BY <1>8 DEF EnqueuePersist, TypeInv, OpShape, SafetyInv, CallInv
  <2>1. PICK act \in SnapshotOutcomes(op.act) :
          /\ Save(r, act)
          /\ op' = [op EXCEPT !.act = act, !.pc = IF act.status = "queued" THEN "launch" ELSE "prune"]
    BY <1>8 DEF EnqueuePersist
  <2>2. /\ op'.run = r
        /\ op'.pc = IF act.status = "queued" THEN "launch" ELSE "prune"
    BY <2>1 DEF TypeInv, TypeOK, Call
  <2>3. UNCHANGED <<born, active, taskVars, canceled, history>> BY <1>8 DEF EnqueuePersist
  <2>4. CASE op.act.status = "skipped"
    <3>1. act = op.act BY <2>4 DEF SnapshotOutcomes
    <3>2. op'.pc = "prune" BY <2>2, <2>4, <3>1
    <3>3. db' = db
      BY <2>0, <2>1, <3>1 DEF Save, TypeInv, TypeOK
    <3>4. CallInv' BY <3>2 DEF CallInv
    <3> QED BY <1>4, <2>3, <3>3, <3>4
  <2>5. CASE op.act.status = "queued"
    <3>0. {NumSteps} \cup {i - 1 : i \in {j \in Step : <<op.act.auto, j>> \in QuickAction}}
             \subseteq Nat
      <4>1. NumSteps \in Nat /\ \A i \in Step : i - 1 \in Nat BY NumStepsAssumption DEF Step
      <4> QED BY <4>1
    <3>1. PICK n \in Nat : act = Snapshotted(op.act, n)
      <4>1. act \in {Snapshotted(op.act, n) :
                     n \in {NumSteps} \cup {i - 1 : i \in {j \in Step : <<op.act.auto, j>> \in QuickAction}}}
        BY <2>1, <2>5 DEF SnapshotOutcomes
      <4> QED BY <3>0, <4>1
    <3>2. /\ act.auto = op.act.auto /\ act.confirmed = {} /\ ~act.runConfirmed
          /\ \A i \in Step : act.steps[i] # "succeeded"
          /\ act.status = "queued" => act.auto \notin AskFirst
      <4>1. /\ act.auto = op.act.auto /\ act.confirmed = op.act.confirmed
            /\ act.runConfirmed = op.act.runConfirmed
            /\ act.steps = [i \in Step |-> IF i <= n THEN "queued" ELSE "absent"]
            /\ act.status = IF n < NumSteps THEN "failed"
                             ELSE IF op.act.auto \in AskFirst THEN "awaitingConfirmation" ELSE "queued"
        BY <2>0, <3>1 DEF Snapshotted, Activity
      <4>2. act.status = "queued" => act.auto \notin AskFirst BY <4>1
      <4>3. \A i \in Step : act.steps[i] # "succeeded" BY <4>1
      <4> QED BY <2>0, <4>1, <4>2, <4>3 DEF Fresh
    <3>3. db[r] = op.act BY <2>0, <2>5
    <3>4. db' = [db EXCEPT ![r] = act]
      BY <2>0, <2>1, <3>3, NoRowAssumption DEF Save
    <3>5. db'[r] = act /\ \A s \in Run : s # r => SameFor(s)
      BY <2>0, <2>3, <3>4 DEF TypeInv, TypeOK, SameFor
    <3>6. Exact(r, act) /\ Exact(r, act)' BY <2>0, <2>3, <3>2 DEF Exact, Shows
    <3>7. Paid(r, act) /\ Paid(r, act)'
      BY <2>0, <2>3, <3>2, NoneCounted DEF Paid, PaidWith, TypeInv, TypeOK
    <3>8. ASSUME NEW s \in Run PROVE RowInv(s)'
      <4>1. CASE s # r BY <1>2, <3>5, <4>1, RowSame DEF SameFor
      <4>2. CASE s = r BY <1>2, <2>0, <2>3, <3>5, <3>6, <3>7, <4>2, RowChanged DEF Paid, Exact, Shows
      <4> QED BY <4>1, <4>2
    <3>9. ASSUME NEW k \in Ticket PROVE TaskInv(k)'
      <4>1. pc[k] \in Working => of[k] \in Run /\ of[k] # r
        BY <1>1, <2>0, NullsAssumption DEF TaskInv, Rows
      <4> QED BY <1>1, <2>3, <3>5, <4>1, TaskSame
    <3>10. CallInv'
      <4>1. op'.pc = "launch" => act.status = "queued" BY <2>2
      <4>2. op'.pc = "launch" => Launchable(op.run)'
        BY <2>0, <2>2, <2>3, <3>2, <3>5, <3>6, <4>1, SnapshotOutcomesType, NoRowAssumption
        DEF Launchable, Rows, Cleared, Exact, Shows
      <4> QED BY <2>0, <2>2, <2>3, <4>2 DEF CallInv
    <3> QED BY <3>8, <3>9, <3>10 DEF SafetyInv
  <2> QED BY <2>0, <2>4, <2>5 DEF Fresh
<1>9. CASE EnqueueLaunch
  <2>1. PICK k \in Ticket : Launch(r, k) BY <1>9 DEF EnqueueLaunch
  <2>2. r \in Run /\ Launchable(r) /\ active[r] = NoTicket
    BY <1>9 DEF EnqueueLaunch, TypeInv, OpShape, SafetyInv, CallInv
  <2>3. NoWorker(r) BY <1>1, <2>2, NullsAssumption DEF NoWorker, TaskInv
  <2>4. CallInv' BY <1>9 DEF EnqueueLaunch, CallInv, TypeInv, TypeOK, Call
  <2> QED BY <1>0, <1>9, <2>1, <2>2, <2>3, <2>4, LaunchSafe DEF EnqueueLaunch, SafetyInv
<1>10. CASE EnqueuePrune
  <2>1. PICK gone \in SUBSET Rows(Terminal) : Forget(gone) BY <1>10 DEF EnqueuePrune
  <2>2. CallInv' BY <1>3, <1>10 DEF EnqueuePrune, CallInv
  <2> QED BY <1>0, <1>10, <2>1, <2>2, ForgetSafe DEF EnqueuePrune, SafetyInv
<1> QED BY <1>5, <1>6, <1>7, <1>8, <1>9, <1>10 DEF Enqueue

LEMMA SafetyCalls ==
    TypeInv /\ SafetyInv /\ (Confirm \/ CancelDecide \/ Recover) => SafetyInv'
<1> SUFFICES ASSUME TypeInv, SafetyInv, Confirm \/ CancelDecide \/ Recover
             PROVE  SafetyInv'
  OBVIOUS
<1> USE DEF dbVars, taskVars, history
<1> PICK r : r = op.run OBVIOUS
<1>0. op.pc # "idle"
  BY DEF Confirm, ConfirmPersist, ConfirmLaunch, CancelDecide, Recover, RecoverDone, RecoverRow
<1>1. ASSUME NEW k \in Ticket
      PROVE  TaskInv(k) /\ (of[k] \in Run \/ pc[k] = "unspawned") /\ pc[k] # "parking"
  BY <1>0, ParkedMeansIdle DEF SafetyInv, TypeInv, TaskShape
<1>2. ASSUME NEW s \in Run PROVE RowInv(s) BY DEF SafetyInv
<1>3. CASE ConfirmPersist
  <2>1. r \in Run /\ Awaiting(r) /\ op.act = Confirmed(db[r]) /\ db[r] \in Activity
    BY <1>3 DEF ConfirmPersist, TypeInv, TypeOK, OpShape, SafetyInv, CallInv, Awaiting
  <2>2. /\ db' = [db EXCEPT ![r] = op.act]
        /\ grants' = [grants EXCEPT ![r] = @ + 1]
        /\ op' = [op EXCEPT !.pc = "confirmLaunch"]
        /\ UNCHANGED <<born, active, taskVars, canceled, ran>>
    BY <1>3, <2>1 DEF ConfirmPersist, Save, Awaiting
  <2>3. db'[r] = op.act /\ grants'[r] = grants[r] + 1 /\ grants[r] \in Nat
    BY <2>1, <2>2 DEF TypeInv, TypeOK
  <2>4. \A s \in Run : s # r => SameFor(s) BY <2>2 DEF TypeInv, TypeOK, SameFor
  <2>5. born[r] # NoRow /\ Paid(r, db[r]) /\ Exact(r, db[r]) /\ ConfirmationsDue(r) <= grants[r]
    BY <1>2, <2>1 DEF RowInv, Awaiting
  <2>6. /\ op.act \in Activity /\ op.act.status = "queued" /\ op.act.auto = db[r].auto
        /\ op.act.steps = db[r].steps /\ Cleared(op.act)
        /\ db[r].confirmed \subseteq op.act.confirmed
    BY <2>1, ConfirmedFields, ConfirmedType
  <2>7. Paid(r, db[r])'
    <3>1. PaidWith(db[r], born[r], grants[r]) BY <2>5 DEF Paid
    <3>2. PaidWith(op.act, born[r], grants[r] + 1) BY <2>1, <2>3, <3>1, ConfirmedPaid
    <3> QED BY <2>2, <2>3, <3>2 DEF Paid
  <2>8. Exact(r, db[r])'
    <3>1. Exact(r, op.act) BY <2>5, <2>6 DEF Exact, Shows
    <3> QED BY <2>2, <2>3, <3>1 DEF Exact, Shows
  <2>9. ConfirmationsDue(r)' = ConfirmationsDue(r) BY <2>2 DEF ConfirmationsDue
  <2>10. ConfirmationsDue(r)' <= grants'[r]
    <3>1. ConfirmationsDue(r) \in Nat BY <2>1, DueType
    <3> QED BY <2>3, <2>5, <2>9, <3>1
  <2>11. ASSUME NEW s \in Run PROVE RowInv(s)'
    <3>1. CASE s # r BY <1>2, <2>4, <3>1, RowSame DEF SameFor
    <3>2. CASE s = r
      <4>1. RowInv(r) BY <1>2, <2>1
      <4> QED BY <2>2, <2>5, <2>7, <2>8, <2>10, <3>2, <4>1 DEF RowInv
    <3> QED BY <3>1, <3>2
  <2>12. NoWorker(r) BY <1>1, <2>1 DEF NoWorker, TaskInv, Rows, Awaiting
  <2>13. ASSUME NEW k \in Ticket PROVE TaskInv(k)'
    <3>1. pc[k] \in Working => of[k] \in Run /\ of[k] # r
      BY <1>1, <2>12 DEF NoWorker, TaskInv, Rows
    <3> QED BY <1>1, <2>2, <2>4, <3>1, TaskSame
  <2>14. CallInv'
    <3>1. op'.pc = "confirmLaunch" /\ op'.run = r BY <2>2 DEF TypeInv, TypeOK, Call
    <3>2. NoWorker(r)' BY <2>2, <2>12 DEF NoWorker
    <3>3. db'[r] # NoRow BY <2>3, <2>6, NoRowAssumption
    <3>4. Launchable(r)' BY <2>1, <2>3, <2>6, <2>8, <3>3 DEF Launchable, Rows, Cleared
    <3> QED BY <3>1, <3>2, <3>4 DEF CallInv, Launchable, NoWorker
  <2> QED BY <2>11, <2>13, <2>14 DEF SafetyInv
<1>4. CASE ConfirmLaunch
  <2>1. PICK k \in Ticket : Launch(r, k) BY <1>4 DEF ConfirmLaunch
  <2>2. r \in Run /\ Launchable(r) /\ NoWorker(r)
    BY <1>4 DEF ConfirmLaunch, TypeInv, OpShape, SafetyInv, CallInv
  <2>3. CallInv' BY <1>4 DEF ConfirmLaunch, CallInv, Idle
  <2> QED BY <1>0, <1>4, <2>1, <2>2, <2>3, LaunchSafe DEF ConfirmLaunch, SafetyInv
<1>5. CASE CancelDecide
  <2>1. /\ r \in Run /\ op.act \in Activity /\ born[r] # NoRow /\ Paid(r, op.act)
        /\ op.act.status = "awaitingConfirmation" => Awaiting(r)
    BY <1>5 DEF CancelDecide, TypeInv, OpShape, SafetyInv, CallInv
  <2>2. UNCHANGED <<born, active, taskVars, history>> /\ op' = Idle BY <1>5 DEF CancelDecide
  <2>3. CASE db' = db
    <3>1. ASSUME NEW s \in Run PROVE RowInv(s)' BY <1>2, <2>2, <2>3, RowSame
    <3>2. ASSUME NEW k \in Ticket PROVE TaskInv(k)' BY <1>1, <2>2, <2>3, TaskSame DEF SameFor
    <3> QED BY <2>2, <3>1, <3>2 DEF SafetyInv, CallInv, Idle
  <2>4. CASE CancelWrites /\ db' = [db EXCEPT ![r] = [op.act EXCEPT !.status = "canceled"]]
    <3>1. \A s \in Run : s # r => SameFor(s) BY <2>2, <2>4 DEF TypeInv, TypeOK, SameFor
    <3>2. db'[r] = [op.act EXCEPT !.status = "canceled"] BY <2>1, <2>4 DEF TypeInv, TypeOK
    <3>3. Paid(r, db[r])' /\ ~Awaiting(r)'
      <4>1. /\ db'[r].status = "canceled" /\ db'[r].auto = op.act.auto
            /\ db'[r].confirmed = op.act.confirmed /\ db'[r].runConfirmed = op.act.runConfirmed
        BY <2>1, <3>2 DEF Activity
      <4>2. PaidWith(op.act, born[r], grants[r]) BY <2>1 DEF Paid
      <4>3. PaidWith(db'[r], born[r], grants[r]) BY <4>1, <4>2 DEF PaidWith
      <4> QED BY <2>2, <4>1, <4>3 DEF Paid, Awaiting
    <3>4. ASSUME NEW s \in Run PROVE RowInv(s)'
      <4>1. CASE s # r BY <1>2, <3>1, <4>1, RowSame DEF SameFor
      <4>2. CASE s = r BY <1>2, <2>1, <2>2, <3>3, <4>2, RowChanged DEF Paid
      <4> QED BY <4>1, <4>2
    <3>5. NoWorker(r)
      <4>1. active[r] = NoTicket \/ Awaiting(r) BY <2>1, <2>4 DEF CancelWrites
      <4> QED BY <1>1, <4>1, NullsAssumption DEF NoWorker, TaskInv, Rows, Awaiting
    <3>6. ASSUME NEW k \in Ticket PROVE TaskInv(k)'
      <4>1. pc[k] \in Working => of[k] \in Run /\ of[k] # r
        BY <1>1, <3>5 DEF NoWorker, TaskInv, Rows
      <4> QED BY <1>1, <2>2, <3>1, <4>1, TaskSame
    <3> QED BY <2>2, <3>4, <3>6 DEF SafetyInv, CallInv, Idle
  <2> QED BY <1>5, <2>3, <2>4 DEF CancelDecide, Save
<1>6. CASE RecoverDone
  <2>1. ASSUME NEW s \in Run PROVE RowInv(s)' BY <1>2, <1>6, RowSame DEF RecoverDone
  <2>2. ASSUME NEW k \in Ticket PROVE TaskInv(k)'
    BY <1>1, <1>6, TaskSame DEF RecoverDone, SameFor
  <2> QED BY <1>6, <2>1, <2>2 DEF RecoverDone, SafetyInv, CallInv, Idle
<1>7. ASSUME NEW s \in Run, RecoverRow(s) PROVE SafetyInv'
  <2>1. db[s] \in Activity /\ db[s] # NoRow BY <1>7 DEF RecoverRow, Rows, TypeInv, TypeOK
  <2>2. db' = [db EXCEPT ![s] = Interrupted(db[s])] /\ op' = op /\ op.pc = "recover"
    BY <1>7, <2>1 DEF RecoverRow, Save
  <2>3. UNCHANGED <<born, active, taskVars, canceled, history>> BY <1>7 DEF RecoverRow
  <2>4. /\ db'[s].status = "interrupted" /\ db'[s].auto = db[s].auto
        /\ db'[s].confirmed = db[s].confirmed /\ db'[s].runConfirmed = db[s].runConfirmed
    BY <2>1, <2>2 DEF Interrupted, Activity, TypeInv, TypeOK
  <2>5. born[s] # NoRow /\ Paid(s, db[s]) BY <1>2, <2>1 DEF RowInv
  <2>6. Paid(s, db[s])' /\ ~Awaiting(s)'
    <3>1. PaidWith(db'[s], born[s], grants[s]) BY <2>4, <2>5 DEF Paid, PaidWith
    <3> QED BY <2>3, <2>4, <3>1 DEF Paid, Awaiting
  <2>7. ASSUME NEW t \in Run PROVE RowInv(t)'
    <3>1. CASE t # s
      <4>1. db'[t] = db[t] BY <2>2, <3>1 DEF TypeInv, TypeOK
      <4> QED BY <1>2, <2>3, <4>1, RowSame
    <3>2. CASE t = s BY <1>2, <2>3, <2>5, <2>6, <3>2, RowChanged DEF Paid
    <3> QED BY <3>1, <3>2
  <2>8. \A k \in Ticket : pc[k] \notin Working
    BY <2>2 DEF SafetyInv, CallInv, Working, Holding
  <2>9. ASSUME NEW k \in Ticket PROVE TaskInv(k)' BY <1>1, <2>3, <2>8, TaskSame
  <2>10. CallInv' BY <2>2, <2>3 DEF SafetyInv, CallInv
  <2> QED BY <2>7, <2>9, <2>10 DEF SafetyInv
<1> QED BY <1>3, <1>4, <1>5, <1>6, <1>7 DEF Confirm, Recover

-----------------------------------------------------------------------------
(* A step of a task disturbs its own activity only.                        *)

LEMMA TaskFrame ==
    ASSUME TypeInv, SafetyInv, NEW k \in Ticket, NEW r \in Run, r = of[k],
           pc[k] \notin {"unspawned", "gone"},
           UNCHANGED <<of, canceled, op, born, grants>>,
           \A j \in Ticket : j # k => pc'[j] = pc[j] /\ copy'[j] = copy[j] /\ at'[j] = at[j],
           \A s \in Run : s # r => SameFor(s),
           \/ pc[k] \in Working /\ active' = active
           \/ /\ pc[k] \notin Working /\ pc'[k] \notin Working
              /\ db'[r] = db[r] /\ ran'[r] = ran[r]
              /\ active'[r] = active[r] \/ (active[r] = k /\ active'[r] = NoTicket),
           RowInv(r)', TaskInv(k)'
    PROVE  SafetyInv'
<1>1. ASSUME NEW s \in Run PROVE RowInv(s)' BY <1>1, RowSame DEF SafetyInv, SameFor
<1>2. ASSUME NEW j \in Ticket PROVE TaskInv(j)'
  <2>1. CASE j = k BY <2>1
  <2>2. CASE j # k
    <3>1. TaskInv(j) /\ (of[j] \in Run \/ pc[j] = "unspawned")
      BY DEF SafetyInv, TypeInv, TaskShape
    <3>2. pc[j] \in Working => active[of[j]] = j /\ of[j] \in Run BY <3>1 DEF TaskInv, Rows
    <3>3. pc[k] \in Working => active[r] = k BY DEF SafetyInv, TaskInv
    <3>4. pc[j] \in Working => SameFor(of[j])
      BY <2>2, <3>2, <3>3 DEF SameFor
    <3> QED BY <2>2, <3>1, <3>4, TaskSame
  <2> QED BY <2>1, <2>2
<1>3. CallInv'
  <2>1. CallInv /\ TaskInv(k) BY DEF SafetyInv
  <2>2. op.pc # "recover" BY <2>1 DEF CallInv
  <2>3. NoWorker(op.run) /\ pc[k] \notin Working => NoWorker(op.run)' BY DEF NoWorker
  <2>4. op.run # r /\ NoWorker(op.run) => NoWorker(op.run)' BY DEF NoWorker
  <2>5. CASE op.run # r BY <2>1, <2>2, <2>4, <2>5, CallSame DEF CallInv
  <2>6. CASE op.run = r /\ pc[k] \in Working
    <3>1. active[r] = k /\ r \in Rows(InFlight) /\ born[r] # NoRow
      BY <2>1, <2>6 DEF TaskInv, SafetyInv, RowInv, Rows
    <3>2. op.pc \notin {"insert", "persist", "launch", "confirm", "confirmLaunch"}
      BY <2>1, <2>6, <3>1, NullsAssumption DEF CallInv, Awaiting, Rows, NoWorker
    <3>3. op.pc = "cancel" => op.act.status # "awaitingConfirmation"
      BY <2>1, <2>6, <3>1 DEF CallInv, Awaiting, Rows
    <3>4. Paid(r, op.act) => Paid(r, op.act)' BY DEF Paid
    <3> QED BY <2>1, <2>2, <2>6, <3>2, <3>3, <3>4 DEF CallInv
  <2>7. CASE op.run = r /\ pc[k] \notin Working
    <3>1. active'[r] = active[r] \/ active'[r] = NoTicket BY <2>7
    <3>2. UNCHANGED <<db[r], ran[r], born[r], grants[r], op>> BY <2>7
    <3>3. /\ Launchable(r) => Launchable(r)'
          /\ Awaiting(r) => Awaiting(r)'
          /\ Paid(r, op.act) => Paid(r, op.act)'
          /\ Fresh(op.act) => Fresh(op.act)'
          /\ Confirmed(db[r])' = Confirmed(db[r])
      BY <3>2 DEF Launchable, Rows, Exact, Shows, Cleared, Awaiting, Paid, Fresh, Confirmed, First
    <3> QED BY <2>1, <2>2, <2>3, <2>7, <3>1, <3>2, <3>3 DEF CallInv
  <2> QED BY <2>5, <2>6, <2>7
<1> QED BY <1>1, <1>2, <1>3 DEF SafetyInv

LEMMA ClosedFields ==
    ASSUME NEW act \in Activity
    PROVE  LET c == Closed(act) IN
           /\ c.auto = act.auto /\ c.confirmed = act.confirmed /\ c.runConfirmed = act.runConfirmed
           /\ c.status = IF act.status \in InFlight THEN "succeeded" ELSE act.status
BY DEF Closed, Activity

\* What a task writes when it stops for good.
Ending(r, act) == Paid(r, act) /\ act.status \in Terminal

LEMMA CanceledEnds ==
    ASSUME NEW act \in Activity, NEW r \in Run, Paid(r, act)
    PROVE  Ending(r, Canceled(act)) /\ Ending(r, [act EXCEPT !.status = "canceled"])
<1> DEFINE c == [act EXCEPT !.status = "canceled"]
<1>1. c \in Activity /\ c.auto = act.auto /\ c.confirmed = act.confirmed
      /\ c.runConfirmed = act.runConfirmed /\ c.status = "canceled"
  BY StatusType DEF Activity
<1>2. Ending(r, c) BY <1>1 DEF Ending, Paid, PaidWith
<1>3. Ending(r, Closed(c)) BY <1>1, ClosedFields DEF Ending, Paid, PaidWith
<1> QED BY <1>2, <1>3 DEF Canceled

LEMMA StepEndsWell ==
    ASSUME NEW act \in Activity, NEW i \in Step, NEW s \in Terminal, NEW r \in Run, Paid(r, act)
    PROVE  /\ s # "succeeded" => Ending(r, AfterStep(act, i, s))
           /\ s = "succeeded" => AfterStep(act, i, s) = [act EXCEPT !.steps[i] = "succeeded"]
<1> DEFINE ended == [act EXCEPT !.steps[i] = s]
           c == [ended EXCEPT !.status = s]
<1>1. ended \in Activity BY StepType
<1>2. c \in Activity /\ c.auto = act.auto /\ c.confirmed = act.confirmed
      /\ c.runConfirmed = act.runConfirmed /\ c.status = s
  BY <1>1, StatusType DEF Activity
<1>3. Ending(r, Closed(c)) BY <1>2, ClosedFields DEF Ending, Paid, PaidWith
<1> QED BY <1>3 DEF AfterStep

LEMMA SafetyTask == ASSUME NEW k \in Ticket PROVE TypeInv /\ SafetyInv /\ Task(k) => SafetyInv'
<1> SUFFICES ASSUME TypeInv, SafetyInv, Task(k) PROVE SafetyInv' OBVIOUS
<1> USE DEF Go, TaskOnly, dbVars, history
<1> PICK r : r = of[k] OBVIOUS
<1>1. /\ r \in Run /\ pc[k] \notin {"unspawned", "gone"} /\ TaskInv(k) /\ RowInv(r)
      /\ TypeOK /\ TaskShape
  <2>1. pc[k] \notin {"unspawned", "gone"}
    BY DEF Task, ExecuteLoad, ExecuteAcquire, ExecuteGiveUp, ExecuteSkipSucceeded, ExecuteCanceled,
           ExecuteAsk, ExecuteGate, ExecutePark, ExecuteBegin, ExecutePersistBegin, ExecuteRecheck,
           ExecuteStart, ExecuteResult, ExecuteRefused, ExecutePersistStep, ExecuteComplete,
           ExecuteFinal, TaskError, TaskRemove, InLoop
  <2> QED BY <2>1 DEF TypeInv, TaskShape, SafetyInv
<1> DEFINE Others == \A j \in Ticket : j # k => pc'[j] = pc[j] /\ copy'[j] = copy[j] /\ at'[j] = at[j]
<1>2. ASSUME pc[k] \in Working, TaskOnly, UNCHANGED <<db, ran>>, Others, TaskInv(k)'
      PROVE  SafetyInv'
  <2>1. RowInv(r)' BY <1>1, <1>2, RowSame
  <2>2. \A s \in Run : SameFor(s) BY <1>2 DEF SameFor
  <2> QED BY <1>1, <1>2, <2>1, <2>2, TaskFrame
<1>3. ASSUME pc[k] \in Working, TaskOnly, UNCHANGED ran, Others, TaskInv(k)',
             NEW d \in Activity, Save(r, d), Paid(r, d),
             d.status = "awaitingConfirmation" => Exact(r, d)
      PROVE  SafetyInv'
  <2>1. db[r] # NoRow /\ born[r] # NoRow BY <1>1, <1>3 DEF TaskInv, Rows, RowInv
  <2>2. db' = [db EXCEPT ![r] = d] BY <1>3, <2>1 DEF Save
  <2>3. db'[r] = d /\ \A s \in Run : s # r => SameFor(s)
    BY <1>1, <1>3, <2>2 DEF TypeOK, SameFor
  <2>4. Paid(r, d)' /\ (Exact(r, d) => Exact(r, d)') BY <1>3 DEF Paid, Exact, Shows
  <2>5. RowInv(r)' BY <1>1, <1>3, <2>1, <2>3, <2>4, RowChanged DEF Awaiting, Paid, Exact, Shows
  <2> QED BY <1>1, <1>3, <2>3, <2>5, TaskFrame
<1>4. \* What Save stores for a working task.
      ASSUME pc[k] \in Working, NEW d \in Activity, Save(r, d), d.status \in InFlight
      PROVE  r \in Rows(InFlight)' /\ db'[r] = d
  <2>1. db[r] # NoRow BY <1>1, <1>4 DEF TaskInv, Rows
  <2>2. db'[r] = d BY <1>1, <1>4, <2>1 DEF Save, TypeOK
  <2> QED BY <1>1, <1>4, <2>2, NoRowAssumption DEF Rows
<1>5. \* Keeping the row of a working task in flight.
      ASSUME pc[k] \in Working, db' = db, active' = active
      PROVE  active'[r] = k /\ r \in Rows(InFlight)'
  BY <1>1, <1>5 DEF TaskInv, Rows
<1> USE DEF Working, Holding, InStep, Between
<1>6. CASE ExecuteLoad(k)
  <2>1. pc[k] = "start" /\ db[r] # NoRow /\ db[r] \in Activity
    BY <1>1, <1>6 DEF ExecuteLoad, TaskInv, Rows, TypeOK
  <2>2. copy'[k] = db[r] /\ pc'[k] = "acquire" /\ at'[k] = 1 /\ Others
    BY <1>1, <1>6, <2>1 DEF ExecuteLoad, TypeOK, TaskInv
  <2>3. /\ Exact(r, db[r]) /\ Cleared(db[r]) /\ Paid(r, db[r]) /\ db[r].status \in InFlight
    BY <1>1, <2>1 DEF TaskInv, Launchable, RowInv, Rows
  <2>4. UNCHANGED <<db, active, ran, born, grants, of>> BY <1>6 DEF ExecuteLoad
  <2>5. Exact(r, copy[k])' /\ Cleared(copy[k])' /\ Paid(r, copy[k])'
    BY <2>2, <2>3, <2>4 DEF Exact, Shows, Cleared, Paid
  <2>6. TaskInv(k)' BY <1>5, <2>1, <2>2, <2>3, <2>4, <2>5 DEF TaskInv
  <2> QED BY <1>2, <1>6, <2>1, <2>2, <2>6 DEF ExecuteLoad
<1>7. CASE ExecuteAcquire(k) \/ ExecuteAsk(k) \/ ExecuteSkipSucceeded(k)
  <2>1. /\ UNCHANGED <<db, active, ran, born, grants, of, op, copy, canceled>> /\ Others
        /\ pc[k] \in {"acquire", "loop"}
    BY <1>1, <1>7 DEF ExecuteAcquire, ExecuteAsk, ExecuteSkipSucceeded, InLoop, TypeOK
  <2>2. Exact(r, copy[k])' /\ Cleared(copy[k])' /\ Paid(r, copy[k])'
    BY <1>1, <2>1 DEF Exact, Shows, Cleared, Paid, TaskInv
  <2>3. ASSUME ExecuteAcquire(k) PROVE TaskInv(k)'
    <3>1. pc[k] = "acquire" /\ pc'[k] = "loop" /\ at'[k] = 1
      BY <1>1, <2>3 DEF ExecuteAcquire, TypeOK, TaskInv
    <3>2. \A j \in Step : ~(j < 1) BY NumStepsAssumption DEF Step
    <3> QED BY <1>1, <1>5, <2>1, <2>2, <3>1, <3>2 DEF TaskInv
  <2>4. ASSUME ExecuteAsk(k) PROVE TaskInv(k)'
    <3>1. pc[k] = "loop" /\ pc'[k] = "gate" /\ at' = at /\ ~IsDone(k)
      BY <1>1, <2>4 DEF ExecuteAsk, TypeOK, InLoop
    <3> QED BY <1>1, <1>5, <2>1, <2>2, <3>1 DEF TaskInv, IsDone
  <2>5. ASSUME ExecuteSkipSucceeded(k) PROVE TaskInv(k)'
    <3>1. pc[k] = "loop" /\ pc'[k] = "loop" /\ at'[k] = at[k] + 1 /\ at[k] \in Step /\ IsDone(k)
      BY <1>1, <2>5 DEF ExecuteSkipSucceeded, TypeOK, InLoop
    <3>2. \A j \in Step : j < at[k] + 1 => j < at[k] \/ j = at[k]
      BY <3>1, NumStepsAssumption DEF Step
    <3> QED BY <1>1, <1>5, <2>1, <2>2, <3>1, <3>2 DEF TaskInv, IsDone
  <2>6. TaskInv(k)' BY <1>7, <2>3, <2>4, <2>5
  <2> QED BY <1>2, <1>7, <2>1, <2>6 DEF ExecuteAcquire, ExecuteAsk, ExecuteSkipSucceeded
<1>8. ASSUME pc[k] \in {"acquire", "loop", "gate", "recheck", "executing", "ready"},
             TaskOnly, UNCHANGED <<db, ran>>, Others,
             pc'[k] \in {"final", "abandon"}, Ending(r, copy'[k])
      PROVE  SafetyInv'
  <2>1. Paid(r, copy[k])' /\ (copy[k].status \in Terminal)' BY <1>8 DEF Ending, Paid
  <2>2. TaskInv(k)' BY <1>5, <1>8, <2>1 DEF TaskInv
  <2> QED BY <1>2, <1>8, <2>2
<1>9. CASE ExecuteGiveUp(k)
  <2>1. copy[k] \in Activity /\ Paid(r, copy[k]) BY <1>1, <1>9 DEF ExecuteGiveUp, TaskShape, TaskInv
  <2>2. copy'[k] = [copy[k] EXCEPT !.status = "canceled"] BY <1>1, <1>9 DEF ExecuteGiveUp, TypeOK
  <2>3. Ending(r, copy'[k]) BY <1>1, <2>1, <2>2, CanceledEnds
  <2> QED BY <1>1, <1>8, <1>9, <2>3 DEF ExecuteGiveUp, TypeOK
<1>10. CASE ExecuteCanceled(k)
  <2>1. copy[k] \in Activity /\ Paid(r, copy[k])
    BY <1>1, <1>10 DEF ExecuteCanceled, InLoop, TaskShape, TaskInv
  <2>2. copy'[k] = Canceled(copy[k]) BY <1>1, <1>10 DEF ExecuteCanceled, TypeOK
  <2>3. Ending(r, copy'[k]) BY <1>1, <2>1, <2>2, CanceledEnds
  <2> QED BY <1>1, <1>8, <1>10, <2>3 DEF ExecuteCanceled, InLoop, TypeOK
<1>11. CASE (ExecuteGate(k) \/ ExecuteRecheck(k)) /\ k \in canceled
  <2>1. pc[k] \in {"gate", "recheck"} BY <1>11 DEF ExecuteGate, ExecuteRecheck
  <2>2. copy[k] \in Activity /\ Paid(r, copy[k]) BY <1>1, <2>1 DEF TaskShape, TaskInv
  <2>3. copy'[k] = Canceled(copy[k]) /\ pc'[k] = "final" /\ Others /\ UNCHANGED <<db, ran>>
    BY <1>1, <1>11 DEF ExecuteGate, ExecuteRecheck, TypeOK
  <2>4. Ending(r, copy'[k]) BY <1>1, <2>2, <2>3, CanceledEnds
  <2> QED BY <1>8, <1>11, <2>1, <2>3, <2>4 DEF ExecuteGate, ExecuteRecheck
<1>12. CASE ExecuteGate(k) /\ k \notin canceled
  <2> DEFINE c == [copy[k] EXCEPT !.status = "awaitingConfirmation",
                                  !.steps[at[k]] = "awaitingConfirmation"]
  <2>1. pc[k] = "gate" /\ copy[k] \in Activity /\ at[k] \in Step
    BY <1>1, <1>12 DEF ExecuteGate, TaskShape
  <2>2. /\ copy'[k] = c /\ pc'[k] = "parking" /\ at'[k] = at[k] /\ Others
        /\ UNCHANGED <<db, active, ran, born, grants, of, op, canceled>> /\ op.pc = "idle"
    BY <1>1, <1>12 DEF ExecuteGate, GateFree, TypeOK
  <2>3. /\ c.auto = copy[k].auto /\ c.confirmed = copy[k].confirmed
        /\ c.runConfirmed = copy[k].runConfirmed /\ c.status = "awaitingConfirmation"
        /\ c.steps = [copy[k].steps EXCEPT ![at[k]] = "awaitingConfirmation"]
    BY <2>1 DEF Activity
  <2>4. \A i \in Step : c.steps[i] = IF i = at[k] THEN "awaitingConfirmation" ELSE copy[k].steps[i]
    BY <2>1, <2>3 DEF Activity
  <2>5. /\ Exact(r, copy[k]) /\ Cleared(copy[k]) /\ Paid(r, copy[k])
        /\ copy[k].steps[at[k]] # "succeeded"
        /\ \A j \in Step : j < at[k] => copy[k].steps[j] = "succeeded"
    BY <1>1, <2>1 DEF TaskInv
  <2>6. Exact(r, c)
    BY <2>1, <2>3, <2>4, <2>5 DEF Exact, Shows
  <2>7. Cleared(c) /\ Paid(r, c) BY <2>3, <2>5 DEF Cleared, Paid, PaidWith
  <2>8. \A j \in Step : j < at[k] => c.steps[j] = "succeeded"
    BY <2>1, <2>4, <2>5, NumStepsAssumption DEF Step
  <2>9. c.steps[at[k]] # "succeeded" BY <2>1, <2>4
  <2> HIDE DEF c
  <2>10. Exact(r, copy[k])' /\ Cleared(copy[k])' /\ Paid(r, copy[k])'
    BY <2>2, <2>6, <2>7 DEF Exact, Shows, Cleared, Paid
  <2>11. TaskInv(k)' BY <1>5, <1>12, <2>1, <2>2, <2>3, <2>8, <2>9, <2>10 DEF TaskInv
  <2> QED BY <1>2, <1>12, <2>1, <2>2, <2>11 DEF ExecuteGate
<1>13. CASE ExecutePark(k)
  <2>1. /\ pc[k] = "parking" /\ copy[k] \in Activity /\ Exact(r, copy[k]) /\ Paid(r, copy[k])
    BY <1>1, <1>13 DEF ExecutePark, TaskShape, TaskInv
  <2>2. pc'[k] = "remove" /\ Others /\ Save(r, copy[k]) BY <1>1, <1>13 DEF ExecutePark, TypeOK
  <2>3. TaskInv(k)' BY <2>2 DEF TaskInv
  <2> QED BY <1>3, <1>13, <2>1, <2>2, <2>3 DEF ExecutePark
<1>14. CASE ExecuteBegin(k)
  <2> DEFINE c == [copy[k] EXCEPT !.status = "running", !.steps[at[k]] = "running"]
  <2>1. /\ pc[k] = "loop" /\ copy[k] \in Activity /\ at[k] \in Step
        /\ ~IsDone(k) /\ ~NeedsConfirmation(k)
    BY <1>1, <1>14 DEF ExecuteBegin, InLoop, TaskShape
  <2>2. /\ copy'[k] = c /\ pc'[k] = "begin" /\ at' = at /\ Others
        /\ UNCHANGED <<db, active, ran, born, grants, of, op, canceled>>
    BY <1>1, <1>14 DEF ExecuteBegin, TypeOK
  <2>3. /\ c.auto = copy[k].auto /\ c.confirmed = copy[k].confirmed
        /\ c.runConfirmed = copy[k].runConfirmed /\ c.status = "running"
        /\ c.steps = [copy[k].steps EXCEPT ![at[k]] = "running"]
    BY <2>1 DEF Activity
  <2>4. \A i \in Step : c.steps[i] = IF i = at[k] THEN "running" ELSE copy[k].steps[i]
    BY <2>1, <2>3 DEF Activity
  <2>5. /\ Exact(r, copy[k]) /\ Cleared(copy[k]) /\ Paid(r, copy[k])
        /\ copy[k].steps[at[k]] # "succeeded"
        /\ \A j \in Step : j < at[k] => copy[k].steps[j] = "succeeded"
    BY <1>1, <2>1 DEF TaskInv, IsDone
  <2>6. Exact(r, c) BY <2>1, <2>3, <2>4, <2>5 DEF Exact, Shows
  <2>7. Cleared(c) /\ Paid(r, c) BY <2>3, <2>5 DEF Cleared, Paid, PaidWith
  <2>8. \A j \in Step : j < at[k] => c.steps[j] = "succeeded"
    BY <2>1, <2>4, <2>5, NumStepsAssumption DEF Step
  <2>9. c.steps[at[k]] # "succeeded" BY <2>1, <2>4
  <2> HIDE DEF c
  <2>10. Exact(r, copy[k])' /\ Cleared(copy[k])' /\ Paid(r, copy[k])'
    BY <2>2, <2>6, <2>7 DEF Exact, Shows, Cleared, Paid
  <2>11. ~NeedsConfirmation(k)' BY <2>1, <2>2, <2>3 DEF NeedsConfirmation
  <2>12. TaskInv(k)' BY <1>5, <2>1, <2>2, <2>3, <2>8, <2>9, <2>10, <2>11 DEF TaskInv
  <2> QED BY <1>2, <1>14, <2>1, <2>2, <2>12 DEF ExecuteBegin
<1>15. CASE ExecutePersistBegin(k)
  <2>1. /\ pc[k] = "begin" /\ copy[k] \in Activity /\ copy[k].status = "running"
        /\ Exact(r, copy[k]) /\ Paid(r, copy[k]) /\ Cleared(copy[k])
    BY <1>1, <1>15 DEF ExecutePersistBegin, TaskShape, TaskInv
  <2>2. /\ pc'[k] = "recheck" /\ Others /\ Save(r, copy[k])
        /\ UNCHANGED <<active, ran, born, grants, of, op, canceled, copy, at>>
    BY <1>1, <1>15 DEF ExecutePersistBegin, TypeOK
  <2>3. r \in Rows(InFlight)' BY <1>4, <2>1, <2>2
  <2>4. Exact(r, copy[k])' /\ Cleared(copy[k])' /\ Paid(r, copy[k])'
    BY <2>1, <2>2 DEF Exact, Shows, Cleared, Paid
  <2>5. NeedsConfirmation(k)' = NeedsConfirmation(k) BY <2>2 DEF NeedsConfirmation
  <2>6. TaskInv(k)' BY <1>1, <2>1, <2>2, <2>3, <2>4, <2>5 DEF TaskInv
  <2> QED BY <1>3, <1>15, <2>1, <2>2, <2>6 DEF ExecutePersistBegin
<1>16. CASE ExecuteRecheck(k) /\ k \notin canceled
  <2>1. /\ pc[k] = "recheck" /\ pc'[k] = "ready" /\ Others
        /\ UNCHANGED <<db, active, ran, born, grants, of, op, canceled, copy, at>>
    BY <1>1, <1>16 DEF ExecuteRecheck, TypeOK
  <2>2. Exact(r, copy[k])' /\ Cleared(copy[k])' /\ Paid(r, copy[k])'
    BY <1>1, <2>1 DEF Exact, Shows, Cleared, Paid, TaskInv
  <2>3. NeedsConfirmation(k)' = NeedsConfirmation(k) BY <2>1 DEF NeedsConfirmation
  <2>4. TaskInv(k)' BY <1>1, <1>5, <2>1, <2>2, <2>3 DEF TaskInv
  <2> QED BY <1>2, <1>16, <2>1, <2>4 DEF ExecuteRecheck
<1>17. CASE ExecuteStart(k)
  <2>1. /\ pc[k] = "ready" /\ pc'[k] = "executing" /\ at[k] \in Step /\ copy[k] \in Activity
        /\ ran' = [ran EXCEPT ![r][at[k]] = @ + 1] /\ Others
        /\ UNCHANGED <<db, active, born, grants, of, op, canceled, copy, at>>
    BY <1>1, <1>17 DEF ExecuteStart, TypeOK, TaskShape
  <2>2. /\ Exact(r, copy[k]) /\ Cleared(copy[k]) /\ Paid(r, copy[k]) /\ ~NeedsConfirmation(k)
        /\ copy[k].steps[at[k]] # "succeeded" /\ copy[k].status = "running"
        /\ \A j \in Step : j < at[k] => copy[k].steps[j] = "succeeded"
        /\ r \in Rows(InFlight) /\ born[r] # NoRow
    BY <1>1, <2>1 DEF TaskInv, RowInv, Rows
  <2>3. \A i \in Step : ran'[r][i] = IF i = at[k] THEN 1 ELSE ran[r][i]
    <3>1. ran[r][at[k]] = 0 BY <2>1, <2>2 DEF Exact, Shows
    <3>2. ran \in [Run -> [Step -> Nat]] BY <1>1 DEF TypeOK
    <3>3. ran'[r] = [ran[r] EXCEPT ![at[k]] = ran[r][at[k]] + 1] BY <1>1, <2>1, <3>2
    <3> QED BY <1>1, <2>1, <3>1, <3>2, <3>3
  <2>4. \A s \in Run : s # r => SameFor(s) BY <1>1, <2>1 DEF TypeOK, SameFor
  <2>5. RowInv(r)'
    <3>1. \A i \in Step : ran'[r][i] <= 1 BY <1>1, <2>3 DEF RowInv
    <3>2. ~Awaiting(r)' BY <2>1, <2>2 DEF Rows, Awaiting
    <3>3. Paid(r, db[r])' BY <1>1, <2>1, <2>2 DEF RowInv, Paid, Rows
    <3>4. ConfirmationsDue(r)' <= grants[r]
      <4> DEFINE S == {i \in Step : ran'[r][i] > 0 /\ <<born'[r].auto, i>> \in Dangerous}
      <4>1. PaidWith(copy[k], born[r], grants[r]) BY <2>2 DEF Paid
      <4>2. S \subseteq copy[k].confirmed
        BY <2>1, <2>2, <2>3, <4>1 DEF Exact, Shows, NeedsConfirmation, PaidWith
      <4>3. IsFiniteSet(copy[k].confirmed) /\ Cardinality(copy[k].confirmed) \in Nat
        BY <4>1, FS_CardinalityType DEF PaidWith
      <4>4. Cardinality(S) \in Nat /\ Cardinality(S) <= Cardinality(copy[k].confirmed)
        BY <4>2, <4>3, FS_Subset, FS_CardinalityType
      <4>5. born'[r].auto \in AskFirst => copy[k].runConfirmed
        BY <2>1, <2>2, <4>1 DEF Cleared, PaidWith
      <4>6. grants[r] \in Nat /\ copy[k].runConfirmed \in BOOLEAN
        BY <1>1, <2>1 DEF TypeOK, Activity
      <4>7. Cardinality(copy[k].confirmed) + (IF copy[k].runConfirmed THEN 1 ELSE 0) <= grants[r]
        BY <4>1 DEF PaidWith
      <4>8. ConfirmationsDue(r)' = Cardinality(S)
               + (IF born'[r].auto \in AskFirst /\ \E i \in Step : ran'[r][i] > 0 THEN 1 ELSE 0)
        BY DEF ConfirmationsDue
      <4> HIDE DEF S
      <4>9. CASE copy[k].runConfirmed BY <4>3, <4>4, <4>6, <4>7, <4>8, <4>9
      <4>10. CASE ~copy[k].runConfirmed BY <4>3, <4>4, <4>5, <4>6, <4>7, <4>8, <4>10
      <4> QED BY <4>9, <4>10
    <3> QED BY <1>1, <2>1, <2>2, <3>1, <3>2, <3>3, <3>4 DEF RowInv
  <2>6. (\A i \in Step \ {at[k]} : Shows(r, copy[k], i))'
    BY <2>1, <2>2, <2>3 DEF Exact, Shows
  <2>7. Cleared(copy[k])' /\ Paid(r, copy[k])' BY <2>1, <2>2 DEF Cleared, Paid
  <2>8. NeedsConfirmation(k)' = NeedsConfirmation(k) BY <2>1 DEF NeedsConfirmation
  <2>9. TaskInv(k)' BY <1>1, <1>5, <2>1, <2>2, <2>3, <2>6, <2>7, <2>8 DEF TaskInv
  <2> QED BY <1>1, <1>17, <2>1, <2>4, <2>5, <2>9, TaskFrame DEF ExecuteStart
<1>18. ASSUME NEW outcome \in {"succeeded", "failed"}, StepEnds(k, outcome),
              pc[k] = "executing" \/ (pc[k] = "ready" /\ outcome = "failed"),
              TaskOnly, UNCHANGED <<db, at, ran>>
       PROVE  SafetyInv'
  <2> DEFINE s == IF k \in canceled THEN "canceled" ELSE outcome
  <2>1. s \in Terminal /\ copy[k] \in Activity /\ at[k] \in Step /\ Paid(r, copy[k])
    BY <1>1, <1>18 DEF TaskShape, TaskInv
  <2>2. /\ copy'[k] = AfterStep(copy[k], at[k], s) /\ Others
        /\ pc'[k] = IF s = "succeeded" THEN "stepDone" ELSE "final"
    BY <1>1, <1>18 DEF StepEnds, TypeOK
  <2>3. s = "succeeded" => pc[k] = "executing" BY <1>18
  <2> HIDE DEF s
  <2>4. CASE s # "succeeded"
    <3>1. Ending(r, copy'[k]) BY <1>1, <2>1, <2>2, <2>4, StepEndsWell
    <3> QED BY <1>8, <1>18, <2>2, <2>4, <3>1
  <2>5. CASE s = "succeeded"
    <3> DEFINE c == [copy[k] EXCEPT !.steps[at[k]] = "succeeded"]
    <3>1. copy'[k] = c BY <1>1, <2>1, <2>2, <2>5, StepEndsWell
    <3>2. /\ c.auto = copy[k].auto /\ c.confirmed = copy[k].confirmed
          /\ c.runConfirmed = copy[k].runConfirmed /\ c.status = copy[k].status
          /\ c.steps = [copy[k].steps EXCEPT ![at[k]] = "succeeded"]
      BY <2>1 DEF Activity
    <3>3. \A i \in Step : c.steps[i] = IF i = at[k] THEN "succeeded" ELSE copy[k].steps[i]
      BY <2>1, <3>2 DEF Activity
    <3>4. /\ Cleared(copy[k]) /\ Paid(r, copy[k]) /\ copy[k].status = "running"
          /\ \A i \in Step \ {at[k]} : Shows(r, copy[k], i)
          /\ ran[r][at[k]] = 1 /\ ~NeedsConfirmation(k)
          /\ \A j \in Step : j < at[k] => copy[k].steps[j] = "succeeded"
      BY <1>1, <2>3, <2>5 DEF TaskInv
    <3>5. ASSUME NEW i \in Step PROVE Shows(r, c, i)
      <4>1. CASE i # at[k] BY <3>2, <3>3, <3>4, <4>1 DEF Shows
      <4>2. CASE i = at[k]
        <5>1. \A j \in Step : j < i => j # at[k] BY <2>1, <4>2, NumStepsAssumption DEF Step
        <5> QED BY <3>2, <3>3, <3>4, <4>2, <5>1 DEF Shows, NeedsConfirmation
      <4> QED BY <4>1, <4>2
    <3>6. Cleared(c) /\ Paid(r, c) BY <3>2, <3>4 DEF Cleared, Paid, PaidWith
    <3>7. \A j \in Step : j < at[k] => c.steps[j] = "succeeded" BY <3>3, <3>4
    <3>8. c.steps[at[k]] = "succeeded" BY <2>1, <3>3
    <3> HIDE DEF c
    <3>9. UNCHANGED <<db, active, ran, born, grants, of, op, canceled, at>> BY <1>18
    <3>10. Exact(r, copy[k])' /\ Cleared(copy[k])' /\ Paid(r, copy[k])'
      BY <3>1, <3>5, <3>6, <3>9 DEF Exact, Shows, Cleared, Paid
    <3>11. pc[k] = "executing" /\ pc'[k] = "stepDone" BY <2>2, <2>3, <2>5
    <3>12. TaskInv(k)' BY <1>5, <3>1, <3>2, <3>4, <3>7, <3>8, <3>9, <3>10, <3>11 DEF TaskInv
    <3> QED BY <1>2, <1>18, <2>2, <3>11, <3>12
  <2> QED BY <2>4, <2>5
<1>19. CASE ExecuteResult(k) BY <1>18, <1>19 DEF ExecuteResult
<1>20. CASE ExecuteRefused(k) BY <1>18, <1>20 DEF ExecuteRefused
<1>21. CASE ExecutePersistStep(k)
  <2>1. /\ pc[k] = "stepDone" /\ copy[k] \in Activity /\ at[k] \in Step /\ copy[k].status \in InFlight
        /\ Exact(r, copy[k]) /\ Paid(r, copy[k]) /\ Cleared(copy[k])
        /\ copy[k].steps[at[k]] = "succeeded"
        /\ \A j \in Step : j < at[k] => copy[k].steps[j] = "succeeded"
    BY <1>1, <1>21 DEF ExecutePersistStep, TaskShape, TaskInv
  <2>2. /\ pc'[k] = "loop" /\ at'[k] = at[k] + 1 /\ Others /\ Save(r, copy[k])
        /\ UNCHANGED <<active, ran, born, grants, of, op, canceled, copy>>
    BY <1>1, <1>21 DEF ExecutePersistStep, TypeOK
  <2>3. r \in Rows(InFlight)' BY <1>4, <2>1, <2>2
  <2>4. Exact(r, copy[k])' /\ Cleared(copy[k])' /\ Paid(r, copy[k])'
    BY <2>1, <2>2 DEF Exact, Shows, Cleared, Paid
  <2>5. \A j \in Step : j < at[k] + 1 => copy[k].steps[j] = "succeeded"
    <3>1. \A j \in Step : j < at[k] + 1 => j < at[k] \/ j = at[k]
      BY <2>1, NumStepsAssumption DEF Step
    <3> QED BY <2>1, <3>1
  <2>6. TaskInv(k)' BY <1>1, <2>1, <2>2, <2>3, <2>4, <2>5 DEF TaskInv
  <2> QED BY <1>3, <1>21, <2>1, <2>2, <2>6 DEF ExecutePersistStep
<1>22. CASE ExecuteComplete(k)
  <2>1. copy[k] \in Activity /\ Paid(r, copy[k]) /\ copy[k].status \in InFlight /\ pc[k] = "loop"
    BY <1>1, <1>22 DEF ExecuteComplete, TaskShape, TaskInv
  <2>2. copy'[k] = Closed(copy[k]) /\ pc'[k] = "final" /\ Others
    BY <1>1, <1>22 DEF ExecuteComplete, TypeOK
  <2>3. Ending(r, copy'[k]) BY <2>1, <2>2, ClosedFields DEF Ending, Paid, PaidWith
  <2> QED BY <1>8, <1>22, <2>1, <2>2, <2>3 DEF ExecuteComplete
<1>23. CASE ExecuteFinal(k)
  <2>1. /\ pc[k] \in {"final", "abandon"} /\ copy[k] \in Activity
        /\ Paid(r, copy[k]) /\ copy[k].status \in Terminal
    BY <1>1, <1>23 DEF ExecuteFinal, TaskShape, TaskInv
  <2>2. pc'[k] = "remove" /\ Others /\ Save(r, copy[k]) BY <1>1, <1>23 DEF ExecuteFinal, TypeOK
  <2>3. TaskInv(k)' BY <2>2 DEF TaskInv
  <2> QED BY <1>3, <1>23, <2>1, <2>2, <2>3 DEF ExecuteFinal
<1>24. CASE TaskError(k)
  <2> DEFINE d == [db[r] EXCEPT !.status = "failed"]
  <2>1. pc[k] = "error" /\ db[r] \in Activity /\ Paid(r, db[r])
    BY <1>1, <1>24 DEF TaskError, TaskInv, RowInv, Rows, TypeOK
  <2>2. pc'[k] = "remove" /\ Others /\ Save(r, d) BY <1>1, <1>24 DEF TaskError, TypeOK
  <2>3. d \in Activity /\ Paid(r, d) /\ d.status = "failed"
    BY <2>1, StatusType DEF Activity, Paid, PaidWith
  <2>4. TaskInv(k)' BY <2>2 DEF TaskInv
  <2> HIDE DEF d
  <2> QED BY <1>3, <1>24, <2>1, <2>2, <2>3, <2>4 DEF TaskError
<1>25. CASE TaskRemove(k)
  <2>1. /\ pc[k] = "remove" /\ pc'[k] = "gone" /\ Others
        /\ UNCHANGED <<db, born, ran, grants, of, op, canceled>>
        /\ active'[r] = active[r] \/ (active[r] = k /\ active'[r] = NoTicket)
        /\ \A s \in Run : s # r => active'[s] = active[s]
    BY <1>1, <1>25 DEF TaskRemove, TypeOK
  <2>2. \A s \in Run : s # r => SameFor(s) BY <2>1 DEF SameFor
  <2>3. RowInv(r)'
    <3>1. born[r] = NoRow => active[r] = NoTicket BY <1>1 DEF RowInv
    <3>2. born[r] = NoRow => active'[r] = active[r] BY <2>1, <3>1
    <3> QED BY <1>1, <2>1, <3>2, RowSame
  <2>4. TaskInv(k)' BY <2>1 DEF TaskInv
  <2> QED BY <1>1, <2>1, <2>2, <2>3, <2>4, TaskFrame
<1> QED BY <1>6, <1>7, <1>9, <1>10, <1>11, <1>12, <1>13, <1>14, <1>15, <1>16, <1>17, <1>19,
           <1>20, <1>21, <1>22, <1>23, <1>24, <1>25 DEF Task

LEMMA SafetyFailure == TypeInv /\ SafetyInv /\ Failure => SafetyInv'
<1> SUFFICES ASSUME TypeInv, SafetyInv, Failure PROVE SafetyInv' OBVIOUS
<1> USE DEF dbVars, taskVars, history
<1>1. ASSUME NEW k \in Ticket PROVE TaskInv(k) /\ (of[k] \in Run \/ pc[k] = "unspawned")
  BY DEF SafetyInv, TypeInv, TaskShape
<1>2. ASSUME NEW r \in Run PROVE RowInv(r) BY DEF SafetyInv
<1>3. CASE OpFails
  <2>1. op.pc # "idle" /\ op'.pc = "idle" BY <1>3 DEF OpFails, Idle
  <2>2. ASSUME NEW r \in Run PROVE RowInv(r)' BY <1>2, <1>3, RowSame DEF OpFails
  <2>3. ASSUME NEW k \in Ticket PROVE TaskInv(k)'
    BY <1>1, <1>3, <2>1, TaskSame, ParkedMeansIdle DEF OpFails, SameFor
  <2> QED BY <2>1, <2>2, <2>3 DEF SafetyInv, CallInv
<1>4. CASE Crash
  <2>1. \A k \in Ticket : pc'[k] \in {"unspawned", "gone"} /\ (pc'[k] = "unspawned" => pc[k] = "unspawned")
    BY <1>4 DEF Crash
  <2>2. \A r \in Run : active'[r] = NoTicket BY <1>4 DEF Crash
  <2>3. ASSUME NEW r \in Run PROVE RowInv(r)'
    <3>1. born[r] = NoRow => active'[r] = active[r] BY <1>2, <2>2 DEF RowInv
    <3> QED BY <1>2, <1>4, <3>1, RowSame DEF Crash
  <2>4. ASSUME NEW k \in Ticket PROVE TaskInv(k)'
    <3>1. at' = at BY <1>4 DEF Crash
    <3> QED BY <1>1, <2>1, <3>1 DEF TaskInv, Working, Holding, InStep, Between
  <2>5. CallInv' BY <1>4, <2>1 DEF Crash, CallInv, Idle
  <2> QED BY <2>3, <2>4, <2>5 DEF SafetyInv
<1>5. ASSUME NEW k \in Ticket, TaskFails(k) \/ TaskErrorFails(k) PROVE SafetyInv'
  <2> PICK r : r = of[k] OBVIOUS
  <2>1. /\ pc[k] \in {"start", "abandon", "parking", "begin", "stepDone", "final", "error"}
        /\ pc'[k] \in {"error", "remove"}
        /\ UNCHANGED <<dbVars, active, of, copy, at, canceled, op, history>>
        /\ \A j \in Ticket : j # k => pc'[j] = pc[j]
        /\ r \in Run
    BY <1>1, <1>5 DEF TaskFails, TaskErrorFails, Go, TypeInv, TypeOK
  <2>2. pc[k] \in Working BY <2>1 DEF Working, Holding
  <2>3. RowInv(r)' BY <1>2, <2>1, RowSame
  <2>4. TaskInv(k)'
    <3>1. r \in Rows(InFlight)' <=> r \in Rows(InFlight) BY <2>1 DEF Rows
    <3> QED BY <1>1, <2>1, <2>2, <3>1 DEF TaskInv, InStep, Between
  <2> QED BY <2>1, <2>2, <2>3, <2>4, TaskFrame DEF SameFor
<1> QED BY <1>3, <1>4, <1>5 DEF Failure

LEMMA SafetyStep == TypeInv /\ SafetyInv /\ [Next]_vars => SafetyInv'
<1> SUFFICES ASSUME TypeInv, SafetyInv, UNCHANGED vars PROVE SafetyInv'
  BY SafetyRequest, SafetyEnqueue, SafetyCalls, SafetyTask, SafetyFailure DEF Next, Operation
<1>1. ASSUME NEW r \in Run PROVE RowInv(r)' BY RowSame DEF SafetyInv, vars
<1>2. ASSUME NEW k \in Ticket PROVE TaskInv(k)'
  BY TaskSame DEF SafetyInv, TypeInv, TaskShape, SameFor, vars
<1>3. NoWorker(op.run) => NoWorker(op.run)' BY DEF NoWorker, vars
<1>4. CallInv' BY <1>3, CallSame DEF SafetyInv, CallInv, SameFor, vars
<1> QED BY <1>1, <1>2, <1>4 DEF SafetyInv

LEMMA Safe == Spec => [](TypeInv /\ SafetyInv)
BY TypeInit, TypeStep, SafetyInit, SafetyStep, PTL DEF Spec

\* No step of any activity is handed to its executor twice, whatever crashes,
\* confirmations, relaunches and failing writes there are.
THEOREM StepsRunAtMostOnce == Spec => []AtMostOnce
<1>1. SafetyInv => AtMostOnce BY DEF SafetyInv, RowInv, AtMostOnce
<1> QED BY <1>1, Safe, PTL

\* What needs a confirmation runs only on confirmations of its own.
THEOREM ConfirmedSeparately == Spec => []SeparateConfirmation
<1>1. SafetyInv => SeparateConfirmation BY DEF SafetyInv, RowInv, SeparateConfirmation
<1> QED BY <1>1, Safe, PTL

\* A working task is always the one its activity's cancel would find.
THEOREM CancelFindsTheTask == Spec => []CancelReachesTask
<1>1. SafetyInv => CancelReachesTask BY DEF SafetyInv, TaskInv, CancelReachesTask
<1> QED BY <1>1, Safe, PTL

-----------------------------------------------------------------------------
(* An action property.                                                     *)

LEMMA SaveAsks ==
    ASSUME TypeInv, NEW r \in Run, NEW s \in Run, NEW d \in Activity, Save(s, d),
           d.status # "awaitingConfirmation", ~Awaiting(r)
    PROVE  ~Awaiting(r)'
<1>1. db'[r] = db[r] \/ db'[r] = d BY DEF Save, TypeInv, TypeOK
<1> QED BY <1>1 DEF Awaiting

LEMMA ForgetAsks ==
    ASSUME NEW r \in Run, NEW gone, Forget(gone), ~Awaiting(r)
    PROVE  ~Awaiting(r)'
BY DEF Forget, Awaiting

\* No step makes an activity wait whose task was cancelled.
LEMMA CanceledStays ==
    ASSUME TypeInv, SafetyInv, [Next]_vars, NEW r \in Run, active[r] \in canceled, ~Awaiting(r)
    PROVE  ~Awaiting(r)'
<1> USE DEF dbVars, taskVars, history, TaskOnly
<1>1. CASE db' = db BY <1>1 DEF Awaiting
<1>2. CASE UNCHANGED vars BY <1>1, <1>2 DEF vars
<1>3. CASE Request
  <2>1. CASE ClearActivities BY <2>1, ForgetAsks DEF ClearActivities
  <2> QED BY <1>1, <1>3, <2>1
          DEF Request, Dispatch, RunNow, Test, StartEnqueue, ConfirmRead, CancelRead
<1>4. CASE Failure BY <1>1, <1>4 DEF Failure, OpFails, Crash, TaskFails, TaskErrorFails
<1>5. CASE Operation
  <2> PICK s : s = op.run OBVIOUS
  <2>1. CASE EnqueueInsert
    <3>1. s \in Run /\ Fresh(op.act)
      BY <2>1 DEF EnqueueInsert, TypeInv, OpShape, SafetyInv, CallInv
    <3>2. db'[r] = db[r] \/ db'[r] = op.act BY <2>1, <3>1 DEF EnqueueInsert, TypeInv, TypeOK
    <3> QED BY <3>1, <3>2 DEF Awaiting, Fresh
  <2>2. CASE EnqueuePersist
    <3>1. s \in Run /\ active[s] = NoTicket
      BY <2>2 DEF EnqueuePersist, TypeInv, OpShape, SafetyInv, CallInv
    <3>2. r # s BY <3>1, NullsAssumption DEF TypeInv, TypeOK
    <3>3. db'[r] = db[r] BY <2>2, <3>1, <3>2 DEF EnqueuePersist, Save, TypeInv, TypeOK
    <3> QED BY <3>3 DEF Awaiting
  <2>3. CASE EnqueuePrune BY <2>3, ForgetAsks DEF EnqueuePrune
  <2>4. CASE ConfirmPersist
    <3>1. s \in Run /\ Awaiting(s) /\ op.act = Confirmed(db[s]) /\ db[s] \in Activity
      BY <2>4 DEF ConfirmPersist, TypeInv, TypeOK, OpShape, SafetyInv, CallInv, Awaiting
    <3>2. op.act \in Activity /\ op.act.status = "queued" BY <3>1, ConfirmedFields, ConfirmedType
    <3> QED BY <2>4, <3>1, <3>2, SaveAsks DEF ConfirmPersist
  <2>5. CASE CancelDecide
    <3> DEFINE d == [op.act EXCEPT !.status = "canceled"]
    <3>1. s \in Run /\ op.act \in Activity BY <2>5 DEF CancelDecide, TypeInv, OpShape
    <3>2. d \in Activity /\ d.status = "canceled" BY <3>1, StatusType DEF Activity
    <3>3. db' = db \/ Save(s, d) BY <2>5 DEF CancelDecide
    <3> HIDE DEF d
    <3> QED BY <1>1, <3>1, <3>2, <3>3, SaveAsks
  <2>6. ASSUME NEW t \in Run, RecoverRow(t) PROVE ~Awaiting(r)'
    <3>1. db[t] \in Activity BY <2>6 DEF RecoverRow, Rows, TypeInv, TypeOK
    <3>2. Interrupted(db[t]) \in Activity /\ Interrupted(db[t]).status = "interrupted"
      BY <3>1, InterruptedType DEF Interrupted, Activity
    <3> QED BY <2>6, <3>2, SaveAsks DEF RecoverRow
  <2>7. CASE EnqueueCheck \/ EnqueueLaunch \/ ConfirmLaunch \/ RecoverDone
    BY <1>1, <2>7 DEF EnqueueCheck, EnqueueLaunch, ConfirmLaunch, RecoverDone
  <2> QED BY <1>5, <2>1, <2>2, <2>3, <2>4, <2>5, <2>6, <2>7 DEF Operation, Enqueue, Confirm, Recover
<1>6. ASSUME NEW k \in Ticket, Task(k) PROVE ~Awaiting(r)'
  <2> PICK s : s = of[k] OBVIOUS
  <2>1. pc[k] \in Working => /\ s \in Run /\ active[s] = k
                             /\ db[s] \in Activity
    BY DEF SafetyInv, TaskInv, TypeInv, TypeOK, TaskShape, Rows, Working, Holding
  <2>2. CASE ExecutePark(k)
    <3>1. k \notin canceled /\ s \in Run /\ active[s] = k
      BY <2>1, <2>2 DEF ExecutePark, SafetyInv, TaskInv, Working, Holding
    <3>2. r # s BY <3>1
    <3>3. db'[r] = db[r] BY <2>2, <3>1, <3>2 DEF ExecutePark, Save, TypeInv, TypeOK
    <3> QED BY <3>3 DEF Awaiting
  <2>3. CASE ExecutePersistBegin(k) \/ ExecutePersistStep(k) \/ ExecuteFinal(k)
    <3>1. pc[k] \in {"begin", "stepDone", "final", "abandon"} /\ Save(s, copy[k])
      BY <2>3 DEF ExecutePersistBegin, ExecutePersistStep, ExecuteFinal
    <3>2. s \in Run /\ copy[k] \in Activity
      BY <2>1, <3>1 DEF Working, Holding, TypeInv, TaskShape
    <3>3. copy[k].status # "awaitingConfirmation"
      BY <3>1 DEF SafetyInv, TaskInv, Between, InStep
    <3> QED BY <3>1, <3>2, <3>3, SaveAsks
  <2>4. CASE TaskError(k)
    <3> DEFINE d == [db[s] EXCEPT !.status = "failed"]
    <3>1. s \in Run /\ db[s] \in Activity /\ Save(s, d)
      BY <2>1, <2>4 DEF TaskError, Working
    <3>2. d \in Activity /\ d.status = "failed" BY <3>1, StatusType DEF Activity
    <3> HIDE DEF d
    <3> QED BY <3>1, <3>2, SaveAsks
  <2>5. CASE \/ ExecuteLoad(k) \/ ExecuteAcquire(k) \/ ExecuteGiveUp(k) \/ ExecuteSkipSucceeded(k)
             \/ ExecuteCanceled(k) \/ ExecuteAsk(k) \/ ExecuteGate(k) \/ ExecuteBegin(k)
             \/ ExecuteRecheck(k) \/ ExecuteStart(k) \/ ExecuteResult(k) \/ ExecuteRefused(k)
             \/ ExecuteComplete(k) \/ TaskRemove(k)
    BY <1>1, <2>5 DEF ExecuteLoad, ExecuteAcquire, ExecuteGiveUp, ExecuteSkipSucceeded,
         ExecuteCanceled, ExecuteAsk, ExecuteGate, ExecuteBegin, ExecuteRecheck, ExecuteStart,
         ExecuteResult, ExecuteRefused, ExecuteComplete, TaskRemove
  <2> QED BY <1>6, <2>2, <2>3, <2>4, <2>5 DEF Task
<1> QED BY <1>2, <1>3, <1>4, <1>5, <1>6 DEF Next

\* A cancelled activity never becomes a request for confirmation.
THEOREM CanceledNeverAsks == Spec => NoResurrection
<1>1. TypeInv /\ SafetyInv /\ [Next]_vars =>
        [\A r \in Run : active[r] \in canceled /\ ~Awaiting(r) => ~Awaiting(r)']_vars
  BY CanceledStays
<1> QED BY <1>1, Safe, PTL DEF Spec, NoResurrection

-----------------------------------------------------------------------------
(* AutomationEngine implements RunContract: every step of the engine is a  *)
(* step of the contract for one activity (for several when finished rows   *)
(* are removed), or changes nothing the contract speaks of.                *)

PhaseSame(r) == Phase(r)' = Phase(r)

LEMMA PhaseFromRow ==
    ASSUME NEW r \in Run, born'[r] = born[r], db'[r] = db[r]
    PROVE  PhaseSame(r)
BY DEF PhaseSame, Phase, Awaiting

\* One activity moves from one phase to another.
LEMMA MovesIntro ==
    ASSUME NEW r \in Run, NEW from, NEW to, Phase(r) \in from, Phase(r)' \in to,
           \A s \in Run : s # r => PhaseSame(s)
    PROVE  Contract!Moves(r, from, to)
<1> DEFINE f == [s \in Run |-> Phase(s)]
<1>1. f[r] \in from OBVIOUS
<1>2. f' = [f EXCEPT ![r] = Phase(r)'] BY DEF PhaseSame
<1> QED BY <1>1, <1>2 DEF Contract!Moves

LEMMA StutterIntro ==
    ASSUME \A s \in Run : PhaseSame(s), UNCHANGED <<born, ran, grants>>
    PROVE  UNCHANGED Contract!vars
BY DEF Contract!vars, PhaseSame

\* The row of r is replaced by one with another status.
LEMMA RowStep ==
    ASSUME TypeInv, NEW r \in Run, db[r] # NoRow, born[r] # NoRow, NEW d \in Activity,
           \/ Phase(r) = "open"
           \/ Phase(r) = "waiting" /\ d.status \in Terminal
           \/ Phase(r) = "closed" /\ d.status \in Terminal,
           Save(r, d), UNCHANGED <<born, ran, grants>>
    PROVE  [Contract!Next]_(Contract!vars)
<1>1. db'[r] = d /\ \A s \in Run : s # r => db'[s] = db[s] BY DEF Save, TypeInv, TypeOK
<1>2. \A s \in Run : s # r => PhaseSame(s) BY <1>1, PhaseFromRow
<1>3. d # NoRow BY NoRowAssumption
<1>4. Phase(r)' = IF d.status \in Terminal THEN "closed"
                  ELSE IF d.status = "awaitingConfirmation" THEN "waiting" ELSE "open"
  BY <1>1, <1>3 DEF Phase, Awaiting
<1>5. CASE Phase(r)' = Phase(r)
  <2>1. \A s \in Run : PhaseSame(s) BY <1>2, <1>5 DEF PhaseSame
  <2> QED BY <2>1, StutterIntro
<1>6. CASE Phase(r) \in {"open", "waiting"} /\ Phase(r)' = "closed"
  <2>1. Contract!Close(r) BY <1>2, <1>6, MovesIntro DEF Contract!Close
  <2> QED BY <2>1 DEF Contract!Next
<1>7. CASE Phase(r) = "open" /\ Phase(r)' = "waiting"
  <2>1. Contract!Ask(r) BY <1>2, <1>7, MovesIntro DEF Contract!Ask
  <2> QED BY <2>1 DEF Contract!Next
<1> QED BY <1>4, <1>5, <1>6, <1>7

LEMMA ForgetStep ==
    ASSUME SafetyInv, NEW gone \in SUBSET Rows(Terminal), Forget(gone), UNCHANGED <<born, ran, grants>>
    PROVE  [Contract!Next]_(Contract!vars)
<1> DEFINE f == [s \in Run |-> Phase(s)]
<1>1. gone \subseteq Run BY DEF Rows
<1>2. \A s \in gone : born[s] # NoRow /\ db[s] # NoRow /\ db[s].status \in Terminal
  BY DEF Rows, SafetyInv, RowInv
<1>3. \A s \in gone : f[s] = "closed" BY <1>1, <1>2 DEF Phase
<1>4. \A s \in Run : db'[s] = IF s \in gone THEN NoRow ELSE db[s] BY DEF Forget
<1>5. \A s \in gone : Phase(s)' = "gone" BY <1>1, <1>2, <1>4 DEF Phase
<1>6. \A s \in Run : s \notin gone => Phase(s)' = Phase(s) BY <1>4, PhaseFromRow DEF PhaseSame
<1>7. f' = [s \in Run |-> IF s \in gone THEN "gone" ELSE f[s]] BY <1>5, <1>6
<1>8. Contract!Forget(gone) BY <1>3, <1>7 DEF Contract!Forget
<1> QED BY <1>1, <1>8 DEF Contract!Next

LEMMA ContractInit == Init => Contract!Init
BY DEF Init, Contract!Init, Phase, Contract!Step, Step

LEMMA SameCardinality == \A S : Contract!Cardinality(S) = Cardinality(S)
BY DEF Contract!Cardinality, Cardinality

LEMMA DueIs ==
    ASSUME NEW j, NEW n
    PROVE  Contract!Due(j, 1 .. n)
             = Cardinality({i \in 1 .. n : <<j.auto, i>> \in Dangerous})
                 + (IF j.auto \in AskFirst /\ 1 .. n # {} THEN 1 ELSE 0)
BY SameCardinality DEF Contract!Due

LEMMA EnqueueStep ==
    TypeInv /\ SafetyInv /\ Enqueue => [Contract!Next]_(Contract!vars)
<1> SUFFICES ASSUME TypeInv, SafetyInv, Enqueue PROVE [Contract!Next]_(Contract!vars) OBVIOUS
<1> USE DEF dbVars, taskVars, history
<1> PICK r : r = op.run OBVIOUS
<1>1. ASSUME UNCHANGED <<db, born, ran, grants>> PROVE [Contract!Next]_(Contract!vars)
  BY <1>1, PhaseFromRow, StutterIntro
<1>2. CASE EnqueueCheck BY <1>1, <1>2 DEF EnqueueCheck
<1>3. CASE EnqueueInsert /\ IsDuplicate(op.act) BY <1>1, <1>3 DEF EnqueueInsert
<1>4. CASE EnqueueInsert /\ ~IsDuplicate(op.act)
  <2> DEFINE j == [auto |-> op.act.auto, event |-> op.act.event]
  <2>1. /\ r \in Run /\ op.act \in Activity /\ Fresh(op.act) /\ born[r] = NoRow
        /\ db' = [db EXCEPT ![r] = op.act] /\ born' = [born EXCEPT ![r] = j]
        /\ UNCHANGED <<ran, grants>>
    BY <1>4 DEF EnqueueInsert, TypeInv, OpShape, SafetyInv, CallInv
  <2>2. j \in Job BY <2>1 DEF Activity, Job
  <2>3. \A s \in Run : s # r => PhaseSame(s) BY <2>1, PhaseFromRow DEF TypeInv, TypeOK
  <2>4. Phase(r) = "unknown" BY <2>1 DEF Phase
  <2>5. db'[r] = op.act /\ born'[r] = j BY <2>1 DEF TypeInv, TypeOK
  <2>6. op.act # NoRow /\ j # NoRow BY <2>1, <2>2, NoRowAssumption
  <2>7. Phase(r)' \in {"open", "closed"} BY <2>1, <2>5, <2>6 DEF Phase, Awaiting, Fresh
  <2>8. Contract!Moves(r, {"unknown"}, {"open", "closed"}) BY <2>1, <2>3, <2>4, <2>7, MovesIntro
  <2>9. Contract!Accept(r) BY <2>1, <2>2, <2>8 DEF Contract!Accept
  <2> QED BY <2>1, <2>9 DEF Contract!Next
<1>5. CASE EnqueuePersist
  <2>1. /\ r \in Run /\ op.act \in Activity /\ Fresh(op.act) /\ born[r] # NoRow
        /\ db[r] = op.act \/ (db[r] = NoRow /\ op.act.status = "skipped")
    BY <1>5 DEF EnqueuePersist, TypeInv, OpShape, SafetyInv, CallInv
  <2>2. PICK act \in SnapshotOutcomes(op.act) : Save(r, act) BY <1>5 DEF EnqueuePersist
  <2>3. act \in Activity BY <2>1, SnapshotOutcomesType
  <2>4. UNCHANGED <<born, ran, grants>> BY <1>5 DEF EnqueuePersist
  <2>5. CASE op.act.status = "skipped"
    <3>1. act = op.act BY <2>5 DEF SnapshotOutcomes
    <3>2. db' = db BY <2>1, <2>2, <3>1 DEF Save, TypeInv, TypeOK
    <3> QED BY <1>1, <2>4, <3>2
  <2>6. CASE op.act.status = "queued"
    <3>1. db[r] # NoRow BY <2>1, <2>6, NoRowAssumption
    <3>2. Phase(r) = "open" BY <2>1, <2>6, <3>1 DEF Phase, Awaiting
    <3> QED BY <2>1, <2>2, <2>3, <2>4, <3>1, <3>2, RowStep
  <2> QED BY <2>1, <2>5, <2>6 DEF Fresh
<1>6. CASE EnqueueLaunch BY <1>1, <1>6 DEF EnqueueLaunch
<1>7. CASE EnqueuePrune BY <1>7, ForgetStep DEF EnqueuePrune
<1> QED BY <1>2, <1>3, <1>4, <1>5, <1>6, <1>7 DEF Enqueue

LEMMA CallsStep ==
    TypeInv /\ SafetyInv /\ (Confirm \/ CancelDecide \/ Recover)
        => [Contract!Next]_(Contract!vars)
<1> SUFFICES ASSUME TypeInv, SafetyInv, Confirm \/ CancelDecide \/ Recover
             PROVE  [Contract!Next]_(Contract!vars)
  OBVIOUS
<1> USE DEF dbVars, taskVars, history
<1> PICK r : r = op.run OBVIOUS
<1>1. ASSUME UNCHANGED <<db, born, ran, grants>> PROVE [Contract!Next]_(Contract!vars)
  BY <1>1, PhaseFromRow, StutterIntro
<1>2. CASE ConfirmPersist
  <2>1. r \in Run /\ Awaiting(r) /\ op.act = Confirmed(db[r]) /\ db[r] \in Activity
    BY <1>2 DEF ConfirmPersist, TypeInv, TypeOK, OpShape, SafetyInv, CallInv, Awaiting
  <2>2. born[r] # NoRow BY <2>1 DEF SafetyInv, RowInv, Awaiting
  <2>3. op.act \in Activity /\ op.act.status = "queued" BY <2>1, ConfirmedFields, ConfirmedType
  <2>4. /\ db' = [db EXCEPT ![r] = op.act] /\ grants' = [grants EXCEPT ![r] = @ + 1]
        /\ UNCHANGED <<born, ran>>
    BY <1>2, <2>1 DEF ConfirmPersist, Save, Awaiting
  <2>5. Phase(r) = "waiting" BY <2>1, <2>2 DEF Phase, Awaiting
  <2>6. db'[r] = op.act BY <2>1, <2>4 DEF TypeInv, TypeOK
  <2>7. Phase(r)' = "open" BY <2>2, <2>3, <2>4, <2>6, NoRowAssumption DEF Phase, Awaiting
  <2>8. \A s \in Run : s # r => PhaseSame(s) BY <2>4, PhaseFromRow DEF TypeInv, TypeOK
  <2>9. Contract!Approve(r) BY <2>1, <2>4, <2>5, <2>7, <2>8, MovesIntro DEF Contract!Approve
  <2> QED BY <2>1, <2>9 DEF Contract!Next
<1>3. CASE ConfirmLaunch BY <1>1, <1>3 DEF ConfirmLaunch
<1>4. CASE CancelDecide
  <2>1. r \in Run /\ op.act \in Activity /\ born[r] # NoRow /\ UNCHANGED <<born, ran, grants>>
    BY <1>4 DEF CancelDecide, TypeInv, OpShape, SafetyInv, CallInv
  <2>2. CASE db' = db BY <1>1, <2>1, <2>2
  <2>3. CASE db[r] # NoRow /\ Save(r, [op.act EXCEPT !.status = "canceled"])
    <3> DEFINE d == [op.act EXCEPT !.status = "canceled"]
    <3>1. d \in Activity /\ d.status \in Terminal BY <2>1, StatusType DEF Activity
    <3>2. Phase(r) \in {"open", "waiting", "closed"} BY <2>1, <2>3 DEF Phase
    <3> HIDE DEF d
    <3> QED BY <2>1, <2>3, <3>1, <3>2, RowStep DEF d
  <2> QED BY <1>4, <2>2, <2>3 DEF CancelDecide, Save
<1>5. CASE RecoverDone BY <1>1, <1>5 DEF RecoverDone
<1>6. ASSUME NEW s \in Run, RecoverRow(s) PROVE [Contract!Next]_(Contract!vars)
  <2>1. db[s] \in Activity /\ db[s] # NoRow /\ db[s].status \in InFlight
    BY <1>6 DEF RecoverRow, Rows, TypeInv, TypeOK
  <2>2. born[s] # NoRow BY <2>1 DEF SafetyInv, RowInv
  <2>3. Phase(s) = "open" BY <2>1, <2>2 DEF Phase, Awaiting
  <2>4. Interrupted(db[s]) \in Activity BY <2>1, InterruptedType
  <2> QED BY <1>6, <2>1, <2>2, <2>3, <2>4, RowStep DEF RecoverRow
<1> QED BY <1>2, <1>3, <1>4, <1>5, <1>6 DEF Confirm, Recover

LEMMA TaskStep ==
    ASSUME NEW k \in Ticket
    PROVE  TypeInv /\ SafetyInv /\ Task(k) => [Contract!Next]_(Contract!vars)
<1> SUFFICES ASSUME TypeInv, SafetyInv, Task(k) PROVE [Contract!Next]_(Contract!vars) OBVIOUS
<1> USE DEF TaskOnly, dbVars, history
<1> PICK r : r = of[k] OBVIOUS
<1>1. ASSUME UNCHANGED <<db, born, ran, grants>> PROVE [Contract!Next]_(Contract!vars)
  BY <1>1, PhaseFromRow, StutterIntro
<1>2. ASSUME pc[k] \in Working
      PROVE  /\ r \in Run /\ db[r] \in Activity /\ db[r] # NoRow /\ born[r] # NoRow
             /\ Phase(r) = "open"
  <2>1. r \in Rows(InFlight) BY <1>2 DEF SafetyInv, TaskInv
  <2>2. r \in Run /\ db[r] # NoRow /\ db[r] \in Activity BY <2>1 DEF Rows, TypeInv, TypeOK
  <2>3. born[r] # NoRow BY <2>2 DEF SafetyInv, RowInv
  <2> QED BY <2>1, <2>2, <2>3 DEF Phase, Awaiting, Rows
<1>3. CASE ExecuteStart(k)
  <2>1. /\ pc[k] = "ready" /\ at[k] \in Step /\ copy[k] \in Activity
        /\ ran' = [ran EXCEPT ![r][at[k]] = @ + 1] /\ UNCHANGED <<db, born, grants>>
    BY <1>3 DEF ExecuteStart, TypeInv, TaskShape, Holding
  <2>2. /\ r \in Run /\ born[r] # NoRow /\ Phase(r) = "open"
    BY <1>2, <2>1 DEF Working, Holding
  <2>3. /\ Exact(r, copy[k]) /\ Cleared(copy[k]) /\ Paid(r, copy[k]) /\ ~NeedsConfirmation(k)
        /\ copy[k].steps[at[k]] # "succeeded"
        /\ \A j \in Step : j < at[k] => copy[k].steps[j] = "succeeded"
    BY <2>1 DEF SafetyInv, TaskInv, InStep, Between
  <2>4. ran \in [Run -> [Step -> Nat]] /\ ran[r] \in [Step -> Nat] BY <2>2 DEF TypeInv, TypeOK
  <2>5. \A j \in Step : ran[r][j] = IF j < at[k] THEN 1 ELSE 0
    <3>1. ASSUME NEW j \in Step PROVE j < at[k] \/ j = at[k] \/ at[k] < j
      BY <2>1, NumStepsAssumption DEF Step
    <3>2. ASSUME NEW j \in Step PROVE ~(j < at[k]) => copy[k].steps[j] # "succeeded"
      BY <2>1, <2>3, <3>1 DEF Exact, Shows
    <3> QED BY <2>3, <3>2 DEF Exact, Shows
  <2>6. ran[r] = [j \in Step |-> IF j < at[k] THEN 1 ELSE 0] BY <2>4, <2>5
  <2>7. ran' = [ran EXCEPT ![r][at[k]] = 1]
    <3>1. ran[r][at[k]] = 0 BY <2>1, <2>5, NumStepsAssumption DEF Step
    <3> QED BY <2>1, <3>1
  <2>8. Contract!Due(born[r], 1 .. at[k]) <= grants[r]
    <3> DEFINE S == {i \in 1 .. at[k] : <<born[r].auto, i>> \in Dangerous}
    <3>1. PaidWith(copy[k], born[r], grants[r]) BY <2>3 DEF Paid
    <3>2. \A i \in 1 .. at[k] : i \in Step /\ (i < at[k] \/ i = at[k])
      BY <2>1, NumStepsAssumption DEF Step
    <3>3. S \subseteq copy[k].confirmed
      BY <2>3, <3>1, <3>2 DEF Exact, Shows, NeedsConfirmation, PaidWith
    <3>4. IsFiniteSet(copy[k].confirmed) /\ Cardinality(copy[k].confirmed) \in Nat
      BY <3>1, FS_CardinalityType DEF PaidWith
    <3>5. Cardinality(S) \in Nat /\ Cardinality(S) <= Cardinality(copy[k].confirmed)
      BY <3>3, <3>4, FS_Subset, FS_CardinalityType
    <3>6. born[r].auto \in AskFirst => copy[k].runConfirmed BY <2>3, <3>1 DEF Cleared, PaidWith
    <3>7. grants[r] \in Nat BY <2>2 DEF TypeInv, TypeOK
    <3>8. Cardinality(copy[k].confirmed) + (IF copy[k].runConfirmed THEN 1 ELSE 0) <= grants[r]
      BY <3>1 DEF PaidWith
    <3>9. Contract!Due(born[r], 1 .. at[k])
            = Cardinality(S) + (IF born[r].auto \in AskFirst THEN 1 ELSE 0)
      <4>1. 1 .. at[k] # {} BY <2>1, NumStepsAssumption DEF Step
      <4>2. Contract!Due(born[r], 1 .. at[k])
              = Cardinality(S) + (IF born[r].auto \in AskFirst /\ 1 .. at[k] # {} THEN 1 ELSE 0)
        BY DueIs
      <4> QED BY <4>1, <4>2
    <3> HIDE DEF S
    <3>10. CASE copy[k].runConfirmed BY <3>4, <3>5, <3>7, <3>8, <3>9, <3>10
    <3>11. CASE ~copy[k].runConfirmed BY <3>4, <3>5, <3>6, <3>7, <3>8, <3>9, <3>11
    <3> QED BY <3>10, <3>11
  <2>9. \A s \in Run : PhaseSame(s) BY <2>1, PhaseFromRow
  <2>10. Contract!Perform(r, at[k])
    BY <2>1, <2>2, <2>6, <2>7, <2>8, <2>9 DEF Contract!Perform, Contract!Step, Step, PhaseSame
  <2> QED BY <2>1, <2>2, <2>10 DEF Contract!Next, Contract!Step, Step
<1>4. ASSUME pc[k] \in Working, NEW d \in Activity, Save(r, d), UNCHANGED <<born, ran, grants>>
      PROVE  [Contract!Next]_(Contract!vars)
  BY <1>2, <1>4, RowStep
<1>5. CASE ExecutePark(k) \/ ExecutePersistBegin(k) \/ ExecutePersistStep(k) \/ ExecuteFinal(k)
  <2>1. pc[k] \in Working /\ copy[k] \in Activity /\ Save(r, copy[k]) /\ UNCHANGED <<born, ran, grants>>
    BY <1>5 DEF ExecutePark, ExecutePersistBegin, ExecutePersistStep, ExecuteFinal,
                TypeInv, TaskShape, Working, Holding
  <2> QED BY <1>4, <2>1
<1>6. CASE TaskError(k)
  <2>1. pc[k] \in Working BY <1>6 DEF TaskError, Working
  <2>2. [db[r] EXCEPT !.status = "failed"] \in Activity BY <1>2, <2>1, StatusType
  <2> QED BY <1>4, <1>6, <2>1, <2>2 DEF TaskError
<1>7. CASE TaskRemove(k) BY <1>1, <1>7 DEF TaskRemove
<1>8. CASE \/ ExecuteLoad(k) \/ ExecuteAcquire(k) \/ ExecuteGiveUp(k) \/ ExecuteSkipSucceeded(k)
           \/ ExecuteCanceled(k) \/ ExecuteAsk(k) \/ ExecuteGate(k) \/ ExecuteBegin(k)
           \/ ExecuteRecheck(k) \/ ExecuteResult(k) \/ ExecuteRefused(k) \/ ExecuteComplete(k)
  BY <1>1, <1>8 DEF ExecuteLoad, ExecuteAcquire, ExecuteGiveUp, ExecuteSkipSucceeded,
       ExecuteCanceled, ExecuteAsk, ExecuteGate, ExecuteBegin, ExecuteRecheck, ExecuteResult,
       ExecuteRefused, ExecuteComplete
<1> QED BY <1>3, <1>5, <1>6, <1>7, <1>8 DEF Task

LEMMA ContractStep == TypeInv /\ SafetyInv /\ [Next]_vars => [Contract!Next]_(Contract!vars)
<1> SUFFICES ASSUME TypeInv, SafetyInv, [Next]_vars PROVE [Contract!Next]_(Contract!vars) OBVIOUS
<1> USE DEF dbVars, taskVars, history
<1>1. ASSUME UNCHANGED <<db, born, ran, grants>> PROVE [Contract!Next]_(Contract!vars)
  BY <1>1, PhaseFromRow, StutterIntro
<1>2. CASE UNCHANGED vars BY <1>1, <1>2 DEF vars
<1>3. CASE Request
  <2>1. CASE ClearActivities BY <2>1, ForgetStep DEF ClearActivities
  <2> QED BY <1>1, <1>3, <2>1
          DEF Request, Dispatch, RunNow, Test, StartEnqueue, ConfirmRead, CancelRead
<1>4. CASE Failure BY <1>1, <1>4 DEF Failure, OpFails, Crash, TaskFails, TaskErrorFails
<1> QED BY <1>2, <1>3, <1>4, EnqueueStep, CallsStep, TaskStep DEF Next, Operation

\* The engine implements the contract of an activity.
THEOREM EngineImplementsContract == Spec => ImplementsContract
<1>1. TypeInv /\ SafetyInv /\ [Next]_vars => [Contract!Next]_(Contract!vars) BY ContractStep
<1> QED BY <1>1, ContractInit, Safe, PTL DEF Spec, ImplementsContract, Contract!Spec

-----------------------------------------------------------------------------
(* The limits that enqueue enforces although it reads the outstanding      *)
(* activities some awaits before it inserts its own: while a call holds    *)
(* the gate, nobody else can bring an activity into being, and those that  *)
(* there are can only end.                                                 *)

Outstanding == {"open", "waiting"}

LEMMA OutstandingRows ==
    ASSUME TypeInv, SafetyInv, NEW r \in Run
    PROVE  r \in Rows(Active) <=> Phase(r) \in Outstanding
<1>1. db[r] # NoRow => born[r] # NoRow /\ db[r] \in Activity
  BY DEF SafetyInv, RowInv, TypeInv, TypeOK
<1>2. db[r] # NoRow => db[r].status \in Status BY <1>1 DEF Activity
<1> QED BY <1>1, <1>2 DEF Rows, Phase, Awaiting, Outstanding

\* An activity that exists does not become outstanding again.
LEMMA ContractKeeps ==
    ASSUME [Contract!Next]_(Contract!vars), NEW r \in Run,
           Phase(r) # "unknown", Phase(r)' \in Outstanding
    PROVE  Phase(r) \in Outstanding
<1> DEFINE f == [s \in Run |-> Phase(s)]
<1> USE DEF Outstanding
<1>1. f[r] = Phase(r) /\ f'[r] = Phase(r)' OBVIOUS
<1> HIDE DEF f
<1>2. ASSUME NEW s \in Run, NEW from, NEW to, from \in SUBSET (Outstanding \cup {"unknown"}),
             to \in SUBSET {"open", "waiting", "closed"},
             f[s] \in from, \E p \in to : f' = [f EXCEPT ![s] = p]
      PROVE  Phase(r) \in Outstanding
  <2>1. CASE s = r BY <1>1, <1>2, <2>1
  <2>2. CASE s # r BY <1>1, <1>2, <2>2
  <2> QED BY <2>1, <2>2
<1>3. CASE f' = f BY <1>1, <1>3
<1>4. ASSUME NEW s \in Run, Contract!Accept(s) \/ Contract!Ask(s) \/ Contract!Approve(s) \/ Contract!Close(s)
      PROVE  Phase(r) \in Outstanding
  BY <1>2, <1>4 DEF Contract!Accept, Contract!Ask, Contract!Approve, Contract!Close, Contract!Moves, f
<1>5. ASSUME NEW S \in SUBSET Run, Contract!Forget(S) PROVE Phase(r) \in Outstanding
  <2>1. f' = [s \in Run |-> IF s \in S THEN "gone" ELSE f[s]] BY <1>5 DEF Contract!Forget, f
  <2> QED BY <1>1, <2>1
<1>6. ASSUME NEW s \in Run, NEW i \in Contract!Step, Contract!Perform(s, i)
      PROVE  Phase(r) \in Outstanding
  BY <1>3, <1>6 DEF Contract!Perform, f
<1> QED BY <1>3, <1>4, <1>5, <1>6 DEF Contract!Next, Contract!vars, f

\* Only EnqueueInsert brings an activity into being.
LEMMA OnlyInsertCreates ==
    ASSUME [Next]_vars, ~EnqueueInsert
    PROVE  born' = born
<1> USE DEF dbVars, taskVars, history, TaskOnly
<1>1. CASE UNCHANGED vars BY <1>1 DEF vars
<1>2. CASE Request
  BY <1>2 DEF Request, Dispatch, RunNow, Test, StartEnqueue, ConfirmRead, CancelRead, ClearActivities
<1>3. CASE Operation
  BY <1>3 DEF Operation, Enqueue, Confirm, Recover, EnqueueCheck, EnqueuePersist, EnqueueLaunch,
              EnqueuePrune, ConfirmPersist, ConfirmLaunch, CancelDecide, RecoverRow, RecoverDone
<1>4. CASE Failure BY <1>4 DEF Failure, OpFails, Crash, TaskFails, TaskErrorFails
<1>5. ASSUME NEW k \in Ticket, Task(k) PROVE born' = born
  BY <1>5 DEF Task, ExecuteLoad, ExecuteAcquire, ExecuteGiveUp, ExecuteSkipSucceeded,
              ExecuteCanceled, ExecuteAsk, ExecuteGate, ExecutePark, ExecuteBegin,
              ExecutePersistBegin, ExecuteRecheck, ExecuteStart, ExecuteResult, ExecuteRefused,
              ExecutePersistStep, ExecuteComplete, ExecuteFinal, TaskError, TaskRemove
<1> QED BY <1>1, <1>2, <1>3, <1>4, <1>5 DEF Next

\* Every other step can only end outstanding activities, and none changes its automation.
LEMMA OnlyInsertAdds ==
    ASSUME TypeInv, SafetyInv, TypeInv', SafetyInv', [Next]_vars, ~EnqueueInsert,
           NEW r \in Run, r \in Rows(Active)'
    PROVE  r \in Rows(Active) /\ db'[r].auto = db[r].auto
<1>1. born' = born BY OnlyInsertCreates
<1>2. Phase(r)' \in Outstanding
  <2>1. db'[r] # NoRow /\ db'[r].status \in Active BY DEF Rows
  <2>2. born'[r] # NoRow BY <2>1 DEF SafetyInv, RowInv
  <2> QED BY <2>1, <2>2 DEF Phase, Awaiting, Outstanding
<1>3. Phase(r) # "unknown" BY <1>1, <1>2 DEF Phase, Outstanding
<1>4. r \in Rows(Active) BY <1>2, <1>3, ContractStep, ContractKeeps, OutstandingRows
<1>5. Paid(r, db[r]) /\ Paid(r, db[r])'
  BY <1>4 DEF Rows, SafetyInv, RowInv
<1> QED BY <1>1, <1>4, <1>5 DEF Paid, PaidWith

-----------------------------------------------------------------------------
(* The inductive invariant: what EnqueueCheck saw still holds when the      *)
(* activity it made is inserted.                                            *)

Room(a) ==
    /\ \A r \in Rows(Active) : db[r].auto # a
    /\ Cardinality(Rows(Active)) < MaxActive

LimitInv ==
    /\ NoOverlap
    /\ OutstandingBound
    /\ op.pc = "insert" /\ op.act.status = "queued" => Room(op.act.auto)

LEMMA RowsFinite ==
    ASSUME NEW S, NEW T \in SUBSET Rows(S)
    PROVE  /\ IsFiniteSet(Rows(S)) /\ Cardinality(Rows(S)) \in Nat
           /\ Cardinality(T) \in Nat /\ Cardinality(T) <= Cardinality(Rows(S))
<1>1. Rows(S) \subseteq Run BY DEF Rows
<1>2. IsFiniteSet(Rows(S)) BY <1>1, LimitsAssumption, FS_Subset
<1>3. IsFiniteSet(T) /\ Cardinality(T) <= Cardinality(Rows(S)) BY <1>2, FS_Subset
<1> QED BY <1>2, <1>3, FS_CardinalityType

LEMMA LimitInit == Init => LimitInv
<1> SUFFICES ASSUME Init PROVE LimitInv OBVIOUS
<1>1. Rows(Active) = {} BY DEF Init, Rows
<1>2. op.pc = "idle" BY DEF Init, Idle
<1> QED BY <1>1, <1>2, FS_EmptySet, LimitsAssumption DEF LimitInv, NoOverlap, OutstandingBound

\* Where outstanding activities only end, everything that held for them still does.
LEMMA LimitKept ==
    ASSUME TypeInv, LimitInv,
           \A r \in Rows(Active)' : r \in Rows(Active) /\ db'[r].auto = db[r].auto
    PROVE  /\ NoOverlap' /\ OutstandingBound'
           /\ \A a : Room(a) => Room(a)'
<1>1. Rows(Active)' \in SUBSET Rows(Active) OBVIOUS
<1>2. /\ Cardinality(Rows(Active)) \in Nat
      /\ Cardinality(Rows(Active)') \in Nat
      /\ Cardinality(Rows(Active)') <= Cardinality(Rows(Active))
  BY <1>1, RowsFinite
<1>3. NoOverlap' BY DEF LimitInv, NoOverlap
<1>4. OutstandingBound' BY <1>2, LimitsAssumption DEF LimitInv, OutstandingBound
<1>5. ASSUME NEW a, Room(a) PROVE Room(a)' BY <1>2, <1>5, LimitsAssumption DEF Room
<1> QED BY <1>3, <1>4, <1>5

LEMMA LimitInsert ==
    TypeInv /\ SafetyInv /\ LimitInv /\ EnqueueInsert => LimitInv'
<1> SUFFICES ASSUME TypeInv, SafetyInv, LimitInv, EnqueueInsert PROVE LimitInv' OBVIOUS
<1> USE DEF dbVars
<1> PICK r : r = op.run OBVIOUS
<1>1. NextTarget.pc \in {"idle", "check"} BY DEF NextTarget, Idle
<1>2. op'.pc # "insert" BY <1>1 DEF EnqueueInsert, TypeInv, TypeOK, Call
<1>3. CASE IsDuplicate(op.act)
  <2>1. db' = db BY <1>3 DEF EnqueueInsert
  <2>2. Rows(Active)' = Rows(Active) BY <2>1 DEF Rows
  <2> QED BY <1>2, <2>1, <2>2 DEF LimitInv, NoOverlap, OutstandingBound
<1>4. CASE ~IsDuplicate(op.act)
  <2>1. /\ r \in Run /\ op.act \in Activity /\ Fresh(op.act) /\ born[r] = NoRow
        /\ op.pc = "insert"
    BY <1>4 DEF EnqueueInsert, TypeInv, OpShape, SafetyInv, CallInv
  <2>2. db[r] = NoRow BY <2>1 DEF SafetyInv, RowInv
  <2>3. db' = [db EXCEPT ![r] = op.act] BY <1>4 DEF EnqueueInsert
  <2>4. db'[r] = op.act /\ \A s \in Run : s # r => db'[s] = db[s]
    BY <2>1, <2>3 DEF TypeInv, TypeOK
  <2>5. op.act # NoRow BY <2>1, NoRowAssumption
  <2>6. CASE op.act.status = "queued"
    <3>1. Rows(Active)' = Rows(Active) \cup {r} BY <2>1, <2>4, <2>5, <2>6 DEF Rows
    <3>2. r \notin Rows(Active) BY <2>2 DEF Rows
    <3>3. Room(op.act.auto) BY <2>1, <2>6 DEF LimitInv
    <3>4. NoOverlap'
      <4> SUFFICES ASSUME NEW s \in Rows(Active)', NEW t \in Rows(Active)',
                          db'[s].auto = db'[t].auto
                   PROVE  s = t
        BY DEF NoOverlap
      <4>1. \A u \in Rows(Active) : u # r /\ db'[u] = db[u] BY <2>4, <3>2 DEF Rows
      <4> QED BY <2>4, <3>1, <3>3, <4>1 DEF Room, LimitInv, NoOverlap
    <3>5. OutstandingBound'
      <4>1. IsFiniteSet(Rows(Active)) /\ Cardinality(Rows(Active)) \in Nat BY RowsFinite
      <4>2. Cardinality(Rows(Active)') = Cardinality(Rows(Active)) + 1
        BY <3>1, <3>2, <4>1, FS_AddElement
      <4> QED BY <3>3, <4>1, <4>2, LimitsAssumption DEF Room, OutstandingBound
    <3> QED BY <1>2, <3>4, <3>5 DEF LimitInv
  <2>7. CASE op.act.status = "skipped"
    <3>1. Rows(Active)' = Rows(Active) BY <2>1, <2>2, <2>4, <2>5, <2>7 DEF Rows
    <3>2. \A u \in Rows(Active) : db'[u] = db[u] BY <2>2, <2>4 DEF Rows
    <3> QED BY <1>2, <3>1, <3>2 DEF LimitInv, NoOverlap, OutstandingBound
  <2> QED BY <2>1, <2>6, <2>7 DEF Fresh
<1> QED BY <1>3, <1>4

LEMMA LimitCheck ==
    TypeInv /\ LimitInv /\ EnqueueCheck => LimitInv'
<1> SUFFICES ASSUME TypeInv, LimitInv, EnqueueCheck PROVE LimitInv' OBVIOUS
<1>1. db' = db BY DEF EnqueueCheck, dbVars
<1>2. Rows(Active)' = Rows(Active) BY <1>1 DEF Rows
<1>3. PICK a \in op.todo, s \in Run :
        \E st \in Verdict(a, op.event, op.manual) :
           op' = [op EXCEPT !.pc = "insert", !.run = s, !.todo = @ \ {a},
                            !.act = NewActivity(a, op.event, st)]
  BY DEF EnqueueCheck
<1>4. PICK st \in Verdict(a, op.event, op.manual) :
        op' = [op EXCEPT !.pc = "insert", !.run = s, !.todo = @ \ {a},
                         !.act = NewActivity(a, op.event, st)]
  BY <1>3
<1>5. op'.act = NewActivity(a, op.event, st) BY <1>4 DEF TypeInv, TypeOK, Call
<1>6. op'.act.auto = a /\ op'.act.status = st BY <1>5 DEF NewActivity
<1>7. ASSUME st = "queued" PROVE Room(a)'
  <2>1. ~MustSkip(a, op.event) BY <1>7 DEF Verdict
  <2>2. Cardinality(Rows(Active)) \in Nat BY RowsFinite
  <2>3. Cardinality(Rows(Active)) < MaxActive BY <2>1, <2>2, LimitsAssumption DEF MustSkip
  <2>4. \A r \in Rows(Active) : db[r].auto # a BY <2>1 DEF MustSkip
  <2> QED BY <1>1, <1>2, <2>3, <2>4 DEF Room
<1> QED BY <1>1, <1>2, <1>6, <1>7 DEF LimitInv, NoOverlap, OutstandingBound

\* Nobody but EnqueueCheck prepares an insert.
LEMMA OthersPrepareNone ==
    ASSUME TypeInv, [Next]_vars, ~EnqueueCheck, ~EnqueueInsert, op'.pc = "insert"
    PROVE  op' = op
<1> USE DEF dbVars, taskVars, history, TaskOnly
<1>1. CASE UNCHANGED vars BY <1>1 DEF vars
<1>2. CASE Request
  BY <1>2 DEF Request, Dispatch, RunNow, Test, StartEnqueue, ConfirmRead, CancelRead,
              ClearActivities, Idle
<1>3. NextTarget.pc \in {"idle", "check"} BY DEF NextTarget, Idle
<1>4. CASE Operation
  <2>1. CASE EnqueuePersist
    <3>1. PICK act : op' = [op EXCEPT !.act = act, !.pc = IF act.status = "queued" THEN "launch" ELSE "prune"]
      BY <2>1 DEF EnqueuePersist
    <3> QED BY <3>1 DEF TypeInv, TypeOK, Call
  <2>2. CASE EnqueueLaunch BY <2>2 DEF EnqueueLaunch, TypeInv, TypeOK, Call
  <2>3. CASE EnqueuePrune BY <1>3, <2>3 DEF EnqueuePrune
  <2>4. CASE ConfirmPersist BY <2>4 DEF ConfirmPersist, TypeInv, TypeOK, Call
  <2>5. CASE ConfirmLaunch \/ CancelDecide \/ Recover
    BY <2>5 DEF ConfirmLaunch, CancelDecide, Recover, RecoverRow, RecoverDone, Idle
  <2> QED BY <1>4, <2>1, <2>2, <2>3, <2>4, <2>5 DEF Operation, Enqueue, Confirm
<1>5. CASE Failure BY <1>5 DEF Failure, OpFails, Crash, TaskFails, TaskErrorFails, Idle
<1>6. ASSUME NEW k \in Ticket, Task(k) PROVE op' = op
  BY <1>6 DEF Task, ExecuteLoad, ExecuteAcquire, ExecuteGiveUp, ExecuteSkipSucceeded,
              ExecuteCanceled, ExecuteAsk, ExecuteGate, ExecutePark, ExecuteBegin,
              ExecutePersistBegin, ExecuteRecheck, ExecuteStart, ExecuteResult, ExecuteRefused,
              ExecutePersistStep, ExecuteComplete, ExecuteFinal, TaskError, TaskRemove
<1> QED BY <1>1, <1>2, <1>4, <1>5, <1>6 DEF Next

LEMMA LimitStep ==
    TypeInv /\ SafetyInv /\ LimitInv /\ [Next]_vars => LimitInv'
<1> SUFFICES ASSUME TypeInv, SafetyInv, LimitInv, [Next]_vars PROVE LimitInv' OBVIOUS
<1>1. TypeInv' /\ SafetyInv' BY TypeStep, SafetyStep
<1>2. CASE EnqueueInsert BY <1>2, LimitInsert
<1>3. CASE EnqueueCheck BY <1>3, LimitCheck
<1>4. CASE ~EnqueueInsert /\ ~EnqueueCheck
  <2>1. \A r \in Rows(Active)' : r \in Rows(Active) /\ db'[r].auto = db[r].auto
    <3>1. Rows(Active)' \subseteq Run BY DEF Rows
    <3> QED BY <1>1, <1>4, <3>1, OnlyInsertAdds
  <2>2. op'.pc = "insert" => op' = op BY <1>4, OthersPrepareNone
  <2> QED BY <2>1, <2>2, LimitKept DEF LimitInv
<1> QED BY <1>2, <1>3, <1>4

LEMMA Limited == Spec => []LimitInv
BY LimitInit, LimitStep, Safe, PTL DEF Spec

\* Activities of one automation are never outstanding together.
THEOREM NeverOverlapping == Spec => []NoOverlap
<1>1. LimitInv => NoOverlap BY DEF LimitInv
<1> QED BY <1>1, Limited, PTL

\* There are never more outstanding activities than the limit.
THEOREM OutstandingWithinLimit == Spec => []OutstandingBound
<1>1. LimitInv => OutstandingBound BY DEF LimitInv
<1> QED BY <1>1, Limited, PTL

-----------------------------------------------------------------------------
(* How activities end: nothing runs behind a step that did not succeed,     *)
(* and nothing but a failing database call leaves an activity to nobody.    *)

(* Nothing runs behind a step that did not succeed.                        *)

Broken == {"failed", "canceled", "interrupted"}

\* The document shows as succeeded whatever comes before a step that ran.
Before(r, act) == \A i, j \in Step : i < j /\ ran[r][j] # 0 => act.steps[i] = "succeeded"

Clean(act) == \A i \in Step : act.steps[i] \notin Broken

StopsAt(r, act) == \A i, j \in Step : i < j /\ act.steps[i] \in Broken => ran[r][j] = 0

RowStop(r) ==
    db[r] # NoRow =>
       /\ StopsAt(r, db[r])
       /\ r \in Rows(Active) => Before(r, db[r]) /\ Clean(db[r])

TaskStop(k) ==
    LET r == of[k] IN
    /\ pc[k] \in InStep \cup Between \cup {"executing"} => Clean(copy[k])
    /\ pc[k] \in InStep \cup Between \cup {"executing", "final", "abandon"} => Before(r, copy[k])
    /\ pc[k] \in {"recheck", "ready"} =>
          \A j \in Step : j < at[k] => db[r].steps[j] = "succeeded"
    /\ pc[k] = "executing" => copy[k].steps[at[k]] # "succeeded"

\* cancel may write an old document, in which steps that ran are still running.
CallStop == op.pc = "cancel" => Clean(op.act)

StopInv ==
    /\ \A r \in Run : RowStop(r)
    /\ \A k \in Ticket : TaskStop(k)
    /\ CallStop

LEMMA BeforeStops ==
    ASSUME NEW r \in Run, NEW act \in Activity, Before(r, act)
    PROVE  StopsAt(r, act)
BY DEF Before, StopsAt, Broken

LEMMA CleanStops ==
    ASSUME NEW r \in Run, NEW act \in Activity, Clean(act)
    PROVE  StopsAt(r, act)
BY DEF Clean, StopsAt

\* A document that still shows what succeeded shows what comes before each step.
LEMMA BeforeKept ==
    ASSUME NEW r \in Run, NEW act \in Activity, NEW new \in Activity, Before(r, act),
           \A i \in Step : act.steps[i] = "succeeded" => new.steps[i] = "succeeded"
    PROVE  Before(r, new)
BY DEF Before

LEMMA RowStopSame ==
    ASSUME NEW r \in Run, RowStop(r), db'[r] = db[r] \/ db'[r] = NoRow, ran'[r] = ran[r]
    PROVE  RowStop(r)'
BY DEF RowStop, StopsAt, Before, Rows

LEMMA TaskStopSame ==
    ASSUME NEW k \in Ticket, TaskStop(k),
           pc'[k] = pc[k], of'[k] = of[k], copy'[k] = copy[k], at'[k] = at[k],
           pc[k] \in Working => SameFor(of[k])
    PROVE  TaskStop(k)'
BY DEF TaskStop, Before, Clean, SameFor, Working, Holding, InStep, Between

LEMMA StopInit == Init => StopInv
BY DEF Init, StopInv, RowStop, TaskStop, CallStop, InStep, Between, Idle

\* Only one row is written, by a call: tasks at work have rows of their own.
LEMMA CallWrites ==
    ASSUME TypeInv, SafetyInv, StopInv, UNCHANGED <<pc, of, copy, at, active, ran, born>>,
           grants' \in [Run -> Nat], NEW r \in Run, \A k \in Ticket : of[k] = r => pc[k] \notin Working,
           \A s \in Run : s # r => SameFor(s),
           RowStop(r)', CallStop'
    PROVE  StopInv'
<1>1. ASSUME NEW s \in Run PROVE RowStop(s)'
  BY <1>1, RowStopSame DEF StopInv, SameFor
<1>2. ASSUME NEW k \in Ticket PROVE TaskStop(k)'
  <2>1. TaskStop(k) /\ TaskInv(k) BY DEF StopInv, SafetyInv
  <2>2. pc[k] \in Working => of[k] \in Run BY <2>1 DEF TaskInv, Rows
  <2>3. pc[k] \in Working => SameFor(of[k]) BY <2>2
  <2> QED BY <2>1, <2>3, TaskStopSame
<1> QED BY <1>1, <1>2 DEF StopInv

\* Finished rows may be forgotten by anybody at any time.
LEMMA ForgetStops ==
    ASSUME TypeInv, SafetyInv, StopInv, NEW gone \in SUBSET Rows(Terminal), Forget(gone),
           UNCHANGED <<pc, of, copy, at, active, ran, born, grants>>, CallStop'
    PROVE  StopInv'
<1>1. \A s \in Run : db'[s] = db[s] \/ (s \in Rows(Terminal) /\ db'[s] = NoRow) BY DEF Forget
<1>2. \A s \in Rows(InFlight) : SameFor(s) BY <1>1 DEF Rows, SameFor
<1>3. ASSUME NEW s \in Run PROVE RowStop(s)' BY <1>1, RowStopSame DEF StopInv
<1>4. ASSUME NEW k \in Ticket PROVE TaskStop(k)'
  <2>1. TaskStop(k) /\ TaskInv(k) BY DEF StopInv, SafetyInv
  <2>2. pc[k] \in Working => SameFor(of[k]) BY <1>2, <2>1 DEF TaskInv
  <2> QED BY <2>1, <2>2, TaskStopSame
<1> QED BY <1>3, <1>4 DEF StopInv

LEMMA StopRequest == TypeInv /\ SafetyInv /\ StopInv /\ Request => StopInv'
<1> SUFFICES ASSUME TypeInv, SafetyInv, StopInv, Request PROVE StopInv' OBVIOUS
<1> USE DEF dbVars, taskVars, history
<1>1. ASSUME UNCHANGED <<dbVars, active, taskVars, history>>, CallStop' PROVE StopInv'
  <2>1. ASSUME NEW s \in Run PROVE RowStop(s)' BY <1>1, RowStopSame DEF StopInv
  <2>2. ASSUME NEW k \in Ticket PROVE TaskStop(k)'
    BY <1>1, TaskStopSame DEF StopInv, SameFor
  <2> QED BY <1>1, <2>1, <2>2 DEF StopInv
<1>2. ASSUME NEW targets, NEW e, NEW m, StartEnqueue(targets, e, m) PROVE StopInv'
  BY <1>1, <1>2 DEF StartEnqueue, CallStop, Idle
<1>3. ASSUME NEW r \in Run, ConfirmRead(r) PROVE StopInv'
  BY <1>1, <1>3 DEF ConfirmRead, CallStop, Idle
<1>4. ASSUME NEW r \in Run, CancelRead(r) PROVE StopInv'
  <2>1. op'.act = db[r] BY <1>4 DEF CancelRead, Idle
  <2>2. Clean(db[r]) BY <1>4 DEF StopInv, RowStop, CancelRead, Rows
  <2>3. CallStop' BY <2>1, <2>2 DEF CallStop, Clean
  <2> QED BY <1>1, <1>4, <2>3 DEF CancelRead
<1>5. CASE ClearActivities
  <2>1. CallStop' BY <1>5 DEF ClearActivities, StopInv, CallStop, Clean
  <2> QED BY <1>5, <2>1, ForgetStops DEF ClearActivities
<1> QED BY <1>2, <1>3, <1>4, <1>5 DEF Request, Dispatch, RunNow, Test

LEMMA ConfirmedShows ==
    ASSUME NEW act \in Activity
    PROVE  Confirmed(act).steps = act.steps
BY DEF Confirmed, Activity

LEMMA EndedShows ==
    ASSUME NEW act \in Activity, NEW s \in Status
    PROVE  [act EXCEPT !.status = s].steps = act.steps
BY DEF Activity

LEMMA StopEnqueue == TypeInv /\ SafetyInv /\ StopInv /\ Enqueue => StopInv'
<1> SUFFICES ASSUME TypeInv, SafetyInv, StopInv, Enqueue PROVE StopInv' OBVIOUS
<1> USE DEF dbVars, taskVars, history
<1>1. ASSUME NEW k \in Ticket PROVE TaskInv(k) /\ TaskStop(k) BY DEF SafetyInv, StopInv
<1>2. ASSUME NEW r \in Run PROVE RowInv(r) /\ RowStop(r) BY DEF SafetyInv, StopInv
<1>3. CallInv BY DEF SafetyInv
<1>4. NextTarget.pc # "cancel" BY DEF NextTarget, Idle
<1>5. CASE EnqueueCheck
  <2>1. op'.pc = "insert" BY <1>5 DEF EnqueueCheck, TypeInv, TypeOK, Call
  <2>2. CallStop' BY <2>1 DEF CallStop
  <2>3. ASSUME NEW s \in Run PROVE RowStop(s)' BY <1>2, <1>5, RowStopSame DEF EnqueueCheck
  <2>4. ASSUME NEW k \in Ticket PROVE TaskStop(k)'
    BY <1>1, <1>5, TaskStopSame DEF EnqueueCheck, SameFor
  <2> QED BY <2>2, <2>3, <2>4 DEF StopInv
<1>6. CASE EnqueueInsert
  <2> PICK r \in Run : r = op.run BY <1>6 DEF EnqueueInsert, TypeInv, OpShape
  <2>1. r \in Run /\ op.act \in Activity /\ Fresh(op.act) /\ born[r] = NoRow
    BY <1>3, <1>6 DEF EnqueueInsert, TypeInv, OpShape, CallInv
  <2>2. db[r] = NoRow /\ \A i \in Step : ran[r][i] = 0 BY <1>2, <2>1 DEF RowInv
  <2>3. CASE IsDuplicate(op.act)
    <3>1. op' = NextTarget /\ UNCHANGED <<dbVars, active, taskVars, history>>
      BY <1>6, <2>3 DEF EnqueueInsert
    <3>2. CallStop' BY <1>4, <3>1 DEF CallStop
    <3>3. ASSUME NEW s \in Run PROVE RowStop(s)' BY <1>2, <3>1, RowStopSame
    <3>4. ASSUME NEW k \in Ticket PROVE TaskStop(k)' BY <1>1, <3>1, TaskStopSame DEF SameFor
    <3> QED BY <3>2, <3>3, <3>4 DEF StopInv
  <2>4. CASE ~IsDuplicate(op.act)
    <3>1. /\ db' = [db EXCEPT ![r] = op.act]
          /\ born' = [born EXCEPT ![r] = [auto |-> op.act.auto, event |-> op.act.event]]
          /\ op' = [op EXCEPT !.pc = "persist"]
          /\ UNCHANGED <<active, taskVars, canceled, crashes, faults, history>>
      BY <1>6, <2>4 DEF EnqueueInsert
    <3>2. op'.pc = "persist" BY <3>1 DEF TypeInv, TypeOK, Call
    <3>3. CallStop' BY <3>2 DEF CallStop
    <3>4. db'[r] = op.act /\ \A s \in Run : s # r => SameFor(s)
      BY <2>1, <3>1 DEF TypeInv, TypeOK, SameFor
    <3>5. Clean(op.act) BY <2>1 DEF Clean, Fresh, Broken
    <3>6. RowStop(r)' BY <2>1, <2>2, <3>1, <3>4, <3>5 DEF RowStop, StopsAt, Before, Clean
    <3>7. ASSUME NEW s \in Run PROVE RowStop(s)'
      BY <1>2, <3>4, <3>6, RowStopSame DEF SameFor
    <3>8. ASSUME NEW k \in Ticket PROVE TaskStop(k)'
      <4>1. pc[k] \in Working => of[k] \in Run /\ of[k] # r BY <1>1, <2>2 DEF TaskInv, Rows
      <4>2. pc[k] \in Working => SameFor(of[k]) BY <3>4, <4>1
      <4> QED BY <1>1, <3>1, <4>2, TaskStopSame
    <3> QED BY <3>3, <3>7, <3>8 DEF StopInv
  <2> QED BY <2>3, <2>4
<1>7. CASE EnqueuePersist
  <2> PICK r \in Run : r = op.run BY <1>7 DEF EnqueuePersist, TypeInv, OpShape
  <2> PICK act \in SnapshotOutcomes(op.act) :
         /\ Save(op.run, act)
         /\ op' = [op EXCEPT !.act = act, !.pc = IF act.status = "queued" THEN "launch" ELSE "prune"]
    BY <1>7 DEF EnqueuePersist
  <2>1. r \in Run /\ op.act \in Activity /\ Fresh(op.act) /\ active[r] = NoTicket
        /\ \A i \in Step : ran[r][i] = 0
    BY <1>3, <1>7 DEF EnqueuePersist, TypeInv, OpShape, CallInv
  <2>2. \A i \in Step : act.steps[i] \in {"queued", "absent"}
    <3>1. CASE op.act.status \in Terminal BY <2>1, <3>1 DEF SnapshotOutcomes, Fresh
    <3>2. CASE op.act.status \notin Terminal
      <4>1. PICK n \in {NumSteps} \cup {i - 1 : i \in {j \in Step : <<op.act.auto, j>> \in QuickAction}} :
               act = Snapshotted(op.act, n)
        BY <3>2 DEF SnapshotOutcomes
      <4>2. act.steps = [i \in Step |-> IF i <= n THEN "queued" ELSE "absent"]
        BY <2>1, <4>1 DEF Snapshotted, Activity
      <4> QED BY <4>2
    <3> QED BY <3>1, <3>2
  <2>3. Clean(act) BY <2>2 DEF Clean, Broken
  <2>4. UNCHANGED <<born, active, taskVars, canceled, crashes, faults, history>>
    BY <1>7 DEF EnqueuePersist
  <2>5. db'[r] \in {act, NoRow} /\ \A s \in Run : s # r => SameFor(s)
    BY <2>1, <2>4 DEF Save, TypeInv, TypeOK, SameFor
  <2>6. RowStop(r)' BY <2>1, <2>3, <2>4, <2>5 DEF RowStop, StopsAt, Before, Clean
  <2>7. op'.pc # "cancel" BY DEF TypeInv, TypeOK, Call
  <2>8. CallStop' BY <2>7 DEF CallStop
  <2>9. \A k \in Ticket : of[k] = r => pc[k] \notin Working
    BY <1>1, <2>1, NullsAssumption DEF TaskInv
  <2>10. grants' \in [Run -> Nat] BY <2>4 DEF TypeInv, TypeOK
  <2> QED BY <2>1, <2>4, <2>5, <2>6, <2>8, <2>9, <2>10, CallWrites
<1>8. CASE EnqueueLaunch
  <2>1. PICK k \in Ticket : Launch(op.run, k) BY <1>8 DEF EnqueueLaunch
  <2>2. op'.pc = "prune" BY <1>8 DEF EnqueueLaunch, TypeInv, TypeOK, Call
  <2>3. CallStop' BY <2>2 DEF CallStop
  <2>4. ASSUME NEW s \in Run PROVE RowStop(s)' BY <1>2, <1>8, RowStopSame DEF EnqueueLaunch
  <2>5. ASSUME NEW j \in Ticket PROVE TaskStop(j)'
    <3>1. CASE j = k
      <4>1. pc'[j] = "start" BY <2>1, <3>1 DEF Launch, TypeInv, TypeOK
      <4> QED BY <4>1 DEF TaskStop, InStep, Between
    <3>2. CASE j # k
      <4>1. UNCHANGED <<pc[j], of[j], copy[j], at[j], db, born, ran, grants>>
        BY <1>8, <2>1, <3>2 DEF Launch, EnqueueLaunch, TypeInv, TypeOK
      <4> QED BY <1>1, <4>1 DEF TaskStop, Before, Clean
    <3> QED BY <3>1, <3>2
  <2> QED BY <2>3, <2>4, <2>5 DEF StopInv
<1>9. CASE EnqueuePrune
  <2>1. PICK gone \in SUBSET Rows(Terminal) : Forget(gone) BY <1>9 DEF EnqueuePrune
  <2>2. CallStop' BY <1>4, <1>9 DEF EnqueuePrune, CallStop
  <2> QED BY <1>9, <2>1, <2>2, ForgetStops DEF EnqueuePrune
<1> QED BY <1>5, <1>6, <1>7, <1>8, <1>9 DEF Enqueue

LEMMA StopCalls ==
    TypeInv /\ SafetyInv /\ StopInv /\ (Confirm \/ CancelDecide \/ Recover) => StopInv'
<1> SUFFICES ASSUME TypeInv, SafetyInv, StopInv, Confirm \/ CancelDecide \/ Recover
             PROVE  StopInv'
  OBVIOUS
<1> USE DEF dbVars, taskVars, history
<1>1. ASSUME NEW k \in Ticket PROVE TaskInv(k) /\ TaskStop(k) BY DEF SafetyInv, StopInv
<1>2. ASSUME NEW r \in Run PROVE RowInv(r) /\ RowStop(r) BY DEF SafetyInv, StopInv
<1>3. CallInv /\ CallStop BY DEF SafetyInv, StopInv
<1>4. CASE ConfirmPersist
  <2> PICK r \in Run : r = op.run BY <1>4 DEF ConfirmPersist, TypeInv, OpShape
  <2>1. r \in Run /\ op.act \in Activity /\ Awaiting(r) /\ op.act = Confirmed(db[r])
    BY <1>3, <1>4 DEF ConfirmPersist, TypeInv, OpShape, CallInv
  <2>2. db[r] \in Activity BY <2>1 DEF Awaiting, TypeInv, TypeOK
  <2>3. op.act.steps = db[r].steps BY <2>1, <2>2, ConfirmedShows
  <2>4. UNCHANGED <<born, active, taskVars, ran>> /\ op'.pc = "confirmLaunch"
        /\ grants' = [grants EXCEPT ![r] = @ + 1]
    BY <1>4 DEF ConfirmPersist, TypeInv, TypeOK, Call
  <2>5. db'[r] = op.act /\ \A s \in Run : s # r => SameFor(s)
    BY <1>4, <2>1, <2>4 DEF ConfirmPersist, Save, Awaiting, TypeInv, TypeOK, SameFor
  <2>6. StopsAt(r, db[r]) /\ Before(r, db[r]) /\ Clean(db[r])
    BY <1>2, <2>1 DEF RowStop, Awaiting, Rows
  <2>7. RowStop(r)' BY <2>3, <2>4, <2>5, <2>6 DEF RowStop, StopsAt, Before, Clean
  <2>8. CallStop' BY <2>4 DEF CallStop
  <2>9. \A k \in Ticket : of[k] = r => pc[k] \notin Working
    BY <1>1, <2>1 DEF TaskInv, Awaiting, Rows
  <2>10. grants' \in [Run -> Nat] BY <2>1, <2>4 DEF TypeInv, TypeOK
  <2> QED BY <2>1, <2>4, <2>5, <2>7, <2>8, <2>9, <2>10, CallWrites
<1>5. CASE ConfirmLaunch
  <2>1. PICK k \in Ticket : Launch(op.run, k) BY <1>5 DEF ConfirmLaunch
  <2>2. CallStop' BY <1>5 DEF ConfirmLaunch, CallStop, Idle
  <2>3. ASSUME NEW s \in Run PROVE RowStop(s)' BY <1>2, <1>5, RowStopSame DEF ConfirmLaunch
  <2>4. ASSUME NEW j \in Ticket PROVE TaskStop(j)'
    <3>1. CASE j = k
      <4>1. pc'[j] = "start" BY <2>1, <3>1 DEF Launch, TypeInv, TypeOK
      <4> QED BY <4>1 DEF TaskStop, InStep, Between
    <3>2. CASE j # k
      <4>1. UNCHANGED <<pc[j], of[j], copy[j], at[j], db, born, ran, grants>>
        BY <1>5, <2>1, <3>2 DEF Launch, ConfirmLaunch, TypeInv, TypeOK
      <4> QED BY <1>1, <4>1 DEF TaskStop, Before, Clean
    <3> QED BY <3>1, <3>2
  <2> QED BY <2>2, <2>3, <2>4 DEF StopInv
<1>6. CASE CancelDecide
  <2> PICK r \in Run : r = op.run BY <1>6 DEF CancelDecide, TypeInv, OpShape
  <2> DEFINE new == [op.act EXCEPT !.status = "canceled"]
  <2>1. r \in Run /\ op.act \in Activity /\ Clean(op.act)
    BY <1>3, <1>6 DEF CancelDecide, TypeInv, OpShape, CallStop
  <2>2. new \in Activity /\ new.status = "canceled" /\ new.steps = op.act.steps
    BY <2>1, StatusType, EndedShows DEF Activity
  <2>3. StopsAt(r, new) BY <2>1, <2>2, CleanStops DEF Clean
  <2>4. UNCHANGED <<born, active, taskVars, ran, grants>> /\ op' = Idle
        /\ (IF CancelWrites THEN Save(r, new) ELSE UNCHANGED db)
    BY <1>6 DEF CancelDecide
  <2> HIDE DEF new
  <2>5. CallStop' BY <2>4 DEF CallStop, Idle
  <2>6. CASE CancelWrites
    <3>1. Save(r, new) BY <2>4, <2>6
    <3>2. db'[r] \in {new, NoRow} /\ \A s \in Run : s # r => SameFor(s)
      BY <2>1, <2>4, <3>1 DEF Save, TypeInv, TypeOK, SameFor
    <3>3. RowStop(r)' BY <2>1, <2>2, <2>3, <2>4, <3>2 DEF RowStop, StopsAt, Rows
    <3>4. \A k \in Ticket : of[k] = r => pc[k] \notin Working
      BY <1>1, <1>3, <1>6, <2>6, NullsAssumption
      DEF CancelDecide, CancelWrites, CallInv, TaskInv, Awaiting, Rows
    <3>5. grants' \in [Run -> Nat] BY <2>4 DEF TypeInv, TypeOK
    <3> QED BY <2>1, <2>4, <2>5, <3>2, <3>3, <3>4, <3>5, CallWrites
  <2>7. CASE ~CancelWrites
    <3>1. UNCHANGED db BY <2>4, <2>7
    <3>2. ASSUME NEW s \in Run PROVE RowStop(s)' BY <1>2, <2>4, <3>1, RowStopSame
    <3>3. ASSUME NEW k \in Ticket PROVE TaskStop(k)'
      BY <1>1, <2>4, <3>1, TaskStopSame DEF SameFor
    <3> QED BY <2>5, <3>2, <3>3 DEF StopInv
  <2> QED BY <2>6, <2>7
<1>7. ASSUME NEW r \in Run, RecoverRow(r) PROVE StopInv'
  <2> DEFINE new == Interrupted(db[r])
  <2>1. db[r] \in Activity /\ Before(r, db[r]) BY <1>2, <1>7 DEF RecoverRow, Rows, RowStop, TypeInv, TypeOK
  <2>2. new \in Activity /\ new.status = "interrupted" BY <2>1, InterruptedType DEF Interrupted, Activity
  <2>3. \A i \in Step : db[r].steps[i] = "succeeded" => new.steps[i] = "succeeded"
    BY <2>1 DEF Interrupted, Activity
  <2>4. StopsAt(r, new) BY <2>1, <2>2, <2>3, BeforeKept, BeforeStops
  <2>5. UNCHANGED <<born, active, taskVars, op, ran, grants>> /\ Save(r, new)
    BY <1>7 DEF RecoverRow
  <2> HIDE DEF new
  <2>6. db'[r] \in {new, NoRow} /\ \A s \in Run : s # r => SameFor(s)
    BY <2>5 DEF Save, TypeInv, TypeOK, SameFor
  <2>7. RowStop(r)' BY <2>2, <2>4, <2>5, <2>6 DEF RowStop, StopsAt, Rows
  <2>8. \A k \in Ticket : pc[k] \notin Working
    BY <1>3, <1>7 DEF RecoverRow, CallInv, Working, Holding
  <2>9. CallStop' BY <1>3, <2>5 DEF CallStop, Clean
  <2>10. grants' \in [Run -> Nat] BY <2>5 DEF TypeInv, TypeOK
  <2> QED BY <2>5, <2>6, <2>7, <2>8, <2>9, <2>10, CallWrites
<1>8. CASE RecoverDone
  <2>1. CallStop' BY <1>8 DEF RecoverDone, CallStop, Idle
  <2>2. ASSUME NEW s \in Run PROVE RowStop(s)' BY <1>2, <1>8, RowStopSame DEF RecoverDone
  <2>3. ASSUME NEW k \in Ticket PROVE TaskStop(k)'
    BY <1>1, <1>8, TaskStopSame DEF RecoverDone, SameFor
  <2> QED BY <2>1, <2>2, <2>3 DEF StopInv
<1> QED BY <1>4, <1>5, <1>6, <1>7, <1>8 DEF Confirm, Recover

\* A task at work disturbs its own activity only.
LEMMA StopFrame ==
    ASSUME TypeInv, SafetyInv, StopInv, NEW k \in Ticket, NEW r \in Run, r = of[k],
           pc[k] \in Working, UNCHANGED <<of, op, active, born, grants>>,
           \A j \in Ticket : j # k => pc'[j] = pc[j] /\ copy'[j] = copy[j] /\ at'[j] = at[j],
           \A s \in Run : s # r => db'[s] = db[s] /\ ran'[s] = ran[s],
           RowStop(r)', TaskStop(k)'
    PROVE  StopInv'
<1>1. ASSUME NEW s \in Run PROVE RowStop(s)' BY <1>1, RowStopSame DEF StopInv
<1>2. ASSUME NEW j \in Ticket PROVE TaskStop(j)'
  <2>1. CASE j = k BY <2>1
  <2>2. CASE j # k
    <3>1. TaskStop(j) /\ TaskInv(j) /\ TaskInv(k) BY DEF StopInv, SafetyInv
    <3>2. pc[j] \in Working => of[j] \in Run /\ of[j] # r BY <2>2, <3>1 DEF TaskInv, Rows
    <3>3. pc[j] \in Working => SameFor(of[j]) BY <3>2 DEF SameFor
    <3> QED BY <2>2, <3>1, <3>3, TaskStopSame
  <2> QED BY <2>1, <2>2
<1>3. CallStop' BY DEF StopInv, CallStop, Clean
<1> QED BY <1>1, <1>2, <1>3 DEF StopInv

LEMMA ClosedShows ==
    ASSUME NEW act \in Activity, NEW i \in Step, act.steps[i] = "succeeded"
    PROVE  Closed(act).steps[i] = "succeeded" /\ Canceled(act).steps[i] = "succeeded"
BY DEF Closed, Canceled, Activity

\* What a step leaves in the copy, if no later step ran yet.
LEMMA AfterStepShows ==
    ASSUME NEW act \in Activity, NEW i \in Step, NEW s \in Terminal, NEW r \in Run,
           Before(r, act), act.steps[i] # "succeeded"
    PROVE  /\ Before(r, AfterStep(act, i, s))
           /\ s = "succeeded" /\ Clean(act) => Clean(AfterStep(act, i, s))
<1> DEFINE ended == [act EXCEPT !.steps[i] = s]
           last == [ended EXCEPT !.status = s]
<1>1. ended \in Activity /\ last \in Activity /\ last.steps = ended.steps
  BY StepType, StatusType DEF Activity
<1>2. \A j \in Step : ended.steps[j] = IF j = i THEN s ELSE act.steps[j] BY DEF Activity
<1>3. Before(r, ended)
  <2>1. \A j \in Step : act.steps[j] = "succeeded" => ended.steps[j] = "succeeded" BY <1>2
  <2> HIDE DEF ended
  <2> QED BY <1>1, <2>1, BeforeKept
<1>4. Before(r, last) BY <1>1, <1>3 DEF Before
<1>5. Closed(last) \in Activity BY <1>1, ClosedType
<1>6. Before(r, Closed(last)) BY <1>1, <1>4, <1>5, ClosedShows, BeforeKept
<1>7. s = "succeeded" /\ Clean(act) => Clean(ended) BY <1>2 DEF Clean, Broken
<1> QED BY <1>3, <1>6, <1>7 DEF AfterStep

LEMMA ExactBefore ==
    ASSUME NEW r \in Run, NEW act \in Activity, Exact(r, act)
    PROVE  Before(r, act)
BY DEF Exact, Shows, Before

LEMMA StopTask == ASSUME NEW k \in Ticket PROVE TypeInv /\ SafetyInv /\ StopInv /\ Task(k) => StopInv'
<1> SUFFICES ASSUME TypeInv, SafetyInv, StopInv, Task(k) PROVE StopInv' OBVIOUS
<1> USE DEF Go, TaskOnly, InStep, Between
<1>1. /\ db \in [Run -> Activity \cup {NoRow}] /\ pc \in [Ticket -> TaskPc]
      /\ copy \in [Ticket -> Activity \cup {NoRow}] /\ at \in [Ticket -> 1 .. NumSteps + 1]
      /\ ran \in [Run -> [Step -> Nat]]
  BY DEF TypeInv, TypeOK
<1>2. TaskInv(k) /\ TaskStop(k) BY DEF SafetyInv, StopInv
<1>3. pc[k] # "unspawned" BY DEF Task, ExecuteLoad, ExecuteAcquire, ExecuteGiveUp,
    ExecuteSkipSucceeded, ExecuteCanceled, ExecuteAsk, ExecuteGate, ExecutePark, ExecuteBegin,
    ExecutePersistBegin, ExecuteRecheck, ExecuteStart, ExecuteResult, ExecuteRefused,
    ExecutePersistStep, ExecuteComplete, ExecuteFinal, TaskError, TaskRemove, InLoop
<1>4. PICK r \in Run : r = of[k] BY <1>3 DEF TypeInv, TaskShape
<1>5. RowInv(r) /\ RowStop(r) BY DEF SafetyInv, StopInv
<1>6. pc[k] \in InStep \cup Between \cup {"executing", "final", "abandon"} =>
         copy[k] \in Activity
  BY DEF TypeInv, TaskShape, Holding
<1>7. pc[k] \in Working => /\ db[r] \in Activity /\ Before(r, db[r]) /\ Clean(db[r])
                            /\ r \in Rows(InFlight)
  BY <1>1, <1>2, <1>4, <1>5 DEF TaskInv, RowStop, Rows
<1>8. pc[k] \in InStep \cup {"executing", "stepDone"} => at[k] \in Step
  BY DEF TypeInv, TaskShape
<1>9. ASSUME UNCHANGED <<of, op, active, born, grants, db, ran>>, pc[k] \in Working,
             \A j \in Ticket : j # k => pc'[j] = pc[j] /\ copy'[j] = copy[j] /\ at'[j] = at[j],
             TaskStop(k)'
      PROVE  StopInv'
  <2>1. RowStop(r)' BY <1>5, <1>9, RowStopSame
  <2> QED BY <1>4, <1>9, <2>1, StopFrame
<1>10. ASSUME UNCHANGED <<of, op, active, born, grants, copy, ran>>, pc[k] \in Working,
              NEW act \in Activity, Save(r, act), StopsAt(r, act),
              act.status \in Active => Before(r, act) /\ Clean(act),
              \A j \in Ticket : j # k => pc'[j] = pc[j] /\ at'[j] = at[j],
              TaskStop(k)'
       PROVE  StopInv'
  <2>1. db'[r] = act /\ \A s \in Run : s # r => db'[s] = db[s] BY <1>1, <1>7, <1>10, NoRowAssumption DEF Save
  <2>2. RowStop(r)' BY <1>10, <2>1 DEF RowStop, StopsAt, Before, Clean, Rows
  <2> QED BY <1>4, <1>10, <2>1, <2>2, StopFrame
<1>11. CASE ExecuteLoad(k)
  <2>1. db[r] \in Activity BY <1>7, <1>11 DEF ExecuteLoad, Working
  <2>2. pc' = [pc EXCEPT ![k] = "acquire"] /\ copy' = [copy EXCEPT ![k] = db[r]]
    BY <1>4, <1>11, <2>1, NoRowAssumption DEF ExecuteLoad
  <2>3. TaskStop(k)' BY <1>1, <1>4, <1>7, <1>11, <2>2 DEF ExecuteLoad, TaskStop, Before, Clean, Working
  <2> QED BY <1>1, <1>9, <1>11, <2>2, <2>3 DEF ExecuteLoad, Working
<1>12. CASE ExecuteAcquire(k)
  <2>1. TaskStop(k)' BY <1>1, <1>2, <1>12 DEF ExecuteAcquire, TaskStop, Before, Clean
  <2> QED BY <1>1, <1>9, <1>12, <2>1 DEF ExecuteAcquire, Working
<1>13. CASE ExecuteGiveUp(k)
  <2>1. copy'[k].steps = copy[k].steps /\ pc'[k] = "abandon"
    BY <1>1, <1>6, <1>13, EndedShows DEF ExecuteGiveUp
  <2>2. TaskStop(k)' BY <1>2, <1>13, <2>1 DEF ExecuteGiveUp, TaskStop, Before
  <2> QED BY <1>1, <1>9, <1>13, <2>2 DEF ExecuteGiveUp, Working
<1>14. CASE ExecuteSkipSucceeded(k)
  <2>1. TaskStop(k)' BY <1>2, <1>14 DEF ExecuteSkipSucceeded, InLoop, TaskStop, Before, Clean
  <2> QED BY <1>1, <1>9, <1>14, <2>1 DEF ExecuteSkipSucceeded, InLoop, Working, Holding
<1>15. ASSUME UNCHANGED <<of, op, active, born, grants, db, ran, at>>, pc[k] \in Holding,
              pc[k] \in InStep \cup Between, copy' = [copy EXCEPT ![k] = Canceled(@)],
              pc' = [pc EXCEPT ![k] = "final"]
       PROVE  StopInv'
  <2>1. copy[k] \in Activity /\ Before(r, copy[k]) BY <1>2, <1>4, <1>6, <1>15 DEF TaskStop
  <2>2. Before(r, Canceled(copy[k])) BY <2>1, CanceledType, ClosedShows, BeforeKept
  <2>3. TaskStop(k)' BY <1>1, <1>4, <1>15, <2>2 DEF TaskStop, Before
  <2> QED BY <1>1, <1>9, <1>15, <2>3 DEF Working
<1>16. CASE ExecuteCanceled(k) BY <1>15, <1>16 DEF ExecuteCanceled, InLoop, Holding
<1>17. CASE ExecuteAsk(k)
  <2>1. TaskStop(k)' BY <1>1, <1>2, <1>17 DEF ExecuteAsk, InLoop, TaskStop, Before, Clean
  <2> QED BY <1>1, <1>9, <1>17, <2>1 DEF ExecuteAsk, InLoop, Working, Holding
<1>18. ASSUME NEW s \in {"awaitingConfirmation", "running"}, NEW p \in {"parking", "begin"},
              pc[k] \in {"loop", "gate"}, at[k] \in Step, copy[k].steps[at[k]] # "succeeded",
              UNCHANGED <<of, op, active, born, grants, db, ran, at>>,
              copy' = [copy EXCEPT ![k] = [copy[k] EXCEPT !.status = s, !.steps[at[k]] = s]],
              pc' = [pc EXCEPT ![k] = p]
       PROVE  StopInv'
  <2> DEFINE new == [copy[k] EXCEPT !.status = s, !.steps[at[k]] = s]
  <2>1. copy[k] \in Activity /\ Before(r, copy[k]) /\ Clean(copy[k])
    BY <1>2, <1>4, <1>6, <1>18 DEF TaskStop
  <2>2. new \in Activity BY <1>18, <2>1, StepType
  <2>3. \A i \in Step : new.steps[i] = IF i = at[k] THEN s ELSE copy[k].steps[i]
    BY <1>18, <2>1 DEF Activity
  <2>4. Before(r, new)
    <3>1. \A i \in Step : copy[k].steps[i] = "succeeded" => new.steps[i] = "succeeded"
      BY <1>18, <2>3
    <3> HIDE DEF new
    <3> QED BY <2>1, <2>2, <3>1, BeforeKept
  <2>5. Clean(new) BY <2>1, <2>3 DEF Clean, Broken
  <2>6. copy'[k] = new /\ pc'[k] = p BY <1>1, <1>18
  <2> HIDE DEF new
  <2>7. TaskStop(k)' BY <1>4, <1>18, <2>4, <2>5, <2>6 DEF TaskStop, Before, Clean
  <2> QED BY <1>1, <1>9, <1>18, <2>7 DEF Working, Holding
<1>19. CASE ExecuteGate(k)
  <2>1. CASE k \in canceled BY <1>15, <1>19, <2>1 DEF ExecuteGate, Holding
  <2>2. CASE k \notin canceled
    <3>1. /\ copy' = [copy EXCEPT ![k] = [copy[k] EXCEPT !.status = "awaitingConfirmation",
                                             !.steps[at[k]] = "awaitingConfirmation"]]
          /\ pc' = [pc EXCEPT ![k] = "parking"] /\ pc[k] = "gate"
          /\ UNCHANGED <<of, op, active, born, grants, db, ran, at>>
      BY <1>19, <2>2 DEF ExecuteGate
    <3>2. at[k] \in Step /\ copy[k].steps[at[k]] # "succeeded" BY <1>2, <1>8, <3>1 DEF TaskInv
    <3> QED BY <1>18, <3>1, <3>2
  <2> QED BY <2>1, <2>2
<1>20. CASE ExecutePark(k)
  <2>1. copy[k] \in Activity /\ Before(r, copy[k]) /\ Clean(copy[k]) /\ Save(r, copy[k])
    BY <1>2, <1>4, <1>6, <1>20 DEF ExecutePark, TaskStop
  <2>2. TaskStop(k)' BY <1>1, <1>20 DEF ExecutePark, TaskStop
  <2> QED BY <1>1, <1>10, <1>20, <2>1, <2>2, BeforeStops DEF ExecutePark, Working, Holding
<1>21. CASE ExecuteBegin(k)
  <2>1. /\ copy' = [copy EXCEPT ![k] = [copy[k] EXCEPT !.status = "running",
                                           !.steps[at[k]] = "running"]]
        /\ pc' = [pc EXCEPT ![k] = "begin"] /\ pc[k] = "loop"
        /\ UNCHANGED <<of, op, active, born, grants, db, ran, at>>
        /\ at[k] \in Step /\ copy[k].steps[at[k]] # "succeeded"
    BY <1>21 DEF ExecuteBegin, InLoop, IsDone
  <2> QED BY <1>18, <2>1
<1>22. CASE ExecutePersistBegin(k)
  <2>1. copy[k] \in Activity /\ Before(r, copy[k]) /\ Clean(copy[k]) /\ Save(r, copy[k])
        /\ \A j \in Step : j < at[k] => copy[k].steps[j] = "succeeded"
    BY <1>2, <1>4, <1>6, <1>22 DEF ExecutePersistBegin, TaskStop, TaskInv
  <2>2. db'[r] = copy[k] /\ pc'[k] = "recheck"
    BY <1>1, <1>7, <1>22, <2>1, NoRowAssumption DEF ExecutePersistBegin, Save, Working, Holding
  <2>3. TaskStop(k)' BY <1>4, <1>22, <2>1, <2>2 DEF ExecutePersistBegin, TaskStop, Before, Clean
  <2> QED BY <1>1, <1>10, <1>22, <2>1, <2>3, BeforeStops DEF ExecutePersistBegin, Working, Holding
<1>23. CASE ExecuteRecheck(k)
  <2>1. CASE k \in canceled BY <1>15, <1>23, <2>1 DEF ExecuteRecheck, Holding
  <2>2. CASE k \notin canceled
    <3>1. TaskStop(k)' BY <1>1, <1>2, <1>23, <2>2 DEF ExecuteRecheck, TaskStop, Before, Clean
    <3> QED BY <1>1, <1>9, <1>23, <2>2, <3>1 DEF ExecuteRecheck, Working, Holding
  <2> QED BY <2>1, <2>2
<1>24. CASE ExecuteStart(k)
  <2>1. at[k] \in Step /\ pc[k] = "ready" /\ pc' = [pc EXCEPT ![k] = "executing"]
        /\ ran' = [ran EXCEPT ![r][at[k]] = @ + 1]
        /\ UNCHANGED <<active, of, canceled, op, born, grants, db, copy, at>>
    BY <1>4, <1>8, <1>24 DEF ExecuteStart
  <2>2. \A i \in Step : i # at[k] => ran'[r][i] = ran[r][i] BY <1>1, <2>1
  <2>3. \A j \in Step : j < at[k] => db[r].steps[j] = "succeeded" /\ copy[k].steps[j] = "succeeded"
    BY <1>2, <1>4, <2>1 DEF TaskStop, TaskInv
  <2>4. Before(r, db[r]) /\ Clean(db[r]) /\ Before(r, copy[k]) /\ Clean(copy[k])
        /\ copy[k].steps[at[k]] # "succeeded"
    BY <1>2, <1>4, <1>7, <2>1 DEF Working, Holding, TaskStop, TaskInv
  <2>5. Before(r, db[r])' /\ Before(r, copy[k])' BY <2>1, <2>2, <2>3, <2>4 DEF Before
  <2>6. RowStop(r)' BY <2>1, <2>4, <2>5 DEF RowStop, StopsAt, Clean
  <2>7. TaskStop(k)' BY <1>1, <1>4, <2>1, <2>4, <2>5 DEF TaskStop, Clean, Before
  <2>8. \A s \in Run : s # r => ran'[s] = ran[s] BY <1>1, <2>1
  <2> QED BY <1>1, <1>4, <2>1, <2>6, <2>7, <2>8, StopFrame DEF Working, Holding
<1>25. ASSUME NEW outcome \in {"succeeded", "failed"}, StepEnds(k, outcome),
              pc[k] \in {"ready", "executing"}, TaskOnly, UNCHANGED <<db, at, ran>>
       PROVE  StopInv'
  <2> DEFINE s == IF k \in canceled THEN "canceled" ELSE outcome
  <2>1. copy[k] \in Activity /\ at[k] \in Step /\ Before(r, copy[k]) /\ Clean(copy[k])
        /\ copy[k].steps[at[k]] # "succeeded"
    BY <1>2, <1>4, <1>6, <1>8, <1>25 DEF TaskStop, TaskInv
  <2>2. copy'[k] = AfterStep(copy[k], at[k], s)
        /\ pc'[k] = IF s = "succeeded" THEN "stepDone" ELSE "final"
    BY <1>1, <1>25 DEF StepEnds
  <2>3. s \in Terminal BY <1>25
  <2>4. \A j \in Ticket : j # k => pc'[j] = pc[j] /\ copy'[j] = copy[j] BY <1>1, <1>25 DEF StepEnds
  <2> HIDE DEF s
  <2>5. Before(r, copy'[k]) /\ (s = "succeeded" => Clean(copy'[k]))
    BY <2>1, <2>2, <2>3, AfterStepShows
  <2>6. TaskStop(k)' BY <1>4, <1>25, <2>2, <2>5 DEF TaskStop, Before, Clean
  <2> QED BY <1>9, <1>25, <2>4, <2>6 DEF Working, Holding
<1>26. CASE ExecuteResult(k) BY <1>25, <1>26 DEF ExecuteResult
<1>27. CASE ExecuteRefused(k) BY <1>25, <1>27 DEF ExecuteRefused
<1>28. CASE ExecutePersistStep(k)
  <2>1. copy[k] \in Activity /\ Before(r, copy[k]) /\ Clean(copy[k]) /\ Save(r, copy[k])
    BY <1>2, <1>4, <1>6, <1>28 DEF ExecutePersistStep, TaskStop
  <2>2. TaskStop(k)' BY <1>1, <1>2, <1>28 DEF ExecutePersistStep, TaskStop, Before, Clean
  <2> QED BY <1>1, <1>10, <1>28, <2>1, <2>2, BeforeStops DEF ExecutePersistStep, Working, Holding
<1>29. CASE ExecuteComplete(k)
  <2>1. copy[k] \in Activity /\ Before(r, copy[k]) BY <1>2, <1>4, <1>6, <1>29 DEF ExecuteComplete, TaskStop
  <2>2. Before(r, Closed(copy[k])) BY <2>1, ClosedType, ClosedShows, BeforeKept
  <2>3. TaskStop(k)' BY <1>1, <1>4, <1>29, <2>2 DEF ExecuteComplete, TaskStop, Before
  <2> QED BY <1>1, <1>9, <1>29, <2>3 DEF ExecuteComplete, Working, Holding
<1>30. CASE ExecuteFinal(k)
  <2>1. copy[k] \in Activity /\ Before(r, copy[k]) /\ Save(r, copy[k])
        /\ copy[k].status \in Terminal
    BY <1>2, <1>4, <1>6, <1>30 DEF ExecuteFinal, TaskStop, TaskInv
  <2>2. TaskStop(k)' BY <1>1, <1>30 DEF ExecuteFinal, TaskStop
  <2> QED BY <1>1, <1>10, <1>30, <2>1, <2>2, BeforeStops DEF ExecuteFinal, Working, Holding
<1>31. CASE TaskError(k)
  <2> DEFINE new == [db[r] EXCEPT !.status = "failed"]
  <2>1. db[r] \in Activity /\ Before(r, db[r]) BY <1>7, <1>31 DEF TaskError, Working
  <2>2. new \in Activity /\ new.status = "failed" /\ new.steps = db[r].steps
    BY <2>1, StatusType, EndedShows DEF Activity
  <2>3. StopsAt(r, new) BY <2>1, <2>2, BeforeStops DEF StopsAt
  <2>4. Save(r, new) BY <1>4, <1>31 DEF TaskError
  <2> HIDE DEF new
  <2>5. TaskStop(k)' BY <1>1, <1>31 DEF TaskError, TaskStop
  <2> QED BY <1>1, <1>10, <1>31, <2>2, <2>3, <2>4, <2>5 DEF TaskError, Working
<1>32. CASE TaskRemove(k)
  <2>1. UNCHANGED <<of, op, copy, at, db, ran>> /\ pc' = [pc EXCEPT ![k] = "gone"]
    BY <1>32 DEF TaskRemove, dbVars, history
  <2>2. ASSUME NEW s \in Run PROVE RowStop(s)' BY <2>1, RowStopSame DEF StopInv
  <2>3. ASSUME NEW j \in Ticket PROVE TaskStop(j)'
    <3>1. CASE j = k BY <1>1, <2>1, <3>1 DEF TaskStop
    <3>2. CASE j # k BY <1>1, <2>1, <3>2 DEF StopInv, TaskStop, Before, Clean
    <3> QED BY <3>1, <3>2
  <2>4. CallStop' BY <2>1 DEF StopInv, CallStop, Clean
  <2> QED BY <2>2, <2>3, <2>4 DEF StopInv
<1> QED BY <1>11, <1>12, <1>13, <1>14, <1>16, <1>17, <1>19, <1>20, <1>21, <1>22, <1>23, <1>24,
           <1>26, <1>27, <1>28, <1>29, <1>30, <1>31, <1>32 DEF Task

LEMMA StopFailure == TypeInv /\ SafetyInv /\ StopInv /\ Failure => StopInv'
<1> SUFFICES ASSUME TypeInv, SafetyInv, StopInv, Failure PROVE StopInv' OBVIOUS
<1> USE DEF dbVars, taskVars, history
<1>1. pc \in [Ticket -> TaskPc] BY DEF TypeInv, TypeOK
<1>2. UNCHANGED <<db, born, of, copy, at, ran, grants>>
  BY DEF Failure, OpFails, Crash, TaskFails, TaskErrorFails
<1>3. op' = op \/ op'.pc # "cancel"
  BY DEF Failure, OpFails, Crash, TaskFails, TaskErrorFails, Idle
<1>4. \A k \in Ticket : pc'[k] \in {pc[k], "error", "remove", "gone"}
  BY <1>1 DEF Failure, OpFails, Crash, TaskFails, TaskErrorFails, Go
<1>5. ASSUME NEW s \in Run PROVE RowStop(s)' BY <1>2, RowStopSame DEF StopInv
<1>6. ASSUME NEW k \in Ticket PROVE TaskStop(k)'
  BY <1>2, <1>4 DEF StopInv, TaskStop, Before, Clean, InStep, Between
<1>7. CallStop' BY <1>3 DEF StopInv, CallStop, Clean
<1> QED BY <1>5, <1>6, <1>7 DEF StopInv

LEMMA StopStep == TypeInv /\ SafetyInv /\ StopInv /\ [Next]_vars => StopInv'
<1>1. TypeInv /\ SafetyInv /\ StopInv /\ UNCHANGED vars => StopInv'
  <2> SUFFICES ASSUME StopInv, UNCHANGED vars PROVE StopInv' OBVIOUS
  <2>1. ASSUME NEW s \in Run PROVE RowStop(s)' BY RowStopSame DEF vars, StopInv
  <2>2. ASSUME NEW k \in Ticket PROVE TaskStop(k)' BY TaskStopSame DEF vars, StopInv, SameFor
  <2>3. CallStop' BY DEF vars, StopInv, CallStop, Clean
  <2> QED BY <2>1, <2>2, <2>3 DEF StopInv
<1> QED BY <1>1, StopRequest, StopEnqueue, StopCalls, StopTask, StopFailure DEF Next, Operation

\* No step runs after a step of the same activity that failed, was cancelled or was
\* interrupted, whichever task closed the activity and whichever comes later.
THEOREM NothingRunsBehind == Spec => []StopOnFailure
<1>1. TypeInv /\ StopInv => StopOnFailure
  BY DEF StopInv, RowStop, StopsAt, Broken, StopOnFailure
<1> QED BY <1>1, Safe, StopInit, StopStep, PTL DEF Spec

-----------------------------------------------------------------------------
(* Only a failing call leaves an activity to nobody.                       *)

Attending == {"recover", "persist", "launch", "confirmLaunch"}

\* A step that keeps the tasks and what the call is there for keeps the row attended.
LEMMA AttendedKept ==
    ASSUME NEW r \in Run, \A k \in Ticket : of'[k] = of[k] /\ (pc[k] \in Working => pc'[k] \in Working),
           op' = op \/ op.pc \notin Attending
    PROVE  Attended(r) => Attended(r)'
BY DEF Attended, Attending

LEMMA RequestAttends ==
    ASSUME TypeInv, Request, NEW r \in Run, Orphan(r)'
    PROVE  Orphan(r)
<1>1. UNCHANGED <<pc, of>>
  BY DEF Request, Dispatch, RunNow, Test, StartEnqueue, ConfirmRead, CancelRead, ClearActivities, taskVars
<1>2. op' = op \/ op.pc \notin Attending
  BY DEF Request, Dispatch, RunNow, Test, StartEnqueue, ConfirmRead, CancelRead, ClearActivities,
         GateFree, Attending
<1>3. db' = db \/ Forget(Rows(Terminal))
  BY DEF Request, Dispatch, RunNow, Test, StartEnqueue, ConfirmRead, CancelRead, ClearActivities, dbVars
<1>4. r \in Rows(InFlight)' => r \in Rows(InFlight) BY <1>3 DEF Forget, Rows
<1> QED BY <1>1, <1>2, <1>4, AttendedKept DEF Orphan

\* A call that leaves its row in flight launches a task for it, or is about to.
LEMMA OperationAttends ==
    ASSUME TypeInv, SafetyInv, Operation, NEW r \in Run, Orphan(r)'
    PROVE  Orphan(r)
<1> USE DEF dbVars, taskVars, history
<1>1. CallInv BY DEF SafetyInv
<1>2. db \in [Run -> Activity \cup {NoRow}] /\ op \in Call /\ pc \in [Ticket -> TaskPc]
      /\ of \in [Ticket -> Run \cup {NoRun}]
  BY DEF TypeInv, TypeOK
<1>3. CASE EnqueueCheck
  <2>1. UNCHANGED <<db, pc, of>> /\ op.pc \notin Attending BY <1>3 DEF EnqueueCheck, Attending
  <2> QED BY <2>1, AttendedKept DEF Orphan, Rows
<1>4. CASE EnqueueInsert
  <2>1. UNCHANGED <<pc, of>> /\ op.pc \notin Attending BY <1>4 DEF EnqueueInsert, Attending
  <2>2. Attended(r) => Attended(r)' BY <2>1, AttendedKept
  <2>3. CASE db'[r] = db[r] BY <2>2, <2>3 DEF Orphan, Rows
  <2>4. CASE db'[r] # db[r]
    <3>1. ~IsDuplicate(op.act) BY <1>4, <2>4 DEF EnqueueInsert
    <3>2. op' = [op EXCEPT !.pc = "persist"] /\ db' = [db EXCEPT ![op.run] = op.act]
      BY <1>4, <3>1 DEF EnqueueInsert
    <3>3. op'.pc = "persist" /\ op'.run = r BY <1>2, <2>4, <3>2 DEF Call
    <3> QED BY <3>3 DEF Orphan, Attended
  <2> QED BY <2>3, <2>4
<1>5. CASE EnqueuePersist
  <2> PICK act \in SnapshotOutcomes(op.act) :
         /\ Save(op.run, act)
         /\ op' = [op EXCEPT !.act = act, !.pc = IF act.status = "queued" THEN "launch" ELSE "prune"]
    BY <1>5 DEF EnqueuePersist
  <2>1. op.pc = "persist" /\ UNCHANGED <<pc, of>> BY <1>5 DEF EnqueuePersist
  <2>2. op'.run = op.run /\ op'.pc = IF act.status = "queued" THEN "launch" ELSE "prune"
    BY <1>2 DEF Call
  <2>3. CASE r # op.run
    <3>1. db'[r] = db[r] BY <1>2, <2>3 DEF Save
    <3>2. Attended(r) => Attended(r)' BY <2>1, <2>3 DEF Attended
    <3> QED BY <3>1, <3>2 DEF Orphan, Rows
  <2>4. CASE r = op.run
    <3>1. act.status # "queued" BY <2>2, <2>4 DEF Orphan, Attended
    <3>2. op.act \in Activity /\ Fresh(op.act) BY <1>1, <2>1 DEF CallInv, TypeInv, OpShape
    <3>3. act.status \notin InFlight
      <4>1. CASE op.act.status \in Terminal BY <4>1 DEF SnapshotOutcomes
      <4>2. CASE op.act.status \notin Terminal
        <5>1. PICK n \in {NumSteps} \cup {i - 1 : i \in {j \in Step : <<op.act.auto, j>> \in QuickAction}} :
                 act = Snapshotted(op.act, n)
          BY <4>2 DEF SnapshotOutcomes
        <5>2. act.status \in {"failed", "awaitingConfirmation", "queued"}
          BY <3>2, <5>1 DEF Snapshotted, Activity
        <5> QED BY <3>1, <5>2
      <4> QED BY <4>1, <4>2
    <3>4. db'[r] \in {act, NoRow} BY <1>2, <2>4 DEF Save
    <3> QED BY <3>3, <3>4 DEF Orphan, Rows
  <2> QED BY <2>3, <2>4
<1>6. ASSUME NEW k \in Ticket, Launch(op.run, k), op.pc \in {"launch", "confirmLaunch"}, UNCHANGED db
      PROVE  Orphan(r)
  <2>1. pc'[k] = "start" /\ of'[k] = op.run BY <1>2, <1>6 DEF Launch
  <2>2. \A j \in Ticket : pc[j] \in Working => pc'[j] = pc[j] /\ of'[j] = of[j]
    BY <1>2, <1>6 DEF Launch, Working, Holding
  <2>3. Attended(r) => Attended(r)' BY <1>6, <2>1, <2>2 DEF Attended, Working
  <2> QED BY <1>6, <2>3 DEF Orphan, Rows
<1>7. CASE EnqueueLaunch BY <1>6, <1>7 DEF EnqueueLaunch
<1>8. CASE EnqueuePrune
  <2>1. UNCHANGED <<pc, of>> /\ op.pc \notin Attending BY <1>8 DEF EnqueuePrune, Attending
  <2>2. PICK gone \in SUBSET Rows(Terminal) : Forget(gone) BY <1>8 DEF EnqueuePrune
  <2>3. r \in Rows(InFlight)' => r \in Rows(InFlight) BY <2>2 DEF Forget, Rows
  <2> QED BY <2>1, <2>3, AttendedKept DEF Orphan
<1>9. CASE ConfirmPersist
  <2>1. UNCHANGED <<pc, of>> /\ op.pc \notin Attending BY <1>9 DEF ConfirmPersist, Attending
  <2>2. op'.run = op.run /\ op'.pc = "confirmLaunch" BY <1>2, <1>9 DEF ConfirmPersist, Call
  <2>3. r # op.run BY <2>2 DEF Orphan, Attended
  <2>4. db'[r] = db[r] BY <1>2, <1>9, <2>3 DEF ConfirmPersist, Save
  <2> QED BY <2>1, <2>4, AttendedKept DEF Orphan, Rows
<1>10. CASE ConfirmLaunch BY <1>6, <1>10 DEF ConfirmLaunch
<1>11. CASE CancelDecide
  <2>1. UNCHANGED <<pc, of>> /\ op.pc \notin Attending BY <1>11 DEF CancelDecide, Attending
  <2>2. op.act \in Activity BY <1>11 DEF CancelDecide, TypeInv, OpShape
  <2>3. [op.act EXCEPT !.status = "canceled"].status = "canceled" BY <2>2 DEF Activity
  <2>4. db'[r] \in {db[r], [op.act EXCEPT !.status = "canceled"]}
    BY <1>2, <1>11 DEF CancelDecide, Save
  <2>5. r \in Rows(InFlight)' => db'[r] = db[r] BY <2>3, <2>4 DEF Rows
  <2> QED BY <2>1, <2>5, AttendedKept DEF Orphan, Rows
<1>12. ASSUME NEW s \in Run, RecoverRow(s) PROVE Orphan(r)
  BY <1>12 DEF RecoverRow, Orphan, Attended
<1>13. CASE RecoverDone BY <1>13 DEF RecoverDone, Orphan, Rows
<1> QED BY <1>3, <1>4, <1>5, <1>7, <1>8, <1>9, <1>10, <1>11, <1>12, <1>13
        DEF Operation, Enqueue, Confirm, Recover

\* A task that stops working has closed its activity, or parked it for the user.
LEMMA TaskAttends ==
    ASSUME TypeInv, SafetyInv, NEW k \in Ticket, Task(k), NEW r \in Run, Orphan(r)'
    PROVE  Orphan(r)
<1> USE DEF Go, TaskOnly
<1>1. /\ db \in [Run -> Activity \cup {NoRow}] /\ pc \in [Ticket -> TaskPc]
      /\ copy \in [Ticket -> Activity \cup {NoRow}]
  BY DEF TypeInv, TypeOK
<1>2. TaskInv(k) BY DEF SafetyInv
<1>3. UNCHANGED <<of, op>>
  BY DEF Task, ExecuteLoad, ExecuteAcquire, ExecuteGiveUp,
    ExecuteSkipSucceeded, ExecuteCanceled, ExecuteAsk, ExecuteGate, ExecutePark, ExecuteBegin,
    ExecutePersistBegin, ExecuteRecheck, ExecuteStart, ExecuteResult, ExecuteRefused,
    ExecutePersistStep, ExecuteComplete, ExecuteFinal, TaskError, TaskRemove
<1>4. ASSUME \A j \in Ticket : pc[j] \in Working => pc'[j] \in Working, db' = db
      PROVE  Orphan(r)
  BY <1>3, <1>4, AttendedKept DEF Orphan, Rows
<1>5. ASSUME NEW act, Save(of[k], act), pc[k] \in Working, pc'[k] \in Working,
             \A j \in Ticket : j # k => pc'[j] = pc[j]
      PROVE  Orphan(r)
  <2>1. Attended(r) => Attended(r)' BY <1>3, <1>5, AttendedKept
  <2>2. r # of[k] BY <1>3, <1>5 DEF Orphan, Attended
  <2>3. db'[r] = db[r] BY <1>1, <1>5, <2>2 DEF Save
  <2> QED BY <2>1, <2>3 DEF Orphan, Rows
<1>6. ASSUME NEW act, Save(of[k], act), db[of[k]] # NoRow => act.status \notin InFlight,
             pc[k] \in Working, pc' = [pc EXCEPT ![k] = "remove"]
      PROVE  Orphan(r)
  <2>1. r # of[k]
    <3> SUFFICES ASSUME r = of[k] PROVE FALSE OBVIOUS
    <3> QED BY <1>1, <1>6 DEF Orphan, Rows, Save
  <2>2. db'[r] = db[r] BY <1>1, <1>6, <2>1 DEF Save
  <2>3. Attended(r) => Attended(r)' BY <1>1, <1>3, <1>6, <2>1 DEF Attended
  <2> QED BY <2>2, <2>3 DEF Orphan, Rows
<1>7. pc[k] \in {"final", "abandon", "parking"} => copy[k].status \notin InFlight
  BY <1>2 DEF TaskInv
<1>8. CASE ExecutePark(k) BY <1>6, <1>7, <1>8 DEF ExecutePark, Working, Holding
<1>9. CASE ExecuteFinal(k) BY <1>6, <1>7, <1>9 DEF ExecuteFinal, Working, Holding
<1>10. CASE TaskError(k)
  <2>1. of[k] \in Run BY <1>10 DEF TaskError, TypeInv, TaskShape
  <2>2. db[of[k]] # NoRow => [db[of[k]] EXCEPT !.status = "failed"].status = "failed"
    BY <1>1, <2>1 DEF Activity
  <2> QED BY <1>6, <1>10, <2>2 DEF TaskError, Working
<1>11. CASE TaskRemove(k)
  <2>1. db' = db /\ pc[k] = "remove" /\ pc' = [pc EXCEPT ![k] = "gone"]
    BY <1>11 DEF TaskRemove, dbVars
  <2> QED BY <1>1, <1>4, <2>1 DEF Working, Holding
<1>12. CASE ExecutePersistBegin(k)
  BY <1>1, <1>5, <1>12 DEF ExecutePersistBegin, Working, Holding
<1>13. CASE ExecutePersistStep(k)
  BY <1>1, <1>5, <1>13 DEF ExecutePersistStep, Working, Holding
<1>14. ASSUME ExecuteResult(k) \/ ExecuteRefused(k) PROVE Orphan(r)
  BY <1>1, <1>4, <1>14 DEF ExecuteResult, ExecuteRefused, StepEnds, Working, Holding
<1>15. CASE \/ ExecuteLoad(k) \/ ExecuteAcquire(k) \/ ExecuteGiveUp(k)
            \/ ExecuteSkipSucceeded(k) \/ ExecuteCanceled(k) \/ ExecuteAsk(k)
  BY <1>1, <1>4, <1>15 DEF ExecuteLoad, ExecuteAcquire, ExecuteGiveUp, ExecuteSkipSucceeded,
     ExecuteCanceled, ExecuteAsk, Working, Holding
<1>16. CASE \/ ExecuteGate(k) \/ ExecuteBegin(k) \/ ExecuteRecheck(k)
            \/ ExecuteStart(k) \/ ExecuteComplete(k)
  BY <1>1, <1>4, <1>16 DEF ExecuteGate, ExecuteBegin, ExecuteRecheck, ExecuteStart,
     ExecuteComplete, Working, Holding
<1> QED BY <1>8, <1>9, <1>10, <1>11, <1>12, <1>13, <1>14, <1>15, <1>16 DEF Task

LEMMA FailureOrphans ==
    ASSUME TypeInv, Failure, NEW r \in Run, Orphan(r)'
    PROVE  faults' > faults
<1>1. faults \in Nat BY LimitsAssumption DEF TypeInv, TypeOK
<1>2. ~Crash BY DEF Crash, Orphan, Attended, Idle
<1> QED BY <1>1, <1>2 DEF Failure, OpFails, TaskFails, TaskErrorFails, DbFails

\* An activity in flight is left to nobody only when a call to the database fails:
\* tasks that end, confirmations, cancellations, crashes and recover leave none behind.
THEOREM NobodyIsLeftBehind == Spec => OnlyFailuresOrphan
<1> DEFINE Left == \A r \in Run : Orphan(r)' => Orphan(r) \/ faults' > faults
<1>1. TypeInv /\ SafetyInv /\ Next => Left
  BY RequestAttends, OperationAttends, TaskAttends, FailureOrphans DEF Next
<1>2. TypeInv /\ SafetyInv /\ [Next]_vars => [Left]_vars BY <1>1
<1> QED BY <1>2, Safe, PTL DEF Spec, OnlyFailuresOrphan
=============================================================================

# A verification project for arcrelay-automation

ArcRelay Automation is a Rust crate that runs desktop automations: *when* a trigger fires,
*only if* conditions hold, *do* a list of steps. This directory models what is hard to test in
it: the life of an activity between tasks, locks, crashes and failing database calls; the
optimistic editing of definitions; the scheduler and its calendar; the Bluetooth proximity
policy; a shell script and what it leaves behind; the opening of the database; and the
algorithms on texts, rules and histories. Everything is written in TLA+, model-checked with TLC
on small instances; the safety properties that hold, and the refinement, are proved with TLAPS
for every instance.

All paths below are relative to the repository (`src/engine.rs` is `src/src/engine.rs` in
`PROJECT.json`, whose `map` gives the lines every definition stands for).

## 1. Inventory

| component | state | operations | where |
|---|---|---|---|
| activities | rows of `automation_runs`, the map `active` of run → (ticket, token), the `gate` mutex, the `capacity` semaphore, one tokio task per launch | `dispatch`, `run`, `test`, `confirm`, `cancel`, `clear_activities`, `recover`, `execute` | `engine.rs`, `store.rs` |
| definitions | `automations`, `automation_migrations`, copies in the windows | `get`, `list`, `save`, `set_enabled`, `delete`, `migrated` | `engine.rs`, `store.rs` |
| configuration watch | a counter in a `watch` channel; the list of a monitor in the host | `subscribe_configuration`, targeted `dispatch` | `engine.rs` |
| scheduler | `automation_schedule`, the clock | `save`, `delete`, `due`, `tick`, `advance_schedule` | `engine.rs`, `store.rs` |
| calendar | none | `next_schedule`, the time range of `condition_failure` | `validation.rs` |
| Bluetooth detector | `armed`, `fired`, two countdowns, the last call | `update` | `bluetooth.rs` |
| conditions, matching | none | `condition_failure`, `capability`, `available_variables`, `matches` | `validation.rs`, `model.rs` |
| preflight | none | `preflight_with_capabilities` | `engine.rs` |
| event templates | none | `validate_variables`, `render_text`, `prepare_script` | `validation.rs`, `shell.rs` |
| retention | rows of `automation_runs` | `prune` | `store.rs` |
| store opening | a `OnceCell` of the pool that clones share, the file | `new`, `db` | `store.rs` |
| shell runner | a process group, two pipes, two tasks that read them | `execute_shell` | `shell.rs` |
| broadcast | a lossy channel of activity documents | `persist`, `subscribe` | `engine.rs` |

How they interact. Every call that starts, confirms or cancels an activity, and every save,
delete and tick, holds the **gate** from its first read to its last write. Three things do not:
the *tasks* that `launch` spawns (they take the gate only to park an activity that needs a
confirmation), `clear_activities`, and reads (`get`, `list`). Tasks and calls therefore meet in
the database, in `active` and in cancellation tokens. `save` bumps the configuration counter
after its commit; a monitor of the host follows the counter, lists the definitions and sends
events that name a rule and its revision. The scheduler and `dispatch` both end in `enqueue`,
which the unique key (automation, event) makes idempotent. A task that comes to a shell step
renders the texts of the step from the event's variables and awaits `execute_shell`, which hears of
a cancellation by the task's token. Every operation of the store goes through `db`, which opens the
database at the first call of any clone. `save` accepts a definition that passed validation and
preflight; the texts, conditions and steps it accepted are looked at again, by other code, when an
event arrives and when the activity runs.

What is hard: the order in which tasks, `confirm` and `cancel` reach the row and the map; chains
of tasks that continue one activity after each confirmation; crashes and failing calls between
two writes; documents that are read, awaited over and written; slots that are due while the
computer sleeps or the clocks change; a detector whose input stops, repeats or comes from the
future; a shell that exits while it is cancelled, with descendants that hold its pipes; an
opening that fails, or whose caller gives up, while others wait for it; checks made when a
definition is saved on which code relies that runs later. The `hazards` of `PROJECT.json` list them line by line, each with its properties.

What makes each component correct:

- *activities*: a step runs at most once; what needs a confirmation has one of its own; nothing
  runs after a failure; a cancelled activity stays cancelled; no two activities of one automation
  are outstanding; launched activities settle; nothing but a failing call leaves one to nobody;
- *definitions*: no lost update, no shared shortcut, no second import, at most 256;
- *watch*: a monitor that has caught up is current, and superseded events are not run;
- *scheduler*: one activity per slot, one catch-up per sleep, no slot without a record, each due
  slot gets its turn;
- *calendar*: the next slot is the first one; intervals belong to the day they begin on;
- *detector*: a departure is reported exactly when the device was near, then away long enough;
- *shell runner*: the result is the shell's own or says why not, the output is all there up to the
  limit or marked as not read to its end, no process of the group and no reader survives, and the run ends;
- *opening*: one pool for all clones, the whole schema before the first use, nothing replaced, and a
  failure can be retried;
- *texts, rules, preflight, retention*: texts that were accepted when a definition was saved can be
  shown when it runs, and conditions be judged; values are data; an event that lacks a name does not
  set off what asks for it; the latest activities stay.

## 2. Modules

| module | what it is |
|---|---|
| `AutomationEngine` | activities, with tasks, calls, crashes, faults |
| `RunContract` | what the engine promises of an activity: the abstract specification |
| `AutomationEngine_proofs` | theorems about the two: safety, refinement, limits, endings |
| `DefinitionStore` | definitions, windows, importer |
| `ConfigurationMonitor` | extends `DefinitionStore` with the monitor of the host |
| `ConfigurationMonitor_proofs` | theorems about the two |
| `ZoneCalendar`, `ZoneCalendar_proofs` | local time, `next_schedule`, time ranges, and what they should compute; theorems |
| `Scheduler`, `Scheduler_proofs` | extends `ZoneCalendar` with slots, clock and tick; theorems, on those of the calendar |
| `BluetoothDetector`, `BluetoothDetector_proofs` | the detector and a trace of its calls; theorems |
| `ShellRun`, `ShellRun_proofs` | one script: processes, pipes, captures, the race; theorems |
| `StoreOpening`, `StoreOpening_proofs` | the first use of the store by its clones; theorems |
| `EventTemplates` | texts with variables: what is accepted, shown and handed to a shell |
| `EventRules` | triggers, conditions, preflight, and what `enqueue` and `execute` look at before a step |
| `StoredHistory` | `prune` with both of its limits |
| `MC*` | constants, symmetry, inputs; `MCAlgorithms` enumerates the inputs of all that has no state |
| `MCAlgorithms_proofs` | theorems about rules, preflight and retention, and about what `MCAlgorithms` goes through |

### AutomationEngine

`db` is `automation_runs`, one document per activity; `active` is `Inner.active`; `op` is the call
that holds the gate with its local variables; `pc`, `of`, `copy`, `at` are the program counter,
run, private document and loop index of each task; `canceled` holds the tokens that are cancelled.
An action is what the code does between two awaits at which another actor can interfere, so that
`enqueue` is five actions, `confirm` three, `cancel` two and `execute` about fifteen, in the order
of the code. A `?` on a database call is `OpFails`, `TaskFails` or `TaskErrorFails`: the call
returns, the task goes to the error branch of `launch`, or that branch's own failure is ignored.
`Crash` loses everything but the database; the host then builds an engine and calls `recover`
(the test `recovery_interrupts_runs_but_retains_confirmations` shows the order).

Data is abstracted to what the properties tell apart: a step of a document is its status, a
definition is which steps are QuickActions and which of those are dangerous, a script has an
outcome, and cooldown and conditions are a choice that may skip an event but never a manual run.
`born`, `ran` and `grants` are history: what each activity was created for, how often each step
was handed to its executor, how often the user confirmed it. They never guard an action, except
that a run id is new when `born` does not know it. `Orphan` says of a row in flight that no task
works on it, the call under way will not launch one, and `recover` is not at work.

### RunContract

An activity is *unknown*, *open*, *waiting*, *closed*, *gone*. It is accepted once, performs its
steps in order, each once and only when enough approvals were given for all the steps so far, and
when closed it can only be forgotten. `Phase` maps a row to its phase. All of the engine's
interleavings, its two locks, failures and recovery disappear in this mapping, and that they may
is `ImplementsContract`.

### DefinitionStore and ConfigurationMonitor

`held` is the copy a window edits, `gate` the save or delete under way. A save checks (limit,
hotkeys), commits (revision, unique legacy id, tombstone, one transaction) and announces; another
client may read between each two. The reads of a save are merged, since only the holder of the
gate writes the tables. `RefuseSave` stands for everything else that may refuse a save: preflight,
conflict, database error. `set_enabled` reads outside the gate, as the code does: it is a window's
copy that is then saved. The monitor is not in the repository: it marks the counter as seen, then
lists, which is how a `watch` receiver is used; its events carry the revision it judged by.

### ZoneCalendar and Scheduler

A zone has one summer: between two instants its clocks are ahead. Units are abstract (four to a
day), weeks have seven days as in the code, and `AtLocal` yields no, one or two instants. The
reference definitions are written independently of the algorithms: `ComesRound` says of an instant
that the clock shows the rule's time for the first time; `InIntervalOf` counts dates instead of
hours. In `Scheduler` a tick reads the due slots, then for each one the definition and the clock,
inserts, advances; time passes, the history is cleared, calls fail and the process dies in
between. Saves and deletes hold the gate and are one step each. `made` is a bag of the slots that
ever got an activity, so that a second one shows.

### BluetoothDetector

`Update` is `update` with the thresholds of the code in milliseconds and dBm. The trace of calls is
kept so that the policy is stated without the detector's variables: near for three seconds without
a break, since then no departure, then away for the chosen time without a break, a break being a
gap of more than five seconds, a clock that went back, or a radio that failed. Times are `u64` in
the code, which is why a call or a reading before 0 is not one.

### ShellRun

`alive` are the processes of the script, `group` the members of the shell's process group, `open`
who holds the writing end of each pipe, `capture` the task that reads it. `stage` is where
`execute_shell` stands: spawning, in `select!`, reaping the shell, collecting the output. The script
may do what processes do: fork, write, close or redirect a stream, leave the group, exit. `Select`
takes any branch that is ready (an exit, an error of `wait`, a cancel, the timeout), since `select!`
polls in random order, and kills the group, as the
code does after every branch; the timeout may be ready at any moment. `Abandon` is the `Drop` of
`ProcessGroup`. `DrainTimeout` is the two seconds after which a capture is aborted. Bytes are counted
in units, and what exceeds `OUTPUT_LIMIT` is read and dropped, so that a script never blocks on a
full pipe that is still read. SIGKILL reaches all of the group at once.

### StoreOpening

`cell` and `permit` are the `OnceCell` and its semaphore of one permit; a caller waits, connects,
executes the statements of the schema one by one, and publishes its pool. A call may fail wherever it
opens, also because the path leads nowhere or the file is no database; a caller may be dropped
wherever it waits (`GiveUp`), and the process may die between two statements. `new` opens nothing,
so that `Init` allows any file.

### EventTemplates, EventRules, StoredHistory

These have no variables. A text is a sequence of tokens (`Token`), the braces among them; the three
loops of the code that look for `{{` and `}}` are three recursive functions (`Validating`,
`Rendering`, `Preparing`), because the code has three. `Preparing` has the three variables of its
loop; `Reference` holds the names it hands out, as many as there are (a bound: the code counts
without end). `Expand` is what a shell makes of the script and its environment. `${NAME}` has an end
of its own, `$env:NAME` in PowerShell has none: a `Letter` behind it belongs to the name. Quotes and
other characters of a shell's language around a reference are left out. In `EventRules` a system has
capabilities, actions and installed applications and may or may not observe a trigger; `Preflight`
returns what is missing. A run looks at two of these things again: `enqueue` takes the snapshots of
all actions (`TakesSnapshots`), and `execute` asks the environment whether the session is locked when
a step is reached (`Refuses`); it asks for no capability and no application, whose lack shows in the
executor. `HandedOver` are the steps that get that far. The two judge the session differently, preflight
by the trigger and `execute` by what it finds: `PreflightSuits` says where they agree, which is not
everywhere (below). A variable that is absent reads as an empty name. In `StoredHistory` the rows that `ORDER BY created_at DESC LIMIT` chooses among rows of equal
time are any of them.

## 3. Runs

| run | instance | shows |
|---|---|---|
| `Engine_life` | 1 activity of 2 dangerous steps that asks first, 3 launches, 1 crash, 2 faults | `AtMostOnce`, `SeparateConfirmation`, `StopOnFailure`, `CancelReachesTask`, `NoResurrection`, `OnlyFailuresOrphan`, `ImplementsContract` |
| `Engine_crowd` | 3 activities of 3 automations, two that ask first and one with a dangerous step, 2 events (one chained), limit 2, 1 permit | `NoOverlap`, `OutstandingBound` |
| `Engine_live` | 2 activities, of one automation or of two that wait for 1 permit, a dangerous step, 1 crash, no events; fair | `Settles`, `CancelSettles` |
| `Definitions` | 3 ids, limit 2, a window, the importer and the monitor, 1 hotkey, 1 legacy definition, 3 contents, 3 changes, 1 crash | `HotkeyUnique`, `WithinLimit`, `ImportedOnce`, `NoLostUpdate`, `MonitorIsCurrent`, `NoSupersededEvent` |
| `Scheduler` | 2 automations with a daily rule, sleeps of 3 and 6 units, two changes of the clocks, 2 saves, two of a clear, a crash and a fault; fair | `OncePerKeptSlot`, `SlotIsOfDefinition`, `CatchUpOnce`, `NoSlotLost`, `DueMovesOn` |
| `Bluetooth` | 5 calls from 16 inputs on and next to every boundary, 3 calibrations; and 9 calls in which the device comes and goes | `TypeOK`, `NoFalseDeparture`, `DepartureIsSeen` |
| `Shell` | the shell and two more processes, 2 codes, 2 units per pipe, a limit of 1; fair | `NothingLeftBehind`, `OutputComplete`, `OutcomeIsTrue`, `Returns` |
| `Opening` | 3 callers, 6 statements, 2 faults, 1 crash; fair | `OnePool`, `SchemaBeforeUse`, `NothingReplaced`, `Retryable` |
| `Algorithms` | calendar: every time of day, 5 sets of weekdays, all ranges, every instant of two weeks with both changes of the clocks; texts of up to 6 pieces; all triggers against all events; definitions of one or two steps, run with the session locked or not at each, on systems that lack a capability, an action, a shell, an application or the trigger; histories of up to 5 rows | `NextIsTheFirst`, `RangeIsIntervals`, `ValidatedRenders`, `ValuesAreData`, `EventsFitTriggers`, `PreflightIsEnough`, `RetainsTheLatest` |

Three runs end in a violation; each one is a finding of `PROJECT.json` and quotes the line that the
code disagrees with:

- `Engine_stale_cancel`: `cancel` reads a document, a task finishes, `cancel` writes the old
  document back as canceled. A run that succeeded is recorded as canceled.
- `Calendar_overnight`: the weekday of an overnight interval is looked up 24 hours earlier, which
  on the day after a change of the clocks is another date.
- `Scheduler_repeats`: a weekly rule whose next time the clocks skip finds no slot within the eight
  days that are tried; `tick` then leaves the old slot due, and makes another activity for it when the
  history is cleared. The slot moves on about six days later, when the horizon reaches the week after
  the skipped one (`LastInstant` ends the run before). Neither a crash nor a fault is needed.

The models show seven more things that no run refutes:

- `next_schedule` may also find nothing when such a rule is saved: the automation then has no slot
  and never runs until it is saved again (`SlotOf`).
- An event delivered again after its activity was cleared runs again: the pairs that are known are
  the rows of the history (`IsDuplicate`).
- A definition created under the id of a deleted one starts at revision 1 again, so that a copy of
  the deleted one may pass as current. `NoLostUpdate` is therefore checked with `ReusesIds = FALSE`
  (ids are uuids that `Automation` makes); with `TRUE`, TLC finds it violated.
- In a PowerShell script a letter, digit or underscore right behind `{{x}}` becomes part of the name
  `$env:ARCRELAY_EVENT_n` (shell.rs:44), and the value is lost. `ValuesAreData` speaks of scripts
  without such a place (`Separate`); without that disjunct, TLC finds it violated.
- `validate` refuses an empty id in triggers for Bluetooth, applications and hotkeys, but not among
  the devices of a device or transfer trigger or the kinds of a transfer (validation.rs:40). As a
  missing variable reads as an empty name, such a trigger takes events that name no device or kind.
  `EventsFitTriggers` states this exception (`TakesUnnamed`).
- A definition of another trigger, a schedule say, whose action needs an unlocked session passes
  preflight, and is refused at engine.rs:546 when the session is locked by then. `PreflightSuits`
  promises the run only while it is not locked, unless the trigger itself loses the session.
- Output beyond `OUTPUT_LIMIT` is dropped without a mark: the runner marks only what it did not read
  to its end. `OutputComplete` speaks of output up to the limit.

`OncePerSlot` is what `Scheduler_repeats` refutes. `OncePerKeptSlot` is what remains true, and what
`Scheduler` checks: without a clear of the history a slot makes one activity, through crashes and
failing calls between the insert and the advance.

Where the types of a module's variables are a theorem (engine, definitions, monitor, shell, opening),
no run repeats it.

**Bounds and why they are enough.** A hazard of the engine involves two tasks of one activity (the
old one that has not removed its entry, the new one) or two activities of one automation; three
launches give an ask-first start and both steps their confirmation. Every awaited position can
crash or fail, and two faults make the error branch of `launch` fail as well. `MaxActive` and
`Capacity` are at most two, so that limits are met: in `Engine_live` the task of one automation waits
for the permit that the other holds. Definitions: a lost update takes a window that reads,
another that commits, and the first that saves; the limit takes one definition more than it, and an
import that comes twice an import, a delete and an import; an event is superseded by one save, and
`MaxLateBodies` bounds the contents a monitor may have judged. Calendar: two weeks cover the horizon
of nine days from every weekday, before and after each change of the clocks. Scheduler: a sleep of
six units passes over a whole day of four; two mishaps (`MaxMishaps`) are enough to fail and fail
again, to clear and crash; `DueMovesOn` is about failures that come to an end and rules that have a
next slot: a definition at which every tick fails starves those behind it. Detector: two calls to be near, two or more to be away, one to disturb; a
second departure takes nine. Shell: two descendants are enough for one that leaves the group and one
that forks while it is killed; a pipe of one unit blocks its writer, and two units exceed the limit.
Opening: one caller that opens, one that waits, one that comes later; a fault for each of two
openings. Texts: six pieces hold two variables with text between them and every way to leave a brace
open. Histories: five rows are more than twice the two that are kept, with ages on both sides of the
limit. Bounds stand in guards and are named `Max...`, `LastInstant`, `Statements`. Deadlock is not
checked: a system in which nobody calls is quiet, and ids and bounds run out.

**Symmetry.** Run ids, tickets, definition ids and windows are uuids or callers that the code only
compares; the runs with a temporal property under fairness use none.

**Fairness.** `Engine_live`: the call that holds the gate and each task go on (weak fairness: tokio
polls what is ready; executors return, as the shell has a timeout of at most an hour, a delay is at
most a day, and QuickActions and notifications are the host's). A task that waits for the gate or a
permit gets it (strong fairness: tokio's `Mutex` and `Semaphore` are first in, first out). Nobody
has to call, so that a request is never fair. Crashes are bounded; the database works
(`MaxFaults = 0`), because a row whose error could not be written stays in flight until the next
start: `OnlyFailuresOrphan` says that this is the only way, and is checked and proved with faults.
`Scheduler`: the tick goes on (`interval` fires every 15 seconds) and may fail or be killed a bounded
number of times. `Shell`: the runtime polls `select!`, the reaping and the collecting, and its timers
fire; the script, the readers and the canceller need not do anything. `Opening`: a caller that was
called goes on, and the permit of a `OnceCell` is a fair semaphore's; nobody has to call, so that
`Retryable` speaks of behaviours in which somebody tries again and again.

## 4. Proofs

For all values of the constants, under the assumptions that each module names: for the engine, that
dangerous steps are QuickActions, `Run` is finite and null values are no members of the sets they
stand beside; for the definitions, null values and a limit that is a number; for the shell, that
the shell is one of the processes, codes are no words of the runner and a pipe holds at least one
unit; for the opening, that the schema has a statement; for the calendar, that a day has a length, the
clocks are put forward by less than a day and back after that, in one summer; for the scheduler, that
a rule is a time of day on at least one weekday, which is what `validate` lets pass; for the detector,
that numbers are integers and `None` is none of them, every calibration and input whatever being
allowed; for texts, that no two references are the same.

| theorem | statement |
|---|---|
| `TypeCorrect` | `Spec => []TypeOK` |
| `StepsRunAtMostOnce` | `Spec => []AtMostOnce` |
| `ConfirmedSeparately` | `Spec => []SeparateConfirmation` |
| `CancelFindsTheTask` | `Spec => []CancelReachesTask` |
| `CanceledNeverAsks` | `Spec => NoResurrection` |
| `NothingRunsBehind` | `Spec => []StopOnFailure` |
| `NobodyIsLeftBehind` | `Spec => OnlyFailuresOrphan` |
| `NeverOverlapping` | `Spec => []NoOverlap` |
| `OutstandingWithinLimit` | `Spec => []OutstandingBound` |
| `EngineImplementsContract` | `Spec => ImplementsContract` |
| `StoreTypeCorrect`, `HotkeysStayUnique`, `LimitHolds`, `ImportsOnce` | `DefinitionStore`: `Spec => []TypeOK`, `[]HotkeyUnique`, `[]WithinLimit`, `[]ImportedOnce` |
| `UpdatesAreNotLost` | `~ReusesIds` implies `Spec => NoLostUpdate` |
| `MonitorTypeCorrect`, `MonitorStaysCurrent` | `MonitorSpec => []MonitorTypeOK`, `[]MonitorIsCurrent` |
| `NoEventIsSuperseded` | `~ReusesIds` implies `MonitorSpec => []NoSupersededEvent` |
| `ShellTypeCorrect`, `NothingStays`, `OutputIsComplete`, `ExitIsItsOwn` | `ShellRun`: `Spec => []TypeOK`, `[]NothingLeftBehind`, `[]OutputComplete`, `[]OutcomeIsTrue` |
| `NextScheduleIsFirst`, `OnlyOneWeekdayFindsNone`, `RangeHoldsInIntervals` | `ZoneCalendar`: for every rule, range and instant, what `next_schedule` and the time range compute |
| `SlotRunsOnce`, `SlotFitsDefinition`, `SleepIsCaughtUpOnce`, `SlotsAreNotLost` | `Scheduler`: `Spec => []OncePerKeptSlot`, `[]SlotIsOfDefinition`, `CatchUpOnce`, `NoSlotLost` |
| `DetectorTypeOK`, `DeparturesAreTrue`, `DeparturesAreSeen` | `BluetoothDetector`: `Spec => []TypeOK`, `[]NoFalseDeparture`, `[]DepartureIsSeen` |
| `PreflightSuffices`, `PreflightJudges`, `PruneRetainsTheLatest` | for every definition, system and state of the session, that all steps are handed over, and for every environment, that conditions are judged by the facts; for every history and both limits |
| `AcceptedIsRendered`, `AcceptedIsPrepared` | for every text that `validate_variables` accepts and all values: `render_text` and `prepare_script` succeed, and show only what the trigger offers |
| `MarksAreReplaced`, `ScriptIsRendered` | for every text without references and all values: these are data, in a notification and in a script |
| `NextIsFirst`, `RangeIsInItsIntervals`, `EventsFit`, `PreflightEnough`, `PruneKeepsTheLatest`, `AcceptedTextsAreRendered`, `TextsShowValuesAsData` | `MCAlgorithms`: `AllSpec => []NextIsTheFirst`, `[]RangeIsIntervals`, `[]EventsFitTriggers`, `[]PreflightIsEnough`, `[]RetainsTheLatest`, `[]ValidatedRenders`, `[]ValuesAreData` |
| `OpeningTypeCorrect`, `PoolIsShared`, `SchemaIsComplete`, `FileIsKept` | `StoreOpening`: `Spec => []TypeOK`, `[]OnePool`, `[]SchemaBeforeUse`, `NothingReplaced` |

**Engine.** None of the safety properties is inductive. `TypeInv` strengthens `TypeOK` with the program
counters at which a task's or a call's values are defined (`TaskShape`, `OpShape`). `SafetyInv` has
three parts, each a statement about one row, one task or one call, so that an action has to be
looked at only where it writes:

- `RowInv`: no step ran twice, the confirmations in the document were granted, and a row that waits
  for the user shows exactly the steps that ran (`Exact`: those it calls succeeded, a prefix of all);
- `TaskInv`: between steps the private copy shows exactly the steps that ran, and while one executes
  all but that one; while the task works, the entry of `active` is its own and the row is in flight;
- `CallInv`: what the call that holds the gate has read still fits the row it is about to write.

The hard step is a confirmation: the task that parked the activity still exists when the next one
is launched, and only its program counter (`remove`) says that it will write no more. Each part is
preserved by every action (`SafetyRequest`, `SafetyEnqueue`, `SafetyCalls`, `SafetyTask`,
`SafetyFailure`, one named step per action), and the theorems follow from `Safe`. The refinement
shows that each action moves one activity from one phase to another, performs one step, forgets
closed activities, or stutters (`MovesIntro`, `RowStep`, `ForgetStep`).

The limits follow from the refinement: in the contract an activity that
exists never becomes outstanding again (`ContractKeeps`), so that every step but `EnqueueInsert` can
only shrink the set of outstanding rows (`OnlyInsertAdds`). What `EnqueueCheck` saw (`Room`) thus
still holds when the row is inserted, although tasks and `clear_activities` ran in between;
`LimitInv` says so, and is inductive. `Engine_crowd` checks both properties on several automations
without crashes and faults, which keeps it small; the proof covers those as well.

`StopOnFailure` needs more than `SafetyInv`: a task reads the document
once, and works from its copy while others may close the row. `StopInv` says that the documents of
rows and copies show every step before one that ran as succeeded (`Before`), that active rows and
the copy `cancel` is about to write hold no broken step (`Clean`), and that a task at step *n* has
succeeded before it. `cancel` may write an old document over a newer one (the finding above), which
is why the invariant speaks of the steps that ran and not of the statuses alone. For
`OnlyFailuresOrphan` each action is looked at for a row it may leave: a task that ends has closed or
parked its row, a call that stops has launched a task or closed what it made; the actions that
remain raise `faults`.

**Definitions.** `IInv` adds to the properties what the call that holds the gate has tested
(`GateInv`) and where a copy of a legacy definition comes from (`LegacyInv`). The lemma `StepForms`
divides all actions into five kinds (a new copy, a commit, a delete, a call that goes on or is
refused, an announcement), so that each invariant is looked at for the kinds that write what it
speaks of. For `NoLostUpdate`, `CopyInv` says that whatever
somebody read, at some revision with some content, is still that content when the revision is still
the same (`Known`); this is where ids that are used again break it. The monitor implements the store
(`MonitorImplements`), so that these invariants carry over; `ListInv` and `EventInv` add that its
list is of rows that are `Known`, and current when the counter was seen.

**Shell.** `GroupInv` says what the group is like at each stage: after `select!` has chosen, nothing
of the group is alive, and nothing joins it again. `CaptureInv` counts: what a reader has kept is
what was written less what is still in the pipe, up to the limit, so that at the end of a file it is
everything. `OutcomeInv` keeps the exit apart from the kill that follows.

**Opening.** `PermitInv`: who opens has the permit, and the cell is empty. `SchemaInv`: an opening at
statement *n* has executed those before it, so that who publishes has executed all.

**Calendar.** The code tries nine days and takes the first candidate; the reference counts instants.
Three facts join them. A local time has an instant, and `earliest` finds its first one, unless the
clocks skip it (`AtLocal`, case by case of summer and winter). The date never decreases as long as
clocks are read for the first time (`FirstReading`), so that the least candidate is the least instant
at which the rule comes round. And nine days in a row hold every weekday, and the first one twice: a
rule of two weekdays thus has two chances, of which the clocks skip one at most. For ranges, the day
before is 24 hours earlier when no change of the clocks lies between (`Steady`), which is the very
hypothesis that the finding shows to be needed.

**Scheduler.** `OncePerKeptSlot` is not inductive: a tick fails after its insert and finds the slot
due again. `SlotInv` says that a slot is a time of its stored definition and later than the last one
that was made, unless it is the one that was made (`slot > handled` or a row); `TickInv` that what a
tick has read still holds while it works, as saves and deletes wait for the gate; `RowsInv` that what
was made has its row until the history is cleared, which is what `IsDuplicate` looks at. That
a new slot is later than the clock is `NextScheduleIsFirst`.

**Detector.** The properties speak of the trace, the code of five variables; the invariant says what
each variable remembers. `ArmedInv`: the detector is armed exactly when the trace shows that the
device was near long enough, in this session, and nothing fired since (`ArmedAt`). `NearInv` and
`FarInv`: a countdown runs exactly when the last call was near (or, for an armed detector, away), and
began at the first call of the longest such run. A call extends the trace, and each of these
statements about the trace grows by one entry (`RunsGrow`, `ArmedByGrows`, `CountdownGrows`); the six
branches of `update` are put into one form (`CallDoes`). The countdown to near excludes the other
because the two boundaries of a valid calibration are at least four apart.

**Rules, preflight, retention.** A capability tells the type of its trigger, and for transfers the
direction, hence what texts may name. What preflight found of each step leaves `enqueue` every
snapshot and `execute` nothing to refuse where the session is lost with the event; conditions are
compared one by one. Of a prune, the rows that are not the latest are as many as exceed the limit, so that a
row that goes although it is young leaves the limit's number of newer ones behind. These theorems have
no bound on steps, conditions, ids or rows; those about `AllSpec` apply them to the inputs of the run.

**Texts.** A recursive function is `CHOOSE f : f = ...`, and to use its equation one must know that
some function satisfies it. The theorems of the library that say so take an operator as parameter,
which the provers cannot instantiate; `RecursionExists` says it of a function `E` of a function and an
argument instead: if `E` looks only at smaller arguments (`Shrinks`), then the solutions below each
size agree, and together make one that has no bound. Each turn of the three loops takes four braces
from the text (`TurnShortens`), and each turn of the shell a token, so that `ValidatingIs`,
`RenderingIs`, `PreparingIs` and `ExpandingIs` give the four equations. Induction is the least
exception (`LeastOf`): the shortest text for which a statement fails has a turn, and the rest after
it is shorter. What is carried through the loop of `prepare_script` is `Goes`: what a state of the
loop will still add to the script and to the environment, the shell turns into what `render_text`
makes of the rest. Texts contain no token that is a reference (`Plain`), as nothing could tell the two
apart. The names suffice for a text of four tokens for each (`Affords`).

Only model-checked: liveness (`Settles`, `CancelSettles`, `DueMovesOn`, `Returns`, `Retryable`), as
fairness and `ENABLED` are beyond the prover.
Refuted, and not to be proved: `OutcomeIsFinal`, `RangeIsIntervalsAlways`, `OncePerSlot`.

## 5. Not modelled

- The broadcast of activities: a lossy channel that nothing in the repository reads.
- Serialisation, wording, limits of fields, summaries, the cut of stored outputs at a character
  (`StepResult::bounded`): functions of one value that a test reaches.
- `taskkill` on Windows, and a process group id that is used again after its group is gone.
- A runner of the host that panics: it ends the task before it removes its entry; and a host that
  drops the future of a call of the engine in the middle (a dropped shell run and a dropped opening
  are modelled).
- Faults in `Engine_live`: what becomes of a row that a failed call left behind, until the next start.
- A definition that a tick can never finish, with others behind it.
- A clock set back during a cooldown: cooldown is a choice in the engine's model, not a time.
- The scripts of the continuous integration, no part of the program.

## 6. Plan

1. *Done*: engine, contract, definitions, monitor, calendar, scheduler, detector, shell runner,
   opening, templates, rules, preflight, retention; all safety properties and the refinement proved.
2. *Next proofs*: that a schedule without a slot belongs to a rule of one weekday
   (`OnlyOneWeekdayFindsNone`, `SlotOf`).
3. *Next instances*: two windows beside the importer; the scheduler composed with the engine, so that
   a slot is skipped while an earlier activity of its automation is outstanding.

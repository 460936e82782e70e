------------------------------ MODULE ShellRun ------------------------------
(***************************************************************************)
(* One shell script (shell.rs, execute_shell): the shell and what it       *)
(* starts, its two pipes, the tasks that capture them, and the race of     *)
(* exit, cancel and timeout.                                               *)
(*                                                                         *)
(* Unix is modelled: the shell leads a process group, and SIGKILL reaches  *)
(* all of the group at once.  A process that has left the group (setsid)   *)
(* is out of reach.  Bytes are counted in units; timers may fire at any    *)
(* moment after they were started.                                         *)
(***************************************************************************)
EXTENDS Naturals

CONSTANTS
    Proc,         \* processes the script may consist of
    Shell,        \* the one that is spawned
    Code,         \* exit codes and signals a process may end by
    OutputLimit,  \* OUTPUT_LIMIT, 64 KiB
    PipeSize,     \* what the kernel buffers
    MaxWritten    \* bound: units written to one pipe

ASSUME ShellAssumption == Shell \in Proc
ASSUME SizeAssumption ==
    OutputLimit \in Nat /\ PipeSize \in Nat \ {0} /\ MaxWritten \in Nat

Stream == {"stdout", "stderr"}
\* What a run may end with besides the shell's own exit.
Refused == "refused"
WaitFailed == "wait failed"
Canceled == "run canceled"
TimedOut == "script timed out"
NotYet == "not yet"
Killed == "killed"

\* What stands for no exit of the shell.
Others == {Refused, WaitFailed, Canceled, TimedOut}

ASSUME CodeAssumption == Code \cap (Others \cup {NotYet, Killed}) = {}

VARIABLES
    stage,     \* where execute_shell is
    token,     \* the run was cancelled
    alive,     \* processes that run
    group,     \* members of the process group of the shell
    open,      \* who holds the writing end of each pipe
    pipe,      \* units in each pipe
    capture,   \* the task that reads each pipe
    kept,      \* units each task has kept
    status,    \* how the shell ended
    outcome,   \* what select! chose
    output,    \* what was collected of each stream
    written    \* history: units ever written to each pipe

processes == <<alive, group, open, status>>
tasks == <<pipe, capture, kept, written>>
vars == <<stage, token, processes, tasks, outcome, output>>

TypeOK ==
    /\ stage \in {"start", "select", "reap", "collect", "over", "dropped"}
    /\ token \in BOOLEAN
    /\ alive \subseteq Proc
    /\ group \subseteq Proc
    /\ open \in [Stream -> SUBSET Proc]
    /\ pipe \in [Stream -> 0 .. PipeSize]
    /\ capture \in [Stream -> {"none", "reading", "eof", "failed", "aborted"}]
    /\ kept \in [Stream -> 0 .. OutputLimit]
    /\ status \in Code \cup {NotYet, Killed}
    /\ outcome \in Code \cup Others \cup {NotYet}
    /\ output \in [Stream -> {"none", "bytes", "ended"}]
    /\ written \in [Stream -> 0 .. MaxWritten]

Init ==
    /\ stage = "start"
    /\ token \in BOOLEAN
    /\ alive = {} /\ group = {} /\ status = NotYet
    /\ open = [s \in Stream |-> {}]
    /\ pipe = [s \in Stream |-> 0]
    /\ capture = [s \in Stream |-> "none"]
    /\ kept = [s \in Stream |-> 0]
    /\ outcome = NotYet
    /\ output = [s \in Stream |-> "none"]
    /\ written = [s \in Stream |-> 0]

-----------------------------------------------------------------------------
(* The script: what its processes may do, in any order and for ever.       *)

\* A child inherits the group and the pipes.
Fork(p, child) ==
    /\ p \in alive /\ child \notin alive /\ child # Shell
    /\ alive' = alive \cup {child}
    /\ group' = IF p \in group THEN group \cup {child} ELSE group \ {child}
    /\ open' = [s \in Stream |-> IF p \in open[s] THEN open[s] \cup {child} ELSE open[s]]
    /\ UNCHANGED <<stage, token, status, tasks, outcome, output>>

LeaveGroup(p) ==
    /\ p \in (alive \cap group) \ {Shell}
    /\ group' = group \ {p}
    /\ UNCHANGED <<stage, token, alive, open, status, tasks, outcome, output>>

\* A full pipe blocks the writer; without a reader nothing is written.
WriteOut(p, s) ==
    /\ p \in alive \cap open[s]
    /\ capture[s] = "reading"
    /\ pipe[s] < PipeSize /\ written[s] < MaxWritten
    /\ pipe' = [pipe EXCEPT ![s] = @ + 1]
    /\ written' = [written EXCEPT ![s] = @ + 1]
    /\ UNCHANGED <<stage, token, processes, capture, kept, outcome, output>>

\* The pipes that are left when the processes in dead are gone.
OpenWithout(dead) == [s \in Stream |-> open[s] \ dead]

Redirect(p, s) ==
    /\ p \in alive \cap open[s]
    /\ open' = [open EXCEPT ![s] = @ \ {p}]
    /\ UNCHANGED <<stage, token, alive, group, status, tasks, outcome, output>>

Exit(p, code) ==
    /\ p \in alive
    /\ alive' = alive \ {p}
    /\ open' = OpenWithout({p})
    /\ status' = IF p = Shell THEN code ELSE status
    /\ UNCHANGED <<stage, token, group, tasks, outcome, output>>

Cancel ==
    /\ ~token
    /\ token' = TRUE
    /\ UNCHANGED <<stage, processes, tasks, outcome, output>>

-----------------------------------------------------------------------------
(* The tasks of capture.                                                   *)

\* Whatever exceeds the limit is read and dropped.
Read(s) ==
    /\ capture[s] = "reading" /\ pipe[s] > 0
    /\ pipe' = [pipe EXCEPT ![s] = @ - 1]
    /\ kept' = [kept EXCEPT ![s] = IF @ < OutputLimit THEN @ + 1 ELSE @]
    /\ UNCHANGED <<stage, token, processes, capture, written, outcome, output>>

CaptureEnds(s, how) ==
    /\ capture[s] = "reading"
    /\ capture' = [capture EXCEPT ![s] = how]
    /\ UNCHANGED <<stage, token, processes, pipe, kept, written, outcome, output>>

\* Mutant: a capture ends with the shell.
EndOfShell(s) == Shell \notin alive /\ CaptureEnds(s, "eof")

EndOfFile(s) == pipe[s] = 0 /\ open[s] = {} /\ CaptureEnds(s, "eof")

ReadFails(s) == CaptureEnds(s, "failed")

-----------------------------------------------------------------------------
(* execute_shell                                                           *)

\* The template cannot be filled in, or the shell cannot be spawned.
Refuse ==
    /\ stage = "start"
    /\ outcome' = Refused
    /\ stage' = "over"
    /\ UNCHANGED <<token, processes, tasks, output>>

Spawn ==
    /\ stage = "start"
    /\ alive' = {Shell} /\ group' = {Shell}
    /\ open' = [s \in Stream |-> {Shell}]
    /\ capture' = [s \in Stream |-> "reading"]
    /\ stage' = "select"
    /\ UNCHANGED <<token, status, pipe, kept, written, outcome, output>>

\* Mutant: only the shell is killed.
KillShell ==
    /\ alive' = alive \ {Shell}
    /\ open' = OpenWithout({Shell})
    /\ status' = IF Shell \in alive THEN Killed ELSE status
    /\ UNCHANGED group

\* Dropping ProcessGroup.
KillGroup ==
    /\ alive' = alive \ group
    /\ open' = OpenWithout(alive \cap group)
    /\ status' = IF Shell \in alive \cap group THEN Killed ELSE status
    /\ UNCHANGED group

\* Mutant: the exit of the shell is looked at after it was killed.
ReadyAfterKill == {TimedOut, WaitFailed, status'} \cup (IF token THEN {Canceled} ELSE {})

\* The branches of select! that may win; one of those that are ready is taken at random.
\* The system may refuse to say how the shell ended.
Ready ==
    {TimedOut, WaitFailed}
      \cup (IF token THEN {Canceled} ELSE {})
      \cup (IF Shell \in alive THEN {} ELSE {status})

Select ==
    /\ stage = "select"
    /\ KillGroup
    /\ outcome' \in Ready
    /\ stage' = "reap"
    /\ UNCHANGED <<token, group, tasks, output>>

\* child.kill and child.wait
Reap ==
    /\ stage = "reap" /\ Shell \notin alive
    /\ stage' = "collect"
    /\ UNCHANGED <<token, processes, tasks, outcome, output>>

Collected(s, what) == stage = "collect" /\ output[s] = "none" /\ output' = [output EXCEPT ![s] = what]

Collect(s) ==
    /\ capture[s] \in {"eof", "failed"}
    /\ Collected(s, IF capture[s] = "eof" THEN "bytes" ELSE "ended")
    /\ UNCHANGED <<stage, token, processes, tasks, outcome>>

\* Mutant: the pipe of errors is drained for as long as it takes.
DrainTimeoutOut(s) ==
    /\ s = "stdout" /\ capture[s] = "reading"
    /\ Collected(s, "ended")
    /\ capture' = [capture EXCEPT ![s] = "aborted"]
    /\ UNCHANGED <<stage, token, processes, pipe, kept, written, outcome>>

\* Two seconds have passed.
DrainTimeout(s) ==
    /\ capture[s] = "reading"
    /\ Collected(s, "ended")
    /\ capture' = [capture EXCEPT ![s] = "aborted"]
    /\ UNCHANGED <<stage, token, processes, pipe, kept, written, outcome>>

Return ==
    /\ stage = "collect" /\ \A s \in Stream : output[s] # "none"
    /\ stage' = "over"
    /\ UNCHANGED <<token, processes, tasks, outcome, output>>

\* The caller drops the future: the group goes with it, the captures are detached.
Abandon ==
    /\ stage \in {"select", "reap", "collect"}
    /\ KillGroup
    /\ stage' = "dropped"
    /\ UNCHANGED <<token, group, tasks, outcome, output>>

-----------------------------------------------------------------------------
Script ==
    \/ \E p, child \in Proc : Fork(p, child)
    \/ \E p \in Proc : LeaveGroup(p) \/ \E code \in Code : Exit(p, code)
    \/ \E p \in Proc, s \in Stream : WriteOut(p, s) \/ Redirect(p, s)
    \/ Cancel

Capture == \E s \in Stream : Read(s) \/ EndOfFile(s) \/ ReadFails(s)

Runner ==
    \/ Refuse \/ Spawn \/ Select \/ Reap \/ Return \/ Abandon
    \/ \E s \in Stream : Collect(s) \/ DrainTimeout(s)

Next == Script \/ Capture \/ Runner

Spec == Init /\ [][Next]_vars

\* The runtime polls what is ready, and its timers fire; the script need not do anything.
FairSpec ==
    /\ Spec
    /\ WF_vars(Select) /\ WF_vars(Reap) /\ WF_vars(Return)
    /\ \A s \in Stream : WF_vars(Collect(s)) /\ WF_vars(DrainTimeout(s))

-----------------------------------------------------------------------------
\* "Cancellation and descendant cleanup": once the result is there, or the caller has given
\* up, no process of the group runs, and a result leaves no task behind that still reads.
NothingLeftBehind ==
    /\ stage \in {"over", "dropped"} => alive \cap group = {}
    /\ stage = "over" => \A s \in Stream : capture[s] # "reading"

\* Output that is reported as bytes is all that was written, by the shell and by whatever
\* outlived it, up to the limit.
OutputComplete ==
    \A s \in Stream : output[s] = "bytes" =>
       kept[s] = IF written[s] < OutputLimit THEN written[s] ELSE OutputLimit

\* A result that names an exit names the one the shell made by itself, not that of the kill
\* that follows, and a run that is reported as canceled was canceled.
OutcomeIsTrue ==
    /\ outcome \notin Others \cup {NotYet} => outcome = status /\ status # Killed
    /\ outcome = Canceled => token

\* "Bounded pipe draining": a script ends, whatever its processes do with the pipes.
Returns == stage = "select" ~> stage \in {"over", "dropped"}
=============================================================================

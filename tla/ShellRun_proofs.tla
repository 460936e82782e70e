-------------------------- MODULE ShellRun_proofs --------------------------
(***************************************************************************)
(* The safety of a shell script's run, for any processes, codes and limit. *)
(***************************************************************************)
EXTENDS ShellRun, TLAPS

\* The stages after select! has chosen.
Past == {"reap", "collect", "over", "dropped"}

\* What a task has kept of n units it has read.
Limited(n) == IF n < OutputLimit THEN n ELSE OutputLimit

\* What the process group is like at each stage.
GroupInv ==
    /\ Shell \in alive => Shell \in group
    /\ stage = "start" => alive = {} /\ status = NotYet
    /\ stage = "select" => status \in (IF Shell \in alive THEN {NotYet} ELSE Code)
    /\ stage \in Past => alive \cap group = {}

\* What a capturing task has read it has kept, up to the limit.
CaptureInv ==
    \A s \in Stream :
       /\ stage = "start" => capture[s] = "none" /\ output[s] = "none"
       /\ capture[s] \in {"none", "reading", "eof"} =>
             pipe[s] <= written[s] /\ kept[s] = Limited(written[s] - pipe[s])
       /\ capture[s] = "none" => pipe[s] = 0 /\ written[s] = 0
       /\ capture[s] = "eof" => pipe[s] = 0
       /\ output[s] = "bytes" => capture[s] = "eof"
       /\ output[s] # "none" \/ stage = "over" => capture[s] # "reading"

OutcomeInv ==
    /\ stage \in {"start", "select"} => outcome = NotYet
    /\ OutcomeIsTrue
    /\ outcome \in Code => Shell \notin alive

IInv == TypeOK /\ GroupInv /\ CaptureInv /\ OutcomeInv

USE ShellAssumption, SizeAssumption, CodeAssumption

LEMMA InitInv == Init => IInv
<1> SUFFICES ASSUME Init PROVE IInv OBVIOUS
<1> USE DEF Init
<1>1. TypeOK BY DEF TypeOK
<1>2. GroupInv BY DEF GroupInv, Past
<1>3. CaptureInv BY DEF CaptureInv, Limited
<1>4. OutcomeInv BY DEF OutcomeInv, OutcomeIsTrue, Others, Canceled, NotYet
<1> QED BY <1>1, <1>2, <1>3, <1>4 DEF IInv

LEMMA TypeStep == TypeOK /\ GroupInv /\ [Next]_vars => TypeOK'
<1> SUFFICES ASSUME TypeOK, GroupInv, [Next]_vars PROVE TypeOK' OBVIOUS
<1> USE DEF TypeOK, Others, processes, tasks
<1>1. CASE UNCHANGED vars BY <1>1 DEF vars
<1>2. CASE Script
  <2>1. ASSUME NEW p \in Proc, NEW child \in Proc, Fork(p, child) PROVE TypeOK'
    BY <2>1 DEF Fork
  <2>2. ASSUME NEW p \in Proc, LeaveGroup(p) PROVE TypeOK'
    BY <2>2 DEF LeaveGroup
  <2>3. ASSUME NEW p \in Proc, NEW code \in Code, Exit(p, code) PROVE TypeOK'
    BY <2>3 DEF Exit, OpenWithout
  <2>4. ASSUME NEW p \in Proc, NEW s \in Stream, WriteOut(p, s) PROVE TypeOK'
    BY <2>4 DEF WriteOut
  <2>5. ASSUME NEW p \in Proc, NEW s \in Stream, Redirect(p, s) PROVE TypeOK'
    BY <2>5 DEF Redirect
  <2>6. CASE Cancel BY <2>6 DEF Cancel
  <2> QED BY <1>2, <2>1, <2>2, <2>3, <2>4, <2>5, <2>6 DEF Script
<1>3. CASE Capture
  BY <1>3 DEF Capture, Read, EndOfFile, ReadFails, CaptureEnds
<1>4. CASE Runner
  <2>1. CASE Refuse \/ Spawn BY <2>1 DEF Refuse, Spawn
  <2>2. CASE Select \/ Abandon
    BY <2>2 DEF Select, Abandon, KillGroup, OpenWithout, Ready, GroupInv
  <2>3. CASE Reap \/ Return BY <2>3 DEF Reap, Return
  <2>4. ASSUME NEW s \in Stream, Collect(s) \/ DrainTimeout(s) PROVE TypeOK'
    BY <2>4 DEF Collect, DrainTimeout, Collected
  <2> QED BY <1>4, <2>1, <2>2, <2>3, <2>4 DEF Runner
<1> QED BY <1>1, <1>2, <1>3, <1>4 DEF Next

LEMMA GroupStep == TypeOK /\ GroupInv /\ [Next]_vars => GroupInv'
<1> SUFFICES ASSUME TypeOK, GroupInv, [Next]_vars PROVE GroupInv' OBVIOUS
<1> USE DEF GroupInv, Past, processes, tasks
<1>1. CASE UNCHANGED vars BY <1>1 DEF vars
<1>2. CASE Script
  BY <1>2 DEF Script, Fork, LeaveGroup, WriteOut, Redirect, Exit, Cancel
<1>3. CASE Capture
  BY <1>3 DEF Capture, Read, EndOfFile, ReadFails, CaptureEnds
<1>4. CASE Runner
  <2>1. CASE Refuse \/ Spawn BY <2>1 DEF Refuse, Spawn
  <2>2. CASE Select \/ Abandon BY <2>2 DEF Select, Abandon, KillGroup
  <2>3. CASE Reap \/ Return BY <2>3 DEF Reap, Return
  <2>4. ASSUME NEW s \in Stream, Collect(s) \/ DrainTimeout(s) PROVE GroupInv'
    BY <2>4 DEF Collect, DrainTimeout, Collected
  <2> QED BY <1>4, <2>1, <2>2, <2>3, <2>4 DEF Runner
<1> QED BY <1>1, <1>2, <1>3, <1>4 DEF Next

LEMMA CaptureStep == TypeOK /\ TypeOK' /\ CaptureInv /\ [Next]_vars => CaptureInv'
<1> SUFFICES ASSUME TypeOK, TypeOK', CaptureInv, [Next]_vars PROVE CaptureInv' OBVIOUS
<1> USE DEF TypeOK, CaptureInv, Limited, processes, tasks
<1>1. CASE UNCHANGED vars BY <1>1 DEF vars
<1>2. CASE Script
  <2>1. ASSUME NEW p \in Proc, NEW child \in Proc, Fork(p, child) PROVE CaptureInv'
    BY <2>1 DEF Fork
  <2>2. ASSUME NEW p \in Proc, LeaveGroup(p) PROVE CaptureInv'
    BY <2>2 DEF LeaveGroup
  <2>3. ASSUME NEW p \in Proc, NEW code \in Code, Exit(p, code) PROVE CaptureInv'
    BY <2>3 DEF Exit, OpenWithout
  <2>4. ASSUME NEW p \in Proc, NEW s \in Stream, WriteOut(p, s) PROVE CaptureInv'
    BY <2>4 DEF WriteOut
  <2>5. ASSUME NEW p \in Proc, NEW s \in Stream, Redirect(p, s) PROVE CaptureInv'
    BY <2>5 DEF Redirect
  <2>6. CASE Cancel BY <2>6 DEF Cancel
  <2> QED BY <1>2, <2>1, <2>2, <2>3, <2>4, <2>5, <2>6 DEF Script
<1>3. CASE Capture
  BY <1>3 DEF Capture, Read, EndOfFile, ReadFails, CaptureEnds
<1>4. CASE Runner
  <2>0. CASE Refuse BY <2>0 DEF Refuse
  <2>1. CASE Spawn BY <2>1 DEF Spawn
  <2>2. CASE Select \/ Abandon BY <2>2 DEF Select, Abandon, KillGroup
  <2>3. CASE Reap \/ Return BY <2>3 DEF Reap, Return
  <2>4. ASSUME NEW s \in Stream, Collect(s) \/ DrainTimeout(s) PROVE CaptureInv'
    BY <2>4 DEF Collect, DrainTimeout, Collected
  <2> QED BY <1>4, <2>0, <2>1, <2>2, <2>3, <2>4 DEF Runner
<1> QED BY <1>1, <1>2, <1>3, <1>4 DEF Next

LEMMA OutcomeStep == TypeOK /\ GroupInv /\ OutcomeInv /\ [Next]_vars => OutcomeInv'
<1> SUFFICES ASSUME TypeOK, GroupInv, OutcomeInv, [Next]_vars PROVE OutcomeInv' OBVIOUS
<1> USE DEF TypeOK, GroupInv, OutcomeInv, OutcomeIsTrue, Past, processes, tasks,
            Others, Refused, WaitFailed, Canceled, TimedOut, NotYet, Killed
<1>1. CASE UNCHANGED vars BY <1>1 DEF vars
<1>2. CASE Script
  <2>1. ASSUME NEW p \in Proc, NEW child \in Proc, Fork(p, child) PROVE OutcomeInv'
    BY <2>1 DEF Fork
  <2>2. ASSUME NEW p \in Proc, LeaveGroup(p) PROVE OutcomeInv'
    BY <2>2 DEF LeaveGroup
  <2>3. ASSUME NEW p \in Proc, NEW code \in Code, Exit(p, code) PROVE OutcomeInv'
    BY <2>3 DEF Exit, OpenWithout
  <2>4. ASSUME NEW p \in Proc, NEW s \in Stream, WriteOut(p, s) PROVE OutcomeInv'
    BY <2>4 DEF WriteOut
  <2>5. ASSUME NEW p \in Proc, NEW s \in Stream, Redirect(p, s) PROVE OutcomeInv'
    BY <2>5 DEF Redirect
  <2>6. CASE Cancel BY <2>6 DEF Cancel
  <2> QED BY <1>2, <2>1, <2>2, <2>3, <2>4, <2>5, <2>6 DEF Script
<1>3. CASE Capture
  <2>1. UNCHANGED <<stage, token, alive, group, status, outcome>>
    BY <1>3 DEF Capture, Read, EndOfFile, ReadFails, CaptureEnds
  <2> QED BY <2>1
<1>4. CASE Runner
  <2>1. CASE Refuse \/ Spawn BY <2>1 DEF Refuse, Spawn
  <2>2. CASE Select \/ Abandon BY <2>2 DEF Select, Abandon, KillGroup, Ready
  <2>3. CASE Reap \/ Return BY <2>3 DEF Reap, Return
  <2>4. ASSUME NEW s \in Stream, Collect(s) \/ DrainTimeout(s) PROVE OutcomeInv'
    BY <2>4 DEF Collect, DrainTimeout, Collected
  <2> QED BY <1>4, <2>1, <2>2, <2>3, <2>4 DEF Runner
<1> QED BY <1>1, <1>2, <1>3, <1>4 DEF Next

\* No interleaving of the runner, its children, the tasks that read their output and a cancel
\* breaks the inductive invariant.
THEOREM Safe == Spec => []IInv
<1>1. IInv /\ [Next]_vars => IInv'
  BY TypeStep, GroupStep, CaptureStep, OutcomeStep DEF IInv
<1> QED BY <1>1, InitInv, PTL DEF Spec

\* The variables of a run keep their types; no stream keeps more than the limit.
THEOREM ShellTypeCorrect == Spec => []TypeOK
<1>1. IInv => TypeOK BY DEF IInv
<1> QED BY <1>1, Safe, PTL

\* A run that is over leaves no process of its group and no reading task.
THEOREM NothingStays == Spec => []NothingLeftBehind
<1>1. IInv => NothingLeftBehind
  BY DEF IInv, TypeOK, GroupInv, CaptureInv, OutcomeInv, NothingLeftBehind, Past
<1> QED BY <1>1, Safe, PTL

\* Bytes that are reported are all that was written, up to the limit.
THEOREM OutputIsComplete == Spec => []OutputComplete
<1>1. IInv => OutputComplete
  BY DEF IInv, TypeOK, CaptureInv, OutputComplete, Limited
<1> QED BY <1>1, Safe, PTL

\* The exit that is reported is the shell's own.
THEOREM ExitIsItsOwn == Spec => []OutcomeIsTrue
<1>1. IInv => OutcomeIsTrue BY DEF IInv, OutcomeInv
<1> QED BY <1>1, Safe, PTL
=============================================================================

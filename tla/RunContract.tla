---------------------------- MODULE RunContract ----------------------------
(***************************************************************************)
(* What the engine promises about its activities, whatever tasks, locks,   *)
(* crashes and failing writes there are: an activity is accepted once,     *)
(* performs its steps in order and each at most once, performs what needs  *)
(* a confirmation only on confirmations of its own, and once it is closed  *)
(* it never does anything again.  It may be forgotten when it is closed.   *)
(***************************************************************************)
EXTENDS Naturals, FiniteSets

CONSTANTS Run, Job, NoJob, NumSteps, Dangerous, AskFirst

VARIABLES
    phase,      \* where each activity stands
    job,        \* the (automation, event) pair it was accepted for
    done,       \* how often each of its steps was performed
    approvals   \* the confirmations it was given

vars == <<phase, job, done, approvals>>

Step == 1 .. NumSteps

Init ==
    /\ phase = [r \in Run |-> "unknown"]
    /\ job = [r \in Run |-> NoJob]
    /\ done = [r \in Run |-> [i \in Step |-> 0]]
    /\ approvals = [r \in Run |-> 0]

Moves(r, from, to) ==
    /\ phase[r] \in from
    /\ \E p \in to : phase' = [phase EXCEPT ![r] = p]

\* An activity comes into being open, or is closed (skipped) at once.
Accept(r) ==
    /\ Moves(r, {"unknown"}, {"open", "closed"})
    /\ \E j \in Job : job' = [job EXCEPT ![r] = j]
    /\ UNCHANGED <<done, approvals>>

Ask(r) == Moves(r, {"open"}, {"waiting"}) /\ UNCHANGED <<job, done, approvals>>

Approve(r) ==
    /\ Moves(r, {"waiting"}, {"open"})
    /\ approvals' = [approvals EXCEPT ![r] = @ + 1]
    /\ UNCHANGED <<job, done>>

\* The approvals that the steps of S take.
Due(j, S) ==
    Cardinality({i \in S : <<j.auto, i>> \in Dangerous})
      + (IF j.auto \in AskFirst /\ S # {} THEN 1 ELSE 0)

\* The next step is performed, and it and all before it are paid for.
Perform(r, i) ==
    /\ phase[r] = "open"
    /\ done[r] = [j \in Step |-> IF j < i THEN 1 ELSE 0]
    /\ Due(job[r], 1 .. i) <= approvals[r]
    /\ done' = [done EXCEPT ![r][i] = 1]
    /\ UNCHANGED <<phase, job, approvals>>

Close(r) == Moves(r, {"open", "waiting"}, {"closed"}) /\ UNCHANGED <<job, done, approvals>>

Forget(S) ==
    /\ \A r \in S : phase[r] = "closed"
    /\ phase' = [r \in Run |-> IF r \in S THEN "gone" ELSE phase[r]]
    /\ UNCHANGED <<job, done, approvals>>

Next ==
    \/ \E r \in Run :
          \/ Accept(r) \/ Ask(r) \/ Approve(r) \/ Close(r)
          \/ \E i \in Step : Perform(r, i)
    \/ \E S \in SUBSET Run : Forget(S)

Spec == Init /\ [][Next]_vars
=============================================================================

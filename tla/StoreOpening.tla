---------------------------- MODULE StoreOpening ----------------------------
(***************************************************************************)
(* The first use of the store (store.rs, new and db).  Clones of a store   *)
(* share a OnceCell: the first call that needs the pool opens the database *)
(* and makes the schema, one statement after the other, while the others   *)
(* wait; when it fails, or its caller gives up, the next one tries.        *)
(***************************************************************************)
EXTENDS Naturals

CONSTANTS
    Caller,      \* calls of any operation, through any clone
    Statements,  \* statements of the schema, six in the code
    MaxFaults,   \* bound: errors of an intact database, and callers that give up
    MaxCrashes,  \* bound: process crashes
    Nobody

ASSUME StatementsAssumption == Statements \in Nat \ {0}
ASSUME BoundAssumption == MaxFaults \in Nat /\ MaxCrashes \in Nat
ASSUME NobodyAssumption == Nobody \notin Caller

VARIABLES
    file,       \* what is at the path
    made,       \* tables and indices in the file, by the statement that makes them
    cell,       \* the OnceCell: which caller's pool it holds
    permit,     \* the permit of the OnceCell: who initialises it
    pc,         \* where each caller is
    next,       \* the statement each caller executes next
    got,        \* history: the pool each caller was last given
    faults, crashes

disk == <<file, made>>
callers == <<cell, permit, pc, next, got>>
vars == <<disk, callers, faults, crashes>>

TypeOK ==
    /\ file \in {"nowhere", "absent", "database", "corrupt"}
    /\ made \subseteq 1 .. Statements
    /\ cell \in Caller \cup {Nobody}
    /\ permit \in Caller \cup {Nobody}
    /\ pc \in [Caller -> {"idle", "wait", "connect", "schema"}]
    /\ next \in [Caller -> 1 .. Statements + 1]
    /\ got \in [Caller -> Caller \cup {Nobody}]
    /\ faults \in 0 .. MaxFaults /\ crashes \in 0 .. MaxCrashes

\* new looks at nothing and opens nothing: it succeeds wherever the path leads.
Init ==
    /\ file \in {"nowhere", "absent", "corrupt"}
    /\ made = {}
    /\ cell = Nobody /\ permit = Nobody
    /\ pc = [c \in Caller |-> "idle"]
    /\ next = [c \in Caller |-> 1]
    /\ got = [c \in Caller |-> Nobody]
    /\ faults = 0 /\ crashes = 0

At(c, from, to) == pc[c] = from /\ pc' = [pc EXCEPT ![c] = to]
Release(c) == permit' = IF permit = c THEN Nobody ELSE permit
Give(c, pool) == got' = [got EXCEPT ![c] = pool]

-----------------------------------------------------------------------------
\* get_or_try_init: the value if there is one.
Call(c) ==
    /\ \/ cell # Nobody /\ At(c, "idle", "idle") /\ Give(c, cell)
       \/ cell = Nobody /\ At(c, "idle", "wait") /\ UNCHANGED got
    /\ UNCHANGED <<disk, cell, permit, next, faults, crashes>>

\* Mutant: everybody who finds no value makes one.
AcquireTogether(c) ==
    /\ At(c, "wait", "connect")
    /\ permit' = c
    /\ UNCHANGED <<disk, cell, next, got, faults, crashes>>

Acquire(c) ==
    /\ cell = Nobody /\ permit = Nobody
    /\ At(c, "wait", "connect")
    /\ permit' = c
    /\ UNCHANGED <<disk, cell, next, got, faults, crashes>>

\* Somebody else has set the value.
Awake(c) ==
    /\ cell # Nobody
    /\ At(c, "wait", "idle")
    /\ Give(c, cell)
    /\ UNCHANGED <<disk, cell, permit, next, faults, crashes>>

\* Mutant: a file that cannot be read is replaced by a new one.
OpenAnew == file' = "database" /\ made' = IF file = "database" THEN made ELSE {}

\* A missing file is made; what is there is not looked into yet.
OpenFile == file' = (IF file = "absent" THEN "database" ELSE file) /\ UNCHANGED made

\* Mutant: the schema is left alone when some of it is there.
UnlessBegun == IF made = {} THEN 1 ELSE Statements + 1

\* Every opening goes through all of the schema.
FirstStatement == 1

Connect(c) ==
    /\ file # "nowhere"
    /\ At(c, "connect", "schema")
    /\ next' = [next EXCEPT ![c] = FirstStatement]
    /\ OpenFile
    /\ UNCHANGED <<cell, permit, got, faults, crashes>>

\* CREATE ... IF NOT EXISTS
Execute(c) ==
    /\ next[c] <= Statements /\ file = "database"
    /\ At(c, "schema", "schema")
    /\ made' = made \cup {next[c]}
    /\ next' = [next EXCEPT ![c] = @ + 1]
    /\ UNCHANGED <<file, cell, permit, got, faults, crashes>>

Publish(c) ==
    /\ next[c] = Statements + 1
    /\ At(c, "schema", "idle")
    /\ cell' = c
    /\ Release(c)
    /\ Give(c, c)
    /\ UNCHANGED <<disk, next, faults, crashes>>

Broken == file \in {"nowhere", "corrupt"}

Opening(c) == pc[c] \in {"connect", "schema"}

\* Mutant: a failed opening keeps the permit.
StopInitialising(c) == UNCHANGED permit

EndOpening(c) == Release(c)

\* An error is returned, the pool is dropped, and nothing is kept of it in the cell.
Fail(c) ==
    /\ Opening(c)
    /\ \/ Broken /\ UNCHANGED faults
       \/ ~Broken /\ faults < MaxFaults /\ faults' = faults + 1
    /\ pc' = [pc EXCEPT ![c] = "idle"]
    /\ EndOpening(c)
    /\ UNCHANGED <<disk, cell, next, got, crashes>>

\* The caller's future is dropped where it waits.
GiveUp(c) ==
    /\ pc[c] # "idle"
    /\ faults < MaxFaults /\ faults' = faults + 1
    /\ pc' = [pc EXCEPT ![c] = "idle"]
    /\ Release(c)
    /\ UNCHANGED <<disk, cell, next, got, crashes>>

\* Another process goes on with the same file.
Crash ==
    /\ crashes < MaxCrashes /\ crashes' = crashes + 1
    /\ cell' = Nobody /\ permit' = Nobody
    /\ pc' = [c \in Caller |-> "idle"]
    /\ got' = [c \in Caller |-> Nobody]
    /\ UNCHANGED <<disk, next, faults>>

MakeDirectory ==
    /\ file = "nowhere"
    /\ file' = "absent"
    /\ UNCHANGED <<made, callers, faults, crashes>>

Step(c) == Acquire(c) \/ Awake(c) \/ Connect(c) \/ Execute(c) \/ Publish(c) \/ Fail(c)

Next == (\E c \in Caller : Call(c) \/ Step(c) \/ GiveUp(c)) \/ Crash \/ MakeDirectory

Spec == Init /\ [][Next]_vars

\* Who has been called goes on; the permit is a fair semaphore's.
FairSpec == Spec /\ \A c \in Caller : WF_vars(Step(c)) /\ SF_vars(Acquire(c))

-----------------------------------------------------------------------------
\* "Clones share the initialized pool": one caller opens at a time, and all that were given
\* a pool since the process started have the same.
OnePool ==
    /\ \A c \in Caller : got[c] # Nobody => got[c] = cell
    /\ \A c, d \in Caller : Opening(c) /\ Opening(d) => c = d

\* Whoever has a pool finds the whole schema, after whatever openings were cut short.
SchemaBeforeUse == \A c \in Caller : got[c] # Nobody => made = 1 .. Statements

Missing == file \in {"nowhere", "absent"}

\* "Corrupt databases are not silently replaced", and no opening undoes what an earlier
\* one has made.
NothingReplaced == [][made \subseteq made' /\ (~Missing => file' = file)]_vars

\* "Unsuccessful initialization remains retryable": while somebody tries again and again, a
\* database that can be opened from some moment on is opened.
Retryable ==
    <>[]~Broken /\ []<>(\E c \in Caller : pc[c] # "idle") => <>(cell # Nobody)
=============================================================================

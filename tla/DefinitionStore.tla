-------------------------- MODULE DefinitionStore --------------------------
(***************************************************************************)
(* Definitions and who works on them.  Windows of the desktop read a       *)
(* definition, edit their copy and save it under an optimistic revision    *)
(* (engine.rs save, set_enabled, delete; store.rs save, delete).  The      *)
(* importer saves the definitions of the old workflow database once each.  *)
(*                                                                         *)
(* A save reads and writes with the gate held, and its writes are one      *)
(* transaction; windows and importer read without the gate.                *)
(***************************************************************************)
EXTENDS Naturals, FiniteSets

CONSTANTS
    Id,              \* ids of definitions
    Window,          \* the clients of the engine
    Importer,        \* the client that imports legacy definitions
    Key,             \* hotkeys
    Legacy,          \* ids in the legacy database
    MaxDefinitions,  \* 256 in the code
    ReusesIds,       \* a new definition may get the id of a deleted one
    MaxBodies,       \* bound: contents written in a behaviour
    MaxChanges,      \* bound: changes announced in the life of a process
    MaxCrashes,      \* bound: process crashes in a behaviour
    MaxLateBodies,   \* bound: contents written in a behaviour with a crash
    NoDef, NoKey, NoLegacy, NoWindow

ASSUME LimitAssumption == MaxDefinitions \in Nat \ {0} /\ MaxBodies \in Nat
                             /\ MaxChanges \in Nat /\ MaxCrashes \in Nat /\ MaxLateBodies \in Nat
ASSUME ImporterAssumption == Importer \in Window /\ NoWindow \notin Window
ASSUME ReuseAssumption == ReusesIds \in BOOLEAN

\* The body is everything a user may edit besides; every edit makes a new one.
Body == 0 .. MaxBodies
Definition == [revision : 0 .. MaxBodies, enabled : BOOLEAN, key : Key \cup {NoKey},
               legacy : Legacy \cup {NoLegacy}, body : Body]

ASSUME NoDefAssumption == NoDef \notin Definition

VARIABLES
    rows,        \* table automations
    tombstones,  \* table automation_migrations
    held,        \* the copy each window edits, with its id
    gate,        \* the call that holds the gate: who, at which stage, for which id
    counter,     \* Inner.configuration
    bodies,      \* contents written so far
    crashes,     \* crashes so far
    used,        \* history: ids that were ever handed out
    base,        \* history: the body each window's copy was read with
    imports      \* history: how often each legacy definition was imported

history == <<used, base, imports>>
vars == <<rows, tombstones, held, gate, counter, bodies, crashes, history>>

Draft == [id : Id, def : Definition]
Free == [who |-> NoWindow, stage |-> "free", id |-> NoDef]

TypeOK ==
    /\ rows \in [Id -> Definition \cup {NoDef}]
    /\ tombstones \subseteq Legacy
    /\ held \in [Window -> Draft \cup {NoDef}]
    /\ gate \in [who : Window \cup {NoWindow}, stage : {"free", "commit", "announce"},
                 id : Id \cup {NoDef}]
    /\ counter \in 0 .. MaxChanges
    /\ bodies \in Body
    /\ crashes \in 0 .. MaxCrashes
    /\ used \subseteq Id
    /\ base \in [Window -> Body]
    /\ imports \in [Legacy -> Nat]

Init ==
    /\ rows = [i \in Id |-> NoDef]
    /\ tombstones = {}
    /\ held = [w \in Window |-> NoDef]
    /\ gate = Free
    /\ counter = 0
    /\ bodies = 0
    /\ crashes = 0
    /\ used = {}
    /\ base = [w \in Window |-> 0]
    /\ imports = [l \in Legacy |-> 0]

Stored == {i \in Id : rows[i] # NoDef}

-----------------------------------------------------------------------------
(* Reads that take no gate.                                                *)

\* A window's copy changes while no save of the window is under way.
Hold(w, i, def) ==
    /\ gate.who # w
    /\ held' = [held EXCEPT ![w] = [id |-> i, def |-> def]]
    /\ UNCHANGED <<rows, tombstones, gate, counter, crashes, imports>>

\* get: a window opens a definition.
Open(w, i) ==
    /\ w # Importer
    /\ i \in Stored
    /\ Hold(w, i, rows[i])
    /\ base' = [base EXCEPT ![w] = rows[i].body]
    /\ UNCHANGED <<bodies, used>>

\* A content that nobody wrote before.
NewBody ==
    /\ bodies < MaxBodies
    /\ crashes > 0 => bodies < MaxLateBodies
    /\ bodies' = bodies + 1

\* A new definition comes with an id of its own (a uuid), unless the caller gives it another.
Unused(i) == i \notin Stored /\ (i \in used => ReusesIds)

NewDefinition(enabled, key, l) ==
    [revision |-> 0, enabled |-> enabled, key |-> key, legacy |-> l, body |-> bodies + 1]

New(w, i, enabled, key) ==
    /\ w # Importer
    /\ Unused(i)
    /\ used' = used \cup {i}
    /\ NewBody
    /\ Hold(w, i, NewDefinition(enabled, key, NoLegacy))
    /\ UNCHANGED base

\* The importer asks migrated before it saves.
Import(i, l) ==
    /\ l \notin tombstones
    /\ Unused(i)
    /\ used' = used \cup {i}
    /\ NewBody
    /\ Hold(Importer, i, NewDefinition(FALSE, NoKey, l))
    /\ UNCHANGED base

\* The user changes the copy.
Edit(w, enabled, key) ==
    /\ held[w] # NoDef
    /\ NewBody
    /\ Hold(w, held[w].id, [held[w].def EXCEPT !.enabled = enabled, !.key = key, !.body = bodies + 1])
    /\ UNCHANGED <<base, used>>

\* set_enabled reads the definition before its save takes the gate.
SetEnabled(w, i, enabled) ==
    /\ w # Importer
    /\ i \in Stored
    /\ NewBody
    /\ Hold(w, i, [rows[i] EXCEPT !.enabled = enabled, !.body = bodies + 1])
    /\ base' = [base EXCEPT ![w] = rows[i].body]
    /\ UNCHANGED used

-----------------------------------------------------------------------------
(* save                                                                    *)

GateFree == gate = Free

\* Mutant: the limit is one too high.
FullTooLate(def) == def.revision = 0 /\ Cardinality(Stored) > MaxDefinitions

Full(def) == def.revision = 0 /\ Cardinality(Stored) >= MaxDefinitions

\* Mutant: the stored copy of the definition itself is compared, the others are not.
KeyTakenBySelf(i, def) == def.key # NoKey /\ rows[i] # NoDef /\ rows[i].key = def.key

KeyTaken(i, def) ==
    /\ def.key # NoKey
    /\ \E j \in Stored \ {i} : rows[j].enabled /\ rows[j].key = def.key

\* The tests of save; preflight may find more in an enabled definition's way: RefuseSave.
SaveCheck(w) ==
    /\ GateFree /\ counter < MaxChanges
    /\ held[w] # NoDef
    /\ ~Full(held[w].def)
    /\ held[w].def.enabled => ~KeyTaken(held[w].id, held[w].def)
    /\ gate' = [who |-> w, stage |-> "commit", id |-> held[w].id]
    /\ UNCHANGED <<rows, tombstones, held, counter, bodies, crashes, history>>

\* Issues found, a conflict or a database error: nothing is stored.
RefuseSave(w) ==
    /\ gate.who = w /\ gate.stage = "commit"
    /\ gate' = Free
    /\ UNCHANGED <<rows, tombstones, held, counter, bodies, crashes, history>>

\* Mutant: any copy may be saved.
AlwaysCurrent(i, def) == TRUE

Current(i, def) == def.revision = (IF rows[i] = NoDef THEN 0 ELSE rows[i].revision)

\* UNIQUE(legacy_id)
LegacyClash(i, def) ==
    def.legacy # NoLegacy /\ \E j \in Stored \ {i} : rows[j].legacy = def.legacy

\* Mutant: an import leaves no tombstone.
NoTombstone(def) == tombstones

WithTombstone(def) == tombstones \cup ({def.legacy} \ {NoLegacy})

SaveCommit(w) ==
    LET i == held[w].id
        def == [held[w].def EXCEPT !.revision = @ + 1,
                                   !.legacy = IF i \in Stored THEN rows[i].legacy ELSE @]
    IN  /\ gate.who = w /\ gate.stage = "commit" /\ held[w] # NoDef
        /\ Current(i, held[w].def)
        /\ ~LegacyClash(i, def)
        /\ def.revision <= MaxBodies
        /\ rows' = [rows EXCEPT ![i] = def]
        /\ tombstones' = WithTombstone(def)
        /\ imports' = IF i \in Stored \/ def.legacy = NoLegacy THEN imports
                      ELSE [imports EXCEPT ![def.legacy] = @ + 1]
        /\ held' = [held EXCEPT ![w].def = def]
        /\ base' = [base EXCEPT ![w] = def.body]
        /\ gate' = [gate EXCEPT !.stage = "announce"]
        /\ UNCHANGED <<counter, bodies, crashes, used>>

\* delete: definition and schedule go, the tombstone stays.
Delete(w, i) ==
    /\ GateFree /\ counter < MaxChanges
    /\ w # Importer
    /\ rows' = [rows EXCEPT ![i] = NoDef]
    /\ gate' = [who |-> w, stage |-> "announce", id |-> i]
    /\ UNCHANGED <<tombstones, held, counter, bodies, crashes, history>>

\* Mutant: the counter is left alone after a delete.
AnnounceSavesOnly ==
    /\ gate.stage = "announce"
    /\ counter' = IF gate.id \in Stored THEN counter + 1 ELSE counter
    /\ gate' = Free
    /\ UNCHANGED <<rows, tombstones, held, bodies, crashes, history>>

\* The configuration counter goes up after the commit, then the gate is dropped.
Announce ==
    /\ gate.stage = "announce"
    /\ counter' = counter + 1
    /\ gate' = Free
    /\ UNCHANGED <<rows, tombstones, held, bodies, crashes, history>>

-----------------------------------------------------------------------------
\* The process dies; the tables survive.
Crash ==
    /\ crashes < MaxCrashes /\ bodies <= MaxLateBodies
    /\ crashes' = crashes + 1
    /\ held' = [w \in Window |-> NoDef]
    /\ gate' = Free
    /\ counter' = 0
    /\ UNCHANGED <<rows, tombstones, bodies, history>>

Calls ==
    \/ \E w \in Window, i \in Id :
          \/ Open(w, i) \/ Delete(w, i)
          \/ \E enabled \in BOOLEAN :
                \/ SetEnabled(w, i, enabled)
                \/ \E key \in Key \cup {NoKey} : New(w, i, enabled, key)
    \/ \E i \in Id, l \in Legacy : Import(i, l)
    \/ \E w \in Window, enabled \in BOOLEAN, key \in Key \cup {NoKey} : Edit(w, enabled, key)
    \/ \E w \in Window : SaveCheck(w) \/ RefuseSave(w) \/ SaveCommit(w)
    \/ Announce

Next == Calls \/ Crash

Spec == Init /\ [][Next]_vars

-----------------------------------------------------------------------------
\* A save never replaces a content its window has not read ("the configuration was
\* modified in another window; reopen it before saving").
NoLostUpdate ==
    [][\A i \in Stored : rows'[i] # NoDef /\ rows'[i] # rows[i]
          => base[gate.who] = rows[i].body]_vars

\* Two enabled definitions never listen to one shortcut.
HotkeyUnique ==
    \A i, j \in Stored :
       /\ rows[i].enabled /\ rows[j].enabled
       /\ rows[i].key # NoKey /\ rows[i].key = rows[j].key
       => i = j

\* There are never more definitions than the limit.
WithinLimit == Cardinality(Stored) <= MaxDefinitions

\* No legacy definition comes in twice, deleted, edited or interrupted in between.
ImportedOnce == \A l \in Legacy : imports[l] <= 1
=============================================================================

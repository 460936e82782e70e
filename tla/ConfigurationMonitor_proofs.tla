--------------------- MODULE ConfigurationMonitor_proofs ---------------------
(***************************************************************************)
(* Theorems about DefinitionStore, for any number of ids, windows, hotkeys *)
(* and legacy definitions and any limit, and about ConfigurationMonitor,   *)
(* which extends it.                                                       *)
(***************************************************************************)
EXTENDS ConfigurationMonitor, FiniteSetTheorems, TLAPS

Saving(w) == gate.who = w /\ gate.stage = "commit"

\* A call that holds the gate has passed the tests it made, and its copy waits for it.
GateInv ==
    /\ gate.stage = "free" => gate = Free
    /\ gate.stage # "free" => counter < MaxChanges
    /\ \A w \in Window : Saving(w) =>
          /\ held[w] # NoDef /\ gate.id = held[w].id
          /\ ~Full(held[w].def)
          /\ held[w].def.enabled => ~KeyTaken(held[w].id, held[w].def)

\* What was stored once has a revision; only the importer has a copy of a legacy
\* definition that is new, and it asked for its tombstone.
LegacyInv ==
    /\ \A i \in Stored : rows[i].revision > 0 /\ rows[i].legacy \in tombstones \cup {NoLegacy}
    /\ \A w \in Window : held[w] # NoDef /\ held[w].def.revision = 0 =>
          held[w].def.legacy = NoLegacy \/ (w = Importer /\ held[w].def.legacy \notin tombstones)
    /\ \A l \in Legacy : imports[l] <= 1 /\ (imports[l] > 0 => l \in tombstones)

LimitInv == IsFiniteSet(Stored) /\ WithinLimit

IInv == TypeOK /\ GateInv /\ LegacyInv /\ HotkeyUnique /\ LimitInv

USE LimitAssumption, ImporterAssumption, ReuseAssumption, NoDefAssumption

LEMMA InitInv == Init => IInv
<1> SUFFICES ASSUME Init PROVE IInv OBVIOUS
<1> USE DEF Init
<1>1. Stored = {} BY DEF Stored
<1>2. TypeOK BY DEF TypeOK, Body, Free
<1>3. GateInv BY DEF GateInv, Free, Saving
<1>4. LegacyInv BY <1>1 DEF LegacyInv
<1>5. HotkeyUnique BY <1>1 DEF HotkeyUnique
<1>6. LimitInv BY <1>1, FS_EmptySet DEF LimitInv, WithinLimit
<1> QED BY <1>2, <1>3, <1>4, <1>5, <1>6 DEF IInv

\* The call that saves, with what it reads: the copy w has, and what it stores.
Commit(w, i, def) ==
    /\ i = held[w].id
    /\ def = [held[w].def EXCEPT !.revision = @ + 1,
                                 !.legacy = IF i \in Stored THEN rows[i].legacy ELSE @]
    /\ gate.who = w /\ gate.stage = "commit" /\ held[w] # NoDef
    /\ Current(i, held[w].def)
    /\ def.revision <= MaxBodies
    /\ rows' = [rows EXCEPT ![i] = def]
    /\ tombstones' = WithTombstone(def)
    /\ imports' = IF i \in Stored \/ def.legacy = NoLegacy THEN imports
                  ELSE [imports EXCEPT ![def.legacy] = @ + 1]
    /\ held' = [held EXCEPT ![w].def = def]
    /\ base' = [base EXCEPT ![w] = def.body]
    /\ gate' = [gate EXCEPT !.stage = "announce"]
    /\ UNCHANGED <<counter, bodies, crashes, used>>

\* Where the copy comes from: it is new, read, or the one the window has.
CopyIsNew(i, def) == Unused(i) /\ def.revision = 0 /\ used' = used \cup {i}
CopyIsRead(w, i, def) ==
    /\ i \in Stored /\ def.revision = rows[i].revision
    /\ base'[w] = rows[i].body /\ used' = used
CopyIsEdited(w, i, def) ==
    /\ held[w] # NoDef /\ held[w].id = i /\ def.revision = held[w].def.revision
    /\ base' = base /\ used' = used

\* A step that changes the copy of one window, of one definition, while none of its saves
\* is under way.
Copies(w, i, def) ==
    /\ Hold(w, i, def)
    /\ def \in Definition
    /\ bodies' \in Body /\ used \subseteq used' /\ used' \subseteq used \cup {i}
    /\ base' \in [Window -> Body] /\ \A v \in Window \ {w} : base'[v] = base[v]
    /\ CopyIsNew(i, def) \/ CopyIsRead(w, i, def) \/ CopyIsEdited(w, i, def)
    /\ def.revision = 0 => def.legacy = NoLegacy \/ (w = Importer /\ def.legacy \notin tombstones)

\* What an edit and what a save make of a copy.
LEMMA EditedCopy ==
    ASSUME NEW d \in Definition, NEW e \in BOOLEAN, NEW k \in Key \cup {NoKey}, NEW b \in Body
    PROVE  [d EXCEPT !.enabled = e, !.key = k, !.body = b] \in Definition
BY DEF Definition

LEMMA SavedCopy ==
    ASSUME NEW d \in Definition, NEW r \in 0 .. MaxBodies, NEW l \in Legacy \cup {NoLegacy}
    PROVE  [d EXCEPT !.revision = r, !.legacy = l] \in Definition
BY DEF Definition

LEMMA StepForms ==
    ASSUME TypeOK, LegacyInv, Calls
    PROVE \/ \E w \in Window, i \in Id, def \in Definition : Copies(w, i, def)
          \/ \E w \in Window, i \in Id, def \in Definition : Commit(w, i, def)
          \/ \E w \in Window, i \in Id : Delete(w, i)
          \/ \E w \in Window : SaveCheck(w) \/ RefuseSave(w)
          \/ Announce
<1> USE DEF TypeOK, Body
<1>1. ASSUME NEW w \in Window, NEW i \in Id, Open(w, i)
      PROVE \E v \in Window, j \in Id, def \in Definition : Copies(v, j, def)
  <2>1. rows[i] \in Definition BY <1>1 DEF Open, Stored
  <2>2. rows[i].body \in Body BY <2>1 DEF Definition
  <2>3. rows[i].revision # 0 BY <1>1 DEF Open, LegacyInv
  <2>5. CopyIsRead(w, i, rows[i]) BY <1>1 DEF Open, CopyIsRead
  <2>6. base' \in [Window -> Body] /\ \A v \in Window \ {w} : base'[v] = base[v] BY <1>1, <2>2 DEF Open
  <2>4. Copies(w, i, rows[i]) BY <1>1, <2>1, <2>3, <2>5, <2>6 DEF Open, Copies
  <2> QED BY <2>1, <2>4
<1>2. ASSUME NEW w \in Window, NEW i \in Id, NEW enabled \in BOOLEAN, SetEnabled(w, i, enabled)
      PROVE \E v \in Window, j \in Id, def \in Definition : Copies(v, j, def)
  <2> DEFINE def == [rows[i] EXCEPT !.enabled = enabled, !.body = bodies + 1]
  <2>1. rows[i] \in Definition BY <1>2 DEF SetEnabled, Stored
  <2>2. rows[i].body \in Body /\ bodies + 1 \in Body BY <1>2, <2>1 DEF Definition, SetEnabled, NewBody
  <2>3. def \in Definition BY <2>1, <2>2 DEF Definition
  <2>4. def.revision # 0 BY <1>2, <2>1 DEF SetEnabled, LegacyInv, Definition
  <2>a. CopyIsRead(w, i, def) BY <1>2, <2>1 DEF SetEnabled, CopyIsRead, Definition
  <2>b. base' \in [Window -> Body] /\ \A v \in Window \ {w} : base'[v] = base[v] BY <1>2, <2>2 DEF SetEnabled
  <2>5. Copies(w, i, def) BY <1>2, <2>2, <2>3, <2>4, <2>a, <2>b DEF SetEnabled, NewBody, Copies
  <2> QED BY <2>3, <2>5
<1>3. ASSUME NEW w \in Window, NEW i \in Id, NEW enabled \in BOOLEAN, NEW key \in Key \cup {NoKey},
             New(w, i, enabled, key)
      PROVE \E v \in Window, j \in Id, def \in Definition : Copies(v, j, def)
  <2> DEFINE def == NewDefinition(enabled, key, NoLegacy)
  <2>1. def \in Definition BY <1>3 DEF New, NewBody, NewDefinition, Definition
  <2>2. def.legacy = NoLegacy BY DEF NewDefinition
  <2>a. CopyIsNew(i, def) BY <1>3 DEF New, CopyIsNew, NewDefinition
  <2>3. Copies(w, i, def) BY <1>3, <2>1, <2>2, <2>a DEF New, NewBody, Copies
  <2> QED BY <2>1, <2>3
<1>4. ASSUME NEW i \in Id, NEW l \in Legacy, Import(i, l)
      PROVE \E v \in Window, j \in Id, def \in Definition : Copies(v, j, def)
  <2> DEFINE def == NewDefinition(FALSE, NoKey, l)
  <2>1. def \in Definition BY <1>4 DEF Import, NewBody, NewDefinition, Definition
  <2>2. def.legacy = l BY DEF NewDefinition
  <2>a. Hold(Importer, i, def) /\ used' = used \cup {i} /\ l \notin tombstones BY <1>4 DEF Import
  <2>b. bodies' \in Body /\ base' = base BY <1>4 DEF Import, NewBody
  <2>3. base' \in [Window -> Body] BY <2>b
  <2>c. CopyIsNew(i, def) BY <1>4 DEF Import, CopyIsNew, NewDefinition
  <2>4. Copies(Importer, i, def) BY <2>1, <2>2, <2>a, <2>b, <2>c, <2>3 DEF Copies
  <2> QED BY <2>1, <2>4
<1>5. ASSUME NEW w \in Window, NEW enabled \in BOOLEAN, NEW key \in Key \cup {NoKey}, Edit(w, enabled, key)
      PROVE \E v \in Window, j \in Id, def \in Definition : Copies(v, j, def)
  <2> DEFINE def == [held[w].def EXCEPT !.enabled = enabled, !.key = key, !.body = bodies + 1]
  <2>1. held[w] \in Draft BY <1>5 DEF Edit
  <2>2. held[w].id \in Id /\ held[w].def \in Definition BY <2>1 DEF Draft
  <2>a. bodies + 1 \in Body BY <1>5 DEF Edit, NewBody
  <2>3. def \in Definition BY <2>2, <2>a, EditedCopy
  <2>4. def.revision = held[w].def.revision /\ def.legacy = held[w].def.legacy BY <2>2 DEF Definition
  <2>b. CopyIsEdited(w, held[w].id, def) BY <1>5, <2>4 DEF Edit, CopyIsEdited
  <2>5. Copies(w, held[w].id, def)
    BY <1>5, <2>3, <2>4, <2>b DEF Edit, NewBody, Copies, LegacyInv
  <2> QED BY <2>2, <2>3, <2>5
<1>6. ASSUME NEW w \in Window, SaveCommit(w)
      PROVE \E v \in Window, i \in Id, def \in Definition : Commit(v, i, def)
  <2> DEFINE i == held[w].id
             def == [held[w].def EXCEPT !.revision = @ + 1,
                                        !.legacy = IF i \in Stored THEN rows[i].legacy ELSE @]
  <2>1. i \in Id /\ held[w].def \in Definition BY <1>6 DEF SaveCommit, Draft
  <2>2. i \in Stored => rows[i] \in Definition BY <2>1 DEF Stored
  <2>3. def.revision <= MaxBodies BY <1>6 DEF SaveCommit
  <2>a. held[w].def.revision + 1 \in 0 .. MaxBodies BY <2>1, <2>3 DEF Definition
  <2>b. (IF i \in Stored THEN rows[i].legacy ELSE held[w].def.legacy) \in Legacy \cup {NoLegacy}
    BY <2>1, <2>2 DEF Definition
  <2>4. def \in Definition BY <2>1, <2>a, <2>b, SavedCopy
  <2>5. Commit(w, i, def) BY <1>6 DEF SaveCommit, Commit
  <2> QED BY <2>1, <2>4, <2>5
<1> QED BY <1>1, <1>2, <1>3, <1>4, <1>5, <1>6 DEF Calls

LEMMA CopiesKeepInv ==
    ASSUME IInv, NEW w \in Window, NEW i \in Id, NEW def \in Definition, Copies(w, i, def)
    PROVE  IInv'
<1> USE DEF Copies, Hold, IInv
<1>1. Stored' = Stored BY DEF Stored
<1>2. held' \in [Window -> Draft \cup {NoDef}] BY DEF TypeOK, Draft
<1>3. used' \subseteq Id BY DEF TypeOK
<1>4. TypeOK' BY <1>2, <1>3 DEF TypeOK, Body
<1>5. held'[w] = [id |-> i, def |-> def] /\ \A v \in Window \ {w} : held'[v] = held[v] BY DEF TypeOK
<1>6. GateInv'
  <2>1. (gate.stage = "free" => gate = Free)' /\ (gate.stage # "free" => counter < MaxChanges)'
    BY DEF GateInv, Free
  <2>2. ASSUME NEW v \in Window, Saving(v)'
        PROVE  /\ held'[v] # NoDef /\ gate'.id = held'[v].id
               /\ ~Full(held[v].def)'
               /\ held'[v].def.enabled => ~KeyTaken(held[v].id, held[v].def)'
    <3>1. Saving(v) /\ v # w BY <2>2 DEF Saving
    <3>2. held'[v] = held[v] BY <3>1, <1>5
    <3>3. /\ held[v] # NoDef /\ gate.id = held[v].id
          /\ ~Full(held[v].def)
          /\ held[v].def.enabled => ~KeyTaken(held[v].id, held[v].def)
      BY <3>1 DEF GateInv
    <3> QED BY <3>2, <3>3, <1>1 DEF Full, KeyTaken
  <2> QED BY <2>1, <2>2 DEF GateInv
<1>7. LegacyInv'
  <2>1. ASSUME NEW v \in Window, held'[v] # NoDef, held'[v].def.revision = 0
        PROVE  held'[v].def.legacy = NoLegacy \/ (v = Importer /\ held'[v].def.legacy \notin tombstones')
    <3>1. CASE v = w BY <3>1, <2>1, <1>5
    <3>2. CASE v # w BY <3>2, <2>1, <1>5 DEF LegacyInv
    <3> QED BY <3>1, <3>2
  <2> QED BY <2>1, <1>1 DEF LegacyInv
<1>8. HotkeyUnique' BY <1>1 DEF HotkeyUnique
<1>9. LimitInv' BY <1>1 DEF LimitInv, WithinLimit
<1> QED BY <1>4, <1>6, <1>7, <1>8, <1>9

\* What a commit leaves: one row is new or has one revision more.
Committed(w, i, def) ==
    /\ Stored' = Stored \cup {i} /\ rows'[i] = def
    /\ \A j \in Id \ {i} : rows'[j] = rows[j]
    /\ held[w].def \in Definition /\ held[w].def.revision \in Nat
    /\ def.revision = held[w].def.revision + 1
    /\ def.enabled = held[w].def.enabled /\ def.key = held[w].def.key
    /\ def.body = held[w].def.body
    /\ def.legacy = (IF i \in Stored THEN rows[i].legacy ELSE held[w].def.legacy)
    /\ i \notin Stored => held[w].def.revision = 0
    /\ i \in Stored => held[w].def.revision = rows[i].revision
    /\ held'[w] = [id |-> i, def |-> def] /\ \A v \in Window \ {w} : held'[v] = held[v]

LEMMA CommitFacts ==
    ASSUME IInv, NEW w \in Window, NEW i \in Id, NEW def \in Definition, Commit(w, i, def)
    PROVE  Committed(w, i, def)
<1> USE DEF Commit, IInv
<1>1. held[w] \in Draft BY DEF TypeOK
<1>2. held[w].def \in Definition /\ held[w].id = i BY <1>1 DEF Draft
<1>3. held[w].def.revision \in Nat BY <1>2 DEF Definition
<1>4. rows'[i] = def /\ \A j \in Id \ {i} : rows'[j] = rows[j] BY DEF TypeOK
<1>5. Stored' = Stored \cup {i} BY <1>4 DEF Stored
<1>6. /\ def.revision = held[w].def.revision + 1
      /\ def.enabled = held[w].def.enabled /\ def.key = held[w].def.key
      /\ def.body = held[w].def.body
      /\ def.legacy = (IF i \in Stored THEN rows[i].legacy ELSE held[w].def.legacy)
  BY <1>2 DEF Definition
<1>7. /\ i \notin Stored => held[w].def.revision = 0
      /\ i \in Stored => held[w].def.revision = rows[i].revision
  BY DEF Current, Stored
<1>8. held'[w] = [held[w] EXCEPT !.def = def] /\ \A v \in Window \ {w} : held'[v] = held[v]
  BY DEF TypeOK
<1>9. held'[w] = [id |-> i, def |-> def] BY <1>1, <1>2, <1>8 DEF Draft
<1> QED BY <1>2, <1>3, <1>4, <1>5, <1>6, <1>7, <1>8, <1>9 DEF Committed

LEMMA CommitKeepsInv ==
    ASSUME IInv, NEW w \in Window, NEW i \in Id, NEW def \in Definition, Commit(w, i, def)
    PROVE  IInv'
<1> DEFINE l == def.legacy
<1>0. Committed(w, i, def) BY CommitFacts
<1>1. Saving(w) /\ held[w] # NoDef /\ held[w].id = i /\ gate.id = i BY DEF Commit, Saving, IInv, GateInv
<1>2. ~Full(held[w].def) /\ (held[w].def.enabled => ~KeyTaken(i, held[w].def))
  BY <1>1 DEF IInv, GateInv
<1>3. gate'.stage = "announce" /\ gate'.who = gate.who /\ gate'.id = gate.id /\ counter < MaxChanges
      /\ gate' \in [who : Window \cup {NoWindow}, stage : {"free", "commit", "announce"},
                    id : Id \cup {NoDef}]
  BY <1>1 DEF Commit, IInv, TypeOK, GateInv, Saving
<1>4. l \in Legacy \cup {NoLegacy} BY DEF Definition
<1>5. tombstones' = tombstones \cup ({l} \ {NoLegacy}) BY DEF Commit, WithTombstone
<1>6. TypeOK'
  <2>1. rows' \in [Id -> Definition \cup {NoDef}] BY DEF Commit, IInv, TypeOK
  <2>2. tombstones' \subseteq Legacy BY <1>4, <1>5 DEF IInv, TypeOK
  <2>3. held' \in [Window -> Draft \cup {NoDef}]
    <3>1. DOMAIN held' = Window /\ held' = [v \in Window |-> held'[v]] BY DEF Commit, IInv, TypeOK
    <3>2. \A v \in Window : held'[v] \in Draft \cup {NoDef}
      BY <1>0 DEF Draft, IInv, TypeOK, Committed
    <3> QED BY <3>1, <3>2
  <2>4. base' \in [Window -> Body] BY DEF Commit, IInv, TypeOK, Definition
  <2>5. imports' \in [Legacy -> Nat] BY <1>4 DEF Commit, IInv, TypeOK
  <2>6. UNCHANGED <<counter, bodies, crashes, used>> BY DEF Commit
  <2> QED BY <1>3, <2>1, <2>2, <2>3, <2>4, <2>5, <2>6 DEF TypeOK, IInv
<1>7. GateInv' BY <1>3 DEF GateInv, Commit, Saving
<1>8. LegacyInv'
  <2>1. \A j \in Stored' : rows'[j].revision > 0 /\ rows'[j].legacy \in tombstones' \cup {NoLegacy}
    <3>1. ASSUME NEW j \in Stored' PROVE rows'[j].revision > 0 /\ rows'[j].legacy \in tombstones' \cup {NoLegacy}
      <4>1. CASE j = i BY <4>1, <1>5, <1>0 DEF Committed
      <4>2. CASE j # i
        <5>1. j \in Stored /\ j \in Id /\ rows'[j] = rows[j] BY <4>2, <3>1, <1>0 DEF Stored, Committed
        <5> QED BY <5>1, <1>5 DEF IInv, LegacyInv
      <4> QED BY <4>1, <4>2
    <3> QED BY <3>1
  <2>2. i \notin Stored /\ l # NoLegacy => w = Importer /\ l \notin tombstones
    BY <1>1, <1>0 DEF IInv, LegacyInv, Committed
  <2>3. i \in Stored => l \in tombstones \cup {NoLegacy} BY <1>0 DEF IInv, LegacyInv, Committed
  <2>4. ASSUME NEW v \in Window, held'[v] # NoDef, held'[v].def.revision = 0
        PROVE  held'[v].def.legacy = NoLegacy \/ (v = Importer /\ held'[v].def.legacy \notin tombstones')
    <3>1. v # w BY <2>4, <1>0 DEF Committed
    <3>2. held'[v] = held[v] BY <3>1, <1>0 DEF Committed
    <3>3. held[v].def.legacy = NoLegacy \/ (v = Importer /\ held[v].def.legacy \notin tombstones)
      BY <2>4, <3>2 DEF IInv, LegacyInv
    <3>4. v = Importer => tombstones' = tombstones BY <3>1, <2>2, <2>3, <1>5
    <3> QED BY <3>2, <3>3, <3>4
  <2>5. \A k \in Legacy : imports'[k] <= 1 /\ (imports'[k] > 0 => k \in tombstones')
    <3>1. CASE i \in Stored \/ l = NoLegacy
      <4>1. imports' = imports BY <3>1 DEF Commit
      <4> QED BY <4>1, <1>5 DEF IInv, LegacyInv
    <3>2. CASE i \notin Stored /\ l # NoLegacy
      <4>1. l \in Legacy /\ l \notin tombstones /\ l \in tombstones' BY <3>2, <2>2, <1>4, <1>5
      <4>2. imports[l] \in Nat /\ ~(imports[l] > 0) BY <4>1 DEF IInv, LegacyInv, TypeOK
      <4>3. imports' = [imports EXCEPT ![l] = @ + 1] BY <3>2 DEF Commit
      <4>4. imports'[l] = 1 BY <4>1, <4>2, <4>3 DEF IInv, TypeOK
      <4>5. \A k \in Legacy \ {l} : imports'[k] = imports[k] BY <4>3 DEF IInv, TypeOK
      <4>6. \A k \in Legacy : imports[k] <= 1 /\ (imports[k] > 0 => k \in tombstones)
        BY DEF IInv, LegacyInv
      <4>7. tombstones \subseteq tombstones' BY <1>5
      <4> QED BY <4>1, <4>4, <4>5, <4>6, <4>7
    <3> QED BY <3>1, <3>2
  <2> QED BY <2>1, <2>4, <2>5 DEF LegacyInv
<1>9. HotkeyUnique'
  <2>1. SUFFICES ASSUME NEW j \in Stored', NEW k \in Stored', j # k,
                        rows'[j].enabled, rows'[k].enabled,
                        rows'[j].key # NoKey, rows'[j].key = rows'[k].key
                 PROVE  FALSE
    BY DEF HotkeyUnique
  <2>2. \A m \in Stored : ~(m # i /\ def.enabled /\ def.key # NoKey /\ rows[m].enabled /\ rows[m].key = def.key)
    BY <1>2, <1>0 DEF KeyTaken, Committed
  <2>3. CASE j # i /\ k # i
    <3>1. j \in Stored /\ k \in Stored /\ rows'[j] = rows[j] /\ rows'[k] = rows[k]
      BY <2>3, <1>0 DEF Stored, Committed
    <3> QED BY <3>1, <2>1 DEF IInv, HotkeyUnique
  <2>4. CASE j = i
    <3>1. k \in Stored /\ rows'[k] = rows[k] /\ rows'[j] = def BY <2>1, <2>4, <1>0 DEF Stored, Committed
    <3> QED BY <3>1, <2>1, <2>2, <2>4
  <2>5. CASE k = i
    <3>1. j \in Stored /\ rows'[j] = rows[j] /\ rows'[k] = def BY <2>1, <2>5, <1>0 DEF Stored, Committed
    <3> QED BY <3>1, <2>1, <2>2, <2>5
  <2> QED BY <2>3, <2>4, <2>5
<1>10. LimitInv'
  <2>1. Stored' = Stored \cup {i} /\ IsFiniteSet(Stored) /\ Cardinality(Stored) <= MaxDefinitions
    BY <1>0 DEF IInv, LimitInv, WithinLimit, Committed
  <2>2. Cardinality(Stored) \in Nat BY <2>1, FS_CardinalityType
  <2>3. i \notin Stored => Cardinality(Stored) < MaxDefinitions
    BY <1>2, <2>2, <1>0 DEF Full, Committed
  <2>4. IsFiniteSet(Stored') /\ Cardinality(Stored') = (IF i \in Stored THEN Cardinality(Stored) ELSE Cardinality(Stored) + 1)
    BY <2>1, FS_AddElement
  <2> QED BY <2>1, <2>2, <2>3, <2>4 DEF LimitInv, WithinLimit
<1> QED BY <1>6, <1>7, <1>8, <1>9, <1>10 DEF IInv

LEMMA DeleteKeepsInv ==
    ASSUME IInv, NEW w \in Window, NEW i \in Id, Delete(w, i)
    PROVE  IInv'
<1> USE DEF Delete, GateFree, Free, history
<1>1. \A j \in Id : rows'[j] = IF j = i THEN NoDef ELSE rows[j] BY DEF IInv, TypeOK
<1>2. Stored' = Stored \ {i} BY <1>1 DEF Stored
<1>3. \A j \in Stored' : rows'[j] = rows[j] BY <1>1, <1>2 DEF Stored
<1>4. TypeOK' BY DEF IInv, TypeOK
<1>5. GateInv' BY DEF GateInv, Saving
<1>6. LegacyInv' BY <1>2, <1>3 DEF IInv, LegacyInv
<1>7. HotkeyUnique' BY <1>2, <1>3 DEF IInv, HotkeyUnique
<1>8. LimitInv'
  <2>1. IsFiniteSet(Stored) /\ Cardinality(Stored) <= MaxDefinitions BY DEF IInv, LimitInv, WithinLimit
  <2>2. Stored' \subseteq Stored BY <1>2
  <2>3. IsFiniteSet(Stored') /\ Cardinality(Stored') <= Cardinality(Stored) BY <2>1, <2>2, FS_Subset
  <2>4. Cardinality(Stored) \in Nat /\ Cardinality(Stored') \in Nat BY <2>1, <2>3, FS_CardinalityType
  <2> QED BY <2>1, <2>3, <2>4 DEF LimitInv, WithinLimit
<1> QED BY <1>4, <1>5, <1>6, <1>7, <1>8 DEF IInv

\* The rows, the tombstones, the imports and the copies are left alone.
Rests == UNCHANGED <<rows, tombstones, held, bodies, history>>

LEMMA RestsKeep ==
    ASSUME IInv, Rests
    PROVE  LegacyInv' /\ HotkeyUnique' /\ LimitInv'
<1> USE DEF Rests, history, IInv
<1>1. Stored' = Stored BY DEF Stored
<1>2. LegacyInv' BY <1>1 DEF LegacyInv
<1>3. HotkeyUnique' BY <1>1 DEF HotkeyUnique
<1>4. LimitInv' BY <1>1 DEF LimitInv, WithinLimit
<1> QED BY <1>2, <1>3, <1>4

LEMMA SaveCheckKeepsInv ==
    ASSUME IInv, NEW w \in Window, SaveCheck(w)
    PROVE  IInv'
<1> USE DEF SaveCheck, GateFree, Free
<1>1. Rests BY DEF Rests
<1>2. Stored' = Stored BY DEF Stored
<1>3. held[w].id \in Id BY DEF IInv, TypeOK, Draft
<1>4. TypeOK' BY <1>3 DEF IInv, TypeOK, history
<1>5. GateInv'
  <2>1. ASSUME NEW v \in Window, Saving(v)' PROVE v = w BY <2>1 DEF Saving
  <2>2. ~Full(held[w].def)' /\ (held'[w].def.enabled => ~KeyTaken(held[w].id, held[w].def)')
    BY <1>2 DEF Full, KeyTaken
  <2> QED BY <2>1, <2>2 DEF GateInv
<1> QED BY <1>1, <1>4, <1>5, RestsKeep DEF IInv

LEMMA RefuseSaveKeepsInv ==
    ASSUME IInv, NEW w \in Window, RefuseSave(w)
    PROVE  IInv'
<1> USE DEF RefuseSave, Free
<1>1. Rests BY DEF Rests
<1>2. TypeOK' BY DEF IInv, TypeOK, history
<1>3. GateInv' BY DEF GateInv, Saving
<1> QED BY <1>1, <1>2, <1>3, RestsKeep DEF IInv

LEMMA AnnounceKeepsInv ==
    ASSUME IInv, Announce
    PROVE  IInv'
<1> USE DEF Announce, Free
<1>1. Rests BY DEF Rests
<1>2. counter' \in 0 .. MaxChanges BY DEF IInv, TypeOK, GateInv
<1>3. TypeOK' BY <1>2 DEF IInv, TypeOK, history
<1>4. GateInv' BY DEF GateInv, Saving
<1> QED BY <1>1, <1>3, <1>4, RestsKeep DEF IInv

LEMMA CrashKeepsInv ==
    ASSUME IInv, Crash
    PROVE  IInv'
<1> USE DEF Crash, Free, history
<1>1. Stored' = Stored BY DEF Stored
<1>2. TypeOK' BY DEF IInv, TypeOK
<1>3. GateInv' BY DEF GateInv, Saving
<1>4. LegacyInv'
  <2>1. \A v \in Window : held'[v] = NoDef OBVIOUS
  <2> QED BY <1>1, <2>1 DEF IInv, LegacyInv
<1>5. HotkeyUnique' BY <1>1 DEF IInv, HotkeyUnique
<1>6. LimitInv' BY <1>1 DEF IInv, LimitInv, WithinLimit
<1> QED BY <1>2, <1>3, <1>4, <1>5, <1>6 DEF IInv

LEMMA StutterKeepsInv == ASSUME IInv, UNCHANGED vars PROVE IInv'
<1> USE DEF vars, history, IInv
<1>1. Stored' = Stored BY DEF Stored
<1>2. TypeOK' BY DEF TypeOK
<1>3. GateInv' BY <1>1 DEF GateInv, Saving, Full, KeyTaken
<1>4. Rests BY DEF Rests
<1> QED BY <1>2, <1>3, <1>4, RestsKeep

LEMMA NextKeepsInv == IInv /\ [Next]_vars => IInv'
<1> SUFFICES ASSUME IInv, [Next]_vars PROVE IInv' OBVIOUS
<1>1. CASE Crash BY <1>1, CrashKeepsInv
<1>2. CASE Calls
  <2>1. CASE \E w \in Window, i \in Id, def \in Definition : Copies(w, i, def) BY <2>1, CopiesKeepInv
  <2>2. CASE \E w \in Window, i \in Id, def \in Definition : Commit(w, i, def) BY <2>2, CommitKeepsInv
  <2>3. CASE \E w \in Window, i \in Id : Delete(w, i) BY <2>3, DeleteKeepsInv
  <2>4. CASE \E w \in Window : SaveCheck(w) \/ RefuseSave(w)
    BY <2>4, SaveCheckKeepsInv, RefuseSaveKeepsInv
  <2>5. CASE Announce BY <2>5, AnnounceKeepsInv
  <2> QED BY <1>2, <2>1, <2>2, <2>3, <2>4, <2>5, StepForms DEF IInv
<1>3. CASE UNCHANGED vars BY <1>3, StutterKeepsInv
<1> QED BY <1>1, <1>2, <1>3 DEF Next

\* The invariant holds of every behaviour.
THEOREM Safe == Spec => []IInv
<1> QED BY InitInv, NextKeepsInv, PTL DEF Spec

\* Every variable keeps its type.
THEOREM StoreTypeCorrect == Spec => []TypeOK
<1>1. IInv => TypeOK BY DEF IInv
<1> QED BY <1>1, Safe, PTL

\* Whatever the windows, the importer and a crash do between the tests of a save and its
\* writes, two enabled definitions never have one shortcut.
THEOREM HotkeysStayUnique == Spec => []HotkeyUnique
<1>1. IInv => HotkeyUnique BY DEF IInv
<1> QED BY <1>1, Safe, PTL

\* The limit holds for any number of windows that create at once.
THEOREM LimitHolds == Spec => []WithinLimit
<1>1. IInv => WithinLimit BY DEF IInv, LimitInv
<1> QED BY <1>1, Safe, PTL

\* The tombstone, written with the row, keeps a legacy definition out for good.
THEOREM ImportsOnce == Spec => []ImportedOnce
<1>1. IInv => ImportedOnce BY DEF IInv, LegacyInv, ImportedOnce
<1> QED BY <1>1, Safe, PTL

-----------------------------------------------------------------------------
(* Copies of definitions, the windows' and the monitor's, when no id is    *)
(* handed out twice: none replaces a content its window has not read, and  *)
(* no event is run by a content it was not judged by.                      *)

USE LimitAssumption

\* Somebody read definition i at revision r with content b: it was stored, so nobody
\* creates it again, and its revision tells whether the content is still the one read.
Known(i, r, b) ==
    /\ i \in used /\ r \in Nat /\ r > 0
    /\ i \in Stored => r <= rows[i].revision /\ (r = rows[i].revision => b = rows[i].body)
    /\ \A w \in Window : held[w] # NoDef /\ held[w].id = i => held[w].def.revision > 0

\* A window's copy is one somebody read, or the only one of a definition nobody stored.
CopyOf(w) ==
    /\ held[w].id \in used
    /\ held[w].def.revision > 0 => Known(held[w].id, held[w].def.revision, base[w])
    /\ held[w].def.revision = 0 =>
          /\ held[w].id \notin Stored
          /\ \A v \in Window \ {w} : held[v] # NoDef => held[v].id # held[w].id

CopyInv == Stored \subseteq used /\ \A w \in Window : held[w] # NoDef => CopyOf(w)

LEMMA RevisionTypes ==
    ASSUME TypeOK
    PROVE  /\ \A i \in Stored : rows[i] \in Definition /\ rows[i].revision \in Nat /\ rows[i].body \in Body
           /\ \A w \in Window : held[w] # NoDef =>
                held[w] \in Draft /\ held[w].id \in Id /\ held[w].def \in Definition
                /\ held[w].def.revision \in Nat
BY DEF TypeOK, Stored, Draft, Definition

LEMMA WhatIsStoredIsKnown ==
    ASSUME IInv, CopyInv, NEW i \in Stored
    PROVE  Known(i, rows[i].revision, rows[i].body)
<1>1. rows[i].revision \in Nat /\ rows[i].revision > 0 BY RevisionTypes DEF IInv, LegacyInv
<1>2. \A w \in Window : held[w] # NoDef /\ held[w].id = i => held[w].def.revision > 0
  BY RevisionTypes DEF IInv, CopyInv, CopyOf
<1> QED BY <1>1, <1>2 DEF Known, CopyInv, CopyOf

LEMMA CopiesKeepKnown ==
    ASSUME IInv, CopyInv, ~ReusesIds, NEW w \in Window, NEW j \in Id, NEW def \in Definition,
           Copies(w, j, def), NEW i \in Id, NEW r, NEW b, Known(i, r, b)
    PROVE  Known(i, r, b)'
<1>1. rows' = rows /\ used \subseteq used' BY DEF Copies, Hold
<1>2. Stored' = Stored BY <1>1 DEF Stored
<1>3. held'[w] = [id |-> j, def |-> def] /\ \A v \in Window \ {w} : held'[v] = held[v]
  BY DEF Copies, Hold, IInv, TypeOK
<1>4. j = i => def.revision > 0
  <2>1. SUFFICES ASSUME j = i PROVE def.revision > 0 OBVIOUS
  <2>2. CASE CopyIsNew(j, def) BY <2>1, <2>2 DEF CopyIsNew, Unused, Known
  <2>3. CASE CopyIsRead(w, j, def) BY <2>3 DEF CopyIsRead, IInv, LegacyInv
  <2>4. CASE CopyIsEdited(w, j, def) BY <2>1, <2>4 DEF CopyIsEdited, Known
  <2> QED BY <2>2, <2>3, <2>4 DEF Copies
<1>5. \A v \in Window : held'[v] # NoDef /\ held'[v].id = i => held'[v].def.revision > 0
  BY <1>3, <1>4 DEF Known
<1> QED BY <1>1, <1>2, <1>5 DEF Known

LEMMA CommitKeepsKnown ==
    ASSUME IInv, CopyInv, NEW w \in Window, NEW j \in Id, NEW def \in Definition,
           Commit(w, j, def), NEW i \in Id, NEW r, NEW b, Known(i, r, b)
    PROVE  Known(i, r, b)'
<1>1. Committed(w, j, def) BY CommitFacts
<1>2. used' = used /\ held[w] # NoDef /\ held[w].id = j BY DEF Commit
<1>3. j = i => i \in Stored /\ def.revision = rows[i].revision + 1 /\ rows[i].revision \in Nat
  BY <1>1, <1>2, RevisionTypes DEF Known, Committed, IInv
<1>4. i \in Stored' => r <= rows'[i].revision /\ (r = rows'[i].revision => b = rows'[i].body)
  <2>1. CASE j = i
    <3>1. rows'[i].revision = rows[i].revision + 1 BY <2>1, <1>1, <1>3 DEF Committed
    <3>2. r \in Nat /\ r <= rows[i].revision BY <2>1, <1>3 DEF Known
    <3>3. rows[i].revision \in Nat BY <2>1, <1>3
    <3> QED BY <3>1, <3>2, <3>3
  <2>2. CASE j # i
    <3>1. rows'[i] = rows[i] /\ (i \in Stored' => i \in Stored) BY <2>2, <1>1 DEF Committed
    <3> QED BY <3>1 DEF Known
  <2> QED BY <2>1, <2>2
<1>5. \A v \in Window : held'[v] # NoDef /\ held'[v].id = i => held'[v].def.revision > 0
  <2>1. SUFFICES ASSUME NEW v \in Window, held'[v] # NoDef, held'[v].id = i
                 PROVE  held'[v].def.revision > 0 OBVIOUS
  <2>2. CASE v = w
    <3>1. held'[v] = [id |-> j, def |-> def] BY <2>2, <1>1 DEF Committed
    <3>2. j = i BY <2>1, <3>1
    <3>3. def.revision > 0 BY <3>2, <1>3
    <3> QED BY <3>1, <3>3
  <2>3. CASE v # w BY <2>1, <2>3, <1>1 DEF Committed, Known
  <2> QED BY <2>2, <2>3
<1> QED BY <1>2, <1>4, <1>5 DEF Known

\* A step that reads no copy and writes no row but, maybe, deletes some.
Quiet ==
    /\ \A i \in Id : rows'[i] = rows[i] \/ rows'[i] = NoDef
    /\ \A w \in Window : held'[w] = held[w] \/ held'[w] = NoDef
    /\ used' = used /\ base' = base

LEMMA QuietKeepsKnown ==
    ASSUME Quiet, NEW i \in Id, NEW r, NEW b, Known(i, r, b)
    PROVE  Known(i, r, b)'
<1>1. i \in Stored' => i \in Stored /\ rows'[i] = rows[i] BY DEF Quiet, Stored
<1> QED BY <1>1 DEF Quiet, Known

\* The three kinds of steps.
LEMMA StepKinds ==
    ASSUME IInv, [Next]_vars
    PROVE  \/ \E w \in Window, i \in Id, def \in Definition : Copies(w, i, def)
           \/ \E w \in Window, i \in Id, def \in Definition : Commit(w, i, def)
           \/ Quiet
<1> USE DEF Quiet, history
<1>1. ASSUME NEW w \in Window, NEW i \in Id, Delete(w, i) PROVE Quiet BY <1>1 DEF Delete, IInv, TypeOK
<1>2. ASSUME NEW w \in Window, SaveCheck(w) \/ RefuseSave(w) PROVE Quiet BY <1>2 DEF SaveCheck, RefuseSave
<1>3. Announce => Quiet BY DEF Announce
<1>4. Crash => Quiet BY DEF Crash
<1>5. UNCHANGED vars => Quiet BY DEF vars
<1> QED BY <1>1, <1>2, <1>3, <1>4, <1>5, StepForms DEF Next, IInv

LEMMA KnownKept ==
    ASSUME IInv, CopyInv, ~ReusesIds, [Next]_vars, NEW i \in Id, NEW r, NEW b, Known(i, r, b)
    PROVE  Known(i, r, b)'
<1>1. CASE \E w \in Window, j \in Id, def \in Definition : Copies(w, j, def) BY <1>1, CopiesKeepKnown
<1>2. CASE \E w \in Window, j \in Id, def \in Definition : Commit(w, j, def) BY <1>2, CommitKeepsKnown
<1>3. CASE Quiet BY <1>3, QuietKeepsKnown
<1> QED BY <1>1, <1>2, <1>3, StepKinds

LEMMA CopiesKeepCopyInv ==
    ASSUME IInv, CopyInv, ~ReusesIds, NEW w \in Window, NEW i \in Id, NEW def \in Definition,
           Copies(w, i, def)
    PROVE  CopyInv'
<1>1. rows' = rows /\ used \subseteq used' /\ (\A v \in Window \ {w} : base'[v] = base[v])
  BY DEF Copies, Hold
<1>2. Stored' = Stored /\ Stored \subseteq used' BY <1>1 DEF Stored, CopyInv, CopyOf
<1>3. held'[w] = [id |-> i, def |-> def] /\ \A v \in Window \ {w} : held'[v] = held[v]
  BY DEF Copies, Hold, IInv, TypeOK
<1>4. def.revision \in Nat BY DEF Definition
<1>5. CASE CopyIsNew(i, def)
  <2>1. def.revision = 0 /\ i \in used' /\ i \notin used /\ i \notin Stored
    BY <1>5 DEF CopyIsNew, Unused
  <2>2. CopyOf(w)' BY <1>2, <1>3, <2>1 DEF CopyOf, CopyInv
  <2>3. ASSUME NEW v \in Window \ {w}, held'[v] # NoDef PROVE CopyOf(v)'
    <3>1. held'[v] = held[v] /\ base'[v] = base[v] BY <1>1, <1>3
    <3>2. held[v].id \in used /\ held[v].id \in used' /\ held[v].id \in Id
      BY <1>1, <2>3, <3>1, RevisionTypes DEF CopyInv, CopyOf, IInv
    <3>3. held[v].def.revision \in Nat BY <2>3, <3>1, RevisionTypes DEF IInv
    <3>4. held[v].def.revision > 0 => Known(held[v].id, held[v].def.revision, base[v])'
      BY <2>3, <3>1, <3>2, CopiesKeepKnown DEF CopyInv, CopyOf
    <3>5. held[v].def.revision = 0 => held[v].id \notin Stored'
            /\ \A u \in Window \ {v} : held'[u] # NoDef => held'[u].id # held[v].id
      BY <1>2, <1>3, <2>1, <2>3, <3>1, <3>2 DEF CopyInv, CopyOf
    <3> QED BY <3>1, <3>2, <3>4, <3>5 DEF CopyOf
  <2> QED BY <1>2, <2>2, <2>3 DEF CopyInv
<1>6. CASE CopyIsRead(w, i, def) \/ CopyIsEdited(w, i, def)
  <2>1. i \in used /\ i \in used' BY <1>1, <1>6 DEF CopyIsRead, CopyIsEdited, CopyInv, CopyOf
  <2>2. def.revision > 0 => Known(i, def.revision, base'[w])
    <3>1. CASE CopyIsRead(w, i, def) BY <3>1, WhatIsStoredIsKnown DEF CopyIsRead
    <3>2. CASE CopyIsEdited(w, i, def) BY <3>2 DEF CopyIsEdited, CopyInv, CopyOf
    <3> QED BY <1>6, <3>1, <3>2
  <2>3. def.revision > 0 => Known(i, def.revision, base[w])'
    <3>1. SUFFICES ASSUME def.revision > 0 PROVE Known(i, def.revision, base[w])' OBVIOUS
    <3>2. PICK b : b = base'[w] OBVIOUS
    <3>3. Known(i, def.revision, b) BY <2>2, <3>1, <3>2
    <3>4. Known(i, def.revision, b)' BY <3>3, CopiesKeepKnown
    <3> QED BY <3>2, <3>4 DEF Known
  <2>4. def.revision = 0 => CopyIsEdited(w, i, def)
    BY <1>6, RevisionTypes DEF CopyIsRead, IInv, LegacyInv
  <2>5. def.revision = 0 => i \notin Stored /\ \A v \in Window \ {w} : held[v] # NoDef => held[v].id # i
    BY <2>4 DEF CopyIsEdited, CopyInv, CopyOf
  <2>6. CopyOf(w)' BY <1>2, <1>3, <2>1, <2>3, <2>5 DEF CopyOf
  <2>7. ASSUME NEW v \in Window \ {w}, held'[v] # NoDef PROVE CopyOf(v)'
    <3>1. held'[v] = held[v] /\ base'[v] = base[v] BY <1>1, <1>3
    <3>2. held[v].id \in used' /\ held[v].id \in Id
      BY <1>1, <2>7, <3>1, RevisionTypes DEF CopyInv, CopyOf, IInv
    <3>3. held[v].def.revision \in Nat BY <2>7, <3>1, RevisionTypes DEF IInv
    <3>4. held[v].def.revision > 0 => Known(held[v].id, held[v].def.revision, base[v])'
      BY <2>7, <3>1, <3>2, CopiesKeepKnown DEF CopyInv, CopyOf
    <3>5. held[v].def.revision = 0 => held[v].id # i
      BY <1>6, <2>7, <3>1 DEF CopyIsRead, CopyIsEdited, CopyInv, CopyOf
    <3>6. held[v].def.revision = 0 => held[v].id \notin Stored'
            /\ \A u \in Window \ {v} : held'[u] # NoDef => held'[u].id # held[v].id
      BY <1>2, <1>3, <2>7, <3>1, <3>5 DEF CopyInv, CopyOf
    <3> QED BY <3>1, <3>2, <3>4, <3>6 DEF CopyOf
  <2> QED BY <1>2, <2>6, <2>7 DEF CopyInv
<1> QED BY <1>5, <1>6 DEF Copies

LEMMA CommitKeepsCopyInv ==
    ASSUME IInv, CopyInv, NEW w \in Window, NEW i \in Id, NEW def \in Definition, Commit(w, i, def)
    PROVE  CopyInv'
<1>1. Committed(w, i, def) BY CommitFacts
<1>2. used' = used /\ held[w] # NoDef /\ held[w].id = i BY DEF Commit
<1>3. i \in used /\ Stored' \subseteq used' BY <1>1, <1>2 DEF Committed, CopyInv, CopyOf
<1>4. base'[w] = def.body /\ \A v \in Window \ {w} : base'[v] = base[v] BY DEF Commit, IInv, TypeOK
<1>5. def.revision \in Nat /\ def.revision > 0 BY <1>1 DEF Committed
<1>6. \A v \in Window \ {w} : held[v] # NoDef /\ held[v].id = i => held[v].def.revision > 0
  <2>1. CASE held[w].def.revision = 0 BY <2>1, <1>2 DEF CopyInv, CopyOf
  <2>2. CASE held[w].def.revision > 0 BY <2>2, <1>2 DEF CopyInv, CopyOf, Known
  <2> QED BY <2>1, <2>2, <1>1 DEF Committed
<1>7. CopyOf(w)'
  <2>1. held'[w].id = i /\ held'[w].def.revision = def.revision /\ rows'[i] = def
    BY <1>1 DEF Committed
  <2>2. \A v \in Window : held'[v] # NoDef /\ held'[v].id = i => held'[v].def.revision > 0
    BY <1>1, <1>5, <1>6, <2>1 DEF Committed
  <2>3. Known(i, def.revision, def.body)' BY <1>2, <1>3, <1>5, <2>1, <2>2 DEF Known
  <2>4. Known(held[w].id, held[w].def.revision, base[w])' BY <1>4, <2>1, <2>3
  <2> QED BY <1>2, <1>3, <1>5, <2>1, <2>4 DEF CopyOf
<1>8. ASSUME NEW v \in Window \ {w}, held'[v] # NoDef PROVE CopyOf(v)'
  <2>1. held'[v] = held[v] /\ base'[v] = base[v] BY <1>1, <1>4 DEF Committed
  <2>2. held[v].id \in used' /\ held[v].id \in Id BY <1>2, <1>8, <2>1, RevisionTypes DEF CopyInv, CopyOf, IInv
  <2>3. held[v].def.revision \in Nat BY <1>8, <2>1, RevisionTypes DEF IInv
  <2>4. held[v].def.revision > 0 => Known(held[v].id, held[v].def.revision, base[v])'
    BY <1>8, <2>1, <2>2, CommitKeepsKnown DEF CopyInv, CopyOf
  <2>5. held[v].def.revision = 0 => held[v].id # i BY <1>6, <1>8, <2>1
  <2>6. held[v].def.revision = 0 => held[v].id \notin Stored'
          /\ \A u \in Window \ {v} : held'[u] # NoDef => held'[u].id # held[v].id
    BY <1>1, <1>2, <1>8, <2>1, <2>5 DEF CopyInv, CopyOf, Committed
  <2> QED BY <2>1, <2>2, <2>4, <2>6 DEF CopyOf
<1> QED BY <1>3, <1>7, <1>8 DEF CopyInv

LEMMA QuietKeepsCopyInv == ASSUME IInv, CopyInv, Quiet PROVE CopyInv'
<1>1. Stored' \subseteq Stored BY DEF Quiet, Stored
<1>2. Stored' \subseteq used' BY <1>1 DEF Quiet, CopyInv, CopyOf
<1>3. ASSUME NEW w \in Window, held'[w] # NoDef PROVE CopyOf(w)'
  <2>1. held'[w] = held[w] /\ base'[w] = base[w] /\ used' = used BY <1>3 DEF Quiet
  <2>2. held[w].id \in used /\ held[w].id \in Id BY <1>3, <2>1, RevisionTypes DEF CopyInv, CopyOf, IInv
  <2>3. held[w].def.revision > 0 => Known(held[w].id, held[w].def.revision, base[w])'
    BY <1>3, <2>1, <2>2, QuietKeepsKnown DEF CopyInv, CopyOf
  <2>4. held[w].def.revision = 0 => held[w].id \notin Stored'
          /\ \A u \in Window \ {w} : held'[u] # NoDef => held'[u].id # held[w].id
    BY <1>1, <1>3, <2>1 DEF Quiet, CopyInv, CopyOf
  <2> QED BY <2>1, <2>2, <2>3, <2>4 DEF CopyOf
<1> QED BY <1>2, <1>3 DEF CopyInv

LEMMA InitCopyInv == Init => CopyInv
<1> SUFFICES ASSUME Init PROVE CopyInv OBVIOUS
<1>1. Stored = {} BY DEF Init, Stored
<1> QED BY <1>1 DEF Init, CopyInv

LEMMA NextKeepsCopyInv == ~ReusesIds /\ IInv /\ CopyInv /\ [Next]_vars => CopyInv'
<1> SUFFICES ASSUME ~ReusesIds, IInv, CopyInv, [Next]_vars PROVE CopyInv' OBVIOUS
<1>1. CASE \E w \in Window, i \in Id, def \in Definition : Copies(w, i, def) BY <1>1, CopiesKeepCopyInv
<1>2. CASE \E w \in Window, i \in Id, def \in Definition : Commit(w, i, def) BY <1>2, CommitKeepsCopyInv
<1>3. CASE Quiet BY <1>3, QuietKeepsCopyInv
<1> QED BY <1>1, <1>2, <1>3, StepKinds

\* While ids are not handed out twice, a stored content is replaced only by a window that
\* read this very content, however many windows read, edit, delete and save.
THEOREM UpdatesAreNotLost ==
    ASSUME ~ReusesIds
    PROVE  Spec => NoLostUpdate
<1> DEFINE Step == \A i \in Stored : rows'[i] # NoDef /\ rows'[i] # rows[i]
                      => base[gate.who] = rows[i].body
<1>1. IInv /\ CopyInv /\ [Next]_vars => [Step]_vars
  <2> SUFFICES ASSUME IInv, CopyInv, [Next]_vars, NEW i \in Stored, rows'[i] # NoDef, rows'[i] # rows[i]
               PROVE  base[gate.who] = rows[i].body
    OBVIOUS
  <2>0. i \in Id BY DEF Stored
  <2>1. CASE \E w \in Window, j \in Id, def \in Definition : Copies(w, j, def) BY <2>1 DEF Copies, Hold
  <2>2. CASE \E w \in Window, j \in Id, def \in Definition : Commit(w, j, def)
    <3>1. PICK w \in Window, j \in Id, def \in Definition : Commit(w, j, def) BY <2>2
    <3>2. Committed(w, j, def) BY <3>1, CommitFacts
    <3>3. j = i BY <3>2, <2>0 DEF Committed
    <3>4. held[w] # NoDef /\ held[w].id = i /\ gate.who = w BY <3>1, <3>3 DEF Commit
    <3>5. held[w].def.revision = rows[i].revision BY <3>2, <3>3 DEF Committed
    <3>6. rows[i].revision > 0 BY DEF IInv, LegacyInv
    <3>7. Known(i, rows[i].revision, base[w]) BY <3>4, <3>5, <3>6 DEF CopyInv, CopyOf
    <3> QED BY <3>4, <3>7 DEF Known
  <2>3. CASE Quiet BY <2>3, <2>0 DEF Quiet
  <2> QED BY <2>1, <2>2, <2>3, StepKinds
<1> QED BY <1>1, InitInv, InitCopyInv, NextKeepsInv, NextKeepsCopyInv, PTL DEF Spec, NoLostUpdate

-----------------------------------------------------------------------------
(* The monitor.                                                            *)

\* The store does not see the monitor.
LEMMA MonitorStep == [MonitorNext]_<<vars, monitor>> => [Next]_vars
BY DEF MonitorNext, Next, MonitorWakes, MonitorLists, MonitorFires, Dispatch

LEMMA MonitorImplements == MonitorSpec => Spec
<1>1. MonitorInit => Init BY DEF MonitorInit
<1> QED BY <1>1, MonitorStep, PTL DEF MonitorSpec, Spec

\* The list is that of the rows once the last change is seen, from its announcement on.
ListInv ==
    /\ MonitorTypeOK
    /\ seen <= counter
    /\ gate.stage # "announce" /\ seen = counter /\ ~listing => view = rows

\* What the monitor has read, and sends, is known.
EventInv ==
    /\ \A i \in Id : view[i] # NoDef => Known(i, view[i].revision, view[i].body)
    /\ event # NoDef => Known(event.id, event.def.revision, event.def.body)
    /\ NoSupersededEvent

LEMMA ListInvStarts == MonitorInit => ListInv
<1>1. MonitorInit => IInv BY InitInv DEF MonitorInit
<1>2. MonitorInit => TypeOK BY <1>1 DEF IInv
<1>3. 0 \in Body /\ 0 \in 0 .. MaxChanges BY DEF Body
<1>4. MonitorInit => MonitorTypeOK BY <1>2, <1>3 DEF MonitorInit, MonitorStarts, MonitorTypeOK
<1> QED BY <1>4 DEF MonitorInit, MonitorStarts, Init, ListInv

LEMMA ListInvKept == IInv /\ ListInv /\ [MonitorNext]_<<vars, monitor>> => ListInv'
<1> SUFFICES ASSUME IInv, ListInv, [MonitorNext]_<<vars, monitor>> PROVE ListInv' OBVIOUS
<1>0. IInv' BY MonitorStep, NextKeepsInv
<1>1. TypeOK' BY <1>0 DEF IInv
<1> USE DEF ListInv, MonitorTypeOK
<1>2. ASSUME Calls, UNCHANGED monitor PROVE ListInv'
  <2>1. UNCHANGED <<view, seen, listing, event, applied>> BY <1>2 DEF monitor
  <2>2. CASE Announce
    <3>1. counter' = counter + 1 BY <2>2 DEF Announce
    <3> QED BY <1>1, <2>1, <3>1 DEF IInv, TypeOK
  <2>3. CASE \E w \in Window, i \in Id, def \in Definition : Copies(w, i, def)
    BY <1>1, <2>1, <2>3 DEF Copies, Hold
  <2>4. CASE \E w \in Window, i \in Id, def \in Definition : Commit(w, i, def)
    <3>1. gate'.stage = "announce" /\ counter' = counter BY <2>4 DEF Commit, IInv, TypeOK
    <3> QED BY <1>1, <2>1, <3>1
  <2>5. CASE \E w \in Window, i \in Id : Delete(w, i) BY <1>1, <2>1, <2>5 DEF Delete
  <2>6. CASE \E w \in Window : SaveCheck(w) \/ RefuseSave(w)
    <3>1. counter' = counter /\ rows' = rows /\ gate.stage # "announce"
      BY <2>6 DEF SaveCheck, RefuseSave, GateFree, Free
    <3> QED BY <1>1, <2>1, <3>1
  <2> QED BY <1>2, <2>2, <2>3, <2>4, <2>5, <2>6, StepForms DEF IInv
<1>3. ASSUME Crash, view' = [i \in Id |-> NoDef], seen' = 0, listing' = TRUE, event' = NoDef,
             UNCHANGED applied
      PROVE  ListInv'
  <2>1. counter' = 0 BY <1>3 DEF Crash
  <2> QED BY <1>1, <1>3, <2>1 DEF Body
<1>4. ASSUME MonitorWakes PROVE ListInv' BY <1>1, <1>4 DEF MonitorWakes, vars, history, IInv, TypeOK
<1>5. ASSUME MonitorLists PROVE ListInv' BY <1>1, <1>5 DEF MonitorLists, vars, history, IInv, TypeOK
<1>6. ASSUME Dispatch PROVE ListInv'
  <2>1. UNCHANGED <<gate, counter, rows, view, seen, listing>> /\ event' = NoDef
    BY <1>6 DEF Dispatch, vars
  <2>2. applied' \in Body \X Body
    <3>1. CASE Targeted(event) /\ rows[event.id].enabled
      <4>1. event.id \in Stored /\ event \in Draft BY <1>6, <3>1 DEF Dispatch, Targeted
      <4>2. event.def.body \in Body /\ rows[event.id].body \in Body
        BY <4>1, RevisionTypes DEF Draft, Definition, IInv
      <4> QED BY <1>6, <3>1, <4>2 DEF Dispatch
    <3>2. CASE ~(Targeted(event) /\ rows[event.id].enabled) BY <1>6, <3>2 DEF Dispatch
    <3> QED BY <3>1, <3>2
  <2> QED BY <1>1, <2>1, <2>2
<1>7. ASSUME NEW i \in Id, MonitorFires(i) PROVE ListInv'
  BY <1>1, <1>7 DEF MonitorFires, vars, Draft
<1>8. ASSUME UNCHANGED <<vars, monitor>> PROVE ListInv' BY <1>1, <1>8 DEF vars, monitor
<1> QED BY <1>2, <1>3, <1>4, <1>5, <1>6, <1>7, <1>8 DEF MonitorNext

LEMMA EventInvStarts == MonitorInit => EventInv
BY DEF MonitorInit, MonitorStarts, EventInv, NoSupersededEvent

LEMMA EventInvKept ==
    ~ReusesIds /\ IInv /\ CopyInv /\ ListInv /\ EventInv /\ [MonitorNext]_<<vars, monitor>> => EventInv'
<1> SUFFICES ASSUME ~ReusesIds, IInv, CopyInv, ListInv, EventInv, [MonitorNext]_<<vars, monitor>>
             PROVE  EventInv'
  OBVIOUS
<1>1. \A i \in Id : \A r, b : Known(i, r, b) => Known(i, r, b)' BY MonitorStep, KnownKept
<1>2. \A i \in Id : view'[i] # NoDef => Known(i, view'[i].revision, view'[i].body)
  <2>1. \/ view' = view
        \/ view' = rows
        \/ \A i \in Id : view'[i] = NoDef
    BY DEF MonitorNext, MonitorWakes, MonitorLists, MonitorFires, Dispatch, monitor
  <2>2. \A i \in Id : rows[i] # NoDef => Known(i, rows[i].revision, rows[i].body)
    BY WhatIsStoredIsKnown DEF Stored
  <2> QED BY <2>1, <2>2 DEF EventInv
<1>3. event' # NoDef => event' \in Draft /\ Known(event'.id, event'.def.revision, event'.def.body)
  <2>1. CASE event' = event BY <2>1 DEF EventInv, ListInv, MonitorTypeOK
  <2>2. ASSUME NEW i \in Id, MonitorFires(i)
        PROVE  event' \in Draft /\ Known(event'.id, event'.def.revision, event'.def.body)
    <3>1. view[i] # NoDef /\ event' = [id |-> i, def |-> view[i]] BY <2>2 DEF MonitorFires
    <3>2. view[i] \in Definition BY <3>1 DEF ListInv, MonitorTypeOK
    <3> QED BY <3>1, <3>2 DEF EventInv, Draft
  <2>3. CASE event' = NoDef BY <2>3
  <2> QED BY <2>1, <2>2, <2>3
       DEF MonitorNext, MonitorWakes, MonitorLists, Dispatch, monitor
<1>4. (\A i \in Id : view[i] # NoDef => Known(i, view[i].revision, view[i].body))'
  <2>1. SUFFICES ASSUME NEW i \in Id, view'[i] # NoDef
                 PROVE  Known(i, view[i].revision, view[i].body)'
    OBVIOUS
  <2>2. PICK r, b : r = view'[i].revision /\ b = view'[i].body OBVIOUS
  <2>3. Known(i, r, b) BY <1>2, <2>1, <2>2
  <2>4. Known(i, r, b)' BY <1>1, <2>3
  <2> QED BY <2>2, <2>4 DEF Known
<1>5. (event # NoDef => Known(event.id, event.def.revision, event.def.body))'
  <2>1. SUFFICES ASSUME event' # NoDef PROVE Known(event.id, event.def.revision, event.def.body)'
    OBVIOUS
  <2>5. event'.id \in Id BY <1>3, <2>1 DEF Draft
  <2>2. PICK i, r, b : i = event'.id /\ r = event'.def.revision /\ b = event'.def.body OBVIOUS
  <2>3. Known(i, r, b) BY <1>3, <2>1, <2>2
  <2>4. Known(i, r, b)' BY <1>1, <2>2, <2>3, <2>5
  <2> QED BY <2>2, <2>4 DEF Known
<1>6. NoSupersededEvent'
  <2>1. CASE applied' = applied BY <2>1 DEF EventInv, NoSupersededEvent
  <2>2. CASE Dispatch /\ Targeted(event)
    <3>1. event # NoDef BY <2>2 DEF Dispatch
    <3>2. Known(event.id, event.def.revision, event.def.body) BY <3>1 DEF EventInv
    <3>3. event.def.body = rows[event.id].body BY <2>2, <3>2 DEF Known, Targeted
    <3>4. applied' = <<event.def.body, rows[event.id].body>> \/ applied' = applied BY <2>2 DEF Dispatch
    <3>5. CASE applied' = <<event.def.body, rows[event.id].body>> BY <3>3, <3>5 DEF NoSupersededEvent
    <3> QED BY <2>1, <3>4, <3>5
  <2> QED BY <2>1, <2>2
       DEF MonitorNext, MonitorWakes, MonitorLists, MonitorFires, Dispatch, monitor
<1> QED BY <1>4, <1>5, <1>6 DEF EventInv

LEMMA ListSafe == MonitorSpec => []ListInv
<1>1. MonitorSpec => []IInv BY MonitorImplements, Safe, PTL
<1> QED BY <1>1, ListInvStarts, ListInvKept, PTL DEF MonitorSpec

\* Every variable of the composition keeps its type.
THEOREM MonitorTypeCorrect == MonitorSpec => []MonitorTypeOK
<1>1. ListInv => MonitorTypeOK BY DEF ListInv
<1> QED BY <1>1, ListSafe, PTL

\* A monitor that has seen the last change and read its list has the rows of the moment.
THEOREM MonitorStaysCurrent == MonitorSpec => []MonitorIsCurrent
<1>1. ListInv => MonitorIsCurrent BY DEF ListInv, MonitorIsCurrent, GateFree, Free
<1> QED BY <1>1, ListSafe, PTL

\* While ids are not handed out twice, an event is only run by the content that the
\* monitor judged it by, however old its list and however late the event.
THEOREM NoEventIsSuperseded ==
    ASSUME ~ReusesIds
    PROVE  MonitorSpec => []NoSupersededEvent
<1>1. MonitorSpec => []IInv BY MonitorImplements, Safe, PTL
<1>2. MonitorInit => CopyInv BY InitCopyInv DEF MonitorInit
<1>3. MonitorSpec => []CopyInv
  BY <1>1, <1>2, MonitorStep, NextKeepsCopyInv, PTL DEF MonitorSpec
<1>4. MonitorSpec => []EventInv
  BY <1>1, <1>3, ListSafe, EventInvStarts, EventInvKept, PTL DEF MonitorSpec
<1>5. EventInv => NoSupersededEvent BY DEF EventInv
<1> QED BY <1>4, <1>5, PTL
=============================================================================

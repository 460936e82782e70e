--------------------------- MODULE StoredHistory ---------------------------
(***************************************************************************)
(* What is kept of activities: the retention of finished ones (store.rs    *)
(* prune).                                                                 *)
(***************************************************************************)
EXTENDS Integers, FiniteSets

CONSTANTS
    Keep,    \* finished activities kept, 100 in the code
    MaxAge   \* 30 days in the code

ASSUME RetentionAssumption == Keep \in Nat /\ MaxAge \in Nat

-----------------------------------------------------------------------------
(* A row has an id, the time it was made, and is finished or not.          *)

\* ORDER BY created_at DESC LIMIT: rows made at one time come in any order.
IsLatest(latest, rows) ==
    /\ latest \subseteq rows
    /\ Cardinality(latest) = IF Cardinality(rows) < Keep THEN Cardinality(rows) ELSE Keep
    /\ \A x \in latest, y \in rows \ latest : y.made <= x.made

\* Mutant: rows that are not finished are not looked after.
Expired(rows, latest, clear, now) ==
    {x \in rows : clear \/ x.made < now - MaxAge \/ x \notin latest}

Pruned(rows, latest, clear, now) ==
    {x \in rows : x.finished /\ (clear \/ x.made < now - MaxAge \/ x \notin latest)}

\* What may be left of the rows.
Prune(rows, clear, now) ==
    {rows \ Pruned(rows, latest, clear, now) : latest \in {l \in SUBSET rows : IsLatest(l, rows)}}

=============================================================================

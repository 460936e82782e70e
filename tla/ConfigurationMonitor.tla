------------------------ MODULE ConfigurationMonitor ------------------------
(***************************************************************************)
(* DefinitionStore with the Bluetooth monitor of the host.  The monitor    *)
(* keeps a list of the definitions that it reads again whenever the        *)
(* configuration counter changes, judges each rule by its list, and sends  *)
(* events addressed to a rule and its revision; dispatch (engine.rs)       *)
(* applies them to the definitions of the moment.  The monitor is not in   *)
(* src/: it is modelled from what engine.rs offers it.                     *)
(***************************************************************************)
EXTENDS DefinitionStore

VARIABLES
    view,      \* the monitor's list
    seen,      \* the counter the monitor last saw
    listing,   \* the monitor is about to read its list again
    event,     \* an event the monitor sent, not yet dispatched
    applied    \* history: the body the last accepted event was judged by, and the body run

monitor == <<view, seen, listing, event, applied>>

MonitorTypeOK ==
    /\ TypeOK
    /\ view \in [Id -> Definition \cup {NoDef}]
    /\ seen \in 0 .. MaxChanges
    /\ listing \in BOOLEAN
    /\ event \in Draft \cup {NoDef}
    /\ applied \in Body \X Body

MonitorStarts == view = [i \in Id |-> NoDef] /\ seen = 0 /\ listing = TRUE /\ event = NoDef

MonitorInit == Init /\ MonitorStarts /\ applied = <<0, 0>>

\* The monitor marks the counter as seen before it reads the list.
MonitorWakes ==
    /\ seen # counter /\ ~listing
    /\ seen' = counter
    /\ listing' = TRUE
    /\ UNCHANGED <<vars, view, event, applied>>

\* list, which takes no gate.
MonitorLists ==
    /\ listing
    /\ view' = rows
    /\ listing' = FALSE
    /\ UNCHANGED <<vars, seen, event, applied>>

\* A rule of the monitor's list fires.
MonitorFires(i) ==
    /\ event = NoDef
    /\ view[i] # NoDef /\ view[i].enabled
    /\ event' = [id |-> i, def |-> view[i]]
    /\ UNCHANGED <<vars, view, seen, listing, applied>>

\* Mutant: the revision is not compared.
TargetedById(e) == e.id \in Stored

Targeted(e) == e.id \in Stored /\ rows[e.id].revision = e.def.revision

\* dispatch reads the definitions and enqueues with the gate held.
Dispatch ==
    /\ GateFree
    /\ event # NoDef
    /\ applied' = IF Targeted(event) /\ rows[event.id].enabled
                  THEN <<event.def.body, rows[event.id].body>> ELSE applied
    /\ event' = NoDef
    /\ UNCHANGED <<vars, view, seen, listing>>

\* A crash takes the monitor down with the engine; a fresh one lists first.
MonitorNext ==
    \/ Calls /\ UNCHANGED monitor
    \/ Crash /\ view' = [i \in Id |-> NoDef] /\ seen' = 0 /\ listing' = TRUE /\ event' = NoDef
             /\ UNCHANGED applied
    \/ MonitorWakes \/ MonitorLists \/ Dispatch
    \/ \E i \in Id : MonitorFires(i)

MonitorSpec == MonitorInit /\ [][MonitorNext]_<<vars, monitor>>

-----------------------------------------------------------------------------
\* A monitor that has seen the last change and read its list has the current one, however
\* commits, announcements, wake-ups and reads interleave.
MonitorIsCurrent == GateFree /\ seen = counter /\ ~listing => view = rows

\* "Never apply ... an event from a superseded revision": an event is only run by the
\* content it was judged by.
NoSupersededEvent == applied[1] = applied[2]
=============================================================================

----------------------------- MODULE EventRules -----------------------------
(***************************************************************************)
(* What a definition listens to and what it asks of the system: triggers   *)
(* against events (model.rs capability, matches; validation.rs             *)
(* available_variables, validate), conditions against the environment      *)
(* (condition_failure), the preflight of a definition that is saved        *)
(* enabled, and what enqueue and execute look at before a step is handed   *)
(* to its executor (engine.rs).                                            *)
(***************************************************************************)
EXTENDS Naturals, FiniteSets, Sequences

CONSTANTS
    Value,   \* ids of devices and applications, shortcuts, kinds of files
    Action   \* ids of quick actions

Empty == ""
ASSUME EmptyAssumption == Empty \in Value

AppEvent == {"started", "exited", "foreground", "background"}
SessionEvent == {"locked", "unlocked", "sleeping", "resumed", "started"}
PresenceEvent == {"ownerPresent", "absent", "unknownPresent", "multiplePeople", "uncertain"}
ShellKind == {"system", "sh", "bash", "zsh", "powershell"}

Trigger ==
    [type : {"manual", "schedule"}]
    \cup [type : {"bluetooth"}, device : Value]
    \cup [type : {"application"}, event : AppEvent, apps : SUBSET Value]
    \cup [type : {"system"}, event : SessionEvent]
    \cup [type : {"device"}, connected : BOOLEAN, devices : SUBSET Value]
    \cup [type : {"transfer"}, received : BOOLEAN, devices : SUBSET Value, kinds : SUBSET Value]
    \cup [type : {"hotkey"}, shortcut : Value]
    \cup [type : {"presence"}, state : PresenceEvent]

-----------------------------------------------------------------------------
(* Triggers and events.                                                    *)

\* Mutant: an application may have an empty id.
ValidNames(t) ==
    /\ t.type = "bluetooth" => t.device # Empty
    /\ t.type = "application" => t.apps # {}
    /\ t.type = "hotkey" => t.shortcut # Empty

\* What validate asks of a trigger, the calendar and calibration aside.
ValidTrigger(t) ==
    /\ t.type = "bluetooth" => t.device # Empty
    /\ t.type = "application" => t.apps # {} /\ Empty \notin t.apps
    /\ t.type = "hotkey" => t.shortcut # Empty

\* The capability a trigger needs, and the kind of the events it listens to.
Capability(t) ==
    CASE t.type = "bluetooth" -> <<"bluetooth", "far">>
      [] t.type \in {"application", "system"} -> <<t.type, t.event>>
      [] t.type = "device" -> <<"device", IF t.connected THEN "connected" ELSE "disconnected">>
      [] t.type = "transfer" -> <<"transfer", IF t.received THEN "received" ELSE "sent">>
      [] t.type = "presence" -> <<"presence", t.state>>
      [] OTHER -> <<t.type>>

\* The variables a text of the definition may name.
AvailableVariables(t) ==
    CASE t.type = "bluetooth" -> {"bluetooth.deviceId", "bluetooth.deviceName", "bluetooth.rssi", "bluetooth.reason"}
      [] t.type = "application" -> {"app.name", "app.path", "app.id"}
      [] t.type = "device" -> {"device.name", "device.id"}
      [] t.type = "transfer" -> {"device.name", "device.id", "file.count"}
             \cup (IF t.received THEN {"file.directory", "file.firstPath"} ELSE {})
      [] t.type = "schedule" -> {"schedule.plannedAt", "schedule.actualAt"}
      [] t.type = "presence" -> {"presence.state", "presence.faceCount", "presence.ownerSimilarity"}
      [] OTHER -> {}

\* An event carries the values of some variables; one that it lacks reads as empty.
Get(e, key) == IF key \in DOMAIN e.variables THEN e.variables[key] ELSE Empty

\* "event.file.kinds" is a list, with one empty kind in it when it is empty.
Kinds(e) == IF "file.kinds" \in DOMAIN e.variables THEN e.variables["file.kinds"] ELSE {Empty}

\* An empty list of devices or kinds is any; schedules are the scheduler's.
Matches(t, e) ==
    /\ Capability(t) = e.kind
    /\ t.type # "schedule"
    /\ t.type = "bluetooth" => t.device = Get(e, "bluetooth.deviceId")
    /\ t.type = "application" => Get(e, "app.id") \in t.apps
    /\ t.type \in {"device", "transfer"} => t.devices = {} \/ Get(e, "device.id") \in t.devices
    /\ t.type = "transfer" => t.kinds = {} \/ t.kinds \cap Kinds(e) # {}
    /\ t.type = "hotkey" => t.shortcut = Get(e, "shortcut")

-----------------------------------------------------------------------------
(* Conditions and preflight.                                               *)

Condition ==
    [type : {"application"}, app : Value, running : BOOLEAN]
    \cup [type : {"device"}, device : Value, connected : BOOLEAN]
    \cup [type : {"presence"}, state : PresenceEvent]

\* The time range is ZoneCalendar's.
Holds(c, env) ==
    CASE c.type = "application" -> (c.app \in env.running) <=> c.running
      [] c.type = "device" -> (c.device \in env.connected) <=> c.connected
      [] c.type = "presence" -> env.presence = c.state

\* condition_failure: the first condition that does not hold, 0 for none.
ConditionFailure(conditions, env) ==
    LET failing == {i \in DOMAIN conditions : ~Holds(conditions[i], env)}
    IN  IF failing = {} THEN 0 ELSE CHOOSE i \in failing : \A j \in failing : i <= j

Confirm == <<"session", "confirm">>
Mobile == <<"notification", "mobile">>

\* The system, as preflight finds it: what it is capable of, whether the trigger can be
\* observed (trigger_available), which quick actions there are with the snapshots they give,
\* which applications are installed.
Snapshot == [confirmation : BOOLEAN, unlocked : BOOLEAN, requirements : SUBSET {<<"camera">>}]

Require(capability, sys) == {capability} \ sys.capable

\* require
PreflightTrigger(d, sys) ==
    (IF ValidTrigger(d.trigger) THEN {} ELSE {<<"configuration">>})
    \cup (IF sys.observes THEN {} ELSE {<<"trigger", "unavailable">>})
    \cup Require(Capability(d.trigger), sys)
    \cup (IF d.ask THEN Require(Confirm, sys) ELSE {})

PreflightCondition(c, sys) ==
    (IF c.type = "application" THEN Require(<<"application", "started">>, sys) ELSE {})
    \cup (IF c.type = "presence" THEN Require(<<"presence", c.state>>, sys) ELSE {})

AtLockedSession(t) == t.type = "system" /\ t.event \in {"locked", "sleeping"}

\* Mutant: a system that goes to sleep is taken for one that stays unlocked.
PreflightActionAwake(d, a, sys) ==
    IF a \notin DOMAIN sys.actions THEN {<<"action", "missing">>}
    ELSE IF sys.actions[a].unlocked /\ d.trigger = [type |-> "system", event |-> "locked"]
         THEN {<<"session", "locked">>}
    ELSE (sys.actions[a].requirements
          \cup (IF sys.actions[a].confirmation THEN {Confirm} ELSE {})) \ sys.capable

PreflightAction(d, a, sys) ==
    IF a \notin DOMAIN sys.actions THEN {<<"action", "missing">>}
    ELSE IF sys.actions[a].unlocked /\ AtLockedSession(d.trigger) THEN {<<"session", "locked">>}
    ELSE (sys.actions[a].requirements
          \cup (IF sys.actions[a].confirmation THEN {Confirm} ELSE {})) \ sys.capable

PreflightStep(d, s, sys) ==
    CASE s.type = "shell" -> Require(<<"shell", s.shell>>, sys)
      [] s.type = "notification" -> IF s.mobile THEN Require(Mobile, sys) ELSE {}
      [] s.type = "action" -> PreflightAction(d, s.action, sys)
      [] s.type = "delay" -> {}

\* The applications of the trigger and of the conditions are looked for.
Applications(d) ==
    (IF d.trigger.type = "application" THEN d.trigger.apps ELSE {})
    \cup {c.app : c \in {d.conditions[i] : i \in {j \in DOMAIN d.conditions : d.conditions[j].type = "application"}}}

Preflight(d, sys) ==
    PreflightTrigger(d, sys)
    \cup (UNION {PreflightCondition(d.conditions[i], sys) : i \in DOMAIN d.conditions})
    \cup (UNION {PreflightStep(d, d.steps[i], sys) : i \in DOMAIN d.steps})
    \cup {<<"application", "missing", app>> : app \in Applications(d) \ sys.installed}

-----------------------------------------------------------------------------
(* A run, as far as it depends on what preflight looked at: neither        *)
(* enqueue nor execute asks for a capability or an application.            *)

ActionSteps(d) == {i \in DOMAIN d.steps : d.steps[i].type = "action"}

\* enqueue takes the snapshots of all actions before anything runs; one that is gone fails
\* the activity.
TakesSnapshots(d, sys) == \A i \in ActionSteps(d) : d.steps[i].action \in DOMAIN sys.actions

\* The environment is locked when the step is reached, and its action asks for the opposite.
Refuses(d, i, sys, locked) ==
    i \in ActionSteps(d) /\ sys.actions[d.steps[i].action].unlocked /\ locked[i]

\* The steps that reach their executor when each that does succeeds; locked tells of each
\* step whether the session is locked when its turn comes.  The first refusal ends the run.
HandedOver(d, sys, locked) ==
    {i \in DOMAIN d.steps : TakesSnapshots(d, sys) /\ \A j \in 1 .. i : ~Refuses(d, j, sys, locked)}

\* The environment that a host without some capabilities reports.
NoPresence == "none"
Seen(env, sys) ==
    [env EXCEPT !.running = IF <<"application", "started">> \in sys.capable THEN @ ELSE {},
                !.presence = IF <<"presence", @>> \in sys.capable THEN @ ELSE NoPresence]
=============================================================================

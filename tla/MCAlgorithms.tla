---------------------------- MODULE MCAlgorithms ----------------------------
(***************************************************************************)
(* The algorithms without a state of their own, for TLC: the calendar at   *)
(* every instant, and with the calendar at rest every text of a few        *)
(* pieces, every trigger, many definitions and histories.                  *)
(***************************************************************************)
EXTENDS MCZoneCalendar, EventTemplates, EventRules, StoredHistory

ASSUME ValueAssumption == "x" \in Value

VARIABLES about, input    \* what input is looked at: about which algorithm

AtRest ==
    /\ now = LastInstant
    /\ rule = [time |-> 0, weekdays |-> {1}]
    /\ range = [start |-> 0, end |-> 0, weekdays |-> {1}]

\* Bound: how big an input gets.
MaxPieces == [text |-> 6, rows |-> 5]

Piece == {<<"{">>, <<"}">>, <<"{", "{">>, <<"}", "}">>, <<"a">>, <<Blank, "b", Blank>>}
\* A text is made of a few pieces.
Text == input.text

References == <<"$0", "$1", "$2", "$3", "$4", "$5">>
Letters == {"a", "b"}
Alphabet == {"{", "}", Blank} \cup Letters \cup {References[n] : n \in DOMAIN References}

ASSUME TokenAssumption == {"{", "}", Blank, "a", "b"} \subseteq Token

ASSUME ReferenceAssumption ==
    /\ Len(Reference) >= MaxPieces.text
    /\ \A piece \in Piece : \A i \in DOMAIN piece, n \in DOMAIN Reference : piece[i] # Reference[n]

Device == Value \ {Empty}
SomeTrigger ==
    {t \in Trigger : t.type \in {"manual", "system", "hotkey"}}
    \cup {[type |-> "application", event |-> "exited", apps |-> apps] : apps \in SUBSET Value}
    \cup {[type |-> "presence", state |-> "absent"], [type |-> "bluetooth", device |-> "x"]}
SomeCondition ==
    [type : {"application"}, app : {"x"}, running : BOOLEAN]
    \cup {[type |-> "presence", state |-> "absent"], [type |-> "device", device |-> "x", connected |-> TRUE]}
Step ==
    [type : {"shell"}, shell : {"system", "zsh"}] \cup [type : {"notification"}, mobile : BOOLEAN]
    \cup [type : {"action"}, action : Action] \cup [type : {"delay"}]
Script == [type |-> "shell", shell |-> "sh"]
SomeDefinition ==
    [trigger : SomeTrigger, ask : BOOLEAN, steps : {<<s>> : s \in Step} \cup {<<Script, s>> : s \in Step},
     conditions : {<<>>} \cup {<<c>> : c \in SomeCondition}]

AllInit ==
    \/ Init /\ about = "calendar" /\ input = <<>>
    \/ AtRest /\ about = "text" /\ input = [text |-> <<>>, pieces |-> 0]
    \/ AtRest /\ about = "trigger" /\ input \in Trigger
    \/ AtRest /\ about = "definition" /\ input \in SomeDefinition
    \/ AtRest /\ about = "rows" /\ input = {}

Bigger ==
    \/ about = "text" /\ \E piece \in Piece :
          input' = [text |-> input.text \o piece, pieces |-> input.pieces + 1]
    \/ about = "rows" /\ \E made \in 0 .. 4, finished \in BOOLEAN :
          /\ \A x \in input : x.made <= made
          /\ input' = input \cup {[id |-> Cardinality(input), made |-> made, finished |-> finished]}

Pieces == IF about = "rows" THEN Cardinality(input) ELSE input.pieces

AllNext ==
    \/ about = "calendar" /\ Next /\ UNCHANGED <<about, input>>
    \/ about \in {"text", "rows"} /\ Pieces < MaxPieces[about] /\ Bigger /\ UNCHANGED <<vars, about>>

AllSpec == AllInit /\ [][AllNext]_<<vars, about, input>>

-----------------------------------------------------------------------------
(* Texts.                                                                  *)

A == <<"a">>
B == <<"b">>
Allowed == {{}, {A}, {A, B}}
Values == {<<"a">>, <<"{", "{">>, <<"}", "}">>, <<"{", "{", "b", "}", "}">>}
Variables == [{A, B} -> Values] \cup [{A} -> Values]
Only(variables, keys) == [k \in (DOMAIN variables) \cap keys |-> variables[k]]

\* A text that was accepted for a trigger is rendered, as notification and as script, for
\* every event that has the trigger's variables, and shows nothing else of the event.
ValidatedRenders ==
    about = "text" =>
       \A allowed \in Allowed, v \in Variables :
          ValidateVariables(Text, allowed) /\ allowed \subseteq DOMAIN v =>
             /\ RenderText(Text, v).ok /\ PrepareScript(Text, v).ok
             /\ RenderText(Text, v) = RenderText(Text, Only(v, allowed))

\* The script has no reference that a letter follows.
Separate(script) ==
    \A i \in 1 .. Len(script) - 1, n \in DOMAIN Reference :
       script[i] = Reference[n] => script[i + 1] \notin Letter

\* Values are data, in a notification and in a script: a text rendered with any values is
\* the text rendered with marks for them, and the marks replaced, so that braces in a value
\* mean nothing; a script whose environment variables the shell fills in is that text, in
\* PowerShell if no letter follows a variable.
Marks == [k \in {A, B} |-> IF k = A THEN <<Reference[1]>> ELSE <<Reference[2]>>]
ValuesAreData ==
    about = "text" =>
       \A v \in [{A, B} -> Values], powershell \in BOOLEAN :
          LET marked == RenderText(Text, Marks)
              rendered == RenderText(Text, v)
              script == PrepareScript(Text, v)
          IN  /\ rendered.ok = marked.ok /\ rendered.text = Expand(marked.text, <<v[A], v[B]>>, FALSE)
              /\ script.ok = rendered.ok
              /\ \/ powershell /\ ~Separate(script.text)
                 \/ Expand(script.text, script.env, powershell) = rendered.text

-----------------------------------------------------------------------------
(* Triggers.                                                               *)

Kind == {Capability(t) : t \in Trigger}
IdKeys == {"bluetooth.deviceId", "app.id", "device.id", "shortcut"}
EventVariables ==
    UNION {[keys -> Value] : keys \in {k \in SUBSET IdKeys : Cardinality(k) <= 1}}
Events ==
    [kind : Kind, variables : EventVariables]
    \cup {[kind |-> k, variables |-> [x \in {"device.id", "file.kinds"} |->
               IF x = "device.id" THEN id ELSE kinds]] :
            k \in {<<"transfer", "received">>, <<"transfer", "sent">>}, id \in Value, kinds \in (SUBSET Value) \ {{}}}
Heard(t) == {e \in Events : Matches(t, e)}

\* An event that lacks the variable by which a stored definition picks its events sets the
\* definition off only if it lists nothing, which means any device or kind, or lists an empty
\* id: a missing variable reads as an empty name, which validate refuses in triggers for
\* Bluetooth, applications and hotkeys, and lets pass among devices and kinds of files.
TakesUnnamed(list) == list = {} \/ Empty \in list
MatchIsNamed ==
    about = "trigger" /\ ValidTrigger(input) =>
       \A e \in Heard(input) :
          /\ input.type = "bluetooth" => "bluetooth.deviceId" \in DOMAIN e.variables
          /\ input.type = "application" => "app.id" \in DOMAIN e.variables
          /\ input.type = "hotkey" => "shortcut" \in DOMAIN e.variables
          /\ input.type \in {"device", "transfer"} =>
                "device.id" \in DOMAIN e.variables \/ TakesUnnamed(input.devices)
          /\ input.type = "transfer" =>
                "file.kinds" \in DOMAIN e.variables \/ TakesUnnamed(input.kinds)

\* Triggers that one event may set off offer the same variables: what an event of a kind
\* carries is enough for each of them.
OneEventOneOffer ==
    about = "trigger" =>
       \A e \in Heard(input), t \in Trigger :
          Matches(t, e) => AvailableVariables(t) = AvailableVariables(input)

\* An event without the name a definition asks for does not set it off, unless the definition
\* takes unnamed devices or kinds, and an event offers the same to all that it sets off.
EventsFitTriggers == MatchIsNamed /\ OneEventOneOffer

-----------------------------------------------------------------------------
(* Definitions.                                                            *)

Capable == {Confirm, Mobile, <<"camera">>, <<"application", "started">>, <<"application", "exited">>,
            <<"presence", "absent">>, <<"shell", "system">>, <<"shell", "sh">>, <<"shell", "zsh">>}
           \cup {<<"system", e>> : e \in SessionEvent} \cup {<<"manual">>, <<"hotkey">>, <<"bluetooth", "far">>}
Systems ==
    [capable : {Capable} \cup {Capable \ {c} : c \in Capable},
     actions : UNION {[acts -> Snapshot] : acts \in SUBSET Action},
     installed : {Device, {}} \cup {{x} : x \in Device},
     observes : BOOLEAN]

\* The session is locked when such an event is handled, and may stay so.
LosesSession == [type : {"system"}, event : {"locked", "sleeping"}]

\* preflight asks for the trigger, execute for the session: an event of a definition that
\* preflight accepted, with the actions it found, has every step handed over, if the trigger
\* is the session being locked or going to sleep whether or not it is locked by then, and
\* for any other trigger as long as it is not locked.  (A schedule, say, may come round at a
\* locked session: execute then refuses an action that needs an unlocked one.)
PreflightSuits ==
    about = "definition" =>
       \A sys \in Systems, locked \in [DOMAIN input.steps -> BOOLEAN] :
          /\ Preflight(input, sys) = {}
          /\ input.trigger \in LosesSession \/ \A i \in DOMAIN locked : ~locked[i]
          => HandedOver(input, sys, locked) = DOMAIN input.steps

Environments ==
    [running : SUBSET {"x"}, connected : SUBSET {"x"}, presence : {"absent", "uncertain", NoPresence}]

\* After preflight, conditions are judged by the facts: what the host cannot observe, and
\* therefore reports as absent, never decides.
ConditionsAreJudged ==
    about = "definition" =>
       \A sys \in Systems : Preflight(input, sys) = {} =>
          \A env \in Environments :
             ConditionFailure(input.conditions, Seen(env, sys)) = ConditionFailure(input.conditions, env)

\* After preflight an event is judged by the facts, and no step is refused for want of an
\* action, nor of an unlocked session where the session is lost with the event.
PreflightIsEnough == PreflightSuits /\ ConditionsAreJudged

-----------------------------------------------------------------------------
(* Histories.                                                              *)

\* "Completed history retains up to 100 entries within 30 days; pending confirmations are
\* never pruned": of what is finished the latest stay, and an entry that is young enough
\* goes only when as many others as are kept are as new and stay.
RetainsTheLatest ==
    about = "rows" =>
       \A time \in 0 .. 7 : \A left \in Prune(input, FALSE, time) :
          LET gone == input \ left
              done == {x \in left : x.finished}
          IN  /\ \A x \in gone : x.finished /\ \A y \in done : x.made <= y.made
              /\ Cardinality(done) <= Keep
              /\ \A x \in done : time - x.made <= MaxAge
              /\ \A x \in gone : time - x.made <= MaxAge =>
                    Cardinality({y \in left : y.made >= x.made}) >= Keep
=============================================================================

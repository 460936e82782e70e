--------------------------- MODULE EventTemplates ---------------------------
(***************************************************************************)
(* Texts with variables of the event, {{event.device.name}}, as sequences  *)
(* of tokens: the check when a definition is saved (validation.rs          *)
(* validate_variables), a notification (render_text), a script (shell.rs   *)
(* prepare_script).  The three are loops of their own in the code, and     *)
(* here.                                                                   *)
(***************************************************************************)
EXTENDS Integers, Sequences, FiniteSetsExt

CONSTANTS
    Token,       \* what a text is made of
    Reference,   \* the names ARCRELAY_EVENT_0, ARCRELAY_EVENT_1, ... as a script refers to them
    Letter       \* what may stand in a name

ASSUME TemplateAssumption ==
    /\ Reference \in Seq(Token) /\ Letter \subseteq Token
    /\ \A m, n \in DOMAIN Reference : Reference[m] = Reference[n] => m = n

\* Braces and blanks are tokens; so is the name of a variable.
Blank == " "

\* split_once: the text around the first pair of the brace b.
Pairs(text, b) == {i \in 1 .. Len(text) - 1 : text[i] = b /\ text[i + 1] = b}
Has(text, b) == Pairs(text, b) # {}
Before(text, b) == SubSeq(text, 1, Min(Pairs(text, b)) - 1)
After(text, b) == SubSeq(text, Min(Pairs(text, b)) + 2, Len(text))

\* trim
Trim(text) ==
    LET ink == {i \in DOMAIN text : text[i] # Blank}
    IN  IF ink = {} THEN <<>> ELSE SubSeq(text, Min(ink), Max(ink))

\* Of the text after an opening pair: the name of the variable, and the rest.
Key(tail) == Trim(Before(tail, "}"))
Rest(tail) == After(tail, "}")

Tokens == Seq(Token)

\* Mutant: the first variable is looked at.
ValidateFirst(text, allowed) ==
    ~Has(text, "{") \/ (Has(After(text, "{"), "}") /\ Key(After(text, "{")) \in allowed)

Validating(allowed) ==
    LET valid[rest \in Tokens] ==
          \/ ~Has(rest, "{")
          \/ LET tail == After(rest, "{")
             IN  Has(tail, "}") /\ Key(tail) \in allowed /\ valid[Rest(tail)]
    IN  valid

ValidateVariables(text, allowed) == Validating(allowed)[text]

-----------------------------------------------------------------------------
\* The value of a variable may be any text; an event has the values of some variables.
Error == [ok |-> FALSE, text |-> <<>>]
Prepend(head, rendered) == IF rendered.ok THEN [rendered EXCEPT !.text = head \o @] ELSE rendered

\* Mutant: the value is put back in front of the rest, and looked through again.
RenderAgain(text, variables) ==
    LET render[rest \in Tokens] ==
          IF ~Has(rest, "{") THEN [ok |-> TRUE, text |-> rest]
          ELSE LET tail == After(rest, "{")
               IN  IF ~Has(tail, "}") \/ Key(tail) \notin DOMAIN variables THEN Error
                   ELSE Prepend(Before(rest, "{"), render[variables[Key(tail)] \o Rest(tail)])
    IN  render[text]

Rendering(variables) ==
    LET render[rest \in Tokens] ==
          IF ~Has(rest, "{") THEN [ok |-> TRUE, text |-> rest]
          ELSE LET tail == After(rest, "{")
               IN  IF ~Has(tail, "}") \/ Key(tail) \notin DOMAIN variables THEN Error
                   ELSE Prepend(Before(rest, "{") \o variables[Key(tail)], render[Rest(tail)])
    IN  render

RenderText(text, variables) == Rendering(variables)[text]

-----------------------------------------------------------------------------
\* The loop of prepare_script: the rest of the text, the script so far and its environment.
Loop == [rest : Tokens, output : Tokens, env : Seq(Tokens)]
NoScript == [ok |-> FALSE, text |-> <<>>, env |-> <<>>]

\* Each occurrence of a variable gets an environment variable of its own, numbered by how
\* many there are.  Bound: there are as many as Reference has names.
Preparing(variables) ==
    LET prepare[s \in Loop] ==
          IF ~Has(s.rest, "{") THEN [ok |-> TRUE, text |-> s.output \o s.rest, env |-> s.env]
          ELSE LET tail == After(s.rest, "{")
               IN  IF \/ ~Has(tail, "}") \/ Key(tail) \notin DOMAIN variables
                      \/ Len(s.env) >= Len(Reference)
                   THEN NoScript
                   ELSE prepare[[rest   |-> Rest(tail),
                                 output |-> s.output \o Before(s.rest, "{") \o <<Reference[Len(s.env) + 1]>>,
                                 env    |-> Append(s.env, variables[Key(tail)])]]
    IN  prepare

PrepareScript(text, variables) == Preparing(variables)[[rest |-> text, output |-> <<>>, env |-> <<>>]]

\* The token t refers to the n-th variable of env.
Refers(t, n, env) == n \in DOMAIN env /\ Reference[n] = t

\* What a shell makes of a script: references are replaced, nothing else.  In PowerShell
\* $env:NAME has no end of its own: letters that follow belong to the name.  Bound: no variable
\* has such a longer name.
Expanding(env, powershell) ==
    LET expand[rest \in Tokens] ==
          IF rest = <<>> THEN <<>>
          ELSE IF ~\E n \in DOMAIN env : Refers(Head(rest), n, env)
          THEN <<Head(rest)>> \o expand[Tail(rest)]
          ELSE LET n == CHOOSE m \in DOMAIN env : Refers(Head(rest), m, env)
                   ends == {i \in 2 .. Len(rest) : rest[i] \notin Letter} \cup {Len(rest) + 1}
                   end == IF powershell THEN Min(ends) ELSE 2
               IN  (IF end = 2 THEN env[n] ELSE <<>>) \o expand[SubSeq(rest, end, Len(rest))]
    IN  expand

Expand(script, env, powershell) == Expanding(env, powershell)[script]
=============================================================================

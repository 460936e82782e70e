------------------------- MODULE MCAutomationEngine -------------------------
(* Instances of AutomationEngine for TLC. *)
EXTENDS AutomationEngine, TLC

CONSTANTS a1, a2, e1, e2

\* Both of a1's steps are dangerous.
BothDangerous == {<<a1, 1>>, <<a1, 2>>}

\* The only step of a1 is a dangerous QuickAction, those of the others are harmless.
OnlyA1 == {<<a1, 1>>}

None == {}

\* The ids are uuids: any of them may come first.  Automations other than a1 are alike.
Ids == Permutations(Run) \cup Permutations(Ticket) \cup Permutations(Automation \ {a1})
=============================================================================

----------------------------- MODULE MCLauncher -----------------------------
EXTENDS Launcher

\* Names in their order: 1 is an entry of the system that the user has too, 2 a
\* file that asks not to be shown and whose program is on PATH, 3 and 4
\* programs on PATH, 3 in two directories and as an entry.
App(name) == [name |-> name, skipped |-> FALSE, complete |-> TRUE, no_display |-> FALSE]
FewFiles == <<App(3), App(1), [App(2) EXCEPT !.no_display = TRUE], App(1)>>
FewPrograms == <<4, 3, 2, 4>>
TwoTexts == {"t", "tt"}
Matches == [t \in TwoTexts |-> IF t = "t" THEN {2, 4} ELSE {4}]
=============================================================================

-------------------------------- MODULE MCWm --------------------------------
(***************************************************************************)
(* Instances of Wm for TLC: the sets of bindings and placements the runs   *)
(* choose from, and the symmetry of the windows.                           *)
(***************************************************************************)
EXTENDS Wm

\* The bindings that give every window one tag and every monitor one view.
SingleTagBindings == {"view", "tag", "focusmon", "tagmon", "focusstack",
                      "pointer", "click", "activate", "preview", "switcher"}
\* These, and those that hide, reorder and put away windows.
ListBindings == SingleTagBindings \cup
    {"focusstackhidden", "movestack", "zoom", "hide", "togglescratch", "tagall"}
\* These, and those that give windows or views several tags.
TagBindings == SingleTagBindings \cup {"toggletag", "toggleview", "viewall"}
\* Monitors that come and go.
HotplugBindings == SingleTagBindings \cup {"hotplug"}
\* Every binding of config.h.
AllBindings == ListBindings \cup TagBindings \cup HotplugBindings

NoWindows == {}
NoRules == {}
SomeTags == {{}, {2}, {1, 2}}
OneWindow == {CHOOSE c \in Client : TRUE}
WindowSymmetry == Permutations(Client)
\* All windows but the scratchpad.
PlainSymmetry == Permutations(Client \ OneWindow)
=============================================================================

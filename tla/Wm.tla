--------------------------------- MODULE Wm ---------------------------------
(***************************************************************************)
(* The window-manager core of awm: which windows are managed, on which     *)
(* monitor and tags they live, in which order the two client lists hold    *)
(* them, which tags each monitor shows, which client each monitor has      *)
(* selected and which window it made active.  It models client.c, the      *)
(* monitor bookkeeping of monitor.c and the X event handlers of events.c   *)
(* that change this state.                                                 *)
(*                                                                         *)
(* The state is one record, as in the code (AWMState, wmstate.h), and each *)
(* C helper is an operator from a state to the state it leaves behind.     *)
(* awm is single-threaded: a handler runs to completion, so each handler   *)
(* is one action.  The only loop whose body depends on what its previous   *)
(* iterations changed, showall(), is a sequence of steps.                  *)
(*                                                                         *)
(* An operator named f_Defect stands before f and is f with a bug: the     *)
(* mutation runs put it in f's place.  No specification uses it.           *)
(***************************************************************************)
EXTENDS Naturals, Sequences, FiniteSets, SequencesExt

CONSTANTS
    Client,       \* windows that may ask to be managed
    NoClient,     \* the NULL Client pointer
    NumTags,      \* LENGTH(tags)
    MinMonitors,  \* fewest outputs left switched on (bound of the hotplug actions)
    MaxMonitors,  \* most outputs (bound of the hotplug actions)
    Bindings,     \* functions bound in keys[] and buttons[] of config.h
    Placements,   \* how windows are placed: "plain", "rule", "scratch", "transient"
    RuleTags,     \* tag masks that entries of rules[] assign
    Scratch,      \* windows whose title matches the scratchpad rule
    NeverFocus    \* windows whose WM_HINTS say they take no input focus

ASSUME ClientAssumption == NoClient \notin Client
ASSUME NumTagsAssumption == NumTags \in Nat \ {0}
ASSUME MonitorsAssumption ==
    /\ MinMonitors \in Nat /\ MaxMonitors \in Nat \ {0}
    /\ MinMonitors <= MaxMonitors
    /\ MaxMonitors <= NumTags         \* createmon() refuses more
ASSUME ConfigAssumption ==
    /\ Scratch \subseteq Client /\ NeverFocus \subseteq Client
    /\ RuleTags \subseteq SUBSET (1..NumTags)

VARIABLES
    g_awm,    \* the consolidated state of the window manager
    showing   \* the loop of showall(): clients it has yet to visit, and
              \* (auxiliary) the tags the selected monitor showed when it began

vars == <<g_awm, showing>>

Tag == 1..NumTags
Slot == 1..MaxMonitors                    \* g_awm.monitors[]
SingleTags == {{t} : t \in Tag}
Dir == {"next", "prev"}                   \* the +1 and -1 of config.h
Idle == [todo |-> << >>, tagset |-> {}]

-----------------------------------------------------------------------------
\* Reading the state.

Managed(s) == ToSet(s.clients)
Mon(s) == 1..s.n_monitors
\* ISVISIBLE: the client has a tag in common with the tags the monitor shows.
ISVISIBLE(s, c, m) == s.tags[c] \cap s.tagset[m] # {}
\* The first client of list q that is visible on m, as the `for' loops over
\* stack_head and clients_head find it.
FirstVisible(s, q, m) ==
    LET at == {i \in DOMAIN q : ISVISIBLE(s, q[i], m)}
    IN  IF at = {} THEN NoClient ELSE q[Min(at)]
Position(q, c) == CHOOSE i \in DOMAIN q : q[i] = c
SelectedClient(s) == s.sel[s.selmon]
\* Monitors other than m that show one of the tags ts.
Showing(s, m, ts) == {k \in Mon(s) \ {m} : s.tagset[k] \cap ts # {}}

-----------------------------------------------------------------------------
\* The two lists.  Both push at the head.

Unlink(q, c) == RemoveAt(q, Position(q, c))
attach(s, c) == [s EXCEPT !.clients = Cons(c, @)]
detach(s, c) == [s EXCEPT !.clients = Unlink(@, c)]
attachstack(s, c) == [s EXCEPT !.stack = Cons(c, @)]
\* Without the repair of the selection.
detachstack_KeepsSelection(s, c) == [s EXCEPT !.stack = Unlink(@, c)]

\* detachstack() also repairs the selection, but only that of c's monitor.
detachstack(s, c) ==
    LET t == [s EXCEPT !.stack = Unlink(@, c)]
        m == s.mon[c]
    IN  IF s.sel[m] = c THEN [t EXCEPT !.sel[m] = FirstVisible(t, t.stack, m)]
                        ELSE t

-----------------------------------------------------------------------------
\* Focus.

\* active is the window that awm last gave the input focus to, and what
\* _NET_ACTIVE_WINDOW says.  X ignores the request for a hidden window; awm does
\* not look.

\* unfocus(c, 1): give the input focus back to the root window.
unfocus(s, c) == IF c = NoClient THEN s ELSE [s EXCEPT !.active = NoClient]

setfocus(s, c) == IF c \in NeverFocus THEN s ELSE [s EXCEPT !.active = c]

\* Without the switch to the monitor of the client found.
focus_KeepsMonitor(s, c) ==
    LET d == IF c # NoClient /\ ISVISIBLE(s, c, s.selmon)
             THEN c ELSE FirstVisible(s, s.stack, s.selmon)
        t == attachstack(detachstack(s, d), d)
    IN  IF d = NoClient
        THEN [s EXCEPT !.active = NoClient, !.sel[s.selmon] = NoClient]
        ELSE [setfocus(t, d) EXCEPT !.sel[t.selmon] = d]

focus(s, c) ==
    LET d == IF c # NoClient /\ ISVISIBLE(s, c, s.selmon)
             THEN c ELSE FirstVisible(s, s.stack, s.selmon)
        t == attachstack(detachstack([s EXCEPT !.selmon = s.mon[d]], d), d)
    IN  IF d = NoClient
        THEN [s EXCEPT !.active = NoClient, !.sel[s.selmon] = NoClient]
        ELSE [setfocus(t, d) EXCEPT !.sel[t.selmon] = d]

\* Select monitor m the way the pointer does: drop the focus, then let the
\* new monitor choose.
selectmon(s, m) ==
    focus([unfocus(s, SelectedClient(s)) EXCEPT !.selmon = m], NoClient)

\* The pointer enters client c.
enternotify(s, c) ==
    LET m == s.mon[c]
    IN  IF m # s.selmon
        THEN focus([unfocus(s, SelectedClient(s)) EXCEPT !.selmon = m], c)
        ELSE IF c = SelectedClient(s) THEN s ELSE focus(s, c)

pop(s, c) == focus(attach(detach(s, c), c), c)

-----------------------------------------------------------------------------
\* Tags and views.

\* Without the test of ISVISIBLE.
attachclients_All(s, m) ==
    LET utags == UNION {s.tagset[k] : k \in Mon(s) \ {m}}
    IN  [s EXCEPT
           !.mon  = [c \in Client |-> IF c \in Managed(s) THEN m ELSE @[c]],
           !.tags = [c \in Client |->
                       IF c \in Managed(s) /\ s.tags[c] \cap utags # {}
                       THEN s.tags[c] \cap s.tagset[m] ELSE s.tags[c]],
           !.active = NoClient]

\* attachclients(m): every client visible on m moves to m; one that another
\* monitor shows as well keeps only the tags m shows.
attachclients(s, m) ==
    LET shown   == {c \in Managed(s) : ISVISIBLE(s, c, m)}
        utags   == UNION {s.tagset[k] : k \in Mon(s) \ {m}}
    IN  [s EXCEPT
           !.mon    = [c \in Client |-> IF c \in shown THEN m ELSE s.mon[c]],
           !.tags   = [c \in Client |->
                         IF c \in shown /\ s.tags[c] \cap utags # {}
                         THEN s.tags[c] \cap s.tagset[m] ELSE s.tags[c]],
           !.active = IF shown = {} THEN @ ELSE NoClient]

\* seltags ^= 1 and a new tag set in the slot that becomes the current one.
flip(s, m, ts) == [s EXCEPT !.tagset[m] = ts, !.alttagset[m] = s.tagset[m]]

\* Without the pass over the monitor that gave up its tags.
settle_OneMonitor(s, m) == focus(attachclients(s, s.selmon), NoClient)

\* What view() and toggleview() end with when monitor m gave up its tags.
settle(s, m) == focus(attachclients(attachclients(s, m), s.selmon), NoClient)

view(s, ui) ==
    LET n      == s.selmon
        old    == s.tagset[n]
        newtagset == IF ui # {} THEN ui ELSE s.alttagset[n]
        others == Showing(s, n, newtagset)
        m      == Min(others)
        swapped == [flip(flip(s, m, old), n, newtagset)
                      EXCEPT !.sel[m] = s.sel[n]]
    IN  IF ui = old \/ (others # {} /\ newtagset \cap old # {}) THEN s
        ELSE IF others # {} THEN settle(swapped, m)
        ELSE focus(attachclients(flip(s, n, newtagset), n), NoClient)

toggleview(s, ui) ==
    LET n      == s.selmon
        newtagset == SymDiff(s.tagset[n], ui)
        others == Showing(s, n, newtagset)
        m      == Min(others)
        here   == [s EXCEPT !.tagset[n] = newtagset]
        swapped == [flip(s, m, s.tagset[n])
                      EXCEPT !.tagset[n] = newtagset, !.sel[m] = s.sel[n]]
    IN  IF newtagset = {} THEN s
        ELSE IF others # {} THEN settle(swapped, m)
        ELSE focus(attachclients(here, n), NoClient)

tag(s, ui) ==
    LET n      == s.selmon
        c      == s.sel[n]
        others == Showing(s, n, ui)
        retagged == [s EXCEPT !.tags[c] = ui]
    IN  IF c = NoClient \/ (others # {} /\ ui \cap s.tagset[n] # {}) THEN s
        ELSE IF others # {}
             THEN focus([retagged EXCEPT !.mon[c] = Min(others)], NoClient)
             ELSE focus(retagged, NoClient)

toggletag(s, ui) ==
    LET c       == SelectedClient(s)
        newtags == SymDiff(s.tags[c], ui)
    IN  IF c = NoClient \/ newtags = {} THEN s
        ELSE focus([s EXCEPT !.tags[c] = newtags], NoClient)

\* Without detach().
sendmon_StaysLinked(s, c, m) ==
    LET off == detachstack(unfocus(s, c), c)
        on  == [off EXCEPT !.mon[c] = m, !.tags[c] = s.tagset[m]]
    IN  IF s.mon[c] = m THEN s
        ELSE focus(attachstack(attach(on, c), c), NoClient)

sendmon(s, c, m) ==
    LET off == detachstack(detach(unfocus(s, c), c), c)
        on  == [off EXCEPT !.mon[c] = m, !.tags[c] = s.tagset[m]]
    IN  IF s.mon[c] = m THEN s
        ELSE focus(attachstack(attach(on, c), c), NoClient)

\* Without wrapping around.
dirtomon_NoWrap(s, dir) == IF dir = "next" THEN s.selmon + 1 ELSE s.selmon - 1

dirtomon(s, dir) ==
    IF dir = "next" THEN (s.selmon % s.n_monitors) + 1
    ELSE IF s.selmon = 1 THEN s.n_monitors ELSE s.selmon - 1

-----------------------------------------------------------------------------
\* Hiding (iconifying) windows.  ISVISIBLE does not look at ishidden.

hide(s, c) == IF s.ishidden[c] THEN s
              ELSE focus([s EXCEPT !.ishidden[c] = TRUE], NoClient)
show(s, c) == IF ~s.ishidden[c] THEN s
              ELSE focus([s EXCEPT !.ishidden[c] = FALSE], c)

\* A click on the tab of client c.  pop() when c is tiled, focus() otherwise.
focuswin(s, c) ==
    IF s.ishidden[c] THEN {show(s, c)}
    ELSE IF c = SelectedClient(s) THEN {hide(s, c)}
    ELSE IF ISVISIBLE(s, c, s.selmon) THEN {pop(s, c), focus(s, c)}
    ELSE {s}

\* The position movement in the client list reaches from the selected client:
\* the next (previous) one of the positions `at', wrapping around.
Cycle(s, at, dir) ==
    LET i      == Position(s.clients, SelectedClient(s))
        after  == {j \in at : j > i}
        before == {j \in at : j < i}
    IN  IF dir = "next" THEN Min(IF after # {} THEN after ELSE at)
                        ELSE Max(IF before # {} THEN before ELSE at)

\* Positions of the clients visible on the selected monitor that are not in
\* `floating'.  Which clients float is not part of the state: the operations
\* that ask leave it open.
VisibleAt(s, floating) ==
    {i \in DOMAIN s.clients : /\ ISVISIBLE(s, s.clients[i], s.selmon)
                              /\ s.clients[i] \notin floating}

\* nexttiled() passes over hidden windows too.
zoom(s, floating) ==
    LET c     == SelectedClient(s)
        i     == Position(s.clients, c)
        tiled == VisibleAt(s, floating \cup {d \in Client : s.ishidden[d]})
        after == {j \in tiled : j > i}
    IN  IF c = NoClient \/ c \in floating THEN s
        ELSE IF tiled = {} \/ i # Min(tiled) THEN pop(s, c)
        ELSE IF after # {} THEN pop(s, s.clients[Min(after)])
        ELSE s

togglescratch(s) ==
    LET at == {i \in DOMAIN s.clients : s.clients[i] \in Scratch}
        c  == s.clients[Min(at)]
        n  == s.selmon
        moved == IF s.mon[c] = n THEN s
                 ELSE attachstack([detachstack(s, c) EXCEPT !.mon[c] = n], c)
    IN  IF at = {} THEN s                  \* spawnscratch(): a window may come
        ELSE IF ISVISIBLE(s, c, n)
             THEN focus([s EXCEPT !.tags[c] = {}], NoClient)
             ELSE focus([moved EXCEPT !.tags[c] = s.tagset[n]], c)

-----------------------------------------------------------------------------
\* Requests to show client c.  They select c's monitor without dropping the
\* focus first.

\* _NET_ACTIVE_WINDOW: view c's lowest tag.
activate(s, c) ==
    focus(view([s EXCEPT !.selmon = s.mon[c]], {Min(s.tags[c])}), c)

\* Without view().
preview_focus_NoView(s, c) == focus([s EXCEPT !.selmon = s.mon[c]], c)

\* UI_MSG_PREVIEW_FOCUS: the user clicked the card of c in awm-ui's preview.
preview_focus(s, c) ==
    LET t == [s EXCEPT !.selmon = s.mon[c]]
    IN  focus(IF ISVISIBLE(t, c, t.selmon) THEN t ELSE view(t, t.tags[c]), c)

\* The switcher's choice; `all' is TRUE for Super+Tab.
switcher_confirm(s, c, all) ==
    LET t == [s EXCEPT !.selmon = s.mon[c]]
    IN  focus(IF all /\ ~ISVISIBLE(s, c, t.selmon) THEN view(t, t.tags[c]) ELSE s,
              c)

-----------------------------------------------------------------------------
\* Managing windows.

\* applyrules() for rules that give tag mask r: the first monitor showing one
\* of these tags, and the last monitor when there is none, because the loop
\* leaves its variable on the last monitor it looked at.  With every output
\* off it leaves the variable uninitialized: when that reads as NULL the client
\* stays on the selected monitor, and any other value ends awm.
ruledmon(s, r) ==
    LET showing_r == {m \in Mon(s) : s.tagset[m] \cap r # {}}
    IN  IF showing_r # {} THEN Min(showing_r)
        ELSE IF Mon(s) = {} THEN s.selmon ELSE s.n_monitors

\* Where manage() puts c: the pairs of monitor and tags its hints and the
\* rules may lead to.
placements(s, c) ==
    LET ruled(r) == [mon |-> ruledmon(s, r),
                     tags |-> IF c \in Scratch THEN {}
                              ELSE IF r # {} THEN r
                              ELSE s.tagset[ruledmon(s, r)]]
    IN  IF c \in Scratch
        THEN IF "scratch" \in Placements THEN {ruled({})} ELSE {}
        ELSE UNION {
          IF "plain" \in Placements
            THEN {[mon |-> s.selmon, tags |-> s.tagset[s.selmon]]} ELSE {},
          IF "rule" \in Placements THEN {ruled(r) : r \in RuleTags} ELSE {},
          IF "transient" \in Placements
            THEN {[mon |-> s.mon[t], tags |-> s.tags[t]] : t \in Managed(s)}
            ELSE {}}

manage(s, c, place) ==
    LET t == attachstack(attach([s EXCEPT !.mon[c] = place.mon,
                                          !.tags[c] = place.tags], c), c)
    IN  focus(IF c \in Scratch THEN t ELSE [t EXCEPT !.sel[place.mon] = c],
              NoClient)

\* A freed client's fields take one value, so that equal states look equal.
unmanage(s, c) ==
    focus([detachstack(detach(s, c), c)
             EXCEPT !.mon[c] = 1, !.tags[c] = {}, !.ishidden[c] = FALSE],
          NoClient)

-----------------------------------------------------------------------------
\* Monitors that come and go (updategeom).

\* Without the search for a free tag.
createmon_SameTag(s) ==
    LET n == s.n_monitors + 1
    IN  [s EXCEPT !.n_monitors = n, !.tagset[n] = {n}, !.alttagset[n] = {n},
                  !.sel[n] = NoClient]

createmon(s) ==
    LET free == {t \in Tag : \A m \in Mon(s) : t \notin s.tagset[m]}
        n    == s.n_monitors + 1
        reassigned == [s EXCEPT
            !.tagset    = [m \in Slot |-> IF m \in Mon(s) THEN {m} ELSE @[m]],
            !.alttagset = [m \in Slot |->
                             IF m \in Mon(s) THEN s.tagset[m] ELSE @[m]]]
        t    == IF free # {} THEN s ELSE reassigned
        i    == IF free # {} THEN Min(free) ELSE n
    IN  [t EXCEPT !.n_monitors = n, !.tagset[n] = {i}, !.alttagset[n] = {i},
                  !.sel[n] = NoClient]

\* Without moving the clients of the dying monitor.
removemon_KeepsOwners(s) ==
    LET dying == s.n_monitors
    IN  [s EXCEPT !.n_monitors = dying - 1,
                  !.selmon = IF @ = dying THEN 1 ELSE @]

\* The last monitor dies: its clients go to the selected monitor, or to the
\* first one when it was itself selected.
removemon(s) ==
    LET dying == s.n_monitors
        heir  == IF s.selmon = dying THEN 1 ELSE s.selmon
    IN  [s EXCEPT !.n_monitors = dying - 1,
                  !.selmon = heir,
                  !.mon = [c \in Client |-> IF @[c] = dying THEN heir ELSE @[c]]]

\* Slots no monitor uses take one value, except slot 1, which code may still
\* look at when no output is on.
forget(s) ==
    [s EXCEPT
       !.tagset    = [m \in Slot |-> IF m \in Mon(s) \cup {1} THEN @[m] ELSE {}],
       !.alttagset = [m \in Slot |-> IF m \in Mon(s) \cup {1} THEN @[m] ELSE {}],
       !.sel = [m \in Slot |-> IF m \in Mon(s) \cup {1} THEN @[m] ELSE NoClient]]

-----------------------------------------------------------------------------
InitialState(n) ==
    [clients    |-> << >>, stack |-> << >>,
     mon        |-> [c \in Client |-> 1],
     tags       |-> [c \in Client |-> {}],
     ishidden   |-> [c \in Client |-> FALSE],
     n_monitors |-> n, selmon |-> 1,
     tagset     |-> [m \in Slot |-> IF m <= n THEN {m} ELSE {}],
     alttagset  |-> [m \in Slot |-> IF m <= n THEN {m} ELSE {}],
     sel        |-> [m \in Slot |-> NoClient],
     active     |-> NoClient]

\* setup(): updategeom() creates one monitor per output and selects the one
\* under the pointer.
Init ==
    /\ \E n \in (MinMonitors..MaxMonitors) \ {0} : \E m \in 1..n :
         g_awm = [InitialState(n) EXCEPT !.selmon = m]
    /\ showing = Idle

\* A handler that runs to completion: it turns the state into s.
Handler(s) == /\ showing.todo = << >>
              /\ g_awm' = s
              /\ UNCHANGED showing
Bound(f) == f \in Bindings

-----------------------------------------------------------------------------
\* Key bindings.

View(ui) == Bound("view") /\ Handler(view(g_awm, ui))
ViewAll == Bound("viewall") /\ Handler(view(g_awm, Tag))
ToggleView(ui) == Bound("toggleview") /\ Handler(toggleview(g_awm, ui))
TagSelected(ui) == Bound("tag") /\ Handler(tag(g_awm, ui))
TagAll == Bound("tagall") /\ Handler(tag(g_awm, Tag))
ToggleTag(ui) == Bound("toggletag") /\ Handler(toggletag(g_awm, ui))

FocusMon(dir) ==
    /\ Bound("focusmon") /\ g_awm.n_monitors > 1
    /\ Handler(focus([g_awm EXCEPT !.selmon = dirtomon(g_awm, dir)], NoClient))

TagMon(dir) ==
    /\ Bound("tagmon") /\ g_awm.n_monitors > 1
    /\ SelectedClient(g_awm) # NoClient
    /\ Handler(sendmon(g_awm, SelectedClient(g_awm), dirtomon(g_awm, dir)))

\* A fullscreen selected client locks the focus (lockfullscreen): then the two
\* actions below do nothing, which is a stuttering step.
FocusStack(dir) ==
    LET at == VisibleAt(g_awm, {})
    IN  /\ Bound("focusstack")
        /\ SelectedClient(g_awm) # NoClient /\ at # {}
        /\ Handler(focus(g_awm, g_awm.clients[Cycle(g_awm, at, dir)]))

FocusStackHidden(dir) ==
    LET at == VisibleAt(g_awm, {})
        c  == g_awm.clients[Cycle(g_awm, at, dir)]
    IN  /\ Bound("focusstackhidden")
        /\ SelectedClient(g_awm) # NoClient /\ at # {}
        /\ Handler(IF g_awm.ishidden[c] THEN show(g_awm, c) ELSE focus(g_awm, c))

\* movestack() exchanges the selected client with the one it reaches.
MoveStack(dir) ==
    /\ Bound("movestack") /\ SelectedClient(g_awm) # NoClient
    /\ \E floating \in SUBSET Managed(g_awm) :
         LET at == VisibleAt(g_awm, floating)
             q  == g_awm.clients
             i  == Position(q, SelectedClient(g_awm))
             j  == Cycle(g_awm, at, dir)
         IN  /\ at # {}
             /\ Handler([g_awm EXCEPT !.clients =
                           [q EXCEPT ![i] = q[j], ![j] = q[i]]])

Zoom ==
    /\ Bound("zoom")
    /\ \E floating \in SUBSET Managed(g_awm) : Handler(zoom(g_awm, floating))

HideWin ==
    /\ Bound("hide") /\ SelectedClient(g_awm) # NoClient
    /\ Handler(hide(g_awm, SelectedClient(g_awm)))

RestoreWin ==
    LET at == {i \in DOMAIN g_awm.stack : g_awm.ishidden[g_awm.stack[i]]}
    IN  /\ Bound("hide") /\ at # {}
        /\ Handler(show(g_awm, g_awm.stack[Min(at)]))

ShowAllBegin ==
    /\ Bound("hide") /\ showing.todo = << >> /\ g_awm.clients # << >>
    /\ showing' = [todo |-> g_awm.clients,
                   tagset |-> g_awm.tagset[g_awm.selmon]]
    /\ UNCHANGED g_awm

ShowAllStep ==
    /\ showing.todo # << >>
    /\ LET c == Head(showing.todo)
       IN  g_awm' = IF ISVISIBLE(g_awm, c, g_awm.selmon) THEN show(g_awm, c)
                                                         ELSE g_awm
    /\ showing' = IF Tail(showing.todo) = << >> THEN Idle
                  ELSE [showing EXCEPT !.todo = Tail(@)]

ToggleScratch == Bound("togglescratch") /\ Handler(togglescratch(g_awm))

-----------------------------------------------------------------------------
\* The pointer.  Crossing events may be old: the client need not be visible any
\* more.  While the launcher or the switcher is open enternotify() returns.

EnterClient(c) == /\ Bound("pointer") /\ c \in Managed(g_awm)
                  /\ Handler(enternotify(g_awm, c))

\* enternotify() and motionnotify() on the root window of monitor m.
EnterMonitor(m) ==
    Bound("pointer") /\ m \in Mon(g_awm) /\ Handler(selectmon(g_awm, m))

clickmon(s, m) == IF m = s.selmon THEN s ELSE selectmon(s, m)

\* A press on client c, and where MODKEY starts a movemouse() or resizemouse()
\* whose drop leaves the selected client over another monitor m, the drop.
ClickClient(c) ==
    LET s == focus(clickmon(g_awm, g_awm.mon[c]), c)
        dropped(m) == focus([sendmon(s, SelectedClient(s), m)
                               EXCEPT !.selmon = m], NoClient)
    IN  /\ Bound("click") /\ c \in Managed(g_awm)
        /\ \/ Handler(s)
           \/ /\ SelectedClient(s) # NoClient
              /\ \E m \in Mon(s) \ {s.selmon} : Handler(dropped(m))

\* Selecting monitor m may end on another one, when the client focus() finds
\* there belongs to it; a press on the bar then counts as one on the root.
ClickBarLost(m) ==
    LET s == clickmon(g_awm, m)
    IN  Bound("click") /\ m \in Mon(g_awm) /\ s.selmon # m /\ Handler(s)

\* A press on tag ts of monitor m's bar, which draws only the tags that are
\* shown or have clients.
ClickTag(m, ts) ==
    LET s == clickmon(g_awm, m)
        occ == UNION {s.tags[c] : c \in Managed(s)}
    IN  /\ Bound("click") /\ m \in Mon(g_awm) /\ s.selmon = m
        /\ ts \subseteq s.tagset[m] \cup occ
        /\ \/ Bound("view") /\ Handler(view(s, ts))
           \/ Bound("toggleview") /\ Handler(toggleview(s, ts))
           \/ Bound("tag") /\ Handler(tag(s, ts))
           \/ Bound("toggletag") /\ Handler(toggletag(s, ts))

\* A press on the tab of client c in the bar of monitor m.
ClickTitle(m, c) ==
    LET s == clickmon(g_awm, m)
    IN  /\ Bound("click") /\ Bound("hide") /\ m \in Mon(g_awm) /\ s.selmon = m
        /\ c \in Managed(g_awm) /\ ISVISIBLE(s, c, m)
        /\ \/ \E t \in focuswin(s, c) : Handler(t)
           \/ \E floating \in SUBSET Managed(s) : Handler(zoom(s, floating))

-----------------------------------------------------------------------------
\* Requests of clients, of awm-ui and of the switcher.

MapRequest(c) ==
    /\ c \notin Managed(g_awm)
    /\ \E place \in placements(g_awm, c) : Handler(manage(g_awm, c, place))

\* DestroyNotify, or a real UnmapNotify.
Unmanage(c) == c \in Managed(g_awm) /\ Handler(unmanage(g_awm, c))

ActivateClient(c) ==
    /\ Bound("activate") /\ c \in Managed(g_awm) /\ g_awm.tags[c] # {}
    /\ Handler(activate(g_awm, c))
PreviewFocus(c) == /\ Bound("preview") /\ c \in Managed(g_awm)
                   /\ Handler(preview_focus(g_awm, c))
SwitcherConfirm(c, all) == /\ Bound("switcher") /\ c \in Managed(g_awm)
                           /\ Handler(switcher_confirm(g_awm, c, all))

-----------------------------------------------------------------------------
\* RRScreenChangeNotify with one output more or fewer; m is the monitor under
\* the pointer (or the one that stays selected when nothing moved).

PlugOutput(m) ==
    /\ Bound("hotplug") /\ g_awm.n_monitors < MaxMonitors
    /\ m \in 1..(g_awm.n_monitors + 1)
    /\ Handler(focus([createmon(g_awm) EXCEPT !.selmon = m], NoClient))

UnplugOutput(m) ==
    /\ Bound("hotplug") /\ g_awm.n_monitors > MinMonitors
    /\ m \in 1..(g_awm.n_monitors - 1) \cup {1}
    /\ Handler(focus([forget(removemon(g_awm)) EXCEPT !.selmon = m], NoClient))

-----------------------------------------------------------------------------
Next ==
    \/ \E ui \in SingleTags : View(ui) \/ ToggleView(ui) \/ TagSelected(ui)
                                       \/ ToggleTag(ui)
    \/ ViewAll \/ TagAll
    \/ \E dir \in Dir : FocusMon(dir) \/ TagMon(dir) \/ FocusStack(dir)
                          \/ FocusStackHidden(dir) \/ MoveStack(dir)
    \/ Zoom \/ HideWin \/ RestoreWin \/ ShowAllBegin \/ ShowAllStep
    \/ ToggleScratch
    \/ \E c \in Client : EnterClient(c) \/ ClickClient(c) \/ MapRequest(c)
                           \/ Unmanage(c) \/ ActivateClient(c) \/ PreviewFocus(c)
    \/ \E c \in Client, all \in BOOLEAN : SwitcherConfirm(c, all)
    \/ \E m \in Slot : EnterMonitor(m) \/ PlugOutput(m) \/ UnplugOutput(m)
                         \/ ClickBarLost(m)
    \/ \E m \in Slot, ts \in SingleTags : ClickTag(m, ts)
    \/ \E m \in Slot, c \in Client : ClickTitle(m, c)

Spec == Init /\ [][Next]_vars

-----------------------------------------------------------------------------
(***************************************************************************)
(* Properties.                                                             *)
(***************************************************************************)

State == [clients : Seq(Client), stack : Seq(Client),
          mon : [Client -> Slot], tags : [Client -> SUBSET Tag],
          ishidden : [Client -> BOOLEAN],
          n_monitors : 0..MaxMonitors, selmon : Slot,
          tagset : [Slot -> SUBSET Tag], alttagset : [Slot -> SUBSET Tag],
          sel : [Slot -> Client \cup {NoClient}],
          active : Client \cup {NoClient}]

\* Every field of the state has its type.
TypeOK == /\ g_awm \in State
          /\ showing \in [todo : Seq(Client), tagset : SUBSET Tag]

\* The client list and the focus stack, which different functions edit, hold
\* the same windows, each once: a window lost from one of them would be drawn
\* but never focused, and one held twice would be freed while still linked.
ListsAgree == /\ IsInjective(g_awm.clients) /\ IsInjective(g_awm.stack)
              /\ ToSet(g_awm.clients) = ToSet(g_awm.stack)

\* The selected monitor and the owner of every managed window are monitors
\* that exist, whatever outputs were unplugged.
OwnersLive == /\ g_awm.selmon \in Mon(g_awm)
              /\ \A c \in Managed(g_awm) : g_awm.mon[c] \in Mon(g_awm)

\* No monitor shows, or can flip back to, the empty set of tags: the loops
\* that look for the lowest tag of a view would not end.
ViewsNonEmpty == \A m \in Mon(g_awm) :
    g_awm.tagset[m] # {} /\ g_awm.alttagset[m] # {}

\* When a handler returns, the client the selected monitor has selected is on
\* that monitor, it is the head of the focus stack, and it is the active window
\* (unless its hints refuse it), the one awm asked the input focus for; with none
\* selected, none is active and no window that the monitor shows is left out.
FocusFollowsSelection ==
    LET c == SelectedClient(g_awm)
    IN  /\ c # NoClient => /\ g_awm.stack # << >> /\ c = Head(g_awm.stack)
                           /\ g_awm.mon[c] = g_awm.selmon
                           /\ c \notin NeverFocus => g_awm.active = c
        /\ c = NoClient => /\ g_awm.active = NoClient
                           /\ \A d \in Managed(g_awm) :
                                ~ISVISIBLE(g_awm, d, g_awm.selmon)

\* Every monitor shows a tag, and no two monitors show the same one, however
\* outputs came and went: createmon() has to find a tag that is free.
DisjointViews ==
    /\ ViewsNonEmpty
    /\ \A m, n \in Mon(g_awm) : m # n => g_awm.tagset[m] \cap g_awm.tagset[n] = {}

\* A window that some monitor shows belongs to that monitor; the layouts and
\* showhide() place a window by its owner, so otherwise it is off the screen.
VisibleIsOwned == \A c \in Managed(g_awm), m \in Mon(g_awm) :
    ISVISIBLE(g_awm, c, m) => g_awm.mon[c] = m

\* No monitor keeps as its selection a client that has been freed, nor one
\* that belongs to another monitor (detachstack() would not repair it).
SelectionsOwned == \A m \in Mon(g_awm) :
    LET c == g_awm.sel[m]
    IN  c # NoClient => c \in Managed(g_awm) /\ g_awm.mon[c] = m

\* Asking for a window that has a tag, with _NET_ACTIVE_WINDOW, in the preview
\* or in the switcher, ends with that window selected, on a monitor showing it,
\* wherever it was.  The switcher gets there by the crossing event that its
\* warp of the pointer into the window causes.
RequestsReachWindow == \A c \in Managed(g_awm) :
    LET reached(s) == SelectedClient(s) = c /\ ISVISIBLE(s, c, s.selmon)
    IN  g_awm.tags[c] # {} =>
          /\ reached(activate(g_awm, c))
          /\ reached(preview_focus(g_awm, c))
          /\ reached(enternotify(switcher_confirm(g_awm, c, TRUE), c))

\* A step changes the tags of at most one window that stays managed: showing
\* tags and moving windows between monitors retags no other window.
OneWindowRetagged ==
    [][\A c, d \in Managed(g_awm) \cap Managed(g_awm') :
         g_awm'.tags[c] # g_awm.tags[c] /\ g_awm'.tags[d] # g_awm.tags[d]
           => c = d]_vars
=============================================================================

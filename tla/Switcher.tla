------------------------------ MODULE Switcher ------------------------------
(***************************************************************************)
(* The window switcher of Alt+Tab and Super+Tab: its cards and thumbnails, *)
(* its keyboard grab, and the windows that come and go while it is open.   *)
(* It models switcher.c with keypress() and keyrelease() of events.c; what *)
(* view() and focus() do in full is in module Wm.                          *)
(*                                                                         *)
(* The handlers are not atomic.  The switcher runs GTK's loop while it     *)
(* opens, where those sources are dispatched that no running handler       *)
(* belongs to, and view() dispatches the X events that are queued: calls   *)
(* is the stack of the handlers that have yet to return.                   *)
(***************************************************************************)
EXTENDS Naturals, Sequences, FiniteSets, Lists

CONSTANTS
    Client,    \* addresses that a Client may have
    NoClient,
    Tag,       \* tags a monitor may view, one at a time
    MaxActs    \* acts of the user and of programs (bound)

ASSUME ClientAssumption ==
    /\ IsFiniteSet(Client) /\ NoClient \notin Client /\ Tag # {} /\ MaxActs \in Nat

VARIABLES
    \* the X server and the user
    held,        \* the modifier that is down: "none", "alt" or "super"
    grab,        \* who gets the keys: "none" the focus, "passive" awm while
                 \* Tab is down, "active" awm by xcb_grab_keyboard()
    server,      \* pixmaps and pictures made for thumbnails
    xevents,     \* events on awm's connection
    acts,        \* how many so far
    \* awm
    clients,     \* g_awm.clients_head, as the list is linked
    tags, tagset, sel,       \* of the clients, of the monitor; the focus
    calls,       \* handlers that run, the innermost last
    \* the switcher
    sw_active, sw_all_monitors, sw_refresh_id, sw_entries, sw_sel

userVars == <<held, acts>>
wmVars   == <<clients, tags, tagset, sel>>
swVars   == <<sw_active, sw_all_monitors, sw_refresh_id, sw_entries, sw_sel>>
vars == <<userVars, grab, server, xevents, wmVars, calls, swVars>>

\* A window on the row: the pointer to its Client, and its thumbnail.
SwitcherEntry == [c : Client, has_thumb : BOOLEAN]

Modifier == {"alt", "super"}
Key == {"Tab", "Escape", "Return"}

XEvent ==
    [type : {"press"}, key : Key, shift : BOOLEAN, mod : Modifier \cup {"none"}]
    \cup [type : {"release"}, mod : Modifier]
    \cup [type : {"map", "unmap", "activate"}, c : Client]

Frame == [fn : {"show", "cycle", "view", "preview"}, c : Client \cup {NoClient}]

Managed == Members(clients)
ISVISIBLE(c) == tags[c] = tagset

\* The handler that runs, "main" for none: the main loop.
Top == IF calls = <<>> THEN [fn |-> "main", c |-> NoClient] ELSE calls[Len(calls)]
Return == calls' = SubSeq(calls, 1, Len(calls) - 1)
Call(fn, c) == calls' = Append(calls, [fn |-> fn, c |-> c])
Running(fn) == \E i \in DOMAIN calls : calls[i].fn = fn

\* A loop of GLib runs: the main loop, or one of the switcher's own.
InMainLoop == Top.fn \in {"main", "show", "cycle"}

\* A handler that runs was dispatched by the X source of a loop of GLib, and not
\* by a message of awm-ui or in view().
XSourceRuns ==
    \E i \in DOMAIN calls : /\ calls[i].fn # "preview"
                            /\ i > 1 => calls[i - 1].fn \in {"show", "cycle"}

\* Where X events are dispatched: in view(), by restack(), and by the X source,
\* which GLib does not dispatch while a handler of it runs.
Draining == ~InMainLoop \/ ~XSourceRuns

-----------------------------------------------------------------------------
\* The user, and the programs.

Act == acts < MaxActs /\ acts' = acts + 1

Deliver(e) == xevents' = Append(xevents, e)

PressModifier(m) ==
    /\ Act /\ held = "none" /\ held' = m
    /\ UNCHANGED <<grab, server, xevents, wmVars, calls, swVars>>

\* A release that no grab covers goes to the window with the focus.
ReleaseModifier ==
    /\ held # "none" /\ held' = "none"
    /\ IF grab = "none" THEN UNCHANGED xevents
       ELSE Deliver([type |-> "release", mod |-> held])
    /\ UNCHANGED <<grab, server, acts, wmVars, calls, swVars>>

\* The key bindings are passive grabs of Tab with a modifier.
PressTab(shift) ==
    /\ Act
    /\ held # "none" \/ grab # "none"
    /\ grab' = IF grab = "none" THEN "passive" ELSE grab
    /\ Deliver([type |-> "press", key |-> "Tab", shift |-> shift, mod |-> held])
    /\ UNCHANGED <<held, server, wmVars, calls, swVars>>

\* A passive grab ends with the key that started it.
ReleaseTab ==
    /\ grab = "passive" /\ grab' = "none"
    /\ UNCHANGED <<userVars, server, xevents, wmVars, calls, swVars>>

PressKey(key) ==
    /\ Act /\ grab # "none" /\ key \in Key \ {"Tab"}
    /\ Deliver([type |-> "press", key |-> key, shift |-> FALSE, mod |-> held])
    /\ UNCHANGED <<held, grab, server, wmVars, calls, swVars>>

\* A window is mapped, withdrawn or destroyed, or asks for the focus.
WindowEvent(type, c) ==
    /\ Act
    /\ type \in (IF c \in Managed THEN {"unmap", "activate"} ELSE {"map"})
    /\ \A i \in DOMAIN xevents : xevents[i] # [type |-> type, c |-> c]
    /\ Deliver([type |-> type, c |-> c])
    /\ UNCHANGED <<held, grab, server, wmVars, calls, swVars>>

-----------------------------------------------------------------------------
\* Focus and views, as far as the switcher sees them.

\* focus() takes the window, if it is visible, or one that is.
focus(c, managed, view) ==
    IF c \in managed /\ tags[c] = view THEN sel' = c
    ELSE \/ \E d \in managed : tags[d] = view /\ sel' = d
         \/ /\ \A d \in managed : tags[d] # view
            /\ sel' = NoClient

\* view() leaves the focus with some window of the tag, and dispatches what
\* is queued before the caller goes on to focus the window it is about.
view(fn, c) ==
    /\ tagset' = tags[c]
    /\ focus(NoClient, Managed, tags[c])
    /\ Call(fn, c)
    /\ UNCHANGED <<clients, tags>>

Activate(fn, c) ==
    IF ISVISIBLE(c)
    THEN focus(c, Managed, tagset) /\ UNCHANGED <<clients, tags, tagset, calls>>
    ELSE view(fn, c)

\* The drain has emptied the queue.  The window is focused, even if it was
\* freed in between: then what becomes of it is undefined, and any window
\* may have the focus.  A crash ends the behaviour here.
ViewReturns ==
    /\ Top.fn \in {"view", "preview"} /\ xevents = <<>>
    /\ focus(Top.c, Managed, tagset)
    /\ Return
    /\ UNCHANGED <<userVars, grab, server, xevents, clients, tags, tagset, swVars>>

-----------------------------------------------------------------------------
\* Thumbnails.

\* What build_thumbnail() has made when it gives up, or at its end, and what
\* it frees there.  The snapshot is its own unless the compositor has one.
Stage ==
    [src_fmt |-> [made |-> {"snapshot"}, freed |-> {"snapshot"}],
     dst_fmt |-> [made  |-> {"snapshot", "source"}, freed |-> {"snapshot", "source"}],
     surface |-> [made  |-> {"snapshot", "source", "pixmap", "picture"},
                  freed |-> {"snapshot", "source", "pixmap", "picture"}],
     done    |-> [made  |-> {"snapshot", "source", "pixmap", "picture"},
                  freed |-> {"snapshot", "source"}]]

Left_KeepsSnapshot(stage) == Stage[stage].made \ (Stage[stage].freed \ {"snapshot"})
Left(stage) == Stage[stage].made \ Stage[stage].freed

\* Of the entry's window: what is left on the server.
build_thumbnail(c, stage) == {[of |-> c, kind |-> k] : k \in Left(stage)}

Thumbnail(e) ==
    IF e.has_thumb THEN build_thumbnail(e.c, "done") ELSE {}

Entries == Members(sw_entries)

free_thumbnails == server' = server \ UNION {Thumbnail(e) : e \in Entries}

-----------------------------------------------------------------------------
\* Opening and closing.

switcher_hide ==
    /\ sw_refresh_id' = FALSE
    /\ free_thumbnails
    /\ sw_entries' = <<>> /\ sw_active' = FALSE
    /\ grab' = "none"
    /\ UNCHANGED <<sw_all_monitors, sw_sel>>

\* The window is chosen by its pointer.  If it was freed, what is read of it is
\* undefined: some tag may be viewed, and some window get the focus.
switcher_confirm ==
    LET chosen == sw_entries[sw_sel].c IN
    /\ switcher_hide
    /\ \/ /\ chosen \in Managed /\ sw_all_monitors
          /\ Activate("view", chosen)
       \/ /\ chosen \in Managed /\ ~sw_all_monitors
          /\ focus(chosen, Managed, tagset)
          /\ UNCHANGED <<clients, tags, tagset, calls>>
       \/ /\ chosen \notin Managed
          /\ tagset' \in Tag /\ focus(NoClient, Managed, tagset')
          /\ UNCHANGED <<clients, tags, calls>>

switcher_cancel == switcher_hide /\ UNCHANGED <<wmVars, calls>>

Candidates(all) == Keep(clients, {c \in Managed : all \/ ISVISIBLE(c)})

\* The selection starts on the second window, or the last one.
switcher_show_internal(all, start_prev) ==
    LET cs == Candidates(all) IN
    /\ cs # <<>>
    /\ \E stage \in [Managed -> DOMAIN Stage] :
          /\ sw_entries' = [i \in DOMAIN cs |->
                               [c |-> cs[i], has_thumb |-> stage[cs[i]] = "done"]]
          /\ server' = server \cup UNION {build_thumbnail(cs[i], stage[cs[i]]) :
                                          i \in DOMAIN cs}
    /\ sw_sel' = IF Len(cs) = 1 THEN 1 ELSE IF start_prev THEN Len(cs) ELSE 2
    /\ sw_active' = TRUE /\ sw_all_monitors' = all /\ sw_refresh_id' = TRUE
    /\ Call("show", NoClient)
    /\ UNCHANGED <<grab, wmVars>>

ShowReturns_NoGrab ==
    /\ Top.fn = "show"
    /\ Return
    /\ UNCHANGED <<userVars, grab, server, xevents, wmVars, swVars>>

\* The rest of it, after its loop: the keyboard is grabbed, whatever became
\* of the switcher in the loop.
ShowReturns ==
    /\ Top.fn = "show"
    /\ grab' = "active"
    /\ Return
    /\ UNCHANGED <<userVars, server, xevents, wmVars, swVars>>

switcher_select_NoWrap(idx) ==
    /\ sw_sel' = idx
    /\ Call("cycle", NoClient)
    /\ UNCHANGED <<grab, server, wmVars, sw_active, sw_all_monitors, sw_refresh_id,
                   sw_entries>>

\* The entries are counted from 1 here.
switcher_select(idx) ==
    /\ sw_sel' = IF idx < 1 THEN Len(sw_entries)
                 ELSE IF idx > Len(sw_entries) THEN 1 ELSE idx
    /\ Call("cycle", NoClient)
    /\ UNCHANGED <<grab, server, wmVars, sw_active, sw_all_monitors, sw_refresh_id,
                   sw_entries>>

CycleReturns ==
    /\ Top.fn = "cycle"
    /\ Return
    /\ UNCHANGED <<userVars, grab, server, xevents, wmVars, swVars>>

-----------------------------------------------------------------------------
\* The handlers of X events.

\* While the switcher is open it has all keys.
keypress(e) ==
    \/ /\ sw_active /\ e.key = "Escape" /\ switcher_cancel
    \/ /\ sw_active /\ e.key = "Return" /\ switcher_confirm
    \/ /\ sw_active /\ e.key = "Tab"
       /\ switcher_select(IF e.shift THEN sw_sel - 1 ELSE sw_sel + 1)
    \/ /\ ~sw_active /\ e.key = "Tab" /\ e.mod # "none"
       /\ \/ switcher_show_internal(e.mod = "super", e.shift)
          \/ /\ Candidates(e.mod = "super") = <<>>
             /\ UNCHANGED <<grab, server, wmVars, calls, swVars>>
    \/ /\ ~sw_active /\ (e.key # "Tab" \/ e.mod = "none")
       /\ UNCHANGED <<grab, server, wmVars, calls, swVars>>

keyrelease_AltOnly(e) ==
    \/ sw_active /\ e.mod = "alt" /\ switcher_confirm
    \/ /\ ~(sw_active /\ e.mod = "alt")
       /\ UNCHANGED <<grab, server, wmVars, calls, swVars>>

\* Either modifier confirms.
keyrelease(e) ==
    \/ sw_active /\ switcher_confirm
    \/ ~sw_active /\ UNCHANGED <<grab, server, wmVars, calls, swVars>>

\* A new window is on top of the list and of the tag it is given.
manage(c) ==
    /\ clients' = <<c>> \o clients
    /\ \E t \in Tag :
          /\ tags' = [d \in Managed \cup {c} |-> IF d = c THEN t ELSE tags[d]]
          /\ sel' = IF t = tagset THEN c ELSE sel
    /\ UNCHANGED <<tagset, calls>>

\* The Client is freed; the switcher is not told.
unmanage(c) ==
    /\ clients' = Keep(clients, Managed \ {c})
    /\ tags' = [d \in Managed \ {c} |-> tags[d]]
    /\ focus(IF sel = c THEN NoClient ELSE sel, Managed \ {c}, tagset)
    /\ UNCHANGED <<tagset, calls>>

windowevent(e) ==
    /\ \/ e.type = "map" /\ e.c \notin Managed /\ manage(e.c)
       \/ e.type = "unmap" /\ e.c \in Managed /\ unmanage(e.c)
       \/ e.type = "activate" /\ e.c \in Managed /\ Activate("view", e.c)
       \/ /\ (e.type = "map") = (e.c \in Managed)
          /\ UNCHANGED <<wmVars, calls>>
    /\ UNCHANGED <<grab, server, swVars>>

x_dispatch_cb ==
    /\ Draining /\ xevents # <<>>
    /\ xevents' = Tail(xevents)
    /\ LET e == Head(xevents) IN
       \/ e.type = "press" /\ keypress(e)
       \/ e.type = "release" /\ keyrelease(e)
       \/ e.type \in {"map", "unmap", "activate"} /\ windowevent(e)
    /\ UNCHANGED userVars

\* awm-ui asks for a window.  GLib does not dispatch its source while a
\* handler of it runs.
preview_focus(c) ==
    /\ Act /\ InMainLoop /\ ~Running("preview")
    /\ c \in Managed
    /\ Activate("preview", c)
    /\ UNCHANGED <<held, grab, server, xevents, swVars>>

\* In cleanup(), at the end of the main loop.  The connection is closed, and
\* another awm may manage the windows.
switcher_cleanup ==
    /\ calls = <<>> /\ Act
    /\ free_thumbnails
    /\ sw_entries' = <<>> /\ sw_active' = FALSE /\ sw_refresh_id' = FALSE
    /\ grab' = "none" /\ xevents' = <<>>
    /\ UNCHANGED <<held, wmVars, calls, sw_all_monitors, sw_sel>>

-----------------------------------------------------------------------------

\* scan() manages the windows that are there.
Init ==
    /\ held = "none" /\ grab = "none" /\ server = {} /\ xevents = <<>> /\ acts = 0
    /\ clients \in UNION {[1 .. n -> Client] : n \in 0 .. Cardinality(Client)}
    /\ Cardinality(Managed) = Len(clients)
    /\ tags \in [Managed -> Tag] /\ tagset = CHOOSE t \in Tag : TRUE
    /\ sel \in {c \in Managed : ISVISIBLE(c)} \cup {NoClient}
    /\ calls = <<>>
    /\ sw_active = FALSE /\ sw_all_monitors = FALSE /\ sw_refresh_id = FALSE
    /\ sw_entries = <<>> /\ sw_sel = 1

Next ==
    \/ \E m \in Modifier : PressModifier(m)
    \/ ReleaseModifier
    \/ \E shift \in BOOLEAN : PressTab(shift)
    \/ ReleaseTab
    \/ \E key \in Key : PressKey(key)
    \/ \E type \in {"map", "unmap", "activate"}, c \in Client : WindowEvent(type, c)
    \/ \E c \in Client : preview_focus(c)
    \/ x_dispatch_cb
    \/ ViewReturns
    \/ ShowReturns
    \/ CycleReturns
    \/ switcher_cleanup

\* The main loop dispatches what is queued, and loops that run dry return.
Fairness ==
    /\ WF_vars(x_dispatch_cb) /\ WF_vars(ViewReturns)
    /\ WF_vars(ShowReturns) /\ WF_vars(CycleReturns)

Spec == Init /\ [][Next]_vars /\ Fairness

-----------------------------------------------------------------------------
\* Properties.

\* The types; and what has to be right whenever a handler runs inside another
\* one: the selection is one of the entries, and the timer, which looks at the
\* entries, runs exactly while there are some.
TypeOK ==
    /\ held \in Modifier \cup {"none"} /\ grab \in {"none", "passive", "active"}
    /\ \A i \in DOMAIN xevents : xevents[i] \in XEvent
    /\ Managed \subseteq Client /\ Cardinality(Managed) = Len(clients)
    /\ tags \in [Managed -> Tag] /\ tagset \in Tag /\ sel \in Client \cup {NoClient}
    /\ \A i \in DOMAIN calls : calls[i] \in Frame
    /\ Entries \subseteq SwitcherEntry /\ sw_all_monitors \in BOOLEAN
    /\ sw_active => sw_sel \in DOMAIN sw_entries
    /\ sw_active = (sw_entries # <<>>) /\ sw_active = sw_refresh_id

\* Nothing that was made for a thumbnail outlives it, whichever step of
\* build_thumbnail() failed: the pixmaps and pictures on the server are those
\* of the entries.
ThumbnailsOwned == server = UNION {Thumbnail(e) : e \in Entries}

\* An open switcher gets every key, also those that close it: once it has
\* opened, awm has asked for the keyboard.  That no other program has it already
\* is assumed; the code does not look at the reply (switcher.c:901).
OpenIsGrabbed == sw_active /\ ~Running("show") => grab = "active"

\* "Release Alt or Super: Confirm selection": a release that awm gets closes
\* the switcher, wherever the handlers are.
ReleaseCloses ==
    (\E i \in DOMAIN xevents : xevents[i].type = "release") ~> ~sw_active

\* "Super+Tab - shows all managed windows": what it shows is managed.
ShowsManaged == \A e \in Entries : e.c \in Managed
=============================================================================

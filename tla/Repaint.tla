------------------------------- MODULE Repaint -------------------------------
(***************************************************************************)
(* How what windows draw reaches the screen: the records the compositor    *)
(* keeps of windows, their pixmaps and damage objects, the X events that    *)
(* tell it of changes, and the scheduling of repaints by an idle source or  *)
(* by vertical-blank notifications.  It models the event handler, the       *)
(* window records and the scheduler of compositor.c, and the repaint of     *)
(* compositor_xrender.c, whose drawing is clipped to the dirty region.      *)
(*                                                                         *)
(* The X server is part of the model: programs draw, map, unmap and         *)
(* resize windows at any time, and awm learns of it later, by events in     *)
(* the order of the queue.  Requests of awm take effect at once, because    *)
(* it waits for the replies of those that matter here.                      *)
(*                                                                         *)
(* Geometry is a place and a size: the places of different windows do not   *)
(* overlap.  Which windows are bypassed, and when the compositor is paused, *)
(* is decided in module Bypass; here both may happen at any time.           *)
(***************************************************************************)
EXTENDS Naturals, Sequences, FiniteSets

CONSTANTS
    Client,      \* windows the window manager manages
    Popup,       \* override-redirect windows: menus, tooltips, drag icons
    Geometry,    \* the geometries a window may have: <<place, size>>
    HasPresent,  \* comp.has_present
    Features,    \* what may happen besides mapping and drawing: see Next
    MaxEvents,   \* programs act only while fewer events are queued (bound)
    MaxVblanks   \* awm is paused only with fewer notifications in flight (bound)

Window == Client \cup Popup

ASSUME WindowAssumption == Client \cap Popup = {}
ASSUME GeometryAssumption == Geometry \subseteq Nat \X Nat /\ Geometry # {}
ASSUME PresentAssumption == HasPresent \in BOOLEAN
ASSUME BoundsAssumption == MaxEvents \in Nat /\ MaxVblanks \in Nat

VARIABLE comp    \* struct CompShared with its windows, and the X server

vars == <<comp>>

Place == {g[1] : g \in Geometry}
Area == Window \X Place           \* where a window is, or may have been
Pixmap == {"none", "stale", "current"}
EventType == {"maprequest", "map", "unmap", "configure", "damage",
              "dead damage", "present"}
Event == [type : EventType, win : Window, geom : Geometry]

State ==
    [ \* kept by the X server
      viewable : SUBSET Window,                 \* mapped
      geom     : [Window -> Geometry],
      full     : SUBSET Window,                 \* damage reported, not subtracted
      events   : Seq(Event),                    \* sent, not yet read by awm
      vblanks  : Nat,                           \* NotifyMSC requests not yet answered
      screen   : [Area -> {"nothing", "old", "latest"}],  \* what the overlay shows
      \* kept by the compositor
      windows  : SUBSET Window,                 \* comp.windows
      at       : [Window -> Geometry],          \* CompWin.x, y, w, h
      pixmap   : [Window -> Pixmap],            \* CompWin.pixmap
      damage   : SUBSET Window,                 \* CompWin.damage # 0
      direct   : SUBSET Window,                 \* CompWin.redirected = 0
      hidden   : SUBSET Window,                 \* CompWin.hidden
      dirty    : SUBSET Area,                   \* comp.dirty
      paused          : BOOLEAN,
      vblank_armed    : BOOLEAN,
      repaint_pending : BOOLEAN,
      repaint_id      : BOOLEAN ]               \* the idle source exists

-----------------------------------------------------------------------------
\* Scheduling.

comp_arm_vblank(s) ==
    IF s.paused THEN s
    ELSE IF HasPresent /\ ~s.vblank_armed
         THEN [s EXCEPT !.vblank_armed = TRUE, !.vblanks = @ + 1]
         ELSE [s EXCEPT !.repaint_id = TRUE]

schedule_repaint(s) ==
    IF s.paused THEN s ELSE comp_arm_vblank([s EXCEPT !.repaint_pending = TRUE])

\* What one repaint draws at place p of window w.
Drawn(s, w, p) ==
    IF w \in s.windows \ (s.direct \cup s.hidden) /\ s.at[w][1] = p
    THEN CASE s.pixmap[w] = "current" -> "latest"
           [] s.pixmap[w] = "stale"   -> "old"
           [] s.pixmap[w] = "none"    -> "nothing"
    ELSE "nothing"

comp_do_repaint(s) ==
    IF s.paused THEN s
    ELSE [s EXCEPT !.screen = [a \in Area |-> IF a \in s.dirty THEN Drawn(s, a[1], a[2])
                                                               ELSE @[a]],
                   !.dirty = {}]

compositor_repaint_now(s) ==
    LET t == comp_do_repaint([s EXCEPT !.repaint_id = FALSE, !.repaint_pending = FALSE])
    IN  IF t.dirty # {} THEN schedule_repaint(t) ELSE t

compositor_damage_all(s) == schedule_repaint([s EXCEPT !.dirty = Area])

-----------------------------------------------------------------------------
\* Window records.

\* comp_dirty_add_rect() of the record's own rectangle.
comp_dirty(s, w) == [s EXCEPT !.dirty = @ \cup {<<w, s.at[w][1]>>}]

Send(s, type, w, g) ==
    [s EXCEPT !.events = Append(@, [type |-> type, win |-> w, geom |-> g])]

\* Without making the whole window dirty.
comp_refresh_pixmap_NotDirty(s, w) ==
    [s EXCEPT !.pixmap[w] = IF w \in s.viewable THEN "current" ELSE "none"]

\* Naming the pixmap of a window fails when the window is not mapped.
comp_refresh_pixmap(s, w) ==
    IF w \in s.viewable THEN comp_dirty([s EXCEPT !.pixmap[w] = "current"], w)
                        ELSE [s EXCEPT !.pixmap[w] = "none"]

\* A new damage object reports the whole window.
damage_create(s, w) ==
    Send([s EXCEPT !.damage = @ \cup {w}, !.full = @ \cup {w}], "damage", w, s.geom[w])

\* The events of a damage object that are under way when it is destroyed name
\* an object that no longer exists.
damage_destroy(q, w) ==
    [i \in DOMAIN q |-> IF q[i].type = "damage" /\ q[i].win = w
                         THEN [q[i] EXCEPT !.type = "dead damage"] ELSE q[i]]

\* The resources of a record: its damage object and its pixmap.
comp_free_win(s, w) ==
    [s EXCEPT !.pixmap[w] = "none", !.damage = @ \ {w}, !.full = @ \ {w},
              !.events = damage_destroy(@, w)]

\* Without releasing the resources of the record.
comp_remove_KeepsDamage(s, w) ==
    LET t == comp_dirty(s, w)
    IN  [t EXCEPT !.windows = @ \ {w}, !.direct = @ \ {w}, !.hidden = @ \ {w}]

\* Unlink a record and free it.
comp_remove(s, w) ==
    LET t == comp_free_win(comp_dirty(s, w), w)
    IN  [t EXCEPT !.windows = @ \ {w}, !.direct = @ \ {w}, !.hidden = @ \ {w}]

comp_add_by_xid(s, w) ==
    IF w \in s.windows \/ w \notin s.viewable THEN s
    ELSE damage_create(comp_refresh_pixmap([s EXCEPT !.windows = @ \cup {w},
                                                     !.at[w] = s.geom[w]], w), w)

compositor_add_window(s, c) ==
    IF c \in s.windows THEN s ELSE schedule_repaint(comp_add_by_xid(s, c))

compositor_remove_window(s, c) ==
    IF c \in s.windows THEN schedule_repaint(comp_remove(s, c)) ELSE s

compositor_configure_window(s, c, g) ==
    LET t == comp_dirty([comp_dirty(s, c) EXCEPT !.at[c] = g], c)
        resized == g[2] # s.at[c][2]
    IN  IF c \notin s.windows THEN s
        ELSE schedule_repaint(IF c \notin s.direct /\ resized
                              THEN comp_refresh_pixmap(t, c) ELSE t)

compositor_bypass_window(s, c, bypass) ==
    LET t == comp_refresh_pixmap([s EXCEPT !.direct = @ \ {c}], c)
    IN  IF c \notin s.windows \/ bypass = (c \in s.direct) THEN s
        ELSE schedule_repaint(
               IF bypass THEN comp_free_win([s EXCEPT !.direct = @ \cup {c}], c)
               ELSE IF t.pixmap[c] # "none" THEN damage_create(t, c) ELSE t)

compositor_set_hidden(s, c, hidden) ==
    IF c \notin s.windows \/ hidden = (c \in s.hidden) THEN s
    ELSE schedule_repaint(comp_dirty(
           [s EXCEPT !.hidden = IF hidden THEN @ \cup {c} ELSE @ \ {c}], c))

-----------------------------------------------------------------------------
\* What programs do.  The storage of a window is new after it is mapped or
\* resized; a pixmap named before then is of the storage it had.

Storage(s, w) == [s EXCEPT !.pixmap[w] = IF @ = "current" THEN "stale" ELSE @]

\* The window's content changes.
Change(s, w) ==
    [s EXCEPT !.screen = [a \in Area |-> IF a[1] = w /\ @[a] = "latest" THEN "old" ELSE @[a]]]

\* The damage object reports when it was empty.
Report(s, w) ==
    IF w \in s.damage \ s.full
    THEN Send([s EXCEPT !.full = @ \cup {w}], "damage", w, s.geom[w]) ELSE s

Room == Len(comp.events) < MaxEvents
Managed == Client \cap comp.windows

Draw(w) ==
    /\ Room /\ w \in comp.viewable
    /\ comp' = Report(Change(comp, w), w)

\* A frame shown through the Present extension.
PresentFrame(w) ==
    /\ "present" \in Features /\ HasPresent /\ Room /\ w \in comp.viewable
    /\ comp' = IF w \in comp.windows \ comp.direct
               THEN Send(Report(Change(comp, w), w), "present", w, comp.geom[w])
               ELSE Report(Change(comp, w), w)

MapPopup(w) ==
    /\ Room /\ w \in Popup \ comp.viewable
    /\ comp' = Send([Change(comp, w) EXCEPT !.viewable = @ \cup {w}], "map", w, comp.geom[w])

UnmapWindow(w) ==
    /\ Room /\ w \in comp.viewable
    /\ comp' = Send([Storage(comp, w) EXCEPT !.viewable = @ \ {w}], "unmap", w, comp.geom[w])

ConfigurePopup(w, g) ==
    /\ Room /\ w \in Popup /\ g # comp.geom[w]
    /\ LET s == IF g[2] # comp.geom[w][2] THEN Change(Storage(comp, w), w) ELSE comp
       IN  comp' = Send([s EXCEPT !.geom[w] = g], "configure", w, g)

\* A program asks to map its window, perhaps before awm has read that it was
\* withdrawn; the server asks the window manager.
RequestMap(c) ==
    /\ Room /\ c \in Client \ comp.viewable
    /\ comp' = Send(comp, "maprequest", c, comp.geom[c])

-----------------------------------------------------------------------------
\* What the window manager does with windows it manages.

\* Lay a window out anew: resizeclient().
ResizeClient(c, g) ==
    /\ "resize" \in Features /\ Room /\ c \in Managed /\ g # comp.geom[c]
    /\ LET s == IF g[2] # comp.geom[c][2] THEN Change(Storage(comp, c), c) ELSE comp
       IN  comp' = compositor_configure_window(
                     Send([s EXCEPT !.geom[c] = g], "configure", c, g), c, g)

\* Show another tag: showhide() moves windows off the screen and back.
SetHidden(c, hidden) ==
    /\ "tags" \in Features /\ c \in Managed \cap comp.viewable
    /\ hidden # (c \in comp.hidden)
    /\ comp' = compositor_set_hidden(comp, c, hidden)

\* Minimise a window: hide() unmaps it without letting anyone be told.
Hide(c) ==
    /\ "hide" \in Features /\ c \in Managed \cap comp.viewable
    /\ comp' = compositor_set_hidden([Storage(comp, c) EXCEPT !.viewable = @ \ {c}], c, TRUE)

\* Restore it: show() maps it; everyone is told.
Show(c) ==
    /\ "hide" \in Features /\ Room /\ c \in Managed \ comp.viewable
    /\ ~ \E i \in DOMAIN comp.events : comp.events[i].type = "unmap" /\ comp.events[i].win = c
    /\ comp' = compositor_set_hidden(
                 Send([Change(comp, c) EXCEPT !.viewable = @ \cup {c}], "map", c, comp.geom[c]),
                 c, FALSE)

\* Bypass the compositor for a fullscreen window, or stop to.
BypassWindow(c, bypass) ==
    /\ "bypass" \in Features /\ Room /\ c \in Managed
    /\ bypass # (c \in comp.direct)
    /\ comp' = compositor_bypass_window(comp, c, bypass)

\* compositor_check_unredirect() finds all monitors bypassed.
Suspend ==
    /\ "bypass" \in Features /\ ~comp.paused /\ comp.vblanks < MaxVblanks
    /\ comp' = [comp EXCEPT !.paused = TRUE, !.repaint_id = FALSE,
                            !.vblank_armed = FALSE, !.repaint_pending = FALSE]

\* Without a repaint of what has changed meanwhile.
Resume_NoRepaint ==
    /\ "bypass" \in Features /\ comp.paused
    /\ comp' = [comp EXCEPT !.paused = FALSE]

\* It finds some monitor composited again.
Resume ==
    /\ "bypass" \in Features /\ comp.paused
    /\ comp' = compositor_damage_all([comp EXCEPT !.paused = FALSE])

\* Dragging a window repaints at once.
RepaintNow ==
    /\ "drag" \in Features
    /\ comp' = compositor_repaint_now(comp)

-----------------------------------------------------------------------------
\* The main loop reads the next event: compositor_handle_event(), then the
\* window manager's own handler.

Reads(type) == comp.events # << >> /\ Head(comp.events).type = type
Win == Head(comp.events).win
Geom == Head(comp.events).geom
Read == [comp EXCEPT !.events = Tail(@)]

\* The window manager's handler manages the window: it maps it and adds it.
MapRequest ==
    /\ Reads("maprequest")
    /\ comp' = IF Win \in comp.windows \cup comp.viewable THEN Read
               ELSE compositor_add_window(
                      Send([Read EXCEPT !.viewable = @ \cup {Win}], "map", Win, comp.geom[Win]),
                      Win)

MapNotify ==
    /\ Reads("map")
    /\ comp' = schedule_repaint(comp_add_by_xid(Read, Win))

\* The compositor forgets a popup; for a client, unmanage() removes it.
UnmapNotify ==
    /\ Reads("unmap")
    /\ comp' = schedule_repaint(IF Win \in comp.windows THEN comp_remove(Read, Win) ELSE Read)

\* The handler of a ConfigureNotify for a popup that has a record.
configure_popup(s, w, g) ==
    LET t == [comp_dirty(s, w) EXCEPT !.at[w] = g]
    IN  IF w \notin s.direct /\ g[2] # s.at[w][2] THEN comp_refresh_pixmap(t, w) ELSE t

ConfigureNotify ==
    /\ Reads("configure")
    /\ comp' = IF Win \notin comp.windows THEN Read
               ELSE schedule_repaint(IF Win \in Client THEN Read
                                     ELSE configure_popup(Read, Win, Geom))

\* Without the subtraction that lets the object report again.
handle_damage_NoSubtract(s, w) == IF w \in s.windows THEN comp_dirty(s, w) ELSE s

\* The handler subtracts the damage, which lets the object report again.
handle_damage(s, w) ==
    LET t == [s EXCEPT !.full = @ \ {w}]
    IN  IF w \in s.windows THEN comp_dirty(t, w) ELSE t

DamageNotify ==
    /\ Reads("damage")
    /\ comp' = schedule_repaint(handle_damage(Read, Win))

\* The subtraction fails: the object is gone.
DeadDamageNotify ==
    /\ Reads("dead damage")
    /\ comp' = schedule_repaint(IF Win \in comp.windows THEN comp_dirty(Read, Win) ELSE Read)

PresentComplete ==
    /\ Reads("present")
    /\ comp' = IF Win \in comp.windows \ comp.direct /\ ~comp.paused
               THEN schedule_repaint(comp_dirty(comp_refresh_pixmap(Read, Win), Win))
               ELSE Read

\* The vertical-blank notification of the overlay; no request follows it when
\* there is nothing to paint.
handle_vblank(s) ==
    LET t == [s EXCEPT !.vblanks = @ - 1, !.vblank_armed = FALSE]
    IN  IF ~s.paused /\ s.repaint_pending
        THEN comp_arm_vblank(comp_do_repaint([t EXCEPT !.repaint_pending = FALSE])) ELSE t

Vblank == comp.vblanks > 0 /\ comp' = handle_vblank(comp)

RepaintIdle ==
    /\ comp.repaint_id
    /\ comp' = comp_do_repaint([comp EXCEPT !.repaint_id = FALSE, !.repaint_pending = FALSE])

-----------------------------------------------------------------------------
Init ==
    \E g \in Geometry :
      comp = schedule_repaint(
        [viewable |-> {}, geom |-> [w \in Window |-> g], full |-> {}, events |-> << >>,
         vblanks |-> 0, screen |-> [a \in Area |-> "nothing"],
         windows |-> {}, at |-> [w \in Window |-> g], pixmap |-> [w \in Window |-> "none"],
         damage |-> {}, direct |-> {}, hidden |-> {}, dirty |-> Area, paused |-> FALSE,
         vblank_armed |-> FALSE, repaint_pending |-> FALSE, repaint_id |-> FALSE])

Programs ==
    \/ \E w \in Window : Draw(w) \/ PresentFrame(w) \/ UnmapWindow(w)
    \/ \E w \in Popup : MapPopup(w) \/ \E g \in Geometry : ConfigurePopup(w, g)
    \/ \E c \in Client : RequestMap(c)

Manager ==
    \/ \E c \in Client, g \in Geometry : ResizeClient(c, g)
    \/ \E c \in Client, b \in BOOLEAN : SetHidden(c, b) \/ BypassWindow(c, b)
    \/ \E c \in Client : Hide(c) \/ Show(c)
    \/ Suspend \/ Resume \/ RepaintNow

Handle ==
    \/ MapRequest \/ MapNotify \/ UnmapNotify \/ ConfigureNotify
    \/ DamageNotify \/ DeadDamageNotify \/ PresentComplete

Next == Programs \/ Manager \/ Handle \/ Vblank \/ RepaintIdle

\* The main loop dispatches its sources again and again, and the server
\* answers every request for a notification.  Programs need not do anything.
Fairness == WF_vars(Handle) /\ WF_vars(Vblank) /\ WF_vars(RepaintIdle)

Spec == Init /\ [][Next]_vars /\ Fairness
-----------------------------------------------------------------------------
\* Properties.

\* Every field keeps its type, and only windows that have a record have a
\* pixmap, a damage object or a flag: what is freed leaves nothing behind.
TypeOK ==
    /\ comp \in State
    /\ comp.damage \cup comp.direct \cup comp.hidden \subseteq comp.windows
    /\ comp.full \subseteq comp.damage
    /\ \A w \in Window : comp.pixmap[w] # "none" => w \in comp.windows

\* While awm composites, a dirty region has a repaint on its way: an idle
\* source, or a vertical-blank notification that was really asked for and will
\* find the repaint pending.
RepaintScheduled ==
    ~comp.paused /\ comp.dirty # {} =>
        comp.repaint_id \/ (comp.repaint_pending /\ comp.vblank_armed /\ comp.vblanks > 0)

\* A damage object that has reported does not report again until its damage is
\* subtracted; so the event that leads to the subtraction must be under way, or
\* the window would never be repainted again.
ReportsAreRead ==
    \A w \in comp.full : \E i \in DOMAIN comp.events :
        comp.events[i].type = "damage" /\ comp.events[i].win = w

Told(w) == \E i \in DOMAIN comp.events : comp.events[i].win = w

\* What the overlay should show at place p of window w.
Wanted(w, p) ==
    IF w \in comp.viewable \ comp.hidden /\ comp.geom[w][1] = p THEN "latest" ELSE "nothing"

\* Whatever the overlay shows wrongly of a composited window is going to be
\* corrected: its area is dirty or an event about the window is unread.
OutdatedIsKnown ==
    \A a \in Area :
        a[1] \notin comp.direct /\ comp.screen[a] # Wanted(a[1], a[2]) =>
            a \in comp.dirty \/ Told(a[1])

\* While awm composites, the overlay shows an old frame of window w, or none.
Outdated(w) ==
    /\ ~comp.paused /\ w \in comp.viewable \ (comp.direct \cup comp.hidden)
    /\ comp.screen[<<w, comp.geom[w][1]>>] # "latest"

\* When a program has drawn its last frame, the overlay shows that frame in the
\* end, and goes on to: however the events, the repaints and the drawing of other
\* windows interleave, no frame is lost on the way.
FramesAreShown ==
    \A w \in Window :
        <>[][ \/ Handle \/ Vblank \/ RepaintIdle \/ RepaintNow
              \/ \E v \in Window \ {w} : Draw(v) \/ PresentFrame(v) ]_vars
          => <>[]~Outdated(w)
=============================================================================

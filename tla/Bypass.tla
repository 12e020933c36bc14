-------------------------------- MODULE Bypass -------------------------------
(***************************************************************************)
(* The fullscreen bypass of the compositor: which windows are drawn by the  *)
(* X server directly, which monitors the compositor leaves alone, where its *)
(* overlay window is and which holes it has.  It models the bypass half of  *)
(* compositor.c (compositor_check_unredirect() and its two timers) and the   *)
(* order in which the window manager's handlers call it.                    *)
(*                                                                         *)
(* Of the window manager it keeps what the bypass looks at.  A window has   *)
(* one tag and no two monitors show the same, so the monitor that shows a   *)
(* window is one or none (vis).  Of a window's geometry only the monitor it *)
(* lies on counts, and whether a fullscreen one fills it.  A minimised      *)
(* window (hidden) keeps all of that, and X shows nothing of it.  The       *)
(* monitors stay the same.  Repainting is left to module Repaint.           *)
(***************************************************************************)
EXTENDS Naturals

CONSTANTS
    Client,      \* windows that may ask to be managed
    NoClient,    \* XCB_NONE
    NumMonitors,
    Fading,      \* of these windows: the ones that may become translucent,
    Hinting,     \* may ask for a bypass themselves,
    Moving       \* and may ask to be moved while they are fullscreen

ASSUME ClientAssumption == NoClient \notin Client
ASSUME NumMonitorsAssumption == NumMonitors \in Nat \ {0}

Monitor == 1..NumMonitors
Nowhere == 0

VARIABLES
    wm,      \* the windows, as the window manager knows them
    comp     \* the compositor

vars == <<wm, comp>>

Windows ==
    [ managed      : SUBSET Client,
      mon          : [Client -> Monitor],                  \* Client.mon
      vis          : [Client -> Monitor \cup {Nowhere}],   \* monitor showing its tag
      at           : [Client -> Monitor],                  \* monitor it lies on
      hidden       : SUBSET Client,                        \* Client.ishidden
      isfullscreen : SUBSET Client,
      fills        : SUBSET Client,                        \* fullscreen, and all of it
      translucent  : SUBSET Client,                        \* opacity below 1
      hint         : SUBSET Client ]                       \* bypass_compositor = 1

Compositor ==
    [ direct      : SUBSET Client,          \* records with redirected = 0
      paused_mask : SUBSET Monitor,
      paused      : BOOLEAN,
      overlay     : {"above", "below"},     \* the other windows
      hole        : SUBSET Monitor,         \* cut out of the overlay's shape
      pending     : Client \cup {NoClient}, \* comp_pending_bypass_win and its timer
      watchdog    : BOOLEAN ]               \* the 5 s timer exists

-----------------------------------------------------------------------------
\* The compositor's functions, from a state to a state; w is what the window
\* manager knows when they are called.

\* Monitors with an opaque fullscreen window that covers them on the tag they
\* show: ISVISIBLE() does not ask whether the window is minimised.
Justified(w) ==
    {m \in Monitor : \E c \in (w.managed \cap w.isfullscreen \cap w.fills) \ w.translucent :
                        w.vis[c] = m /\ w.at[c] = m}

raise_overlay(s) == [s EXCEPT !.overlay = "above"]

bypass_window(w, s, c, bypass) ==
    IF c \notin w.managed THEN s
    ELSE [s EXCEPT !.direct = IF bypass THEN @ \cup {c} ELSE @ \ {c}]

\* Unredirect fullscreen windows of newly bypassed monitors, then redirect
\* the windows that lie on resumed ones.
Redirect(w, s, added, removed) ==
    LET fullscreen == {c \in w.managed \cap w.isfullscreen : w.mon[c] \in added}
        resumed == {c \in w.managed \ w.hint : w.at[c] \in removed}
    IN  (s.direct \cup fullscreen) \ resumed

\* Without giving the overlay its full shape back.
update_overlay_shape_KeepsHoles(s) ==
    IF s.paused_mask = {} \/ s.paused THEN s ELSE [s EXCEPT !.hole = s.paused_mask]

\* The overlay is open over the bypassed monitors; its shape does not matter
\* while it is lowered.
update_overlay_shape(s) ==
    IF s.paused_mask = {} THEN [s EXCEPT !.hole = {}]
    ELSE IF s.paused THEN s ELSE [s EXCEPT !.hole = s.paused_mask]

\* Place and shape of the overlay, and the watchdog, for the mask of s.
Restructure(s) ==
    IF s.paused_mask = {}
    THEN update_overlay_shape([s EXCEPT !.overlay = "above", !.watchdog = FALSE])
    ELSE IF s.paused THEN [s EXCEPT !.overlay = "below", !.watchdog = TRUE]
    ELSE update_overlay_shape([s EXCEPT !.watchdog = TRUE])

check_unredirect(w, s) ==
    LET mask == Justified(w)
        added == mask \ s.paused_mask
        removed == s.paused_mask \ mask
    IN  IF mask = s.paused_mask THEN s
        ELSE Restructure([s EXCEPT
               !.paused_mask = mask,
               !.paused = mask = Monitor,
               !.pending = IF added # {} THEN NoClient ELSE @,
               !.direct = Redirect(w, s, added, removed)])

\* Without freeing the record.
remove_window_KeepsRecord(s, c) == s

\* The record of the window goes.
remove_window(s, c) == [s EXCEPT !.direct = @ \ {c}]

defer_fullscreen_bypass(s, c) == [s EXCEPT !.pending = c]

\* restack() raises the overlay when the monitor has a selected window.
restack(w, s, m) ==
    IF \E c \in w.managed : w.vis[c] = m THEN raise_overlay(s) ELSE s

-----------------------------------------------------------------------------
\* Handlers of the window manager.

\* manage(): a window may be born fullscreen, on a tag that is not shown.
Manage(c, m, shown, fullscreen, translucent, hint) ==
    /\ c \notin wm.managed
    /\ translucent => c \in Fading
    /\ hint => c \in Hinting
    /\ LET w == [wm EXCEPT
                   !.managed = @ \cup {c}, !.mon[c] = m, !.at[c] = m,
                   !.vis[c] = IF shown THEN m ELSE Nowhere,
                   !.isfullscreen = IF fullscreen THEN @ \cup {c} ELSE @,
                   !.fills = IF fullscreen THEN @ \cup {c} ELSE @,
                   !.translucent = IF translucent THEN @ \cup {c} ELSE @,
                   !.hint = IF hint THEN @ \cup {c} ELSE @]
           s == raise_overlay(IF fullscreen THEN defer_fullscreen_bypass(comp, c) ELSE comp)
       IN  /\ wm' = w
           /\ comp' = check_unredirect(w, IF hint THEN bypass_window(w, s, c, TRUE) ELSE s)

\* unmanage(): its record goes before focus() looks at the monitors.
Unmanage(c) ==
    /\ c \in wm.managed
    /\ LET w == [wm EXCEPT !.managed = @ \ {c}, !.hidden = @ \ {c},
                           !.isfullscreen = @ \ {c}, !.fills = @ \ {c},
                           !.translucent = @ \ {c}, !.hint = @ \ {c},
                           !.vis[c] = Nowhere, !.mon[c] = 1, !.at[c] = 1]
           s == check_unredirect(w, remove_window(comp, c))
       IN  /\ wm' = w
           /\ comp' = check_unredirect(w, restack(w, s, wm.mon[c]))

\* setfullscreen(c, 1)
Fullscreen(c) ==
    /\ c \in wm.managed \ wm.isfullscreen
    /\ wm' = [wm EXCEPT !.isfullscreen = @ \cup {c}, !.fills = @ \cup {c},
                         !.at[c] = wm.mon[c]]
    /\ comp' = defer_fullscreen_bypass(comp, c)

\* The window is redirected before the compositor looks.
leave_fullscreen(w, s, c) ==
    restack(w, check_unredirect(w, raise_overlay(bypass_window(w, s, c, FALSE))), w.mon[c])

\* setfullscreen(c, 0): back to the geometry before, which may lie anywhere.
Unfullscreen(c, m) ==
    /\ c \in wm.managed \cap wm.isfullscreen
    /\ LET w == [wm EXCEPT !.isfullscreen = @ \ {c}, !.fills = @ \ {c}, !.at[c] = m]
       IN  wm' = w /\ comp' = leave_fullscreen(w, comp, c)

\* Windows that are not fullscreen are laid out, dragged, moved by programs.
Move(c, m) ==
    /\ c \in wm.managed \ wm.isfullscreen
    /\ wm' = [wm EXCEPT !.at[c] = m]
    /\ UNCHANGED comp

\* _NET_MOVERESIZE_WINDOW: also a fullscreen window may be moved, and then it
\* fills the monitor it lies on, or not.
MoveResize(c, m, fills) ==
    /\ c \in wm.managed \cap wm.isfullscreen \cap Moving
    /\ wm' = [wm EXCEPT !.at[c] = m, !.fills = IF fills THEN @ \cup {c} ELSE @ \ {c}]
    /\ UNCHANGED comp

\* view(), toggleview(): monitor m shows the tags of the windows C, which no other
\* monitor shows.  attachclients() takes the windows, whoever owned them.
View(m, C) ==
    /\ C \subseteq {c \in wm.managed : wm.vis[c] \in {Nowhere, m}}
    /\ LET w == [wm EXCEPT
                   !.vis = [c \in Client |-> IF c \in C THEN m
                                            ELSE IF @[c] = m THEN Nowhere ELSE @[c]],
                   !.mon = [c \in Client |-> IF c \in C THEN m ELSE @[c]]]
       IN  wm' = w /\ comp' = check_unredirect(w, restack(wm, comp, m))

\* view() of a tag that monitor m shows, from monitor n: they exchange views.
\* The compositor looks after the windows that n showed have gone to m, and
\* again after those m showed have come to n.
Exchange(m, n) ==
    /\ m # n
    /\ LET w == [wm EXCEPT !.vis = [c \in Client |-> CASE @[c] = m -> n [] @[c] = n -> m
                                                       [] OTHER -> @[c]],
                           !.mon = [c \in Client |-> IF wm.vis[c] = n THEN m ELSE @[c]]]
           v == [w EXCEPT !.mon = [c \in Client |-> IF wm.vis[c] = m THEN n ELSE @[c]]]
           s == check_unredirect(w, restack(wm, comp, n))
       IN  wm' = v /\ comp' = check_unredirect(v, restack(wm, s, n))

\* sendmon()
SendMon(c, m) ==
    /\ c \in wm.managed /\ wm.vis[c] = wm.mon[c] /\ m # wm.mon[c]
    /\ LET w == [wm EXCEPT !.mon[c] = m, !.vis[c] = m]
       IN  wm' = w /\ comp' = check_unredirect(w, comp)

\* Without focus(), which looks again.
retag_NoCheck(w, s, m) == restack(w, s, m)

\* focus(NULL); arrange(m)
retag(w, s, m) == restack(w, check_unredirect(w, s), m)

\* tag() of the selected window: another tag of its own monitor, or one that
\* monitor m shows.
Tag(c, m) ==
    /\ c \in wm.managed /\ wm.vis[c] = wm.mon[c] /\ m # wm.mon[c]
    /\ LET w == [wm EXCEPT !.vis[c] = m, !.mon[c] = IF m = Nowhere THEN @ ELSE m]
           s == IF m = Nowhere THEN comp ELSE restack(wm, comp, m)
       IN  wm' = w /\ comp' = retag(w, s, wm.mon[c])

\* hide(): the selected window is minimised.  focus() looks after that.
Hide(c) ==
    /\ c \in wm.managed \ wm.hidden /\ wm.vis[c] = wm.mon[c]
    /\ LET w == [wm EXCEPT !.hidden = @ \cup {c}]
       IN  wm' = w /\ comp' = retag(w, comp, wm.mon[c])

\* show(): also a window on a tag that is not shown may be restored.
Show(c) ==
    /\ c \in wm.managed \cap wm.hidden
    /\ LET w == [wm EXCEPT !.hidden = @ \ {c}]
       IN  wm' = w /\ comp' = retag(w, comp, wm.mon[c])

\* focus(), and what calls restack() after it.
Focus == UNCHANGED wm /\ comp' = check_unredirect(wm, comp)
FocusRestack(m) == UNCHANGED wm /\ comp' = retag(wm, comp, m)

\* arrange() alone: another layout, another master area.
Arrange(m) == UNCHANGED wm /\ comp' = restack(wm, comp, m)

\* compositor_set_opacity(): nobody looks at the monitors.
SetOpacity(c) ==
    /\ c \in wm.managed \cap Fading
    /\ wm' = [wm EXCEPT !.translucent = IF c \in @ THEN @ \ {c} ELSE @ \cup {c}]
    /\ UNCHANGED comp

\* The program sets or clears _NET_WM_BYPASS_COMPOSITOR.
SetHint(c) ==
    /\ c \in wm.managed \cap Hinting
    /\ wm' = [wm EXCEPT !.hint = IF c \in @ THEN @ \ {c} ELSE @ \cup {c}]
    /\ comp' = bypass_window(wm, comp, c, c \notin wm.hint)

-----------------------------------------------------------------------------
\* The timers.

\* Without the test that the window is still fullscreen.
bypass_cb_Unchecked(w, s, c) ==
    LET t == [s EXCEPT !.pending = NoClient]
    IN  IF c \notin w.managed THEN t
        ELSE check_unredirect(w, bypass_window(w, t, c, TRUE))

bypass_cb(w, s, c) ==
    LET t == [s EXCEPT !.pending = NoClient]
    IN  IF c \notin w.managed \cap w.isfullscreen THEN t
        ELSE check_unredirect(w, bypass_window(w, t, c, TRUE))

BypassTimer ==
    /\ comp.pending # NoClient
    /\ UNCHANGED wm
    /\ comp' = bypass_cb(wm, comp, comp.pending)

\* With the timer's id cleared after the check.
watchdog_cb_ClearsLate(w, s) ==
    IF s.paused_mask = {} THEN [s EXCEPT !.watchdog = FALSE]
    ELSE IF Justified(w) # s.paused_mask
         THEN [check_unredirect(w, s) EXCEPT !.watchdog = FALSE]
    ELSE s

watchdog_cb(w, s) ==
    IF s.paused_mask = {} THEN [s EXCEPT !.watchdog = FALSE]
    ELSE IF Justified(w) # s.paused_mask
         THEN check_unredirect(w, [s EXCEPT !.watchdog = FALSE])
    ELSE s

Watchdog ==
    /\ comp.watchdog
    /\ UNCHANGED wm
    /\ comp' = watchdog_cb(wm, comp)

-----------------------------------------------------------------------------
Init ==
    /\ wm = [managed |-> {}, mon |-> [c \in Client |-> 1], vis |-> [c \in Client |-> Nowhere],
             at |-> [c \in Client |-> 1], hidden |-> {},
             isfullscreen |-> {}, fills |-> {}, translucent |-> {}, hint |-> {}]
    /\ comp = [direct |-> {}, paused_mask |-> {}, paused |-> FALSE, overlay |-> "above",
               hole |-> {}, pending |-> NoClient, watchdog |-> FALSE]

Programs ==
    \/ \E c \in Client, m \in Monitor, shown, fullscreen, translucent, hint \in BOOLEAN :
         Manage(c, m, shown, fullscreen, translucent, hint)
    \/ \E c \in Client : Unmanage(c) \/ Fullscreen(c) \/ SetOpacity(c) \/ SetHint(c)
    \/ \E c \in Client, m \in Monitor : Unfullscreen(c, m) \/ Move(c, m)
    \/ \E c \in Client, m \in Monitor, fills \in BOOLEAN : MoveResize(c, m, fills)

User ==
    \/ \E m \in Monitor : \E C \in SUBSET wm.managed : View(m, C)
    \/ \E m, n \in Monitor : Exchange(m, n)
    \/ \E c \in Client, m \in Monitor : SendMon(c, m)
    \/ \E c \in Client : Hide(c) \/ Show(c)
    \/ \E c \in Client, m \in Monitor \cup {Nowhere} : Tag(c, m)
    \/ Focus
    \/ \E m \in Monitor : FocusRestack(m) \/ Arrange(m)

Next == Programs \/ User \/ BypassTimer \/ Watchdog

\* GLib dispatches timers that are due.
Fairness == WF_vars(BypassTimer) /\ WF_vars(Watchdog)

Spec == Init /\ [][Next]_vars /\ Fairness

-----------------------------------------------------------------------------
\* Properties.

\* Both records keep their types, and only managed windows have a record, a
\* flag or a place on a monitor.
TypeOK ==
    /\ wm \in Windows /\ comp \in Compositor
    /\ comp.direct \cup wm.isfullscreen \cup wm.translucent \cup wm.hint \cup wm.hidden
         \subseteq wm.managed
    /\ wm.fills \subseteq wm.isfullscreen
    /\ \A c \in Client : wm.vis[c] # Nowhere => c \in wm.managed /\ wm.vis[c] = wm.mon[c]

\* A window that is not fullscreen and does not ask to be bypassed is composited:
\* neither a late timer nor a mask computed for another window leaves it out.
WindowedIsComposited ==
    \A c \in wm.managed \ (wm.isfullscreen \cup wm.hint) : c \notin comp.direct

\* While a monitor is bypassed, the watchdog that may end the bypass exists.
WatchdogRuns == comp.paused_mask # {} => comp.watchdog

\* Unless the overlay is lowered, its holes are the bypassed monitors.
HolesAreBypassed == ~comp.paused => comp.hole = comp.paused_mask

\* What was set up for a bypass stands and falls with it: its watchdog, and the
\* holes through which the fullscreen windows reach the display.
PauseAccounted == WatchdogRuns /\ HolesAreBypassed

\* Monitors on which X shows a fullscreen window, and those on whose tag one is
\* minimised.
Displayed(w) ==
    {m \in Monitor : \E c \in (w.managed \cap w.isfullscreen) \ w.hidden : w.vis[c] = m}
Minimised(w) ==
    {m \in Monitor : \E c \in w.managed \cap w.isfullscreen \cap w.hidden : w.vis[c] = m}

\* A monitor that is bypassed shows a fullscreen window or has a minimised one on
\* the tag it shows: no handler leaves the bypass on after that window closed, left
\* fullscreen or went to another tag or monitor, although six kinds of handlers
\* have to look again for that.  That a minimised window is enough is what the code
\* does, against its comments (compositor.c:1002, 1344): its watchdog, too, asks for
\* the tags of the window only.
BypassIsCovered == comp.paused_mask \subseteq Displayed(wm) \cup Minimised(wm)

\* A bypass that is no longer justified, because the window became translucent or
\* was moved, ends: the watchdog does what no handler did.
BypassEnds ==
    ~(comp.paused_mask \subseteq Justified(wm)) ~> comp.paused_mask \subseteq Justified(wm)
=============================================================================

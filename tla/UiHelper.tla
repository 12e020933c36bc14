------------------------------ MODULE UiHelper ------------------------------
(***************************************************************************)
(* The window manager and its helper process awm-ui: the socket between    *)
(* them, the launcher's window, the popup of window previews with the      *)
(* snapshot pixmaps that are lent to it, and what happens when the helper  *)
(* dies.  It models the awm-ui part of awm.c, awm_ui.c, and the parts of   *)
(* launcher.c and preview.c that talk to awm.                              *)
(*                                                                         *)
(* Each direction of the socket is a queue of messages.  awm polls its end *)
(* and dispatches what the poll reported in two steps, because a hang-up   *)
(* that the poll has seen is served before the messages still queued.      *)
(* What the launcher lists and launches is the subject of module Launcher. *)
(***************************************************************************)
EXTENDS Naturals, Sequences, FiniteSets, Lists

CONSTANTS
    Window,      \* client windows of the selected monitor
    DoneCap,     \* the length of UiPreviewDonePayload.xids: 32 in the code
    MaxHelpers,  \* helpers die only while fewer were started (bound)
    MaxShows,    \* previews shown (bound)
    MaxChanges,  \* geometries and themes announced (bound)
    MaxQueue     \* senders act only while fewer messages are queued (bound)

ASSUME CapAssumption == DoneCap \in Nat
ASSUME WindowAssumption == IsFiniteSet(Window)
ASSUME BoundsAssumption ==
    /\ MaxHelpers \in Nat \ {0} /\ MaxShows \in Nat
    /\ MaxChanges \in Nat /\ MaxQueue \in Nat

VARIABLES
    \* awm
    ui_fd,       \* the helper at the other end of the socket, 0 for none
    revents,     \* what the last poll of ui_fd reported and is not yet served
    respawn,     \* a timer for ui_respawn_cb is set
    launcher_xwin,     \* the helper whose launcher window awm knows, 0 for none
    launcher_visible,
    settings,    \* work area and theme, as versions, when last announced
    \* the socket
    down,        \* messages to the helper
    up,          \* messages to awm
    \* the helper
    helper,      \* the process: see Helper
    \* the X server
    pixmaps,     \* the snapshots that exist
    shows        \* how many snapshots were made: names the next ones

awmVars == <<ui_fd, revents, respawn, launcher_xwin, launcher_visible>>
vars == <<awmVars, settings, down, up, helper, pixmaps, shows>>

\* The helper a snapshot was made for, the show it belongs to and how many
\* windows that show had.
Snapshot == [gen : Nat, show : Nat, win : Window, of : Nat]

Settings == [geom : Nat, theme : Nat]

Helper ==
    [gen      : Nat,             \* which helper since awm started
     alive    : BOOLEAN,
     ready    : BOOLEAN,         \* main() has reached its loop
     visible  : BOOLEAN,         \* launcher->visible
     cards    : SUBSET Snapshot, \* pixmap_xid of pv_cards
     settings : Settings]

DownMessage ==
    [type : {"LAUNCHER_SHOW", "PREVIEW_HIDE"}]
    \cup [type : {"MONITOR_GEOM", "THEME"}, version : Nat]
    \cup [type : {"PREVIEW_SHOW"}, entries : SUBSET Snapshot]

UpMessage ==
    [type : {"LAUNCHER_EXEC", "LAUNCHER_DISMISSED", "LAUNCHER_READY",
             "LAUNCHER_SHOWN"}]
    \cup [type : {"PREVIEW_FOCUS"}, win : Window]
    \cup [type : {"PREVIEW_DONE"}, xids : SUBSET Snapshot]

Connected == ui_fd # 0
HelperAlive == helper.alive /\ helper.gen = ui_fd

-----------------------------------------------------------------------------
\* awm: sending.

\* A send fails without a socket, or with EPIPE when the peer is gone.
ui_send_inline(msgs) ==
    down' = IF Connected /\ helper.alive THEN down \o msgs ELSE down

Greeting_NoTheme == <<[type |-> "MONITOR_GEOM", version |-> settings.geom]>>

\* The first messages of ui_spawn().
Greeting == <<[type |-> "MONITOR_GEOM", version |-> settings.geom],
              [type |-> "THEME", version |-> settings.theme]>>

NewHelper(gen) ==
    [gen |-> gen, alive |-> TRUE, ready |-> FALSE, visible |-> FALSE,
     cards |-> {}, settings |-> [geom |-> 0, theme |-> 0]]

ui_spawn ==
    /\ helper' = NewHelper(helper.gen + 1)
    /\ ui_fd' = helper.gen + 1
    /\ down' = Greeting
    /\ up' = <<>>
    /\ revents' = {}

\* The key of the launcher.  The window is put in place before the request
\* to map it is sent, when its identifier is known.
launchermenu ==
    /\ Connected /\ Len(down) < MaxQueue
    /\ ui_send_inline(<<[type |-> "LAUNCHER_SHOW"]>>)
    /\ launcher_visible' = (launcher_visible \/ helper.alive)
    /\ UNCHANGED <<ui_fd, revents, respawn, launcher_xwin, settings, up, helper,
                   pixmaps, shows>>

\* One entry for each visible window; the server may refuse some snapshots,
\* whose entries then carry no pixmap.
comp_snapshot_pixmaps(visible, refused) ==
    {[gen |-> ui_fd, show |-> shows, win |-> w, of |-> Cardinality(visible)] :
        w \in visible \ refused}

\* The pointer enters a bar while the launcher is closed, or the key of the
\* preview is pressed.  When the send fails awm frees the snapshots itself.
bar_hover_enter(visible, refused) ==
    LET entries == comp_snapshot_pixmaps(visible, refused) IN
    /\ Connected /\ Len(down) < MaxQueue /\ shows < MaxShows
    /\ ui_send_inline(<<[type |-> "PREVIEW_SHOW", entries |-> entries]>>)
    /\ pixmaps' = IF helper.alive THEN pixmaps \cup entries ELSE pixmaps
    /\ shows' = shows + 1
    /\ UNCHANGED <<awmVars, settings, up, helper>>

\* The pointer leaves a bar, seen only while the launcher is closed.
bar_hover_leave ==
    /\ ~launcher_visible /\ Connected /\ Len(down) < MaxQueue
    /\ ui_send_inline(<<[type |-> "PREVIEW_HIDE"]>>)
    /\ UNCHANGED <<awmVars, settings, up, helper, pixmaps, shows>>

ui_send_monitor_geom ==
    /\ settings.geom + settings.theme < MaxChanges /\ Len(down) < MaxQueue
    /\ settings' = [settings EXCEPT !.geom = @ + 1]
    /\ ui_send_inline(<<[type |-> "MONITOR_GEOM", version |-> settings.geom + 1]>>)
    /\ UNCHANGED <<awmVars, up, helper, pixmaps, shows>>

ui_send_theme ==
    /\ settings.geom + settings.theme < MaxChanges /\ Len(down) < MaxQueue
    /\ settings' = [settings EXCEPT !.theme = @ + 1]
    /\ ui_send_inline(<<[type |-> "THEME", version |-> settings.theme + 1]>>)
    /\ UNCHANGED <<awmVars, up, helper, pixmaps, shows>>

-----------------------------------------------------------------------------
\* awm: receiving.

\* The poll of the main loop.  HUP is reported as soon as the peer is gone.
Poll ==
    /\ Connected /\ revents = {}
    /\ revents' = (IF up # <<>> THEN {"IN"} ELSE {})
                  \cup (IF ~helper.alive THEN {"HUP"} ELSE {})
    /\ revents' # {}
    /\ UNCHANGED <<ui_fd, respawn, launcher_xwin, launcher_visible, settings,
                   down, up, helper, pixmaps, shows>>

HangUp_NoTimer ==
    /\ ui_fd' = 0
    /\ launcher_xwin' = 0
    /\ launcher_visible' = FALSE
    /\ revents' = {}
    /\ down' = <<>>
    /\ up' = <<>>
    /\ UNCHANGED <<respawn, settings, helper, pixmaps, shows>>

HangUp_KeepsWindow ==
    /\ ui_fd' = 0
    /\ launcher_visible' = FALSE
    /\ respawn' = TRUE
    /\ revents' = {}
    /\ down' = <<>>
    /\ up' = <<>>
    /\ UNCHANGED <<launcher_xwin, settings, helper, pixmaps, shows>>

\* Nothing of the dead helper is kept; what it had still to say is lost.
HangUp ==
    /\ ui_fd' = 0
    /\ launcher_xwin' = 0
    /\ launcher_visible' = FALSE
    /\ respawn' = TRUE
    /\ revents' = {}
    /\ down' = <<>>
    /\ up' = <<>>
    /\ UNCHANGED <<settings, helper, pixmaps, shows>>

ui_handle_message_ExecKeepsFlag(m) ==
    /\ launcher_visible' = (launcher_visible /\ m.type # "LAUNCHER_DISMISSED")
    /\ launcher_xwin' = IF m.type = "LAUNCHER_READY" THEN ui_fd ELSE launcher_xwin
    /\ pixmaps' = IF m.type = "PREVIEW_DONE" THEN pixmaps \ m.xids ELSE pixmaps

\* PREVIEW_FOCUS views and focuses the window, if it is still managed: that
\* changes the state of module Wm and nothing here.
ui_handle_message(m) ==
    /\ launcher_visible' =
         (launcher_visible /\ m.type \notin {"LAUNCHER_EXEC", "LAUNCHER_DISMISSED"})
    /\ launcher_xwin' = IF m.type = "LAUNCHER_READY" THEN ui_fd ELSE launcher_xwin
    /\ pixmaps' = IF m.type = "PREVIEW_DONE" THEN pixmaps \ m.xids ELSE pixmaps

\* One message for each dispatch.  When the helper died with messages of awm
\* unread, recv() fails with ECONNRESET before it returns what is queued.
ui_source_dispatch ==
    /\ Connected /\ revents # {}
    /\ \/ "HUP" \in revents /\ HangUp
       \/ "HUP" \notin revents /\ ~helper.alive /\ HangUp
       \/ /\ "HUP" \notin revents
          /\ ui_handle_message(Head(up))
          /\ up' = Tail(up)
          /\ revents' = {}
          /\ UNCHANGED <<ui_fd, respawn, settings, down, helper, shows>>

\* Two seconds after the hang-up; socketpair() or fork() may fail, and then
\* there is no second attempt.
ui_respawn_cb ==
    /\ respawn
    /\ respawn' = FALSE
    /\ IF Connected
       THEN UNCHANGED <<ui_fd, revents, down, up, helper>>
       ELSE \/ ui_spawn
            \/ UNCHANGED <<ui_fd, revents, down, up, helper>>
    /\ UNCHANGED <<launcher_xwin, launcher_visible, settings, pixmaps, shows>>

-----------------------------------------------------------------------------
\* The helper.

Send(msgs) == up' = up \o msgs
CanSend == helper.alive /\ helper.ready /\ Len(up) < MaxQueue

\* main() up to its loop: launcher_create() realizes the window.
HelperStart ==
    /\ helper.alive /\ ~helper.ready
    /\ helper' = [helper EXCEPT !.ready = TRUE]
    /\ Send(<<[type |-> "LAUNCHER_READY"]>>)
    /\ UNCHANGED <<awmVars, settings, down, pixmaps, shows>>

\* PREVIEW_DONE carries at most DoneCap identifiers; the cards are freed
\* whether all of them fitted or not.
Done(cards, sent) ==
    /\ sent \subseteq cards
    /\ Cardinality(sent) = IF Cardinality(cards) <= DoneCap
                           THEN Cardinality(cards) ELSE DoneCap

\* The popup is there when it has cards.  A popup none of whose windows has
\* a snapshot says PREVIEW_DONE of nothing, which changes nothing.
preview_hide(sent) ==
    IF helper.cards = {} THEN <<>> ELSE <<[type |-> "PREVIEW_DONE", xids |-> sent]>>

LauncherShown ==
    /\ helper' = [helper EXCEPT !.visible = TRUE]
    /\ Send(<<[type |-> "LAUNCHER_SHOWN"]>>)

dispatch_monitor_geom(version) ==
    /\ helper' = [helper EXCEPT !.settings.geom = version]
    /\ UNCHANGED up

dispatch_theme(version) ==
    /\ helper' = [helper EXCEPT !.settings.theme = version]
    /\ UNCHANGED up

preview_show_Replaces(entries, sent) ==
    /\ helper' = [helper EXCEPT !.cards = entries]
    /\ UNCHANGED up

\* A popup that is open is closed first.
preview_show(entries, sent) ==
    /\ helper' = [helper EXCEPT !.cards = entries]
    /\ Send(preview_hide(sent))

handle_message(m, sent) ==
    CASE m.type = "LAUNCHER_SHOW" -> LauncherShown
      [] m.type = "MONITOR_GEOM"  -> dispatch_monitor_geom(m.version)
      [] m.type = "THEME"         -> dispatch_theme(m.version)
      [] m.type = "PREVIEW_SHOW"  -> preview_show(m.entries, sent)
      [] m.type = "PREVIEW_HIDE"  -> preview_show({}, sent)

\* One message for each dispatch.
socket_dispatch ==
    /\ CanSend /\ down # <<>>
    /\ \E sent \in SUBSET helper.cards :
          /\ Done(helper.cards, sent)
          /\ handle_message(Head(down), sent)
    /\ down' = Tail(down)
    /\ UNCHANGED <<awmVars, settings, pixmaps, shows>>

\* Escape, or the close button.
LauncherDismissed ==
    /\ CanSend /\ helper.visible
    /\ helper' = [helper EXCEPT !.visible = FALSE]
    /\ Send(<<[type |-> "LAUNCHER_DISMISSED"]>>)
    /\ UNCHANGED <<awmVars, settings, down, pixmaps, shows>>

\* Return on a row: no LAUNCHER_DISMISSED follows.
LauncherExec ==
    /\ CanSend /\ helper.visible
    /\ helper' = [helper EXCEPT !.visible = FALSE]
    /\ Send(<<[type |-> "LAUNCHER_EXEC"]>>)
    /\ UNCHANGED <<awmVars, settings, down, pixmaps, shows>>

\* A card without a snapshot only asks for another window.
on_card_click(w) ==
    /\ CanSend /\ \E p \in helper.cards : p.win = w
    /\ \E sent \in SUBSET helper.cards :
          /\ Done(helper.cards, sent)
          /\ Send(<<[type |-> "PREVIEW_FOCUS", win |-> w]>> \o preview_hide(sent))
    /\ helper' = [helper EXCEPT !.cards = {}]
    /\ UNCHANGED <<awmVars, settings, down, pixmaps, shows>>

\* The process ends: exec fails, GDK or XCB calls exit(), it is killed.
HelperDies ==
    /\ helper.alive /\ helper.gen < MaxHelpers
    /\ helper' = [helper EXCEPT !.alive = FALSE]
    /\ UNCHANGED <<awmVars, settings, down, up, pixmaps, shows>>

-----------------------------------------------------------------------------
\* cleanup() kills the helper and closes the socket, and the X server frees
\* the pixmaps of a connection that ends.  The new awm starts from run(), and
\* its first helper may fail to start.
Restart ==
    /\ helper.gen < MaxHelpers
    /\ \/ ui_spawn
       \/ /\ ui_fd' = 0
          /\ helper' = [NewHelper(helper.gen + 1) EXCEPT !.alive = FALSE]
          /\ revents' = {} /\ down' = <<>> /\ up' = <<>>
    /\ pixmaps' = {}
    /\ respawn' = FALSE /\ launcher_xwin' = 0 /\ launcher_visible' = FALSE
    /\ UNCHANGED <<settings, shows>>

Init ==
    /\ settings = [geom |-> 1, theme |-> 1]
    /\ ui_fd = 1 /\ revents = {} /\ respawn = FALSE
    /\ launcher_xwin = 0 /\ launcher_visible = FALSE
    /\ helper = NewHelper(1)
    /\ down = Greeting /\ up = <<>>
    /\ pixmaps = {} /\ shows = 0

Next ==
    \/ launchermenu
    \/ \E visible \in SUBSET Window \ {{}} : \E refused \in SUBSET visible :
          bar_hover_enter(visible, refused)
    \/ bar_hover_leave
    \/ ui_send_monitor_geom
    \/ ui_send_theme
    \/ Poll
    \/ ui_source_dispatch
    \/ ui_respawn_cb
    \/ HelperStart
    \/ socket_dispatch
    \/ LauncherDismissed
    \/ LauncherExec
    \/ \E w \in Window : on_card_click(w)
    \/ HelperDies
    \/ Restart

\* The main loops of the two processes run on and their timers fire; nothing
\* is assumed of the user or of crashes.
Fairness ==
    /\ WF_vars(Poll) /\ WF_vars(ui_source_dispatch) /\ WF_vars(ui_respawn_cb)
    /\ WF_vars(HelperStart) /\ WF_vars(socket_dispatch)

Spec == Init /\ [][Next]_vars /\ Fairness

-----------------------------------------------------------------------------
\* Properties.

Types(s) == {m.type : m \in Members(s)}
Lent == UNION {m.entries : m \in {n \in Members(down) : n.type = "PREVIEW_SHOW"}}
Returned == UNION {m.xids : m \in {n \in Members(up) : n.type = "PREVIEW_DONE"}}

TypeOK ==
    /\ ui_fd \in Nat /\ revents \subseteq {"IN", "HUP"} /\ respawn \in BOOLEAN
    /\ launcher_xwin \in Nat /\ launcher_visible \in BOOLEAN
    /\ settings \in Settings
    /\ helper \in Helper
    /\ pixmaps \subseteq Snapshot /\ shows \in Nat
    /\ Members(down) \subseteq DownMessage /\ Members(up) \subseteq UpMessage
    /\ ui_fd \in {0, helper.gen}
    /\ launcher_xwin \in {0, ui_fd}
    /\ Connected => ~respawn

\* A snapshot lent to a helper that lives exists, and is in one place only:
\* in the message that lends it, on a card, or in the message that returns
\* it.  The only ones without an owner are those of a popup with more cards
\* than a PREVIEW_DONE has room for.  So none is freed twice, none is freed
\* under a card, and none is forgotten while the helper lives.
SnapshotsOwned ==
    HelperAlive =>
        /\ Lent \cup helper.cards \cup Returned \subseteq pixmaps
        /\ Lent \cap helper.cards = {} /\ helper.cards \cap Returned = {}
        /\ Lent \cap Returned = {}
        /\ \A p \in pixmaps \ (Lent \cup helper.cards \cup Returned) :
              p.gen = ui_fd => p.of > DoneCap

\* awm does not keep focus-follows-mouse off for a launcher that is not
\* there: whenever the flag is up, the launcher is open, is about to open, or
\* a message or a hang-up that takes the flag down is on its way.
FlagNotStuck ==
    launcher_visible =>
        \/ ~helper.alive
        \/ helper.visible
        \/ "LAUNCHER_SHOW" \in Types(down)
        \/ {"LAUNCHER_EXEC", "LAUNCHER_DISMISSED"} \cap Types(up) # {}

\* A helper, the first as well as one that replaced another, has the work area
\* and the theme last announced once it has read its socket.
SettingsDelivered ==
    HelperAlive =>
        /\ "MONITOR_GEOM" \notin Types(down) => helper.settings.geom = settings.geom
        /\ "THEME" \notin Types(down) => helper.settings.theme = settings.theme

\* The death of a helper is noticed, and answered by an attempt to start
\* another one.
HelperComesBack ==
    \A g \in 1 .. MaxHelpers - 1 :
        (ui_fd = g /\ ~helper.alive) ~> (respawn \/ helper.gen > g)
=============================================================================

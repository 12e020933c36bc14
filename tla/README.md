# A TLA+ verification of awm

awm is an X11 window manager derived from dwm, with a compositor, a bar with a
system tray, notifications, and a helper process (`awm-ui`) for its launcher and
previews. This directory holds TLA+ models of its source, TLC configurations
that check them on small instances, and proofs checked by TLAPS for instances of
every size. Source paths below are relative to `src/src/` unless they say more.

    tlc -workers 2 -config MCWm_config.cfg MCWm     # a model-checking run
    tlapm WmProofs.tla                              # proofs; also BypassProofs, RepaintProofs,
                                                    # UiHelperProofs, SniProofs, NotifProofs,
                                                    # SwitcherProofs, ListProofs

`PROJECT.json` lists the components, the runs, the map from each definition to
the lines it models, the hazards and the theorems.

## 1. Inventory

awm is one process with one thread. A GLib main loop dispatches X events
(`xsource.c`, `awm.c:x_dispatch_cb`), timers, the socket of `awm-ui` and the
D-Bus connection. Each handler runs to completion, but three kinds of handler read
further events from inside: `arrange()`/`restack()` drain the X queue,
`movemouse()`/`resizemouse()` run a loop of their own, and the switcher runs GTK's
loop while it opens and cycles. `awm-ui` is a second process with one thread and
the GTK main loop.

| component | state | operations | what makes it correct |
|---|---|---|---|
| windows, tags, focus (`client.c`, `wmstate.h`) | `AWMState`: client list, focus stack, per client its monitor, tags and flags | key and button functions, `manage`, `unmanage`, `focus`, `attachclients` | the lists agree; a shown window belongs to the monitor that shows it; the focus follows the selection; no window becomes unreachable |
| monitors (`monitor.c`) | array of monitors: tag sets, selection, layout, per-tag settings | `updategeom`, `createmon`, `cleanupmon`, `focusmon`, `arrange`, `restack` | views are disjoint and not empty; owners exist; settings follow their tag |
| X events (`events.c`, `awm.c`) | the queue of events | one handler per event type | handlers tolerate old events, and events read from inside a handler |
| EWMH (`ewmh.c`) | root properties | `setfocus`, `updateclientlist`, `updatecurrentdesktop` | the properties agree with the state |
| fullscreen, floating (`client.c`) | saved geometry and flags | `setfullscreen`, `togglefloating`, `resizeclient` | what was saved is restored |
| compositor (`compositor.c`, `compositor_backend.h`, backends) | one record per window, mask of bypassed monitors, timers, repaint scheduling | add, remove, bypass, `check_unredirect`, damage and present events, repaint | exactly the covering fullscreen windows are bypassed; damage is painted eventually; no record outlives its window |
| awm-ui (`awm.c`, `awm_ui.c`, `ui_proto.h`) | socket, pid, launcher flags, pixmaps handed over | spawn, respawn, messages both ways | one helper at a time, started again after a crash with the present settings; the launcher flag is not stuck |
| preview (`preview.c`, in awm-ui) | cards and their pixmaps | show, hide, click | every pixmap has one owner and is freed once |
| launcher (`launcher.c`, in awm-ui) | applications with their counts, rows, selection, text; the history file | search, select, launch, show, hide, theme | Return launches what the text matches; the history survives restarts |
| switcher (`switcher.c`) | row of entries with thumbnails, selection, timer, keyboard grab | show, cycle, confirm, cancel | entries are live windows; open means the keyboard is awm's; releasing the modifier closes it |
| status notifier items (`sni.c`) | list of items with generations, pending calls, one menu | register, remove, update, property replies, icon loads, clicks | the tray shows the items; a click is served; no reply reaches an item it was not asked for |
| D-Bus (`dbus.c`, `awm.c`) | connection, source, retry timer | dispatch, loss, reconnect | at most one timer, and one whenever the connection is down; the name comes back |
| notifications (`notif.c`, in awm-ui) | list, timers, popups | notify, replace, expire, close | one `NotificationClosed` per notification with its reason; timers do not outlive it; popups do not overlap |
| icon cache (`icon.c`) | hash chains, LRU list, count | get, put, evict | chains, list and count agree; the bound holds |
| system tray (`systray.c`) | docked icons | dock, undock, update | icons follow their windows |
| drawing, menus, status text, xrdb, xidle, spawn, log | none that matters here | output and input | not modelled |

Components interact by direct calls and by the shared `g_awm`; `awm-ui` by
messages over a socket; everything else by X events or D-Bus messages.

What is hard: sequences of legal commands that reach odd states (windows with
several tags, exchanged views, outputs that come and go); state read again after
a call that changed it (`focus()` may select another monitor); events handled
from inside a handler; timers that fire after what they were set for is gone;
a helper process or a bus that dies. `PROJECT.json` lists each at its line under
`hazards`.

## 2. Plan

| module | subject | checked by | proved in |
|---|---|---|---|
| `Wm` | windows, tags, monitors, focus | `MCWm`: `config`, `windows`, `hotplug` | `WmProofs` |
| `Bypass` | the compositor's fullscreen bypass, its timers | `MCBypass`: `bypass` | `BypassProofs` |
| `Repaint` | window records, damage, repaint scheduling | `MCRepaint`: `repaint`, `frames` | `RepaintProofs` |
| `UiHelper` | awm and awm-ui, the socket, crashes, pixmaps | `MCUiHelper`: `ui` | `UiHelperProofs` |
| `Launcher` | the launcher in awm-ui and its history | `MCLauncher`: `launcher` | `UiHelperProofs` |
| `Sni` | tray items, asynchronous calls, the bus connection | `MCSni`: `sni` | `SniProofs` |
| `NotifService`, `Notif` | what notifications promise, and the daemon | `MCNotif`: `notif` | `NotifProofs` |
| `Switcher` | the window switcher and the loops inside handlers | `MCSwitcher`: `switcher`, `closed_window` | `SwitcherProofs` |
| `Lists` | what the code does with linked lists: `Keep`, `Members` | the runs of `Sni` | `ListProofs` |

`ListProofs` has the lemmas the other proofs cite about members of sequences, lists
without duplicates and `Keep(list, S)`, the members of a list that are in `S`. `Keep`
is a recursive function and not `SelectSeq`, because the provers can expand it;
its lemmas are by induction on the length, by way of the least counterexample
(`LeastElement`, `AllNumbers`), because the induction theorems of the library have
operators for parameters.

The proofs about `UiHelper` and `Launcher`, the two models of awm-ui, are in one
module; names that both models would have differ (`LauncherSpec`; in `UiHelper`
the launcher's handlers are named for the messages they send).

Every invariant and action property of a passing run is proved, under the
conditions its section names; the liveness properties stay with TLC.

Not modelled yet, in this order: saved geometry of fullscreen and floating
windows; per-tag settings under exchanges of views; the icon cache's hash chains
and LRU list; docked XEMBED icons.

`Wm`, `Bypass` and `Repaint` overlap in what they leave open: `Wm` decides which
windows are shown where, `Bypass` takes that as given and decides which windows
are redirected and when the compositor is paused, `Repaint` takes both as given.
`Switcher` and `UiHelper` replace what choosing a window does
by an arbitrary outcome of `view()` and `focus()`; `Wm` has these in full.

## 3. The window-manager core: `Wm`

### State

`g_awm` is a record with the fields of `AWMState` and of the structs it owns:

| field | code |
|---|---|
| `clients`, `stack` | the lists `clients_head`/`next` and `stack_head`/`snext` |
| `mon`, `tags`, `ishidden` | `Client.mon`, `.tags`, `.ishidden` |
| `n_monitors`, `selmon` | `n_monitors`, `selmon_num` (from 1) |
| `tagset`, `alttagset` | `Monitor.tagset[seltags]` and `tagset[seltags ^ 1]` |
| `sel` | `Monitor.sel` |
| `active` | the window awm made the active one: `_NET_ACTIVE_WINDOW`, for which it also asked the input focus (which X refuses to a hidden window) |

A tag mask is a set of tags; NULL is `NoClient`. A client that is not managed has
its fields reset, and so have monitor slots that are not in use, except slot 1,
which code may still read when no monitor is left. `showing` is the loop variable
of `showall()`, with an auxiliary note of the tags it began with.

### Actions

Each C function is an operator from a state to a state with the function's name
(`focus`, `view`, `attachclients`, `sendmon`, ...), and each handler is an action
that applies one of them, with all the calls the handler makes. Two things are
worth knowing when reading them:

- `focus(c)` may change the selected monitor: when `c` is not visible on it, the
  first client of the focus stack that is visible *there* is taken, and then the
  selected monitor becomes the one that *owns* that client.
- A click on a bar or a window first selects the monitor under the pointer and
  drops the focus; because of the point above the monitor selected may then be
  another one (`ClickBarLost`).

Choices left open: which clients float (`zoom` and `movestack` skip them; a
subset is chosen anew each time), and whether a click on a tab calls `pop()` or
`focus()`, which depends on the layout. The focus lock of a fullscreen window
(`lockfullscreen`) makes an action a stuttering step. `showall()` runs in steps,
because each turn reads what the previous one changed; no other handler comes in
between. There is one scratchpad key. Outputs come and go one at a time, at the
tail of the array, with any monitor under the pointer afterwards.

Not part of the model: geometry, floating and fullscreen flags, layouts, per-tag
settings, and the events `arrange()` and `restack()` handle from inside.

### Runs

All runs are of `MCWm`, which names sets of bindings; a `.cfg` chooses one, the
kinds of placement, and the numbers of windows, tags and monitors.

| run | instance | shows |
|---|---|---|
| `config` | 2 windows (one refuses the focus), 2 tags, 1-2 monitors, every binding, every placement but scratchpads | `TypeOK`, `ListsAgree`, `FocusFollowsSelection` |
| `windows` | 3 windows, one a scratchpad, 2 tags, 1-2 monitors, one tag each; hiding and reordering | `VisibleIsOwned`, `SelectionsOwned`, `RequestsReachWindow`, `OneWindowRetagged` |
| `hotplug` | 2 windows, 3 tags, 1-3 monitors that come and go | `OwnersLive`, `DisjointViews` |

Why the bounds suffice: a property relates at most two windows and two monitors.
Two windows give every relative order of the lists and a selection that is or is
not the head; the third in `windows` gives a window next in line when one closes.
Two monitors give every exchange of views; the third in `hotplug` lets the dying,
the selected and the owning monitor differ. While one monitor is left, a tag is
shown by none; two tags on two monitors (`config`) and three on three (`hotplug`)
make `createmon()` run out. No run needs a counter bound: the state is finite.
Windows are symmetric in `hotplug`, where none is
singled out, and in `windows`, but for the scratchpad.

`VisibleIsOwned`, `SelectionsOwned`, `RequestsReachWindow` and `OneWindowRetagged`
hold for windows with one tag and plain placement, and are checked there: once
`toggleview`, rules or transients put one window in two views they do not hold,
and neither code nor documentation promises them then. One consequence is a
hazard: a monitor's selection can be a freed client (`PROJECT.json`).
`DisjointViews` is checked, and proved, where nothing toggles tags, with outputs
that come and go; that views are not empty holds with every binding, which
`ViewsNonEmptyAlways` proves.

Where the code departs from the documentation is told in section 11.

No fairness is assumed: the core only answers requests, so all its properties are
safety properties. Deadlock is checked in every run.

Next to some definitions stands a variant named `f_Defect`, a plausible bug. Each
property of a passing run is violated when the variant named in `PROJECT.json`
takes its place.

### Proofs

`WmProofs` proves for every number of windows, tags and monitors, every set of
bindings and placements, from the assumptions stated with the constants
(`MaxMonitors <= NumTags`, as `createmon()` enforces; scratchpads and windows that
refuse the focus are windows; rule masks are tag masks):

- `TypeCorrect`, `ListsAgreeAlways`, `ViewsNonEmptyAlways`,
  `FocusFollowsSelectionAlways`: the invariants of run `config`, and that no view is
  ever empty;
- `OwnersLiveAlways`: the same for `OwnersLive`, when at least one output stays on.

The argument: `IInv` is `Well(g_awm)`, `Focused(g_awm)` and the typing of the loop
of `showall()`. `Well` says that the state is typed, the selected monitor and all
owners are existing monitors (or slot 1), views are not empty, and both lists hold
the same clients once each. It is stronger than the invariants themselves because
`focus()` follows the owner of a client found in the stack: owners must be known
to exist before the selected monitor can be, and the lists must be injective
before removing a client removes it for good. For each operator a lemma says what
it does to `Well`, in terms of the sets `A` and `B` of clients in the two lists,
since in the middle of `focus()`, `sendmon()` or `manage()` the two differ. The
lemma about `focus()` gives `Focused` whatever held before, so every handler that
ends with it restores `Focused`; the others change neither list nor selection.
`Done(s, t)` abbreviates "well-formed, and focused or unchanged". The proof that a
step preserves `IInv` has one step per action.

The lemmas about `Min` and `Max` of a set (which the model uses for "the first
one") rest on the well-foundedness of the inclusion of finite sets, and the ones
about removing an element of a list on `RemoveAt`'s definition.

The other theorems are about windows and views of one tag, and name their conditions:

| condition | says |
|---|---|
| `OneTagBindings` | no binding toggles tags of a view or a window, no rule assigns several; the bindings for all tags only where outputs are steady or two always stay on |
| `Steady` | outputs neither come nor go |
| `PlainPlacement` | new windows go where the user looks, or are the scratchpad |

| theorem | from | establishes |
|---|---|---|
| `DisjointViewsAlways` | `OneTagBindings` | no tag is on two monitors |
| `OneWindowRetaggedAlways` | `OneTagBindings` | a step retags one window at most |
| `VisibleIsOwnedAlways` | and `Steady` | a window that is shown belongs to the monitor that shows it |
| `RequestsAlwaysReach` | and `Steady` | a window asked for ends selected and shown |
| `SelectionsOwnedAlways` | and `Steady`, `PlainPlacement` | no selection is freed or another monitor's |

Run `windows` is an instance of all three conditions, `hotplug` of the first. The
conditions are where the code stops keeping its word, not where the proof does:
`updategeom()` gives a new monitor a tag and does not call `attachclients()`, so
that a hotplug breaks `VisibleIsOwned`; a rule or a transient may put a window on a
monitor that does not show its tag, and `manage()` makes it the selection there,
which nothing repairs when the window leaves.

The argument: `TidyAlways` proves `IInv /\ Tidy(g_awm)`. `Tidy` is `Neat`, or `Lone`:
one monitor for good, where a view of all tags does no harm. `Neat(s, k)` is

- `OneTag(s)`: each view, and each view to flip back to, is one tag, no two monitors
  show the same, a window has one tag or none. It has the alternate views because
  `view(0)` exchanges them in, and the single tags because only then
  "visible" and "has the tag of the view" are the same (`VisibleFacts`);
- when `Steady`, `Home(s)`: there is a monitor, and a window with the tag of a view
  belongs to that monitor. `attachclients()` restores it after each change of views,
  and the proof follows its loop in the lemma `AttachclientsMoves`: when two
  monitors exchange their views exactly the windows of the two tags change owners;
- with plain placement, `Chosen(s, k)`: every monitor's selection but `k`'s is none,
  or a window of the monitor with the tag of its view. In the middle of a handler
  the selection of one monitor is out of date, and the call of `focus()` that ends it
  repairs that one (`FocusTidy`); `detachstack()` repairs the one it breaks.

`OneTag` is inductive alone, which is why the first two theorems need no `Steady`.
`viewall` and `tagall` are refused while another monitor shows something
(`AllTags`), which with one monitor that may get company is not enough.
`RequestsReachWindow` follows from `Home` for each of the three ways to ask:
activation views the window's tag on the monitor that owns it, and if that tag is
shown there is nothing to exchange because no other monitor can show it.

Of the properties of `Wm` that the runs check all are proved, under the conditions
above. Out of this prover's reach in general: liveness and ENABLED, induction over
data, and recursive operators; `Wm` uses none of them.

## 4. The fullscreen bypass: `Bypass`

### State and actions

When a monitor shows an opaque fullscreen window that covers it, the compositor
leaves the monitor alone: it stops redirecting the window, cuts a hole into its
overlay window, or lowers the overlay and pauses when every monitor is bypassed.

| field | code |
|---|---|
| `comp.direct` | the records with `CompWin.redirected == 0` |
| `comp.paused_mask`, `.paused` | `comp.paused_mask`, `comp.paused` |
| `comp.overlay`, `.hole` | stacking and bounding shape of the overlay, set by X requests |
| `comp.pending` | `comp_pending_bypass_win` and its 40 ms timer, the two change together |
| `comp.watchdog` | `comp.pause_watchdog_id` |
| `wm.managed`, `.mon`, `.isfullscreen` | the clients and their fields |
| `wm.hidden` | `Client.ishidden`: minimised, and unmapped by `hide()` |
| `wm.vis` | the monitor whose tags include the window's: one or none |
| `wm.at`, `.fills` | the monitor the window's rectangle lies on, whether it covers it |
| `wm.translucent`, `.hint` | `Client.opacity < 1`; `_NET_WM_BYPASS_COMPOSITOR` is 1 |

`check_unredirect(w, s)` is `compositor_check_unredirect()`: from the windows `w`
it computes the mask that is justified, returns when the mask is the present one,
and else redirects windows, places the overlay and starts or stops the watchdog.
The point of the module is *when* it is called: each handler of the window manager
that may hide, minimise, move or close a fullscreen window is an action that calls
the compositor's functions in the order of the code, with the windows as they are at
each call. `Exchange` (a view exchanged between two monitors) calls it twice, with
two different sets of windows. `Hide` and `Show` call it too, and change nothing by
it unless something else had changed before: `ISVISIBLE()` does not look at
`ishidden`, so for the compositor a minimised window is still shown. `SetOpacity` and
`MoveResize` do not call it: only the watchdog looks after them.

Each window has one tag, no two monitors show the same tag, and monitors neither
come nor go; what happens otherwise is not part of this module. `restack()` raises
the overlay when a window is selected on the monitor: the model says when a window
is shown there, which is the same for windows with one tag (`SelectionsOwned`).

### Runs

| run | instance | shows |
|---|---|---|
| `bypass` | 2 windows, 2 monitors; one window fades and is moved by its program, the other asks for a bypass | `TypeOK`, `WindowedIsComposited`, `PauseAccounted`, `BypassIsCovered`, `BypassEnds` |

Two monitors give every value of the mask that matters: none, one and all of
them. Two windows let one replace the other in fullscreen, on the same or on the
other monitor, while the timer waits for either; both may be minimised. The state is
finite. What only programs ask for is given to one window each (`Fading`, `Hinting`,
`Moving`), so that the run with its liveness property takes a minute or two: whether a
mask is outdated is a question about one window, and the hint decides what its own
window does when a monitor resumes.

`BypassIsCovered` says that no handler leaves a bypass on after the window that
justified it closed, left fullscreen, or went to another tag or monitor. A window
that is minimised counts as long as its tag is shown, because for the code it does.
The comments promise more: a *visible* fullscreen window (`compositor.c:1344`), and
that a bypass ends within 5 s when its window disappears (`:1002`). Section 11 tells
what happens instead; stated with `Displayed(wm)` alone the invariant is violated as
soon as a fullscreen window is hidden, and stays so.

`BypassIsCovered` is also weaker than "the mask is the justified one": when a
fullscreen window becomes translucent or is moved by its program, the mask is
outdated until the watchdog finds out. That it does is `BypassEnds`, under weak
fairness of the two timers, which GLib fires when they are due; that the watchdog
exists whenever a monitor is bypassed is half of `PauseAccounted`, the other being
that the overlay's holes are the bypassed monitors. The watchdog clears its identifier
*before* it calls the check that may start it again; in the other order it would
be lost, which is the variant `BypassEnds` is tested with.

### Proofs

`BypassProofs` proves the four invariants of run `bypass` for every number of
windows and monitors, from `NoClient \notin Client` and at least one monitor. So
`BypassAlwaysCovered` says what the run says, with minimised windows counted: that a
bypassed monitor *displays* a fullscreen window is not true of the code, and not proved.
The inductive invariant `IInv` adds to the types what ties the two records
together: `Placed(wm)` (a shown window is managed and shown by its own monitor, and
only managed windows are minimised; without it closing a window could leave another
one's mask uncovered), `Sound(comp)` (watchdog and holes follow the mask),
`Fits(wm, comp)` (only fullscreen windows, and those that ask for it, are not
redirected), and that bypassed monitors have a
fullscreen window on their tag. The lemmas `CheckChanges` and `CheckSound` say what
`check_unredirect` leaves behind from *any* sound state, also one whose mask is not
covered, because handlers call it after the windows changed. Each handler then
shows only that `Sound` and `Fits` hold at each of its calls. `BypassEnds` is
temporal and stays with TLC.

## 5. Records, damage and repaints: `Repaint`

### State and actions

The module follows a frame from the program that draws it to the overlay. One
record holds the X server's part (which windows are mapped, their geometry, the
queue of events, the notifications of vertical blanks in flight, what the overlay
shows) and the compositor's (`comp.windows` with each record's geometry, pixmap,
damage object and flags; the dirty region; `paused`, `vblank_armed`,
`repaint_pending` and the idle source).

A pixmap is `current` when it names the storage the window has now, `stale` when the
window was mapped anew or resized since, and `none`. Storage is made by the server
when a program maps or resizes its window, and awm learns of it later. A damage
object reports once, when it was empty (`full`), until its damage is subtracted.
Of a geometry the model keeps a place and a size; an area of the screen is a
window at a place, so the old and the new place of a window are different areas,
and windows do not overlap. What the overlay shows in an area is the latest frame,
an older one, or nothing.

Programs act at any time (`Programs`); the window manager and the bypass act on
managed windows (`Manager`); the main loop reads events in the order of the queue
(`Handle`), and a vertical blank or the idle source repaints. Vertical-blank
notifications come from another extension and are counted apart from the queue, so
they may be read early or late.

### Runs

| run | instance | shows |
|---|---|---|
| `repaint` | 1 client, 1 popup, hiding by tags, minimising, bypass and pausing, repaints while dragging | `TypeOK`, `RepaintScheduled`, `ReportsAreRead` |
| `frames` | 1 client, 1 popup, resizing, Present frames, bypass and pausing | `OutdatedIsKnown`, `FramesAreShown` |

Bounds: programs act only while fewer than `MaxEvents` = 2 events are unread, which
still gives any two events of a window, or one of each window, in both orders, and
handlers add more; `MaxVblanks` = 2 notifications in flight let one asked for before
a pause be answered after the resumption asked for another. One client and one
popup are enough because records do not interact, except through the dirty region
and the schedule, which they share. Two geometries differ in place and size. The
features are split over two runs so that each ends in minutes; each action fires
in one of them. `HasPresent` is true in both: without it every repaint is by
the idle source, and `RepaintNow` and the second arm of `comp_arm_vblank` make the
idle source in these runs too.

Fairness: `WF(Handle)`, `WF(RepaintIdle)` and `WF(Vblank)`. The GLib main loop
dispatches its sources again and again, the idle source is one of them, and the
server answers every `NotifyMSC` request. Nothing is assumed of programs or the
user. `FramesAreShown` speaks of a window whose program has drawn its last frame
and which nobody maps, moves or hides any more: whatever other windows draw, the
overlay shows that frame in the end and goes on to. While awm is paused or the
window is bypassed nothing is claimed.

The properties of `frames` hold under conditions that the instance states. With
minimising, a record may keep the pixmap of storage that is gone (section 11). A
popup that moves *without* being resized is painted at its old place only until it
draws again: the handler of its ConfigureNotify makes the old rectangle dirty, and
the new one only when it names a new pixmap (`compositor.c:1755`). In these runs a
move is also a resize (`Resizing`).

### Proofs

`RepaintProofs` proves the three invariants of run `repaint` for every number of
windows and geometries, with every feature, with and without Present, and for every
bound on events and notifications. The inductive invariant is `Fine(comp)`, which is
`Good(comp)` and `OnItsWay(comp)`. `Good` holds also in the middle of a handler: the
types, what records own, that every damage object that waits has its report in
the queue, and that an armed notification was asked for (`vblank_armed` implies
`vblanks > 0`; without this a dirty region could wait for an answer nobody owes).
`OnItsWay` may fail inside a handler, between making a region dirty and the call
of `schedule_repaint()` that ends it; the lemma `ScheduleGood` says this call
restores it from any good state. Three lemmas say what appending, reading and
disarming events does to the set of reported windows. Each function of the
compositor has a lemma, and each handler a step that chains them.

`OutdatedAlwaysKnown` is the invariant of run `frames`: whatever the overlay shows
wrongly of a composited window is dirty there, or an event about the window is not
read yet. It holds for every number of windows, every bound and with every feature
but minimising, if geometries differ in size whenever they differ (`MovesResize` in
the proofs); both conditions are the ones explained above. It needs what the unread
events *promise*, since between an X request and the event that tells of it the
record, the pixmap and the overlay may all disagree with the server. `Sound(comp)`
says of each window, beside `Good`:

- `Followed`: a record that differs from the server in being there or in its
  geometry has the event that settles it in the queue; a popup that is mapped again
  has a MapNotify behind every UnmapNotify (`Remapped`), and the last
  ConfigureNotify tells of the geometry it has now (`Final`). A client's record
  moves with awm's own request, and is unmapped once at most (`Once`);
- `PixmapOK`: the pixmap is of the present storage, or a ConfigureNotify with another
  size, which makes awm name it anew, is unread (`Resizes`);
- `DamageOK`: a composited window has a damage object;
- `ShownOK`: outside the dirty region the overlay shows a window only where its
  record is;
- `LatestOK`: there it shows the last frame, or the damage is reported and not read.

Most of the proof is about what a step leaves alone. `Spares(s, t, w)` says that
from `s` to `t` nothing of `w` was lost: its record and overlay are the same, no
dirt was removed, and the queue promises the same of it (`SameMoves`). `Spared`
says each part of `WindowOK` survives that, so each function of the compositor
needs one lemma that it spares the windows it is not about and one for the window
it is about. The promises are moved by `AppendMoves` when an event is sent, and by
`TailMoves`, `TailConfigures` and `TailUnmaps` when one is read.

`FramesAreShown` is a liveness property and model-checked only.

## 6. The helper process: `UiHelper`

### State and actions

awm starts `awm-ui` with one end of a socket and talks to it in messages. The
module has both processes and the socket: `down` and `up` are the queues, `helper`
the process (`gen` counts the helpers since awm started), `pixmaps` the snapshots
that exist on the X server, each named by the helper it was made for, the show it
belongs to and its window. Theme and work area are version numbers.

awm polls its end (`Poll`) and dispatches later what the poll saw
(`ui_source_dispatch`), because a hang-up that was seen is served before the
messages still in the queue, which are then lost: one message is read per
dispatch. `HelperDies` may happen at any time, `ui_respawn_cb` is the timer that
starts another helper, once, and fails if `fork()` does. `Restart` is the new
`exec` of awm itself. A preview's pixmaps are lent in the message, held on cards, and
returned in a `PREVIEW_DONE`, which has room for 32 (`DoneCap`).

### Run

`ui`: two windows, room for one identifier in `PREVIEW_DONE`, two helpers, two
shows, three changes of settings, two messages queued before a sender waits. With
two shows a second one overtakes the answer to the first; with more cards than
room one pixmap is left behind, as in the code with 33 windows; the third change
falls before, between and after the greeting of a new helper. It checks `TypeOK`,
`SnapshotsOwned`, `FlagNotStuck`, `SettingsDelivered` and, under weak fairness of
awm's poll, dispatch and timer and of the helper's start and socket,
`HelperComesBack`. The main loops run on and GLib's timers fire; nothing is assumed
of the user or of crashes. Deadlock is not checked: an awm whose helper could not
be started has nothing left to do within the bounds.

### Proofs

`UiHelperProofs` proves `TypeOK`, `SnapshotsOwned`, `FlagNotStuck` and
`SettingsDelivered` for every number of windows (finite), helpers, shows, settings,
messages in the queues and room in an answer. `IInv` adds to them

- `LinkOK`: awm has a socket while the helper lives, no timer while it has one, and
  what the poll reported still holds when it is served (a hang-up is for good, and
  only awm takes messages from its queue). Without it a dispatch might find no message;
- `BatchesOK`: the snapshots of a show are as many as they say, in a message or on
  cards. It is what bounds the pixmaps that do not fit in `PREVIEW_DONE`;
- `OwnersOK`: a snapshot is in one message of one queue or on one card;
- `NewsOK`: the newest theme and work area in the queue are the present ones.

A queue is read at its head and written at its end; the lemmas `QueueAppend`,
`QueueTail`, `NewestAppend` and `NewestTail` say what that does to the snapshots and
settings it carries. `HelperComesBack` is a liveness property and stays with TLC.

Not promised by the code, and seen in the model: pixmaps beyond the 32nd, and those
a crashed helper held, stay on the server; a respawn that fails is not tried again;
an `EXEC` sent just before the helper dies is lost; a dismissal by Escape that
crosses a new `LAUNCHER_SHOW` leaves the launcher open with the flag down, against
`awm.c:74`; `PREVIEW_HIDE` is dropped while the launcher is open.

## 7. The launcher: `Launcher`

`items` is the list `launcher_create()` makes: desktop files first, then the
executables on `PATH` whose name nothing has yet. An item is its index; names are
numbers in the order of `strcasecmp()`, a text is a model value with the names it
is part of. `rows` are the rows of the GTK list from the top, `sel` the one
selected. Three things happen later than the key that causes them: GTK reports a
text 150 ms after the last key (`SearchChanged`), an empty one at once; the handler
sorts and filters; the selection follows in an idle callback
(`select_first_visible_idle`). In between come other keys, clicks, themes (which
destroy all rows and with them the selection), `launcher_hide` and `launcher_show`.
A launch counts, empties the history file, writes it (`SaveReturns`, in full or,
on a full disk, in part) and hides the window. `Crash` may fall between the two and
starts a helper that reads what is there.

`launcher`: two entries of one name, a hidden one whose program is on `PATH`, an
executable found twice and one that is an entry too; two texts, one narrower;
`MaxActs` = 8 keys, clicks, themes and crashes, enough to launch twice, crash, and
launch, type and theme again; counts up to `MaxCount` = 3, past the tie of two
programs. `SettledSelection`: once GTK has reported and the loop was idle, Return
launches a program that the text matches, if one does. `HistoryKept`: while no save
failed, the file tells how often each program was launched. No fairness is assumed
(safety only); deadlock is not checked because the bound on acts ends every run.

### Proofs

`UiHelperProofs` proves `LauncherTypeOK`, `SettledSelection` and `HistoryKept` for any
files on disk and on `PATH`, texts and programs they match, counts and number of
acts, also where there is nothing to launch. `LauncherInv` is inductive:

- `Typed`: the rows are the items, each in one row. `rows` is sorted again after a
  text and built again for a theme, from counts that changed since. That each row
  then has one item (`RankedFacts`) follows from the order alone: an item's row is
  the number of items before it (`Ranked`), the order is strict and total
  (`ItemOrder`), so no two items have as many before them (`BeforeCounts`), and as many
  items as rows fill all rows. That an executable on `PATH` repeats no name is
  `ItemsFacts`;
- `Selected`: a text that GTK has reported is the one filtered by, and unless the
  idle callback is due the selected row matches it or no row does. Without
  the first part, the callback could select by another text than the one shown;
- `Remembered`: the counts tell of the launches as long as no save failed, and the
  file does unless it is being written. `HistoryKept` alone says nothing of the
  counts, which the next save writes. A save makes a file of the counts
  (`SavedTells`), a line for each item; a restart makes counts of the file
  (`LoadedTells`), where the last line of a name goes to the first item that has
  it. For a name of one item both are exact, for the others only that it was launched.

`launcher_history_load` and the lists are filters of sequences, so `Keep` and its
lemmas in `ListProofs` do what `SelectSeq` would do in a model that is only run.

`SettledSelection` says nothing of the time before: within 150 ms of the last key, or
before the idle callback, Return launches the row selected for the text before;
with no match the hidden selection stays, and Return launches it. It does not hold
after the arrow keys, which step on filtered rows (section 11).

## 8. The status notifier host: `Sni`

`heap` is the memory of the items by address (`Slot`), since a reply carries the
address of the item it is for and a freed address may be given out again; the
generation number is 0 while an item lives and 1 once it is freed, because
`calloc()` starts every item at 0. `calls` are the calls that applications have
not answered, in the order they may be answered in: any. `inbox` is what the bus has
delivered. `sni_handle_dbus` begins a dispatch and `DispatchMessage` handles one
message of it; `dbus_dispatch_cb` notices that the connection is lost, and
`dbus_reconnect_cb` is the timer of 1, 2 or 5 s that is set until it is back.

`sni`: two applications, one with a well-known name and an icon that is painted at
once, the other with an icon file; both with a menu; one answers always, the other
may refuse or be silent; two addresses, at most two items, five acts of
applications, bus and user. Five acts cover: register, click, exit, register at
the same address and click; or: click, the bus dies, starts, another watcher comes.
`TrayMatchesItems`, `MenuFlagHonest` and `TypeOK` are invariants. Under weak
fairness of the main loop, its timers and the answers of reliable applications:
`ConnectionComesBack` (if the bus stays up and no other process holds the name) and
`ItemsAreServed`. Deadlock is not checked: when the acts are used up all is quiet.

`SniProofs` proves the three invariants for every number of applications,
addresses, items and acts. `IInv` adds to them that every call in flight, and every
reply on its way, is for an item with generation 0 (`QueuesOK`): the callbacks
compare with 0 because of it, and it holds because calls are only made for items
on the list; that the connection is read only while there is a watcher
(`ConnectionOK`); that exactly the listed slots have generation 0 (`ItemsOK`); and that
a flag that is up has a reply to come, a menu on display of an item on the list, or
a connection that was closed meanwhile (`MenuOK`). The step where this is not
obvious is the reply itself: it lowers the flag or opens the menu, and with the
item gone from the list there is no menu to wait for. `ConnectionComesBack` and
`ItemsAreServed` are liveness properties and stay with TLC.

`MenuFlagHonest` holds until the connection is closed with a `GetLayout` in flight
(`dropped`); what happens then, and when an address is given out again, is in
section 11. Also seen: a silent application's `GetLayout` blocks the menus of all
items, since nothing times out (libdbus timeouts are not in the main loop); signals
of an item registered under a well-known name are ignored, since they come from its
unique name; an error in answer to `GetAll` leaves the item fetching; the menu
of an item that goes stays up with the item's address.

## 9. Notifications: `NotifService` and `Notif`

`NotifService` is what programs are promised: numbers in turn; a notification
leaves the display once, for a reason told exactly then, without a word only when
replaced; at most `Max` are on display, and the oldest makes room. `Notif` is the
daemon: the list, the sources of `notif_expire_cb`, the popups with their offsets,
and the signals sent. `status` computes, from the answers and signals a program got
and the list, what became of each number; `Service == INSTANCE NotifService WITH
Max <- MaxVisible` is the refinement, and `ImplementsService` the property. A
handler that sends no signal, or two, maps to no step of the service.

Until awm has told the work area no popup is made and no timer runs:
`notif_update_geom` makes up for it, which `PopupsExpire` depends on. `Restart` is a
new helper, whose numbers begin at 1 again.

`notif`: four notifications of two heights, two on display (the code has four), two
scales. With two on display the third drops one and a fourth may replace one at
the limit. Fairness: a timer that is set fires, and awm's first message
(`MONITOR_GEOM`, sent in its greeting) is read. A critical notification has no timer.

`NotifProofs` proves `TypeOK`, `NoOverlap` and the refinement `ImplementsService` for
every number of notifications, limit, set of heights and of scales. `IInv` says that
the list is sorted by number and within its limit (`ListOK`), that exactly the shown
notifications have a popup, those not critical a timer, and each popup its room
below the one before (`WindowsOK`), and that no number has two signals or a signal
while it is on the list (`SignalsOK`). The last makes `status` a function of list and
signals (`StatusFacts`), which the refinement needs: each handler then maps to the
step of `NotifService` with its number, or, when the popups only move, to none.
`NoOverlap` needs the order of the list: `restack` gives the popups their places in
one walk, and that the places do not meet is proved by induction along it
(`PositionsApart`). `PopupsExpire` is a liveness property and stays with TLC.

Read off the model: a `replaces_id` gives the new notification a new number; a
timeout of 0 means the default (as the header says); any client may close any
number; popups keep their height when the scale changes.

## 10. The switcher: `Switcher`

`switcher_show_internal()` and the cycle functions run GTK's loop, in which timers,
the socket and GTK's own events are dispatched, and the `restack()` at the end of
`view()` drains the X queue. `calls` is the stack of handlers that have yet to return:
`show`, `cycle` (loops of GTK), `view`, `preview` (drains). GLib does not dispatch a
source inside itself: the loops of GTK dispatch the X source only when no handler on
the stack was dispatched by it (`XSourceRuns`), which is so when the switcher was
opened by a key drained in the handler of a message of awm-ui; and the message of a
preview is dispatched in the main loop and the GTK loops. `manage()` and `unmanage()`
drain the queue as well, but after the last thing they do to what the switcher
reads: what they dispatch is what may be dispatched after they return, so they have
no frame of their own. `grab` is who gets the keys: the focus, awm
while Tab of a passive grab is down, or awm by `xcb_grab_keyboard()`. `server` has
the pixmaps and pictures of thumbnails, and `Stage` the steps of `build_thumbnail()`,
each of which may fail. Where the code uses a Client that was freed meanwhile, the
model lets the outcome be any.

`switcher`: two windows on two tags, four acts of the user and programs: enough for
modifier, Tab, an event or another Tab, and the release, in every order and at every
depth of `calls`. `TypeOK` (with selection, entries and timer tied to each other),
`ThumbnailsOwned`, `OpenIsGrabbed`; and `ReleaseCloses`, under weak fairness of the
dispatch of X events and of the loops' returns, which end as soon as nothing is
queued. Deadlock is not checked: the acts are bounded. `closed_window` ends in a
counterexample (section 11).

`SwitcherProofs` proves the three invariants for every finite set of windows and every
depth of nesting. `IInv` is `EventsOK` and `HandlerOK`, in which `OpenOK` ties
selection, entries and timer to each other, and `ThumbnailsOwned` and
`OpenIsGrabbed` are conjuncts. It has to hold whenever any handler may be entered,
in the middle of others, so each step is proved from it alone, whatever is on the
stack `calls`. That the windows are finite is assumed because `Init` lets awm start
with any list of them. `ReleaseCloses` is a liveness property and stays with TLC.

`ReleaseCloses` is about releases that awm gets. On a quick tap the modifier may be
released before awm has the keyboard: the release goes to the focused window and
the switcher stays open until a key. A preview's message handled inside the opening
loop may close the switcher, which then still grabs the keyboard, so that awm keeps
it. A window mapped while the switcher is open is not shown.

Two more things are taken as they are. awm does not read the reply of
`xcb_grab_keyboard()` (`switcher.c:901`): in the model the grab succeeds, so
`OpenIsGrabbed` says that an open switcher has asked for the keyboard, and a grab
refused because another program has one is not modelled. `switcher_cleanup()` leaves
the refresh timer and the grab to the exit that follows it; both end with the process,
and the model has them end together.

## 11. Where code and documentation part

The run `closed_window` checks `SWITCHER.md:23`, that the row shows all managed
windows: when a window closes, its card stays with a pointer to the freed Client,
which `on_card_draw()` and `switcher_confirm()` read.

The others were met while modelling; the actions follow the code, and no run is kept
for them.

| the repository says | the code does |
|---|---|
| `client.c:1583`: attachclients assigns each client to the correct monitor | after `toggleview()` of a tag another monitor shows, both show the old tags, and a window shown by both belongs to one |
| `ewmh.c:146`: the selected monitor exists | with every output off there is none |
| `AWESOMEBAR.md:29`: shows all hidden windows of the workspace | `showall()` loses its workspace when `focus()` selects another monitor |
| `awm.1:24`: selecting a tag displays all its windows | `updategeom()` gives a new monitor a tag without calling `attachclients()` |
| `awm.1:149`: Mod1-0 views all windows | `view()` does nothing when another monitor shows one of the tags |
| `AWESOMEBAR.md:25`: Mod+j cycles through visible windows only | `ISVISIBLE` does not look at `ishidden` |
| `compositor.c:1344`: a visible fullscreen window bypasses a monitor; `:1002`: when it disappeared the watchdog ends the bypass within 5 s | `hide()` unmaps the window, but the check and the watchdog test `ISVISIBLE()`, which is about tags only: the monitor stays bypassed, its other windows stay redirected and nobody paints them |
| `compositor.c:1527`: the overlay is lowered while every monitor is bypassed | a window that opens raises it again (`compositor_raise_overlay()`), and nothing lowers it while the mask stays the same |
| `SWITCHER.md:55`: the picture of a window is always live | `show()` maps a hidden window anew and its record keeps the picture of the old storage until it is resized or presents a frame |
| `sni.c:90`: the flag is up until the menu is dismissed | with a `GetLayout` in flight when the connection closes the callback never runs, and the flag stays up for good |
| `sni.c:1792`: the pointer has not been recycled (generation check) | every item starts with generation 0, so an item at the address of a freed one passes |
| `launcher.c:948`, `:983`: select last, first visible | `gtk_widget_get_visible()` is true of filtered rows as well |
| `LAUNCHER.md:47`: the 10 most launched on top, everything else alphabetical | `launcher_item_cmp()` sorts every application that was ever launched by its count |
| `LAUNCHER.md:97`: the same application never appears twice | desktop files of the user and the system with one name give two entries, and the history keeps one count for both |

## 12. Not modelled

Pure output (drawing, bar, status text, OpenGL and XRender calls), reading of
sensors, X resources and files, layouts and geometry, per-tag settings, the idle
daemon, the vendored status bar program, and the icon cache (its chains and LRU
list are local to `icon.c` and planned in section 2). Of the compositor: monitors
that come and go and windows with several tags (in `Bypass`), the destruction of
windows, opacity, shapes, the wallpaper, the paint order, screen changes, the
partial repaint of the EGL backend, and the loss of the compositing-manager
selection (in `Repaint`). Of the other modules: the contents of menus, properties
and notifications, the timers that delay showing and hiding the preview, docked
XEMBED icons, timeouts of libdbus, blocking sends, and the parsing of desktop files.
Loops of mouse drags are left out except for the repaints in them.

Some paths of the modelled handlers are left out as well:

- allocations and mappings that fail: a snapshot lent to awm-ui is lost when `mmap()`
  or `calloc()` fails (`awm_ui.c:194`, `preview.c:568`); `handle_notify()` may have
  dropped the oldest popup before it fails (`notif.c:858`); `sni_menu_pending` stays up
  when no message can be made (`sni.c:1924`): no memory is left, or the item gave a
  string that is no object path (`sni.c:817`), at which libdbus by default stops awm;
- what is done within one action: a crash between the `EXEC` message of a launch, its
  count and the write of the history (`launcher.c:759`), though the write itself may
  fail or be cut short;
- an item with the tray switched off (`systray.c:350`);
- what freed memory holds: a late reply that reads the generation of a freed tray item
  (`sni.c:774`) finds the old one, unless another item is at that address. The code
  calls the same read a use after free elsewhere (`sni.c:1289`); a model that lets
  it find anything could say nothing of the handler;
- in `Bypass`, the `DestroyNotify` that follows a closed window is handled with
  `Unmanage`, and no view toggles a tag that another monitor shows.

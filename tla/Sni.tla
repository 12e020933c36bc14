-------------------------------- MODULE Sni --------------------------------
(***************************************************************************)
(* The status notifier host: awm's connection to the session bus, the      *)
(* items that applications register on it, the asynchronous calls that     *)
(* fetch their properties, icons and menus, and the icons in the tray.     *)
(* It models sni.c with the parts of dbus.c, menu.c, systray.c and awm.c   *)
(* it runs on.                                                             *)
(*                                                                         *)
(* An item is a block of memory, and a call in flight holds its address:   *)
(* Slot is the set of addresses, and a slot that was freed may be given to *)
(* another item.  The bus, the applications and the user are environment.  *)
(***************************************************************************)
EXTENDS Naturals, Sequences, FiniteSets, Lists

CONSTANTS
    Service,    \* names of applications that may register an item
    ByName,     \* those that register under a well-known name
    HasMenu,    \* those with a DBusMenu
    LoadsIcon,  \* those whose icon is a file, which is read asynchronously
    Reliable,   \* those that answer every call
    Slot,       \* addresses an SNIItem may have
    Null,       \* no item, no application
    MaxItems,   \* SNI_MAX_ITEMS
    MaxEvents   \* acts of the applications, the bus and the user (bound)

ASSUME ServiceAssumption ==
    /\ ByName \subseteq Service /\ HasMenu \subseteq Service
    /\ LoadsIcon \subseteq Service /\ Reliable \subseteq Service
ASSUME SlotAssumption == Null \notin Slot \cup Service /\ MaxItems \in Nat \ {0}
ASSUME BoundAssumption == MaxEvents \in Nat

VARIABLES
    \* the bus and the applications
    bus,          \* the daemon runs
    linked,       \* it is the one that awm's connection leads to
    name,         \* who has the name of the watcher: "free", "awm", "other"
    app,          \* each application: "new", "up", "gone"
    matched,      \* senders whose signals the bus passes to awm
    calls,        \* calls sent by awm that are not answered
    inbox,        \* messages to awm
    events,       \* acts of the environment so far
    \* awm
    dbus_src,     \* dbus_src_id: the connection is polled
    dbus_retry,   \* dbus_retry_id: dbus_reconnect_cb is due
    dispatching,  \* inside sni_handle_dbus()
    watcher,      \* sni_watcher is not NULL
    items,        \* the list of items, the latest first
    heap,         \* the memory of the items
    tray,         \* items with an icon in the system tray
    loads,        \* icon files being read
    menu,         \* sni_menu: is it up, and its callback_data
    current,      \* sni_current_menu_item
    menu_pending, \* sni_menu_pending
    dropped       \* history: a connection was closed with a GetLayout in flight

busVars  == <<bus, linked, name, app, matched, events>>
connVars == <<dbus_src, dbus_retry, watcher, dropped>>
menuVars == <<menu, current, menu_pending>>
itemVars == <<items, heap, tray, loads>>
vars == <<busVars, calls, inbox, dispatching, connVars, itemVars, menuVars>>

Item ==
    [service : Service \cup {Null}, generation : 0 .. 1, fetched : BOOLEAN,
     fetching : BOOLEAN, click : {"none", "left", "right"}, menu : BOOLEAN,
     icon : SUBSET Service]     \* the application whose icon is on its window

Call == [kind : {"GetAll", "GetLayout"}, slot : Slot, service : Service,
         generation : 0 .. 1]

Message ==
    [type : {"Register", "Changed", "NameLost"}, service : Service]
    \cup [type : {"Reply"}, call : Call, ok : BOOLEAN]

Listed == Members(items)
find_item(s) == {p \in Listed : heap[p].service = s}

-----------------------------------------------------------------------------
\* The environment.

Act == events < MaxEvents /\ events' = events + 1

Deliver(m) == inbox' = Append(inbox, m)

\* An application starts, or finds a watcher, and registers.  A unique name
\* is not given twice by one bus.
Register(s) ==
    /\ Act /\ name = "awm"
    /\ app[s] # "gone" \/ s \in ByName
    /\ app' = [app EXCEPT ![s] = "up"]
    /\ Deliver([type |-> "Register", service |-> s])
    /\ UNCHANGED <<bus, linked, name, matched, calls, dispatching, connVars, itemVars, menuVars>>

\* NewIcon, NewStatus, ... or PropertiesChanged.
Changed(s) ==
    /\ Act /\ app[s] = "up" /\ s \in matched
    /\ Deliver([type |-> "Changed", service |-> s])
    /\ UNCHANGED <<bus, linked, name, app, matched, calls, dispatching, connVars,
                   itemVars, menuVars>>

ErrorReplies(cs) ==
    [i \in DOMAIN cs |-> [type |-> "Reply", call |-> cs[i], ok |-> FALSE]]

CallsTo(s) == {c \in Members(calls) : c.service = s}

\* The bus announces the loss of the name before it answers the open calls.
Exit(s) ==
    /\ Act /\ app[s] = "up"
    /\ app' = [app EXCEPT ![s] = "gone"]
    /\ inbox' = inbox \o <<[type |-> "NameLost", service |-> s]>>
                      \o ErrorReplies(Keep(calls, CallsTo(s)))
    /\ calls' = Keep(calls, Members(calls) \ CallsTo(s))
    /\ UNCHANGED <<bus, linked, name, matched, dispatching, connVars, itemVars, menuVars>>

Without(seq, i) == SubSeq(seq, 1, i - 1) \o SubSeq(seq, i + 1, Len(seq))

Answer(i, ok) ==
    /\ app[calls[i].service] = "up"
    /\ Deliver([type |-> "Reply", call |-> calls[i], ok |-> ok])
    /\ calls' = Without(calls, i)
    /\ UNCHANGED <<busVars, dispatching, connVars, itemVars, menuVars>>

\* The daemon ends: libdbus answers the open calls with errors, which are
\* dispatched only if awm is in the middle of a dispatch.
BusDies ==
    /\ Act /\ bus
    /\ bus' = FALSE /\ linked' = FALSE /\ name' = "free" /\ matched' = {}
    /\ app' = [s \in Service |-> "new"]
    /\ inbox' = inbox \o ErrorReplies(calls) /\ calls' = <<>>
    /\ UNCHANGED <<dispatching, connVars, itemVars, menuVars>>

BusStarts ==
    /\ ~bus /\ bus' = TRUE
    /\ UNCHANGED <<linked, name, app, matched, events, calls, inbox, dispatching,
                   connVars, itemVars, menuVars>>

\* Another watcher has the name while awm does not.  The request of awm lacks
\* ALLOW_REPLACEMENT, so the bus never takes the name away from it.
OtherWatcher ==
    /\ \/ bus /\ name = "free" /\ name' = "other" /\ Act
       \/ name = "other" /\ name' = "free" /\ UNCHANGED events
    /\ UNCHANGED <<bus, linked, app, matched, calls, inbox, dispatching, connVars,
                   itemVars, menuVars>>

-----------------------------------------------------------------------------
\* Items.

NewItem(s) ==
    [service |-> s, generation |-> 0, fetched |-> FALSE, fetching |-> FALSE,
     click |-> "none", menu |-> FALSE, icon |-> {}]

FreedItem_Unmarked == NewItem(Null)

\* The generation of a freed item is one more than it was; nothing else of
\* the memory is read.  What malloc() stores there is not modelled.
FreedItem == [NewItem(Null) EXCEPT !.generation = 1]

\* calloc() gives any free slot, with generation 0.
sni_add_item(s) ==
    IF find_item(s) # {} \/ Len(items) >= MaxItems
    THEN UNCHANGED <<items, heap>>
    ELSE \E p \in Slot \ Listed :
            /\ items' = <<p>> \o items
            /\ heap' = [heap EXCEPT ![p] = NewItem(s)]

removesniiconsystray(gone) == tray' = tray \ gone

sni_remove_item_KeepsIcon(gone) ==
    /\ items' = Keep(items, Listed \ gone)
    /\ heap' = [p \in Slot |-> IF p \in gone THEN FreedItem ELSE heap[p]]
    /\ UNCHANGED tray
    /\ current' = IF current \in gone THEN Null ELSE current
    /\ menu_pending' = (menu_pending /\ current \notin gone)

\* The items in gone are removed, with their windows and tray icons; the menu
\* that is up stays up, but the next right click is accepted.
sni_remove_item(gone) ==
    /\ items' = Keep(items, Listed \ gone)
    /\ heap' = [p \in Slot |-> IF p \in gone THEN FreedItem ELSE heap[p]]
    /\ removesniiconsystray(gone)
    /\ current' = IF current \in gone THEN Null ELSE current
    /\ menu_pending' = (menu_pending /\ current \notin gone)

GetAll(p) == [kind |-> "GetAll", slot |-> p, service |-> heap[p].service,
              generation |-> heap[p].generation]
GetLayout(p) == [GetAll(p) EXCEPT !.kind = "GetLayout"]

\* A call on a connection whose daemon is gone is not sent.  The match rules
\* are added once for an item, and never removed.
sni_fetch_item_properties(ps) ==
    /\ calls' = IF linked THEN calls \o [i \in DOMAIN ps |-> GetAll(ps[i])] ELSE calls
    /\ matched' = IF linked THEN matched \cup {heap[p].service : p \in Members(ps)}
                  ELSE matched

FetchingItem(item) == [item EXCEPT !.fetched = FALSE, !.fetching = linked]

\* A call in flight is not withdrawn: several GetAll of an item may be open.
sni_update_item(p) ==
    /\ heap' = [heap EXCEPT ![p] = FetchingItem(@)]
    /\ sni_fetch_item_properties(<<p>>)

-----------------------------------------------------------------------------
\* Clicks and menus.

\* A right click on an item with a menu is dropped while a menu is pending.
AsksForMenu(p, button) ==
    button = "right" /\ heap[p].menu /\ ~menu_pending

sni_show_menu(p) ==
    /\ calls' = IF linked THEN Append(calls, GetLayout(p)) ELSE calls
    /\ menu_pending' = linked

\* Without properties the click waits for them, in place of one that waits
\* already.  Activate and ContextMenu are sent and not answered.
sni_handle_click(p, button) ==
    /\ Act /\ p \in tray /\ watcher /\ ~dispatching
    /\ \/ /\ ~heap[p].fetched
          /\ heap' = [heap EXCEPT ![p].click = button]
          /\ UNCHANGED <<calls, menu_pending>>
       \/ /\ heap[p].fetched /\ AsksForMenu(p, button)
          /\ sni_show_menu(p)
          /\ UNCHANGED heap
       \/ /\ heap[p].fetched /\ ~AsksForMenu(p, button)
          /\ UNCHANGED <<heap, calls, menu_pending>>
    /\ UNCHANGED <<bus, linked, name, app, matched, inbox, dispatching, connVars,
                   items, tray, loads, menu, current>>

\* The menu is dismissed, or one of its entries chosen: GTK deactivates the
\* menu first, and the entry's callback clears the same variables again.
MenuClosed ==
    /\ menu.visible /\ ~dispatching
    /\ menu' = [menu EXCEPT !.visible = FALSE]
    /\ current' = Null /\ menu_pending' = FALSE
    /\ UNCHANGED <<busVars, calls, inbox, dispatching, connVars, itemVars>>

\* The slot is of a listed item, and the generation is that of the call: the
\* test of the callbacks.
SameItem(c) == c.slot \in Listed /\ heap[c.slot].generation = c.generation

\* The menu that was up, if any, is replaced.  The new one may fail to map.
menu_show(p, visible) == menu' = [visible |-> visible, data |-> p]

sni_get_layout_notify_KeepsFlag(c, ok) ==
    /\ \/ /\ SameItem(c) /\ ok
          /\ \E visible \in BOOLEAN :
                /\ menu_show(c.slot, visible)
                /\ current' = IF visible THEN c.slot ELSE Null
                /\ menu_pending' = (menu_pending /\ visible)
       \/ /\ ~SameItem(c)
          /\ UNCHANGED <<menu, current, menu_pending>>
       \/ /\ menu_pending' = FALSE
          /\ UNCHANGED <<menu, current>>
    /\ UNCHANGED <<calls, matched, items, heap, tray, loads>>

\* A menu that fails to map is dismissed at once; the layout may be empty or
\* malformed, or the item gone.
sni_get_layout_notify(c, ok) ==
    /\ \/ /\ SameItem(c) /\ ok
          /\ \E visible \in BOOLEAN :
                /\ menu_show(c.slot, visible)
                /\ current' = IF visible THEN c.slot ELSE Null
                /\ menu_pending' = (menu_pending /\ visible)
       \/ /\ menu_pending' = FALSE
          /\ UNCHANGED <<menu, current>>
    /\ UNCHANGED <<calls, matched, items, heap, tray, loads>>

menu_free == menu' = [visible |-> FALSE, data |-> Null]

-----------------------------------------------------------------------------
\* Properties and icons.

Load(p) == [slot |-> p, service |-> heap[p].service, generation |-> heap[p].generation]

addsniiconsystray(p) == tray' = tray \cup {p}

\* The window is made once, and joins the tray.  A themed icon and a pixmap
\* are painted now, a file when it has been read.
sni_render_item(c) ==
    /\ addsniiconsystray(c.slot)
    /\ loads' = IF c.service \in LoadsIcon THEN loads \cup {Load(c.slot)} ELSE loads

Painted(c, item) ==
    [item EXCEPT !.icon = IF c.service \in LoadsIcon THEN {} ELSE {c.service}]

\* The reply of a GetAll.  One to a freed item is ignored; an error leaves
\* the item fetching.
sni_properties_received(c, ok) ==
    LET fetched == [heap[c.slot] EXCEPT !.fetched = TRUE, !.fetching = FALSE,
                       !.click = "none", !.menu = c.service \in HasMenu]
        click   == heap[c.slot].click
        wants   == click = "right" /\ fetched.menu /\ ~menu_pending
    IN
    /\ IF heap[c.slot].generation = c.generation /\ ok
       THEN /\ heap' = [heap EXCEPT ![c.slot] = Painted(c, fetched)]
            /\ sni_render_item(c)
            /\ IF wants
               THEN sni_show_menu(c.slot)
               ELSE UNCHANGED <<calls, menu_pending>>
       ELSE UNCHANGED <<heap, tray, loads, calls, menu_pending>>
    /\ UNCHANGED <<matched, items, menu, current>>

sni_icon_loaded_cb(l) ==
    /\ l \in loads /\ ~dispatching
    /\ loads' = loads \ {l}
    /\ heap' = IF SameItem(l) /\ l.slot \in tray
               THEN [heap EXCEPT ![l.slot].icon = {l.service}] ELSE heap
    /\ UNCHANGED <<busVars, calls, inbox, dispatching, connVars, items, tray, menuVars>>

-----------------------------------------------------------------------------
\* The connection.

handle_register_item(m) ==
    /\ sni_add_item(m.service)
    /\ UNCHANGED <<calls, matched, tray, loads, menuVars>>

\* The signal comes from a unique name: an item that was registered under a
\* well-known name is not found by it.
handle_item_signal(m) ==
    /\ IF find_item(m.service) # {} /\ m.service \notin ByName
       THEN \E p \in find_item(m.service) : sni_update_item(p)
       ELSE UNCHANGED <<heap, calls, matched>>
    /\ UNCHANGED <<items, tray, loads, menuVars>>

handle_name_owner_changed(m) ==
    /\ sni_remove_item(find_item(m.service))
    /\ UNCHANGED <<calls, matched, loads, menu>>

\* The dispatcher calls the handler of a method or a signal, a pending call
\* the function that was set for its reply.
Handle(m) ==
    CASE m.type = "Register" -> handle_register_item(m)
      [] m.type = "Changed"  -> handle_item_signal(m)
      [] m.type = "NameLost" -> handle_name_owner_changed(m)
      [] m.type = "Reply"    -> IF m.call.kind = "GetAll"
                                THEN sni_properties_received(m.call, m.ok)
                                ELSE sni_get_layout_notify(m.call, m.ok)

\* sni_handle_dbus() reads what has arrived and dispatches it, one message
\* after the other; a hang-up that the poll has seen comes first.
DispatchMessage ==
    /\ dbus_src /\ inbox # <<>> /\ (linked \/ dispatching)
    /\ dispatching' = TRUE
    /\ inbox' = Tail(inbox)
    /\ Handle(Head(inbox))
    /\ UNCHANGED <<bus, linked, name, app, events, connVars>>

Unfetched == Keep(items, {p \in Listed : ~heap[p].fetched /\ ~heap[p].fetching})

sni_handle_dbus_NoFetch ==
    /\ dispatching
    /\ dispatching' = FALSE
    /\ UNCHANGED <<busVars, calls, inbox, connVars, itemVars, menuVars>>

\* The end of sni_handle_dbus(): the items that need their properties.
sni_handle_dbus ==
    /\ dispatching
    /\ dispatching' = FALSE
    /\ heap' = [p \in Slot |-> IF p \in Members(Unfetched) THEN FetchingItem(heap[p])
                               ELSE heap[p]]
    /\ sni_fetch_item_properties(Unfetched)
    /\ UNCHANGED <<bus, linked, name, app, events, inbox, connVars, items, tray, loads, menuVars>>

\* A hang-up: the source is removed and the timer set; the watcher and its
\* items stay as they are until the timer fires.
dbus_dispatch_cb ==
    /\ dbus_src /\ ~linked /\ ~dispatching
    /\ dbus_src' = FALSE
    /\ dbus_retry' = TRUE
    /\ UNCHANGED <<busVars, calls, inbox, dispatching, watcher, dropped,
                   itemVars, menuVars>>

LayoutInFlight ==
    \/ \E c \in Members(calls) : c.kind = "GetLayout"
    \/ \E m \in Members(inbox) : m.type = "Reply" /\ m.call.kind = "GetLayout"

\* All items go, the menu is freed, and closing the connection drops the
\* calls in flight with no word to their callbacks.
sni_cleanup ==
    /\ sni_remove_item(Listed)
    /\ menu_free
    /\ calls' = <<>> /\ inbox' = <<>>
    /\ dropped' = (dropped \/ LayoutInFlight)
    /\ UNCHANGED loads

\* sni_init() connects, and takes the name unless another watcher has it.
CanConnect == bus /\ name # "other"

dbus_reconnect_cb_Once ==
    /\ dbus_retry /\ ~dispatching
    /\ sni_cleanup
    /\ watcher' = CanConnect
    /\ dbus_src' = CanConnect
    /\ dbus_retry' = FALSE
    /\ linked' = CanConnect
    /\ name' = IF CanConnect THEN "awm" ELSE name
    /\ UNCHANGED <<bus, app, matched, events, dispatching>>

\* The timer fires: after a failure it is set again.
dbus_reconnect_cb ==
    /\ dbus_retry /\ ~dispatching
    /\ sni_cleanup
    /\ watcher' = CanConnect
    /\ dbus_src' = CanConnect
    /\ dbus_retry' = ~CanConnect
    /\ linked' = CanConnect
    /\ name' = IF CanConnect THEN "awm" ELSE name
    /\ UNCHANGED <<bus, app, matched, events, dispatching>>

-----------------------------------------------------------------------------
\* sni_init() succeeded in setup().  When it fails there, awm has no status
\* notifier host for the rest of its life, and nothing below happens.
Init ==
    /\ bus = TRUE /\ linked = TRUE /\ name = "awm" /\ matched = {} /\ events = 0
    /\ app = [s \in Service |-> "new"]
    /\ calls = <<>> /\ inbox = <<>>
    /\ dbus_src = TRUE /\ dbus_retry = FALSE /\ dispatching = FALSE
    /\ watcher = TRUE /\ dropped = FALSE
    /\ items = <<>> /\ tray = {} /\ loads = {}
    /\ heap = [p \in Slot |-> FreedItem]
    /\ menu = [visible |-> FALSE, data |-> Null]
    /\ current = Null /\ menu_pending = FALSE

AnswerReliably ==
    \E i \in DOMAIN calls : calls[i].service \in Reliable /\ Answer(i, TRUE)

Next ==
    \/ \E s \in Service : Register(s) \/ Changed(s) \/ Exit(s)
    \/ \E i \in DOMAIN calls :
          \/ Answer(i, TRUE)
          \/ calls[i].service \notin Reliable /\ Answer(i, FALSE)
    \/ BusDies \/ BusStarts \/ OtherWatcher
    \/ \E p \in Slot : \E button \in {"left", "right"} : sni_handle_click(p, button)
    \/ MenuClosed
    \/ \E l \in loads : sni_icon_loaded_cb(l)
    \/ DispatchMessage
    \/ sni_handle_dbus
    \/ dbus_dispatch_cb
    \/ dbus_reconnect_cb

\* The main loop runs on, its timers fire, and the reliable applications
\* answer; nothing is assumed of the bus, the others and the user.
Fairness ==
    /\ WF_vars(DispatchMessage) /\ WF_vars(sni_handle_dbus)
    /\ WF_vars(dbus_dispatch_cb) /\ WF_vars(dbus_reconnect_cb)
    /\ WF_vars(AnswerReliably)

Spec == Init /\ [][Next]_vars /\ Fairness

-----------------------------------------------------------------------------
\* Properties.

\* The types; an item is on the list once, is live, and has a place on it.
TypeOK ==
    /\ bus \in BOOLEAN /\ (linked => bus) /\ name \in {"free", "awm", "other"}
    /\ app \in [Service -> {"new", "up", "gone"}] /\ matched \subseteq Service
    /\ calls \in Seq(Call) /\ inbox \in Seq(Message)
    /\ events \in 0 .. MaxEvents
    /\ {dbus_src, dbus_retry, dispatching, watcher, dropped, menu_pending} \subseteq BOOLEAN
    /\ items \in Seq(Slot) /\ Cardinality(Listed) = Len(items) /\ Len(items) <= MaxItems
    /\ heap \in [Slot -> Item]
    /\ \A p \in Slot : heap[p].generation = (IF p \in Listed THEN 0 ELSE 1)
    /\ menu \in [visible : BOOLEAN, data : Slot \cup {Null}]
    /\ current \in Slot \cup {Null}

\* The tray shows an icon for exactly the listed items whose properties came
\* in at least once: none of an application that is gone or of a watcher that
\* was closed, and no listed item has its window taken from under it.
TrayMatchesItems ==
    /\ tray \subseteq Listed
    /\ \A p \in Listed : heap[p].fetched => p \in tray
    /\ ~watcher => items = <<>>

\* The flag that makes awm ignore a right click is up only while a menu is up
\* or its layout is on the way: the next right click is never lost for good.
\* That is so until the connection is closed with a GetLayout in flight.
MenuFlagHonest == menu_pending => menu.visible \/ LayoutInFlight \/ dropped

\* If the bus stays up in the end and no other watcher holds the name, awm
\* has its connection and the name again, however often it lost them.
ConnectionComesBack ==
    <>[](bus /\ name # "other") => <>[](dbus_src /\ name = "awm")

\* An item of an application that answers gets its properties, and a click
\* that waits for them is served, unless the item goes first.
ItemsAreServed ==
    \A s \in Reliable :
        [](find_item(s) # {} =>
            <>(\A p \in find_item(s) : heap[p].fetched /\ heap[p].click = "none"))
=============================================================================

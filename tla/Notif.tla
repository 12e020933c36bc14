------------------------------- MODULE Notif -------------------------------
(***************************************************************************)
(* The notification daemon in awm-ui: the list of notifications, their     *)
(* popup windows, which are put off until the work area is known, the      *)
(* timers that close them, and the signals that tell why they went.  It    *)
(* models notif.c.  Each handler runs to its end before the next one, so   *)
(* what can go wrong is what handlers leave behind for each other.         *)
(***************************************************************************)
EXTENDS Naturals, Sequences, FiniteSets, Lists

CONSTANTS
    MaxVisible,  \* NOTIF_MAX_VISIBLE
    Heights,     \* heights that contents take at 96 DPI
    Dpis,        \* scales the theme may ask for: 1 is 96 DPI
    MaxId        \* notifications that a daemon shows (bound; the code counts
                 \* in 32 bits, and starts again at 1)

ASSUME SizesAssumption ==
    /\ MaxVisible \in Nat \ {0} /\ MaxId \in Nat \ {0}
    /\ Heights \subseteq Nat \ {0} /\ Dpis \subseteq Nat \ {0} /\ 1 \in Dpis

VARIABLES
    notif_seq,       \* the next number
    notif_list,      \* the notifications, the oldest first
    notif_geom_set,  \* the work area is known
    notif_dpi,
    timers,          \* numbers whose notif_expire_cb is a source of the main loop
    popups,          \* for each number with a window: where it was put
    signals          \* NotificationClosed, in the order they were sent

vars == <<notif_seq, notif_list, notif_geom_set, notif_dpi, timers, popups, signals>>

NotifItem ==
    [id : Nat, critical : BOOLEAN, content : Heights,
     h : Nat]      \* of the window, 0 before there is one

Reason == <<"expired", "dismissed", "closed">>    \* 1, 2 and 3 on the bus

NOTIF_GAP == 1
Ids(list) == {it.id : it \in Members(list)}
Shown(it) == it.h > 0

-----------------------------------------------------------------------------
\* Geometry.

\* The height depends on the scale of the moment the popup is made.
popup_height(it) == it.content * notif_dpi

\* The offset of a popup is the heights and gaps of all before it on the list.
popup_position(list, idx) ==
    LET offset[i \in 1 .. Len(list)] ==
            IF i = 1 THEN 0 ELSE offset[i - 1] + list[i - 1].h + NOTIF_GAP * notif_dpi
    IN  offset[idx]

IndexOf(list, n) == CHOOSE i \in DOMAIN list : list[i].id = n

\* Every window is moved to its place.
notif_restack(windows, list) ==
    [n \in DOMAIN windows |->
        IF n \in Ids(list) THEN popup_position(list, IndexOf(list, n)) ELSE windows[n]]

Without(windows, gone) == [n \in DOMAIN windows \ gone |-> windows[n]]

-----------------------------------------------------------------------------
\* The life of a popup.

Made(it) == [it EXCEPT !.h = popup_height(it)]

\* The window, and the timer of a notification that is not critical.  A time
\* of 0 or -1 stands for the default: there is always one.
notif_item_show(its) ==
    [windows |-> [n \in {it.id : it \in its} |-> 0],
     timers  |-> {it.id : it \in {x \in its : ~x.critical}}]

Remaining(gone) ==
    Keep(notif_list, {it \in Members(notif_list) : it.id \notin gone})

notif_item_close_Silent(n, reason) ==
    /\ notif_list' = Remaining({n})
    /\ timers' = timers \ {n}
    /\ popups' = notif_restack(Without(popups, {n}), Remaining({n}))
    /\ UNCHANGED <<notif_seq, notif_geom_set, notif_dpi, signals>>

notif_item_close_KeepsTimer(n, reason) ==
    /\ notif_list' = Remaining({n})
    /\ popups' = notif_restack(Without(popups, {n}), Remaining({n}))
    /\ signals' = Append(signals, [id |-> n, reason |-> Reason[reason]])
    /\ UNCHANGED <<notif_seq, notif_geom_set, notif_dpi, timers>>

\* The timer and the window go, then the signal is sent and the rest move up.
notif_item_close(n, reason) ==
    /\ notif_list' = Remaining({n})
    /\ timers' = timers \ {n}
    /\ popups' = notif_restack(Without(popups, {n}), Remaining({n}))
    /\ signals' = Append(signals, [id |-> n, reason |-> Reason[reason]])
    /\ UNCHANGED <<notif_seq, notif_geom_set, notif_dpi>>

\* The timer and the window belong to a notification that is on the list.
notif_expire_cb(n) == n \in timers /\ notif_item_close(n, 1)
on_popup_button_press(n) == n \in DOMAIN popups /\ notif_item_close(n, 2)

-----------------------------------------------------------------------------
\* Methods and messages.

\* The numbers that make room for another notification, the oldest first.
Dropped(old) ==
    LET list == Remaining({old}) IN
    IF Len(list) < MaxVisible THEN <<>>
    ELSE [i \in 1 .. Len(list) - MaxVisible + 1 |-> list[i].id]

\* Nothing is shown before the work area is known.
NewItem(critical, content) ==
    LET it == [id |-> notif_seq, critical |-> critical, content |-> content, h |-> 0]
    IN  IF notif_geom_set THEN Made(it) ELSE it

handle_notify_NoRestack(old, critical, content) ==
    LET dropped == Dropped(old)
        gone    == {old} \cup {dropped[i] : i \in DOMAIN dropped}
        it      == NewItem(critical, content)
        list    == Append(Remaining(gone), it)
        new     == notif_item_show({x \in {it} : Shown(x)})
    IN
    /\ notif_seq <= MaxId
    /\ notif_seq' = notif_seq + 1
    /\ notif_list' = list
    /\ timers' = (timers \ gone) \cup new.timers
    /\ popups' = [n \in (DOMAIN popups \ gone) \cup DOMAIN new.windows |->
                     IF n = it.id THEN 0 ELSE popups[n]]
    /\ signals' = signals \o [i \in DOMAIN dropped |->
                                 [id |-> dropped[i], reason |-> Reason[3]]]
    /\ UNCHANGED <<notif_geom_set, notif_dpi>>

\* Notify: the notification it replaces goes without a signal, the oldest give
\* way with one, and the new one gets a number of its own.
handle_notify(old, critical, content) ==
    LET dropped == Dropped(old)
        gone    == {old} \cup {dropped[i] : i \in DOMAIN dropped}
        it      == NewItem(critical, content)
        list    == Append(Remaining(gone), it)
        new     == notif_item_show({x \in {it} : Shown(x)})
    IN
    /\ notif_seq <= MaxId
    /\ notif_seq' = notif_seq + 1
    /\ notif_list' = list
    /\ timers' = (timers \ gone) \cup new.timers
    /\ popups' = notif_restack([n \in (DOMAIN popups \ gone) \cup DOMAIN new.windows |->
                                   IF n = it.id THEN 0 ELSE popups[n]], list)
    /\ signals' = signals \o [i \in DOMAIN dropped |->
                                 [id |-> dropped[i], reason |-> Reason[3]]]
    /\ UNCHANGED <<notif_geom_set, notif_dpi>>

\* CloseNotification: a number that is not on display is accepted in silence.
handle_close_notification(n) == n \in Ids(notif_list) /\ notif_item_close(n, 3)

notif_update_geom_ShowsNone ==
    /\ notif_geom_set' = TRUE
    /\ popups' = notif_restack(popups, notif_list)
    /\ UNCHANGED <<notif_seq, notif_list, notif_dpi, timers, signals>>

\* MONITOR_GEOM: what came before the first one is shown now, all is moved.
notif_update_geom ==
    LET list == [i \in DOMAIN notif_list |->
                    IF Shown(notif_list[i]) THEN notif_list[i] ELSE Made(notif_list[i])]
        late == {list[i] : i \in {j \in DOMAIN list : ~Shown(notif_list[j])}}
        new  == notif_item_show(late)
    IN
    /\ notif_geom_set' = TRUE
    /\ notif_list' = list
    /\ timers' = timers \cup new.timers
    /\ popups' = notif_restack([n \in DOMAIN popups \cup DOMAIN new.windows |->
                                   IF n \in DOMAIN popups THEN popups[n] ELSE 0], list)
    /\ UNCHANGED <<notif_seq, notif_dpi, signals>>

\* THEME: popups are drawn again, and keep their places and heights.
notif_update_theme(dpi) ==
    /\ notif_dpi' = dpi
    /\ UNCHANGED <<notif_seq, notif_list, notif_geom_set, timers, popups, signals>>

\* The helper ends, by notif_cleanup() or without it, and awm starts another.
Restart ==
    /\ notif_seq' = 1 /\ notif_list' = <<>>
    /\ notif_geom_set' = FALSE /\ notif_dpi' = 1
    /\ timers' = {} /\ popups' = <<>> /\ signals' = <<>>

-----------------------------------------------------------------------------
\* notif_init() has the bus; without it the helper shows no notifications.
Init ==
    /\ notif_seq = 1 /\ notif_list = <<>>
    /\ notif_geom_set = FALSE /\ notif_dpi = 1
    /\ timers = {} /\ popups = <<>> /\ signals = <<>>

\* A program may name any notification, also one that is gone.
Next ==
    \/ \E old \in 0 .. MaxId, critical \in BOOLEAN, content \in Heights :
          handle_notify(old, critical, content)
    \/ \E n \in 1 .. MaxId :
          \/ handle_close_notification(n)
          \/ on_popup_button_press(n)
          \/ notif_expire_cb(n)
    \/ notif_update_geom
    \/ \E dpi \in Dpis : notif_update_theme(dpi)
    \/ Restart

\* Timers fire, and awm sends a helper the work area as its first message.
Fairness ==
    /\ \A n \in 1 .. MaxId : WF_vars(notif_expire_cb(n))
    /\ WF_vars(notif_update_geom)

Spec == Init /\ [][Next]_vars /\ Fairness

-----------------------------------------------------------------------------
\* Properties.

Items == Members(notif_list)

\* The types; and what the main loop and GTK hold of a notification goes with
\* it: every timer and every window is of one that is on the list, so that no
\* callback runs on one that was freed, and one that is not critical has its
\* timer as soon as it has its window.
TypeOK ==
    /\ notif_seq \in 1 .. MaxId + 1
    /\ notif_geom_set \in BOOLEAN /\ notif_dpi \in Dpis
    /\ Items \subseteq NotifItem /\ Cardinality(Items) = Len(notif_list)
    /\ \A i, j \in DOMAIN notif_list : i < j => notif_list[i].id < notif_list[j].id
    /\ DOMAIN popups = {it.id : it \in {x \in Items : Shown(x)}}
    /\ timers = {it.id : it \in {x \in Items : Shown(x) /\ ~x.critical}}

\* "each popup stacks inward from the anchor corner": no popup covers another,
\* whatever was closed, replaced, put off or rescaled in between.
NoOverlap ==
    \A i, j \in DOMAIN notif_list :
        i < j /\ Shown(notif_list[i]) /\ Shown(notif_list[j]) =>
            popups[notif_list[i].id] + notif_list[i].h < popups[notif_list[j].id]

\* The status that programs can tell from the answers and signals they got.
SignalsOf(n) == {i \in DOMAIN signals : signals[i].id = n}
status ==
    [n \in 1 .. MaxId |->
        IF n >= notif_seq THEN "unused"
        ELSE IF n \in Ids(notif_list) /\ SignalsOf(n) = {} THEN "open"
        ELSE IF n \in Ids(notif_list) THEN "closed though open"
        ELSE IF SignalsOf(n) = {} THEN "replaced"
        ELSE IF Cardinality(SignalsOf(n)) = 1
             THEN signals[CHOOSE i \in SignalsOf(n) : TRUE].reason
        ELSE "closed twice"]

Service == INSTANCE NotifService WITH Max <- MaxVisible

\* The daemon does what NotifService promises: a notification leaves once, and
\* its program hears of it once and with the reason, unless it replaced it.
ImplementsService == Service!Spec

\* A notification that is not critical leaves the display, although its popup
\* and with it its timer may have been put off.
PopupsExpire ==
    \A n \in 1 .. MaxId :
        (\E it \in Items : it.id = n /\ ~it.critical) ~> n \notin Ids(notif_list)
=============================================================================

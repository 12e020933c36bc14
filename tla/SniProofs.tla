------------------------------ MODULE SniProofs ------------------------------
(***************************************************************************)
(* Theorems about Sni, for every set of applications, every number of      *)
(* items and every order of messages: its types, that the tray shows the   *)
(* listed items, and that a right click is not lost for good.              *)
(***************************************************************************)
EXTENDS Sni, ListProofs

\* Calls are made for items on the list, whose generation is 0: the test of
\* the callbacks compares with 0, whatever was in the slot meanwhile.
LiveCall == {c \in Call : c.generation = 0}
LiveMessage == {m \in Message : m.type = "Reply" => m.call \in LiveCall}
LoadRequest == [slot : Slot, service : Service, generation : 0 .. 1]

EnvironmentOK ==
    /\ bus \in BOOLEAN /\ linked \in BOOLEAN /\ (linked => bus)
    /\ name \in {"free", "awm", "other"}
    /\ app \in [Service -> {"new", "up", "gone"}] /\ matched \subseteq Service
    /\ events \in 0 .. MaxEvents

QueuesOK == calls \in Seq(LiveCall) /\ inbox \in Seq(LiveMessage)

\* The connection is only polled while there is a watcher.
ConnectionOK ==
    /\ dbus_src \in BOOLEAN /\ dbus_retry \in BOOLEAN /\ dispatching \in BOOLEAN
    /\ watcher \in BOOLEAN /\ dropped \in BOOLEAN
    /\ dbus_src => watcher

ItemsOK ==
    /\ items \in Seq(Slot) /\ Distinct(items) /\ Len(items) <= MaxItems
    /\ heap \in [Slot -> Item]
    /\ \A p \in Slot : heap[p].generation = (IF p \in Listed THEN 0 ELSE 1)
    /\ \A p \in Listed : heap[p].service \in Service
    /\ loads \subseteq LoadRequest

\* While the flag is up and no layout is on the way, the menu that is up is of
\* an item that is still on the list: closing it, or losing the item, lowers
\* the flag.
MenuOK ==
    /\ menu \in [visible : BOOLEAN, data : Slot \cup {Null}]
    /\ current \in Slot \cup {Null} /\ menu_pending \in BOOLEAN
    /\ menu_pending => LayoutInFlight \/ dropped \/ (menu.visible /\ current \in Listed)

IInv == EnvironmentOK /\ QueuesOK /\ ConnectionOK /\ ItemsOK /\ TrayMatchesItems /\ MenuOK

-----------------------------------------------------------------------------
(***************************************************************************)
(* Messages and items.                                                     *)
(***************************************************************************)

\* What each type of message carries; replies are to calls for items that live.
LEMMA MessageFacts ==
    ASSUME NEW m \in LiveMessage
    PROVE  /\ m.type \in {"Register", "Changed", "NameLost", "Reply"}
           /\ m.type # "Reply" => m.service \in Service
           /\ m.type = "Reply" => /\ m.call \in LiveCall /\ m.ok \in BOOLEAN
                                  /\ m.call.kind \in {"GetAll", "GetLayout"}
                                  /\ m.call.slot \in Slot /\ m.call.service \in Service
                                  /\ m.call.generation = 0
  BY DEF LiveMessage, LiveCall, Message, Call

\* The listed items are slots of memory.
LEMMA ListedFacts ==
    ASSUME ItemsOK
    PROVE  Listed \subseteq Slot /\ Null \notin Listed
  BY MembersFacts, SlotAssumption DEF ItemsOK, Listed

\* A reply to each of the calls.
LEMMA ErrorFacts ==
    ASSUME NEW cs \in Seq(LiveCall)
    PROVE  /\ ErrorReplies(cs) \in Seq(LiveMessage)
           /\ \A c \in Members(cs) : \E m \in Members(ErrorReplies(cs)) :
                 m.type = "Reply" /\ m.call = c
  <1> DEFINE reply(c) == [type |-> "Reply", call |-> c, ok |-> FALSE]
             r == ErrorReplies(cs)
  <1>1. \A c \in LiveCall : reply(c) \in LiveMessage /\ reply(c).type = "Reply" /\ reply(c).call = c
    BY DEF LiveMessage, LiveCall, Message
  <1>2. /\ DOMAIN cs = 1 .. Len(cs) /\ Len(cs) \in Nat
        /\ \A i \in 1 .. Len(cs) : cs[i] \in LiveCall
    OBVIOUS
  <1>3. r = [i \in 1 .. Len(cs) |-> reply(cs[i])]
    BY <1>2 DEF ErrorReplies
  <1> HIDE DEF r, reply
  <1>4. r \in Seq(LiveMessage)
    BY <1>1, <1>2, <1>3
  <1>5. Members(r) = {reply(cs[i]) : i \in 1 .. Len(cs)}
    BY <1>3 DEF Members
  <1>6. Members(cs) = {cs[i] : i \in 1 .. Len(cs)}
    BY <1>2 DEF Members
  <1>7. \A c \in Members(cs) : \E m \in Members(r) : m.type = "Reply" /\ m.call = c
    BY <1>1, <1>2, <1>5, <1>6
  <1> QED BY <1>4, <1>7 DEF r

\* The calls awm makes for an item on the list.
LEMMA CallFacts ==
    ASSUME ItemsOK, NEW p \in Listed
    PROVE  GetAll(p) \in LiveCall /\ GetLayout(p) \in LiveCall /\ GetLayout(p).kind = "GetLayout"
  <1>1. p \in Slot /\ heap[p].service \in Service /\ heap[p].generation = 0
    BY ListedFacts DEF ItemsOK
  <1> QED BY <1>1 DEF GetAll, GetLayout, LiveCall, Call

\* Asking for the properties of an item leaves it unfetched, and the same item.
LEMMA ItemFacts ==
    ASSUME NEW item \in Item, linked \in BOOLEAN
    PROVE  /\ FetchingItem(item) \in Item /\ ~FetchingItem(item).fetched
           /\ FetchingItem(item).service = item.service
           /\ FetchingItem(item).generation = item.generation
  BY DEF FetchingItem, Item

\* A new item has generation 0 and a freed one 1.
LEMMA NewItemFacts ==
    /\ \A s \in Service : /\ NewItem(s) \in Item /\ ~NewItem(s).fetched
                          /\ NewItem(s).service = s /\ NewItem(s).generation = 0
    /\ FreedItem \in Item /\ FreedItem.generation = 1
  <1>1. ASSUME NEW s \in Service \cup {Null}
        PROVE  /\ NewItem(s) \in Item /\ ~NewItem(s).fetched
               /\ NewItem(s).service = s /\ NewItem(s).generation = 0
    BY DEF NewItem, Item
  <1>2. FreedItem \in Item /\ FreedItem.generation = 1
    <2> DEFINE n == NewItem(Null)
    <2>1. n \in Item /\ FreedItem = [n EXCEPT !.generation = 1]
      BY <1>1 DEF FreedItem
    <2> HIDE DEF n
    <2> QED BY <2>1 DEF Item
  <1> QED BY <1>1, <1>2

\* Items that are fetched are asked for, and their senders listened to.
LEMMA FetchFacts ==
    ASSUME ItemsOK, calls \in Seq(LiveCall), matched \subseteq Service,
           NEW ps \in Seq(Listed), sni_fetch_item_properties(ps)
    PROVE  /\ calls' \in Seq(LiveCall) /\ Members(calls) \subseteq Members(calls')
           /\ matched' \subseteq Service
  <1> DEFINE r == [i \in DOMAIN ps |-> GetAll(ps[i])]
  <1>1. r \in Seq(LiveCall)
    <2>1. DOMAIN ps = 1 .. Len(ps) /\ Len(ps) \in Nat /\ \A i \in 1 .. Len(ps) : ps[i] \in Listed
      OBVIOUS
    <2>2. \A i \in 1 .. Len(ps) : GetAll(ps[i]) \in LiveCall
      BY <2>1, CallFacts
    <2> QED BY <2>1, <2>2
  <1>2. Members(ps) \subseteq Listed
    BY MembersFacts
  <1>3. {heap[p].service : p \in Members(ps)} \subseteq Service
    BY <1>2 DEF ItemsOK
  <1>4. /\ calls' = IF linked THEN calls \o r ELSE calls
        /\ matched' = IF linked THEN matched \cup {heap[p].service : p \in Members(ps)}
                      ELSE matched
    BY DEF sni_fetch_item_properties
  <1> HIDE DEF r
  <1>5. calls \o r \in Seq(LiveCall) /\ Members(calls \o r) = Members(calls) \cup Members(r)
    BY <1>1, MembersConcat, ConcatProperties
  <1> QED BY <1>3, <1>4, <1>5

\* Asking for a menu raises the flag with a layout on the way, or lowers it.
LEMMA ShowMenuFacts ==
    ASSUME ItemsOK, calls \in Seq(LiveCall), linked \in BOOLEAN, NEW p \in Listed,
           sni_show_menu(p)
    PROVE  /\ calls' \in Seq(LiveCall) /\ menu_pending' \in BOOLEAN
           /\ menu_pending' => LayoutInFlight'
  <1> DEFINE c == GetLayout(p)
  <1>1. c \in LiveCall /\ c.kind = "GetLayout"
    BY CallFacts
  <1>2. calls' = (IF linked THEN Append(calls, c) ELSE calls) /\ menu_pending' = linked
    BY DEF sni_show_menu
  <1> HIDE DEF c
  <1>3. Append(calls, c) \in Seq(LiveCall) /\ Members(Append(calls, c)) = Members(calls) \cup {c}
    BY <1>1, MembersAppend, AppendProperties
  <1> QED BY <1>1, <1>2, <1>3 DEF LayoutInFlight

-----------------------------------------------------------------------------
(***************************************************************************)
(* The environment.                                                        *)
(***************************************************************************)

\* What arrives or is answered leaves awm as it is.
LEMMA EnvironmentStep ==
    ASSUME IInv, EnvironmentOK', QueuesOK', LayoutInFlight => LayoutInFlight',
           UNCHANGED <<dispatching, connVars, itemVars, menuVars>>
    PROVE  IInv'
  <1>1. UNCHANGED <<dispatching, dbus_src, dbus_retry, watcher, dropped, items, heap, tray, loads,
                    menu, current, menu_pending>>
    BY DEF connVars, itemVars, menuVars
  <1>2. ConnectionOK' /\ ItemsOK' /\ TrayMatchesItems'
    BY <1>1 DEF IInv, ConnectionOK, ItemsOK, TrayMatchesItems, Listed
  <1>3. MenuOK'
    BY <1>1 DEF IInv, MenuOK, Listed
  <1> QED BY <1>2, <1>3 DEF IInv

\* A message that is not about a call.
LEMMA DeliverFacts ==
    ASSUME QueuesOK, NEW m \in LiveMessage, Deliver(m)
    PROVE  inbox' \in Seq(LiveMessage) /\ Members(inbox') = Members(inbox) \cup {m}
  BY MembersAppend, AppendProperties DEF QueuesOK, Deliver

\* The acts of applications, bus and user stay within their bound.
LEMMA ActFacts ==
    ASSUME EnvironmentOK, Act
    PROVE  events' \in 0 .. MaxEvents
  BY BoundAssumption DEF EnvironmentOK, Act

\* A registration or a change keeps the invariant: it only adds a message.
LEMMA SignalStep ==
    ASSUME IInv, NEW s \in Service, Register(s) \/ Changed(s)
    PROVE  IInv'
  <1>1. EnvironmentOK /\ QueuesOK /\ events' \in 0 .. MaxEvents
    BY ActFacts DEF IInv, Register, Changed
  <1>2. PICK m \in [type : {"Register", "Changed"}, service : Service] : Deliver(m)
    BY DEF Register, Changed
  <1>3. m \in LiveMessage
    BY DEF LiveMessage, Message
  <1>4. UNCHANGED <<bus, linked, name, matched, calls, dispatching, connVars, itemVars, menuVars>>
    BY DEF Register, Changed
  <1>5. app' \in [Service -> {"new", "up", "gone"}]
    BY <1>1 DEF EnvironmentOK, Register, Changed
  <1>6. inbox' \in Seq(LiveMessage) /\ Members(inbox') = Members(inbox) \cup {m}
    BY <1>1, <1>2, <1>3, DeliverFacts
  <1>7. EnvironmentOK'
    BY <1>1, <1>4, <1>5 DEF EnvironmentOK
  <1>8. QueuesOK' /\ (LayoutInFlight => LayoutInFlight')
    BY <1>1, <1>4, <1>6 DEF QueuesOK, LayoutInFlight
  <1> QED BY <1>4, <1>7, <1>8, EnvironmentStep

\* Calls that are answered with errors stay in flight, as their replies.
LEMMA ErrorsInFlight ==
    ASSUME QueuesOK, NEW cs \in Seq(LiveCall), NEW first \in Seq(LiveMessage),
           inbox' = inbox \o first \o ErrorReplies(cs),
           calls' \in Seq(LiveCall),
           Members(calls) \subseteq Members(calls') \cup Members(cs)
    PROVE  QueuesOK' /\ (LayoutInFlight => LayoutInFlight')
  <1> DEFINE r == ErrorReplies(cs)
             more == inbox \o first
  <1>1. r \in Seq(LiveMessage) /\ inbox \in Seq(LiveMessage)
    BY ErrorFacts DEF QueuesOK
  <1>2. \A c \in Members(cs) : \E m \in Members(r) : m.type = "Reply" /\ m.call = c
    BY ErrorFacts
  <1>3. more \in Seq(LiveMessage) /\ Members(more) = Members(inbox) \cup Members(first)
    BY <1>1, MembersConcat, ConcatProperties
  <1>4. inbox' = more \o r
    OBVIOUS
  <1> HIDE DEF r, more
  <1>5. inbox' \in Seq(LiveMessage) /\ Members(inbox') = Members(more) \cup Members(r)
    BY <1>1, <1>3, <1>4, MembersConcat, ConcatProperties
  <1>6. ASSUME LayoutInFlight PROVE LayoutInFlight'
    <2>1. CASE \E m \in Members(inbox) : m.type = "Reply" /\ m.call.kind = "GetLayout"
      BY <1>3, <1>5, <2>1 DEF LayoutInFlight
    <2>2. ASSUME NEW c \in Members(calls), c.kind = "GetLayout" PROVE LayoutInFlight'
      <3>1. CASE c \in Members(calls')
        BY <2>2, <3>1 DEF LayoutInFlight
      <3>2. CASE c \in Members(cs)
        BY <1>2, <1>5, <2>2, <3>2 DEF LayoutInFlight
      <3> QED BY <3>1, <3>2
    <2> QED BY <1>6, <2>1, <2>2 DEF LayoutInFlight
  <1> QED BY <1>5, <1>6 DEF QueuesOK

\* So does an application that exits: what it did not answer is answered by errors.
LEMMA ExitStep ==
    ASSUME IInv, NEW s \in Service, Exit(s)
    PROVE  IInv'
  <1> DEFINE lost == Keep(calls, CallsTo(s))
             kept == Keep(calls, Members(calls) \ CallsTo(s))
             first == <<[type |-> "NameLost", service |-> s]>>
  <1>1. EnvironmentOK /\ QueuesOK /\ events' \in 0 .. MaxEvents
    BY ActFacts DEF IInv, Exit
  <1>2. /\ inbox' = inbox \o first \o ErrorReplies(lost) /\ calls' = kept
        /\ UNCHANGED <<bus, linked, name, matched, dispatching, connVars, itemVars, menuVars>>
    BY DEF Exit
  <1>3. calls \in Seq(LiveCall)
    BY <1>1 DEF QueuesOK
  <1>4. /\ lost \in Seq(LiveCall) /\ kept \in Seq(LiveCall)
        /\ Members(lost) = Members(calls) \cap CallsTo(s)
        /\ Members(kept) = Members(calls) \cap (Members(calls) \ CallsTo(s))
    BY <1>3, KeepFacts
  <1>5. first \in Seq(LiveMessage)
    BY DEF LiveMessage, Message
  <1> HIDE DEF lost, kept, first
  <1>6. QueuesOK' /\ (LayoutInFlight => LayoutInFlight')
    <2>1. calls' \in Seq(LiveCall) /\ Members(calls) \subseteq Members(calls') \cup Members(lost)
      BY <1>2, <1>4
    <2> QED BY <1>1, <1>2, <1>4, <1>5, <2>1, ErrorsInFlight
  <1>7. EnvironmentOK'
    BY <1>1, <1>2 DEF Exit, EnvironmentOK
  <1> QED BY <1>2, <1>6, <1>7, EnvironmentStep

\* An answer takes the place of its call.
LEMMA AnswerStep ==
    ASSUME IInv, NEW i \in DOMAIN calls, NEW ok \in BOOLEAN, Answer(i, ok)
    PROVE  IInv'
  <1> DEFINE m == [type |-> "Reply", call |-> calls[i], ok |-> ok]
  <1>1. EnvironmentOK /\ QueuesOK /\ calls \in Seq(LiveCall) /\ i \in 1 .. Len(calls)
    BY DEF IInv, QueuesOK
  <1>2. /\ Deliver(m) /\ calls' = Without(calls, i)
        /\ UNCHANGED <<busVars, dispatching, connVars, itemVars, menuVars>>
    BY DEF Answer
  <1>3. /\ calls' \in Seq(LiveCall) /\ calls[i] \in LiveCall
        /\ Members(calls) = Members(calls') \cup {calls[i]}
    BY <1>1, <1>2, MembersCut DEF Without
  <1>4. m \in LiveMessage /\ m.type = "Reply" /\ m.call = calls[i]
    BY <1>3 DEF LiveMessage, LiveCall, Message
  <1> HIDE DEF m
  <1>5. inbox' \in Seq(LiveMessage) /\ Members(inbox') = Members(inbox) \cup {m}
    BY <1>1, <1>2, <1>4, DeliverFacts
  <1>6. QueuesOK' /\ (LayoutInFlight => LayoutInFlight')
    BY <1>3, <1>4, <1>5 DEF QueuesOK, LayoutInFlight
  <1>7. EnvironmentOK'
    BY <1>1, <1>2 DEF EnvironmentOK, busVars
  <1> QED BY <1>2, <1>6, <1>7, EnvironmentStep

\* So does a bus that dies or starts, and another watcher.
LEMMA BusStep ==
    ASSUME IInv, BusDies \/ BusStarts \/ OtherWatcher
    PROVE  IInv'
  <1>1. EnvironmentOK /\ QueuesOK /\ (Act => events' \in 0 .. MaxEvents)
    BY ActFacts DEF IInv
  <1>2. CASE BusDies
    <2>1. /\ inbox' = inbox \o ErrorReplies(calls) /\ calls' = <<>> /\ calls \in Seq(LiveCall)
          /\ UNCHANGED <<dispatching, connVars, itemVars, menuVars>>
      BY <1>1, <1>2 DEF BusDies, QueuesOK
    <2>2. inbox \o <<>> = inbox /\ <<>> \in Seq(LiveMessage) /\ <<>> \in Seq(LiveCall)
      BY <1>1, ConcatEmptySeq DEF QueuesOK
    <2>3. /\ inbox' = inbox \o <<>> \o ErrorReplies(calls) /\ calls' \in Seq(LiveCall)
          /\ Members(calls) \subseteq Members(calls') \cup Members(calls)
      BY <2>1, <2>2
    <2>4. QueuesOK' /\ (LayoutInFlight => LayoutInFlight')
      BY <1>1, <2>1, <2>2, <2>3, ErrorsInFlight
    <2>5. EnvironmentOK'
      BY <1>1, <1>2 DEF BusDies, EnvironmentOK
    <2> QED BY <2>1, <2>4, <2>5, EnvironmentStep
  <1>3. CASE BusStarts \/ OtherWatcher
    <2>1. /\ UNCHANGED <<linked, app, matched, calls, inbox, dispatching, connVars, itemVars,
                         menuVars>>
          /\ bus' \in BOOLEAN /\ (bus => bus') /\ name' \in {"free", "awm", "other"}
          /\ Act \/ events' = events
      BY <1>1, <1>3 DEF BusStarts, OtherWatcher, EnvironmentOK
    <2>3. EnvironmentOK'
      BY <1>1, <2>1 DEF EnvironmentOK
    <2>2. QueuesOK' /\ (LayoutInFlight => LayoutInFlight')
      BY <1>1, <2>1 DEF QueuesOK, LayoutInFlight
    <2> QED BY <2>1, <2>2, <2>3, EnvironmentStep
  <1> QED BY <1>2, <1>3

-----------------------------------------------------------------------------
(***************************************************************************)
(* The list of items.                                                      *)
(***************************************************************************)

\* Items that stay what they are, in the slots where they are.
LEMMA HeapFacts ==
    ASSUME ItemsOK, items' = items, loads' \subseteq LoadRequest, heap' \in [Slot -> Item],
           \A p \in Slot : /\ heap'[p].service = heap[p].service
                           /\ heap'[p].generation = heap[p].generation
    PROVE  ItemsOK' /\ Listed' = Listed
  <1>1. Listed' = Listed
    BY DEF Listed
  <1>2. Listed \subseteq Slot
    BY ListedFacts
  <1> QED BY <1>1, <1>2 DEF ItemsOK, LoadRequest

\* A change to one item leaves the list and the other items as they are.
LEMMA OneItemFacts ==
    ASSUME ItemsOK, items' = items, loads' \subseteq LoadRequest,
           NEW p \in Slot, NEW item \in Item, heap' = [heap EXCEPT ![p] = item],
           item.service = heap[p].service, item.generation = heap[p].generation
    PROVE  /\ ItemsOK' /\ Listed' = Listed
           /\ heap'[p] = item /\ \A q \in Slot \ {p} : heap'[q] = heap[q]
  <1>1. /\ heap \in [Slot -> Item] /\ heap' \in [Slot -> Item]
        /\ heap'[p] = item /\ \A q \in Slot \ {p} : heap'[q] = heap[q]
    BY DEF ItemsOK
  <1>2. \A q \in Slot : /\ heap'[q].service = heap[q].service
                        /\ heap'[q].generation = heap[q].generation
    BY <1>1
  <1> QED BY <1>1, <1>2, HeapFacts

\* A slot that is given to an item was free.
LEMMA AddFacts ==
    ASSUME ItemsOK, TrayMatchesItems, watcher, NEW s \in Service, sni_add_item(s),
           UNCHANGED <<tray, loads, watcher>>
    PROVE  ItemsOK' /\ TrayMatchesItems' /\ Listed \subseteq Listed'
  <1>1. CASE UNCHANGED <<items, heap>>
    BY <1>1 DEF ItemsOK, TrayMatchesItems, Listed
  <1>2. ASSUME NEW p \in Slot \ Listed, Len(items) < MaxItems, items' = <<p>> \o items,
               heap' = [heap EXCEPT ![p] = NewItem(s)]
        PROVE  ItemsOK' /\ TrayMatchesItems' /\ Listed \subseteq Listed'
    <2>1. /\ items \in Seq(Slot) /\ Distinct(items) /\ Len(items) \in Nat /\ Len(items) <= MaxItems
          /\ heap \in [Slot -> Item] /\ Listed \subseteq Slot /\ loads' = loads
          /\ \A q \in Slot : heap[q].generation = (IF q \in Listed THEN 0 ELSE 1)
          /\ \A q \in Listed : heap[q].service \in Service
      BY ListedFacts DEF ItemsOK
    <2>2. /\ items' \in Seq(Slot) /\ Len(items') = Len(items) + 1 /\ Listed' = Listed \cup {p}
          /\ Distinct(items')
      BY <1>2, <2>1, DistinctPush DEF Listed
    <2>3. Len(items') <= MaxItems
      <3>1. \A n \in Nat : n < MaxItems => n + 1 <= MaxItems
        BY SlotAssumption
      <3> QED BY <1>2, <2>1, <2>2, <3>1
    <2> DEFINE item == NewItem(s)
    <2>4. item \in Item /\ ~item.fetched /\ item.service = s /\ item.generation = 0
      BY NewItemFacts
    <2>5. heap' = [heap EXCEPT ![p] = item]
      BY <1>2
    <2> HIDE DEF item
    <2>6. /\ heap' \in [Slot -> Item] /\ heap'[p] = item
          /\ \A q \in Slot \ {p} : heap'[q] = heap[q]
      BY <2>1, <2>4, <2>5
    <2>7. ItemsOK'
      <3>1. \A q \in Slot : heap'[q].generation = (IF q \in Listed' THEN 0 ELSE 1)
        BY <2>1, <2>2, <2>4, <2>6
      <3>2. \A q \in Listed' : heap'[q].service \in Service
        BY <2>1, <2>2, <2>4, <2>6
      <3> QED BY <2>1, <2>2, <2>3, <2>6, <3>1, <3>2 DEF ItemsOK
    <2>8. TrayMatchesItems'
      BY <2>1, <2>2, <2>4, <2>6 DEF TrayMatchesItems
    <2> QED BY <2>2, <2>7, <2>8
  <1>3. ~(Len(items) >= MaxItems) => Len(items) < MaxItems
    <2>1. Len(items) \in Nat /\ MaxItems \in Nat
      BY SlotAssumption DEF ItemsOK
    <2> QED BY <2>1
  <1>4. \/ UNCHANGED <<items, heap>>
        \/ /\ Len(items) < MaxItems
           /\ \E p \in Slot \ Listed : /\ items' = <<p>> \o items
                                       /\ heap' = [heap EXCEPT ![p] = NewItem(s)]
    BY <1>3 DEF sni_add_item
  <1> QED BY <1>1, <1>2, <1>4

\* Items that go take their icons with them, and the flag if the menu is theirs.
LEMMA RemoveFacts ==
    ASSUME ItemsOK, TrayMatchesItems, current \in Slot \cup {Null}, menu_pending \in BOOLEAN,
           NEW gone \in SUBSET Listed, sni_remove_item(gone), loads' = loads
    PROVE  /\ ItemsOK' /\ Listed' = Listed \ gone /\ tray' \subseteq Listed'
           /\ \A p \in Listed' : heap'[p].fetched => p \in tray'
           /\ items = <<>> => items' = <<>>
           /\ current' \in Slot \cup {Null} /\ menu_pending' \in BOOLEAN
           /\ menu_pending' => menu_pending /\ current' = current /\ current \notin gone
  <1> DEFINE r == Keep(items, Listed \ gone)
  <1>1. /\ items \in Seq(Slot) /\ Distinct(items) /\ Len(items) \in Nat /\ Len(items) <= MaxItems
        /\ heap \in [Slot -> Item] /\ Listed \subseteq Slot
        /\ \A q \in Slot : heap[q].generation = (IF q \in Listed THEN 0 ELSE 1)
        /\ \A q \in Listed : heap[q].service \in Service
    BY ListedFacts DEF ItemsOK
  <1>2. /\ items' = r /\ tray' = tray \ gone
        /\ heap' = [p \in Slot |-> IF p \in gone THEN FreedItem ELSE heap[p]]
        /\ current' = IF current \in gone THEN Null ELSE current
        /\ menu_pending' = (menu_pending /\ current \notin gone)
    BY DEF sni_remove_item, removesniiconsystray
  <1>3. /\ r \in Seq(Slot) /\ Members(r) = Listed \cap (Listed \ gone) /\ Len(r) <= Len(items)
        /\ Distinct(r)
    BY <1>1, KeepFacts, DistinctKeep DEF Listed
  <1> HIDE DEF r
  <1>4. Listed' = Listed \ gone
    BY <1>2, <1>3 DEF Listed
  <1>5. Len(items') <= MaxItems
    <2>1. \A k, n \in Nat : k <= n /\ n <= MaxItems => k <= MaxItems
      BY SlotAssumption
    <2> QED BY <1>1, <1>2, <1>3, <2>1
  <1>6. /\ heap' \in [Slot -> Item]
        /\ \A p \in gone : heap'[p] = FreedItem /\ \A q \in Slot \ gone : heap'[q] = heap[q]
    <2>1. FreedItem \in Item
      BY NewItemFacts
    <2> QED BY <1>1, <1>2, <2>1
  <1>7. ItemsOK'
    <2>1. \A q \in Slot : heap'[q].generation = (IF q \in Listed' THEN 0 ELSE 1)
      <3>1. FreedItem.generation = 1
        BY NewItemFacts
      <3>2. \A q \in Slot : heap'[q] = IF q \in gone THEN FreedItem ELSE heap[q]
        BY <1>2
      <3> QED BY <1>1, <1>4, <3>1, <3>2
    <2>2. \A q \in Listed' : heap'[q].service \in Service
      BY <1>1, <1>2, <1>4
    <2> QED BY <1>2, <1>3, <1>5, <1>6, <2>1, <2>2 DEF ItemsOK
  <1>8. tray' \subseteq Listed' /\ \A p \in Listed' : heap'[p].fetched => p \in tray'
    BY <1>1, <1>2, <1>4 DEF TrayMatchesItems
  <1>9. items = <<>> => items' = <<>>
    BY <1>2, <1>3, MembersFacts DEF Listed
  <1> QED BY <1>2, <1>4, <1>7, <1>8, <1>9

-----------------------------------------------------------------------------
(***************************************************************************)
(* Clicks, menus and icons.                                                *)
(***************************************************************************)

\* What is left of the invariant when only calls, items and the flag change.
LEMMA ItemsStep ==
    ASSUME IInv, EnvironmentOK', calls' \in Seq(LiveCall), ItemsOK', TrayMatchesItems',
           UNCHANGED <<inbox, connVars, menu, current>>,
           dispatching' \in BOOLEAN, menu_pending' \in BOOLEAN, Listed \subseteq Listed',
           \/ Members(calls) \subseteq Members(calls') /\ (menu_pending' => menu_pending)
           \/ menu_pending' => LayoutInFlight'
    PROVE  IInv'
  <1>1. UNCHANGED <<inbox, dbus_src, dbus_retry, watcher, dropped, menu, current>>
    BY DEF connVars
  <1>2. QueuesOK' /\ ConnectionOK'
    BY <1>1 DEF IInv, QueuesOK, ConnectionOK
  <1>3. MenuOK'
    <2>1. CASE menu_pending' => LayoutInFlight'
      BY <1>1, <2>1 DEF IInv, MenuOK
    <2>2. CASE Members(calls) \subseteq Members(calls') /\ (menu_pending' => menu_pending)
      <3>1. LayoutInFlight => LayoutInFlight'
        BY <1>1, <2>2 DEF LayoutInFlight
      <3> QED BY <1>1, <2>2, <3>1 DEF IInv, MenuOK
    <2> QED BY <2>1, <2>2
  <1> QED BY <1>2, <1>3 DEF IInv

\* A click keeps the invariant: the flag goes up only with a call or a menu.
LEMMA ClickStep ==
    ASSUME IInv, NEW p \in Slot, NEW button \in {"left", "right"}, sni_handle_click(p, button)
    PROVE  IInv'
  <1>1. /\ EnvironmentOK /\ QueuesOK /\ ItemsOK /\ TrayMatchesItems /\ MenuOK
        /\ dispatching \in BOOLEAN /\ calls \in Seq(LiveCall) /\ linked \in BOOLEAN
        /\ menu_pending \in BOOLEAN /\ p \in Listed
    BY DEF IInv, ConnectionOK, QueuesOK, EnvironmentOK, MenuOK, TrayMatchesItems, sni_handle_click
  <1>2. /\ Act
        /\ UNCHANGED <<bus, linked, name, app, matched, inbox, dispatching, connVars,
                       items, tray, loads, menu, current>>
    BY DEF sni_handle_click
  <1>3. EnvironmentOK'
    BY <1>1, <1>2, ActFacts DEF EnvironmentOK
  <1>4. loads' \subseteq LoadRequest /\ watcher' = watcher
    BY <1>1, <1>2 DEF ItemsOK, LoadRequest, connVars
  <1>5. CASE ~heap[p].fetched /\ heap' = [heap EXCEPT ![p].click = button]
             /\ UNCHANGED <<calls, menu_pending>>
    <2> DEFINE item == [heap[p] EXCEPT !.click = button]
    <2>1. heap[p] \in Item /\ heap' = [heap EXCEPT ![p] = item]
      BY <1>1, <1>5 DEF ItemsOK
    <2>2. /\ item \in Item /\ item.service = heap[p].service
          /\ item.generation = heap[p].generation /\ item.fetched = heap[p].fetched
      BY <2>1 DEF Item
    <2> HIDE DEF item
    <2>3. /\ ItemsOK' /\ Listed' = Listed
          /\ heap'[p] = item /\ \A q \in Slot \ {p} : heap'[q] = heap[q]
      BY <1>1, <1>2, <1>4, <2>1, <2>2, OneItemFacts
    <2>4. TrayMatchesItems'
      <3>1. \A q \in Slot : heap'[q].fetched = heap[q].fetched
        BY <2>2, <2>3
      <3>2. Listed \subseteq Slot
        BY <1>1, ListedFacts
      <3> QED BY <1>1, <1>2, <1>4, <2>3, <3>1, <3>2 DEF TrayMatchesItems
    <2>5. calls' = calls /\ menu_pending' = menu_pending
      BY <1>5
    <2> QED BY <1>1, <1>2, <1>3, <2>3, <2>4, <2>5, ItemsStep
  <1>6. CASE UNCHANGED heap
    <2>1. ItemsOK' /\ TrayMatchesItems' /\ Listed' = Listed
      BY <1>1, <1>2, <1>4, <1>6 DEF ItemsOK, TrayMatchesItems, Listed
    <2>2. CASE sni_show_menu(p)
      <3>1. /\ calls' \in Seq(LiveCall) /\ menu_pending' \in BOOLEAN
            /\ menu_pending' => LayoutInFlight'
        BY <1>1, <2>2, ShowMenuFacts
      <3> QED BY <1>1, <1>2, <1>3, <2>1, <3>1, ItemsStep
    <2>3. CASE UNCHANGED <<calls, menu_pending>>
      BY <1>1, <1>2, <1>3, <2>1, <2>3, ItemsStep
    <2> QED BY <1>6, <2>2, <2>3 DEF sni_handle_click
  <1> QED BY <1>5, <1>6 DEF sni_handle_click

\* So does closing the menu, which lowers the flag.
LEMMA MenuClosedStep ==
    ASSUME IInv, MenuClosed
    PROVE  IInv'
  <1>1. /\ menu' = [menu EXCEPT !.visible = FALSE] /\ current' = Null /\ menu_pending' = FALSE
        /\ UNCHANGED <<bus, linked, name, app, matched, events, calls, inbox, dispatching, dbus_src,
                       dbus_retry, watcher, dropped, items, heap, tray, loads>>
    BY DEF MenuClosed, busVars, connVars, itemVars
  <1>2. EnvironmentOK' /\ QueuesOK' /\ ConnectionOK' /\ ItemsOK' /\ TrayMatchesItems'
    BY <1>1 DEF IInv, EnvironmentOK, QueuesOK, ConnectionOK, ItemsOK, TrayMatchesItems, Listed
  <1>3. MenuOK'
    BY <1>1 DEF IInv, MenuOK
  <1> QED BY <1>2, <1>3 DEF IInv

\* So does an icon that was loaded, for an item that lives or that is gone.
LEMMA IconStep ==
    ASSUME IInv, NEW l \in loads, sni_icon_loaded_cb(l)
    PROVE  IInv'
  <1>1. /\ EnvironmentOK /\ QueuesOK /\ ItemsOK /\ TrayMatchesItems /\ MenuOK
        /\ dispatching \in BOOLEAN /\ calls \in Seq(LiveCall) /\ menu_pending \in BOOLEAN
    BY DEF IInv, ConnectionOK, QueuesOK, MenuOK
  <1>2. /\ UNCHANGED <<busVars, calls, inbox, dispatching, connVars, items, tray, menu, current,
                       menu_pending>>
        /\ loads' = loads \ {l}
        /\ heap' = IF SameItem(l) /\ l.slot \in tray
                   THEN [heap EXCEPT ![l.slot].icon = {l.service}] ELSE heap
    BY DEF sni_icon_loaded_cb, menuVars
  <1>3. EnvironmentOK' /\ watcher' = watcher
    BY <1>1, <1>2 DEF EnvironmentOK, busVars, connVars
  <1>4. loads' \subseteq LoadRequest /\ l.slot \in Slot /\ l.service \in Service
    BY <1>1, <1>2 DEF ItemsOK, LoadRequest
  <1>5. ItemsOK' /\ TrayMatchesItems' /\ Listed' = Listed
    <2> DEFINE p == l.slot
               item == [heap[p] EXCEPT !.icon = {l.service}]
    <2>1. p \in Slot /\ heap[p] \in Item /\ heap \in [Slot -> Item]
      BY <1>1, <1>4 DEF ItemsOK
    <2>2. /\ item \in Item /\ item.service = heap[p].service
          /\ item.generation = heap[p].generation /\ item.fetched = heap[p].fetched
      BY <1>4, <2>1 DEF Item
    <2>3. heap' = [heap EXCEPT ![p] = item] \/ heap' = heap
      BY <1>2, <2>1
    <2> HIDE DEF p, item
    <2>4. /\ heap' \in [Slot -> Item]
          /\ \A q \in Slot : /\ heap'[q].service = heap[q].service
                             /\ heap'[q].generation = heap[q].generation
                             /\ heap'[q].fetched = heap[q].fetched
      BY <2>1, <2>2, <2>3
    <2>5. ItemsOK' /\ Listed' = Listed
      BY <1>1, <1>2, <1>4, <2>4, HeapFacts
    <2>6. Listed \subseteq Slot
      BY <1>1, ListedFacts
    <2>7. TrayMatchesItems'
      BY <1>1, <1>2, <1>3, <2>4, <2>5, <2>6 DEF TrayMatchesItems
    <2> QED BY <2>5, <2>7
  <1> QED BY <1>1, <1>2, <1>3, <1>5, ItemsStep

-----------------------------------------------------------------------------
(***************************************************************************)
(* The messages.                                                           *)
(***************************************************************************)

\* A message is taken from the connection.
Taken(m) ==
    /\ m \in LiveMessage /\ inbox' \in Seq(LiveMessage)
    /\ Members(inbox) = Members(inbox') \cup {m}
    /\ watcher /\ dispatching' = TRUE
    /\ UNCHANGED <<bus, linked, name, app, events, connVars>>

LayoutReply(m) == m.type = "Reply" /\ m.call.kind = "GetLayout"

\* A message taken from the queue leaves the bus alone, and unless it is the reply
\* to GetLayout, that reply is still to come.
LEMMA TakenFacts ==
    ASSUME IInv, NEW m, Taken(m), calls' \in Seq(LiveCall), matched' \subseteq Service
    PROVE  /\ EnvironmentOK' /\ QueuesOK' /\ ConnectionOK'
           /\ dropped' = dropped /\ watcher' = watcher
           /\ ~LayoutReply(m) /\ Members(calls) \subseteq Members(calls')
                 => (LayoutInFlight => LayoutInFlight')
  <1>1. UNCHANGED <<bus, linked, name, app, events, dbus_src, dbus_retry, watcher, dropped>>
    BY DEF Taken, connVars
  <1>2. EnvironmentOK' /\ QueuesOK' /\ ConnectionOK'
    BY <1>1 DEF IInv, EnvironmentOK, QueuesOK, ConnectionOK, Taken
  <1>3. ~LayoutReply(m) /\ Members(calls) \subseteq Members(calls')
           => (LayoutInFlight => LayoutInFlight')
    BY DEF Taken, LayoutReply, LayoutInFlight
  <1> QED BY <1>1, <1>2, <1>3

\* What is left to show of a message that is not a layout.
LEMMA TakenStep ==
    ASSUME IInv, NEW m, Taken(m), ~LayoutReply(m),
           calls' \in Seq(LiveCall), matched' \subseteq Service,
           ItemsOK', TrayMatchesItems', menu' = menu,
           current' \in Slot \cup {Null}, menu_pending' \in BOOLEAN,
           \/ menu_pending' => LayoutInFlight'
           \/ /\ Members(calls) \subseteq Members(calls')
              /\ menu_pending' => /\ menu_pending /\ current' = current
                                  /\ current \in Listed => current \in Listed'
    PROVE  IInv'
  <1>1. /\ EnvironmentOK' /\ QueuesOK' /\ ConnectionOK' /\ dropped' = dropped
        /\ Members(calls) \subseteq Members(calls') => (LayoutInFlight => LayoutInFlight')
    BY TakenFacts
  <1>2. MenuOK'
    BY <1>1 DEF IInv, MenuOK
  <1> QED BY <1>1, <1>2 DEF IInv

\* Registering an item keeps the invariant.
LEMMA RegisterMessage ==
    ASSUME IInv, NEW m, Taken(m), m.type = "Register",
           handle_register_item(m), matched' = matched
    PROVE  IInv'
  <1>1. /\ sni_add_item(m.service)
        /\ UNCHANGED <<calls, matched, tray, loads, menu, current, menu_pending>>
    BY DEF handle_register_item, menuVars
  <1>2. m \in LiveMessage /\ m.service \in Service /\ watcher /\ watcher' = watcher /\ ~LayoutReply(m)
    BY MessageFacts DEF Taken, connVars, LayoutReply
  <1>3. ItemsOK' /\ TrayMatchesItems' /\ Listed \subseteq Listed'
    BY <1>1, <1>2, AddFacts DEF IInv
  <1>4. /\ calls' \in Seq(LiveCall) /\ matched' \subseteq Service
        /\ current' \in Slot \cup {Null} /\ menu_pending' \in BOOLEAN
    BY <1>1 DEF IInv, QueuesOK, EnvironmentOK, MenuOK
  <1> QED BY <1>1, <1>2, <1>3, <1>4, TakenStep

\* A signal has the properties of its item fetched anew.
LEMMA ChangedMessage ==
    ASSUME IInv, NEW m, Taken(m), m.type = "Changed", handle_item_signal(m)
    PROVE  IInv'
  <1>1. /\ UNCHANGED <<items, tray, loads, menu, current, menu_pending>>
        /\ \/ UNCHANGED <<heap, calls, matched>>
           \/ \E p \in Listed : sni_update_item(p)
    BY DEF handle_item_signal, menuVars, find_item
  <1>2. ~LayoutReply(m) /\ watcher' = watcher
    BY DEF LayoutReply, Taken, connVars
  <1>3. /\ ItemsOK /\ TrayMatchesItems /\ calls \in Seq(LiveCall) /\ matched \subseteq Service
        /\ current \in Slot \cup {Null} /\ menu_pending \in BOOLEAN /\ linked \in BOOLEAN
    BY DEF IInv, QueuesOK, EnvironmentOK, MenuOK
  <1>4. CASE UNCHANGED <<heap, calls, matched>>
    <2>1. ItemsOK' /\ TrayMatchesItems' /\ Listed' = Listed
      BY <1>1, <1>2, <1>3, <1>4 DEF ItemsOK, TrayMatchesItems, Listed
    <2> QED BY <1>1, <1>2, <1>3, <1>4, <2>1, TakenStep
  <1>5. ASSUME NEW p \in Listed, sni_update_item(p) PROVE IInv'
    <2> DEFINE item == FetchingItem(heap[p])
               ps == <<p>>
    <2>1. /\ heap' = [heap EXCEPT ![p] = item] /\ sni_fetch_item_properties(ps)
          /\ p \in Slot /\ heap[p] \in Item
      BY <1>3, <1>5, ListedFacts DEF sni_update_item, ItemsOK
    <2>2. /\ item \in Item /\ item.service = heap[p].service /\ ~item.fetched
          /\ item.generation = heap[p].generation
      BY <1>3, <2>1, ItemFacts
    <2>3. ps \in Seq(Listed)
      OBVIOUS
    <2> HIDE DEF item, ps
    <2>4. loads' \subseteq LoadRequest
      BY <1>1, <1>3 DEF ItemsOK, LoadRequest
    <2>5. /\ ItemsOK' /\ Listed' = Listed
          /\ heap'[p] = item /\ \A q \in Slot \ {p} : heap'[q] = heap[q]
      BY <1>1, <1>3, <2>1, <2>2, <2>4, OneItemFacts
    <2>6. TrayMatchesItems'
      <3>1. Listed \subseteq Slot
        BY <1>3, ListedFacts
      <3> QED BY <1>1, <1>2, <1>3, <2>2, <2>5, <3>1 DEF TrayMatchesItems
    <2>7. /\ calls' \in Seq(LiveCall) /\ Members(calls) \subseteq Members(calls')
          /\ matched' \subseteq Service
      BY <1>3, <2>1, <2>3, FetchFacts
    <2> QED BY <1>1, <1>2, <1>3, <2>5, <2>6, <2>7, TakenStep
  <1> QED BY <1>1, <1>4, <1>5

\* So does an owner that is lost, with whom its items go.
LEMMA NameLostMessage ==
    ASSUME IInv, NEW m, Taken(m), m.type = "NameLost", handle_name_owner_changed(m)
    PROVE  IInv'
  <1> DEFINE gone == find_item(m.service)
  <1>1. sni_remove_item(gone) /\ UNCHANGED <<calls, matched, loads, menu>>
    BY DEF handle_name_owner_changed
  <1>2. gone \in SUBSET Listed
    BY DEF find_item
  <1> HIDE DEF gone
  <1>3. ~LayoutReply(m) /\ watcher' = watcher /\ watcher
    BY DEF LayoutReply, Taken, connVars
  <1>4. /\ ItemsOK /\ TrayMatchesItems /\ calls' \in Seq(LiveCall) /\ matched' \subseteq Service
        /\ current \in Slot \cup {Null} /\ menu_pending \in BOOLEAN
    BY <1>1 DEF IInv, QueuesOK, EnvironmentOK, MenuOK
  <1>5. /\ ItemsOK' /\ Listed' = Listed \ gone /\ tray' \subseteq Listed'
        /\ \A p \in Listed' : heap'[p].fetched => p \in tray'
        /\ current' \in Slot \cup {Null} /\ menu_pending' \in BOOLEAN
        /\ menu_pending' => menu_pending /\ current' = current /\ current \notin gone
    BY <1>1, <1>2, <1>4, RemoveFacts
  <1>6. TrayMatchesItems'
    BY <1>3, <1>5 DEF TrayMatchesItems
  <1> QED BY <1>1, <1>3, <1>4, <1>5, <1>6, TakenStep

\* Properties are taken only for an item that is still on the list: then the
\* icon joins the tray, and a click that waited may ask for the menu.
LEMMA PropertiesMessage ==
    ASSUME IInv, NEW m, Taken(m), m.type = "Reply", m.call.kind = "GetAll",
           sni_properties_received(m.call, m.ok)
    PROVE  IInv'
  <1> DEFINE c == m.call
             p == c.slot
             fetched == [heap[p] EXCEPT !.fetched = TRUE, !.fetching = FALSE,
                            !.click = "none", !.menu = c.service \in HasMenu]
             item == Painted(c, fetched)
  <1>1. /\ ItemsOK /\ TrayMatchesItems /\ calls \in Seq(LiveCall) /\ matched \subseteq Service
        /\ current \in Slot \cup {Null} /\ menu_pending \in BOOLEAN /\ linked \in BOOLEAN
    BY DEF IInv, QueuesOK, EnvironmentOK, MenuOK
  <1>2. ~LayoutReply(m) /\ watcher' = watcher /\ watcher
    BY DEF LayoutReply, Taken, connVars
  <1>3. /\ c \in LiveCall /\ p \in Slot /\ c.service \in Service /\ c.generation = 0
        /\ UNCHANGED <<matched, items, menu, current>>
    BY MessageFacts DEF Taken, sni_properties_received
  <1>4. CASE ~(heap[p].generation = c.generation /\ m.ok)
    <2>1. UNCHANGED <<heap, tray, loads, calls, menu_pending>>
      BY <1>4 DEF sni_properties_received
    <2>2. ItemsOK' /\ TrayMatchesItems' /\ Listed' = Listed
      BY <1>1, <1>2, <1>3, <2>1 DEF ItemsOK, TrayMatchesItems, Listed
    <2> QED BY <1>1, <1>2, <1>3, <2>1, <2>2, TakenStep
  <1>5. CASE heap[p].generation = c.generation /\ m.ok
    <2>1. p \in Listed /\ heap[p] \in Item /\ heap[p].service \in Service
      <3>1. heap[p].generation = 0 /\ heap[p].generation = (IF p \in Listed THEN 0 ELSE 1)
        BY <1>1, <1>3, <1>5 DEF ItemsOK
      <3>2. p \in Listed
        BY <3>1
      <3> QED BY <1>1, <1>3, <3>2 DEF ItemsOK
    <2>2. /\ item \in Item /\ item.service = heap[p].service
          /\ item.generation = heap[p].generation
      <3>1. /\ fetched \in Item /\ fetched.service = heap[p].service
            /\ fetched.generation = heap[p].generation
        <4> DEFINE has == c.service \in HasMenu
        <4>1. has \in BOOLEAN
          OBVIOUS
        <4>2. fetched = [heap[p] EXCEPT !.fetched = TRUE, !.fetching = FALSE,
                            !.click = "none", !.menu = has]
          OBVIOUS
        <4> HIDE DEF has, fetched
        <4> QED BY <2>1, <4>1, <4>2 DEF Item
      <3> HIDE DEF fetched
      <3> QED BY <1>3, <3>1 DEF Item, Painted
    <2>3. /\ heap' = [heap EXCEPT ![p] = item] /\ sni_render_item(c)
          /\ sni_show_menu(p) \/ UNCHANGED <<calls, menu_pending>>
      BY <1>5 DEF sni_properties_received
    <2>4. /\ tray' = tray \cup {p}
          /\ loads' = loads \/ loads' = loads \cup {Load(p)}
      BY <2>3 DEF sni_render_item, addsniiconsystray
    <2>5. loads' \subseteq LoadRequest
      <3>1. Load(p) \in LoadRequest
        BY <1>1, <1>3, <2>1 DEF Load, LoadRequest, Item
      <3> QED BY <1>1, <2>4, <3>1 DEF ItemsOK, LoadRequest
    <2> HIDE DEF c, p, fetched, item
    <2>6. /\ ItemsOK' /\ Listed' = Listed
          /\ heap'[p] = item /\ \A q \in Slot \ {p} : heap'[q] = heap[q]
      BY <1>1, <1>3, <2>2, <2>3, <2>5, OneItemFacts
    <2>7. TrayMatchesItems'
      <3>1. Listed \subseteq Slot
        BY <1>1, ListedFacts
      <3> QED BY <1>1, <1>2, <2>1, <2>4, <2>6, <3>1 DEF TrayMatchesItems
    <2>8. CASE sni_show_menu(p)
      <3>1. /\ calls' \in Seq(LiveCall) /\ menu_pending' \in BOOLEAN
            /\ menu_pending' => LayoutInFlight'
        BY <1>1, <2>1, <2>8, ShowMenuFacts
      <3> QED BY <1>1, <1>2, <1>3, <2>6, <2>7, <3>1, TakenStep
    <2>9. CASE UNCHANGED <<calls, menu_pending>>
      BY <1>1, <1>2, <1>3, <2>6, <2>7, <2>9, TakenStep
    <2> QED BY <2>3, <2>8, <2>9
  <1> QED BY <1>4, <1>5

\* A layout lowers the flag, unless the menu that it makes is shown; it is the
\* menu of an item on the list.
LEMMA LayoutMessage ==
    ASSUME IInv, NEW m, Taken(m), m.type = "Reply", sni_get_layout_notify(m.call, m.ok)
    PROVE  IInv'
  <1> DEFINE c == m.call
  <1>1. UNCHANGED <<calls, matched, items, heap, tray, loads>>
    BY DEF sni_get_layout_notify
  <1>2. /\ calls' \in Seq(LiveCall) /\ matched' \subseteq Service
        /\ menu \in [visible : BOOLEAN, data : Slot \cup {Null}]
        /\ current \in Slot \cup {Null} /\ menu_pending \in BOOLEAN
    BY <1>1 DEF IInv, QueuesOK, EnvironmentOK, MenuOK
  <1>3. EnvironmentOK' /\ QueuesOK' /\ ConnectionOK' /\ watcher' = watcher
    BY <1>2, TakenFacts
  <1>4. ItemsOK' /\ TrayMatchesItems' /\ Listed' = Listed
    BY <1>1, <1>3 DEF IInv, ItemsOK, TrayMatchesItems, Listed
  <1>5. c.slot \in Slot
    BY MessageFacts DEF Taken
  <1>6. MenuOK'
    <2>1. ASSUME NEW visible \in BOOLEAN, SameItem(c), menu_show(c.slot, visible),
                 current' = (IF visible THEN c.slot ELSE Null),
                 menu_pending' = (menu_pending /\ visible)
          PROVE  MenuOK'
      <3>1. menu' = [visible |-> visible, data |-> c.slot] /\ c.slot \in Listed'
        BY <1>4, <2>1 DEF menu_show, SameItem
      <3> QED BY <1>2, <1>5, <2>1, <3>1 DEF MenuOK
    <2>2. CASE menu_pending' = FALSE /\ UNCHANGED <<menu, current>>
      BY <1>2, <2>2 DEF MenuOK
    <2> QED BY <2>1, <2>2 DEF sni_get_layout_notify
  <1> QED BY <1>3, <1>4, <1>6 DEF IInv

\* So does each message that a dispatch handles.
LEMMA DispatchStep ==
    ASSUME IInv, DispatchMessage
    PROVE  IInv'
  <1> DEFINE m == Head(inbox)
  <1>1. /\ dbus_src /\ inbox # <<>> /\ dispatching' = TRUE /\ inbox' = Tail(inbox) /\ Handle(m)
        /\ UNCHANGED <<bus, linked, name, app, events, connVars>>
        /\ inbox \in Seq(LiveMessage) /\ watcher
    BY DEF DispatchMessage, IInv, QueuesOK, ConnectionOK
  <1>2. /\ m \in LiveMessage /\ inbox' \in Seq(LiveMessage)
        /\ Members(inbox) = Members(inbox') \cup {m}
    BY <1>1, MembersTail
  <1> HIDE DEF m
  <1>3. Taken(m)
    BY <1>1, <1>2 DEF Taken
  <1>4. m.type \in {"Register", "Changed", "NameLost", "Reply"}
    BY <1>2, MessageFacts
  <1>5. CASE m.type = "Register"
    <2>1. handle_register_item(m)
      BY <1>1, <1>5 DEF Handle
    <2>2. matched' = matched
      BY <2>1 DEF handle_register_item
    <2> QED BY <1>3, <1>5, <2>1, <2>2, RegisterMessage
  <1>6. CASE m.type = "Changed"
    <2>1. handle_item_signal(m)
      BY <1>1, <1>6 DEF Handle
    <2> QED BY <1>3, <1>6, <2>1, ChangedMessage
  <1>7. CASE m.type = "NameLost"
    <2>1. handle_name_owner_changed(m)
      BY <1>1, <1>7 DEF Handle
    <2> QED BY <1>3, <1>7, <2>1, NameLostMessage
  <1>8. CASE m.type = "Reply"
    <2>1. IF m.call.kind = "GetAll" THEN sni_properties_received(m.call, m.ok)
          ELSE sni_get_layout_notify(m.call, m.ok)
      BY <1>1, <1>8 DEF Handle
    <2> QED BY <1>3, <1>8, <2>1, PropertiesMessage, LayoutMessage
  <1> QED BY <1>4, <1>5, <1>6, <1>7, <1>8

\* The end of a dispatch: whatever needs its properties is asked for them.
LEMMA HandledStep ==
    ASSUME IInv, sni_handle_dbus
    PROVE  IInv'
  <1> DEFINE ps == Unfetched
             Needs == {p \in Listed : ~heap[p].fetched /\ ~heap[p].fetching}
  <1>1. /\ ItemsOK /\ TrayMatchesItems /\ calls \in Seq(LiveCall) /\ matched \subseteq Service
        /\ menu_pending \in BOOLEAN /\ linked \in BOOLEAN /\ EnvironmentOK
    BY DEF IInv, QueuesOK, EnvironmentOK, MenuOK
  <1>2. /\ dispatching' = FALSE /\ sni_fetch_item_properties(ps)
        /\ heap' = [p \in Slot |-> IF p \in Members(ps) THEN FetchingItem(heap[p])
                                   ELSE heap[p]]
        /\ UNCHANGED <<bus, linked, name, app, events, inbox, connVars, items, tray, loads,
                       menu, current, menu_pending>>
    BY DEF sni_handle_dbus, menuVars
  <1>3. Members(ps) \subseteq Listed /\ ps \in Seq(Listed)
    <2>1. ps = Keep(items, Needs) /\ items \in Seq(Slot)
      BY <1>1 DEF Unfetched, ItemsOK
    <2> HIDE DEF ps, Needs
    <2>2. items \in Seq(Listed)
      <3>1. Len(items) \in Nat /\ DOMAIN items = 1 .. Len(items)
        BY <2>1
      <3>2. \A i \in 1 .. Len(items) : items[i] \in Listed
        BY <2>1, MembersFacts DEF Listed
      <3>3. items = [i \in 1 .. Len(items) |-> items[i]]
        BY <2>1
      <3> QED BY <3>1, <3>2, <3>3
    <2>3. ps \in Seq(Listed)
      BY <2>1, <2>2, KeepFacts
    <2> QED BY <2>3, MembersFacts
  <1> HIDE DEF ps, Needs
  <1>4. /\ heap' \in [Slot -> Item]
        /\ \A p \in Slot : /\ heap'[p].service = heap[p].service
                           /\ heap'[p].generation = heap[p].generation
                           /\ heap'[p].fetched => heap[p].fetched
    <2>1. \A p \in Slot : /\ FetchingItem(heap[p]) \in Item /\ ~FetchingItem(heap[p]).fetched
                          /\ FetchingItem(heap[p]).service = heap[p].service
                          /\ FetchingItem(heap[p]).generation = heap[p].generation
                          /\ heap[p] \in Item
      BY <1>1, ItemFacts DEF ItemsOK
    <2>2. \A p \in Slot : heap'[p] = IF p \in Members(ps) THEN FetchingItem(heap[p]) ELSE heap[p]
      BY <1>2
    <2>3. heap' \in [Slot -> Item]
      BY <1>2, <2>1
    <2> QED BY <2>1, <2>2, <2>3
  <1>5. ItemsOK' /\ Listed' = Listed
    <2>1. loads' \subseteq LoadRequest
      BY <1>1, <1>2 DEF ItemsOK, LoadRequest
    <2> QED BY <1>1, <1>2, <1>4, <2>1, HeapFacts
  <1>6. TrayMatchesItems'
    <2>1. Listed \subseteq Slot /\ watcher' = watcher
      BY <1>1, <1>2, ListedFacts DEF connVars
    <2> QED BY <1>1, <1>2, <1>4, <1>5, <2>1 DEF TrayMatchesItems
  <1>7. /\ calls' \in Seq(LiveCall) /\ Members(calls) \subseteq Members(calls')
        /\ matched' \subseteq Service
    BY <1>1, <1>2, <1>3, FetchFacts
  <1>8. EnvironmentOK'
    BY <1>1, <1>2, <1>7 DEF EnvironmentOK
  <1> QED BY <1>1, <1>2, <1>5, <1>6, <1>7, <1>8, ItemsStep

-----------------------------------------------------------------------------
(***************************************************************************)
(* The connection.                                                         *)
(***************************************************************************)

\* So does the loss of the connection being noticed.
LEMMA HangUpStep ==
    ASSUME IInv, dbus_dispatch_cb
    PROVE  IInv'
  <1>1. /\ dbus_src' = FALSE /\ dbus_retry' = TRUE
        /\ UNCHANGED <<bus, linked, name, app, matched, events, calls, inbox, dispatching, watcher,
                       dropped, items, heap, tray, loads, menu, current, menu_pending>>
    BY DEF dbus_dispatch_cb, busVars, itemVars, menuVars
  <1>2. EnvironmentOK' /\ QueuesOK' /\ ConnectionOK'
    BY <1>1 DEF IInv, EnvironmentOK, QueuesOK, ConnectionOK
  <1>3. ItemsOK' /\ TrayMatchesItems' /\ MenuOK'
    BY <1>1 DEF IInv, ItemsOK, TrayMatchesItems, MenuOK, Listed, LayoutInFlight
  <1> QED BY <1>2, <1>3 DEF IInv

\* Closing the connection: the list is empty after it, and the flag is only
\* left up by a layout that was in flight.
LEMMA ReconnectStep ==
    ASSUME IInv, dbus_reconnect_cb
    PROVE  IInv'
  <1>1. /\ sni_remove_item(Listed) /\ menu' = [visible |-> FALSE, data |-> Null]
        /\ calls' = <<>> /\ inbox' = <<>> /\ loads' = loads
        /\ dropped' = (dropped \/ LayoutInFlight)
        /\ watcher' = CanConnect /\ dbus_src' = CanConnect /\ dbus_retry' = ~CanConnect
        /\ linked' = CanConnect /\ name' = IF CanConnect THEN "awm" ELSE name
        /\ UNCHANGED <<bus, app, matched, events, dispatching>>
    BY DEF dbus_reconnect_cb, sni_cleanup, menu_free
  <1>2. /\ ItemsOK /\ TrayMatchesItems /\ current \in Slot \cup {Null} /\ menu_pending \in BOOLEAN
        /\ EnvironmentOK /\ ConnectionOK /\ MenuOK
    BY DEF IInv, MenuOK
  <1>3. CanConnect \in BOOLEAN /\ (CanConnect => bus)
    BY <1>2 DEF CanConnect, EnvironmentOK
  <1> DEFINE can == CanConnect
             gone == Listed
  <1>4. gone \in SUBSET Listed
    OBVIOUS
  <1>5. /\ sni_remove_item(gone) /\ can \in BOOLEAN /\ (can => bus)
        /\ watcher' = can /\ dbus_src' = can /\ dbus_retry' = ~can
        /\ linked' = can /\ name' = IF can THEN "awm" ELSE name
    BY <1>1, <1>3
  <1> HIDE DEF can
  <1>6. EnvironmentOK'
    BY <1>1, <1>2, <1>5 DEF EnvironmentOK
  <1>7. QueuesOK'
    BY <1>1 DEF QueuesOK
  <1>8. ConnectionOK'
    <2>1. dropped' \in BOOLEAN
      BY <1>1, <1>2 DEF ConnectionOK, LayoutInFlight
    <2> QED BY <1>1, <1>2, <1>5, <2>1 DEF ConnectionOK
  <1>9. /\ ItemsOK' /\ Listed' = Listed \ gone /\ tray' \subseteq Listed'
        /\ \A p \in Listed' : heap'[p].fetched => p \in tray'
        /\ current' \in Slot \cup {Null} /\ menu_pending' \in BOOLEAN
        /\ menu_pending' => menu_pending /\ current' = current /\ current \notin gone
    <2> HIDE DEF gone
    <2> QED BY <1>1, <1>2, <1>4, <1>5, RemoveFacts
  <1>10. items' = <<>>
    <2>1. Listed' = {} /\ items' \in Seq(Slot)
      BY <1>9 DEF ItemsOK
    <2> QED BY <2>1, MembersFacts DEF Listed
  <1>11. TrayMatchesItems'
    BY <1>9, <1>10 DEF TrayMatchesItems
  <1>12. MenuOK'
    <2>1. menu_pending' => dropped'
      BY <1>1, <1>2, <1>9 DEF MenuOK
    <2> QED BY <1>1, <1>9, <2>1 DEF MenuOK
  <1> QED BY <1>6, <1>7, <1>8, <1>9, <1>11, <1>12 DEF IInv

-----------------------------------------------------------------------------
(***************************************************************************)
(* The theorems.                                                           *)
(***************************************************************************)

\* The host starts without items, and the invariant holds.
LEMMA StartFacts == Init => IInv
  <1> SUFFICES ASSUME Init PROVE IInv
    OBVIOUS
  <1>1. EnvironmentOK /\ QueuesOK /\ ConnectionOK
    <2>1. 0 \in 0 .. MaxEvents
      BY BoundAssumption
    <2>2. EnvironmentOK
      BY <2>1 DEF Init, EnvironmentOK
    <2>3. QueuesOK
      <3>1. <<>> \in Seq(LiveCall) /\ <<>> \in Seq(LiveMessage)
        OBVIOUS
      <3> QED BY <3>1 DEF Init, QueuesOK
    <2>4. ConnectionOK
      BY DEF Init, ConnectionOK
    <2> QED BY <2>2, <2>3, <2>4
  <1>2. Members(<<>>) = {}
    BY DEF Members
  <1>3. Listed = {}
    BY <1>2 DEF Init, Listed
  <1>4. ItemsOK
    <2>1. FreedItem \in Item /\ FreedItem.generation = 1
      BY NewItemFacts
    <2>2. heap \in [Slot -> Item] /\ \A p \in Slot : heap[p].generation = 1
      BY <2>1 DEF Init
    <2>3. items \in Seq(Slot) /\ Distinct(items) /\ Len(items) <= MaxItems
      BY SlotAssumption DEF Init, Distinct
    <2> QED BY <1>3, <2>2, <2>3 DEF Init, ItemsOK
  <1>5. TrayMatchesItems
    BY <1>3 DEF Init, TrayMatchesItems
  <1>6. MenuOK
    BY DEF Init, MenuOK
  <1> QED BY <1>1, <1>4, <1>5, <1>6 DEF IInv

\* Every step keeps the invariant.
LEMMA NextInv == IInv /\ [Next]_vars => IInv'
  <1> SUFFICES ASSUME IInv, [Next]_vars PROVE IInv'
    OBVIOUS
  <1>1. ASSUME NEW s \in Service, Register(s) \/ Changed(s) \/ Exit(s) PROVE IInv'
    BY <1>1, SignalStep, ExitStep
  <1>2. ASSUME NEW i \in DOMAIN calls, Answer(i, TRUE) \/ Answer(i, FALSE) PROVE IInv'
    BY <1>2, AnswerStep
  <1>3. CASE BusDies \/ BusStarts \/ OtherWatcher
    BY <1>3, BusStep
  <1>4. ASSUME NEW p \in Slot, NEW button \in {"left", "right"}, sni_handle_click(p, button)
        PROVE  IInv'
    BY <1>4, ClickStep
  <1>5. CASE MenuClosed
    BY <1>5, MenuClosedStep
  <1>6. ASSUME NEW l \in loads, sni_icon_loaded_cb(l) PROVE IInv'
    BY <1>6, IconStep
  <1>7. CASE DispatchMessage
    BY <1>7, DispatchStep
  <1>8. CASE sni_handle_dbus
    BY <1>8, HandledStep
  <1>9. CASE dbus_dispatch_cb
    BY <1>9, HangUpStep
  <1>10. CASE dbus_reconnect_cb
    BY <1>10, ReconnectStep
  <1>11. CASE UNCHANGED vars
    <2>1. /\ UNCHANGED <<bus, linked, name, app, matched, events, calls, inbox>>
          /\ UNCHANGED <<dispatching, connVars, itemVars, menuVars>>
      BY <1>11 DEF vars, busVars
    <2>2. EnvironmentOK' /\ QueuesOK' /\ (LayoutInFlight => LayoutInFlight')
      BY <2>1 DEF IInv, EnvironmentOK, QueuesOK, LayoutInFlight
    <2> QED BY <2>1, <2>2, EnvironmentStep
  <1> QED BY <1>1, <1>2, <1>3, <1>4, <1>5, <1>6, <1>7, <1>8, <1>9, <1>10, <1>11 DEF Next

\* The inductive invariant holds in every reachable state.
LEMMA InductiveInvariant == Spec => []IInv
  BY StartFacts, NextInv, PTL DEF Spec

\* The types; an item is on the list once, there are at most SNI_MAX_ITEMS, and
\* exactly the memory of listed items is marked as theirs.
THEOREM TypeCorrect == Spec => []TypeOK
  <1>1. IInv => TypeOK
    <2> SUFFICES ASSUME IInv PROVE TypeOK
      OBVIOUS
    <2>1. calls \in Seq(Call) /\ inbox \in Seq(Message)
      <3>1. LiveCall \subseteq Call /\ LiveMessage \subseteq Message
        BY DEF LiveCall, LiveMessage
      <3>2. \A S, T : S \subseteq T => Seq(S) \subseteq Seq(T)
        OBVIOUS
      <3> QED BY <3>1, <3>2 DEF IInv, QueuesOK
    <2>2. Cardinality(Listed) = Len(items)
      BY DistinctMembers DEF IInv, ItemsOK, Listed
    <2> QED BY <2>1, <2>2 DEF IInv, EnvironmentOK, ConnectionOK, ItemsOK, MenuOK, TypeOK
  <1> QED BY <1>1, InductiveInvariant, PTL

\* In whatever order items register, change, are lost and are answered for,
\* the tray has the icons of the items on the list.
THEOREM TrayAlwaysMatches == Spec => []TrayMatchesItems
  <1>1. IInv => TrayMatchesItems
    BY DEF IInv
  <1> QED BY <1>1, InductiveInvariant, PTL

\* The flag that makes awm ignore right clicks is not left up: none of the
\* functions that should lower it forgets to, but for the end of a connection.
THEOREM FlagAlwaysHonest == Spec => []MenuFlagHonest
  <1>1. IInv => MenuFlagHonest
    BY DEF IInv, MenuOK, MenuFlagHonest
  <1> QED BY <1>1, InductiveInvariant, PTL
=============================================================================

--------------------------- MODULE SwitcherProofs ---------------------------
(***************************************************************************)
(* Theorems about Switcher, for every set of clients and tags: its types,  *)
(* that the server holds the thumbnails of the entries and no others, and  *)
(* that an open switcher has the keyboard, wherever the handlers that nest *)
(* in each other are.                                                      *)
(***************************************************************************)
EXTENDS Switcher, ListProofs

\* What the user and the programs change.
EventsOK == held \in Modifier \cup {"none"} /\ xevents \in Seq(XEvent) /\ acts \in Nat

\* The windows.
WmOK ==
    /\ clients \in Seq(Client) /\ Distinct(clients)
    /\ tags \in [Managed -> Tag] /\ tagset \in Tag /\ sel \in Client \cup {NoClient}

CallsOK == calls \in Seq(Frame)

\* The selection is one of the entries, and the timer runs while there are any.
OpenOK ==
    /\ sw_active \in BOOLEAN /\ sw_all_monitors \in BOOLEAN /\ sw_refresh_id = sw_active
    /\ sw_entries \in Seq(SwitcherEntry)
    /\ sw_active => sw_entries # <<>> /\ sw_sel \in 1 .. Len(sw_entries)
    /\ ~sw_active => sw_entries = <<>>

\* What a handler changes.
HandlerOK ==
    /\ WmOK /\ CallsOK /\ OpenOK
    /\ grab \in {"none", "passive", "active"}
    /\ ThumbnailsOwned /\ OpenIsGrabbed

IInv == EventsOK /\ HandlerOK

-----------------------------------------------------------------------------
(***************************************************************************)
(* The stack of handlers.                                                  *)
(***************************************************************************)

\* A handler that runs a loop is on the stack.
LEMMA PushFacts ==
    ASSUME CallsOK, NEW fn \in {"show", "cycle", "view", "preview"},
           NEW c \in Client \cup {NoClient}, Call(fn, c)
    PROVE  CallsOK' /\ (Running("show")' <=> Running("show") \/ fn = "show")
  <1> DEFINE f == [fn |-> fn, c |-> c]
  <1>1. f \in Frame /\ f.fn = fn
    BY DEF Frame
  <1>2. calls' = Append(calls, f) /\ calls \in Seq(Frame)
    BY DEF Call, CallsOK
  <1> HIDE DEF f
  <1>3. /\ calls' \in Seq(Frame) /\ Len(calls') = Len(calls) + 1 /\ Len(calls) \in Nat
        /\ \A i \in 1 .. Len(calls) : calls'[i] = calls[i]
        /\ calls'[Len(calls) + 1] = f
    BY <1>1, <1>2, AppendProperties
  <1>4. DOMAIN calls = 1 .. Len(calls) /\ DOMAIN calls' = 1 .. Len(calls')
    BY <1>2, <1>3
  <1>5. /\ \A i \in 1 .. Len(calls') : i \in 1 .. Len(calls) \/ i = Len(calls) + 1
        /\ \A i \in 1 .. Len(calls) : i \in 1 .. Len(calls')
        /\ Len(calls) + 1 \in 1 .. Len(calls')
    BY <1>3
  <1>6. Running("show")' <=> Running("show") \/ fn = "show"
    BY <1>1, <1>3, <1>4, <1>5 DEF Running
  <1> QED BY <1>3, <1>6 DEF CallsOK

\* A handler that returns was the innermost one.
LEMMA PopFacts ==
    ASSUME CallsOK, Top.fn # "main", Return
    PROVE  /\ CallsOK'
           /\ Top.fn # "show" => (Running("show")' <=> Running("show"))
           /\ Running("show")' => Running("show")
  <1>1. calls \in Seq(Frame) /\ calls # <<>> /\ Top = calls[Len(calls)]
    BY DEF CallsOK, Top
  <1>2. Len(calls) \in Nat \ {0} /\ DOMAIN calls = 1 .. Len(calls)
    BY <1>1, EmptySeq
  <1>3. calls' = SubSeq(calls, 1, Len(calls) - 1)
    BY DEF Return
  <1>4. /\ calls' \in Seq(Frame) /\ Len(calls') = Len(calls) - 1
        /\ \A i \in 1 .. Len(calls') : calls'[i] = calls[i]
    BY <1>1, <1>2, <1>3
  <1>5. DOMAIN calls' = 1 .. Len(calls')
    BY <1>4
  <1>6. /\ \A i \in 1 .. Len(calls) : i \in 1 .. Len(calls') \/ i = Len(calls)
        /\ \A i \in 1 .. Len(calls') : i \in 1 .. Len(calls)
    <2>1. \A n \in Nat \ {0} : /\ \A i \in 1 .. n : i \in 1 .. n - 1 \/ i = n
                               /\ \A i \in 1 .. n - 1 : i \in 1 .. n
      OBVIOUS
    <2> QED BY <1>2, <1>4, <2>1
  <1>7. Running("show")' => Running("show")
    BY <1>2, <1>4, <1>5, <1>6 DEF Running
  <1>8. Top.fn # "show" /\ Running("show") => Running("show")'
    BY <1>1, <1>2, <1>4, <1>5, <1>6 DEF Running
  <1> QED BY <1>4, <1>7, <1>8 DEF CallsOK

-----------------------------------------------------------------------------
(***************************************************************************)
(* Windows.                                                                *)
(***************************************************************************)

\* Whatever gets the focus is a window or none.
LEMMA FocusFacts ==
    ASSUME NEW c, NEW managed \in SUBSET Client, NEW tag, focus(c, managed, tag)
    PROVE  sel' \in Client \cup {NoClient}
  BY DEF focus

\* The managed windows are those on the list of clients.
LEMMA ManagedFacts ==
    ASSUME WmOK
    PROVE  Managed \subseteq Client /\ Managed = {clients[i] : i \in 1 .. Len(clients)}
  BY MembersFacts DEF WmOK, Managed

\* Activating a window may view its tag, and then runs a handler.
LEMMA ActivateFacts ==
    ASSUME WmOK, CallsOK, NEW fn \in {"view", "preview"}, NEW c \in Managed, Activate(fn, c)
    PROVE  WmOK' /\ CallsOK' /\ (Running("show")' <=> Running("show"))
  <1>1. Managed \subseteq Client
    BY ManagedFacts
  <1>2. CASE ISVISIBLE(c)
    <2>1. focus(c, Managed, tagset) /\ UNCHANGED <<clients, tags, tagset, calls>>
      BY <1>2 DEF Activate
    <2>2. sel' \in Client \cup {NoClient}
      BY <1>1, <2>1, FocusFacts
    <2>3. Running("show")' <=> Running("show")
      BY <2>1 DEF Running
    <2> QED BY <2>1, <2>2, <2>3 DEF WmOK, CallsOK, Managed
  <1>3. CASE ~ISVISIBLE(c)
    <2>1. /\ tagset' = tags[c] /\ focus(NoClient, Managed, tags[c])
          /\ Call(fn, c) /\ UNCHANGED <<clients, tags>>
      BY <1>3 DEF Activate, view
    <2>2. sel' \in Client \cup {NoClient}
      BY <1>1, <2>1, FocusFacts
    <2>3. tags[c] \in Tag
      BY DEF WmOK
    <2>4. WmOK'
      BY <2>1, <2>2, <2>3 DEF WmOK, Managed
    <2>5. CallsOK' /\ (Running("show")' <=> Running("show"))
      BY <1>1, <2>1, PushFacts
    <2> QED BY <2>4, <2>5
  <1> QED BY <1>2, <1>3

\* A new window is on the list once.
LEMMA ManageFacts ==
    ASSUME WmOK, NEW c \in Client \ Managed, manage(c)
    PROVE  WmOK'
  <1>1. /\ clients \in Seq(Client) /\ Distinct(clients) /\ Len(clients) \in Nat
        /\ tags \in [Managed -> Tag] /\ tagset \in Tag /\ sel \in Client \cup {NoClient}
    BY DEF WmOK
  <1>2. clients' = <<c>> \o clients /\ tagset' = tagset
    BY DEF manage
  <1>3. clients' \in Seq(Client) /\ Managed' = Managed \cup {c} /\ Distinct(clients')
    BY <1>1, <1>2, DistinctPush DEF Managed
  <1>4. PICK t \in Tag : /\ tags' = [d \in Managed \cup {c} |-> IF d = c THEN t ELSE tags[d]]
                         /\ sel' = IF t = tagset THEN c ELSE sel
    BY DEF manage
  <1>5. tags' \in [Managed' -> Tag]
    BY <1>1, <1>3, <1>4
  <1> QED BY <1>1, <1>2, <1>3, <1>4, <1>5 DEF WmOK

\* A window that goes leaves the others in their order.
LEMMA UnmanageFacts ==
    ASSUME WmOK, NEW c \in Managed, unmanage(c)
    PROVE  WmOK'
  <1> DEFINE S == Managed \ {c}
             r == Keep(clients, S)
  <1>1. /\ clients \in Seq(Client) /\ Distinct(clients)
        /\ tags \in [Managed -> Tag] /\ tagset \in Tag
    BY DEF WmOK
  <1>2. /\ clients' = r /\ tags' = [d \in S |-> tags[d]] /\ tagset' = tagset
        /\ focus(IF sel = c THEN NoClient ELSE sel, S, tagset)
    BY DEF unmanage
  <1>3. r \in Seq(Client) /\ Members(r) = Managed \cap S
    BY <1>1, KeepFacts DEF Managed
  <1>4. Distinct(r)
    BY <1>1, DistinctKeep
  <1> HIDE DEF r
  <1>5. Managed' = S
    BY <1>2, <1>3 DEF Managed
  <1>6. sel' \in Client \cup {NoClient}
    BY <1>2, ManagedFacts, FocusFacts
  <1>7. tags' \in [Managed' -> Tag]
    BY <1>1, <1>2, <1>5
  <1> QED BY <1>1, <1>2, <1>3, <1>4, <1>6, <1>7 DEF WmOK

-----------------------------------------------------------------------------
(***************************************************************************)
(* The thumbnails.                                                         *)
(***************************************************************************)

\* Whatever step failed, build_thumbnail() has freed what it made; at its end
\* the thumbnail is left.
LEMMA StageFacts ==
    /\ DOMAIN Stage = {"src_fmt", "dst_fmt", "surface", "done"}
    /\ \A stage \in DOMAIN Stage : stage # "done" => Left(stage) = {}
  BY DEF Stage, Left

\* What is left of an attempt is the thumbnail of its entry.
LEMMA ThumbnailFacts ==
    ASSUME NEW c, NEW stage \in DOMAIN Stage
    PROVE  build_thumbnail(c, stage) = Thumbnail([c |-> c, has_thumb |-> stage = "done"])
  <1>1. CASE stage = "done"
    BY <1>1 DEF Thumbnail
  <1>2. CASE stage # "done"
    <2>1. Left(stage) = {}
      BY <1>2, StageFacts
    <2> QED BY <1>2, <2>1 DEF Thumbnail, build_thumbnail
  <1> QED BY <1>1, <1>2

-----------------------------------------------------------------------------
(***************************************************************************)
(* The handlers of the switcher.                                           *)
(***************************************************************************)

\* Hiding frees every thumbnail and gives the keyboard back.
LEMMA HideFacts ==
    ASSUME OpenOK, ThumbnailsOwned, sw_refresh_id' = FALSE, free_thumbnails,
           sw_entries' = <<>>, sw_active' = FALSE, sw_all_monitors' = sw_all_monitors
    PROVE  OpenOK' /\ ThumbnailsOwned' /\ OpenIsGrabbed'
  <1>1. server' = {}
    BY DEF free_thumbnails, ThumbnailsOwned
  <1>2. Members(sw_entries') = {} /\ sw_entries' \in Seq(SwitcherEntry)
    BY DEF Members
  <1>3. ThumbnailsOwned'
    BY <1>1, <1>2 DEF ThumbnailsOwned, Entries
  <1>4. OpenOK'
    BY <1>2 DEF OpenOK
  <1> QED BY <1>3, <1>4 DEF OpenIsGrabbed

\* Escape.
LEMMA CancelStep ==
    ASSUME HandlerOK, switcher_cancel
    PROVE  HandlerOK'
  <1>1. OpenOK' /\ ThumbnailsOwned' /\ OpenIsGrabbed' /\ grab' = "none"
    BY HideFacts DEF HandlerOK, switcher_cancel, switcher_hide
  <1>2. WmOK' /\ CallsOK'
    BY DEF HandlerOK, switcher_cancel, wmVars, WmOK, CallsOK, Managed
  <1> QED BY <1>1, <1>2 DEF HandlerOK

\* A choice that is confirmed: the window may be one that was freed.
LEMMA ConfirmStep ==
    ASSUME HandlerOK, switcher_confirm
    PROVE  HandlerOK'
  <1> DEFINE chosen == sw_entries[sw_sel].c
  <1>1. OpenOK' /\ ThumbnailsOwned' /\ OpenIsGrabbed' /\ grab' = "none"
    BY HideFacts DEF HandlerOK, switcher_confirm, switcher_hide
  <1>2. WmOK /\ CallsOK /\ Managed \subseteq Client
    BY ManagedFacts DEF HandlerOK
  <1>3. \/ chosen \in Managed /\ Activate("view", chosen)
        \/ focus(chosen, Managed, tagset) /\ UNCHANGED <<clients, tags, tagset, calls>>
        \/ /\ tagset' \in Tag /\ focus(NoClient, Managed, tagset')
           /\ UNCHANGED <<clients, tags, calls>>
    BY DEF switcher_confirm
  <1> HIDE DEF chosen
  <1>4. CASE chosen \in Managed /\ Activate("view", chosen)
    BY <1>1, <1>2, <1>4, ActivateFacts DEF HandlerOK
  <1>5. CASE focus(chosen, Managed, tagset) /\ UNCHANGED <<clients, tags, tagset, calls>>
    <2>1. sel' \in Client \cup {NoClient}
      BY <1>2, <1>5, FocusFacts
    <2>2. WmOK' /\ CallsOK'
      BY <1>2, <1>5, <2>1 DEF WmOK, CallsOK, Managed
    <2> QED BY <1>1, <2>2 DEF HandlerOK
  <1>6. CASE /\ tagset' \in Tag /\ focus(NoClient, Managed, tagset')
             /\ UNCHANGED <<clients, tags, calls>>
    <2>1. sel' \in Client \cup {NoClient}
      BY <1>2, <1>6, FocusFacts
    <2>2. WmOK' /\ CallsOK'
      BY <1>2, <1>6, <2>1 DEF WmOK, CallsOK, Managed
    <2> QED BY <1>1, <2>2 DEF HandlerOK
  <1> QED BY <1>3, <1>4, <1>5, <1>6

\* The windows that are shown are clients, and the row is as long as the list.
LEMMA CandidateFacts ==
    ASSUME WmOK, NEW all
    PROVE  /\ Candidates(all) \in Seq(Client) /\ Members(Candidates(all)) \subseteq Managed
           /\ \A i \in 1 .. Len(Candidates(all)) : Candidates(all)[i] \in Managed
  <1> DEFINE S == {c \in Managed : all \/ ISVISIBLE(c)}
             r == Candidates(all)
  <1>1. r = Keep(clients, S)
    BY DEF Candidates
  <1>2. r \in Seq(Client) /\ Members(r) = Managed \cap S
    BY <1>1, KeepFacts DEF WmOK, Managed
  <1> HIDE DEF r
  <1>3. \A i \in 1 .. Len(r) : r[i] \in Members(r)
    BY <1>2, MembersFacts
  <1> QED BY <1>2, <1>3 DEF r

\* Opening: the thumbnails that were made are those of the entries, and the
\* rest of the function is still to run.
LEMMA ShowStep ==
    ASSUME HandlerOK, ~sw_active, NEW all \in BOOLEAN, NEW start_prev \in BOOLEAN,
           switcher_show_internal(all, start_prev)
    PROVE  HandlerOK'
  <1> DEFINE cs == Candidates(all)
  <1>1. WmOK /\ CallsOK /\ OpenOK /\ ThumbnailsOwned /\ grab \in {"none", "passive", "active"}
    BY DEF HandlerOK
  <1>2. /\ cs # <<>> /\ sw_active' = TRUE /\ sw_all_monitors' = all /\ sw_refresh_id' = TRUE
        /\ Call("show", NoClient) /\ UNCHANGED <<grab, clients, tags, tagset, sel>>
        /\ sw_sel' = IF Len(cs) = 1 THEN 1 ELSE IF start_prev THEN Len(cs) ELSE 2
    BY DEF switcher_show_internal, wmVars
  <1>3. PICK stage \in [Managed -> DOMAIN Stage] :
          /\ sw_entries' = [i \in DOMAIN cs |->
                               [c |-> cs[i], has_thumb |-> stage[cs[i]] = "done"]]
          /\ server' = server \cup UNION {build_thumbnail(cs[i], stage[cs[i]]) :
                                          i \in DOMAIN cs}
    BY DEF switcher_show_internal
  <1>4. cs \in Seq(Client) /\ \A i \in 1 .. Len(cs) : cs[i] \in Managed /\ cs[i] \in Client
    BY <1>1, CandidateFacts, ManagedFacts
  <1> HIDE DEF cs
  <1>5. Len(cs) \in Nat \ {0} /\ DOMAIN cs = 1 .. Len(cs)
    BY <1>2, <1>4, EmptySeq
  <1> DEFINE entry(i) == [c |-> cs[i], has_thumb |-> stage[cs[i]] = "done"]
  <1>6. sw_entries' = [i \in 1 .. Len(cs) |-> entry(i)]
    BY <1>3, <1>5
  <1>7. \A i \in 1 .. Len(cs) : entry(i) \in SwitcherEntry
    BY <1>4 DEF SwitcherEntry
  <1>8. \A i \in 1 .. Len(cs) : build_thumbnail(cs[i], stage[cs[i]]) = Thumbnail(entry(i))
    BY <1>3, <1>4, ThumbnailFacts
  <1> HIDE DEF entry
  <1>9. sw_entries' \in Seq(SwitcherEntry) /\ Len(sw_entries') = Len(cs)
    BY <1>5, <1>6, <1>7
  <1>10. OpenOK'
    <2>1. sw_entries' # <<>>
      BY <1>5, <1>9
    <2>2. sw_sel' \in 1 .. Len(cs)
      BY <1>2, <1>5
    <2> QED BY <1>2, <1>9, <2>1, <2>2 DEF OpenOK
  <1>11. ThumbnailsOwned'
    <2>1. server = {}
      <3>1. sw_entries = <<>>
        BY <1>1 DEF OpenOK
      <3>2. Members(<<>>) = {}
        BY DEF Members
      <3> QED BY <1>1, <3>1, <3>2 DEF ThumbnailsOwned, Entries
    <2>2. server' = UNION {Thumbnail(entry(i)) : i \in 1 .. Len(cs)}
      BY <1>3, <1>5, <1>8, <2>1
    <2>3. Members(sw_entries') = {entry(i) : i \in 1 .. Len(cs)}
      BY <1>6 DEF Members
    <2>4. {Thumbnail(e) : e \in Members(sw_entries')} = {Thumbnail(entry(i)) : i \in 1 .. Len(cs)}
      BY <2>3
    <2> QED BY <2>2, <2>4 DEF ThumbnailsOwned, Entries
  <1>12. CallsOK' /\ Running("show")'
    BY <1>1, <1>2, PushFacts
  <1>13. WmOK'
    BY <1>1, <1>2 DEF WmOK, Managed
  <1> QED BY <1>1, <1>2, <1>10, <1>11, <1>12, <1>13 DEF HandlerOK, OpenIsGrabbed

\* Cycling: the selection stays on the row, in either direction.
LEMMA SelectStep ==
    ASSUME HandlerOK, sw_active, NEW idx \in {sw_sel - 1, sw_sel + 1}, switcher_select(idx)
    PROVE  HandlerOK'
  <1>1. /\ WmOK /\ CallsOK /\ OpenOK /\ ThumbnailsOwned /\ OpenIsGrabbed
        /\ grab \in {"none", "passive", "active"}
    BY DEF HandlerOK
  <1>2. /\ sw_sel' = IF idx < 1 THEN Len(sw_entries)
                     ELSE IF idx > Len(sw_entries) THEN 1 ELSE idx
        /\ Call("cycle", NoClient)
        /\ UNCHANGED <<grab, server, clients, tags, tagset, sel, sw_active,
                       sw_all_monitors, sw_refresh_id, sw_entries>>
    BY DEF switcher_select, wmVars
  <1>3. sw_sel' \in 1 .. Len(sw_entries)
    <2>1. sw_sel \in 1 .. Len(sw_entries) /\ Len(sw_entries) \in Nat
      BY <1>1 DEF OpenOK
    <2> QED BY <1>2, <2>1
  <1>4. OpenOK'
    BY <1>1, <1>2, <1>3 DEF OpenOK
  <1>5. ThumbnailsOwned' /\ WmOK'
    BY <1>1, <1>2 DEF ThumbnailsOwned, Entries, WmOK, Managed
  <1>6. CallsOK' /\ (Running("show")' <=> Running("show"))
    BY <1>1, <1>2, PushFacts
  <1>7. OpenIsGrabbed'
    BY <1>1, <1>2, <1>6 DEF OpenIsGrabbed
  <1> QED BY <1>1, <1>2, <1>4, <1>5, <1>6, <1>7 DEF HandlerOK

\* What leaves the switcher, the windows and the handlers as they were.
LEMMA SameStep ==
    ASSUME HandlerOK, UNCHANGED <<grab, server, wmVars, calls, swVars>>
    PROVE  HandlerOK'
  <1>1. UNCHANGED <<grab, server, clients, tags, tagset, sel, calls, sw_active,
                    sw_all_monitors, sw_refresh_id, sw_entries, sw_sel>>
    BY DEF wmVars, swVars
  <1>2. WmOK' /\ CallsOK' /\ OpenOK'
    BY <1>1 DEF HandlerOK, WmOK, CallsOK, OpenOK, Managed
  <1>3. ThumbnailsOwned' /\ OpenIsGrabbed'
    BY <1>1 DEF HandlerOK, ThumbnailsOwned, Entries, OpenIsGrabbed, Running
  <1> QED BY <1>1, <1>2, <1>3 DEF HandlerOK

\* What only concerns the windows.
LEMMA WindowStep ==
    ASSUME HandlerOK, WmOK', CallsOK', Running("show")' <=> Running("show"),
           UNCHANGED <<grab, server, swVars>>
    PROVE  HandlerOK'
  <1>1. UNCHANGED <<grab, server, sw_active, sw_all_monitors, sw_refresh_id, sw_entries, sw_sel>>
    BY DEF swVars
  <1>2. OpenOK' /\ ThumbnailsOwned' /\ OpenIsGrabbed'
    BY <1>1 DEF HandlerOK, OpenOK, ThumbnailsOwned, Entries, OpenIsGrabbed
  <1> QED BY <1>1, <1>2 DEF HandlerOK

-----------------------------------------------------------------------------
(***************************************************************************)
(* The steps.                                                              *)
(***************************************************************************)

\* The keys.
LEMMA KeyStep ==
    ASSUME HandlerOK, NEW e \in XEvent,
           \/ e.type = "press" /\ keypress(e)
           \/ e.type = "release" /\ keyrelease(e)
    PROVE  HandlerOK'
  <1>1. CASE e.type = "press" /\ keypress(e)
    <2>1. e.shift \in BOOLEAN /\ (e.mod = "super") \in BOOLEAN
      BY <1>1 DEF XEvent
    <2>2. CASE switcher_cancel
      BY <2>2, CancelStep
    <2>3. CASE switcher_confirm
      BY <2>3, ConfirmStep
    <2>4. CASE sw_active /\ switcher_select(IF e.shift THEN sw_sel - 1 ELSE sw_sel + 1)
      BY <2>1, <2>4, SelectStep
    <2>5. CASE ~sw_active /\ switcher_show_internal(e.mod = "super", e.shift)
      BY <2>1, <2>5, ShowStep
    <2>6. CASE UNCHANGED <<grab, server, wmVars, calls, swVars>>
      BY <2>6, SameStep
    <2> QED BY <1>1, <2>2, <2>3, <2>4, <2>5, <2>6 DEF keypress
  <1>2. CASE e.type = "release" /\ keyrelease(e)
    BY <1>2, ConfirmStep, SameStep DEF keyrelease
  <1> QED BY <1>1, <1>2

\* The windows that come and go, or ask for the focus.
LEMMA WindowEventStep ==
    ASSUME HandlerOK, NEW e \in XEvent, e.type \in {"map", "unmap", "activate"}, windowevent(e)
    PROVE  HandlerOK'
  <1>1. e.c \in Client /\ UNCHANGED <<grab, server, swVars>> /\ WmOK /\ CallsOK
    BY DEF XEvent, windowevent, HandlerOK
  <1>2. CASE e.c \notin Managed /\ manage(e.c)
    <2>1. WmOK' /\ calls' = calls
      BY <1>1, <1>2, ManageFacts DEF manage
    <2> QED BY <1>1, <2>1, WindowStep DEF CallsOK, Running
  <1>3. CASE e.c \in Managed /\ unmanage(e.c)
    <2>1. WmOK' /\ calls' = calls
      BY <1>1, <1>3, UnmanageFacts DEF unmanage
    <2> QED BY <1>1, <2>1, WindowStep DEF CallsOK, Running
  <1>4. CASE e.c \in Managed /\ Activate("view", e.c)
    <2>1. WmOK' /\ CallsOK' /\ (Running("show")' <=> Running("show"))
      BY <1>1, <1>4, ActivateFacts
    <2> QED BY <1>1, <2>1, WindowStep
  <1>5. CASE UNCHANGED <<wmVars, calls>>
    BY <1>1, <1>5, SameStep
  <1> QED BY <1>2, <1>3, <1>4, <1>5 DEF windowevent

\* An event that awm dispatches.
LEMMA DispatchStep ==
    ASSUME IInv, x_dispatch_cb
    PROVE  IInv'
  <1>1. /\ xevents # <<>> /\ xevents' = Tail(xevents) /\ held' = held /\ acts' = acts
        /\ xevents \in Seq(XEvent) /\ HandlerOK
    BY DEF x_dispatch_cb, userVars, IInv, EventsOK
  <1>2. Head(xevents) \in XEvent /\ xevents' \in Seq(XEvent)
    BY <1>1, HeadTailProperties
  <1>3. EventsOK'
    BY <1>1, <1>2 DEF IInv, EventsOK
  <1>4. PICK e \in XEvent :
              \/ e.type = "press" /\ keypress(e)
              \/ e.type = "release" /\ keyrelease(e)
              \/ e.type \in {"map", "unmap", "activate"} /\ windowevent(e)
    BY <1>2 DEF x_dispatch_cb
  <1>5. HandlerOK'
    BY <1>1, <1>4, KeyStep, WindowEventStep
  <1> QED BY <1>3, <1>5 DEF IInv

\* Handlers that return: the one that opened the switcher takes the keyboard.
LEMMA ReturnStep ==
    ASSUME IInv, ViewReturns \/ ShowReturns \/ CycleReturns
    PROVE  IInv'
  <1>1. HandlerOK /\ WmOK /\ CallsOK
    BY DEF IInv, HandlerOK
  <1>2. CASE ViewReturns
    <2>1. /\ focus(Top.c, Managed, tagset) /\ Return /\ Top.fn \in {"view", "preview"}
          /\ UNCHANGED <<userVars, grab, server, xevents, clients, tags, tagset, swVars>>
      BY <1>2 DEF ViewReturns
    <2>2. sel' \in Client \cup {NoClient}
      BY <1>1, <2>1, ManagedFacts, FocusFacts
    <2>3. WmOK'
      BY <1>1, <2>1, <2>2 DEF WmOK, Managed
    <2>4. CallsOK' /\ (Running("show")' <=> Running("show"))
      BY <1>1, <2>1, PopFacts
    <2>5. HandlerOK'
      BY <1>1, <2>1, <2>3, <2>4, WindowStep
    <2> QED BY <2>1, <2>5 DEF IInv, EventsOK, userVars
  <1>3. CASE CycleReturns
    <2>1. /\ Return /\ Top.fn = "cycle"
          /\ UNCHANGED <<userVars, grab, server, xevents, wmVars, swVars>>
      BY <1>3 DEF CycleReturns
    <2>2. WmOK'
      BY <1>1, <2>1 DEF WmOK, Managed, wmVars
    <2>3. CallsOK' /\ (Running("show")' <=> Running("show"))
      BY <1>1, <2>1, PopFacts
    <2>4. HandlerOK'
      BY <1>1, <2>1, <2>2, <2>3, WindowStep
    <2> QED BY <2>1, <2>4 DEF IInv, EventsOK, userVars
  <1>4. CASE ShowReturns
    <2>1. /\ Return /\ Top.fn = "show" /\ grab' = "active"
          /\ UNCHANGED <<userVars, server, xevents, wmVars, swVars>>
      BY <1>4 DEF ShowReturns
    <2>2. WmOK' /\ OpenOK' /\ ThumbnailsOwned'
      BY <1>1, <2>1
         DEF HandlerOK, WmOK, Managed, wmVars, swVars, OpenOK, ThumbnailsOwned, Entries
    <2>3. CallsOK'
      BY <1>1, <2>1, PopFacts
    <2>4. HandlerOK'
      BY <2>1, <2>2, <2>3 DEF HandlerOK, OpenIsGrabbed
    <2> QED BY <2>1, <2>4 DEF IInv, EventsOK, userVars
  <1> QED BY <1>2, <1>3, <1>4

\* The modifiers and Tab, which change who has the keyboard at most from none
\* to the grab of the key and back, and what programs do.
LEMMA UserStep ==
    ASSUME IInv,
           \/ \E m \in Modifier : PressModifier(m)
           \/ ReleaseModifier
           \/ \E shift \in BOOLEAN : PressTab(shift)
           \/ ReleaseTab
           \/ \E key \in Key : PressKey(key)
           \/ \E type \in {"map", "unmap", "activate"}, c \in Client : WindowEvent(type, c)
    PROVE  IInv'
  <1>1. /\ held \in Modifier \cup {"none"} /\ xevents \in Seq(XEvent) /\ acts \in Nat
        /\ HandlerOK
    BY DEF IInv, EventsOK
  <1>2. ASSUME NEW e \in XEvent, Deliver(e) PROVE xevents' \in Seq(XEvent)
    BY <1>1, <1>2, AppendProperties DEF Deliver
  <1>3. Act => acts' \in Nat
    BY <1>1 DEF Act
  <1>4. ASSUME NEW m \in Modifier, PressModifier(m) PROVE IInv'
    <2>1. HandlerOK'
      BY <1>1, <1>4, SameStep DEF PressModifier
    <2> QED BY <1>1, <1>3, <1>4, <2>1 DEF PressModifier, IInv, EventsOK
  <1>5. CASE ReleaseModifier
    <2>1. HandlerOK'
      BY <1>1, <1>5, SameStep DEF ReleaseModifier
    <2>2. held # "none" => [type |-> "release", mod |-> held] \in XEvent
      BY <1>1 DEF XEvent
    <2>3. xevents' \in Seq(XEvent)
      BY <1>1, <1>2, <1>5, <2>2 DEF ReleaseModifier
    <2> QED BY <1>1, <1>5, <2>1, <2>3 DEF ReleaseModifier, IInv, EventsOK
  <1>6. ASSUME NEW shift \in BOOLEAN, PressTab(shift) PROVE IInv'
    <2>1. [type |-> "press", key |-> "Tab", shift |-> shift, mod |-> held] \in XEvent
      BY <1>1 DEF XEvent, Key
    <2>2. EventsOK'
      BY <1>1, <1>2, <1>3, <1>6, <2>1 DEF PressTab, EventsOK
    <2>3. /\ grab' = IF grab = "none" THEN "passive" ELSE grab
          /\ UNCHANGED <<server, clients, tags, tagset, sel, calls, sw_active, sw_all_monitors,
                         sw_refresh_id, sw_entries, sw_sel>>
      BY <1>6 DEF PressTab, wmVars, swVars
    <2>4. WmOK' /\ CallsOK' /\ OpenOK' /\ ThumbnailsOwned'
      BY <1>1, <2>3
         DEF HandlerOK, WmOK, CallsOK, OpenOK, Managed, ThumbnailsOwned, Entries
    <2>5. OpenIsGrabbed' /\ grab' \in {"none", "passive", "active"}
      BY <1>1, <2>3 DEF HandlerOK, OpenIsGrabbed, Running
    <2> QED BY <2>2, <2>4, <2>5 DEF IInv, HandlerOK
  <1>7. CASE ReleaseTab
    <2>1. /\ grab = "passive" /\ grab' = "none"
          /\ UNCHANGED <<held, acts, xevents, server, clients, tags, tagset, sel, calls, sw_active,
                         sw_all_monitors, sw_refresh_id, sw_entries, sw_sel>>
      BY <1>7 DEF ReleaseTab, wmVars, swVars, userVars
    <2>2. WmOK' /\ CallsOK' /\ OpenOK' /\ ThumbnailsOwned'
      BY <1>1, <2>1
         DEF HandlerOK, WmOK, CallsOK, OpenOK, Managed, ThumbnailsOwned, Entries
    <2>3. OpenIsGrabbed'
      BY <1>1, <2>1 DEF HandlerOK, OpenIsGrabbed, Running
    <2> QED BY <1>1, <2>1, <2>2, <2>3 DEF IInv, HandlerOK, EventsOK
  <1>8. ASSUME NEW key \in Key, PressKey(key) PROVE IInv'
    <2>1. HandlerOK'
      BY <1>1, <1>8, SameStep DEF PressKey
    <2>2. [type |-> "press", key |-> key, shift |-> FALSE, mod |-> held] \in XEvent
      BY <1>1 DEF XEvent
    <2> QED BY <1>1, <1>2, <1>3, <1>8, <2>1, <2>2 DEF PressKey, IInv, EventsOK
  <1>9. ASSUME NEW type \in {"map", "unmap", "activate"}, NEW c \in Client, WindowEvent(type, c)
        PROVE  IInv'
    <2>1. HandlerOK'
      BY <1>1, <1>9, SameStep DEF WindowEvent
    <2>2. [type |-> type, c |-> c] \in XEvent
      BY DEF XEvent
    <2> QED BY <1>1, <1>2, <1>3, <1>9, <2>1, <2>2 DEF WindowEvent, IInv, EventsOK
  <1> QED BY <1>4, <1>5, <1>6, <1>7, <1>8, <1>9

\* awm-ui asks for a window.
LEMMA PreviewStep ==
    ASSUME IInv, NEW c \in Client, preview_focus(c)
    PROVE  IInv'
  <1>1. /\ HandlerOK /\ WmOK /\ CallsOK /\ c \in Managed /\ Activate("preview", c)
        /\ UNCHANGED <<held, grab, server, xevents, swVars>> /\ Act
    BY DEF IInv, HandlerOK, preview_focus
  <1>2. WmOK' /\ CallsOK' /\ (Running("show")' <=> Running("show"))
    BY <1>1, ActivateFacts
  <1>3. HandlerOK'
    BY <1>1, <1>2, WindowStep
  <1>4. EventsOK'
    BY <1>1 DEF IInv, EventsOK, Act
  <1> QED BY <1>3, <1>4 DEF IInv

\* The end of awm.
LEMMA CleanupStep ==
    ASSUME IInv, switcher_cleanup
    PROVE  IInv'
  <1>1. OpenOK' /\ ThumbnailsOwned' /\ OpenIsGrabbed' /\ grab' = "none"
    BY HideFacts DEF IInv, HandlerOK, switcher_cleanup
  <1>2. WmOK' /\ CallsOK'
    BY DEF IInv, HandlerOK, switcher_cleanup, wmVars, WmOK, CallsOK, Managed
  <1>3. EventsOK'
    BY DEF IInv, EventsOK, switcher_cleanup, Act
  <1> QED BY <1>1, <1>2, <1>3 DEF IInv, HandlerOK

-----------------------------------------------------------------------------
(***************************************************************************)
(* The theorems.                                                           *)
(***************************************************************************)

\* When awm starts the switcher is closed, and the invariant holds.
LEMMA StartFacts == Init => IInv
  <1> SUFFICES ASSUME Init PROVE IInv
    OBVIOUS
  <1>1. Cardinality(Client) \in Nat
    BY ClientAssumption, FS_CardinalityType
  <1>2. PICK n \in Nat : clients \in [1 .. n -> Client]
    BY <1>1 DEF Init
  <1>3. clients \in Seq(Client)
    BY <1>2
  <1>4. Distinct(clients)
    BY <1>3, DistinctMembers DEF Init, Managed
  <1>5. Managed \subseteq Client
    BY <1>3, MembersFacts DEF Managed
  <1>6. tagset \in Tag
    BY ClientAssumption DEF Init
  <1>7. WmOK
    BY <1>3, <1>4, <1>5, <1>6 DEF Init, WmOK
  <1>8. CallsOK /\ OpenOK /\ OpenIsGrabbed
    <2>1. calls \in Seq(Frame) /\ sw_entries \in Seq(SwitcherEntry)
      BY DEF Init
    <2> QED BY <2>1 DEF Init, CallsOK, OpenOK, OpenIsGrabbed
  <1>9. ThumbnailsOwned
    <2>1. Members(<<>>) = {}
      BY DEF Members
    <2> QED BY <2>1 DEF Init, ThumbnailsOwned, Entries
  <1>10. EventsOK
    BY DEF Init, EventsOK
  <1> QED BY <1>7, <1>8, <1>9, <1>10 DEF Init, IInv, HandlerOK

\* Every step keeps the invariant.
LEMMA NextInv == IInv /\ [Next]_vars => IInv'
  <1> SUFFICES ASSUME IInv, [Next]_vars PROVE IInv'
    OBVIOUS
  <1>1. CASE \/ \E m \in Modifier : PressModifier(m)
             \/ ReleaseModifier
             \/ \E shift \in BOOLEAN : PressTab(shift)
             \/ ReleaseTab
             \/ \E key \in Key : PressKey(key)
             \/ \E type \in {"map", "unmap", "activate"}, c \in Client : WindowEvent(type, c)
    BY <1>1, UserStep
  <1>2. ASSUME NEW c \in Client, preview_focus(c) PROVE IInv'
    BY <1>2, PreviewStep
  <1>3. CASE x_dispatch_cb
    BY <1>3, DispatchStep
  <1>4. CASE ViewReturns \/ ShowReturns \/ CycleReturns
    BY <1>4, ReturnStep
  <1>5. CASE switcher_cleanup
    BY <1>5, CleanupStep
  <1>6. CASE UNCHANGED vars
    <2>1. UNCHANGED <<userVars, xevents, grab, server, wmVars, calls, swVars>>
      BY <1>6 DEF vars
    <2>2. HandlerOK'
      BY <2>1, SameStep DEF IInv
    <2> QED BY <2>1, <2>2 DEF IInv, EventsOK, userVars
  <1> QED BY <1>1, <1>2, <1>3, <1>4, <1>5, <1>6 DEF Next

\* The inductive invariant holds in every reachable state.
LEMMA InductiveInvariant == Spec => []IInv
  BY StartFacts, NextInv, PTL DEF Spec

\* The types; wherever handlers nest, the selection of the switcher is one of
\* its entries, and its timer runs exactly while there are some.
THEOREM TypeCorrect == Spec => []TypeOK
  <1>1. IInv => TypeOK
    <2> SUFFICES ASSUME IInv PROVE TypeOK
      OBVIOUS
    <2>1. EventsOK /\ WmOK /\ CallsOK /\ OpenOK /\ grab \in {"none", "passive", "active"}
      BY DEF IInv, HandlerOK
    <2>2. /\ \A i \in DOMAIN xevents : xevents[i] \in XEvent
          /\ \A i \in DOMAIN calls : calls[i] \in Frame
      BY <2>1 DEF EventsOK, CallsOK
    <2>3. Managed \subseteq Client /\ Cardinality(Managed) = Len(clients)
      <3>1. clients \in Seq(Client) /\ Distinct(clients)
        BY <2>1 DEF WmOK
      <3> QED BY <3>1, DistinctMembers, MembersFacts DEF Managed
    <2>4. /\ Entries \subseteq SwitcherEntry
          /\ sw_active => sw_sel \in DOMAIN sw_entries
          /\ sw_active = (sw_entries # <<>>)
      <3>1. sw_entries \in Seq(SwitcherEntry) /\ DOMAIN sw_entries = 1 .. Len(sw_entries)
        BY <2>1 DEF OpenOK
      <3>2. Entries \subseteq SwitcherEntry
        BY <3>1, MembersFacts DEF Entries
      <3> QED BY <2>1, <3>1, <3>2 DEF OpenOK
    <2> QED BY <2>1, <2>2, <2>3, <2>4 DEF EventsOK, WmOK, OpenOK, TypeOK
  <1> QED BY <1>1, InductiveInvariant, PTL

\* Whichever step of build_thumbnail() fails for whichever window, the server
\* holds the pixmaps and pictures of the entries and nothing else of them.
THEOREM ThumbnailsAlwaysOwned == Spec => []ThumbnailsOwned
  <1>1. IInv => ThumbnailsOwned
    BY DEF IInv, HandlerOK
  <1> QED BY <1>1, InductiveInvariant, PTL

\* Once the switcher has opened, awm has the keyboard until it closes.
THEOREM OpenAlwaysGrabbed == Spec => []OpenIsGrabbed
  <1>1. IInv => OpenIsGrabbed
    BY DEF IInv, HandlerOK
  <1> QED BY <1>1, InductiveInvariant, PTL
=============================================================================

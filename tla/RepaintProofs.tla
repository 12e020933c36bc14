---------------------------- MODULE RepaintProofs ----------------------------
(***************************************************************************)
(* Proofs about Repaint, for any number of windows and geometries and any   *)
(* bounds: its types and what records own, that a dirty region always has a *)
(* repaint on its way, that no damage object waits in silence, and that     *)
(* nothing on the overlay is out of date without an event or a dirty region *)
(* that tells of it.                                                        *)
(***************************************************************************)
EXTENDS Repaint, SequenceTheorems, TLAPS

\* The windows whose damage is reported by an event of queue q.
Reported(q) == {w \in Window : \E i \in DOMAIN q : q[i].type = "damage" /\ q[i].win = w}

\* What records own.
Owned(s) ==
    /\ s.damage \cup s.direct \cup s.hidden \subseteq s.windows
    /\ s.full \subseteq s.damage
    /\ \A w \in Window : s.pixmap[w] # "none" => w \in s.windows

\* What holds of every state that a function of the compositor is given or
\* returns.
Good(s) ==
    /\ s \in State /\ Owned(s)
    /\ s.full \subseteq Reported(s.events)
    /\ s.vblank_armed => s.vblanks > 0

\* The dirty region has a repaint on its way.
OnItsWay(s) ==
    ~s.paused /\ s.dirty # {} =>
        s.repaint_id \/ (s.repaint_pending /\ s.vblank_armed)

\* What holds of every state between two steps.
Fine(s) == Good(s) /\ OnItsWay(s)

-----------------------------------------------------------------------------
\* Queues of events.

\* An event more reports no window less.
LEMMA AppendEvent ==
    ASSUME NEW q \in Seq(Event), NEW e \in Event
    PROVE  /\ Append(q, e) \in Seq(Event)
           /\ Reported(q) \subseteq Reported(Append(q, e))
           /\ e.type = "damage" => e.win \in Reported(Append(q, e))
  <1>1. /\ Append(q, e) \in Seq(Event) /\ Len(Append(q, e)) = Len(q) + 1
        /\ \A i \in 1..Len(q) : Append(q, e)[i] = q[i]
        /\ Append(q, e)[Len(q) + 1] = e
    OBVIOUS
  <1>2. DOMAIN q = 1..Len(q) /\ DOMAIN Append(q, e) = 1..Len(q) + 1 /\ Len(q) \in Nat
    BY <1>1
  <1>3. Reported(q) \subseteq Reported(Append(q, e))
    BY <1>1, <1>2 DEF Reported
  <1>4. e.type = "damage" => e.win \in Reported(Append(q, e))
    BY <1>1, <1>2 DEF Reported, Event
  <1> QED BY <1>1, <1>3, <1>4

\* Reading an event loses its report only.
LEMMA TailEvent ==
    ASSUME NEW q \in Seq(Event), q # << >>
    PROVE  /\ Head(q) \in Event /\ Tail(q) \in Seq(Event)
           /\ \A w \in Reported(q) :
                w \in Reported(Tail(q)) \/ (Head(q).type = "damage" /\ w = Head(q).win)
  <1>1. /\ Head(q) \in Event /\ Tail(q) \in Seq(Event) /\ Len(Tail(q)) = Len(q) - 1
        /\ \A i \in 1..Len(Tail(q)) : Tail(q)[i] = q[i + 1]
    BY HeadTailProperties
  <1>2. Head(q) = q[1] /\ Len(q) \in Nat /\ DOMAIN q = 1..Len(q)
    OBVIOUS
  <1>3. DOMAIN Tail(q) = 1..Len(Tail(q)) /\ Len(Tail(q)) \in Nat
    BY <1>1
  <1>4. ASSUME NEW w \in Reported(q), ~(Head(q).type = "damage" /\ w = Head(q).win)
        PROVE  w \in Reported(Tail(q))
    <2>1. PICK i \in 1..Len(q) : q[i].type = "damage" /\ q[i].win = w
      BY <1>2 DEF Reported
    <2>2. i # 1
      BY <2>1, <1>2, <1>4
    <2>3. i - 1 \in 1..Len(Tail(q)) /\ Tail(q)[i - 1] = q[i]
      BY <2>2, <1>1, <1>2
    <2> QED BY <2>1, <2>3, <1>3 DEF Reported
  <1> QED BY <1>1, <1>4

\* Destroying a damage object discards the reports of its window only.
LEMMA DestroyEvent ==
    ASSUME NEW q \in Seq(Event), NEW w \in Window
    PROVE  /\ damage_destroy(q, w) \in Seq(Event)
           /\ Reported(q) \ {w} \subseteq Reported(damage_destroy(q, w))
  <1> DEFINE d == damage_destroy(q, w)
  <1>1. q \in [1..Len(q) -> Event] /\ Len(q) \in Nat /\ DOMAIN q = 1..Len(q)
    BY LenProperties
  <1>2. ASSUME NEW i \in 1..Len(q)
        PROVE  d[i] \in Event
    <2>1. q[i] \in Event
      BY <1>1
    <2>2. [q[i] EXCEPT !.type = "dead damage"] \in Event
      BY <2>1 DEF Event, EventType
    <2> QED BY <1>1, <2>1, <2>2 DEF damage_destroy
  <1>3. d \in [1..Len(q) -> Event]
    BY <1>1, <1>2 DEF damage_destroy
  <1>4. d \in Seq(Event)
    BY <1>1, <1>3, SeqDef
  <1>5. ASSUME NEW v \in Reported(q), v # w
        PROVE  v \in Reported(d)
    <2>1. PICK i \in 1..Len(q) : q[i].type = "damage" /\ q[i].win = v
      BY <1>1 DEF Reported
    <2>2. d[i] = q[i] /\ DOMAIN d = 1..Len(q)
      BY <1>1, <1>5, <2>1 DEF damage_destroy
    <2> QED BY <2>1, <2>2 DEF Reported
  <1> QED BY <1>4, <1>5

-----------------------------------------------------------------------------
\* Scheduling and painting.

\* Unless paused, arming leaves a notification or the idle source to come.
LEMMA ArmGood ==
    ASSUME NEW s, Good(s)
    PROVE  /\ Good(comp_arm_vblank(s))
           /\ ~s.paused => comp_arm_vblank(s).repaint_id \/ comp_arm_vblank(s).vblank_armed
           /\ comp_arm_vblank(s).repaint_pending = s.repaint_pending
           /\ OnItsWay(s) => OnItsWay(comp_arm_vblank(s))
  <1> DEFINE a == [s EXCEPT !.vblank_armed = TRUE, !.vblanks = @ + 1]
             i == [s EXCEPT !.repaint_id = TRUE]
  <1>1. /\ Good(a) /\ a.vblank_armed /\ a.repaint_pending = s.repaint_pending
        /\ OnItsWay(s) => OnItsWay(a)
    <2>1. s.vblanks \in Nat /\ s.vblanks + 1 \in Nat /\ s.vblanks + 1 > 0
      BY DEF Good, State
    <2>2. a \in State
      BY <2>1 DEF Good, State
    <2>3. /\ a.vblanks = s.vblanks + 1 /\ a.vblank_armed
          /\ a.repaint_pending = s.repaint_pending
          /\ OnItsWay(s) => OnItsWay(a)
      BY DEF Good, State, OnItsWay
    <2>4. Owned(a) /\ a.full \subseteq Reported(a.events)
      BY DEF Good, State, Owned
    <2> HIDE DEF a
    <2> QED BY <2>1, <2>2, <2>3, <2>4 DEF Good
  <1>2. /\ Good(i) /\ i.repaint_id /\ i.repaint_pending = s.repaint_pending
        /\ OnItsWay(i)
    BY DEF Good, State, Owned, OnItsWay
  <1>3. comp_arm_vblank(s) \in {s, a, i} /\ (~s.paused => comp_arm_vblank(s) \in {a, i})
    BY DEF comp_arm_vblank
  <1> HIDE DEF a, i
  <1> QED BY <1>1, <1>2, <1>3

\* From any good state schedule_repaint() leaves a dirty region with a repaint on
\* its way.
LEMMA ScheduleGood ==
    ASSUME NEW s, Good(s)
    PROVE  Fine(schedule_repaint(s))
  <1> DEFINE t == [s EXCEPT !.repaint_pending = TRUE]
  <1>1. Good(t) /\ t.repaint_pending /\ t.paused = s.paused
    BY DEF Good, State, Owned
  <1>2. CASE s.paused
    BY <1>2 DEF schedule_repaint, OnItsWay, Fine
  <1>3. CASE ~s.paused
    <2>1. schedule_repaint(s) = comp_arm_vblank(t)
      BY <1>3 DEF schedule_repaint
    <2>2. /\ Good(comp_arm_vblank(t)) /\ comp_arm_vblank(t).repaint_pending
          /\ comp_arm_vblank(t).repaint_id \/ comp_arm_vblank(t).vblank_armed
      <3> HIDE DEF t
      <3> QED BY <1>1, <1>3, ArmGood
    <2> QED BY <2>1, <2>2 DEF OnItsWay, Fine
  <1> QED BY <1>2, <1>3 DEF Fine

\* A repaint leaves no dirty region behind, or schedules the next one.
LEMMA RepaintGood ==
    ASSUME NEW s, Good(s)
    PROVE  Fine(comp_do_repaint(s))
  <1> DEFINE shown == [a \in Area |-> IF a \in s.dirty THEN Drawn(s, a[1], a[2])
                                                      ELSE s.screen[a]]
  <1>1. \A w, p : Drawn(s, w, p) \in {"nothing", "old", "latest"}
    <2> SUFFICES ASSUME NEW w, NEW p
                 PROVE  Drawn(s, w, p) \in {"nothing", "old", "latest"}
      OBVIOUS
    <2>1. CASE w \in s.windows \ (s.direct \cup s.hidden) /\ s.at[w][1] = p
      <3>1. s.pixmap[w] \in {"none", "stale", "current"}
        BY <2>1 DEF Good, State, Pixmap
      <3> QED BY <2>1, <3>1 DEF Drawn
    <2>2. CASE ~(w \in s.windows \ (s.direct \cup s.hidden) /\ s.at[w][1] = p)
      BY <2>2 DEF Drawn
    <2> QED BY <2>1, <2>2
  <1>2. shown \in [Area -> {"nothing", "old", "latest"}]
    BY <1>1 DEF Good, State
  <1>3. CASE s.paused
    BY <1>3 DEF comp_do_repaint, OnItsWay, Fine
  <1>4. CASE ~s.paused
    <2>1. comp_do_repaint(s) = [s EXCEPT !.screen = shown, !.dirty = {}]
      BY <1>4 DEF comp_do_repaint
    <2> HIDE DEF shown
    <2>2. Good([s EXCEPT !.screen = shown, !.dirty = {}])
      BY <1>2 DEF Good, State, Owned
    <2>3. OnItsWay([s EXCEPT !.screen = shown, !.dirty = {}])
      BY DEF Good, State, OnItsWay
    <2> QED BY <2>1, <2>2, <2>3 DEF Fine
  <1> QED BY <1>3, <1>4 DEF Fine

\* An idle source or a notification that is taken clears what it stood for.
LEMMA ClearGood ==
    ASSUME NEW s, Good(s)
    PROVE  /\ Good([s EXCEPT !.repaint_id = FALSE, !.repaint_pending = FALSE])
           /\ Good([s EXCEPT !.repaint_pending = FALSE])
  BY DEF Good, State, Owned

-----------------------------------------------------------------------------
\* Window records.

\* A window at its place is an area of the screen.
LEMMA AreaOfWindow ==
    ASSUME NEW w \in Window, NEW g \in Geometry
    PROVE  <<w, g[1]>> \in Area
  BY DEF Area, Place

\* Making a window dirty changes no record.
LEMMA DirtyGood ==
    ASSUME NEW s, Good(s), NEW w \in Window
    PROVE  /\ Good(comp_dirty(s, w))
           /\ comp_dirty(s, w).windows = s.windows
           /\ comp_dirty(s, w).pixmap = s.pixmap
           /\ comp_dirty(s, w).direct = s.direct
           /\ comp_dirty(s, w).at = s.at
  <1>1. <<w, s.at[w][1]>> \in Area
    BY AreaOfWindow DEF Good, State
  <1>2. s.dirty \cup {<<w, s.at[w][1]>>} \in SUBSET Area
    BY <1>1 DEF Good, State
  <1> QED BY <1>2 DEF comp_dirty, Good, State, Owned

\* An event sent changes no record, and a report of damage is in the queue.
LEMMA SendGood ==
    ASSUME NEW s, Good(s), NEW type \in EventType, NEW w \in Window, NEW g \in Geometry
    PROVE  /\ Good(Send(s, type, w, g))
           /\ Send(s, type, w, g).windows = s.windows
           /\ type = "damage" => w \in Reported(Send(s, type, w, g).events)
  <1> DEFINE e == [type |-> type, win |-> w, geom |-> g]
             q == Append(s.events, e)
  <1>1. e \in Event /\ e.win = w /\ e.type = type
    BY DEF Event
  <1>2. s.events \in Seq(Event)
    BY DEF Good, State
  <1>3. /\ q \in Seq(Event) /\ Reported(s.events) \subseteq Reported(q)
        /\ type = "damage" => w \in Reported(q)
    <2> HIDE DEF e
    <2> QED BY <1>1, <1>2, AppendEvent
  <1>4. Send(s, type, w, g) = [s EXCEPT !.events = q]
    BY DEF Send
  <1> HIDE DEF q
  <1> QED BY <1>3, <1>4 DEF Good, State, Owned

\* Acquiring the pixmap of a record adds or removes none.
LEMMA RefreshGood ==
    ASSUME NEW s, Good(s), NEW w \in s.windows
    PROVE  /\ Good(comp_refresh_pixmap(s, w))
           /\ comp_refresh_pixmap(s, w).windows = s.windows
  <1> DEFINE t(v) == [s EXCEPT !.pixmap[w] = v]
  <1>1. w \in Window
    BY DEF Good, State
  <1>2. \A v \in {"none", "current"} : Good(t(v)) /\ t(v).windows = s.windows
    BY DEF Good, State, Owned, Pixmap
  <1>3. Good(comp_dirty(t("current"), w)) /\ comp_dirty(t("current"), w).windows = s.windows
    <2> HIDE DEF t
    <2> QED BY <1>1, <1>2, DirtyGood
  <1> QED BY <1>2, <1>3 DEF comp_refresh_pixmap

\* A new damage object that is not empty has its report in the queue.
LEMMA CreateGood ==
    ASSUME NEW s, Good(s), NEW w \in s.windows
    PROVE  Good(damage_create(s, w))
  <1> DEFINE e == [type |-> "damage", win |-> w, geom |-> s.geom[w]]
             q == Append(s.events, e)
  <1>1. e \in Event /\ e.win = w /\ e.type = "damage"
    BY DEF Event, EventType, Good, State
  <1>2. s.events \in Seq(Event)
    BY DEF Good, State
  <1>3. q \in Seq(Event) /\ Reported(s.events) \subseteq Reported(q) /\ w \in Reported(q)
    <2> HIDE DEF e
    <2> QED BY <1>1, <1>2, AppendEvent
  <1>4. damage_create(s, w) = [s EXCEPT !.damage = @ \cup {w}, !.full = @ \cup {w}, !.events = q]
    BY DEF damage_create, Send, Good, State
  <1> DEFINE t == [s EXCEPT !.damage = @ \cup {w}, !.full = @ \cup {w}, !.events = q]
  <1> HIDE DEF q
  <1>5. t \in State
    BY <1>3 DEF Good, State
  <1>6. /\ t.damage = s.damage \cup {w} /\ t.full = s.full \cup {w} /\ t.events = q
        /\ t.windows = s.windows /\ t.direct = s.direct /\ t.hidden = s.hidden
        /\ t.pixmap = s.pixmap /\ t.vblanks = s.vblanks /\ t.vblank_armed = s.vblank_armed
    BY DEF Good, State
  <1> HIDE DEF t
  <1>7. Owned(t) /\ t.full \subseteq Reported(t.events)
    BY <1>3, <1>6 DEF Good, Owned
  <1>8. damage_create(s, w) = t
    BY <1>4 DEF t
  <1> QED BY <1>5, <1>6, <1>7, <1>8 DEF Good

\* What a record owns is released with it: its pixmap and its damage object.
LEMMA FreeGood ==
    ASSUME NEW s, Good(s), NEW w \in Window
    PROVE  /\ Good(comp_free_win(s, w))
           /\ comp_free_win(s, w).windows = s.windows
           /\ comp_free_win(s, w).pixmap[w] = "none"
           /\ w \notin comp_free_win(s, w).damage
  <1> DEFINE q == damage_destroy(s.events, w)
  <1>1. s.events \in Seq(Event)
    BY DEF Good, State
  <1>2. q \in Seq(Event) /\ Reported(s.events) \ {w} \subseteq Reported(q)
    BY <1>1, DestroyEvent
  <1>3. comp_free_win(s, w) = [s EXCEPT !.pixmap[w] = "none", !.damage = @ \ {w},
                                        !.full = @ \ {w}, !.events = q]
    BY DEF comp_free_win
  <1> DEFINE t == [s EXCEPT !.pixmap[w] = "none", !.damage = @ \ {w},
                            !.full = @ \ {w}, !.events = q]
  <1> HIDE DEF q
  <1>4. t \in State
    BY <1>2 DEF Good, State, Pixmap
  <1>5. /\ t.damage = s.damage \ {w} /\ t.full = s.full \ {w} /\ t.events = q
        /\ t.windows = s.windows /\ t.direct = s.direct /\ t.hidden = s.hidden
        /\ t.vblanks = s.vblanks /\ t.vblank_armed = s.vblank_armed
    BY DEF Good, State
  <1>6. t.pixmap[w] = "none" /\ \A v \in Window : v # w => t.pixmap[v] = s.pixmap[v]
    BY DEF Good, State
  <1> HIDE DEF t
  <1>7. Owned(t) /\ t.full \subseteq Reported(t.events)
    BY <1>2, <1>5, <1>6 DEF Good, Owned
  <1>8. comp_free_win(s, w) = t
    BY <1>3 DEF t
  <1> QED BY <1>4, <1>5, <1>6, <1>7, <1>8 DEF Good

\* A record removed leaves nothing of its own behind.
LEMMA RemoveGood ==
    ASSUME NEW s, Good(s), NEW w \in s.windows
    PROVE  Good(comp_remove(s, w))
  <1> DEFINE d == comp_dirty(s, w)
             f == comp_free_win(d, w)
             t == [f EXCEPT !.windows = @ \ {w}, !.direct = @ \ {w}, !.hidden = @ \ {w}]
  <1>1. w \in Window
    BY DEF Good, State
  <1>2. Good(d)
    BY <1>1, DirtyGood
  <1>3. Good(f) /\ f.pixmap[w] = "none" /\ w \notin f.damage
    <2> HIDE DEF d
    <2> QED BY <1>1, <1>2, FreeGood
  <1>4. Good(t)
    <2> HIDE DEF f
    <2>1. t \in State
      BY <1>3 DEF Good, State
    <2>2. /\ t.damage = f.damage /\ t.full = f.full /\ t.events = f.events
          /\ t.windows = f.windows \ {w} /\ t.direct = f.direct \ {w}
          /\ t.hidden = f.hidden \ {w} /\ t.pixmap = f.pixmap
          /\ t.vblanks = f.vblanks /\ t.vblank_armed = f.vblank_armed
      BY <1>3 DEF Good, State
    <2> HIDE DEF t
    <2>3. Owned(t) /\ t.full \subseteq Reported(t.events)
      BY <1>3, <2>2 DEF Good, Owned
    <2> QED BY <1>3, <2>1, <2>2, <2>3 DEF Good
  <1> QED BY <1>4 DEF comp_remove

\* A record added owns what it acquires.
LEMMA AddGood ==
    ASSUME NEW s, Good(s), NEW w \in Window
    PROVE  Good(comp_add_by_xid(s, w))
  <1> DEFINE u == [s EXCEPT !.windows = @ \cup {w}, !.at[w] = s.geom[w]]
             r == comp_refresh_pixmap(u, w)
  <1>1. s.geom[w] \in Geometry
    BY DEF Good, State
  <1>2. Good(u) /\ w \in u.windows
    BY <1>1 DEF Good, State, Owned
  <1>3. Good(r) /\ w \in r.windows
    <2> HIDE DEF u
    <2> QED BY <1>2, RefreshGood
  <1>4. Good(damage_create(r, w))
    <2> HIDE DEF r
    <2> QED BY <1>3, CreateGood
  <1> QED BY <1>4 DEF comp_add_by_xid

\* A window added is repainted.
LEMMA AddWindowFine ==
    ASSUME NEW s, Fine(s), NEW c \in Window
    PROVE  Fine(compositor_add_window(s, c))
  BY AddGood, ScheduleGood DEF compositor_add_window, Fine

\* A record is moved; its pixmap is acquired anew when it was also resized.
LEMMA ConfigureFine ==
    ASSUME NEW s, Good(s), NEW c \in Window, NEW g \in Geometry
    PROVE  /\ OnItsWay(s) => Fine(compositor_configure_window(s, c, g))
           /\ c \in s.windows => Good(configure_popup(s, c, g))
  <1> DEFINE d == comp_dirty(s, c)
             u == [d EXCEPT !.at[c] = g]
             t == comp_dirty(u, c)
  <1>1. Good(d) /\ d.windows = s.windows
    BY DirtyGood
  <1>2. Good(u) /\ u.windows = s.windows
    <2> HIDE DEF d
    <2> QED BY <1>1 DEF Good, State, Owned
  <1>3. Good(t) /\ t.windows = s.windows
    <2> HIDE DEF u
    <2> QED BY <1>2, DirtyGood
  <1>4. CASE c \notin s.windows
    BY <1>4 DEF compositor_configure_window, Fine
  <1>5. CASE c \in s.windows
    <2>1. Good(comp_refresh_pixmap(t, c)) /\ Good(comp_refresh_pixmap(u, c))
      <3> HIDE DEF t, u
      <3> QED BY <1>2, <1>3, <1>5, RefreshGood
    <2>2. /\ Fine(schedule_repaint(t))
          /\ Fine(schedule_repaint(comp_refresh_pixmap(t, c)))
      <3> HIDE DEF t
      <3> QED BY <1>3, <2>1, ScheduleGood
    <2>3. compositor_configure_window(s, c, g) \in
            {schedule_repaint(t), schedule_repaint(comp_refresh_pixmap(t, c))}
      BY <1>5 DEF compositor_configure_window
    <2>4. configure_popup(s, c, g) \in {u, comp_refresh_pixmap(u, c)}
      BY DEF configure_popup
    <2> HIDE DEF t, u
    <2> QED BY <1>2, <2>1, <2>2, <2>3, <2>4
  <1> QED BY <1>4, <1>5

\* A window bypassed, or no longer, is repainted where it is composited again.
LEMMA BypassFine ==
    ASSUME NEW s, Fine(s), NEW c \in Window, NEW bypass \in BOOLEAN
    PROVE  Fine(compositor_bypass_window(s, c, bypass))
  <1> DEFINE u == [s EXCEPT !.direct = @ \ {c}]
             t == comp_refresh_pixmap(u, c)
             v == [s EXCEPT !.direct = @ \cup {c}]
  <1>1. CASE c \notin s.windows \/ bypass = (c \in s.direct)
    BY <1>1 DEF compositor_bypass_window
  <1>2. CASE c \in s.windows /\ bypass # (c \in s.direct)
    <2>1. Good(u) /\ u.windows = s.windows /\ Good(v)
      BY <1>2 DEF Fine, Good, State, Owned
    <2>2. Good(t) /\ t.windows = s.windows
      <3> HIDE DEF u
      <3> QED BY <1>2, <2>1, RefreshGood
    <2>3. Good(damage_create(t, c))
      <3> HIDE DEF t
      <3> QED BY <1>2, <2>2, CreateGood
    <2>4. Good(comp_free_win(v, c))
      <3> HIDE DEF v
      <3> QED BY <2>1, FreeGood
    <2>5. compositor_bypass_window(s, c, bypass) \in
            {schedule_repaint(comp_free_win(v, c)), schedule_repaint(damage_create(t, c)),
             schedule_repaint(t)}
      BY <1>2 DEF compositor_bypass_window
    <2> HIDE DEF t, v
    <2> QED BY <2>2, <2>3, <2>4, <2>5, ScheduleGood
  <1> QED BY <1>1, <1>2

\* A window hidden or shown again is repainted.
LEMMA HiddenFine ==
    ASSUME NEW s, Good(s), NEW c \in Window, NEW hidden \in BOOLEAN
    PROVE  /\ OnItsWay(s) => Fine(compositor_set_hidden(s, c, hidden))
  <1> DEFINE u == [s EXCEPT !.hidden = IF hidden THEN @ \cup {c} ELSE @ \ {c}]
  <1>1. CASE c \notin s.windows \/ hidden = (c \in s.hidden)
    BY <1>1 DEF compositor_set_hidden, Fine
  <1>2. CASE c \in s.windows /\ hidden # (c \in s.hidden)
    <2>1. Good(u)
      BY <1>2 DEF Good, State, Owned
    <2>2. Fine(schedule_repaint(comp_dirty(u, c)))
      <3> HIDE DEF u
      <3> QED BY <2>1, DirtyGood, ScheduleGood
    <2>3. compositor_set_hidden(s, c, hidden) = schedule_repaint(comp_dirty(u, c))
      BY <1>2 DEF compositor_set_hidden
    <2> QED BY <2>2, <2>3
  <1> QED BY <1>1, <1>2

-----------------------------------------------------------------------------
\* What programs and the server do leaves the schedule alone.

\* New storage makes the pixmap of a record stale.
LEMMA StorageFine ==
    ASSUME NEW s, Fine(s), NEW w \in Window
    PROVE  Fine(Storage(s, w)) /\ Storage(s, w).windows = s.windows
  <1> DEFINE p == IF s.pixmap[w] = "current" THEN "stale" ELSE s.pixmap[w]
  <1>1. Storage(s, w) = [s EXCEPT !.pixmap[w] = p]
    BY DEF Storage
  <1>2. p \in Pixmap /\ (p # "none" => w \in s.windows)
    BY DEF Fine, Good, State, Owned, Pixmap
  <1> DEFINE t == [s EXCEPT !.pixmap[w] = p]
  <1> HIDE DEF p
  <1>3. t \in State
    BY <1>2 DEF Fine, Good, State
  <1>4. Owned(t) /\ t.full \subseteq Reported(t.events) /\ (t.vblank_armed => t.vblanks > 0)
    BY <1>2 DEF Fine, Good, State, Owned
  <1>5. OnItsWay(t) /\ t.windows = s.windows
    BY DEF Fine, Good, State, OnItsWay
  <1> QED BY <1>1, <1>3, <1>4, <1>5 DEF Fine, Good

\* What a program draws makes what the overlay shows old.
LEMMA ChangeFine ==
    ASSUME NEW s, Fine(s), NEW w \in Window
    PROVE  Fine(Change(s, w)) /\ Change(s, w).windows = s.windows
  <1> DEFINE q == [a \in Area |-> IF a[1] = w /\ s.screen[a] = "latest" THEN "old"
                                                                     ELSE s.screen[a]]
  <1>1. Change(s, w) = [s EXCEPT !.screen = q]
    BY DEF Change
  <1>2. q \in [Area -> {"nothing", "old", "latest"}]
    BY DEF Fine, Good, State
  <1> HIDE DEF q
  <1> QED BY <1>1, <1>2 DEF Fine, Good, State, Owned, OnItsWay

\* An event sent leaves the schedule alone.
LEMMA SendFine ==
    ASSUME NEW s, Fine(s), NEW type \in EventType, NEW w \in Window, NEW g \in Geometry
    PROVE  Fine(Send(s, type, w, g)) /\ Send(s, type, w, g).windows = s.windows
  <1>1. Good(Send(s, type, w, g)) /\ Send(s, type, w, g).windows = s.windows
    BY SendGood DEF Fine
  <1>2. OnItsWay(Send(s, type, w, g))
    BY DEF Send, Fine, Good, State, OnItsWay
  <1> QED BY <1>1, <1>2 DEF Fine

\* Damage is reported when it fills its object.
LEMMA ReportFine ==
    ASSUME NEW s, Fine(s), NEW w \in Window
    PROVE  Fine(Report(s, w)) /\ Report(s, w).windows = s.windows
  <1> DEFINE e == [type |-> "damage", win |-> w, geom |-> s.geom[w]]
             q == Append(s.events, e)
             t == [s EXCEPT !.full = @ \cup {w}, !.events = q]
  <1>1. e \in Event /\ e.win = w /\ e.type = "damage"
    BY DEF Event, EventType, Fine, Good, State
  <1>2. s.events \in Seq(Event)
    BY DEF Fine, Good, State
  <1>3. q \in Seq(Event) /\ Reported(s.events) \subseteq Reported(q) /\ w \in Reported(q)
    <2> HIDE DEF e
    <2> QED BY <1>1, <1>2, AppendEvent
  <1>4. w \in s.damage \ s.full => Report(s, w) = t
    BY DEF Report, Send, Fine, Good, State
  <1>5. ASSUME w \in s.damage \ s.full
        PROVE  Fine(t) /\ t.windows = s.windows
    <2> HIDE DEF q
    <2> QED BY <1>3, <1>5 DEF Fine, Good, State, Owned, OnItsWay
  <1>6. w \notin s.damage \ s.full => Report(s, w) = s
    BY DEF Report
  <1> HIDE DEF t
  <1> QED BY <1>4, <1>5, <1>6

\* Mapping, unmapping and moving a window touch no record until awm learns of it.
LEMMA MappedFine ==
    ASSUME NEW s, Fine(s), NEW w \in Window, NEW g \in Geometry
    PROVE  /\ Fine([s EXCEPT !.viewable = @ \cup {w}])
           /\ Fine([s EXCEPT !.viewable = @ \ {w}])
           /\ Fine([s EXCEPT !.geom[w] = g])
           /\ [s EXCEPT !.viewable = @ \cup {w}].windows = s.windows
           /\ [s EXCEPT !.viewable = @ \ {w}].windows = s.windows
           /\ [s EXCEPT !.geom[w] = g].windows = s.windows
  <1>1. Fine([s EXCEPT !.viewable = @ \cup {w}])
    BY DEF Fine, Good, State, Owned, OnItsWay
  <1>2. Fine([s EXCEPT !.viewable = @ \ {w}])
    BY DEF Fine, Good, State, Owned, OnItsWay
  <1>3. Fine([s EXCEPT !.geom[w] = g])
    BY DEF Fine, Good, State, Owned, OnItsWay
  <1> QED BY <1>1, <1>2, <1>3 DEF Fine, Good, State

-----------------------------------------------------------------------------
\* Steps of programs.

\* Whatever a program does keeps the invariant.
LEMMA ProgramsStep ==
    ASSUME Fine(comp), Programs
    PROVE  Fine(comp')
  <1> USE DEF Window
  <1>0. \A w \in Window : comp.geom[w] \in Geometry
    BY DEF Fine, Good, State
  <1>1. ASSUME NEW w \in Window, Draw(w)
        PROVE  Fine(comp')
    <2>1. Fine(Change(comp, w))
      BY ChangeFine
    <2> QED BY <1>1, <2>1, ReportFine DEF Draw
  <1>2. ASSUME NEW w \in Window, PresentFrame(w)
        PROVE  Fine(comp')
    <2>1. Fine(Report(Change(comp, w), w))
      BY ChangeFine, ReportFine
    <2>2. Fine(Send(Report(Change(comp, w), w), "present", w, comp.geom[w]))
      BY <1>0, <2>1, SendFine DEF EventType
    <2> QED BY <1>2, <2>1, <2>2 DEF PresentFrame
  <1>3. ASSUME NEW w \in Popup, MapPopup(w)
        PROVE  Fine(comp')
    <2> DEFINE s == [Change(comp, w) EXCEPT !.viewable = @ \cup {w}]
    <2>1. Fine(s)
      BY <1>0, ChangeFine, MappedFine
    <2>2. comp' = Send(s, "map", w, comp.geom[w])
      BY <1>3 DEF MapPopup
    <2> HIDE DEF s
    <2> QED BY <1>0, <2>1, <2>2, SendFine DEF EventType
  <1>4. ASSUME NEW w \in Window, UnmapWindow(w)
        PROVE  Fine(comp')
    <2> DEFINE s == [Storage(comp, w) EXCEPT !.viewable = @ \ {w}]
    <2>1. Fine(s)
      BY <1>0, StorageFine, MappedFine
    <2>2. comp' = Send(s, "unmap", w, comp.geom[w])
      BY <1>4 DEF UnmapWindow
    <2> HIDE DEF s
    <2> QED BY <1>0, <2>1, <2>2, SendFine DEF EventType
  <1>5. ASSUME NEW w \in Popup, NEW g \in Geometry, ConfigurePopup(w, g)
        PROVE  Fine(comp')
    <2> DEFINE s == IF g[2] # comp.geom[w][2] THEN Change(Storage(comp, w), w) ELSE comp
    <2>1. Fine(s)
      BY StorageFine, ChangeFine
    <2>2. comp' = Send([s EXCEPT !.geom[w] = g], "configure", w, g)
      BY <1>5 DEF ConfigurePopup
    <2> HIDE DEF s
    <2>3. Fine([s EXCEPT !.geom[w] = g])
      BY <2>1, MappedFine
    <2> QED BY <2>2, <2>3, SendFine DEF EventType
  <1>6. ASSUME NEW c \in Client, RequestMap(c)
        PROVE  Fine(comp')
    BY <1>0, <1>6, SendFine DEF RequestMap, EventType
  <1> QED BY <1>1, <1>2, <1>3, <1>4, <1>5, <1>6 DEF Programs

-----------------------------------------------------------------------------
\* Steps of the window manager.

\* So does what the window manager does with windows and bypasses.
LEMMA ManagerStep ==
    ASSUME Fine(comp), Manager
    PROVE  Fine(comp')
  <1> USE DEF Window
  <1>0. \A w \in Window : comp.geom[w] \in Geometry
    BY DEF Fine, Good, State
  <1>1. ASSUME NEW c \in Client, NEW g \in Geometry, ResizeClient(c, g)
        PROVE  Fine(comp')
    <2> DEFINE s == IF g[2] # comp.geom[c][2] THEN Change(Storage(comp, c), c) ELSE comp
               r == Send([s EXCEPT !.geom[c] = g], "configure", c, g)
    <2>1. Fine(s)
      BY StorageFine, ChangeFine
    <2>2. comp' = compositor_configure_window(r, c, g)
      BY <1>1 DEF ResizeClient
    <2>3. Fine(r)
      <3> HIDE DEF s
      <3> QED BY <2>1, MappedFine, SendFine DEF EventType
    <2> HIDE DEF r
    <2> QED BY <2>2, <2>3, ConfigureFine DEF Fine
  <1>2. ASSUME NEW c \in Client, NEW b \in BOOLEAN, SetHidden(c, b)
        PROVE  Fine(comp')
    BY <1>2, HiddenFine DEF SetHidden, Fine
  <1>3. ASSUME NEW c \in Client, NEW b \in BOOLEAN, BypassWindow(c, b)
        PROVE  Fine(comp')
    BY <1>3, BypassFine DEF BypassWindow
  <1>4. ASSUME NEW c \in Client, Hide(c)
        PROVE  Fine(comp')
    <2> DEFINE s == [Storage(comp, c) EXCEPT !.viewable = @ \ {c}]
    <2>1. Fine(s)
      BY <1>0, StorageFine, MappedFine
    <2>2. comp' = compositor_set_hidden(s, c, TRUE)
      BY <1>4 DEF Hide
    <2> HIDE DEF s
    <2> QED BY <2>1, <2>2, HiddenFine DEF Fine
  <1>5. ASSUME NEW c \in Client, Show(c)
        PROVE  Fine(comp')
    <2> DEFINE s == [Change(comp, c) EXCEPT !.viewable = @ \cup {c}]
               r == Send(s, "map", c, comp.geom[c])
    <2>1. Fine(s)
      BY <1>0, ChangeFine, MappedFine
    <2>2. Fine(r)
      <3> HIDE DEF s
      <3> QED BY <1>0, <2>1, SendFine DEF EventType
    <2>3. comp' = compositor_set_hidden(r, c, FALSE)
      BY <1>5 DEF Show
    <2> HIDE DEF r
    <2> QED BY <2>2, <2>3, HiddenFine DEF Fine
  <1>6. CASE Suspend
    BY <1>6 DEF Suspend, Fine, Good, State, Owned, OnItsWay
  <1>7. CASE Resume
    <2> DEFINE s == [[comp EXCEPT !.paused = FALSE] EXCEPT !.dirty = Area]
    <2>1. Good(s)
      BY DEF Fine, Good, State, Owned
    <2>2. comp' = schedule_repaint(s)
      BY <1>7 DEF Resume, compositor_damage_all
    <2> HIDE DEF s
    <2> QED BY <2>1, <2>2, ScheduleGood
  <1>8. CASE RepaintNow
    <2> DEFINE s == [comp EXCEPT !.repaint_id = FALSE, !.repaint_pending = FALSE]
               t == comp_do_repaint(s)
    <2>1. Good(s)
      BY ClearGood DEF Fine
    <2>2. Fine(t)
      <3> HIDE DEF s
      <3> QED BY <2>1, RepaintGood
    <2>3. Fine(schedule_repaint(t))
      <3> HIDE DEF t
      <3> QED BY <2>2, ScheduleGood DEF Fine
    <2>4. comp' \in {t, schedule_repaint(t)}
      BY <1>8 DEF RepaintNow, compositor_repaint_now
    <2> QED BY <2>2, <2>3, <2>4
  <1> QED BY <1>1, <1>2, <1>3, <1>4, <1>5, <1>6, <1>7, <1>8 DEF Manager

-----------------------------------------------------------------------------
\* Events that are read.

\* Reading any event but a damage report loses nothing; reading a report is
\* right for a function that subtracts the damage.
LEMMA ReadGood ==
    ASSUME Fine(comp), comp.events # << >>
    PROVE  /\ Win \in Window /\ Geom \in Geometry
           /\ Read.windows = comp.windows /\ Read.dirty = comp.dirty
           /\ Head(comp.events).type # "damage" => Fine(Read)
           /\ Good([Read EXCEPT !.full = @ \ {Win}])
           /\ [Read EXCEPT !.full = @ \ {Win}].windows = comp.windows
  <1> DEFINE q == Tail(comp.events)
             t == [Read EXCEPT !.full = @ \ {Win}]
  <1>1. comp.events \in Seq(Event)
    BY DEF Fine, Good, State
  <1>2. /\ Head(comp.events) \in Event /\ q \in Seq(Event)
        /\ \A w \in Reported(comp.events) :
             w \in Reported(q) \/ (Head(comp.events).type = "damage" /\ w = Win)
    BY <1>1, TailEvent DEF Win
  <1>3. Win \in Window /\ Geom \in Geometry
    BY <1>2 DEF Win, Geom, Event
  <1>4. Read = [comp EXCEPT !.events = q]
    BY DEF Read
  <1> HIDE DEF q
  <1>5. /\ Read \in State /\ Owned(Read) /\ (Read.vblank_armed => Read.vblanks > 0)
        /\ OnItsWay(Read) /\ Read.events = q /\ Read.full = comp.full
        /\ Read.windows = comp.windows /\ Read.dirty = comp.dirty
    BY <1>2, <1>4 DEF Fine, Good, State, Owned, OnItsWay
  <1>6. Head(comp.events).type # "damage" => Fine(Read)
    BY <1>2, <1>5 DEF Fine, Good
  <1>7. /\ t \in State /\ Owned(t) /\ (t.vblank_armed => t.vblanks > 0)
        /\ t.windows = comp.windows /\ t.events = q /\ t.full = comp.full \ {Win}
    BY <1>5 DEF State, Owned
  <1>8. Good(t)
    BY <1>2, <1>7 DEF Fine, Good
  <1> HIDE DEF t
  <1>9. t.windows = comp.windows
    BY <1>7
  <1> QED BY <1>3, <1>5, <1>6, <1>8, <1>9 DEF t

\* So does the handler of each type of event.
LEMMA HandleStep ==
    ASSUME Fine(comp), Handle
    PROVE  Fine(comp')
  <1>1. CASE MapRequest
    <2> DEFINE s == [Read EXCEPT !.viewable = @ \cup {Win}]
               r == Send(s, "map", Win, comp.geom[Win])
    <2>1. Fine(Read) /\ Win \in Window
      BY <1>1, ReadGood DEF MapRequest, Reads
    <2>2. comp.geom[Win] \in Geometry
      BY <2>1 DEF Fine, Good, State
    <2>3. Fine(s)
      BY <2>1, <2>2, MappedFine
    <2>4. Fine(r)
      <3> HIDE DEF s
      <3> QED BY <2>1, <2>2, <2>3, SendFine DEF EventType
    <2>5. Fine(compositor_add_window(r, Win))
      <3> HIDE DEF r
      <3> QED BY <2>1, <2>4, AddWindowFine
    <2>6. comp' \in {Read, compositor_add_window(r, Win)}
      BY <1>1 DEF MapRequest
    <2> QED BY <2>1, <2>5, <2>6
  <1>2. CASE MapNotify
    <2>1. Fine(Read) /\ Win \in Window
      BY <1>2, ReadGood DEF MapNotify, Reads
    <2> QED BY <1>2, <2>1, AddGood, ScheduleGood DEF MapNotify, Fine
  <1>3. CASE UnmapNotify
    <2>1. Fine(Read) /\ Read.windows = comp.windows
      BY <1>3, ReadGood DEF UnmapNotify, Reads
    <2> QED BY <1>3, <2>1, RemoveGood, ScheduleGood DEF UnmapNotify, Fine
  <1>4. CASE ConfigureNotify
    <2>1. Fine(Read) /\ Read.windows = comp.windows /\ Win \in Window /\ Geom \in Geometry
      BY <1>4, ReadGood DEF ConfigureNotify, Reads
    <2>2. Win \in comp.windows => Good(configure_popup(Read, Win, Geom))
      BY <2>1, ConfigureFine DEF Fine
    <2> QED BY <1>4, <2>1, <2>2, ScheduleGood DEF ConfigureNotify, Fine
  <1>5. CASE DamageNotify
    <2> DEFINE t == [Read EXCEPT !.full = @ \ {Win}]
    <2>1. Good(t) /\ Win \in Window
      BY <1>5, ReadGood DEF DamageNotify, Reads
    <2>2. Good(comp_dirty(t, Win))
      <3> HIDE DEF t
      <3> QED BY <2>1, DirtyGood
    <2>3. handle_damage(Read, Win) \in {t, comp_dirty(t, Win)}
      BY DEF handle_damage
    <2> QED BY <1>5, <2>1, <2>2, <2>3, ScheduleGood DEF DamageNotify
  <1>6. CASE DeadDamageNotify
    <2>1. Fine(Read) /\ Win \in Window
      BY <1>6, ReadGood DEF DeadDamageNotify, Reads
    <2> QED BY <1>6, <2>1, DirtyGood, ScheduleGood DEF DeadDamageNotify, Fine
  <1>7. CASE PresentComplete
    <2>1. Fine(Read) /\ Win \in Window /\ Read.windows = comp.windows
      BY <1>7, ReadGood DEF PresentComplete, Reads
    <2>2. Win \in comp.windows => Good(comp_dirty(comp_refresh_pixmap(Read, Win), Win))
      BY <2>1, RefreshGood, DirtyGood DEF Fine
    <2> QED BY <1>7, <2>1, <2>2, ScheduleGood DEF PresentComplete
  <1> QED BY <1>1, <1>2, <1>3, <1>4, <1>5, <1>6, <1>7 DEF Handle

-----------------------------------------------------------------------------
\* Vertical blanks and the idle source.

\* So does an answer to a notification asked for, early or late.
LEMMA VblankStep ==
    ASSUME Fine(comp), Vblank
    PROVE  Fine(comp')
  <1> DEFINE t == [comp EXCEPT !.vblanks = @ - 1, !.vblank_armed = FALSE]
             u == [t EXCEPT !.repaint_pending = FALSE]
  <1>1. comp.vblanks \in Nat /\ comp.vblanks > 0 /\ comp.vblanks - 1 \in Nat
    BY DEF Vblank, Fine, Good, State
  <1>2. t \in State
    BY <1>1 DEF Fine, Good, State
  <1>3. Good(t)
    BY <1>2 DEF Fine, Good, State, Owned
  <1>4. CASE ~comp.paused /\ comp.repaint_pending
    <2>1. Good(u)
      <3> HIDE DEF t
      <3> QED BY <1>3, ClearGood
    <2>2. Fine(comp_do_repaint(u))
      <3> HIDE DEF u
      <3> QED BY <2>1, RepaintGood
    <2>3. Fine(comp_arm_vblank(comp_do_repaint(u)))
      <3> HIDE DEF u
      <3> QED BY <2>2, ArmGood DEF Fine
    <2> QED BY <1>4, <2>3 DEF Vblank, handle_vblank
  <1>5. CASE comp.paused \/ ~comp.repaint_pending
    <2>1. OnItsWay(t)
      BY <1>5 DEF Fine, Good, State, OnItsWay
    <2>2. comp' = t
      BY <1>5 DEF Vblank, handle_vblank
    <2> QED BY <1>3, <2>1, <2>2 DEF Fine
  <1> QED BY <1>4, <1>5

\* So does the idle source.
LEMMA RepaintIdleStep ==
    ASSUME Fine(comp), RepaintIdle
    PROVE  Fine(comp')
  <1> DEFINE s == [comp EXCEPT !.repaint_id = FALSE, !.repaint_pending = FALSE]
  <1>1. Good(s)
    BY ClearGood DEF Fine
  <1>2. comp' = comp_do_repaint(s)
    BY DEF RepaintIdle
  <1> HIDE DEF s
  <1> QED BY <1>1, <1>2, RepaintGood

-----------------------------------------------------------------------------
\* The inductive invariant, and what follows from it.

\* The system is fine between any two steps.
IInv == Fine(comp)

\* The compositor starts with everything dirty and a repaint scheduled.
LEMMA InitInv == Init => IInv
  <1> SUFFICES ASSUME NEW g \in Geometry,
                      comp = schedule_repaint(
        [viewable |-> {}, geom |-> [w \in Window |-> g], full |-> {}, events |-> << >>,
         vblanks |-> 0, screen |-> [a \in Area |-> "nothing"],
         windows |-> {}, at |-> [w \in Window |-> g], pixmap |-> [w \in Window |-> "none"],
         damage |-> {}, direct |-> {}, hidden |-> {}, dirty |-> Area, paused |-> FALSE,
         vblank_armed |-> FALSE, repaint_pending |-> FALSE, repaint_id |-> FALSE])
               PROVE  IInv
    BY DEF Init
  <1> DEFINE s ==
        [viewable |-> {}, geom |-> [w \in Window |-> g], full |-> {}, events |-> << >>,
         vblanks |-> 0, screen |-> [a \in Area |-> "nothing"],
         windows |-> {}, at |-> [w \in Window |-> g], pixmap |-> [w \in Window |-> "none"],
         damage |-> {}, direct |-> {}, hidden |-> {}, dirty |-> Area, paused |-> FALSE,
         vblank_armed |-> FALSE, repaint_pending |-> FALSE, repaint_id |-> FALSE]
  <1>1. s \in State
    BY DEF State, Pixmap
  <1>2. Good(s)
    BY <1>1 DEF Good, Owned
  <1>3. comp = schedule_repaint(s)
    OBVIOUS
  <1> HIDE DEF s
  <1> QED BY <1>2, <1>3, ScheduleGood DEF IInv

\* Every step keeps the invariant.
LEMMA NextInv == IInv /\ [Next]_vars => IInv'
  <1> SUFFICES ASSUME IInv, [Next]_vars PROVE IInv'
    OBVIOUS
  <1> USE DEF IInv
  <1>1. CASE Programs
    BY <1>1, ProgramsStep
  <1>2. CASE Manager
    BY <1>2, ManagerStep
  <1>3. CASE Handle
    BY <1>3, HandleStep
  <1>4. CASE Vblank
    BY <1>4, VblankStep
  <1>5. CASE RepaintIdle
    BY <1>5, RepaintIdleStep
  <1>6. CASE UNCHANGED vars
    BY <1>6 DEF vars, Fine, Good, Owned, OnItsWay, Reported
  <1> QED BY <1>1, <1>2, <1>3, <1>4, <1>5, <1>6 DEF Next

\* The inductive invariant holds in every reachable state.
LEMMA InductiveInvariant == Spec => []IInv
  BY InitInv, NextInv, PTL DEF Spec

\* Every field of the compositor's record keeps its type, and what a record
\* owned is gone with it.
THEOREM TypeCorrect == Spec => []TypeOK
  <1>1. IInv => TypeOK
    BY DEF IInv, TypeOK, Fine, Good, Owned
  <1> QED BY <1>1, InductiveInvariant, PTL

\* Whatever pauses, resumptions and notifications come in between, damage that
\* is not painted has a repaint on its way.
THEOREM RepaintAlwaysScheduled == Spec => []RepaintScheduled
  <1>1. IInv => RepaintScheduled
    BY DEF IInv, RepaintScheduled, Fine, Good, OnItsWay
  <1> QED BY <1>1, InductiveInvariant, PTL

\* A damage object that has reported is heard: the event that leads to the
\* subtraction is in the queue.
THEOREM ReportsAlwaysRead == Spec => []ReportsAreRead
  <1>1. IInv => ReportsAreRead
    BY DEF IInv, ReportsAreRead, Fine, Good, Reported
  <1> QED BY <1>1, InductiveInvariant, PTL

-----------------------------------------------------------------------------
(***************************************************************************)
(* Why the overlay is never wrong without anyone knowing: what the events   *)
(* that are not read yet promise about each window, and what its record and *)
(* the overlay owe to those promises.                                       *)
(***************************************************************************)

\* The events of a type about window w.
About(q, w, type) == {i \in DOMAIN q : q[i].type = type /\ q[i].win = w}

\* Event e is about w and of that type.
Tells(e, w, type) == e.win = w /\ e.type = type

\* After each time that w was unmapped it was mapped again.
Remapped(q, w) == \A k \in About(q, w, "unmap") : \E j \in About(q, w, "map") : j > k

\* It was unmapped once at most.
Once(q, w) == \A i, j \in About(q, w, "unmap") : i = j

\* The last event that tells of a new geometry tells of g.
Final(q, w, g) == \A k \in About(q, w, "configure") :
    \E i \in About(q, w, "configure") : i >= k /\ q[i].geom = g

\* An event tells of another size than h has.
Resizes(q, w, h) == \E i \in About(q, w, "configure") : q[i].geom[2] # h[2]

-----------------------------------------------------------------------------
\* What an event sent adds to the promises.
LEMMA AppendMoves ==
    ASSUME NEW q \in Seq(Event), NEW e \in Event, NEW w, NEW r, r = Append(q, e)
    PROVE  /\ \A type : About(r, w, type) = {} <=>
                          About(q, w, type) = {} /\ ~Tells(e, w, type)
           /\ \A h : Resizes(q, w, h) => Resizes(r, w, h)
           /\ ~Tells(e, w, "unmap") => (Once(q, w) => Once(r, w)) /\ (Remapped(q, w) => Remapped(r, w))
           /\ ~Tells(e, w, "configure") => \A g : Final(q, w, g) => Final(r, w, g)
           /\ Tells(e, w, "map") => Remapped(r, w)
           /\ Tells(e, w, "unmap") /\ About(q, w, "unmap") = {} => Once(r, w)
           /\ Tells(e, w, "configure") => /\ Final(r, w, e.geom)
                                  /\ \A h : e.geom[2] # h[2] => Resizes(r, w, h)
  <1> DEFINE n == Len(q) + 1
             New(type) == IF Tells(e, w, type) THEN {n} ELSE {}
  <1>1. /\ r \in Seq(Event) /\ Len(r) = n /\ Len(q) \in Nat
        /\ \A i \in 1..Len(q) : r[i] = q[i]
        /\ r[n] = e
    OBVIOUS
  <1>2. DOMAIN q = 1..Len(q) /\ DOMAIN r = 1..n
    BY <1>1
  <1>3. \A type : About(q, w, type) \subseteq 1..Len(q)
    BY <1>2 DEF About
  <1>4. ASSUME NEW type
        PROVE  About(r, w, type) = About(q, w, type) \cup New(type)
    BY <1>1, <1>2 DEF About, Tells
  <1>5. \A k \in 1..Len(q) : n > k /\ k \in Nat
    BY <1>1
  <1>6. n \in Nat
    BY <1>1
  <1>7. \A i \in About(q, w, "configure") : r[i] = q[i]
    BY <1>1, <1>3
  <1>8. r[n] = e
    BY <1>1
  <1> HIDE DEF n
  <1>9. \A type : About(r, w, type) = {} <=>
                    About(q, w, type) = {} /\ ~Tells(e, w, type)
    BY <1>4
  <1>10. ASSUME NEW h, Resizes(q, w, h) PROVE Resizes(r, w, h)
    <2>1. PICK i \in About(q, w, "configure") : q[i].geom[2] # h[2]
      BY <1>10 DEF Resizes
    <2>2. i \in About(r, w, "configure") /\ r[i] = q[i]
      BY <1>4, <1>7
    <2>3. r[i].geom[2] # h[2]
      BY <2>1, <2>2
    <2> QED BY <2>2, <2>3 DEF Resizes
  <1>11. ASSUME ~Tells(e, w, "unmap")
         PROVE  (Once(q, w) => Once(r, w)) /\ (Remapped(q, w) => Remapped(r, w))
    <2>1. About(r, w, "unmap") = About(q, w, "unmap")
      BY <1>4, <1>11
    <2>2. About(q, w, "map") \subseteq About(r, w, "map")
      BY <1>4
    <2> QED BY <2>1, <2>2 DEF Once, Remapped
  <1>12. ASSUME ~Tells(e, w, "configure"), NEW g, Final(q, w, g) PROVE Final(r, w, g)
    <2>1. About(r, w, "configure") = About(q, w, "configure")
      BY <1>4, <1>12
    <2> QED BY <1>7, <1>12, <2>1 DEF Final
  <1>13. ASSUME Tells(e, w, "map") PROVE Remapped(r, w)
    <2>1. ~Tells(e, w, "unmap")
      BY <1>13 DEF Tells
    <2>2. New("map") = {n} /\ New("unmap") = {}
      BY <1>13, <2>1
    <2>3. About(r, w, "unmap") = About(q, w, "unmap") /\ n \in About(r, w, "map")
      <3> HIDE DEF New
      <3> QED BY <1>4, <2>2
    <2> QED BY <1>3, <1>5, <2>3 DEF Remapped
  <1>14. ASSUME Tells(e, w, "unmap"), About(q, w, "unmap") = {} PROVE Once(r, w)
    <2>1. About(r, w, "unmap") = {n}
      BY <1>4, <1>14
    <2> QED BY <2>1 DEF Once
  <1>15. ASSUME Tells(e, w, "configure")
         PROVE  Final(r, w, e.geom) /\ \A h : e.geom[2] # h[2] => Resizes(r, w, h)
    <2>1. About(r, w, "configure") = About(q, w, "configure") \cup {n}
      BY <1>4, <1>15
    <2>2. \A k \in About(r, w, "configure") : n >= k
      BY <1>3, <1>5, <1>6, <2>1
    <2>3. Final(r, w, e.geom)
      BY <1>8, <2>1, <2>2 DEF Final
    <2>4. ASSUME NEW h, e.geom[2] # h[2] PROVE Resizes(r, w, h)
      <3>1. n \in About(r, w, "configure") /\ r[n].geom[2] # h[2]
        BY <1>8, <2>1, <2>4
      <3> QED BY <3>1 DEF Resizes
    <2> QED BY <2>3, <2>4
  <1> QED BY <1>9, <1>10, <1>11, <1>12, <1>13, <1>14, <1>15

\* There is an event of a type when there was one or the new one is.
LEMMA AppendKinds ==
    ASSUME NEW q \in Seq(Event), NEW e \in Event, NEW w, NEW r, r = Append(q, e)
    PROVE  \A type : About(r, w, type) = {} <=> About(q, w, type) = {} /\ ~Tells(e, w, type)
  BY AppendMoves

\* What is left of q, in r, was one place further, and the other way round.
WasBehind(q, r, w, type) == \A i \in About(r, w, type) :
    i + 1 \in About(q, w, type) /\ i \in Nat \ {0} /\ r[i] = q[i + 1]

MovesUp(q, r, w, type) == \A i \in About(q, w, type) :
    i # 1 => i - 1 \in About(r, w, type) /\ r[i - 1] = q[i]

\* Reading the first event moves the others one place up.
LEMMA TailAbout ==
    ASSUME NEW q \in Seq(Event), q # << >>, NEW w,
           NEW e, e = Head(q), NEW r, r = Tail(q)
    PROVE  /\ \A type : WasBehind(q, r, w, type)
           /\ \A type : About(q, w, type) \subseteq Nat \ {0}
           /\ \A type : MovesUp(q, r, w, type)
           /\ \A type : 1 \in About(q, w, type) <=> Tells(e, w, type)
           /\ q[1] = e
  <1>1. /\ r \in Seq(Event) /\ Len(r) = Len(q) - 1 /\ e \in Event
        /\ \A i \in 1..Len(r) : r[i] = q[i + 1]
    BY HeadTailProperties
  <1>2. /\ e = q[1] /\ Len(q) \in Nat /\ DOMAIN q = 1..Len(q)
        /\ Len(q) >= 1
    OBVIOUS
  <1>3. DOMAIN r = 1..Len(r) /\ Len(r) \in Nat
    BY <1>1
  <1>4. \A type : \A i \in About(r, w, type) :
          i + 1 \in About(q, w, type) /\ i \in Nat \ {0} /\ r[i] = q[i + 1]
    BY <1>1, <1>2, <1>3 DEF About
  <1>5. \A type : About(q, w, type) \subseteq Nat \ {0}
    BY <1>2 DEF About
  <1>6. ASSUME NEW type, NEW i \in About(q, w, type), i # 1
        PROVE  i - 1 \in About(r, w, type) /\ r[i - 1] = q[i]
    <2>1. i \in 1..Len(q) /\ q[i].type = type /\ q[i].win = w
      BY <1>2 DEF About
    <2>2. i - 1 \in 1..Len(r) /\ r[i - 1] = q[i]
      BY <1>1, <1>2, <1>6, <2>1
    <2> QED BY <1>3, <2>1, <2>2 DEF About
  <1>7. \A type : 1 \in About(q, w, type) <=> Tells(e, w, type)
    BY <1>2 DEF About, Tells
  <1>8. q[1] = e
    BY <1>2
  <1> QED BY <1>4, <1>5, <1>6, <1>7, <1>8 DEF WasBehind, MovesUp

\* And what is left of them when the first event is read.
LEMMA TailMoves ==
    ASSUME NEW q \in Seq(Event), q # << >>, NEW w,
           NEW e, e = Head(q), NEW r, r = Tail(q)
    PROVE  /\ \A type : About(q, w, type) = {} => About(r, w, type) = {}
           /\ \A type : ~Tells(e, w, type) =>
                          (About(r, w, type) = {} => About(q, w, type) = {})
           /\ Remapped(q, w) => Remapped(r, w)
           /\ Once(q, w) => Once(r, w)
           /\ \A g : Final(q, w, g) => Final(r, w, g)
           /\ \A h : Resizes(q, w, h) /\ ~(Tells(e, w, "configure") /\ e.geom[2] # h[2])
                       => Resizes(r, w, h)
  <1>1. \A type : WasBehind(q, r, w, type)
    BY TailAbout
  <1>2. \A type : About(q, w, type) \subseteq Nat \ {0}
    BY TailAbout
  <1>3. \A type : MovesUp(q, r, w, type)
    BY TailAbout
  <1>4. \A type : 1 \in About(q, w, type) <=> Tells(e, w, type)
    BY TailAbout
  <1>5. q[1] = e
    BY TailAbout
  <1>6. \A type : About(q, w, type) = {} => About(r, w, type) = {}
    BY <1>1 DEF WasBehind
  <1>7. ASSUME NEW type, ~Tells(e, w, type), About(r, w, type) = {}
         PROVE  About(q, w, type) = {}
    BY <1>3, <1>4, <1>7 DEF MovesUp
  <1>8. ASSUME Remapped(q, w) PROVE Remapped(r, w)
    <2> SUFFICES ASSUME NEW k \in About(r, w, "unmap")
                 PROVE  \E j \in About(r, w, "map") : j > k
      BY DEF Remapped
    <2>1. k + 1 \in About(q, w, "unmap") /\ k \in Nat
      BY <1>1 DEF WasBehind
    <2>2. PICK j \in About(q, w, "map") : j > k + 1
      BY <1>8, <2>1 DEF Remapped
    <2>3. j \in Nat /\ j # 1
      BY <1>2, <2>1, <2>2
    <2>4. j - 1 \in About(r, w, "map")
      BY <1>3, <2>3 DEF MovesUp
    <2> QED BY <2>1, <2>2, <2>3, <2>4
  <1>9. ASSUME Once(q, w) PROVE Once(r, w)
    <2> SUFFICES ASSUME NEW i \in About(r, w, "unmap"), NEW j \in About(r, w, "unmap")
                 PROVE  i = j
      BY DEF Once
    <2>1. /\ i + 1 \in About(q, w, "unmap") /\ j + 1 \in About(q, w, "unmap")
          /\ i \in Nat /\ j \in Nat
      BY <1>1 DEF WasBehind
    <2>2. i + 1 = j + 1
      BY <1>9, <2>1 DEF Once
    <2> QED BY <2>1, <2>2
  <1>10. ASSUME NEW g, Final(q, w, g) PROVE Final(r, w, g)
    <2> SUFFICES ASSUME NEW k \in About(r, w, "configure")
                 PROVE  \E i \in About(r, w, "configure") : i >= k /\ r[i].geom = g
      BY DEF Final
    <2>1. k + 1 \in About(q, w, "configure") /\ k \in Nat /\ k # 0
      BY <1>1 DEF WasBehind
    <2>2. PICK i \in About(q, w, "configure") : i >= k + 1 /\ q[i].geom = g
      BY <1>10, <2>1 DEF Final
    <2>3. i \in Nat /\ i # 1
      BY <1>2, <2>1, <2>2
    <2>4. i - 1 \in About(r, w, "configure") /\ r[i - 1] = q[i]
      BY <1>3, <2>3 DEF MovesUp
    <2>5. i - 1 >= k
      BY <2>1, <2>2, <2>3
    <2>6. r[i - 1].geom = g
      BY <2>2, <2>4
    <2> QED BY <2>4, <2>5, <2>6
  <1>11. ASSUME NEW h, Resizes(q, w, h), ~(Tells(e, w, "configure") /\ e.geom[2] # h[2])
         PROVE  Resizes(r, w, h)
    <2>1. PICK i \in About(q, w, "configure") : q[i].geom[2] # h[2]
      BY <1>11 DEF Resizes
    <2>2. i # 1
      BY <1>4, <1>5, <1>11, <2>1
    <2>3. i - 1 \in About(r, w, "configure") /\ r[i - 1] = q[i]
      BY <1>3, <2>2 DEF MovesUp
    <2>4. r[i - 1].geom[2] # h[2]
      BY <2>1, <2>3
    <2> QED BY <2>3, <2>4 DEF Resizes
  <1> QED BY <1>6, <1>7, <1>8, <1>9, <1>10, <1>11

\* The last event that tells of a new geometry tells of the last one.
LEMMA TailConfigures ==
    ASSUME NEW q \in Seq(Event), q # << >>, NEW w, NEW e, e = Head(q), NEW r, r = Tail(q),
           Tells(e, w, "configure")
    PROVE  \A g : Final(q, w, g) /\ About(r, w, "configure") = {} => e.geom = g
  <1>3. \A type : MovesUp(q, r, w, type)
    BY TailAbout
  <1>4. \A type : 1 \in About(q, w, type) <=> Tells(e, w, type)
    BY TailAbout
  <1>5. q[1] = e
    BY TailAbout
  <1>6. SUFFICES ASSUME NEW g, Final(q, w, g), About(r, w, "configure") = {}
                 PROVE  e.geom = g
    OBVIOUS
  <1>7. 1 \in About(q, w, "configure")
    BY <1>4
  <1>8. PICK i \in About(q, w, "configure") : i >= 1 /\ q[i].geom = g
    BY <1>6, <1>7 DEF Final
  <1>9. i = 1
    BY <1>3, <1>6 DEF MovesUp
  <1> QED BY <1>5, <1>8, <1>9

\* The event that tells of the last unmapping leaves none, and one of the mapping
\* after it.
LEMMA TailUnmaps ==
    ASSUME NEW q \in Seq(Event), q # << >>, NEW w, NEW e, e = Head(q), NEW r, r = Tail(q),
           Tells(e, w, "unmap")
    PROVE  /\ Remapped(q, w) => About(r, w, "map") # {}
           /\ Once(q, w) => About(r, w, "unmap") = {}
  <1>1. \A type : WasBehind(q, r, w, type)
    BY TailAbout
  <1>2. \A type : About(q, w, type) \subseteq Nat \ {0}
    BY TailAbout
  <1>3. \A type : MovesUp(q, r, w, type)
    BY TailAbout
  <1>4. \A type : 1 \in About(q, w, type) <=> Tells(e, w, type)
    BY TailAbout
  <1>6. 1 \in About(q, w, "unmap")
    BY <1>4
  <1>7. ASSUME Remapped(q, w) PROVE About(r, w, "map") # {}
    <2>1. PICK j \in About(q, w, "map") : j > 1
      BY <1>6, <1>7 DEF Remapped
    <2>2. j # 1
      BY <1>2, <2>1
    <2> QED BY <1>3, <2>2 DEF MovesUp
  <1>8. ASSUME Once(q, w), NEW i \in About(r, w, "unmap") PROVE FALSE
    <2>1. i + 1 \in About(q, w, "unmap") /\ i \in Nat \ {0}
      BY <1>1 DEF WasBehind
    <2>2. i + 1 = 1
      BY <1>6, <1>8, <2>1 DEF Once
    <2> QED BY <2>1, <2>2
  <1> QED BY <1>7, <1>8

-----------------------------------------------------------------------------
\* What holds of each window.

\* The record of a popup follows the popup: an event that is not read yet
\* announces whatever makes them differ.
PopupFollowed(s, w) ==
    /\ w \in s.windows \ s.viewable => About(s.events, w, "unmap") # {}
    /\ w \in s.viewable \ s.windows => About(s.events, w, "map") # {}
    /\ w \in s.viewable => Remapped(s.events, w)
    /\ Final(s.events, w, s.geom[w])
    /\ w \in s.windows \cap s.viewable /\ About(s.events, w, "unmap") = {} =>
         s.at[w] = s.geom[w] \/ About(s.events, w, "configure") # {}
    /\ w \notin s.hidden \cup s.direct

\* The record of a client has its geometry, and lasts until the event that tells
\* that it was unmapped.
ClientFollowed(s, w) ==
    /\ w \in s.windows => s.at[w] = s.geom[w]
    /\ w \in s.viewable => w \in s.windows
    /\ w \in s.windows \ s.viewable => About(s.events, w, "unmap") # {}
    /\ About(s.events, w, "unmap") # {} => w \in s.windows \ s.viewable
    /\ Once(s.events, w)

Followed(s, w) ==
    /\ w \in Popup => PopupFollowed(s, w)
    /\ w \in Client => ClientFollowed(s, w)

\* The pixmap of a composited window is of its storage, or an event will make awm
\* name it anew.
PixmapOK(s, w) ==
    /\ s.pixmap[w] = "current" => w \in s.viewable
    /\ w \in Client /\ w \in s.viewable \ s.direct => s.pixmap[w] = "current"
    /\ w \in Popup /\ w \in s.windows \cap s.viewable /\ About(s.events, w, "unmap") = {} =>
         s.pixmap[w] = "current" \/ Resizes(s.events, w, s.at[w])

\* A composited window has a damage object.
DamageOK(s, w) ==
    w \in s.windows \ s.direct /\ (w \in s.viewable \/ w \in Popup) => w \in s.damage

\* Where the overlay is not dirty it shows a window only where the record of the
\* window says, and no window that is hidden.
ShownOK(s, w) ==
    /\ \A p \in Place : s.screen[<<w, p>>] # "nothing" /\ <<w, p>> \notin s.dirty =>
         w \in s.windows /\ p = s.at[w][1]
    /\ w \in s.hidden /\ <<w, s.at[w][1]>> \notin s.dirty =>
         s.screen[<<w, s.at[w][1]>>] = "nothing"

\* There it shows what the pixmap of the window holds, or a report of damage is to
\* come.
LatestOK(s, w) ==
    /\ w \in s.windows \ (s.hidden \cup s.direct) /\ s.pixmap[w] = "current"
    /\ <<w, s.at[w][1]>> \notin s.dirty
    => s.screen[<<w, s.at[w][1]>>] = "latest" \/ w \in Reported(s.events)

WindowOK(s, w) ==
    /\ Followed(s, w) /\ PixmapOK(s, w) /\ DamageOK(s, w)
    /\ ShownOK(s, w) /\ LatestOK(s, w)

\* All windows.
Sound(s) == Good(s) /\ \A w \in Window : WindowOK(s, w)

-----------------------------------------------------------------------------
\* What does not concern a window.

Move == {"map", "unmap", "configure"}

\* The events of r about w promise what those of q do.
SameMoves(q, r, w) ==
    /\ \A type \in Move : About(q, w, type) = {} <=> About(r, w, type) = {}
    /\ Remapped(q, w) => Remapped(r, w)
    /\ Once(q, w) => Once(r, w)
    /\ \A g : Final(q, w, g) => Final(r, w, g)
    /\ \A h : Resizes(q, w, h) => Resizes(r, w, h)
    /\ w \in Reported(q) => w \in Reported(r)

\* Of window w state t keeps all, but that more of it may be dirty.
Spares(s, t, w) ==
    /\ w \in t.viewable <=> w \in s.viewable
    /\ w \in t.windows <=> w \in s.windows
    /\ w \in t.direct <=> w \in s.direct
    /\ w \in t.hidden <=> w \in s.hidden
    /\ w \in s.damage => w \in t.damage
    /\ t.geom[w] = s.geom[w] /\ t.at[w] = s.at[w] /\ t.pixmap[w] = s.pixmap[w]
    /\ \A p \in Place : /\ t.screen[<<w, p>>] = s.screen[<<w, p>>]
                        /\ <<w, p>> \in s.dirty => <<w, p>> \in t.dirty
    /\ SameMoves(s.events, t.events, w)

\* Nothing that holds of a window is lost when it is spared.
LEMMA Spared ==
    ASSUME NEW s, NEW t, NEW w \in Window, Good(s), Spares(s, t, w)
    PROVE  /\ Followed(s, w) => Followed(t, w)
           /\ PixmapOK(s, w) => PixmapOK(t, w)
           /\ DamageOK(s, w) => DamageOK(t, w)
           /\ ShownOK(s, w) => ShownOK(t, w)
           /\ LatestOK(s, w) => LatestOK(t, w)
           /\ WindowOK(s, w) => WindowOK(t, w)
  <1>1. \A type \in Move : About(s.events, w, type) = {} <=> About(t.events, w, type) = {}
    BY DEF Spares, SameMoves
  <1>2. Followed(s, w) => Followed(t, w)
    <2>1. PopupFollowed(s, w) => PopupFollowed(t, w)
      BY <1>1 DEF Spares, SameMoves, PopupFollowed, Move
    <2>2. ClientFollowed(s, w) => ClientFollowed(t, w)
      BY <1>1 DEF Spares, SameMoves, ClientFollowed, Move
    <2> QED BY <2>1, <2>2 DEF Followed
  <1>3. PixmapOK(s, w) => PixmapOK(t, w)
    BY <1>1 DEF Spares, SameMoves, PixmapOK, Move
  <1>4. DamageOK(s, w) => DamageOK(t, w)
    BY DEF Spares, DamageOK
  <1>5. s.at[w][1] \in Place
    BY DEF Good, State, Place
  <1>6. ShownOK(s, w) => ShownOK(t, w)
    BY <1>5 DEF Spares, ShownOK
  <1>7. LatestOK(s, w) => LatestOK(t, w)
    BY <1>5 DEF Spares, SameMoves, LatestOK
  <1> QED BY <1>2, <1>3, <1>4, <1>6, <1>7 DEF WindowOK

\* A queue that is the same, or has one event more that concerns another window
\* or moves none.
LEMMA SameMovesAppend ==
    ASSUME NEW q \in Seq(Event), NEW e \in Event, NEW w \in Window, NEW r, r = Append(q, e),
           e.win # w \/ e.type \notin Move
    PROVE  SameMoves(q, r, w) /\ SameMoves(q, q, w)
  <1>1. ~Tells(e, w, "map") /\ ~Tells(e, w, "unmap") /\ ~Tells(e, w, "configure")
    BY DEF Tells, Move
  <1>2. ASSUME NEW type \in Move
        PROVE  About(q, w, type) = {} <=> About(r, w, type) = {}
    <2>1. \A kind : About(r, w, kind) = {} <=>
            About(q, w, kind) = {} /\ ~Tells(e, w, kind)
      BY AppendMoves
    <2>2. ~Tells(e, w, type)
      BY DEF Tells, Move
    <2> QED BY <2>1, <2>2
  <1>3. /\ (Once(q, w) => Once(r, w)) /\ (Remapped(q, w) => Remapped(r, w))
        /\ \A g : Final(q, w, g) => Final(r, w, g)
        /\ \A h : Resizes(q, w, h) => Resizes(r, w, h)
    BY <1>1, AppendMoves
  <1>4. w \in Reported(q) => w \in Reported(r)
    BY AppendEvent
  <1> QED BY <1>2, <1>3, <1>4 DEF SameMoves

\* One event less, of the same kind.
LEMMA SameMovesTail ==
    ASSUME NEW q \in Seq(Event), q # << >>, NEW w \in Window, NEW e, e = Head(q),
           NEW r, r = Tail(q), e.win # w \/ e.type \notin Move \cup {"damage"}
    PROVE  SameMoves(q, r, w)
  <1>1. ~Tells(e, w, "map") /\ ~Tells(e, w, "unmap") /\ ~Tells(e, w, "configure")
    BY DEF Tells, Move
  <1>2. ASSUME NEW type \in Move
        PROVE  About(q, w, type) = {} <=> About(r, w, type) = {}
    <2>1. /\ \A kind : About(q, w, kind) = {} => About(r, w, kind) = {}
          /\ \A kind : ~Tells(e, w, kind) =>
               (About(r, w, kind) = {} => About(q, w, kind) = {})
      BY TailMoves
    <2>2. ~Tells(e, w, type)
      BY DEF Tells, Move
    <2> QED BY <2>1, <2>2
  <1>3. (Once(q, w) => Once(r, w)) /\ (Remapped(q, w) => Remapped(r, w))
    BY TailMoves
  <1>4. \A g : Final(q, w, g) => Final(r, w, g)
    BY TailMoves
  <1>5. \A h : Resizes(q, w, h) => Resizes(r, w, h)
    BY <1>1, TailMoves
  <1>6. w \in Reported(q) => w \in Reported(r)
    BY TailEvent
  <1> QED BY <1>2, <1>3, <1>4, <1>5, <1>6 DEF SameMoves

\* Destroying the damage object of another window changes the type of reports of
\* that window only.
LEMMA SameMovesDestroy ==
    ASSUME NEW q \in Seq(Event), NEW v \in Window, NEW w \in Window, NEW r,
           r = damage_destroy(q, v)
    PROVE  /\ v # w => SameMoves(q, r, w)
           /\ \A type \in Move : About(q, w, type) = {} <=> About(r, w, type) = {}
           /\ Remapped(q, w) => Remapped(r, w)
           /\ Once(q, w) => Once(r, w)
           /\ \A g : Final(q, w, g) => Final(r, w, g)
           /\ \A h : Resizes(q, w, h) => Resizes(r, w, h)
  <1>1. DOMAIN q = 1..Len(q) /\ \A i \in DOMAIN q : q[i] \in Event
    OBVIOUS
  <1>2. /\ DOMAIN r = DOMAIN q
        /\ \A i \in DOMAIN q :
             /\ r[i].win = q[i].win /\ r[i].geom = q[i].geom
             /\ \A type \in Move : r[i].type = type <=> q[i].type = type
    BY <1>1 DEF damage_destroy, Event, Move
  <1>3. \A type \in Move : About(r, w, type) = About(q, w, type)
    BY <1>2 DEF About
  <1>4. \A i \in About(q, w, "configure") : r[i].geom = q[i].geom
    BY <1>2 DEF About
  <1>5. /\ Remapped(q, w) => Remapped(r, w)
        /\ Once(q, w) => Once(r, w)
        /\ \A g : Final(q, w, g) => Final(r, w, g)
        /\ \A h : Resizes(q, w, h) => Resizes(r, w, h)
    BY <1>3, <1>4 DEF Remapped, Once, Final, Resizes, Move
  <1>6. v # w => (w \in Reported(q) => w \in Reported(r))
    BY DestroyEvent
  <1> QED BY <1>3, <1>5, <1>6 DEF SameMoves

\* A window spared twice is spared.
LEMMA SparesAfter ==
    ASSUME NEW s, NEW t, NEW u, NEW w, Spares(s, t, w), Spares(t, u, w)
    PROVE  Spares(s, u, w)
  <1>1. SameMoves(s.events, u.events, w)
    BY DEF Spares, SameMoves
  <1> QED BY <1>1 DEF Spares

\* A state that spares all windows is sound.
LEMMA SoundSpared ==
    ASSUME NEW s, NEW t, Sound(s), Good(t), \A w \in Window : Spares(s, t, w)
    PROVE  Sound(t)
  BY Spared DEF Sound

-----------------------------------------------------------------------------
\* What the compositor's functions spare.

\* Scheduling spares every window.
LEMMA ScheduleSpares ==
    ASSUME NEW s, Good(s), NEW w \in Window
    PROVE  Spares(s, schedule_repaint(s), w)
  <1> DEFINE t == schedule_repaint(s)
  <1>1. /\ t.viewable = s.viewable /\ t.windows = s.windows /\ t.direct = s.direct
        /\ t.hidden = s.hidden /\ t.damage = s.damage /\ t.geom = s.geom
        /\ t.at = s.at /\ t.pixmap = s.pixmap /\ t.screen = s.screen
        /\ t.dirty = s.dirty /\ t.events = s.events
    BY DEF schedule_repaint, comp_arm_vblank, Good, State
  <1> HIDE DEF t
  <1> QED BY <1>1 DEF Spares, SameMoves, t

\* So does making a window dirty.
LEMMA DirtySpares ==
    ASSUME NEW s, Good(s), NEW v \in Window, NEW w \in Window
    PROVE  /\ Spares(s, comp_dirty(s, v), w)
           /\ comp_dirty(s, v).dirty = s.dirty \cup {<<v, s.at[v][1]>>}
  <1> DEFINE t == comp_dirty(s, v)
  <1>1. /\ t.viewable = s.viewable /\ t.windows = s.windows /\ t.direct = s.direct
        /\ t.hidden = s.hidden /\ t.damage = s.damage /\ t.geom = s.geom
        /\ t.at = s.at /\ t.pixmap = s.pixmap /\ t.screen = s.screen
        /\ t.dirty = s.dirty \cup {<<v, s.at[v][1]>>} /\ t.events = s.events
    BY DEF comp_dirty, Good, State
  <1> HIDE DEF t
  <1> QED BY <1>1 DEF Spares, SameMoves, t

\* An event spares the other windows, and if it moves none the window too.
LEMMA SendSpares ==
    ASSUME NEW s, Good(s), NEW type \in EventType, NEW v \in Window, NEW g \in Geometry,
           NEW w \in Window, v # w \/ type \notin Move
    PROVE  Spares(s, Send(s, type, v, g), w)
  <1> DEFINE e == [type |-> type, win |-> v, geom |-> g]
             r == Append(s.events, e)
             t == Send(s, type, v, g)
  <1>1. e \in Event /\ (e.win # w \/ e.type \notin Move) /\ s.events \in Seq(Event)
    BY DEF Event, Good, State
  <1>2. /\ t.viewable = s.viewable /\ t.windows = s.windows /\ t.direct = s.direct
        /\ t.hidden = s.hidden /\ t.damage = s.damage /\ t.geom = s.geom
        /\ t.at = s.at /\ t.pixmap = s.pixmap /\ t.screen = s.screen
        /\ t.dirty = s.dirty /\ t.events = r
    BY DEF Send, Good, State
  <1> HIDE DEF e
  <1>3. SameMoves(s.events, r, w)
    BY <1>1, SameMovesAppend
  <1> HIDE DEF t, r
  <1> QED BY <1>2, <1>3 DEF Spares, t

\* So does a new damage object.
LEMMA CreateSpares ==
    ASSUME NEW s, Good(s), NEW v \in s.windows, NEW w \in Window
    PROVE  Spares(s, damage_create(s, v), w) /\ v \in damage_create(s, v).damage
  <1> DEFINE e == [type |-> "damage", win |-> v, geom |-> s.geom[v]]
             r == Append(s.events, e)
             t == damage_create(s, v)
  <1>1. e \in Event /\ e.type \notin Move /\ s.events \in Seq(Event)
    BY DEF Event, EventType, Move, Good, State
  <1>2. /\ t.viewable = s.viewable /\ t.windows = s.windows /\ t.direct = s.direct
        /\ t.hidden = s.hidden /\ t.damage = s.damage \cup {v} /\ t.geom = s.geom
        /\ t.at = s.at /\ t.pixmap = s.pixmap /\ t.screen = s.screen
        /\ t.dirty = s.dirty /\ t.events = r
    BY DEF damage_create, Send, Good, State
  <1> HIDE DEF e
  <1>3. SameMoves(s.events, r, w)
    BY <1>1, SameMovesAppend
  <1> HIDE DEF t, r
  <1> QED BY <1>2, <1>3 DEF Spares, t

\* Releasing what a record owns spares the other windows.
LEMMA FreeSpares ==
    ASSUME NEW s, Good(s), NEW v \in Window, NEW w \in Window, v # w
    PROVE  Spares(s, comp_free_win(s, v), w)
  <1> DEFINE r == damage_destroy(s.events, v)
             t == comp_free_win(s, v)
  <1>1. s.events \in Seq(Event)
    BY DEF Good, State
  <1>2. SameMoves(s.events, r, w)
    BY <1>1, SameMovesDestroy
  <1>3. /\ t.viewable = s.viewable /\ t.windows = s.windows /\ t.direct = s.direct
        /\ t.hidden = s.hidden /\ t.damage = s.damage \ {v} /\ t.geom = s.geom
        /\ t.at = s.at /\ t.pixmap[w] = s.pixmap[w] /\ t.screen = s.screen
        /\ t.dirty = s.dirty /\ t.events = r
    BY DEF comp_free_win, Good, State
  <1> HIDE DEF t, r
  <1> QED BY <1>2, <1>3 DEF Spares, t

\* So does forgetting a record,
LEMMA RemoveSpares ==
    ASSUME NEW s, Good(s), NEW v \in s.windows, NEW w \in Window, v # w
    PROVE  Spares(s, comp_remove(s, v), w)
  <1> DEFINE d == comp_dirty(s, v)
             f == comp_free_win(d, v)
             t == comp_remove(s, v)
  <1>1. v \in Window
    BY DEF Good, State
  <1>2. Good(d) /\ Spares(s, d, w)
    BY <1>1, DirtyGood, DirtySpares
  <1>3. Good(f) /\ Spares(d, f, w)
    <2> HIDE DEF d
    <2> QED BY <1>1, <1>2, FreeGood, FreeSpares
  <1>4. Spares(s, f, w)
    BY <1>2, <1>3, SparesAfter
  <1>5. t = [f EXCEPT !.windows = @ \ {v}, !.direct = @ \ {v}, !.hidden = @ \ {v}]
    BY DEF comp_remove
  <1> HIDE DEF f, t
  <1>6. /\ t.viewable = f.viewable /\ t.windows = f.windows \ {v}
        /\ t.direct = f.direct \ {v} /\ t.hidden = f.hidden \ {v}
        /\ t.damage = f.damage /\ t.geom = f.geom
        /\ t.at = f.at /\ t.pixmap = f.pixmap /\ t.screen = f.screen
        /\ t.dirty = f.dirty /\ t.events = f.events
    BY <1>3, <1>5 DEF Good, State
  <1>7. Spares(f, t, w)
    BY <1>6 DEF Spares, SameMoves
  <1>8. Spares(s, t, w)
    BY <1>4, <1>7, SparesAfter
  <1> QED BY <1>8 DEF t

\* and naming the pixmap of one.
LEMMA RefreshSpares ==
    ASSUME NEW s, Good(s), NEW v \in s.windows, NEW w \in Window, v # w
    PROVE  Spares(s, comp_refresh_pixmap(s, v), w)
  <1> DEFINE t == comp_refresh_pixmap(s, v)
  <1>1. v \in Window
    BY DEF Good, State
  <1>2. /\ t.viewable = s.viewable /\ t.windows = s.windows /\ t.direct = s.direct
        /\ t.hidden = s.hidden /\ t.damage = s.damage /\ t.geom = s.geom
        /\ t.at = s.at /\ t.pixmap[w] = s.pixmap[w] /\ t.screen = s.screen
        /\ s.dirty \subseteq t.dirty /\ t.events = s.events
    BY <1>1 DEF comp_refresh_pixmap, comp_dirty, Good, State
  <1> HIDE DEF t
  <1> QED BY <1>2 DEF Spares, SameMoves, t

\* The window itself gets the pixmap it should have, and loses nothing.
LEMMA RefreshOwn ==
    ASSUME NEW s, Good(s), NEW w \in s.windows
    PROVE  LET t == comp_refresh_pixmap(s, w)
           IN  /\ PixmapOK(t, w) /\ LatestOK(t, w)
               /\ Followed(s, w) => Followed(t, w)
               /\ DamageOK(s, w) => DamageOK(t, w)
               /\ ShownOK(s, w) => ShownOK(t, w)
  <1> DEFINE t == comp_refresh_pixmap(s, w)
  <1>1. w \in Window
    BY DEF Good, State
  <1>2. /\ t.viewable = s.viewable /\ t.windows = s.windows /\ t.direct = s.direct
        /\ t.hidden = s.hidden /\ t.damage = s.damage /\ t.geom = s.geom
        /\ t.at = s.at /\ t.screen = s.screen /\ t.events = s.events
    BY <1>1 DEF comp_refresh_pixmap, comp_dirty, Good, State
  <1>3. /\ w \in s.viewable => /\ t.pixmap[w] = "current"
                               /\ t.dirty = s.dirty \cup {<<w, s.at[w][1]>>}
        /\ w \notin s.viewable => t.pixmap[w] = "none" /\ t.dirty = s.dirty
    BY <1>1 DEF comp_refresh_pixmap, comp_dirty, Good, State
  <1> HIDE DEF t
  <1>4. PixmapOK(t, w)
    BY <1>2, <1>3 DEF PixmapOK
  <1>5. Followed(s, w) => Followed(t, w)
    BY <1>2 DEF Followed, PopupFollowed, ClientFollowed
  <1>6. DamageOK(s, w) => DamageOK(t, w)
    BY <1>2 DEF DamageOK
  <1>7. ShownOK(s, w) => ShownOK(t, w)
    BY <1>2, <1>3 DEF ShownOK
  <1>8. LatestOK(t, w)
    BY <1>2, <1>3 DEF LatestOK
  <1> QED BY <1>4, <1>5, <1>6, <1>7, <1>8 DEF t

\* Naming a pixmap anew leaves all windows in order.
LEMMA RefreshSound ==
    ASSUME NEW s, Sound(s), NEW v \in s.windows
    PROVE  Sound(comp_refresh_pixmap(s, v))
  <1> DEFINE t == comp_refresh_pixmap(s, v)
  <1>1. Good(t) /\ v \in Window
    BY RefreshGood DEF Sound, Good, State
  <1>2. ASSUME NEW w \in Window, w # v PROVE WindowOK(t, w)
    BY <1>2, RefreshSpares, Spared DEF Sound
  <1>3. WindowOK(t, v)
    <2>1. Good(s) /\ WindowOK(s, v)
      BY <1>1 DEF Sound
    <2> QED BY <2>1, RefreshOwn DEF WindowOK
  <1> HIDE DEF t
  <1> QED BY <1>1, <1>2, <1>3 DEF Sound, t

\* So do making a window dirty, scheduling, a new damage object, and an event that
\* moves nothing.
LEMMA SparingSound ==
    ASSUME NEW s, Sound(s), NEW v \in Window
    PROVE  /\ Sound(comp_dirty(s, v)) /\ Sound(schedule_repaint(s))
           /\ v \in s.windows => Sound(damage_create(s, v))
           /\ \A type \in EventType, g \in Geometry :
                type \notin Move => Sound(Send(s, type, v, g))
  <1>1. Good(s)
    BY DEF Sound
  <1>2. Sound(comp_dirty(s, v))
    BY <1>1, DirtyGood, DirtySpares, SoundSpared
  <1>3. Sound(schedule_repaint(s))
    BY <1>1, ScheduleGood, ScheduleSpares, SoundSpared DEF Fine
  <1>4. v \in s.windows => Sound(damage_create(s, v))
    BY <1>1, CreateGood, CreateSpares, SoundSpared
  <1>5. ASSUME NEW type \in EventType, NEW g \in Geometry, type \notin Move
        PROVE  Sound(Send(s, type, v, g))
    <2>1. Good(Send(s, type, v, g))
      BY <1>1, SendGood
    <2>2. \A w \in Window : Spares(s, Send(s, type, v, g), w)
      BY <1>1, <1>5, SendSpares
    <2> QED BY <2>1, <2>2, SoundSpared
  <1> QED BY <1>2, <1>3, <1>4, <1>5

\* A window that is added to the records is in order: its record is made from what
\* it is now.
LEMMA AddOwn ==
    ASSUME NEW s, Good(s), NEW w \in s.viewable \ s.windows, ShownOK(s, w),
           w \in Popup => /\ Remapped(s.events, w) /\ Final(s.events, w, s.geom[w])
                          /\ w \notin s.hidden \cup s.direct,
           w \in Client => About(s.events, w, "unmap") = {}
    PROVE  WindowOK(comp_add_by_xid(s, w), w)
  <1> DEFINE u == [s EXCEPT !.windows = @ \cup {w}, !.at[w] = s.geom[w]]
             r == comp_refresh_pixmap(u, w)
             t == damage_create(r, w)
  <1>1. w \in Window /\ s.geom[w] \in Geometry
    BY DEF Good, State
  <1>2. Good(u) /\ w \in u.windows
    BY <1>1 DEF Good, State, Owned
  <1>3. /\ u.viewable = s.viewable /\ u.direct = s.direct /\ u.hidden = s.hidden
        /\ u.geom = s.geom /\ u.at[w] = s.geom[w] /\ u.screen = s.screen
        /\ u.dirty = s.dirty /\ u.events = s.events
    BY <1>1 DEF Good, State
  <1>4. w \notin s.hidden
    BY DEF Good, Owned
  <1>5. comp_add_by_xid(s, w) = t
    BY DEF comp_add_by_xid
  <1> HIDE DEF u
  <1>6. Followed(u, w)
    <2>1. w \in Popup => PopupFollowed(u, w)
      BY <1>2, <1>3 DEF PopupFollowed
    <2>2. w \in Client => ClientFollowed(u, w)
      BY <1>2, <1>3 DEF ClientFollowed, Once
    <2> QED BY <2>1, <2>2 DEF Followed
  <1>7. ShownOK(u, w)
    BY <1>2, <1>3, <1>4 DEF ShownOK
  <1>8. Good(r) /\ w \in r.windows
    BY <1>2, RefreshGood
  <1>9. Followed(r, w) /\ ShownOK(r, w) /\ PixmapOK(r, w) /\ LatestOK(r, w)
    BY <1>2, <1>6, <1>7, RefreshOwn
  <1> HIDE DEF r
  <1>10. Spares(r, t, w) /\ w \in t.damage
    BY <1>1, <1>8, CreateSpares
  <1> HIDE DEF t
  <1>11. DamageOK(t, w)
    BY <1>10 DEF DamageOK
  <1>12. WindowOK(t, w)
    BY <1>1, <1>8, <1>9, <1>10, <1>11, Spared DEF WindowOK
  <1> QED BY <1>5, <1>12

\* The others are spared.
LEMMA AddSpares ==
    ASSUME NEW s, Good(s), NEW v \in Window, NEW w \in Window, v # w
    PROVE  Spares(s, comp_add_by_xid(s, v), w)
  <1> DEFINE u == [s EXCEPT !.windows = @ \cup {v}, !.at[v] = s.geom[v]]
             r == comp_refresh_pixmap(u, v)
             t == damage_create(r, v)
  <1>1. Spares(s, s, w)
    BY DEF Spares, SameMoves
  <1>2. CASE v \in s.windows \/ v \notin s.viewable
    BY <1>1, <1>2 DEF comp_add_by_xid
  <1>3. CASE ~(v \in s.windows \/ v \notin s.viewable)
    <2>1. s.geom[v] \in Geometry
      BY DEF Good, State
    <2>2. Good(u) /\ v \in u.windows
      BY <2>1 DEF Good, State, Owned
    <2>3. /\ u.viewable = s.viewable /\ u.windows = s.windows \cup {v}
          /\ u.direct = s.direct /\ u.hidden = s.hidden /\ u.damage = s.damage
          /\ u.geom = s.geom /\ u.at[w] = s.at[w] /\ u.pixmap = s.pixmap
          /\ u.screen = s.screen /\ u.dirty = s.dirty /\ u.events = s.events
      BY DEF Good, State
    <2>4. comp_add_by_xid(s, v) = t
      BY <1>3 DEF comp_add_by_xid
    <2> HIDE DEF u
    <2>5. Spares(s, u, w)
      BY <2>3 DEF Spares, SameMoves
    <2>6. Good(r) /\ v \in r.windows /\ Spares(u, r, w)
      BY <2>2, RefreshGood, RefreshSpares
    <2> HIDE DEF r
    <2>7. Spares(r, t, w)
      BY <2>6, CreateSpares
    <2> HIDE DEF t
    <2>8. Spares(s, r, w)
      BY <2>5, <2>6, SparesAfter
    <2>9. Spares(s, t, w)
      BY <2>7, <2>8, SparesAfter
    <2> QED BY <2>4, <2>9
  <1> QED BY <1>2, <1>3

\* A window hidden or shown again is dirty.
LEMMA HiddenSound ==
    ASSUME NEW s, Sound(s), NEW c \in Client, NEW hidden \in BOOLEAN
    PROVE  Sound(compositor_set_hidden(s, c, hidden))
  <1> DEFINE u == [s EXCEPT !.hidden = IF hidden THEN @ \cup {c} ELSE @ \ {c}]
             t == comp_dirty(u, c)
  <1>1. CASE c \notin s.windows \/ hidden = (c \in s.hidden)
    BY <1>1 DEF compositor_set_hidden
  <1>2. CASE c \in s.windows /\ hidden # (c \in s.hidden)
    <2>1. Good(s) /\ c \in Window /\ c \notin Popup
      BY WindowAssumption DEF Sound, Window
    <2>2. Good(u)
      BY <1>2, <2>1 DEF Good, State, Owned
    <2>3. Good(t)
      <3> HIDE DEF u
      <3> QED BY <2>1, <2>2, DirtyGood
    <2>4. /\ t.viewable = s.viewable /\ t.windows = s.windows /\ t.direct = s.direct
          /\ t.damage = s.damage /\ t.geom = s.geom /\ t.at = s.at
          /\ t.pixmap = s.pixmap /\ t.screen = s.screen /\ t.events = s.events
          /\ t.dirty = s.dirty \cup {<<c, s.at[c][1]>>}
          /\ \A w \in Window \ {c} : w \in t.hidden <=> w \in s.hidden
      BY <2>1 DEF comp_dirty, Good, State
    <2>5. compositor_set_hidden(s, c, hidden) = schedule_repaint(t)
      BY <1>2 DEF compositor_set_hidden
    <2> HIDE DEF t
    <2>6. ASSUME NEW w \in Window \ {c} PROVE WindowOK(t, w)
      <3>1. Spares(s, t, w)
        BY <2>4 DEF Spares, SameMoves
      <3> QED BY <2>1, <3>1, Spared DEF Sound
    <2>7. WindowOK(t, c)
      <3>1. WindowOK(s, c)
        BY <2>1 DEF Sound
      <3>2. Followed(t, c) /\ PixmapOK(t, c) /\ DamageOK(t, c)
        BY <2>1, <2>4, <3>1 DEF WindowOK, Followed, ClientFollowed, PixmapOK, DamageOK
      <3>3. ShownOK(t, c) /\ LatestOK(t, c)
        BY <2>4, <3>1 DEF WindowOK, ShownOK, LatestOK
      <3> QED BY <3>2, <3>3 DEF WindowOK
    <2>8. Sound(t)
      BY <2>3, <2>6, <2>7 DEF Sound
    <2> QED BY <2>1, <2>5, <2>8, SparingSound
  <1> QED BY <1>1, <1>2

\* What a program draws is on the overlay no longer, but the damage object of a
\* composited window has reported, or had before.
LEMMA DrawSound ==
    ASSUME Sound(comp), Fine(comp), NEW v \in Window
    PROVE  Sound(Report(Change(comp, v), v))
  <1> DEFINE s == Change(comp, v)
             t == Report(s, v)
             e == [type |-> "damage", win |-> v, geom |-> comp.geom[v]]
             r == Append(comp.events, e)
  <1>1. Fine(s) /\ Fine(t)
    BY ChangeFine, ReportFine
  <1>2. e \in Event /\ e.type = "damage" /\ e.win = v /\ comp.events \in Seq(Event)
    BY DEF Fine, Good, State, Event, EventType
  <1>3. \A w \in Window : SameMoves(comp.events, r, w) /\ SameMoves(comp.events, comp.events, w)
    <2>1. e.type \notin Move
      BY <1>2 DEF Move
    <2> HIDE DEF e
    <2> QED BY <1>2, <2>1, SameMovesAppend
  <1>4. v \in Reported(r)
    <2> HIDE DEF e
    <2> QED BY <1>2, AppendEvent
  <1>5. /\ t.viewable = comp.viewable /\ t.windows = comp.windows
        /\ t.direct = comp.direct /\ t.hidden = comp.hidden /\ t.damage = comp.damage
        /\ t.geom = comp.geom /\ t.at = comp.at /\ t.pixmap = comp.pixmap
        /\ t.dirty = comp.dirty
    BY DEF Report, Send, Change, Fine, Good, State
  <1>6. t.screen = [a \in Area |-> IF a[1] = v /\ comp.screen[a] = "latest" THEN "old"
                                                                        ELSE comp.screen[a]]
    BY DEF Report, Send, Change, Fine, Good, State
  <1>7. t.events = IF v \in comp.damage \ comp.full THEN r ELSE comp.events
    BY DEF Report, Send, Change, Fine, Good, State
  <1>8. v \in comp.damage => v \in Reported(t.events)
    BY <1>4, <1>7 DEF Fine, Good
  <1>9. \A w \in Window : SameMoves(comp.events, t.events, w)
    BY <1>3, <1>7
  <1> HIDE DEF t, s, r, e
  <1>10. \A w \in Window, p \in Place : <<w, p>> \in Area
    BY DEF Area
  <1>11. ASSUME NEW w \in Window, w # v PROVE WindowOK(t, w)
    <2>1. \A p \in Place : t.screen[<<w, p>>] = comp.screen[<<w, p>>]
      BY <1>6, <1>10, <1>11
    <2>2. Spares(comp, t, w)
      BY <1>5, <1>9, <2>1 DEF Spares
    <2> QED BY <2>2, Spared DEF Sound
  <1>12. WindowOK(t, v)
    <2>1. WindowOK(comp, v)
      BY DEF Sound
    <2>2. \A p \in Place : t.screen[<<v, p>>] = "nothing" <=> comp.screen[<<v, p>>] = "nothing"
      BY <1>6, <1>10
    <2>3. comp.at[v][1] \in Place
      BY DEF Fine, Good, State, Place
    <2>4. ShownOK(t, v)
      BY <1>5, <2>1, <2>2, <2>3 DEF WindowOK, ShownOK
    <2>5. LatestOK(t, v)
      <3> SUFFICES ASSUME v \in comp.windows \ comp.direct, comp.pixmap[v] = "current"
                   PROVE  v \in Reported(t.events)
        BY <1>5 DEF LatestOK
      <3>1. v \in comp.viewable
        BY <2>1 DEF WindowOK, PixmapOK
      <3>2. v \in comp.damage
        BY <2>1, <3>1 DEF WindowOK, DamageOK
      <3> QED BY <1>8, <3>2
    <2>6. /\ \A type \in Move : About(comp.events, v, type) = {} <=> About(t.events, v, type) = {}
          /\ Remapped(comp.events, v) => Remapped(t.events, v)
          /\ Once(comp.events, v) => Once(t.events, v)
          /\ \A g : Final(comp.events, v, g) => Final(t.events, v, g)
          /\ \A h : Resizes(comp.events, v, h) => Resizes(t.events, v, h)
      BY <1>9 DEF SameMoves
    <2>7. Followed(t, v)
      BY <1>5, <2>1, <2>6 DEF WindowOK, Followed, PopupFollowed, ClientFollowed, Move
    <2>8. PixmapOK(t, v) /\ DamageOK(t, v)
      BY <1>5, <2>1, <2>6 DEF WindowOK, PixmapOK, DamageOK, Move
    <2> QED BY <2>4, <2>5, <2>7, <2>8 DEF WindowOK
  <1>13. Good(t)
    BY <1>1 DEF Fine
  <1> QED BY <1>11, <1>12, <1>13 DEF Sound, t, s

\* A repaint shows every window in order.
LEMMA RepaintSound ==
    ASSUME NEW s, Sound(s)
    PROVE  Sound(comp_do_repaint(s))
  <1> DEFINE t == comp_do_repaint(s)
  <1>1. CASE s.paused
    BY <1>1 DEF comp_do_repaint
  <1>2. CASE ~s.paused
    <2>1. Good(t)
      BY RepaintGood DEF Sound, Fine
    <2>2. /\ t.viewable = s.viewable /\ t.windows = s.windows /\ t.direct = s.direct
          /\ t.hidden = s.hidden /\ t.damage = s.damage /\ t.geom = s.geom
          /\ t.at = s.at /\ t.pixmap = s.pixmap /\ t.events = s.events
      BY <1>2 DEF comp_do_repaint, Sound, Good, State
    <2>3. t.screen = [a \in Area |-> IF a \in s.dirty THEN Drawn(s, a[1], a[2])
                                                     ELSE s.screen[a]]
      BY <1>2 DEF comp_do_repaint, Sound, Good, State
    <2> HIDE DEF t
    <2>4. ASSUME NEW w \in Window PROVE WindowOK(t, w)
      <3>1. WindowOK(s, w)
        BY DEF Sound
      <3>2. ASSUME NEW p \in Place
            PROVE  t.screen[<<w, p>>] = IF <<w, p>> \in s.dirty THEN Drawn(s, w, p)
                                                             ELSE s.screen[<<w, p>>]
        <4>1. <<w, p>> \in Area
          BY DEF Area
        <4> QED BY <2>3, <4>1
      <3>3. s.at[w][1] \in Place
        BY DEF Sound, Good, State, Place
      <3>4. Followed(t, w) /\ PixmapOK(t, w) /\ DamageOK(t, w)
        BY <2>2, <3>1 DEF WindowOK, Followed, PopupFollowed, ClientFollowed,
                          PixmapOK, DamageOK
      <3>5. ShownOK(t, w)
        <4>1. ASSUME NEW p \in Place, t.screen[<<w, p>>] # "nothing"
              PROVE  w \in s.windows /\ p = s.at[w][1]
          BY <3>1, <3>2, <4>1 DEF WindowOK, ShownOK, Drawn
        <4>2. ASSUME w \in s.hidden PROVE t.screen[<<w, s.at[w][1]>>] = "nothing"
          BY <3>1, <3>2, <3>3, <4>2 DEF WindowOK, ShownOK, Drawn
        <4> QED BY <2>2, <4>1, <4>2 DEF ShownOK
      <3>6. LatestOK(t, w)
        BY <2>2, <3>1, <3>2, <3>3 DEF WindowOK, LatestOK, Drawn
      <3> QED BY <3>4, <3>5, <3>6 DEF WindowOK
    <2> QED BY <2>1, <2>4 DEF Sound, t
  <1> QED BY <1>1, <1>2

\* Changing nothing but what is scheduled leaves all windows in order.
LEMMA ScheduleSound ==
    ASSUME NEW s, NEW t, Sound(s), Good(t),
           t.viewable = s.viewable, t.windows = s.windows, t.direct = s.direct,
           t.hidden = s.hidden, t.damage = s.damage, t.geom = s.geom, t.at = s.at,
           t.pixmap = s.pixmap, t.screen = s.screen, s.dirty \subseteq t.dirty,
           t.events = s.events
    PROVE  Sound(t)
  <1>1. \A w \in Window : Spares(s, t, w)
    BY DEF Spares, SameMoves
  <1> QED BY <1>1, SoundSpared

-----------------------------------------------------------------------------
\* Steps of programs.

\* A popup that is mapped: the event that tells is the last one.
LEMMA MapPopupSound ==
    ASSUME Sound(comp), Fine(comp), NEW w \in Popup, MapPopup(w)
    PROVE  Sound(comp')
  <1> DEFINE e == [type |-> "map", win |-> w, geom |-> comp.geom[w]]
             t == comp'
  <1>1. Good(t) /\ w \in Window /\ w \notin Client
    BY ProgramsStep, WindowAssumption DEF Programs, Fine, Window
  <1>2. e \in Event /\ e.win = w /\ Tells(e, w, "map") /\ comp.events \in Seq(Event)
        /\ ~Tells(e, w, "unmap") /\ ~Tells(e, w, "configure")
    BY <1>1 DEF Fine, Good, State, Event, EventType, Tells
  <1>3. /\ t.viewable = comp.viewable \cup {w} /\ t.windows = comp.windows
        /\ t.direct = comp.direct /\ t.hidden = comp.hidden /\ t.damage = comp.damage
        /\ t.geom = comp.geom /\ t.at = comp.at /\ t.pixmap = comp.pixmap
        /\ t.dirty = comp.dirty /\ t.events = Append(comp.events, e)
    BY DEF MapPopup, Send, Change, Fine, Good, State
  <1>4. t.screen = [a \in Area |-> IF a[1] = w /\ comp.screen[a] = "latest" THEN "old"
                                                                        ELSE comp.screen[a]]
    BY DEF MapPopup, Send, Change, Fine, Good, State
  <1> HIDE DEF e, t
  <1>5. \A v \in Window, p \in Place : <<v, p>> \in Area
    BY DEF Area
  <1>6. ASSUME NEW v \in Window, v # w PROVE WindowOK(t, v)
    <2>1. \A p \in Place : t.screen[<<v, p>>] = comp.screen[<<v, p>>]
      BY <1>4, <1>5, <1>6
    <2>2. SameMoves(comp.events, t.events, v)
      BY <1>2, <1>3, <1>6, SameMovesAppend
    <2>3. Spares(comp, t, v)
      BY <1>3, <1>6, <2>1, <2>2 DEF Spares
    <2> QED BY <2>3, Spared DEF Sound
  <1>7. WindowOK(t, w)
    <2>1. /\ WindowOK(comp, w) /\ PopupFollowed(comp, w) /\ w \notin comp.viewable
          /\ comp.pixmap[w] # "current"
      BY <1>1 DEF Sound, WindowOK, Followed, PixmapOK, MapPopup
    <2>2. \A type : About(t.events, w, type) = {} <=>
                      About(comp.events, w, type) = {} /\ ~Tells(e, w, type)
      BY <1>2, <1>3, AppendKinds
    <2>3. /\ Remapped(t.events, w)
          /\ \A g : Final(comp.events, w, g) => Final(t.events, w, g)
      BY <1>2, <1>3, AppendMoves
    <2>4. \A p \in Place : t.screen[<<w, p>>] = "nothing" <=> comp.screen[<<w, p>>] = "nothing"
      BY <1>1, <1>4, <1>5
    <2>5. comp.at[w][1] \in Place
      BY <1>1 DEF Fine, Good, State, Place
    <2>6. Followed(t, w)
      <3>1. PopupFollowed(t, w)
        BY <1>2, <1>3, <2>1, <2>2, <2>3 DEF PopupFollowed
      <3> QED BY <1>1, <3>1 DEF Followed
    <2>7. PixmapOK(t, w)
      BY <1>1, <1>2, <1>3, <2>1, <2>2 DEF PixmapOK, PopupFollowed
    <2>8. DamageOK(t, w)
      BY <1>3, <2>1 DEF WindowOK, DamageOK
    <2>9. ShownOK(t, w)
      BY <1>3, <2>1, <2>4, <2>5 DEF WindowOK, ShownOK
    <2>10. LatestOK(t, w)
      BY <1>3, <2>1 DEF LatestOK
    <2> QED BY <2>6, <2>7, <2>8, <2>9, <2>10 DEF WindowOK
  <1>8. Sound(t)
    BY <1>1, <1>6, <1>7 DEF Sound
  <1> QED BY <1>8 DEF t

\* A window that is unmapped: its pixmap is of storage that is gone.
LEMMA UnmapSound ==
    ASSUME Sound(comp), Fine(comp), NEW w \in Window, UnmapWindow(w)
    PROVE  Sound(comp')
  <1> DEFINE e == [type |-> "unmap", win |-> w, geom |-> comp.geom[w]]
             t == comp'
  <1>1. Good(t)
    BY ProgramsStep DEF Programs, Fine
  <1>2. e \in Event /\ e.win = w /\ Tells(e, w, "unmap") /\ comp.events \in Seq(Event)
        /\ ~Tells(e, w, "map") /\ ~Tells(e, w, "configure")
    BY DEF Fine, Good, State, Event, EventType, Tells
  <1>3. /\ t.viewable = comp.viewable \ {w} /\ t.windows = comp.windows
        /\ t.direct = comp.direct /\ t.hidden = comp.hidden /\ t.damage = comp.damage
        /\ t.geom = comp.geom /\ t.at = comp.at /\ t.screen = comp.screen
        /\ t.dirty = comp.dirty /\ t.events = Append(comp.events, e)
    BY DEF UnmapWindow, Send, Storage, Fine, Good, State
  <1>4. /\ t.pixmap[w] # "current"
        /\ \A v \in Window : v # w => t.pixmap[v] = comp.pixmap[v]
    BY DEF UnmapWindow, Send, Storage, Fine, Good, State
  <1> HIDE DEF e, t
  <1>5. ASSUME NEW v \in Window, v # w PROVE WindowOK(t, v)
    <2>1. SameMoves(comp.events, t.events, v)
      BY <1>2, <1>3, <1>5, SameMovesAppend
    <2>2. Spares(comp, t, v)
      BY <1>3, <1>4, <1>5, <2>1 DEF Spares
    <2> QED BY <2>2, Spared DEF Sound
  <1>6. WindowOK(t, w)
    <2>1. WindowOK(comp, w) /\ w \in comp.viewable
      BY DEF Sound, UnmapWindow
    <2>2. \A type : About(t.events, w, type) = {} <=>
                      About(comp.events, w, type) = {} /\ ~Tells(e, w, type)
      BY <1>2, <1>3, AppendKinds
    <2>3. \A g : Final(comp.events, w, g) => Final(t.events, w, g)
      BY <1>2, <1>3, AppendMoves
    <2>4. About(t.events, w, "unmap") # {}
      BY <1>2, <2>2
    <2>5. w \in Popup => PopupFollowed(t, w)
      BY <1>3, <2>1, <2>3, <2>4 DEF WindowOK, Followed, PopupFollowed
    <2>6. ASSUME w \in Client PROVE ClientFollowed(t, w)
      <3>1. ClientFollowed(comp, w) /\ w \in comp.windows
        BY <2>1, <2>6 DEF WindowOK, Followed, ClientFollowed
      <3>2. About(comp.events, w, "unmap") = {}
        BY <2>1, <3>1 DEF ClientFollowed
      <3>3. Once(t.events, w)
        BY <1>2, <1>3, <3>2, AppendMoves
      <3> QED BY <1>3, <2>4, <3>1, <3>3 DEF ClientFollowed
    <2>7. Followed(t, w)
      BY <2>5, <2>6 DEF Followed
    <2>8. PixmapOK(t, w) /\ DamageOK(t, w) /\ ShownOK(t, w) /\ LatestOK(t, w)
      BY <1>3, <1>4, <2>1 DEF WindowOK, PixmapOK, DamageOK, ShownOK, LatestOK
    <2> QED BY <2>7, <2>8 DEF WindowOK
  <1>7. Sound(t)
    BY <1>1, <1>5, <1>6 DEF Sound
  <1> QED BY <1>7 DEF t

\* A window that moves is also resized: then a pixmap named before it moved is of
\* storage that is gone.
MovesResize == \A g, h \in Geometry : g[2] = h[2] => g = h

\* A popup that is moved: its pixmap is of storage that is gone, and the event that
\* tells of the new geometry is the last one.
LEMMA ConfigurePopupSound ==
    ASSUME Sound(comp), Fine(comp), MovesResize,
           NEW w \in Popup, NEW g \in Geometry, ConfigurePopup(w, g)
    PROVE  Sound(comp')
  <1> DEFINE e == [type |-> "configure", win |-> w, geom |-> g]
             t == comp'
  <1>1. Good(t) /\ w \in Window /\ w \notin Client
    BY ProgramsStep, WindowAssumption DEF Programs, Fine, Window
  <1>2. e \in Event /\ e.win = w /\ e.geom = g /\ Tells(e, w, "configure")
        /\ comp.events \in Seq(Event) /\ ~Tells(e, w, "map") /\ ~Tells(e, w, "unmap")
    BY <1>1 DEF Fine, Good, State, Event, EventType, Tells
  <1>3. comp.geom[w] \in Geometry /\ g[2] # comp.geom[w][2]
    BY <1>1 DEF ConfigurePopup, MovesResize, Fine, Good, State
  <1>4. /\ t.viewable = comp.viewable /\ t.windows = comp.windows
        /\ t.direct = comp.direct /\ t.hidden = comp.hidden /\ t.damage = comp.damage
        /\ t.geom = [comp.geom EXCEPT ![w] = g] /\ t.at = comp.at
        /\ t.dirty = comp.dirty /\ t.events = Append(comp.events, e)
    BY <1>3 DEF ConfigurePopup, Send, Storage, Change, Fine, Good, State
  <1>5. /\ t.pixmap[w] # "current"
        /\ \A v \in Window : v # w => t.pixmap[v] = comp.pixmap[v]
    <2>1. t.pixmap = [comp.pixmap EXCEPT ![w] = IF @ = "current" THEN "stale" ELSE @]
      BY <1>3 DEF ConfigurePopup, Send, Storage, Change, Fine, Good, State
    <2>2. comp.pixmap \in [Window -> Pixmap]
      BY DEF Fine, Good, State
    <2> QED BY <1>1, <2>1, <2>2
  <1>6. t.screen = [a \in Area |-> IF a[1] = w /\ comp.screen[a] = "latest" THEN "old"
                                                                        ELSE comp.screen[a]]
    BY <1>3 DEF ConfigurePopup, Send, Storage, Change, Fine, Good, State
  <1>7. t.geom[w] = g /\ \A v \in Window : v # w => t.geom[v] = comp.geom[v]
    BY <1>1, <1>4 DEF Fine, Good, State
  <1> HIDE DEF e, t
  <1>8. \A v \in Window, p \in Place : <<v, p>> \in Area
    BY DEF Area
  <1>9. ASSUME NEW v \in Window, v # w PROVE WindowOK(t, v)
    <2>1. \A p \in Place : t.screen[<<v, p>>] = comp.screen[<<v, p>>]
      BY <1>6, <1>8, <1>9
    <2>2. SameMoves(comp.events, t.events, v)
      BY <1>2, <1>4, <1>9, SameMovesAppend
    <2>3. Spares(comp, t, v)
      BY <1>4, <1>5, <1>7, <1>9, <2>1, <2>2 DEF Spares
    <2> QED BY <2>3, Spared DEF Sound
  <1>10. WindowOK(t, w)
    <2>1. WindowOK(comp, w) /\ PopupFollowed(comp, w)
      BY <1>1 DEF Sound, WindowOK, Followed
    <2>2. \A type : About(t.events, w, type) = {} <=>
                      About(comp.events, w, type) = {} /\ ~Tells(e, w, type)
      BY <1>2, <1>4, AppendKinds
    <2>3. /\ Remapped(comp.events, w) => Remapped(t.events, w)
          /\ \A h : Resizes(comp.events, w, h) => Resizes(t.events, w, h)
      BY <1>2, <1>4, AppendMoves
    <2>4. Final(t.events, w, g) /\ \A h : g[2] # h[2] => Resizes(t.events, w, h)
      <3>1. Final(t.events, w, e.geom) /\ \A h : e.geom[2] # h[2] => Resizes(t.events, w, h)
        BY <1>2, <1>4, AppendMoves
      <3> QED BY <1>2, <3>1
    <2>5. Followed(t, w)
      <3>1. PopupFollowed(t, w)
        BY <1>2, <1>4, <1>7, <2>1, <2>2, <2>3, <2>4 DEF PopupFollowed
      <3> QED BY <1>1, <3>1 DEF Followed
    <2>6. ASSUME w \in comp.windows \cap comp.viewable, About(comp.events, w, "unmap") = {}
          PROVE  Resizes(t.events, w, comp.at[w])
      <3>1. CASE g[2] # comp.at[w][2]
        BY <2>4, <3>1
      <3>2. CASE g[2] = comp.at[w][2]
        <4>1. comp.at[w] # comp.geom[w]
          BY <1>3, <3>2
        <4>2. About(comp.events, w, "configure") # {}
          BY <2>1, <2>6, <4>1 DEF PopupFollowed
        <4>3. PICK i \in About(comp.events, w, "configure") : comp.events[i].geom = comp.geom[w]
          BY <2>1, <4>2 DEF PopupFollowed, Final
        <4>4. comp.events[i].geom[2] # comp.at[w][2]
          BY <1>3, <3>2, <4>3
        <4>5. Resizes(comp.events, w, comp.at[w])
          BY <4>3, <4>4 DEF Resizes
        <4> QED BY <2>3, <4>5
      <3> QED BY <3>1, <3>2
    <2>7. PixmapOK(t, w)
      BY <1>1, <1>2, <1>4, <1>5, <2>2, <2>6 DEF PixmapOK
    <2>8. DamageOK(t, w)
      BY <1>4, <2>1 DEF WindowOK, DamageOK
    <2>9. \A p \in Place : t.screen[<<w, p>>] = "nothing" <=> comp.screen[<<w, p>>] = "nothing"
      BY <1>1, <1>6, <1>8
    <2>10. comp.at[w][1] \in Place
      BY <1>1 DEF Fine, Good, State, Place
    <2>11. ShownOK(t, w)
      BY <1>4, <2>1, <2>9, <2>10 DEF WindowOK, ShownOK
    <2>12. LatestOK(t, w)
      BY <1>5 DEF LatestOK
    <2> QED BY <2>5, <2>7, <2>8, <2>11, <2>12 DEF WindowOK
  <1>11. Sound(t)
    BY <1>1, <1>9, <1>10 DEF Sound
  <1> QED BY <1>11 DEF t

\* Whatever a program does leaves all windows in order.
LEMMA ProgramsSound ==
    ASSUME Sound(comp), Fine(comp), MovesResize, Programs
    PROVE  Sound(comp')
  <1>1. \A w \in Window : comp.geom[w] \in Geometry
    BY DEF Fine, Good, State
  <1>2. ASSUME NEW w \in Window, Draw(w) PROVE Sound(comp')
    BY <1>2, DrawSound DEF Draw
  <1>3. ASSUME NEW w \in Window, PresentFrame(w) PROVE Sound(comp')
    <2>1. Sound(Report(Change(comp, w), w))
      BY DrawSound
    <2>2. Sound(Send(Report(Change(comp, w), w), "present", w, comp.geom[w]))
      BY <1>1, <2>1, SparingSound DEF EventType, Move
    <2> QED BY <1>3, <2>1, <2>2 DEF PresentFrame
  <1>4. ASSUME NEW c \in Client, RequestMap(c) PROVE Sound(comp')
    BY <1>1, <1>4, SparingSound DEF RequestMap, EventType, Move, Window
  <1> QED BY <1>2, <1>3, <1>4, UnmapSound, MapPopupSound, ConfigurePopupSound DEF Programs

-----------------------------------------------------------------------------
\* Steps of the window manager.

\* A client that is laid out anew: its record is moved with it, and its pixmap is
\* named anew when its storage was.
LEMMA ResizeSound ==
    ASSUME Sound(comp), Fine(comp), NEW c \in Client, NEW g \in Geometry, ResizeClient(c, g)
    PROVE  Sound(comp')
  <1> DEFINE e == [type |-> "configure", win |-> c, geom |-> g]
             s == IF g[2] # comp.geom[c][2] THEN Change(Storage(comp, c), c) ELSE comp
             r == Send([s EXCEPT !.geom[c] = g], "configure", c, g)
             d == comp_dirty(r, c)
             u == [d EXCEPT !.at[c] = g]
             t == comp_dirty(u, c)
  <1>1. c \in Window /\ c \notin Popup /\ c \in comp.windows
    BY WindowAssumption DEF ResizeClient, Managed, Window
  <1>2. Fine(s)
    BY <1>1, StorageFine, ChangeFine
  <1>3. /\ s.viewable = comp.viewable /\ s.windows = comp.windows
        /\ s.direct = comp.direct /\ s.hidden = comp.hidden /\ s.damage = comp.damage
        /\ s.geom = comp.geom /\ s.at = comp.at /\ s.dirty = comp.dirty
        /\ s.events = comp.events
        /\ \A v \in Window : v # c => s.pixmap[v] = comp.pixmap[v]
        /\ g[2] = comp.geom[c][2] => s.pixmap[c] = comp.pixmap[c]
        /\ s.pixmap[c] = "current" => comp.pixmap[c] = "current"
    BY DEF Storage, Change, Fine, Good, State
  <1>4. ASSUME NEW v \in Window, NEW p \in Place
        PROVE  /\ v # c => s.screen[<<v, p>>] = comp.screen[<<v, p>>]
               /\ s.screen[<<v, p>>] = "nothing" <=> comp.screen[<<v, p>>] = "nothing"
    <2>1. <<v, p>> \in Area
      BY DEF Area
    <2>2. s.screen = comp.screen \/
          s.screen = [a \in Area |-> IF a[1] = c /\ comp.screen[a] = "latest"
                                     THEN "old" ELSE comp.screen[a]]
      BY DEF Storage, Change, Fine, Good, State
    <2> QED BY <2>1, <2>2
  <1> HIDE DEF s
  <1>5. Good(r) /\ Good(d)
    <2>1. Good([s EXCEPT !.geom[c] = g])
      BY <1>1, <1>2, MappedFine DEF Fine
    <2>2. Good(r)
      BY <1>1, <2>1, SendGood DEF EventType
    <2> HIDE DEF r
    <2> QED BY <1>1, <2>2, DirtyGood
  <1>6. /\ r.viewable = s.viewable /\ r.windows = s.windows
        /\ r.direct = s.direct /\ r.hidden = s.hidden /\ r.damage = s.damage
        /\ r.geom = [s.geom EXCEPT ![c] = g] /\ r.at = s.at /\ r.dirty = s.dirty
        /\ r.pixmap = s.pixmap /\ r.screen = s.screen
        /\ r.events = Append(s.events, e)
    BY <1>2 DEF Send, Fine, Good, State
  <1>7. comp' = compositor_configure_window(r, c, g)
    BY DEF ResizeClient, s
  <1> HIDE DEF r
  <1>8. /\ u.viewable = r.viewable /\ u.windows = r.windows
        /\ u.direct = r.direct /\ u.hidden = r.hidden /\ u.damage = r.damage
        /\ u.geom = r.geom /\ u.at = [r.at EXCEPT ![c] = g] /\ u.pixmap = r.pixmap
        /\ u.screen = r.screen /\ u.events = r.events
        /\ u.dirty = r.dirty \cup {<<c, r.at[c][1]>>}
    BY <1>5 DEF comp_dirty, Good, State
  <1>9. Good(u)
    <2> HIDE DEF d
    <2> QED BY <1>5 DEF Good, State, Owned
  <1>10. compositor_configure_window(r, c, g) =
           schedule_repaint(IF c \notin r.direct /\ g[2] # r.at[c][2]
                            THEN comp_refresh_pixmap(t, c) ELSE t)
    BY <1>1, <1>3, <1>6 DEF compositor_configure_window
  <1> HIDE DEF u
  <1>11. Good(t) /\ \A w \in Window : Spares(u, t, w)
    BY <1>1, <1>9, DirtyGood, DirtySpares
  <1>12. /\ u.geom[c] = g /\ u.at[c] = g
         /\ \A v \in Window : v # c => u.geom[v] = comp.geom[v] /\ u.at[v] = comp.at[v]
    BY <1>1, <1>3, <1>6, <1>8 DEF Fine, Good, State
  <1>13. t.dirty = u.dirty \cup {<<c, g[1]>>}
    BY <1>1, <1>9, <1>12, DirtySpares
  <1>14. /\ t.viewable = u.viewable /\ t.windows = u.windows /\ t.direct = u.direct
         /\ t.hidden = u.hidden /\ t.damage = u.damage /\ t.geom = u.geom
         /\ t.at = u.at /\ t.pixmap = u.pixmap /\ t.screen = u.screen
         /\ t.events = u.events
    BY <1>9 DEF comp_dirty, Good, State
  <1> HIDE DEF t
  <1>15. e \in Event /\ comp.events \in Seq(Event) /\ e.win = c
    BY <1>1 DEF Fine, Good, State, Event, EventType
  <1>16. /\ ~Tells(e, c, "unmap") /\ ~Tells(e, c, "map")
    BY DEF Tells
  <1>17. t.events = Append(comp.events, e)
    BY <1>3, <1>6, <1>8, <1>14
  <1> HIDE DEF e
  <1>18. ASSUME NEW v \in Window, v # c PROVE WindowOK(t, v)
    <2>1. SameMoves(comp.events, t.events, v)
      BY <1>15, <1>17, <1>18, SameMovesAppend
    <2>2. Spares(comp, t, v)
      BY <1>3, <1>4, <1>6, <1>8, <1>12, <1>13, <1>14, <1>18, <2>1 DEF Spares
    <2> QED BY <2>2, Spared DEF Sound
  <1>19. WindowOK(comp, c) /\ ClientFollowed(comp, c)
    BY <1>1 DEF Sound, WindowOK, Followed
  <1>20. Followed(t, c)
    <2>1. About(t.events, c, "unmap") = {} <=> About(comp.events, c, "unmap") = {}
      <3>1. \A type : About(t.events, c, type) = {} <=>
                        About(comp.events, c, type) = {} /\ ~Tells(e, c, type)
        BY <1>15, <1>17, AppendKinds
      <3> QED BY <1>16, <3>1
    <2>2. Once(comp.events, c) => Once(t.events, c)
      BY <1>15, <1>16, <1>17, AppendMoves
    <2>3. ClientFollowed(t, c)
      BY <1>3, <1>6, <1>8, <1>12, <1>14, <1>19, <2>1, <2>2 DEF ClientFollowed
    <2> QED BY <1>1, <2>3 DEF Followed
  <1>21. DamageOK(t, c)
    BY <1>3, <1>6, <1>8, <1>14, <1>19 DEF WindowOK, DamageOK
  <1>22. ShownOK(t, c)
    <2>1. <<c, comp.at[c][1]>> \in t.dirty /\ <<c, t.at[c][1]>> \in t.dirty
          /\ comp.dirty \subseteq t.dirty
      BY <1>3, <1>6, <1>8, <1>12, <1>13, <1>14
    <2>2. \A p \in Place : t.screen[<<c, p>>] = "nothing" <=> comp.screen[<<c, p>>] = "nothing"
      BY <1>1, <1>4, <1>6, <1>8, <1>14
    <2> QED BY <1>19, <2>1, <2>2 DEF WindowOK, ShownOK
  <1>23. LatestOK(t, c)
    BY <1>12, <1>13, <1>14 DEF LatestOK
  <1>24. c \in t.windows
    BY <1>1, <1>3, <1>6, <1>8, <1>14
  <1>25. CASE c \notin r.direct /\ g[2] # r.at[c][2]
    <2> DEFINE z == comp_refresh_pixmap(t, c)
    <2>1. Good(z)
      BY <1>11, <1>24, RefreshGood
    <2>2. ASSUME NEW v \in Window, v # c PROVE WindowOK(z, v)
      BY <1>11, <1>18, <1>24, <2>2, RefreshSpares, Spared
    <2>3. WindowOK(z, c)
      BY <1>11, <1>20, <1>21, <1>22, <1>24, RefreshOwn DEF WindowOK
    <2>4. comp' = schedule_repaint(z)
      BY <1>7, <1>10, <1>25
    <2> HIDE DEF z
    <2>5. Sound(z)
      BY <2>1, <2>2, <2>3 DEF Sound
    <2> QED BY <1>1, <2>4, <2>5, SparingSound
  <1>26. CASE ~(c \notin r.direct /\ g[2] # r.at[c][2])
    <2>1. c \in comp.direct \/ g[2] = comp.geom[c][2]
      BY <1>1, <1>3, <1>6, <1>19, <1>26 DEF ClientFollowed
    <2>2. PixmapOK(t, c)
      BY <1>1, <1>3, <1>6, <1>8, <1>14, <1>19, <2>1 DEF WindowOK, PixmapOK
    <2>3. WindowOK(t, c)
      BY <1>20, <1>21, <1>22, <1>23, <2>2 DEF WindowOK
    <2>4. Sound(t)
      BY <1>11, <1>18, <2>3 DEF Sound
    <2>5. comp' = schedule_repaint(t)
      BY <1>7, <1>10, <1>26
    <2> QED BY <1>1, <2>4, <2>5, SparingSound
  <1> QED BY <1>25, <1>26

\* A client that is bypassed is painted by nobody; one that is composited again is
\* repainted from a pixmap and a damage object of its own.
LEMMA BypassSound ==
    ASSUME Sound(comp), Fine(comp), NEW c \in Client, NEW bypass \in BOOLEAN,
           BypassWindow(c, bypass)
    PROVE  Sound(comp')
  <1>1. c \in Window /\ c \notin Popup /\ c \in comp.windows /\ Good(comp)
    BY WindowAssumption DEF BypassWindow, Managed, Window, Fine
  <1>2. WindowOK(comp, c) /\ ClientFollowed(comp, c)
    BY <1>1 DEF Sound, WindowOK, Followed
  <1>3. CASE bypass
    <2> DEFINE v == [comp EXCEPT !.direct = @ \cup {c}]
               t == comp_free_win(v, c)
    <2>1. Good(v)
      BY <1>1 DEF Fine, Good, State, Owned
    <2>2. /\ t.viewable = comp.viewable /\ t.windows = comp.windows
          /\ t.direct = comp.direct \cup {c} /\ t.hidden = comp.hidden
          /\ t.geom = comp.geom /\ t.at = comp.at /\ t.screen = comp.screen
          /\ t.dirty = comp.dirty /\ t.events = damage_destroy(comp.events, c)
      BY <1>1 DEF comp_free_win, Good, State
    <2>3. /\ v.viewable = comp.viewable /\ v.windows = comp.windows
          /\ v.direct = comp.direct \cup {c} /\ v.hidden = comp.hidden
          /\ v.damage = comp.damage /\ v.pixmap = comp.pixmap
          /\ v.geom = comp.geom /\ v.at = comp.at /\ v.screen = comp.screen
          /\ v.dirty = comp.dirty /\ v.events = comp.events
      BY <1>1 DEF Good, State
    <2>4. comp' = schedule_repaint(t)
      BY <1>1, <1>3 DEF BypassWindow, compositor_bypass_window
    <2> HIDE DEF v
    <2>5. Good(t) /\ t.pixmap[c] = "none"
      BY <1>1, <2>1, FreeGood
    <2>6. ASSUME NEW w \in Window, w # c PROVE WindowOK(t, w)
      <3>1. Spares(comp, v, w)
        BY <2>3, <2>6 DEF Spares, SameMoves
      <3>2. Spares(v, t, w)
        BY <1>1, <2>1, <2>6, FreeSpares
      <3>3. Spares(comp, t, w)
        BY <3>1, <3>2, SparesAfter
      <3> QED BY <1>1, <3>3, Spared DEF Sound
    <2> HIDE DEF t
    <2>7. WindowOK(t, c)
      <3>1. comp.events \in Seq(Event)
        BY <1>1 DEF Good, State
      <3>2. /\ \A type \in Move : About(comp.events, c, type) = {} <=>
                                    About(t.events, c, type) = {}
            /\ Once(comp.events, c) => Once(t.events, c)
        BY <1>1, <2>2, <3>1, SameMovesDestroy
      <3>3. Followed(t, c)
        BY <1>1, <1>2, <2>2, <3>2 DEF Followed, ClientFollowed, Move
      <3>4. PixmapOK(t, c) /\ DamageOK(t, c) /\ LatestOK(t, c)
        BY <1>1, <2>2, <2>5 DEF PixmapOK, DamageOK, LatestOK
      <3>5. ShownOK(t, c)
        BY <1>2, <2>2 DEF WindowOK, ShownOK
      <3> QED BY <3>3, <3>4, <3>5 DEF WindowOK
    <2>8. Sound(t)
      BY <2>5, <2>6, <2>7 DEF Sound
    <2> QED BY <1>1, <2>4, <2>8, SparingSound
  <1>4. CASE ~bypass
    <2> DEFINE u == [comp EXCEPT !.direct = @ \ {c}]
               t == comp_refresh_pixmap(u, c)
               z == damage_create(t, c)
    <2>1. Good(u) /\ c \in u.windows
      BY <1>1 DEF Good, State, Owned
    <2>2. /\ u.viewable = comp.viewable /\ u.windows = comp.windows
          /\ u.direct = comp.direct \ {c} /\ u.hidden = comp.hidden
          /\ u.damage = comp.damage /\ u.pixmap = comp.pixmap
          /\ u.geom = comp.geom /\ u.at = comp.at /\ u.screen = comp.screen
          /\ u.dirty = comp.dirty /\ u.events = comp.events
      BY <1>1 DEF Good, State
    <2>3. comp' = schedule_repaint(IF t.pixmap[c] # "none" THEN z ELSE t)
      BY <1>1, <1>4 DEF BypassWindow, compositor_bypass_window
    <2> HIDE DEF u
    <2>4. Good(t) /\ c \in t.windows
      BY <2>1, RefreshGood
    <2>5. ASSUME NEW w \in Window, w # c PROVE WindowOK(t, w)
      <3>1. Spares(comp, u, w)
        BY <2>2, <2>5 DEF Spares, SameMoves
      <3>2. Spares(u, t, w)
        BY <2>1, <2>5, RefreshSpares
      <3>3. Spares(comp, t, w)
        BY <3>1, <3>2, SparesAfter
      <3> QED BY <1>1, <3>3, Spared DEF Sound
    <2>6. Followed(u, c) /\ ShownOK(u, c)
      BY <1>1, <1>2, <2>2 DEF WindowOK, Followed, ClientFollowed, ShownOK
    <2>7. Followed(t, c) /\ ShownOK(t, c) /\ PixmapOK(t, c) /\ LatestOK(t, c)
      BY <2>1, <2>6, RefreshOwn
    <2>8. t.viewable = u.viewable /\ t.direct = u.direct
      BY <2>1 DEF comp_refresh_pixmap, comp_dirty, Good, State
    <2> HIDE DEF t
    <2>9. CASE t.pixmap[c] # "none"
      <3>1. Good(z) /\ c \in z.damage /\ \A w \in Window : Spares(t, z, w)
        <4>1. Good(z)
          BY <2>4, CreateGood
        <4>2. \A w \in Window : Spares(t, z, w) /\ c \in z.damage
          BY <2>4, CreateSpares
        <4> QED BY <1>1, <4>1, <4>2
      <3> HIDE DEF z
      <3>2. ASSUME NEW w \in Window, w # c PROVE WindowOK(z, w)
        BY <2>4, <2>5, <3>1, <3>2, Spared
      <3>3. WindowOK(z, c)
        BY <1>1, <2>4, <2>7, <3>1, Spared DEF WindowOK, DamageOK
      <3>4. Sound(z)
        BY <3>1, <3>2, <3>3 DEF Sound
      <3> QED BY <1>1, <2>3, <2>9, <3>4, SparingSound
    <2>10. CASE t.pixmap[c] = "none"
      <3>1. c \notin t.viewable
        BY <2>2, <2>7, <2>8, <2>10 DEF PixmapOK
      <3>2. WindowOK(t, c)
        BY <1>1, <2>7, <3>1 DEF WindowOK, DamageOK
      <3>3. Sound(t)
        BY <2>4, <2>5, <3>2 DEF Sound
      <3> QED BY <1>1, <2>3, <2>10, <3>3, SparingSound
    <2> QED BY <2>9, <2>10
  <1> QED BY <1>3, <1>4

\* Whatever the window manager does leaves all windows in order, as long as it
\* minimises none.
LEMMA ManagerSound ==
    ASSUME Sound(comp), Fine(comp), "hide" \notin Features, Manager
    PROVE  Sound(comp')
  <1>1. Good(comp')
    BY ManagerStep DEF Fine
  <1>2. ASSUME NEW c \in Client, NEW b \in BOOLEAN, SetHidden(c, b) PROVE Sound(comp')
    BY <1>2, HiddenSound DEF SetHidden
  <1>3. ASSUME NEW c \in Client PROVE ~Hide(c) /\ ~Show(c)
    BY DEF Hide, Show
  <1>4. CASE Suspend
    <2>1. /\ comp'.viewable = comp.viewable /\ comp'.windows = comp.windows
          /\ comp'.direct = comp.direct /\ comp'.hidden = comp.hidden
          /\ comp'.damage = comp.damage /\ comp'.geom = comp.geom
          /\ comp'.at = comp.at /\ comp'.pixmap = comp.pixmap
          /\ comp'.screen = comp.screen /\ comp'.dirty = comp.dirty
          /\ comp'.events = comp.events
      BY <1>4 DEF Suspend, Fine, Good, State
    <2> QED BY <1>1, <2>1, ScheduleSound
  <1>5. CASE Resume
    <2>1. /\ comp'.viewable = comp.viewable /\ comp'.windows = comp.windows
          /\ comp'.direct = comp.direct /\ comp'.hidden = comp.hidden
          /\ comp'.damage = comp.damage /\ comp'.geom = comp.geom
          /\ comp'.at = comp.at /\ comp'.pixmap = comp.pixmap
          /\ comp'.screen = comp.screen /\ comp.dirty \subseteq comp'.dirty
          /\ comp'.events = comp.events
      BY <1>5 DEF Resume, compositor_damage_all, schedule_repaint, comp_arm_vblank,
                  Fine, Good, State
    <2> QED BY <1>1, <2>1, ScheduleSound
  <1>6. CASE RepaintNow
    <2> DEFINE s == [comp EXCEPT !.repaint_id = FALSE, !.repaint_pending = FALSE]
               t == comp_do_repaint(s)
    <2>1. Good(s)
      BY ClearGood DEF Fine
    <2>2. /\ s.viewable = comp.viewable /\ s.windows = comp.windows
          /\ s.direct = comp.direct /\ s.hidden = comp.hidden
          /\ s.damage = comp.damage /\ s.geom = comp.geom
          /\ s.at = comp.at /\ s.pixmap = comp.pixmap
          /\ s.screen = comp.screen /\ s.dirty = comp.dirty /\ s.events = comp.events
      BY DEF Fine, Good, State
    <2>3. comp' \in {t, schedule_repaint(t)}
      BY <1>6 DEF RepaintNow, compositor_repaint_now
    <2> HIDE DEF s
    <2>4. Sound(s)
      BY <2>1, <2>2, ScheduleSound
    <2>5. Sound(t)
      BY <2>4, RepaintSound
    <2> HIDE DEF t
    <2>6. Sound(schedule_repaint(t))
      BY <2>5, ScheduleGood, ScheduleSpares, SoundSpared DEF Sound, Fine
    <2> QED BY <2>3, <2>5, <2>6
  <1> QED BY <1>2, <1>3, <1>4, <1>5, <1>6, ResizeSound, BypassSound DEF Manager

-----------------------------------------------------------------------------
\* Events that are read.

\* What reading an event of window w leaves of its promises.
LEMMA ReadOwn ==
    ASSUME Fine(comp), comp.events # << >>
    PROVE  /\ Win \in Window /\ Geom \in Geometry
           /\ Read.viewable = comp.viewable /\ Read.windows = comp.windows
           /\ Read.direct = comp.direct /\ Read.hidden = comp.hidden
           /\ Read.damage = comp.damage /\ Read.geom = comp.geom
           /\ Read.at = comp.at /\ Read.pixmap = comp.pixmap
           /\ Read.screen = comp.screen /\ Read.dirty = comp.dirty
           /\ Read.events = Tail(comp.events)
           /\ comp.events \in Seq(Event)
           /\ \A w \in Window : w # Win \/ Head(comp.events).type \notin Move \cup {"damage"}
                => Spares(comp, Read, w)
  <1>1. Win \in Window /\ Geom \in Geometry
    BY ReadGood
  <1>2. /\ Read.viewable = comp.viewable /\ Read.windows = comp.windows
        /\ Read.direct = comp.direct /\ Read.hidden = comp.hidden
        /\ Read.damage = comp.damage /\ Read.geom = comp.geom
        /\ Read.at = comp.at /\ Read.pixmap = comp.pixmap
        /\ Read.screen = comp.screen /\ Read.dirty = comp.dirty
        /\ Read.events = Tail(comp.events)
    BY DEF Read, Fine, Good, State
  <1>3. comp.events \in Seq(Event)
    BY DEF Fine, Good, State
  <1>4. ASSUME NEW w \in Window, w # Win \/ Head(comp.events).type \notin Move \cup {"damage"}
        PROVE  Spares(comp, Read, w)
    <2>1. Head(comp.events).win # w \/ Head(comp.events).type \notin Move \cup {"damage"}
      BY <1>4 DEF Win
    <2>2. SameMoves(comp.events, Tail(comp.events), w)
      BY <1>3, <2>1, SameMovesTail
    <2> QED BY <1>2, <2>2 DEF Spares
  <1> QED BY <1>1, <1>2, <1>3, <1>4

\* The other windows are spared.
LEMMA ReadSpares ==
    ASSUME Sound(comp), Fine(comp), comp.events # << >>, NEW w \in Window,
           w # Win \/ Head(comp.events).type \notin Move \cup {"damage"}
    PROVE  WindowOK(Read, w)
  <1>1. Spares(comp, Read, w)
    BY ReadOwn
  <1> QED BY <1>1, Spared DEF Sound

\* An event that moves nothing leaves all windows in order.
LEMMA ReadSound ==
    ASSUME Sound(comp), Fine(comp), comp.events # << >>,
           Head(comp.events).type \notin Move \cup {"damage"}
    PROVE  Sound(Read)
  <1>1. \A w \in Window : WindowOK(Read, w)
    BY ReadSpares
  <1>2. Good(Read)
    BY ReadGood DEF Fine
  <1> QED BY <1>1, <1>2 DEF Sound

\* A window that the window manager begins to manage is mapped and has a record.
LEMMA MapRequestSound ==
    ASSUME Sound(comp), Fine(comp), MapRequest
    PROVE  Sound(comp')
  <1> DEFINE w == Win
             s == [Read EXCEPT !.viewable = @ \cup {w}]
             r == Send(s, "map", w, comp.geom[w])
             t == comp_add_by_xid(r, w)
             e == [type |-> "map", win |-> w, geom |-> comp.geom[w]]
  <1>1. comp.events # << >> /\ Head(comp.events).type = "maprequest"
    BY DEF MapRequest, Reads
  <1>2. Sound(Read)
    BY <1>1, ReadSound DEF Move
  <1>3. CASE w \in comp.windows \cup comp.viewable
    BY <1>2, <1>3 DEF MapRequest
  <1>4. CASE w \notin comp.windows \cup comp.viewable
    <2>1. /\ Read.viewable = comp.viewable /\ Read.windows = comp.windows
          /\ Read.geom = comp.geom
      BY <1>1, ReadOwn
    <2>2. w \in Window /\ comp.geom[w] \in Geometry /\ Fine(Read)
      BY <1>1, ReadGood DEF Fine, Good, State
    <2>3. Fine(s)
      BY <2>2, MappedFine
    <2>4. /\ s.viewable = Read.viewable \cup {w} /\ s.windows = Read.windows
          /\ s.direct = Read.direct /\ s.hidden = Read.hidden
          /\ s.damage = Read.damage /\ s.geom = Read.geom
          /\ s.at = Read.at /\ s.pixmap = Read.pixmap
          /\ s.screen = Read.screen /\ s.dirty = Read.dirty /\ s.events = Read.events
      BY <2>2 DEF Fine, Good, State
    <2>5. comp' = schedule_repaint(t)
      <3>1. comp' = compositor_add_window(r, w)
        BY <1>4 DEF MapRequest
      <3>2. r.windows = comp.windows
        BY <2>1, <2>2 DEF Send, Fine, Good, State
      <3> HIDE DEF r
      <3> QED BY <1>4, <3>1, <3>2 DEF compositor_add_window
    <2> HIDE DEF s
    <2>6. Good(r)
      BY <2>2, <2>3, SendGood DEF Fine, EventType
    <2>7. /\ r.viewable = s.viewable /\ r.windows = s.windows
          /\ r.direct = s.direct /\ r.hidden = s.hidden
          /\ r.damage = s.damage /\ r.geom = s.geom
          /\ r.at = s.at /\ r.pixmap = s.pixmap
          /\ r.screen = s.screen /\ r.dirty = s.dirty /\ r.events = Append(s.events, e)
      BY <2>3 DEF Send, Fine, Good, State
    <2> HIDE DEF r
    <2>8. Good(t)
      BY <2>2, <2>6, AddGood
    <2>9. ASSUME NEW v \in Window, v # w PROVE WindowOK(t, v)
      <3>1. Spares(Read, s, v)
        BY <2>4, <2>9 DEF Spares, SameMoves
      <3>2. Spares(s, r, v)
        BY <2>2, <2>3, <2>9, SendSpares DEF Fine, EventType, r
      <3>3. Spares(r, t, v)
        BY <2>2, <2>6, <2>9, AddSpares
      <3>4. Spares(Read, r, v)
        BY <3>1, <3>2, SparesAfter
      <3>5. Spares(Read, t, v)
        BY <3>3, <3>4, SparesAfter
      <3> QED BY <1>2, <3>5, Spared DEF Sound
    <2>10. WindowOK(t, w)
      <3>1. WindowOK(Read, w)
        BY <1>2, <2>2 DEF Sound
      <3>2. e \in Event /\ Tells(e, w, "map") /\ Read.events \in Seq(Event)
        BY <2>2 DEF Event, EventType, Tells, Fine, Good, State
      <3>3. ~Tells(e, w, "unmap") /\ ~Tells(e, w, "configure")
        BY DEF Tells
      <3>4. r.events = Append(Read.events, e)
        BY <2>4, <2>7
      <3> HIDE DEF e
      <3>5. w \in r.viewable \ r.windows
        BY <1>4, <2>1, <2>4, <2>7
      <3>6. ShownOK(r, w)
        BY <2>4, <2>7, <3>1 DEF WindowOK, ShownOK
      <3>7. ASSUME w \in Popup
            PROVE  /\ Remapped(r.events, w) /\ Final(r.events, w, r.geom[w])
                   /\ w \notin r.hidden \cup r.direct
        <4>1. PopupFollowed(Read, w)
          BY <3>1, <3>7 DEF WindowOK, Followed
        <4>2. /\ Remapped(r.events, w)
              /\ \A g : Final(Read.events, w, g) => Final(r.events, w, g)
          BY <3>2, <3>3, <3>4, AppendMoves
        <4> QED BY <2>4, <2>7, <4>1, <4>2 DEF PopupFollowed
      <3>8. ASSUME w \in Client PROVE About(r.events, w, "unmap") = {}
        <4>1. ClientFollowed(Read, w)
          BY <3>1, <3>8 DEF WindowOK, Followed
        <4>2. About(Read.events, w, "unmap") = {}
          BY <1>4, <2>1, <4>1 DEF ClientFollowed
        <4>3. \A type : About(r.events, w, type) = {} <=>
                          About(Read.events, w, type) = {} /\ ~Tells(e, w, type)
          BY <3>2, <3>4, AppendKinds
        <4> QED BY <3>3, <4>2, <4>3
      <3> QED BY <2>6, <3>5, <3>6, <3>7, <3>8, AddOwn
    <2> HIDE DEF t
    <2>11. Sound(t)
      BY <2>8, <2>9, <2>10 DEF Sound
    <2> QED BY <2>2, <2>5, <2>11, SparingSound
  <1> QED BY <1>3, <1>4

\* A window that was mapped has a record, unless it was unmapped again.
LEMMA MapNotifySound ==
    ASSUME Sound(comp), Fine(comp), MapNotify
    PROVE  Sound(comp')
  <1> DEFINE w == Win
             t == comp_add_by_xid(Read, w)
             e == Head(comp.events)
             q == Tail(comp.events)
  <1>1. comp.events # << >> /\ e.type = "map"
    BY DEF MapNotify, Reads
  <1>2. Good(Read) /\ w \in Window
    BY <1>1, ReadGood DEF Fine
  <1>3. Good(t)
    BY <1>2, AddGood
  <1>4. ASSUME NEW v \in Window, v # w PROVE WindowOK(t, v)
    <2>1. WindowOK(Read, v)
      BY <1>1, <1>4, ReadSpares
    <2>2. Spares(Read, t, v)
      BY <1>2, <1>4, AddSpares
    <2> QED BY <1>2, <2>1, <2>2, Spared
  <1>5. WindowOK(t, w)
    <2>1. WindowOK(comp, w)
      BY <1>2 DEF Sound
    <2>2. comp.events \in Seq(Event)
      BY <1>1, ReadOwn
    <2>3. ~Tells(e, w, "unmap") /\ ~Tells(e, w, "configure")
      BY <1>1 DEF Tells
    <2>4. /\ \A type : About(comp.events, w, type) = {} => About(q, w, type) = {}
          /\ \A type : ~Tells(e, w, type) =>
                         (About(q, w, type) = {} => About(comp.events, w, type) = {})
      BY <1>1, <2>2, TailMoves
    <2>5. /\ Remapped(comp.events, w) => Remapped(q, w)
          /\ Once(comp.events, w) => Once(q, w)
      BY <1>1, <2>2, TailMoves
    <2>6. \A g : Final(comp.events, w, g) => Final(q, w, g)
      BY <1>1, <2>2, TailMoves
    <2>7. \A h : Resizes(comp.events, w, h) /\ ~(Tells(e, w, "configure") /\ e.geom[2] # h[2])
                   => Resizes(q, w, h)
      BY <1>1, <2>2, TailMoves
    <2>8. /\ Read.viewable = comp.viewable /\ Read.windows = comp.windows
          /\ Read.direct = comp.direct /\ Read.hidden = comp.hidden
          /\ Read.damage = comp.damage /\ Read.geom = comp.geom
          /\ Read.at = comp.at /\ Read.pixmap = comp.pixmap
          /\ Read.screen = comp.screen /\ Read.dirty = comp.dirty
          /\ Read.events = q
      BY <1>1, ReadOwn
    <2>9. w \in Reported(comp.events) => w \in Reported(q)
      BY <1>1, <2>2, TailEvent
    <2> HIDE DEF e, q
    <2>10. ShownOK(Read, w)
      BY <2>1, <2>8 DEF WindowOK, ShownOK
    <2>11. CASE w \in comp.viewable \ comp.windows
      <3>1. w \in Popup
        <4>1. w \in Client => ClientFollowed(comp, w)
          BY <2>1 DEF WindowOK, Followed
        <4> QED BY <1>2, <2>11, <4>1 DEF ClientFollowed, Window
      <3>2. PopupFollowed(comp, w)
        BY <2>1, <3>1 DEF WindowOK, Followed
      <3>3. /\ Remapped(Read.events, w) /\ Final(Read.events, w, Read.geom[w])
            /\ w \notin Read.hidden \cup Read.direct
        BY <2>5, <2>6, <2>8, <2>11, <3>2 DEF PopupFollowed
      <3>4. w \notin Client
        BY <3>1, WindowAssumption
      <3> QED BY <1>2, <2>8, <2>10, <2>11, <3>3, <3>4, AddOwn
    <2>12. CASE w \notin comp.viewable \ comp.windows
      <3>1. t = Read
        BY <2>8, <2>12 DEF comp_add_by_xid
      <3>2. w \in Popup => PopupFollowed(Read, w)
        BY <2>1, <2>3, <2>4, <2>5, <2>6, <2>8, <2>12 DEF WindowOK, Followed, PopupFollowed
      <3>3. w \in Client => ClientFollowed(Read, w)
        BY <2>1, <2>3, <2>4, <2>5, <2>8 DEF WindowOK, Followed, ClientFollowed
      <3>4. PixmapOK(Read, w) /\ DamageOK(Read, w)
        BY <2>1, <2>3, <2>4, <2>7, <2>8 DEF WindowOK, PixmapOK, DamageOK
      <3>5. LatestOK(Read, w)
        BY <2>1, <2>8, <2>9 DEF WindowOK, LatestOK
      <3> QED BY <2>10, <3>1, <3>2, <3>3, <3>4, <3>5 DEF WindowOK, Followed
    <2> QED BY <2>11, <2>12
  <1>6. comp' = schedule_repaint(t)
    BY DEF MapNotify
  <1> HIDE DEF t
  <1>7. Sound(t)
    BY <1>3, <1>4, <1>5 DEF Sound
  <1> QED BY <1>2, <1>6, <1>7, SparingSound

\* The record of a window that was unmapped goes; when the window was mapped again
\* the event that tells is still to come.
LEMMA UnmapNotifySound ==
    ASSUME Sound(comp), Fine(comp), UnmapNotify
    PROVE  Sound(comp')
  <1> DEFINE w == Win
             e == Head(comp.events)
             q == Tail(comp.events)
  <1>1. comp.events # << >> /\ e.type = "unmap"
    BY DEF UnmapNotify, Reads
  <1>2. Good(Read) /\ w \in Window
    BY <1>1, ReadGood DEF Fine
  <1>3. /\ Read.viewable = comp.viewable /\ Read.windows = comp.windows
        /\ Read.direct = comp.direct /\ Read.hidden = comp.hidden
        /\ Read.damage = comp.damage /\ Read.geom = comp.geom
        /\ Read.at = comp.at /\ Read.pixmap = comp.pixmap
        /\ Read.screen = comp.screen /\ Read.dirty = comp.dirty
        /\ Read.events = q /\ comp.events \in Seq(Event)
    BY <1>1, ReadOwn
  <1>4. \A v \in Window : v # w => WindowOK(Read, v)
    BY <1>1, ReadSpares
  <1>5. WindowOK(comp, w)
    BY <1>2 DEF Sound
  <1>6. Tells(e, w, "unmap") /\ ~Tells(e, w, "map") /\ ~Tells(e, w, "configure")
    BY <1>1 DEF Tells, Win
  <1>7. /\ \A type : About(comp.events, w, type) = {} => About(q, w, type) = {}
        /\ \A type : ~Tells(e, w, type) =>
                       (About(q, w, type) = {} => About(comp.events, w, type) = {})
    BY <1>1, <1>3, TailMoves
  <1>8. /\ Remapped(comp.events, w) => Remapped(q, w) /\ About(q, w, "map") # {}
        /\ Once(comp.events, w) => Once(q, w) /\ About(q, w, "unmap") = {}
    <2>1. /\ Remapped(comp.events, w) => Remapped(q, w)
          /\ Once(comp.events, w) => Once(q, w)
      BY <1>1, <1>3, TailMoves
    <2>2. /\ Remapped(comp.events, w) => About(q, w, "map") # {}
          /\ Once(comp.events, w) => About(q, w, "unmap") = {}
      BY <1>1, <1>3, <1>6, TailUnmaps
    <2> QED BY <2>1, <2>2
  <1>9. \A g : Final(comp.events, w, g) => Final(q, w, g)
    BY <1>1, <1>3, TailMoves
  <1>10. About(comp.events, w, "unmap") # {}
    <2>1. DOMAIN comp.events = 1..Len(comp.events) /\ Len(comp.events) >= 1
          /\ Len(comp.events) \in Nat /\ e = comp.events[1]
      BY <1>1, <1>3
    <2>2. 1 \in DOMAIN comp.events /\ comp.events[1].type = "unmap" /\ comp.events[1].win = w
      BY <1>1, <2>1 DEF Win
    <2> QED BY <2>2 DEF About
  <1> HIDE DEF e, q
  <1>11. q \in Seq(Event)
    BY <1>2, <1>3 DEF Good, State
  <1>12. CASE w \in comp.windows
    <2> DEFINE t == comp_remove(Read, w)
    <2>1. Good(t)
      BY <1>2, <1>3, <1>12, RemoveGood
    <2>2. ASSUME NEW v \in Window, v # w PROVE WindowOK(t, v)
      BY <1>2, <1>3, <1>4, <1>12, <2>2, RemoveSpares, Spared
    <2>3. WindowOK(t, w)
      <3>1. /\ t.viewable = comp.viewable /\ w \notin t.windows /\ w \notin t.direct
            /\ w \notin t.hidden /\ t.geom = comp.geom /\ t.at = comp.at
            /\ t.screen = comp.screen
            /\ t.dirty = comp.dirty \cup {<<w, comp.at[w][1]>>}
            /\ t.events = damage_destroy(q, w)
        BY <1>2, <1>3 DEF comp_remove, comp_free_win, comp_dirty, Good, State
      <3>2. t.pixmap[w] = "none"
        BY <1>2, <1>3 DEF comp_remove, comp_free_win, comp_dirty, Good, State
      <3> HIDE DEF t
      <3>3. /\ \A type \in Move : About(q, w, type) = {} <=> About(t.events, w, type) = {}
            /\ Remapped(q, w) => Remapped(t.events, w)
            /\ Once(q, w) => Once(t.events, w)
            /\ \A g : Final(q, w, g) => Final(t.events, w, g)
        BY <1>2, <1>11, <3>1, SameMovesDestroy
      <3>4. w \in Popup => PopupFollowed(t, w)
        BY <1>5, <1>8, <1>9, <3>1, <3>3 DEF WindowOK, Followed, PopupFollowed, Move
      <3>5. w \in Client => ClientFollowed(t, w)
        BY <1>5, <1>8, <1>10, <3>1, <3>3 DEF WindowOK, Followed, ClientFollowed, Move
      <3>6. PixmapOK(t, w)
        <4>1. ASSUME w \in Client PROVE w \notin comp.viewable
          BY <1>5, <1>10, <4>1 DEF WindowOK, Followed, ClientFollowed
        <4> QED BY <3>1, <3>2, <4>1 DEF PixmapOK
      <3>7. DamageOK(t, w) /\ LatestOK(t, w)
        BY <3>1 DEF DamageOK, LatestOK
      <3>8. ShownOK(t, w)
        BY <1>5, <3>1 DEF WindowOK, ShownOK
      <3> QED BY <3>4, <3>5, <3>6, <3>7, <3>8 DEF WindowOK, Followed
    <2>4. comp' = schedule_repaint(t)
      BY <1>12 DEF UnmapNotify
    <2> HIDE DEF t
    <2>5. Sound(t)
      BY <2>1, <2>2, <2>3 DEF Sound
    <2> QED BY <1>2, <2>4, <2>5, SparingSound
  <1>13. CASE w \notin comp.windows
    <2>1. w \notin Client
      BY <1>5, <1>10, <1>13 DEF WindowOK, Followed, ClientFollowed
    <2>2. w \in Popup => PopupFollowed(Read, w)
      BY <1>3, <1>5, <1>6, <1>7, <1>8, <1>9, <1>13 DEF WindowOK, Followed, PopupFollowed
    <2>3. PixmapOK(Read, w) /\ DamageOK(Read, w) /\ ShownOK(Read, w) /\ LatestOK(Read, w)
      BY <1>3, <1>5, <1>13, <2>1 DEF WindowOK, PixmapOK, DamageOK, ShownOK, LatestOK
    <2>4. Sound(Read)
      BY <1>2, <1>4, <2>1, <2>2, <2>3 DEF Sound, WindowOK, Followed
    <2>5. comp' = schedule_repaint(Read)
      BY <1>13 DEF UnmapNotify
    <2> QED BY <1>2, <2>4, <2>5, SparingSound
  <1> QED BY <1>12, <1>13

\* The record of a popup that moved is moved, and its pixmap named anew when its
\* size is another.
LEMMA ConfigureNotifySound ==
    ASSUME Sound(comp), Fine(comp), MovesResize, ConfigureNotify
    PROVE  Sound(comp')
  <1> DEFINE w == Win
             e == Head(comp.events)
             q == Tail(comp.events)
  <1>1. comp.events # << >> /\ e.type = "configure"
    BY DEF ConfigureNotify, Reads
  <1>2. Good(Read) /\ w \in Window /\ Geom \in Geometry
    BY <1>1, ReadGood DEF Fine
  <1>3. /\ Read.viewable = comp.viewable /\ Read.windows = comp.windows
        /\ Read.direct = comp.direct /\ Read.hidden = comp.hidden
        /\ Read.damage = comp.damage /\ Read.geom = comp.geom
        /\ Read.at = comp.at /\ Read.pixmap = comp.pixmap
        /\ Read.screen = comp.screen /\ Read.dirty = comp.dirty
        /\ Read.events = q /\ comp.events \in Seq(Event)
    BY <1>1, ReadOwn
  <1>4. \A v \in Window : v # w => WindowOK(Read, v)
    BY <1>1, ReadSpares
  <1>5. WindowOK(comp, w)
    BY <1>2 DEF Sound
  <1>6. Tells(e, w, "configure") /\ ~Tells(e, w, "map") /\ ~Tells(e, w, "unmap")
        /\ e.geom = Geom
    BY <1>1 DEF Tells, Win, Geom
  <1>7. /\ \A type : About(comp.events, w, type) = {} => About(q, w, type) = {}
        /\ \A type : ~Tells(e, w, type) =>
                       (About(q, w, type) = {} => About(comp.events, w, type) = {})
    BY <1>1, <1>3, TailMoves
  <1>8. /\ Remapped(comp.events, w) => Remapped(q, w)
        /\ Once(comp.events, w) => Once(q, w)
    BY <1>1, <1>3, TailMoves
  <1>9. \A g : Final(comp.events, w, g) =>
                 Final(q, w, g) /\ (About(q, w, "configure") = {} => Geom = g)
    <2>1. \A g : Final(comp.events, w, g) => Final(q, w, g)
      BY <1>1, <1>3, TailMoves
    <2>2. \A g : Final(comp.events, w, g) /\ About(q, w, "configure") = {} => e.geom = g
      BY <1>1, <1>3, <1>6, TailConfigures
    <2> QED BY <1>6, <2>1, <2>2
  <1>10. \A h : Resizes(comp.events, w, h) /\ ~(Tells(e, w, "configure") /\ e.geom[2] # h[2])
                  => Resizes(q, w, h)
    BY <1>1, <1>3, TailMoves
  <1>11. w \in Reported(comp.events) => w \in Reported(q)
    BY <1>1, <1>3, TailEvent
  <1> HIDE DEF e, q
  <1>12. w \in Client => ClientFollowed(Read, w)
    BY <1>3, <1>5, <1>6, <1>7, <1>8 DEF WindowOK, Followed, ClientFollowed
  <1>13. DamageOK(Read, w) /\ ShownOK(Read, w) /\ LatestOK(Read, w)
    BY <1>3, <1>5, <1>11 DEF WindowOK, DamageOK, ShownOK, LatestOK
  <1>14. CASE w \notin comp.windows \/ w \in Client
    <2>1. w \in Popup => w \notin comp.windows
      BY <1>14, WindowAssumption
    <2>2. w \in Popup => PopupFollowed(Read, w)
      BY <1>3, <1>5, <1>6, <1>7, <1>8, <1>9, <2>1 DEF WindowOK, Followed, PopupFollowed
    <2>3. PixmapOK(Read, w)
      BY <1>3, <1>5, <2>1 DEF WindowOK, PixmapOK
    <2>4. Sound(Read)
      BY <1>2, <1>4, <1>12, <1>13, <2>2, <2>3 DEF Sound, WindowOK, Followed
    <2>5. comp' \in {Read, schedule_repaint(Read)}
      BY <1>14 DEF ConfigureNotify
    <2> QED BY <1>2, <2>4, <2>5, SparingSound
  <1>15. CASE w \in comp.windows /\ w \notin Client
    <2> DEFINE d == comp_dirty(Read, w)
               u == [d EXCEPT !.at[w] = Geom]
               t == comp_refresh_pixmap(u, w)
    <2>1. w \in Popup /\ w \notin Client
      BY <1>2, <1>15 DEF Window
    <2>2. PopupFollowed(comp, w) /\ w \notin comp.direct /\ w \notin comp.hidden
      BY <1>5, <2>1 DEF WindowOK, Followed, PopupFollowed
    <2>3. Good(d)
      BY <1>2, DirtyGood
    <2>4. /\ u.viewable = comp.viewable /\ u.windows = comp.windows
          /\ u.direct = comp.direct /\ u.hidden = comp.hidden
          /\ u.damage = comp.damage /\ u.geom = comp.geom
          /\ u.at = [comp.at EXCEPT ![w] = Geom] /\ u.pixmap = comp.pixmap
          /\ u.screen = comp.screen /\ u.events = q
          /\ u.dirty = comp.dirty \cup {<<w, comp.at[w][1]>>}
      BY <1>2, <1>3 DEF comp_dirty, Good, State
    <2>5. Good(u)
      <3> HIDE DEF d
      <3> QED BY <1>2, <2>3 DEF Good, State, Owned
    <2>6. comp' = schedule_repaint(IF Geom[2] # comp.at[w][2] THEN t ELSE u)
      <3>1. comp' = schedule_repaint(configure_popup(Read, w, Geom))
        BY <1>15 DEF ConfigureNotify
      <3>2. configure_popup(Read, w, Geom) = IF Geom[2] # comp.at[w][2] THEN t ELSE u
        BY <1>3, <2>2 DEF configure_popup
      <3> QED BY <3>1, <3>2
    <2>7. u.at[w] = Geom /\ \A v \in Window : v # w => u.at[v] = comp.at[v]
      BY <1>2, <2>4 DEF Fine, Good, State
    <2> HIDE DEF u
    <2>8. ASSUME NEW v \in Window, v # w PROVE WindowOK(u, v)
      <3>1. Spares(Read, u, v)
        BY <1>3, <2>4, <2>7, <2>8 DEF Spares, SameMoves
      <3> QED BY <1>2, <1>4, <2>8, <3>1, Spared
    <2>9. Followed(u, w)
      <3>1. PopupFollowed(u, w)
        BY <1>6, <1>7, <1>8, <1>9, <2>2, <2>4, <2>7 DEF PopupFollowed
      <3> QED BY <2>1, <3>1 DEF Followed
    <2>10. DamageOK(u, w)
      BY <1>5, <2>4 DEF WindowOK, DamageOK
    <2>11. ShownOK(u, w)
      BY <1>5, <2>2, <2>4 DEF WindowOK, ShownOK
    <2>12. CASE Geom[2] # comp.at[w][2]
      <3>1. Good(t) /\ w \in u.windows
        BY <1>15, <2>4, <2>5, RefreshGood
      <3>2. ASSUME NEW v \in Window, v # w PROVE WindowOK(t, v)
        BY <2>5, <2>8, <3>1, <3>2, RefreshSpares, Spared
      <3>3. WindowOK(t, w)
        BY <2>5, <2>9, <2>10, <2>11, <3>1, RefreshOwn DEF WindowOK
      <3> HIDE DEF t
      <3>4. Sound(t)
        BY <3>1, <3>2, <3>3 DEF Sound
      <3> QED BY <1>2, <2>6, <2>12, <3>4, SparingSound
    <2>13. CASE Geom[2] = comp.at[w][2]
      <3>1. comp.at[w] \in Geometry
        BY <1>2 DEF Fine, Good, State
      <3>2. Geom = comp.at[w]
        BY <1>2, <2>13, <3>1 DEF MovesResize
      <3>3. Resizes(comp.events, w, comp.at[w]) => Resizes(q, w, comp.at[w])
        BY <1>6, <1>10, <3>2
      <3>4. PixmapOK(u, w)
        BY <1>5, <1>6, <1>7, <2>1, <2>4, <2>7, <3>2, <3>3 DEF WindowOK, PixmapOK
      <3>5. LatestOK(u, w)
        BY <2>4, <2>7, <3>2 DEF LatestOK
      <3>6. Sound(u)
        BY <2>5, <2>8, <2>9, <2>10, <2>11, <3>4, <3>5 DEF Sound, WindowOK
      <3> QED BY <1>2, <2>6, <2>13, <3>6, SparingSound
    <2> QED BY <2>12, <2>13
  <1> QED BY <1>14, <1>15

\* A report that is read makes its window dirty.
LEMMA DamageNotifySound ==
    ASSUME Sound(comp), Fine(comp), DamageNotify
    PROVE  Sound(comp')
  <1> DEFINE w == Win
             e == Head(comp.events)
             q == Tail(comp.events)
             u == [Read EXCEPT !.full = @ \ {w}]
             t == handle_damage(Read, w)
  <1>1. comp.events # << >> /\ e.type = "damage"
    BY DEF DamageNotify, Reads
  <1>2. Good(u) /\ w \in Window
    BY <1>1, ReadGood
  <1>3. /\ u.viewable = comp.viewable /\ u.windows = comp.windows
        /\ u.direct = comp.direct /\ u.hidden = comp.hidden
        /\ u.damage = comp.damage /\ u.geom = comp.geom
        /\ u.at = comp.at /\ u.pixmap = comp.pixmap
        /\ u.screen = comp.screen /\ u.dirty = comp.dirty
        /\ u.events = q /\ comp.events \in Seq(Event)
    BY DEF Read, Fine, Good, State
  <1>4. Good(t)
    <2> HIDE DEF u
    <2>1. Good(comp_dirty(u, w))
      BY <1>2, DirtyGood
    <2> QED BY <1>2, <2>1 DEF handle_damage, u
  <1>5. /\ t.viewable = comp.viewable /\ t.windows = comp.windows
        /\ t.direct = comp.direct /\ t.hidden = comp.hidden
        /\ t.damage = comp.damage /\ t.geom = comp.geom
        /\ t.at = comp.at /\ t.pixmap = comp.pixmap
        /\ t.screen = comp.screen /\ comp.dirty \subseteq t.dirty /\ t.events = q
        /\ w \in comp.windows => <<w, comp.at[w][1]>> \in t.dirty
    BY DEF handle_damage, comp_dirty, Read, Fine, Good, State
  <1>6. comp' = schedule_repaint(t)
    BY DEF DamageNotify
  <1>7. ~Tells(e, w, "unmap") /\ ~Tells(e, w, "configure") /\ ~Tells(e, w, "map")
    BY <1>1 DEF Tells
  <1>8. /\ \A type : About(comp.events, w, type) = {} => About(q, w, type) = {}
        /\ \A type : ~Tells(e, w, type) =>
                       (About(q, w, type) = {} => About(comp.events, w, type) = {})
    BY <1>1, <1>3, TailMoves
  <1>9. /\ Remapped(comp.events, w) => Remapped(q, w)
        /\ Once(comp.events, w) => Once(q, w)
    BY <1>1, <1>3, TailMoves
  <1>10. \A g : Final(comp.events, w, g) => Final(q, w, g)
    BY <1>1, <1>3, TailMoves
  <1>11. \A h : Resizes(comp.events, w, h) /\ ~(Tells(e, w, "configure") /\ e.geom[2] # h[2])
                  => Resizes(q, w, h)
    BY <1>1, <1>3, TailMoves
  <1> HIDE DEF t
  <1>12. ASSUME NEW v \in Window, v # w PROVE WindowOK(t, v)
    <2>1. Spares(comp, Read, v) /\ Read.events = q
      BY <1>1, <1>12, ReadOwn
    <2>2. Spares(comp, t, v)
      BY <1>5, <2>1 DEF Spares
    <2> QED BY <2>2, Spared DEF Sound
  <1>13. WindowOK(t, w)
    <2> HIDE DEF e, q
    <2>1. WindowOK(comp, w)
      BY <1>2 DEF Sound
    <2>2. w \in Popup => PopupFollowed(t, w)
      BY <1>5, <1>7, <1>8, <1>9, <1>10, <2>1 DEF WindowOK, Followed, PopupFollowed
    <2>3. w \in Client => ClientFollowed(t, w)
      BY <1>5, <1>7, <1>8, <1>9, <2>1 DEF WindowOK, Followed, ClientFollowed
    <2>4. PixmapOK(t, w) /\ DamageOK(t, w)
      BY <1>5, <1>7, <1>8, <1>11, <2>1 DEF WindowOK, PixmapOK, DamageOK
    <2>5. ShownOK(t, w)
      BY <1>5, <2>1 DEF WindowOK, ShownOK
    <2>6. LatestOK(t, w)
      BY <1>5 DEF LatestOK
    <2> QED BY <2>2, <2>3, <2>4, <2>5, <2>6 DEF WindowOK, Followed
  <1>14. Sound(t)
    BY <1>4, <1>12, <1>13 DEF Sound
  <1> QED BY <1>2, <1>6, <1>14, SparingSound

\* The handler of each type of event leaves all windows in order.
LEMMA HandleSound ==
    ASSUME Sound(comp), Fine(comp), MovesResize, Handle
    PROVE  Sound(comp')
  <1>1. CASE DeadDamageNotify
    <2>1. comp.events # << >> /\ Head(comp.events).type = "dead damage"
      BY <1>1 DEF DeadDamageNotify, Reads
    <2>2. Sound(Read) /\ Win \in Window
      BY <2>1, ReadSound, ReadGood DEF Move
    <2> QED BY <1>1, <2>2, SparingSound DEF DeadDamageNotify
  <1>2. CASE PresentComplete
    <2>1. comp.events # << >> /\ Head(comp.events).type = "present"
      BY <1>2 DEF PresentComplete, Reads
    <2>2. Sound(Read) /\ Win \in Window /\ Read.windows = comp.windows
      BY <2>1, ReadSound, ReadGood DEF Move
    <2>3. Win \in comp.windows => Sound(comp_refresh_pixmap(Read, Win))
      BY <2>2, RefreshSound
    <2> QED BY <1>2, <2>2, <2>3, SparingSound DEF PresentComplete
  <1> QED BY <1>1, <1>2, MapRequestSound, MapNotifySound, UnmapNotifySound,
             ConfigureNotifySound, DamageNotifySound DEF Handle

-----------------------------------------------------------------------------
\* Vertical blanks and the idle source.

\* An answer to a notification leaves all windows in order,
LEMMA VblankSound ==
    ASSUME Sound(comp), Fine(comp), Vblank
    PROVE  Sound(comp')
  <1> DEFINE t == [comp EXCEPT !.vblanks = @ - 1, !.vblank_armed = FALSE]
             u == [t EXCEPT !.repaint_pending = FALSE]
             p == comp_do_repaint(u)
  <1>1. comp.vblanks \in Nat /\ comp.vblanks > 0 /\ comp.vblanks - 1 \in Nat
    BY DEF Vblank, Fine, Good, State
  <1>2. t \in State
    BY <1>1 DEF Fine, Good, State
  <1>3. Good(t)
    BY <1>2 DEF Fine, Good, State, Owned
  <1>4. /\ u.viewable = comp.viewable /\ u.windows = comp.windows
        /\ u.direct = comp.direct /\ u.hidden = comp.hidden
        /\ u.damage = comp.damage /\ u.geom = comp.geom
        /\ u.at = comp.at /\ u.pixmap = comp.pixmap
        /\ u.screen = comp.screen /\ u.dirty = comp.dirty /\ u.events = comp.events
    BY DEF Fine, Good, State
  <1>5. /\ t.viewable = comp.viewable /\ t.windows = comp.windows
        /\ t.direct = comp.direct /\ t.hidden = comp.hidden
        /\ t.damage = comp.damage /\ t.geom = comp.geom
        /\ t.at = comp.at /\ t.pixmap = comp.pixmap
        /\ t.screen = comp.screen /\ t.dirty = comp.dirty /\ t.events = comp.events
    BY DEF Fine, Good, State
  <1>6. CASE ~comp.paused /\ comp.repaint_pending
    <2>1. comp' = comp_arm_vblank(p)
      BY <1>6 DEF Vblank, handle_vblank
    <2>2. Good(u)
      <3> HIDE DEF t
      <3> QED BY <1>3, ClearGood
    <2> HIDE DEF u
    <2>3. Sound(u)
      BY <1>4, <2>2, ScheduleSound
    <2>4. Sound(p)
      BY <2>3, RepaintSound
    <2> HIDE DEF p
    <2> DEFINE z == comp_arm_vblank(p)
    <2>5. Good(z)
      BY <2>4, ArmGood DEF Sound
    <2>6. /\ z.viewable = p.viewable /\ z.windows = p.windows
          /\ z.direct = p.direct /\ z.hidden = p.hidden
          /\ z.damage = p.damage /\ z.geom = p.geom
          /\ z.at = p.at /\ z.pixmap = p.pixmap
          /\ z.screen = p.screen /\ z.dirty = p.dirty /\ z.events = p.events
      BY <2>4 DEF comp_arm_vblank, Sound, Good, State
    <2> HIDE DEF z
    <2>7. Sound(z)
      BY <2>4, <2>5, <2>6, ScheduleSound
    <2> QED BY <2>1, <2>7 DEF z
  <1>7. CASE comp.paused \/ ~comp.repaint_pending
    <2>1. comp' = t
      BY <1>7 DEF Vblank, handle_vblank
    <2> HIDE DEF t
    <2>2. Sound(t)
      BY <1>3, <1>5, ScheduleSound
    <2> QED BY <2>1, <2>2
  <1> QED BY <1>6, <1>7

\* and so does the idle source.
LEMMA RepaintIdleSound ==
    ASSUME Sound(comp), Fine(comp), RepaintIdle
    PROVE  Sound(comp')
  <1> DEFINE s == [comp EXCEPT !.repaint_id = FALSE, !.repaint_pending = FALSE]
  <1>1. Good(s)
    BY ClearGood DEF Fine
  <1>2. /\ s.viewable = comp.viewable /\ s.windows = comp.windows
        /\ s.direct = comp.direct /\ s.hidden = comp.hidden
        /\ s.damage = comp.damage /\ s.geom = comp.geom
        /\ s.at = comp.at /\ s.pixmap = comp.pixmap
        /\ s.screen = comp.screen /\ s.dirty = comp.dirty /\ s.events = comp.events
    BY DEF Fine, Good, State
  <1>3. comp' = comp_do_repaint(s)
    BY DEF RepaintIdle
  <1> HIDE DEF s
  <1>4. Sound(s)
    BY <1>1, <1>2, ScheduleSound
  <1> QED BY <1>3, <1>4, RepaintSound

-----------------------------------------------------------------------------
\* The second inductive invariant, and what follows from it.

\* The compositor starts without windows.
LEMMA InitSound == Init => Sound(comp)
  <1> SUFFICES ASSUME Init PROVE Sound(comp)
    OBVIOUS
  <1>1. Good(comp)
    BY InitInv DEF IInv, Fine
  <1>2. /\ comp.viewable = {} /\ comp.windows = {} /\ comp.direct = {} /\ comp.hidden = {}
        /\ comp.events = << >> /\ comp.dirty = Area
        /\ \A w \in Window : comp.pixmap[w] = "none"
    BY DEF Init, schedule_repaint, comp_arm_vblank
  <1>3. \A w, type : About(comp.events, w, type) = {}
    BY <1>2 DEF About
  <1>4. \A w \in Window, p \in Place : <<w, p>> \in comp.dirty
    BY <1>2 DEF Area
  <1>5. ASSUME NEW w \in Window PROVE WindowOK(comp, w)
    <2>1. PopupFollowed(comp, w) /\ ClientFollowed(comp, w)
      BY <1>2, <1>3 DEF PopupFollowed, ClientFollowed, Final, Once
    <2>2. PixmapOK(comp, w) /\ DamageOK(comp, w) /\ LatestOK(comp, w)
      BY <1>2 DEF PixmapOK, DamageOK, LatestOK
    <2>3. ShownOK(comp, w)
      BY <1>2, <1>4 DEF ShownOK
    <2> QED BY <2>1, <2>2, <2>3 DEF WindowOK, Followed
  <1> QED BY <1>1, <1>5 DEF Sound

\* Every step keeps all windows in order.
LEMMA NextSound ==
    ASSUME "hide" \notin Features, MovesResize
    PROVE  Sound(comp) /\ IInv /\ [Next]_vars => Sound(comp)'
  <1> SUFFICES ASSUME Sound(comp), IInv, [Next]_vars PROVE Sound(comp)'
    OBVIOUS
  <1> USE DEF IInv
  <1>1. CASE Programs
    BY <1>1, ProgramsSound
  <1>2. CASE Manager
    BY <1>2, ManagerSound
  <1>3. CASE Handle
    BY <1>3, HandleSound
  <1>4. CASE Vblank
    BY <1>4, VblankSound
  <1>5. CASE RepaintIdle
    BY <1>5, RepaintIdleSound
  <1>6. CASE UNCHANGED vars
    BY <1>6 DEF vars
  <1> QED BY <1>1, <1>2, <1>3, <1>4, <1>5, <1>6 DEF Next

\* Once every event about a window is read, the overlay shows of it what it should,
\* or is dirty there.
LEMMA SoundIsKnown == Sound(comp) => OutdatedIsKnown
  <1> SUFFICES ASSUME Sound(comp), NEW a \in Area, a[1] \notin comp.direct,
                      a \notin comp.dirty, ~Told(a[1])
               PROVE  comp.screen[a] = Wanted(a[1], a[2])
    BY DEF OutdatedIsKnown
  <1> DEFINE w == a[1]
             p == a[2]
  <1>1. w \in Window /\ p \in Place /\ a = <<w, p>>
    BY DEF Area
  <1>2. WindowOK(comp, w)
    BY <1>1 DEF Sound
  <1>3. \A type : About(comp.events, w, type) = {}
    BY DEF Told, About
  <1>4. w \notin Reported(comp.events)
    BY DEF Told, Reported
  <1> HIDE DEF w, p
  <1>5. ~Resizes(comp.events, w, comp.at[w])
    BY <1>3 DEF Resizes
  <1>6. w \in comp.windows <=> w \in comp.viewable
    BY <1>1, <1>2, <1>3 DEF WindowOK, Followed, PopupFollowed, ClientFollowed, Window
  <1>7. w \in comp.windows => comp.at[w] = comp.geom[w]
    BY <1>1, <1>2, <1>3, <1>6 DEF WindowOK, Followed, PopupFollowed, ClientFollowed, Window
  <1>8. w \notin comp.direct /\ a = <<w, p>>
    BY <1>1 DEF w
  <1>9. w \in comp.windows => comp.pixmap[w] = "current"
    BY <1>1, <1>2, <1>3, <1>5, <1>6, <1>8 DEF WindowOK, PixmapOK, Window
  <1>10. comp.screen[a] = Wanted(w, p)
    <2>1. CASE w \in comp.windows /\ p = comp.at[w][1]
      BY <1>2, <1>4, <1>6, <1>7, <1>8, <1>9, <2>1 DEF WindowOK, ShownOK, LatestOK, Wanted
    <2>2. CASE ~(w \in comp.windows /\ p = comp.at[w][1])
      BY <1>1, <1>2, <1>6, <1>7, <1>8, <2>2 DEF WindowOK, ShownOK, Wanted
    <2> QED BY <2>1, <2>2
  <1> QED BY <1>10 DEF w, p

\* Whatever the overlay shows wrongly of a composited window is dirty or announced
\* by an event that is not read yet, in whatever order programs, the window manager
\* and the X server act; as long as no window is minimised, and none moves without
\* being resized.
THEOREM OutdatedAlwaysKnown ==
    ASSUME "hide" \notin Features, \A g, h \in Geometry : g[2] = h[2] => g = h
    PROVE  Spec => []OutdatedIsKnown
  <1>1. Sound(comp) /\ IInv /\ [Next]_vars => Sound(comp)'
    BY NextSound DEF MovesResize
  <1> QED BY <1>1, InitSound, SoundIsKnown, InductiveInvariant, PTL DEF Spec
=============================================================================

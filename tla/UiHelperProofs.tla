--------------------------- MODULE UiHelperProofs ---------------------------
(***************************************************************************)
(* Theorems about awm-ui.  The first part is about UiHelper, for every set *)
(* of windows, every capacity of a PREVIEW_DONE and any number of helpers, *)
(* previews and queued messages: its types, who owns a snapshot, that the  *)
(* launcher's flag does not stay up, and that a helper that has read its   *)
(* socket has the settings.  The second part is about Launcher, for any    *)
(* files, texts and counts: its types, what Return launches, and that the  *)
(* history survives.                                                       *)
(***************************************************************************)
EXTENDS UiHelper, Launcher, ListProofs

\* The snapshots that a message carries, and those in a queue.
Load(m) ==
    IF m.type = "PREVIEW_SHOW" THEN m.entries
    ELSE IF m.type = "PREVIEW_DONE" THEN m.xids
    ELSE {}

LoadOf(queue) == UNION {Load(m) : m \in Members(queue)}

\* No snapshot is in two messages of a queue.
Apart(queue) ==
    \A i, j \in 1 .. Len(queue) : i # j => Load(queue[i]) \cap Load(queue[j]) = {}

\* The snapshots of one popup, at most as many as it has windows.
Batch(entries) ==
    /\ entries \subseteq Snapshot /\ IsFiniteSet(entries)
    /\ \A p \in entries : Cardinality(entries) <= p.of

\* The last message of the type in the queue carries the version.
Newest(queue, type, version) ==
    \A i \in 1 .. Len(queue) :
        /\ queue[i].type = type
        /\ \A j \in 1 .. Len(queue) : j > i => queue[j].type # type
        => queue[i].version = version

TypeInv ==
    /\ helper \in Helper /\ helper.gen # 0
    /\ ui_fd \in {0, helper.gen} /\ launcher_xwin \in {0, ui_fd}
    /\ revents \subseteq {"IN", "HUP"} /\ respawn \in BOOLEAN
    /\ launcher_visible \in BOOLEAN /\ settings \in Settings
    /\ pixmaps \subseteq Snapshot /\ shows \in Nat
    /\ down \in Seq(DownMessage) /\ up \in Seq(UpMessage)

\* awm has a socket as long as the helper lives, and what the poll reported
\* still holds when it is served.
LinkOK ==
    /\ Connected => ~respawn
    /\ helper.alive => Connected
    /\ ~Connected => ~launcher_visible
    /\ "HUP" \in revents => ~helper.alive
    /\ revents # {} /\ "HUP" \notin revents => up # <<>>

\* Every batch has the size its snapshots tell; a snapshot is of a helper
\* and of a show that have been.
BatchesOK ==
    /\ \A i \in 1 .. Len(down) : Batch(Load(down[i]))
    /\ Batch(helper.cards)
    /\ \A p \in pixmaps : p.gen <= helper.gen /\ p.show < shows

\* While the helper lives a snapshot is in one message or on one card.
OwnersOK ==
    helper.alive =>
        /\ LoadOf(down) \cup helper.cards \cup LoadOf(up) \subseteq pixmaps
        /\ Apart(down) /\ Apart(up)
        /\ LoadOf(down) \cap helper.cards = {} /\ helper.cards \cap LoadOf(up) = {}
        /\ LoadOf(down) \cap LoadOf(up) = {}
        /\ \A p \in pixmaps \ (LoadOf(down) \cup helper.cards \cup LoadOf(up)) :
              p.gen = ui_fd => p.of > DoneCap

\* The settings the helper will have when it has read its socket.
NewsOK ==
    helper.alive =>
        /\ Newest(down, "MONITOR_GEOM", settings.geom)
        /\ Newest(down, "THEME", settings.theme)

IInv ==
    /\ TypeInv /\ LinkOK /\ BatchesOK /\ OwnersOK /\ NewsOK
    /\ FlagNotStuck /\ SettingsDelivered

-----------------------------------------------------------------------------
(***************************************************************************)
(* Queues of messages.                                                     *)
(***************************************************************************)

\* A message that is sent joins the others at the end.
LEMMA QueueAppend ==
    ASSUME NEW T, NEW q \in Seq(T), NEW m \in T
    PROVE  /\ Append(q, m) \in Seq(T) /\ Append(q, m) # <<>>
           /\ LoadOf(Append(q, m)) = LoadOf(q) \cup Load(m)
           /\ Types(Append(q, m)) = Types(q) \cup {m.type}
           /\ Apart(q) /\ Load(m) \cap LoadOf(q) = {} => Apart(Append(q, m))
  <1> DEFINE r == Append(q, m)
  <1>1. /\ r \in Seq(T) /\ r # <<>> /\ Len(r) = Len(q) + 1 /\ Len(q) \in Nat
        /\ \A i \in 1 .. Len(q) : r[i] = q[i]
        /\ r[Len(q) + 1] = m
    BY AppendProperties
  <1>2. Members(r) = Members(q) \cup {m}
    BY MembersAppend
  <1> HIDE DEF r
  <1>3. LoadOf(r) = LoadOf(q) \cup Load(m) /\ Types(r) = Types(q) \cup {m.type}
    BY <1>2 DEF LoadOf, Types
  <1>4. ASSUME Apart(q), Load(m) \cap LoadOf(q) = {} PROVE Apart(r)
    <2>1. \A i \in 1 .. Len(r) : i \in 1 .. Len(q) \/ i = Len(q) + 1
      BY <1>1
    <2>2. \A i \in 1 .. Len(q) : Load(q[i]) \subseteq LoadOf(q)
      BY MembersFacts DEF LoadOf
    <2>3. \A i \in 1 .. Len(q) : Load(q[i]) \cap Load(m) = {}
      BY <1>4, <2>2
    <2> SUFFICES ASSUME NEW i \in 1 .. Len(r), NEW j \in 1 .. Len(r), i # j
                 PROVE  Load(r[i]) \cap Load(r[j]) = {}
      BY DEF Apart
    <2>4. CASE i \in 1 .. Len(q) /\ j \in 1 .. Len(q)
      BY <1>1, <1>4, <2>4 DEF Apart
    <2>5. CASE i \in 1 .. Len(q) /\ j = Len(q) + 1
      BY <1>1, <2>3, <2>5
    <2>6. CASE i = Len(q) + 1 /\ j \in 1 .. Len(q)
      BY <1>1, <2>3, <2>6
    <2> QED BY <2>1, <2>4, <2>5, <2>6
  <1> QED BY <1>1, <1>3, <1>4 DEF r

\* A message that is taken from the head leaves the others.
LEMMA QueueTail ==
    ASSUME NEW T, NEW q \in Seq(T), q # <<>>
    PROVE  /\ Head(q) \in T /\ Tail(q) \in Seq(T)
           /\ LoadOf(q) = LoadOf(Tail(q)) \cup Load(Head(q))
           /\ Types(q) = Types(Tail(q)) \cup {Head(q).type}
           /\ Apart(q) => Apart(Tail(q)) /\ Load(Head(q)) \cap LoadOf(Tail(q)) = {}
  <1> DEFINE r == Tail(q)
             m == Head(q)
  <1>1. /\ r \in Seq(T) /\ Len(r) = Len(q) - 1 /\ Len(q) \in Nat \ {0} /\ m \in T
        /\ \A i \in 1 .. Len(r) : r[i] = q[i + 1]
        /\ m = q[1]
    BY HeadTailProperties, EmptySeq
  <1>2. Members(q) = Members(r) \cup {m}
    BY MembersTail
  <1>3. Members(r) = {r[i] : i \in 1 .. Len(r)}
    BY <1>1, MembersFacts
  <1> HIDE DEF r, m
  <1>4. LoadOf(q) = LoadOf(r) \cup Load(m) /\ Types(q) = Types(r) \cup {m.type}
    BY <1>2 DEF LoadOf, Types
  <1>5. ASSUME Apart(q) PROVE Apart(r) /\ Load(m) \cap LoadOf(r) = {}
    <2>1. /\ 1 \in 1 .. Len(q)
          /\ \A i \in 1 .. Len(r) : i + 1 \in 1 .. Len(q) /\ i + 1 # 1
          /\ \A i, j \in 1 .. Len(r) : i # j => i + 1 # j + 1
      BY <1>1
    <2>2. Apart(r)
      BY <1>1, <1>5, <2>1 DEF Apart
    <2>3. \A i \in 1 .. Len(r) : Load(m) \cap Load(r[i]) = {}
      BY <1>1, <1>5, <2>1 DEF Apart
    <2>4. Load(m) \cap LoadOf(r) = {}
      BY <1>3, <2>3 DEF LoadOf
    <2> QED BY <2>2, <2>4
  <1> QED BY <1>1, <1>4, <1>5 DEF r, m

\* What a queue tells of a version, before and after a message is sent.
LEMMA NewestAppend ==
    ASSUME NEW T, NEW q \in Seq(T), NEW m \in T, NEW type, NEW v
    PROVE  /\ m.type = type /\ m.version = v => Newest(Append(q, m), type, v)
           /\ m.type # type /\ Newest(q, type, v) => Newest(Append(q, m), type, v)
  <1> DEFINE r == Append(q, m)
  <1>1. /\ r \in Seq(T) /\ Len(r) = Len(q) + 1 /\ Len(q) \in Nat
        /\ \A i \in 1 .. Len(q) : r[i] = q[i]
        /\ r[Len(q) + 1] = m
    BY AppendProperties
  <1> HIDE DEF r
  <1>2. /\ \A i \in 1 .. Len(r) : i \in 1 .. Len(q) \/ i = Len(q) + 1
        /\ \A i \in 1 .. Len(q) : i \in 1 .. Len(r) /\ Len(q) + 1 > i
        /\ Len(q) + 1 \in 1 .. Len(r)
    BY <1>1
  <1>3. ASSUME m.type = type, m.version = v PROVE Newest(r, type, v)
    BY <1>1, <1>2, <1>3 DEF Newest
  <1>4. ASSUME m.type # type, Newest(q, type, v) PROVE Newest(r, type, v)
    <2> SUFFICES ASSUME NEW i \in 1 .. Len(r), r[i].type = type,
                        \A j \in 1 .. Len(r) : j > i => r[j].type # type
                 PROVE  r[i].version = v
      BY DEF Newest
    <2>1. i \in 1 .. Len(q) /\ q[i].type = type
      BY <1>1, <1>2, <1>4
    <2>2. \A j \in 1 .. Len(q) : j > i => q[j].type # type
      BY <1>1, <1>2
    <2> QED BY <1>1, <1>4, <2>1, <2>2 DEF Newest
  <1> QED BY <1>3, <1>4 DEF r

\* And when one is taken: the last of its type is the newest.
LEMMA NewestTail ==
    ASSUME NEW T, NEW q \in Seq(T), q # <<>>, NEW type, NEW v, Newest(q, type, v)
    PROVE  /\ Newest(Tail(q), type, v)
           /\ Head(q).type = type /\ type \notin Types(Tail(q)) => Head(q).version = v
  <1> DEFINE r == Tail(q)
             m == Head(q)
  <1>1. /\ r \in Seq(T) /\ Len(r) = Len(q) - 1 /\ Len(q) \in Nat \ {0}
        /\ \A i \in 1 .. Len(r) : r[i] = q[i + 1]
        /\ m = q[1]
    BY HeadTailProperties, EmptySeq
  <1> HIDE DEF r, m
  <1>2. Types(r) = {r[i].type : i \in 1 .. Len(r)}
    <2>1. Members(r) = {r[i] : i \in 1 .. Len(r)}
      BY <1>1, MembersFacts
    <2> QED BY <2>1 DEF Types
  <1>3. /\ 1 \in 1 .. Len(q)
        /\ \A j \in 1 .. Len(q) : j = 1 \/ (j - 1 \in 1 .. Len(r) /\ q[j] = r[j - 1])
    <2>1. \A j \in 1 .. Len(q) : j = 1 \/ (j - 1 \in 1 .. Len(r) /\ (j - 1) + 1 = j)
      BY <1>1
    <2> QED BY <1>1, <2>1
  <1>4. Newest(r, type, v)
    <2> SUFFICES ASSUME NEW i \in 1 .. Len(r), r[i].type = type,
                        \A j \in 1 .. Len(r) : j > i => r[j].type # type
                 PROVE  r[i].version = v
      BY DEF Newest
    <2>1. i + 1 \in 1 .. Len(q) /\ q[i + 1] = r[i]
      BY <1>1
    <2>2. \A j \in 1 .. Len(q) : j > i + 1 => q[j].type # type
      <3> SUFFICES ASSUME NEW j \in 1 .. Len(q), j > i + 1 PROVE q[j].type # type
        OBVIOUS
      <3>1. j # 1 /\ j - 1 > i
        OBVIOUS
      <3> QED BY <1>3, <3>1
    <2> QED BY <2>1, <2>2 DEF Newest
  <1>5. ASSUME m.type = type, type \notin Types(r) PROVE m.version = v
    <2>1. \A j \in 1 .. Len(q) : j > 1 => q[j].type # type
      BY <1>2, <1>3, <1>5
    <2> QED BY <1>1, <1>3, <1>5, <2>1 DEF Newest
  <1> QED BY <1>4, <1>5 DEF r, m

\* Every message that is sent is one of its direction, and carries what it
\* is said to carry.
LEMMA MessageFacts ==
    /\ \A t \in {"LAUNCHER_SHOW", "PREVIEW_HIDE"} :
          [type |-> t] \in DownMessage /\ Load([type |-> t]) = {}
    /\ \A t \in {"MONITOR_GEOM", "THEME"}, v \in Nat :
          [type |-> t, version |-> v] \in DownMessage /\ Load([type |-> t, version |-> v]) = {}
    /\ \A e \in SUBSET Snapshot :
          /\ [type |-> "PREVIEW_SHOW", entries |-> e] \in DownMessage
          /\ Load([type |-> "PREVIEW_SHOW", entries |-> e]) = e
    /\ \A t \in {"LAUNCHER_EXEC", "LAUNCHER_DISMISSED", "LAUNCHER_READY", "LAUNCHER_SHOWN"} :
          [type |-> t] \in UpMessage /\ Load([type |-> t]) = {}
    /\ \A w \in Window :
          /\ [type |-> "PREVIEW_FOCUS", win |-> w] \in UpMessage
          /\ Load([type |-> "PREVIEW_FOCUS", win |-> w]) = {}
    /\ \A e \in SUBSET Snapshot :
          /\ [type |-> "PREVIEW_DONE", xids |-> e] \in UpMessage
          /\ Load([type |-> "PREVIEW_DONE", xids |-> e]) = e
  <1>1. \A t \in {"LAUNCHER_SHOW", "PREVIEW_HIDE"} :
          [type |-> t] \in DownMessage /\ Load([type |-> t]) = {}
    BY DEF DownMessage, Load
  <1>2. \A t \in {"MONITOR_GEOM", "THEME"}, v \in Nat :
          [type |-> t, version |-> v] \in DownMessage /\ Load([type |-> t, version |-> v]) = {}
    BY DEF DownMessage, Load
  <1>3. ASSUME NEW e \in SUBSET Snapshot
        PROVE  /\ [type |-> "PREVIEW_SHOW", entries |-> e] \in DownMessage
               /\ Load([type |-> "PREVIEW_SHOW", entries |-> e]) = e
    BY DEF DownMessage, Load
  <1>4. \A t \in {"LAUNCHER_EXEC", "LAUNCHER_DISMISSED", "LAUNCHER_READY", "LAUNCHER_SHOWN"} :
          [type |-> t] \in UpMessage /\ Load([type |-> t]) = {}
    BY DEF UpMessage, Load
  <1>5. ASSUME NEW w \in Window
        PROVE  /\ [type |-> "PREVIEW_FOCUS", win |-> w] \in UpMessage
               /\ Load([type |-> "PREVIEW_FOCUS", win |-> w]) = {}
    BY DEF UpMessage, Load
  <1>6. ASSUME NEW e \in SUBSET Snapshot
        PROVE  /\ [type |-> "PREVIEW_DONE", xids |-> e] \in UpMessage
               /\ Load([type |-> "PREVIEW_DONE", xids |-> e]) = e
    BY DEF UpMessage, Load
  <1> QED BY <1>1, <1>2, <1>3, <1>4, <1>5, <1>6

\* What a message of either direction holds.
LEMMA DownFacts ==
    ASSUME NEW m \in DownMessage
    PROVE  /\ m.type \in {"LAUNCHER_SHOW", "PREVIEW_HIDE", "MONITOR_GEOM", "THEME", "PREVIEW_SHOW"}
           /\ m.type \in {"MONITOR_GEOM", "THEME"} => m.version \in Nat
           /\ m.type = "PREVIEW_SHOW" => m.entries \in SUBSET Snapshot
           /\ Load(m) = IF m.type = "PREVIEW_SHOW" THEN m.entries ELSE {}
           /\ Load(m) \in SUBSET Snapshot
  BY DEF DownMessage, Load

\* Of the messages to awm only an answer carries snapshots.
LEMMA UpFacts ==
    ASSUME NEW m \in UpMessage
    PROVE  /\ Load(m) = IF m.type = "PREVIEW_DONE" THEN m.xids ELSE {}
           /\ Load(m) \in SUBSET Snapshot
  BY DEF UpMessage, Load

\* What the properties call lent and returned.
LEMMA LoadFacts ==
    ASSUME TypeInv
    PROVE  Lent = LoadOf(down) /\ Returned = LoadOf(up)
  <1>1. Members(down) \subseteq DownMessage /\ Members(up) \subseteq UpMessage
    BY MembersFacts DEF TypeInv
  <1>2. \A m \in Members(down) : Load(m) = IF m.type = "PREVIEW_SHOW" THEN m.entries ELSE {}
    BY <1>1, DownFacts
  <1>3. \A m \in Members(up) : Load(m) = IF m.type = "PREVIEW_DONE" THEN m.xids ELSE {}
    BY <1>1, UpFacts
  <1>4. Lent = LoadOf(down)
    BY <1>2 DEF Lent, LoadOf
  <1>5. Returned = LoadOf(up)
    BY <1>3 DEF Returned, LoadOf
  <1> QED BY <1>4, <1>5

\* awm sends one message: a helper that lives will read it.
LEMMA SendFacts ==
    ASSUME TypeInv, LinkOK, NEW m \in DownMessage, ui_send_inline(<<m>>)
    PROVE  down' = IF helper.alive THEN Append(down, m) ELSE down
  BY AppendIsConcat DEF ui_send_inline, TypeInv, LinkOK, Connected

\* The helper sends one.
LEMMA AnswerFacts ==
    ASSUME TypeInv, NEW m \in UpMessage, Send(<<m>>)
    PROVE  up' = Append(up, m)
  BY AppendIsConcat DEF Send, TypeInv

\* What a new helper is sent first.
LEMMA GreetingFacts ==
    ASSUME settings \in Settings
    PROVE  /\ Greeting \in Seq(DownMessage)
           /\ Apart(Greeting) /\ LoadOf(Greeting) = {}
           /\ Newest(Greeting, "MONITOR_GEOM", settings.geom)
           /\ Newest(Greeting, "THEME", settings.theme)
           /\ Types(Greeting) = {"MONITOR_GEOM", "THEME"}
           /\ \A i \in 1 .. Len(Greeting) : Load(Greeting[i]) = {}
  <1> DEFINE g == [type |-> "MONITOR_GEOM", version |-> settings.geom]
             t == [type |-> "THEME", version |-> settings.theme]
  <1>1. settings.geom \in Nat /\ settings.theme \in Nat
    BY DEF Settings
  <1>2. /\ g \in DownMessage /\ t \in DownMessage /\ Load(g) = {} /\ Load(t) = {}
        /\ g.type = "MONITOR_GEOM" /\ t.type = "THEME"
        /\ g.version = settings.geom /\ t.version = settings.theme
    BY <1>1, MessageFacts
  <1>3. Greeting = <<g, t>>
    BY DEF Greeting
  <1> HIDE DEF g, t
  <1>4. Greeting \in Seq(DownMessage) /\ Len(Greeting) = 2
        /\ Greeting[1] = g /\ Greeting[2] = t /\ DOMAIN Greeting = {1, 2} /\ 1 .. 2 = {1, 2}
    BY <1>2, <1>3
  <1>5. Members(Greeting) = {g, t}
    BY <1>4 DEF Members
  <1> QED BY <1>2, <1>4, <1>5 DEF Apart, LoadOf, Newest, Types

\* The snapshots of one popup: at most one for each of its windows.
LEMMA SnapshotFacts ==
    ASSUME TypeInv, NEW windows \in SUBSET Window, NEW refused \in SUBSET windows
    PROVE  /\ Batch(comp_snapshot_pixmaps(windows, refused))
           /\ \A p \in comp_snapshot_pixmaps(windows, refused) : p.gen = ui_fd /\ p.show = shows
  <1>0. ui_fd \in Nat /\ shows \in Nat
    <2>1. helper.gen \in Nat
      BY DEF TypeInv, Helper
    <2> QED BY <2>1 DEF TypeInv
  <1> DEFINE shot(w) == [gen |-> ui_fd, show |-> shows, win |-> w, of |-> Cardinality(windows)]
             taken == windows \ refused
             e == comp_snapshot_pixmaps(windows, refused)
             f == [w \in taken |-> shot(w)]
  <1>1. IsFiniteSet(windows) /\ Cardinality(windows) \in Nat
    BY WindowAssumption, FS_Subset, FS_CardinalityType
  <1>2. IsFiniteSet(taken) /\ Cardinality(taken) <= Cardinality(windows)
        /\ Cardinality(taken) \in Nat
    <2>1. taken \in SUBSET windows
      OBVIOUS
    <2> QED BY <1>1, <2>1, FS_Subset, FS_CardinalityType
  <1>3. e = {shot(w) : w \in taken}
    BY DEF comp_snapshot_pixmaps
  <1>4. f \in Surjection(taken, e)
    BY <1>3 DEF Surjection
  <1> HIDE DEF e, f, taken
  <1>5. IsFiniteSet(e) /\ Cardinality(e) <= Cardinality(taken) /\ Cardinality(e) \in Nat
    BY <1>2, <1>4, FS_Surjection, FS_CardinalityType
  <1>6. \A w \in taken : shot(w) \in Snapshot
    <2>1. ui_fd \in Nat /\ shows \in Nat
      BY <1>0
    <2>2. taken \subseteq Window
      BY DEF taken
    <2> QED BY <1>1, <2>1, <2>2 DEF Snapshot
  <1>7. e \subseteq Snapshot
        /\ \A p \in e : p.of = Cardinality(windows) /\ p.gen = ui_fd /\ p.show = shows
    BY <1>3, <1>6
  <1> QED BY <1>1, <1>2, <1>5, <1>7 DEF Batch, e

\* The popup that closes gives its snapshots back.  Those it has no room for
\* are of a popup with more windows than DoneCap.
LEMMA HideFacts ==
    ASSUME TypeInv, BatchesOK, NEW sent \in SUBSET helper.cards, Done(helper.cards, sent),
           NEW q \in Seq(UpMessage), NEW r, r = q \o preview_hide(sent)
    PROVE  /\ r \in Seq(UpMessage) /\ (q # <<>> => r # <<>>)
           /\ LoadOf(r) = LoadOf(q) \cup sent
           /\ Types(q) \subseteq Types(r)
           /\ Apart(q) /\ helper.cards \cap LoadOf(q) = {} => Apart(r)
           /\ \A p \in helper.cards \ sent : p.of > DoneCap
  <1>1. /\ helper.cards \subseteq Snapshot /\ IsFiniteSet(helper.cards)
        /\ \A p \in helper.cards : Cardinality(helper.cards) <= p.of
    BY DEF BatchesOK, Batch
  <1>2. ASSUME NEW p \in helper.cards \ sent PROVE p.of > DoneCap
    <2>1. Cardinality(helper.cards) # Cardinality(sent)
      BY <1>1, <1>2, FS_Subset
    <2>2. ~(Cardinality(helper.cards) <= DoneCap)
      BY <2>1 DEF Done
    <2>3. Cardinality(helper.cards) \in Nat /\ p.of \in Nat /\ Cardinality(helper.cards) <= p.of
      BY <1>1, FS_CardinalityType DEF Snapshot
    <2> QED BY <2>2, <2>3, CapAssumption
  <1>3. CASE helper.cards = {}
    <2>1. sent = {} /\ r = q
      BY <1>3 DEF preview_hide
    <2> QED BY <1>2, <2>1
  <1>4. CASE helper.cards # {}
    <2> DEFINE d == [type |-> "PREVIEW_DONE", xids |-> sent]
    <2>1. d \in UpMessage /\ Load(d) = sent
      BY <1>1, MessageFacts
    <2>2. preview_hide(sent) = <<d>>
      BY <1>4 DEF preview_hide
    <2> HIDE DEF d
    <2>3. r = Append(q, d)
      BY <2>1, <2>2, AppendIsConcat
    <2>4. r # <<>>
      BY <2>1, <2>3, AppendProperties
    <2> QED BY <1>2, <2>1, <2>3, <2>4, QueueAppend
  <1> QED BY <1>3, <1>4

-----------------------------------------------------------------------------
(***************************************************************************)
(* The steps of awm.                                                       *)
(***************************************************************************)

\* awm sends a message: what it carries is fresh, and what it tells is new.
LEMMA SendStep ==
    ASSUME IInv, NEW m \in DownMessage, Batch(Load(m)), ui_send_inline(<<m>>),
           UNCHANGED <<ui_fd, revents, respawn, launcher_xwin, up, helper>>,
           settings' = [geom  |-> IF m.type = "MONITOR_GEOM" THEN m.version ELSE settings.geom,
                        theme |-> IF m.type = "THEME" THEN m.version ELSE settings.theme],
           pixmaps' = IF helper.alive THEN pixmaps \cup Load(m) ELSE pixmaps,
           shows' \in Nat, shows' >= shows,
           \A p \in Load(m) : p.gen = ui_fd /\ p.show = shows /\ shows' > shows,
           launcher_visible' \in BOOLEAN,
           launcher_visible' => \/ launcher_visible
                                \/ helper.alive /\ m.type = "LAUNCHER_SHOW"
    PROVE  IInv'
  <1>1. /\ TypeInv /\ LinkOK /\ BatchesOK /\ OwnersOK /\ NewsOK
        /\ FlagNotStuck /\ SettingsDelivered
    BY DEF IInv
  <1>2. down' = IF helper.alive THEN Append(down, m) ELSE down
    BY <1>1, SendFacts
  <1>3. down \in Seq(DownMessage) /\ helper' = helper /\ ui_fd' = ui_fd /\ up' = up
    BY <1>1 DEF TypeInv
  <1>4. /\ m.type \in {"MONITOR_GEOM", "THEME"} => m.version \in Nat
        /\ Load(m) \in SUBSET Snapshot
    BY DownFacts
  <1>5. TypeInv'
    <2>1. settings' \in Settings
      BY <1>1, <1>4 DEF TypeInv, Settings
    <2>2. down' \in Seq(DownMessage)
      BY <1>2, <1>3, QueueAppend
    <2> QED BY <1>1, <1>4, <2>1, <2>2 DEF TypeInv
  <1>6. LinkOK'
    BY <1>1, <1>3 DEF LinkOK, Connected
  <1>7. BatchesOK'
    <2>1. \A i \in 1 .. Len(down') : Batch(Load(down'[i]))
      <3>1. CASE helper.alive
        <4>1. /\ Len(down') = Len(down) + 1 /\ Len(down) \in Nat
              /\ \A i \in 1 .. Len(down) : down'[i] = down[i]
              /\ down'[Len(down) + 1] = m
          BY <1>2, <1>3, <3>1, AppendProperties
        <4>2. \A i \in 1 .. Len(down') : i \in 1 .. Len(down) \/ i = Len(down) + 1
          BY <4>1
        <4> QED BY <1>1, <4>1, <4>2 DEF BatchesOK
      <3>2. CASE ~helper.alive
        BY <1>1, <1>2, <3>2 DEF BatchesOK
      <3> QED BY <3>1, <3>2
    <2>2. \A p \in pixmaps' : p.gen <= helper.gen /\ p.show < shows'
      <3>1. \A p \in pixmaps : p.gen <= helper.gen /\ p.show < shows /\ p.show \in Nat
        BY <1>1 DEF BatchesOK, TypeInv, Snapshot
      <3>2. shows \in Nat /\ helper.gen \in Nat /\ ui_fd \in {0, helper.gen}
        BY <1>1 DEF TypeInv, Helper
      <3>3. \A p \in pixmaps : p.show < shows'
        BY <3>1, <3>2
      <3>4. \A p \in Load(m) : p.gen <= helper.gen /\ p.show < shows'
        BY <3>2
      <3> QED BY <3>1, <3>3, <3>4
    <2> QED BY <1>1, <1>3, <2>1, <2>2 DEF BatchesOK
  <1>8. OwnersOK'
    <2> SUFFICES ASSUME helper.alive PROVE OwnersOK'
      BY <1>3 DEF OwnersOK
    <2>1. Load(m) \cap pixmaps = {}
      <3>1. \A p \in pixmaps : p.show < shows /\ p.show \in Nat
        BY <1>1 DEF BatchesOK, TypeInv, Snapshot
      <3>2. \A p \in pixmaps : p.show # shows
        BY <1>1, <3>1 DEF TypeInv
      <3> QED BY <3>2
    <2>2. LoadOf(down') = LoadOf(down) \cup Load(m)
      BY <1>2, <1>3, QueueAppend
    <2>3. Load(m) \cap LoadOf(down) = {}
      BY <1>1, <2>1 DEF OwnersOK
    <2>4. Apart(down')
      BY <1>1, <1>2, <1>3, <2>3, QueueAppend DEF OwnersOK
    <2> QED BY <1>1, <1>3, <2>1, <2>2, <2>4 DEF OwnersOK
  <1>9. NewsOK'
    <2> SUFFICES ASSUME helper.alive PROVE NewsOK'
      BY <1>3 DEF NewsOK
    <2>1. Newest(down', "MONITOR_GEOM", settings'.geom)
      BY <1>1, <1>2, <1>3, NewestAppend DEF NewsOK
    <2>2. Newest(down', "THEME", settings'.theme)
      BY <1>1, <1>2, <1>3, NewestAppend DEF NewsOK
    <2> QED BY <2>1, <2>2 DEF NewsOK
  <1>10. helper.alive => Types(down') = Types(down) \cup {m.type}
    BY <1>2, <1>3, QueueAppend
  <1>11. FlagNotStuck'
    BY <1>1, <1>2, <1>3, <1>10 DEF FlagNotStuck
  <1>12. SettingsDelivered'
    BY <1>1, <1>3, <1>10 DEF SettingsDelivered, HelperAlive
  <1> QED BY <1>5, <1>6, <1>7, <1>8, <1>9, <1>11, <1>12 DEF IInv

\* The five things awm has to say.
LEMMA SenderSteps ==
    ASSUME IInv,
           \/ launchermenu
           \/ \E windows \in SUBSET Window \ {{}} : \E refused \in SUBSET windows :
                 bar_hover_enter(windows, refused)
           \/ bar_hover_leave \/ ui_send_monitor_geom \/ ui_send_theme
    PROVE  IInv'
  <1>1. /\ settings = [geom |-> settings.geom, theme |-> settings.theme]
        /\ settings.geom \in Nat /\ settings.theme \in Nat
        /\ shows \in Nat /\ launcher_visible \in BOOLEAN /\ helper.alive \in BOOLEAN
    BY DEF IInv, TypeInv, Settings, Helper
  <1>2. Batch({}) /\ pixmaps \cup {} = pixmaps
    BY FS_EmptySet DEF Batch
  <1>3. shows >= shows /\ shows + 1 \in Nat /\ shows + 1 >= shows /\ shows + 1 > shows
    BY <1>1
  <1>4. CASE launchermenu
    <2> DEFINE m == [type |-> "LAUNCHER_SHOW"]
    <2>1. m \in DownMessage /\ Load(m) = {} /\ m.type = "LAUNCHER_SHOW"
      BY MessageFacts
    <2>2. /\ ui_send_inline(<<m>>) /\ launcher_visible' = (launcher_visible \/ helper.alive)
          /\ UNCHANGED <<ui_fd, revents, respawn, launcher_xwin, up, helper>>
          /\ settings' = settings /\ pixmaps' = pixmaps /\ shows' = shows
      BY <1>4 DEF launchermenu
    <2> HIDE DEF m
    <2> QED BY <1>1, <1>2, <1>3, <2>1, <2>2, SendStep
  <1>5. ASSUME NEW windows \in SUBSET Window, NEW refused \in SUBSET windows,
               bar_hover_enter(windows, refused)
        PROVE  IInv'
    <2> DEFINE e == comp_snapshot_pixmaps(windows, refused)
               m == [type |-> "PREVIEW_SHOW", entries |-> e]
    <2>1. Batch(e) /\ \A p \in e : p.gen = ui_fd /\ p.show = shows
      <3>1. TypeInv
        BY DEF IInv
      <3> QED BY <3>1, SnapshotFacts
    <2>2. m \in DownMessage /\ Load(m) = e /\ m.type = "PREVIEW_SHOW"
      BY <2>1, MessageFacts DEF Batch
    <2>3. /\ ui_send_inline(<<m>>) /\ launcher_visible' = launcher_visible
          /\ UNCHANGED <<ui_fd, revents, respawn, launcher_xwin, up, helper>>
          /\ settings' = settings /\ shows' = shows + 1
          /\ pixmaps' = IF helper.alive THEN pixmaps \cup e ELSE pixmaps
      BY <1>5 DEF bar_hover_enter, awmVars
    <2> HIDE DEF m, e
    <2> QED BY <1>1, <1>3, <2>1, <2>2, <2>3, SendStep
  <1>6. CASE bar_hover_leave
    <2> DEFINE m == [type |-> "PREVIEW_HIDE"]
    <2>1. m \in DownMessage /\ Load(m) = {} /\ m.type = "PREVIEW_HIDE"
      BY MessageFacts
    <2>2. /\ ui_send_inline(<<m>>) /\ launcher_visible' = launcher_visible
          /\ UNCHANGED <<ui_fd, revents, respawn, launcher_xwin, up, helper>>
          /\ settings' = settings /\ pixmaps' = pixmaps /\ shows' = shows
      BY <1>6 DEF bar_hover_leave, awmVars
    <2> HIDE DEF m
    <2> QED BY <1>1, <1>2, <1>3, <2>1, <2>2, SendStep
  <1>7. CASE ui_send_monitor_geom
    <2> DEFINE m == [type |-> "MONITOR_GEOM", version |-> settings.geom + 1]
    <2>1. /\ m \in DownMessage /\ Load(m) = {} /\ m.type = "MONITOR_GEOM"
          /\ m.version = settings.geom + 1
      BY <1>1, MessageFacts
    <2>2. /\ ui_send_inline(<<m>>) /\ launcher_visible' = launcher_visible
          /\ UNCHANGED <<ui_fd, revents, respawn, launcher_xwin, up, helper>>
          /\ settings' = [settings EXCEPT !.geom = @ + 1] /\ pixmaps' = pixmaps /\ shows' = shows
      BY <1>7 DEF ui_send_monitor_geom, awmVars
    <2> HIDE DEF m
    <2>3. settings' = [geom |-> m.version, theme |-> settings.theme]
      BY <1>1, <2>1, <2>2
    <2> QED BY <1>1, <1>2, <1>3, <2>1, <2>2, <2>3, SendStep
  <1>8. CASE ui_send_theme
    <2> DEFINE m == [type |-> "THEME", version |-> settings.theme + 1]
    <2>1. /\ m \in DownMessage /\ Load(m) = {} /\ m.type = "THEME"
          /\ m.version = settings.theme + 1
      BY <1>1, MessageFacts
    <2>2. /\ ui_send_inline(<<m>>) /\ launcher_visible' = launcher_visible
          /\ UNCHANGED <<ui_fd, revents, respawn, launcher_xwin, up, helper>>
          /\ settings' = [settings EXCEPT !.theme = @ + 1] /\ pixmaps' = pixmaps /\ shows' = shows
      BY <1>8 DEF ui_send_theme, awmVars
    <2> HIDE DEF m
    <2>3. settings' = [geom |-> settings.geom, theme |-> m.version]
      BY <1>1, <2>1, <2>2
    <2> QED BY <1>1, <1>2, <1>3, <2>1, <2>2, <2>3, SendStep
  <1> QED BY <1>4, <1>5, <1>6, <1>7, <1>8

\* Polling changes nothing but what awm knows of its socket.
LEMMA PollStep ==
    ASSUME IInv, Poll
    PROVE  IInv'
  <1>1. TypeInv' /\ LinkOK'
    BY DEF IInv, TypeInv, LinkOK, Poll, Connected
  <1>2. UNCHANGED <<ui_fd, launcher_visible, settings, down, up, helper, pixmaps, shows>>
    BY DEF Poll
  <1>3. BatchesOK' /\ OwnersOK' /\ NewsOK'
    BY <1>2 DEF IInv, BatchesOK, OwnersOK, NewsOK
  <1>4. FlagNotStuck' /\ SettingsDelivered'
    BY <1>2 DEF IInv, FlagNotStuck, SettingsDelivered, HelperAlive
  <1> QED BY <1>1, <1>3, <1>4 DEF IInv

\* The helper is gone: awm forgets what it said and what it was told.
LEMMA HangUpStep ==
    ASSUME IInv, ~helper.alive, HangUp
    PROVE  IInv'
  <1>1. TypeInv'
    <2>1. <<>> \in Seq(DownMessage) /\ <<>> \in Seq(UpMessage)
      OBVIOUS
    <2> QED BY <2>1 DEF IInv, TypeInv, HangUp
  <1>2. LinkOK'
    BY DEF IInv, LinkOK, HangUp, Connected
  <1>3. helper' = helper /\ pixmaps' = pixmaps /\ shows' = shows /\ down' = <<>>
    BY DEF HangUp
  <1>4. BatchesOK'
    BY <1>3 DEF IInv, BatchesOK
  <1>5. OwnersOK' /\ NewsOK' /\ FlagNotStuck' /\ SettingsDelivered'
    BY <1>3 DEF OwnersOK, NewsOK, FlagNotStuck, SettingsDelivered, HelperAlive
  <1> QED BY <1>1, <1>2, <1>4, <1>5 DEF IInv

\* awm serves the message at the head of the queue.
LEMMA ServeStep ==
    ASSUME IInv, revents # {}, "HUP" \notin revents, ui_handle_message(Head(up)),
           up' = Tail(up), revents' = {},
           UNCHANGED <<ui_fd, respawn, settings, down, helper, shows>>
    PROVE  IInv'
  <1>1. /\ TypeInv /\ LinkOK /\ BatchesOK /\ OwnersOK /\ NewsOK
        /\ FlagNotStuck /\ SettingsDelivered
    BY DEF IInv
  <1> DEFINE m == Head(up)
  <1>2. up # <<>> /\ up \in Seq(UpMessage)
    BY <1>1 DEF LinkOK, TypeInv
  <1>3. /\ m \in UpMessage /\ up' \in Seq(UpMessage)
        /\ LoadOf(up) = LoadOf(up') \cup Load(m)
        /\ Types(up) = Types(up') \cup {m.type}
        /\ Apart(up) => Apart(up') /\ Load(m) \cap LoadOf(up') = {}
    BY <1>2, QueueTail
  <1>4. /\ launcher_visible' =
             (launcher_visible /\ m.type \notin {"LAUNCHER_EXEC", "LAUNCHER_DISMISSED"})
        /\ launcher_xwin' \in {launcher_xwin, ui_fd}
        /\ pixmaps' = pixmaps \ Load(m)
    BY <1>3, UpFacts DEF ui_handle_message
  <1> HIDE DEF m
  <1>5. TypeInv'
    BY <1>1, <1>3, <1>4 DEF TypeInv
  <1>6. LinkOK'
    BY <1>1, <1>4 DEF LinkOK, Connected, TypeInv
  <1>7. BatchesOK'
    BY <1>1, <1>4 DEF BatchesOK
  <1>8. OwnersOK'
    <2> SUFFICES ASSUME helper.alive PROVE OwnersOK'
      BY DEF OwnersOK
    <2>1. /\ Apart(up') /\ Load(m) \cap LoadOf(up') = {}
          /\ Load(m) \cap LoadOf(down) = {} /\ Load(m) \cap helper.cards = {}
      BY <1>1, <1>3 DEF OwnersOK
    <2> QED BY <1>1, <1>3, <1>4, <2>1 DEF OwnersOK
  <1>9. NewsOK' /\ SettingsDelivered'
    BY <1>1 DEF NewsOK, SettingsDelivered, HelperAlive
  <1>10. FlagNotStuck'
    BY <1>1, <1>3, <1>4 DEF FlagNotStuck, TypeInv
  <1> QED BY <1>5, <1>6, <1>7, <1>8, <1>9, <1>10 DEF IInv

\* A new helper owns nothing, and is told the settings first.
LEMMA SpawnStep ==
    ASSUME IInv, ui_spawn, respawn' = FALSE, launcher_xwin' = 0, launcher_visible' = FALSE,
           pixmaps' \subseteq pixmaps, UNCHANGED <<settings, shows>>
    PROVE  IInv'
  <1>1. /\ helper' = NewHelper(helper.gen + 1) /\ ui_fd' = helper.gen + 1
        /\ down' = Greeting /\ up' = <<>> /\ revents' = {}
    BY DEF ui_spawn
  <1>2. helper.gen \in Nat \ {0}
    BY DEF IInv, TypeInv, Helper
  <1>3. /\ helper' \in Helper /\ helper'.gen = helper.gen + 1 /\ helper'.alive = TRUE
        /\ helper'.cards = {} /\ helper.gen + 1 \in Nat \ {0}
    BY <1>1, <1>2 DEF NewHelper, Helper, Settings
  <1>4. /\ Greeting \in Seq(DownMessage)
        /\ Apart(Greeting) /\ LoadOf(Greeting) = {}
        /\ Newest(Greeting, "MONITOR_GEOM", settings.geom)
        /\ Newest(Greeting, "THEME", settings.theme)
        /\ Types(Greeting) = {"MONITOR_GEOM", "THEME"}
        /\ \A i \in 1 .. Len(Greeting) : Load(Greeting[i]) = {}
    BY GreetingFacts DEF IInv, TypeInv
  <1>5. up' \in Seq(UpMessage) /\ LoadOf(up') = {} /\ Apart(up')
    BY <1>1 DEF LoadOf, Members, Apart
  <1>6. TypeInv'
    BY <1>1, <1>3, <1>4, <1>5 DEF IInv, TypeInv
  <1>7. LinkOK'
    BY <1>1, <1>3 DEF LinkOK, Connected
  <1>8. \A p \in pixmaps : p.gen \in Nat /\ p.gen <= helper.gen /\ p.show < shows
    BY DEF IInv, TypeInv, Snapshot, BatchesOK
  <1>9. BatchesOK'
    <2>1. Batch({})
      BY FS_EmptySet DEF Batch
    <2>2. \A p \in pixmaps' : p.gen <= helper'.gen /\ p.show < shows
      BY <1>2, <1>3, <1>8
    <2> QED BY <1>1, <1>3, <1>4, <2>1, <2>2 DEF BatchesOK
  <1>10. OwnersOK'
    <2>1. \A p \in pixmaps' : p.gen # ui_fd'
      BY <1>1, <1>2, <1>8
    <2> QED BY <1>1, <1>3, <1>4, <1>5, <2>1 DEF OwnersOK
  <1>11. NewsOK'
    BY <1>1, <1>4 DEF NewsOK
  <1>12. FlagNotStuck'
    BY DEF FlagNotStuck
  <1>13. SettingsDelivered'
    BY <1>1, <1>4 DEF SettingsDelivered
  <1> QED BY <1>6, <1>7, <1>9, <1>10, <1>11, <1>12, <1>13 DEF IInv

\* The timer: a helper if there is none, and if the fork succeeds.
LEMMA RespawnStep ==
    ASSUME IInv, ui_respawn_cb
    PROVE  IInv'
  <1>1. /\ respawn' = FALSE
        /\ UNCHANGED <<launcher_xwin, launcher_visible, settings, pixmaps, shows>>
    BY DEF ui_respawn_cb
  <1>2. CASE UNCHANGED <<ui_fd, revents, down, up, helper>>
    <2>1. TypeInv' /\ LinkOK'
      BY <1>1, <1>2 DEF IInv, TypeInv, LinkOK, Connected
    <2>2. BatchesOK' /\ OwnersOK' /\ NewsOK'
      BY <1>1, <1>2 DEF IInv, BatchesOK, OwnersOK, NewsOK
    <2>3. FlagNotStuck' /\ SettingsDelivered'
      BY <1>1, <1>2 DEF IInv, FlagNotStuck, SettingsDelivered, HelperAlive
    <2> QED BY <2>1, <2>2, <2>3 DEF IInv
  <1>3. CASE ~Connected /\ ui_spawn
    <2>1. launcher_xwin = 0 /\ launcher_visible = FALSE
      BY <1>3 DEF IInv, TypeInv, LinkOK, Connected
    <2> QED BY <1>1, <1>3, <2>1, SpawnStep
  <1> QED BY <1>2, <1>3 DEF ui_respawn_cb

\* awm starts again, with a helper or without.
LEMMA RestartStep ==
    ASSUME IInv, Restart
    PROVE  IInv'
  <1>1. /\ respawn' = FALSE /\ launcher_xwin' = 0 /\ launcher_visible' = FALSE
        /\ pixmaps' = {} /\ UNCHANGED <<settings, shows>>
    BY DEF Restart
  <1>2. CASE ui_spawn
    BY <1>1, <1>2, SpawnStep
  <1>3. CASE /\ ui_fd' = 0
             /\ helper' = [NewHelper(helper.gen + 1) EXCEPT !.alive = FALSE]
             /\ revents' = {} /\ down' = <<>> /\ up' = <<>>
    <2>1. helper.gen \in Nat \ {0}
      BY DEF IInv, TypeInv, Helper
    <2> DEFINE h == NewHelper(helper.gen + 1)
    <2>2. h \in Helper /\ h.gen # 0 /\ h.cards = {}
      BY <2>1 DEF NewHelper, Helper, Settings
    <2>3. helper' \in Helper /\ helper'.gen # 0 /\ helper'.alive = FALSE /\ helper'.cards = {}
      <3> HIDE DEF h
      <3>1. helper' = [h EXCEPT !.alive = FALSE]
        BY <1>3 DEF h
      <3> QED BY <2>2, <3>1 DEF Helper
    <2>4. TypeInv' /\ LinkOK'
      <3>1. <<>> \in Seq(DownMessage) /\ <<>> \in Seq(UpMessage)
        OBVIOUS
      <3>2. TypeInv'
        BY <1>1, <1>3, <2>3, <3>1 DEF IInv, TypeInv
      <3>3. LinkOK'
        BY <1>1, <1>3, <2>3 DEF LinkOK, Connected
      <3> QED BY <3>2, <3>3
    <2>5. BatchesOK'
      <3>1. Batch({})
        BY FS_EmptySet DEF Batch
      <3>2. 1 .. Len(down') = {} /\ helper'.cards = {} /\ pixmaps' = {}
        BY <1>1, <1>3, <2>3
      <3> QED BY <3>1, <3>2 DEF BatchesOK
    <2>6. OwnersOK' /\ NewsOK' /\ FlagNotStuck' /\ SettingsDelivered'
      BY <1>1, <2>3 DEF OwnersOK, NewsOK, FlagNotStuck, SettingsDelivered, HelperAlive
    <2> QED BY <2>4, <2>5, <2>6 DEF IInv
  <1> QED BY <1>2, <1>3 DEF Restart

-----------------------------------------------------------------------------
(***************************************************************************)
(* The steps of the helper.                                                *)
(***************************************************************************)

\* A step of the helper: it may take messages from its queue, keep the
\* snapshots they carry, and give back those it kept.  What it does not give
\* back is of a popup with more windows than DoneCap.
LEMMA HelperStep ==
    ASSUME IInv, helper.alive, UNCHANGED <<awmVars, settings, pixmaps, shows>>,
           helper' \in Helper, helper'.gen = helper.gen, helper'.alive = helper.alive,
           NEW sent \in SUBSET helper.cards,
           up' \in Seq(UpMessage), up # <<>> => up' # <<>>,
           LoadOf(up') = LoadOf(up) \cup sent,
           Apart(up) /\ helper.cards \cap LoadOf(up) = {} => Apart(up'),
           \/ helper'.cards = helper.cards /\ sent = {} /\ LoadOf(down') = LoadOf(down)
           \/ /\ LoadOf(down) = LoadOf(down') \cup helper'.cards
              /\ helper'.cards \cap LoadOf(down') = {}
              /\ \A p \in helper.cards \ sent : p.of > DoneCap,
           down' \in Seq(DownMessage), Apart(down'), Batch(helper'.cards),
           \A i \in 1 .. Len(down') : Batch(Load(down'[i])),
           NewsOK', SettingsDelivered', FlagNotStuck'
    PROVE  IInv'
  <1>1. /\ ui_fd' = ui_fd /\ revents' = revents /\ respawn' = respawn
        /\ launcher_xwin' = launcher_xwin /\ launcher_visible' = launcher_visible
    BY DEF awmVars
  <1>2. TypeInv'
    BY <1>1 DEF IInv, TypeInv
  <1>3. LinkOK'
    BY <1>1 DEF IInv, LinkOK, Connected
  <1>4. BatchesOK'
    BY DEF IInv, BatchesOK
  <1>5. OwnersOK'
    BY <1>1 DEF IInv, OwnersOK
  <1> QED BY <1>2, <1>3, <1>4, <1>5 DEF IInv

\* A message that carries nothing.
LEMMA AppendPlain ==
    ASSUME NEW q \in Seq(UpMessage), NEW m \in UpMessage, Load(m) = {}
    PROVE  /\ Append(q, m) \in Seq(UpMessage) /\ Append(q, m) # <<>>
           /\ Append(q, m) = q \o <<m>>
           /\ LoadOf(Append(q, m)) = LoadOf(q)
           /\ Types(Append(q, m)) = Types(q) \cup {m.type}
           /\ Apart(q) => Apart(Append(q, m))
  <1>1. Append(q, m) \in Seq(UpMessage) /\ Append(q, m) # <<>>
    BY QueueAppend
  <1>2. LoadOf(Append(q, m)) = LoadOf(q)
    <2>1. \A l \in UpMessage : LoadOf(Append(q, l)) = LoadOf(q) \cup Load(l)
      BY QueueAppend
    <2> QED BY <2>1
  <1>3. Types(Append(q, m)) = Types(q) \cup {m.type}
    BY QueueAppend
  <1>4. Apart(q) /\ Load(m) \cap LoadOf(q) = {} => Apart(Append(q, m))
    BY QueueAppend
  <1>5. Append(q, m) = q \o <<m>>
    BY AppendIsConcat
  <1> QED BY <1>1, <1>2, <1>3, <1>4, <1>5

\* What the helper says of itself, without touching its queue or its cards.
LEMMA SpeakStep ==
    ASSUME IInv, helper.alive, UNCHANGED <<awmVars, settings, down, pixmaps, shows>>,
           NEW m \in UpMessage, Load(m) = {}, Send(<<m>>),
           helper' \in Helper, helper'.gen = helper.gen, helper'.alive = helper.alive,
           helper'.cards = helper.cards, helper'.settings = helper.settings,
           \/ helper'.visible = helper.visible
           \/ m.type \in {"LAUNCHER_EXEC", "LAUNCHER_DISMISSED"}
    PROVE  IInv'
  <1>1. /\ TypeInv /\ LinkOK /\ BatchesOK /\ OwnersOK /\ NewsOK
        /\ FlagNotStuck /\ SettingsDelivered
    BY DEF IInv
  <1>2. up' = Append(up, m) /\ up \in Seq(UpMessage)
    BY <1>1, AnswerFacts DEF TypeInv
  <1>3. /\ up' \in Seq(UpMessage) /\ up' # <<>>
        /\ LoadOf(up') = LoadOf(up) \cup {}
        /\ Types(up') = Types(up) \cup {m.type}
        /\ Apart(up) => Apart(up')
    BY <1>2, AppendPlain
  <1>4. launcher_visible' = launcher_visible /\ ui_fd' = ui_fd
    BY DEF awmVars
  <1>5. NewsOK'
    BY <1>1 DEF NewsOK
  <1>6. SettingsDelivered'
    BY <1>1, <1>4 DEF SettingsDelivered, HelperAlive
  <1>7. FlagNotStuck'
    BY <1>1, <1>3, <1>4 DEF FlagNotStuck
  <1>8. /\ down \in Seq(DownMessage) /\ Apart(down) /\ Batch(helper.cards)
        /\ \A i \in 1 .. Len(down) : Batch(Load(down[i]))
    BY <1>1 DEF TypeInv, BatchesOK, OwnersOK
  <1> QED BY <1>3, <1>5, <1>6, <1>7, <1>8, HelperStep

\* The start of the helper, Escape and Return.
LEMMA SpeakerSteps ==
    ASSUME IInv, HelperStart \/ LauncherDismissed \/ LauncherExec
    PROVE  IInv'
  <1>1. helper \in Helper
    BY DEF IInv, TypeInv
  <1>2. CASE HelperStart
    <2> DEFINE m == [type |-> "LAUNCHER_READY"]
    <2>1. m \in UpMessage /\ Load(m) = {}
      BY MessageFacts
    <2>2. /\ helper.alive /\ UNCHANGED <<awmVars, settings, down, pixmaps, shows>> /\ Send(<<m>>)
          /\ helper' = [helper EXCEPT !.ready = TRUE]
      BY <1>2 DEF HelperStart
    <2>3. /\ helper' \in Helper /\ helper'.gen = helper.gen /\ helper'.alive = helper.alive
          /\ helper'.cards = helper.cards /\ helper'.settings = helper.settings
          /\ helper'.visible = helper.visible
      BY <1>1, <2>2 DEF Helper
    <2> HIDE DEF m
    <2> QED BY <2>1, <2>2, <2>3, SpeakStep
  <1>3. ASSUME NEW t \in {"LAUNCHER_EXEC", "LAUNCHER_DISMISSED"},
               CanSend, helper' = [helper EXCEPT !.visible = FALSE],
               Send(<<[type |-> t]>>), UNCHANGED <<awmVars, settings, down, pixmaps, shows>>
        PROVE  IInv'
    <2> DEFINE m == [type |-> t]
    <2>1. m \in UpMessage /\ Load(m) = {} /\ m.type = t /\ Send(<<m>>)
      BY <1>3, MessageFacts
    <2>2. /\ helper' \in Helper /\ helper'.gen = helper.gen /\ helper'.alive = helper.alive
          /\ helper'.cards = helper.cards /\ helper'.settings = helper.settings /\ helper.alive
      BY <1>1, <1>3 DEF Helper, CanSend
    <2> HIDE DEF m
    <2> QED BY <1>3, <2>1, <2>2, SpeakStep
  <1>4. CASE LauncherDismissed
    BY <1>3, <1>4 DEF LauncherDismissed
  <1>5. CASE LauncherExec
    BY <1>3, <1>5 DEF LauncherExec
  <1> QED BY <1>2, <1>4, <1>5

\* A click on a card closes the popup.
LEMMA ClickStep ==
    ASSUME IInv, NEW w \in Window, on_card_click(w)
    PROVE  IInv'
  <1>1. /\ TypeInv /\ LinkOK /\ BatchesOK /\ OwnersOK /\ NewsOK
        /\ FlagNotStuck /\ SettingsDelivered
    BY DEF IInv
  <1> DEFINE m == [type |-> "PREVIEW_FOCUS", win |-> w]
             q == Append(up, m)
  <1>2. m \in UpMessage /\ Load(m) = {} /\ up \in Seq(UpMessage)
    BY <1>1, MessageFacts DEF TypeInv
  <1>3. PICK sent \in SUBSET helper.cards :
              Done(helper.cards, sent) /\ up' = up \o (<<m>> \o preview_hide(sent))
    BY DEF on_card_click, Send
  <1>4. /\ helper.alive /\ helper' = [helper EXCEPT !.cards = {}]
        /\ UNCHANGED <<awmVars, settings, down, pixmaps, shows>>
    BY DEF on_card_click, CanSend
  <1>5. /\ helper' \in Helper /\ helper'.gen = helper.gen /\ helper'.alive = helper.alive
        /\ helper'.cards = {} /\ helper'.settings = helper.settings
        /\ helper'.visible = helper.visible
    BY <1>1, <1>4 DEF TypeInv, Helper
  <1>6. preview_hide(sent) \in Seq(UpMessage)
    <2>1. sent \in SUBSET Snapshot
      BY <1>1, <1>3 DEF BatchesOK, Batch
    <2>2. [type |-> "PREVIEW_DONE", xids |-> sent] \in UpMessage
      BY <2>1, MessageFacts
    <2> QED BY <2>2 DEF preview_hide
  <1> HIDE DEF m
  <1>7. /\ q \in Seq(UpMessage) /\ q # <<>> /\ q = up \o <<m>>
        /\ LoadOf(q) = LoadOf(up) /\ Types(q) = Types(up) \cup {m.type}
        /\ Apart(up) => Apart(q)
    BY <1>2, AppendPlain
  <1> HIDE DEF q
  <1>8. up' = q \o preview_hide(sent)
    <2>1. <<m>> \in Seq(UpMessage)
      BY <1>2
    <2>2. up \o (<<m>> \o preview_hide(sent)) = (up \o <<m>>) \o preview_hide(sent)
      BY <1>2, <1>6, <2>1, ConcatAssociative
    <2> QED BY <1>3, <1>7, <2>2
  <1>9. /\ up' \in Seq(UpMessage) /\ up' # <<>>
        /\ LoadOf(up') = LoadOf(q) \cup sent
        /\ Types(q) \subseteq Types(up')
        /\ Apart(q) /\ helper.cards \cap LoadOf(q) = {} => Apart(up')
        /\ \A p \in helper.cards \ sent : p.of > DoneCap
    BY <1>1, <1>3, <1>7, <1>8, HideFacts
  <1>10. launcher_visible' = launcher_visible /\ ui_fd' = ui_fd
    BY <1>4 DEF awmVars
  <1>11. NewsOK'
    BY <1>1, <1>4, <1>5 DEF NewsOK
  <1>12. SettingsDelivered'
    BY <1>1, <1>4, <1>5, <1>10 DEF SettingsDelivered, HelperAlive
  <1>13. FlagNotStuck'
    BY <1>1, <1>4, <1>5, <1>7, <1>9, <1>10 DEF FlagNotStuck
  <1>14. /\ down \in Seq(DownMessage) /\ Apart(down)
         /\ \A i \in 1 .. Len(down) : Batch(Load(down[i]))
    BY <1>1, <1>4 DEF TypeInv, BatchesOK, OwnersOK
  <1>15. Batch({})
    BY FS_EmptySet DEF Batch
  <1>16. LoadOf(down) = LoadOf(down) \cup {} /\ {} \cap LoadOf(down) = {}
    OBVIOUS
  <1> QED BY <1>4, <1>5, <1>7, <1>9, <1>11, <1>12, <1>13, <1>14, <1>15, <1>16, HelperStep

\* What is left in the queue of the helper when it takes a message.
LEMMA ReadFacts ==
    ASSUME TypeInv, BatchesOK, OwnersOK, NewsOK, helper.alive, down # <<>>
    PROVE  /\ Head(down) \in DownMessage /\ Tail(down) \in Seq(DownMessage)
           /\ LoadOf(down) = LoadOf(Tail(down)) \cup Load(Head(down))
           /\ Types(down) = Types(Tail(down)) \cup {Head(down).type}
           /\ Apart(Tail(down)) /\ Load(Head(down)) \cap LoadOf(Tail(down)) = {}
           /\ Batch(Load(Head(down)))
           /\ \A i \in 1 .. Len(Tail(down)) : Batch(Load(Tail(down)[i]))
           /\ Newest(Tail(down), "MONITOR_GEOM", settings.geom)
           /\ Newest(Tail(down), "THEME", settings.theme)
           /\ Head(down).type = "MONITOR_GEOM" /\ "MONITOR_GEOM" \notin Types(Tail(down))
                 => Head(down).version = settings.geom
           /\ Head(down).type = "THEME" /\ "THEME" \notin Types(Tail(down))
                 => Head(down).version = settings.theme
  <1>1. down \in Seq(DownMessage)
    BY DEF TypeInv
  <1>2. /\ Head(down) \in DownMessage /\ Tail(down) \in Seq(DownMessage)
        /\ LoadOf(down) = LoadOf(Tail(down)) \cup Load(Head(down))
        /\ Types(down) = Types(Tail(down)) \cup {Head(down).type}
        /\ Apart(Tail(down)) /\ Load(Head(down)) \cap LoadOf(Tail(down)) = {}
    BY <1>1, QueueTail DEF OwnersOK
  <1>3. Batch(Load(Head(down))) /\ \A i \in 1 .. Len(Tail(down)) : Batch(Load(Tail(down)[i]))
    <2> DEFINE r == Tail(down)
    <2>1. /\ Len(r) = Len(down) - 1 /\ Len(down) \in Nat \ {0} /\ Head(down) = down[1]
          /\ \A i \in 1 .. Len(r) : r[i] = down[i + 1]
      BY <1>1, HeadTailProperties, EmptySeq
    <2> HIDE DEF r
    <2>2. 1 \in 1 .. Len(down) /\ \A i \in 1 .. Len(r) : i + 1 \in 1 .. Len(down)
      BY <2>1
    <2>3. Batch(Load(Head(down))) /\ \A i \in 1 .. Len(r) : Batch(Load(r[i]))
      BY <2>1, <2>2 DEF BatchesOK
    <2> QED BY <2>3 DEF r
  <1>4. /\ Newest(Tail(down), "MONITOR_GEOM", settings.geom)
        /\ Head(down).type = "MONITOR_GEOM" /\ "MONITOR_GEOM" \notin Types(Tail(down))
              => Head(down).version = settings.geom
    BY <1>1, NewestTail DEF NewsOK
  <1>5. /\ Newest(Tail(down), "THEME", settings.theme)
        /\ Head(down).type = "THEME" /\ "THEME" \notin Types(Tail(down))
              => Head(down).version = settings.theme
    BY <1>1, NewestTail DEF NewsOK
  <1> QED BY <1>2, <1>3, <1>4, <1>5

\* The helper takes a message from its queue and does what it says.
LEMMA ReadStep ==
    ASSUME IInv, socket_dispatch
    PROVE  IInv'
  <1>1. /\ TypeInv /\ LinkOK /\ BatchesOK /\ OwnersOK /\ NewsOK
        /\ FlagNotStuck /\ SettingsDelivered
    BY DEF IInv
  <1> DEFINE m == Head(down)
             r == Tail(down)
  <1>2. /\ helper.alive /\ down # <<>> /\ down' = r
        /\ UNCHANGED <<awmVars, settings, pixmaps, shows>>
    BY DEF socket_dispatch, CanSend
  <1>3. PICK sent \in SUBSET helper.cards : Done(helper.cards, sent) /\ handle_message(m, sent)
    BY DEF socket_dispatch
  <1>4. /\ m \in DownMessage /\ r \in Seq(DownMessage)
        /\ LoadOf(down) = LoadOf(r) \cup Load(m)
        /\ Types(down) = Types(r) \cup {m.type}
        /\ Apart(r) /\ Load(m) \cap LoadOf(r) = {}
        /\ Batch(Load(m)) /\ \A i \in 1 .. Len(r) : Batch(Load(r[i]))
        /\ Newest(r, "MONITOR_GEOM", settings.geom) /\ Newest(r, "THEME", settings.theme)
        /\ m.type = "MONITOR_GEOM" /\ "MONITOR_GEOM" \notin Types(r) => m.version = settings.geom
        /\ m.type = "THEME" /\ "THEME" \notin Types(r) => m.version = settings.theme
    BY <1>1, <1>2, ReadFacts
  <1>5. /\ m.type \in {"LAUNCHER_SHOW", "PREVIEW_HIDE", "MONITOR_GEOM", "THEME", "PREVIEW_SHOW"}
        /\ m.type \in {"MONITOR_GEOM", "THEME"} => m.version \in Nat
        /\ Load(m) = IF m.type = "PREVIEW_SHOW" THEN m.entries ELSE {}
    BY <1>4, DownFacts
  <1> HIDE DEF m, r
  <1>6. /\ launcher_visible' = launcher_visible /\ ui_fd' = ui_fd /\ settings' = settings
    BY <1>2 DEF awmVars
  <1>7. NewsOK'
    BY <1>2, <1>4, <1>6 DEF NewsOK
  <1>8. /\ helper \in Helper /\ up \in Seq(UpMessage) /\ Batch(helper.cards)
        /\ "MONITOR_GEOM" \notin Types(down) => helper.settings.geom = settings.geom
        /\ "THEME" \notin Types(down) => helper.settings.theme = settings.theme
    <2>1. HelperAlive
      BY <1>1, <1>2 DEF HelperAlive, TypeInv, LinkOK, Connected
    <2> QED BY <1>1, <2>1 DEF TypeInv, BatchesOK, SettingsDelivered
  <1>9. {} \in SUBSET helper.cards /\ LoadOf(up) = LoadOf(up) \cup {}
    OBVIOUS
  <1>10. CASE m.type = "LAUNCHER_SHOW"
    <2> DEFINE l == [type |-> "LAUNCHER_SHOWN"]
    <2>1. l \in UpMessage /\ Load(l) = {}
      BY MessageFacts
    <2>2. Send(<<l>>) /\ helper' = [helper EXCEPT !.visible = TRUE]
      BY <1>3, <1>10 DEF handle_message, LauncherShown
    <2> HIDE DEF l
    <2>3. up' = Append(up, l)
      BY <1>1, <2>1, <2>2, AnswerFacts
    <2>4. /\ up' \in Seq(UpMessage) /\ up' # <<>> /\ LoadOf(up') = LoadOf(up)
          /\ Apart(up) => Apart(up')
      BY <1>8, <2>1, <2>3, AppendPlain
    <2>5. /\ helper' \in Helper /\ helper'.gen = helper.gen /\ helper'.alive = helper.alive
          /\ helper'.cards = helper.cards /\ helper'.settings = helper.settings
          /\ helper'.visible = TRUE
      BY <1>8, <2>2 DEF Helper
    <2>6. SettingsDelivered'
      BY <1>2, <1>4, <1>6, <1>8, <1>10, <2>5 DEF SettingsDelivered
    <2>7. FlagNotStuck'
      BY <2>5 DEF FlagNotStuck
    <2>8. LoadOf(down') = LoadOf(down)
      BY <1>2, <1>4, <1>5, <1>10
    <2> QED BY <1>2, <1>4, <1>7, <1>8, <1>9, <2>4, <2>5, <2>6, <2>7, <2>8, HelperStep
  <1>11. ASSUME m.type \in {"MONITOR_GEOM", "THEME"} PROVE IInv'
    <2>1. /\ up' = up
          /\ helper' = IF m.type = "MONITOR_GEOM"
                       THEN [helper EXCEPT !.settings.geom = m.version]
                       ELSE [helper EXCEPT !.settings.theme = m.version]
      BY <1>3, <1>11 DEF handle_message, dispatch_monitor_geom, dispatch_theme
    <2>2. /\ helper' \in Helper /\ helper'.gen = helper.gen /\ helper'.alive = helper.alive
          /\ helper'.cards = helper.cards /\ helper'.visible = helper.visible
          /\ m.type = "MONITOR_GEOM" => /\ helper'.settings.geom = m.version
                                        /\ helper'.settings.theme = helper.settings.theme
          /\ m.type = "THEME" => /\ helper'.settings.theme = m.version
                                 /\ helper'.settings.geom = helper.settings.geom
      BY <1>5, <1>8, <1>11, <2>1 DEF Helper, Settings
    <2>3. SettingsDelivered'
      BY <1>2, <1>4, <1>6, <1>8, <1>11, <2>2 DEF SettingsDelivered
    <2>4. FlagNotStuck'
      BY <1>1, <1>2, <1>4, <1>6, <1>11, <2>1, <2>2 DEF FlagNotStuck
    <2>5. LoadOf(down') = LoadOf(down)
      BY <1>2, <1>4, <1>5, <1>11
    <2> QED BY <1>2, <1>4, <1>7, <1>8, <1>9, <2>1, <2>2, <2>3, <2>4, <2>5, HelperStep
  <1>12. ASSUME m.type \in {"PREVIEW_SHOW", "PREVIEW_HIDE"} PROVE IInv'
    <2> DEFINE e == Load(m)
    <2>1. helper' = [helper EXCEPT !.cards = e] /\ up' = up \o preview_hide(sent)
      BY <1>3, <1>5, <1>12 DEF handle_message, preview_show, Send
    <2>2. /\ helper' \in Helper /\ helper'.gen = helper.gen /\ helper'.alive = helper.alive
          /\ helper'.cards = e /\ helper'.settings = helper.settings
          /\ helper'.visible = helper.visible
      <3>1. e \in SUBSET Snapshot
        BY <1>4 DEF Batch
      <3> HIDE DEF e
      <3> QED BY <1>8, <2>1, <3>1 DEF Helper
    <2>3. /\ up' \in Seq(UpMessage) /\ (up # <<>> => up' # <<>>)
          /\ LoadOf(up') = LoadOf(up) \cup sent
          /\ Types(up) \subseteq Types(up')
          /\ Apart(up) /\ helper.cards \cap LoadOf(up) = {} => Apart(up')
          /\ \A p \in helper.cards \ sent : p.of > DoneCap
      BY <1>1, <1>3, <1>8, <2>1, HideFacts
    <2>4. SettingsDelivered'
      BY <1>2, <1>4, <1>6, <1>8, <1>12, <2>2 DEF SettingsDelivered
    <2>5. FlagNotStuck'
      BY <1>1, <1>2, <1>4, <1>6, <1>12, <2>2, <2>3 DEF FlagNotStuck
    <2>6. LoadOf(down) = LoadOf(down') \cup e /\ e \cap LoadOf(down') = {}
      BY <1>2, <1>4
    <2> HIDE DEF e
    <2>7. Batch(e)
      BY <1>4 DEF e
    <2> QED BY <1>2, <1>4, <1>7, <1>8, <2>2, <2>3, <2>4, <2>5, <2>6, <2>7, HelperStep
  <1> QED BY <1>5, <1>10, <1>11, <1>12

\* The helper dies: what it owned is nobody's, and awm does not know yet.
LEMMA DeathStep ==
    ASSUME IInv, HelperDies
    PROVE  IInv'
  <1>1. /\ helper' = [helper EXCEPT !.alive = FALSE] /\ helper \in Helper
        /\ UNCHANGED <<awmVars, settings, down, up, pixmaps, shows>>
    BY DEF HelperDies, IInv, TypeInv
  <1>2. /\ helper' \in Helper /\ helper'.gen = helper.gen /\ helper'.alive = FALSE
        /\ helper'.cards = helper.cards
    BY <1>1 DEF Helper
  <1>3. TypeInv'
    BY <1>1, <1>2 DEF IInv, TypeInv, awmVars
  <1>4. LinkOK'
    BY <1>1, <1>2 DEF IInv, LinkOK, Connected, awmVars
  <1>5. BatchesOK'
    BY <1>1, <1>2 DEF IInv, BatchesOK
  <1>6. OwnersOK' /\ NewsOK' /\ FlagNotStuck' /\ SettingsDelivered'
    BY <1>2 DEF OwnersOK, NewsOK, FlagNotStuck, SettingsDelivered, HelperAlive
  <1> QED BY <1>3, <1>4, <1>5, <1>6 DEF IInv

-----------------------------------------------------------------------------
(***************************************************************************)
(* The inductive invariant, and what follows from it.                      *)
(***************************************************************************)

\* With the first helper started and greeted, the invariant holds.
LEMMA StartFacts == Init => IInv
  <1> SUFFICES ASSUME Init PROVE IInv
    OBVIOUS
  <1>1. /\ helper = NewHelper(1) /\ settings = [geom |-> 1, theme |-> 1]
        /\ ui_fd = 1 /\ down = Greeting /\ up = <<>> /\ pixmaps = {} /\ shows = 0
        /\ revents = {} /\ respawn = FALSE /\ launcher_xwin = 0 /\ launcher_visible = FALSE
    BY DEF Init
  <1>2. /\ helper \in Helper /\ helper.gen = 1 /\ helper.alive = TRUE /\ helper.cards = {}
        /\ settings \in Settings /\ settings.geom \in Nat /\ settings.theme \in Nat
    BY <1>1 DEF NewHelper, Helper, Settings
  <1>3. /\ Greeting \in Seq(DownMessage)
        /\ Apart(Greeting) /\ LoadOf(Greeting) = {}
        /\ Newest(Greeting, "MONITOR_GEOM", settings.geom)
        /\ Newest(Greeting, "THEME", settings.theme)
        /\ Types(Greeting) = {"MONITOR_GEOM", "THEME"}
        /\ \A i \in 1 .. Len(Greeting) : Load(Greeting[i]) = {}
    BY <1>2, GreetingFacts
  <1>4. up \in Seq(UpMessage) /\ LoadOf(up) = {} /\ Apart(up)
    BY <1>1 DEF LoadOf, Members, Apart
  <1>5. TypeInv
    <2>1. helper \in Helper /\ helper.gen # 0 /\ ui_fd = helper.gen
      BY <1>1, <1>2
    <2>2. down \in Seq(DownMessage)
      BY <1>1, <1>3
    <2>3. pixmaps \subseteq Snapshot /\ shows \in Nat /\ revents \subseteq {"IN", "HUP"}
      BY <1>1
    <2> QED BY <1>1, <1>2, <1>4, <2>1, <2>2, <2>3 DEF TypeInv
  <1>6. LinkOK
    BY <1>1 DEF LinkOK, Connected
  <1>7. BatchesOK
    <2>1. Batch({})
      BY FS_EmptySet DEF Batch
    <2> QED BY <1>1, <1>2, <1>3, <2>1 DEF BatchesOK
  <1>8. OwnersOK /\ NewsOK
    BY <1>1, <1>2, <1>3, <1>4 DEF OwnersOK, NewsOK
  <1>9. FlagNotStuck /\ SettingsDelivered
    BY <1>1, <1>3 DEF FlagNotStuck, SettingsDelivered
  <1> QED BY <1>5, <1>6, <1>7, <1>8, <1>9 DEF IInv

\* Every step keeps the invariant.
LEMMA NextInv == IInv /\ [Next]_vars => IInv'
  <1> SUFFICES ASSUME IInv, [Next]_vars PROVE IInv'
    OBVIOUS
  <1>1. CASE \/ launchermenu
             \/ \E windows \in SUBSET Window \ {{}} : \E refused \in SUBSET windows :
                   bar_hover_enter(windows, refused)
             \/ bar_hover_leave \/ ui_send_monitor_geom \/ ui_send_theme
    BY <1>1, SenderSteps
  <1>2. CASE Poll
    BY <1>2, PollStep
  <1>3. CASE ui_source_dispatch
    <2>1. "HUP" \in revents => ~helper.alive
      BY DEF IInv, LinkOK
    <2> QED BY <1>3, <2>1, HangUpStep, ServeStep DEF ui_source_dispatch
  <1>4. CASE ui_respawn_cb
    BY <1>4, RespawnStep
  <1>5. CASE HelperStart \/ LauncherDismissed \/ LauncherExec
    BY <1>5, SpeakerSteps
  <1>6. CASE socket_dispatch
    BY <1>6, ReadStep
  <1>7. ASSUME NEW w \in Window, on_card_click(w) PROVE IInv'
    BY <1>7, ClickStep
  <1>8. CASE HelperDies
    BY <1>8, DeathStep
  <1>9. CASE Restart
    BY <1>9, RestartStep
  <1>10. CASE UNCHANGED vars
    <2>1. UNCHANGED <<ui_fd, revents, respawn, launcher_xwin, launcher_visible, settings,
                      down, up, helper, pixmaps, shows>>
      BY <1>10 DEF vars, awmVars
    <2>2. TypeInv' /\ LinkOK' /\ BatchesOK' /\ OwnersOK' /\ NewsOK'
      BY <2>1 DEF IInv, TypeInv, LinkOK, Connected, BatchesOK, OwnersOK, NewsOK
    <2>3. FlagNotStuck' /\ SettingsDelivered'
      BY <2>1 DEF IInv, FlagNotStuck, SettingsDelivered, HelperAlive
    <2> QED BY <2>2, <2>3 DEF IInv
  <1> QED BY <1>1, <1>2, <1>3, <1>4, <1>5, <1>6, <1>7, <1>8, <1>9, <1>10 DEF Next

\* The inductive invariant holds in every reachable state.
LEMMA InductiveInvariant == Spec => []IInv
  BY StartFacts, NextInv, PTL DEF Spec

\* The types; the launcher's window that awm knows is of the helper it is
\* connected to, and no timer is set while there is one.
THEOREM TypeCorrect == Spec => []TypeOK
  <1>1. IInv => TypeOK
    <2> SUFFICES ASSUME IInv PROVE TypeOK
      OBVIOUS
    <2>1. Members(down) \subseteq DownMessage /\ Members(up) \subseteq UpMessage
      BY MembersFacts DEF IInv, TypeInv
    <2> QED BY <2>1 DEF IInv, TypeInv, LinkOK, TypeOK, Helper
  <1> QED BY <1>1, InductiveInvariant, PTL

\* No snapshot is freed twice, freed under a card, or forgotten while the
\* helper lives, but for those a PREVIEW_DONE has no room for.
THEOREM SnapshotsAlwaysOwned == Spec => []SnapshotsOwned
  <1>1. IInv => SnapshotsOwned
    BY LoadFacts DEF IInv, OwnersOK, SnapshotsOwned, HelperAlive
  <1> QED BY <1>1, InductiveInvariant, PTL

\* awm does not wait for a launcher that is not there.
THEOREM FlagNeverStuck == Spec => []FlagNotStuck
  <1>1. IInv => FlagNotStuck
    BY DEF IInv
  <1> QED BY <1>1, InductiveInvariant, PTL

\* A helper that has read its socket has the work area and the theme, whatever
\* was announced before it was there.
THEOREM SettingsAlwaysDelivered == Spec => []SettingsDelivered
  <1>1. IInv => SettingsDelivered
    BY DEF IInv
  <1> QED BY <1>1, InductiveInvariant, PTL

-----------------------------------------------------------------------------
\* The launcher.  Its list of rows is a permutation of its items, because its
\* order is strict and total.

\* A sequence has values at its positions.
LEMMA SequenceFacts ==
    ASSUME NEW T, NEW s \in Seq(T)
    PROVE  /\ DOMAIN s = 1 .. Len(s) /\ Len(s) \in Nat
           /\ \A i \in 1 .. Len(s) : s[i] \in T
  OBVIOUS

\* The positions in a set, in their order.
LEMMA KeepPositions ==
    ASSUME NEW n \in Nat, NEW S \in SUBSET (1 .. n),
           NEW list, list = Keep([i \in 1 .. n |-> i], S)
    PROVE  /\ list \in Seq(1 .. n) /\ Len(list) \in Nat
           /\ Members(list) = S
           /\ \A a, b \in 1 .. Len(list) : a < b => list[a] < list[b]
<1> DEFINE all == [i \in 1 .. n |-> i]
<1>1. all \in Seq(1 .. n) /\ Len(all) = n /\ \A i \in 1 .. n : all[i] = i
  OBVIOUS
<1>2. Members(all) = 1 .. n
  BY DEF Members
<1> DEFINE r == Keep(all, S)
<1>0. list = r
  BY DEF r
<1> HIDE DEF all
<1>3. r \in Seq(1 .. n) /\ Members(r) = Members(all) \cap S
  BY <1>1, KeepFacts
<1>4. PICK at \in [1 .. Len(r) -> 1 .. Len(all)] :
            /\ \A i \in 1 .. Len(r) : r[i] = all[at[i]]
            /\ \A i, j \in 1 .. Len(r) : i < j => at[i] < at[j]
  BY <1>1, KeepFacts
<1> HIDE DEF r
<1>5. \A i \in 1 .. Len(r) : r[i] = at[i]
  BY <1>1, <1>4
<1>6. Len(r) \in Nat
  BY <1>3, SequenceFacts
<1>7. \A a, b \in 1 .. Len(r) : a < b => r[a] < r[b]
  BY <1>4, <1>5
<1>8. Members(r) = S
  BY <1>2, <1>3
<1> QED BY <1>0, <1>3, <1>6, <1>7, <1>8

ItemRecord == [name : Nat, is_desktop : BOOLEAN]

\* The items are a list; no program found on PATH has the name of another item.
LEMMA ItemsFacts ==
    /\ items \in Seq(ItemRecord) /\ Len(items) \in Nat /\ Item = 1 .. Len(items)
    /\ \A i \in Item : items[i] \in ItemRecord
    /\ \A i, j \in Item : i # j /\ ~items[i].is_desktop => items[i].name # items[j].name
<1> DEFINE test == {f \in DesktopFile : launcher_parse_desktop_file(f)}
           read == Keep(Desktop, test)
           apps == launcher_load_desktop_files
<1>1. read \in Seq(DesktopFile)
  BY FilesAssumption, KeepFacts
<1>2. apps = [i \in DOMAIN read |-> [name |-> read[i].name, is_desktop |-> TRUE]]
  BY DEF launcher_load_desktop_files
<1> HIDE DEF read, apps
<1>3. /\ apps \in Seq(ItemRecord) /\ Len(apps) \in Nat /\ DOMAIN apps = 1 .. Len(apps)
      /\ \A i \in 1 .. Len(apps) : apps[i].is_desktop = TRUE
  <2>1. DOMAIN read = 1 .. Len(read) /\ Len(read) \in Nat /\ \A i \in 1 .. Len(read) : read[i].name \in Nat
    <3>1. DOMAIN read = 1 .. Len(read) /\ Len(read) \in Nat /\ \A i \in 1 .. Len(read) : read[i] \in DesktopFile
      BY <1>1, SequenceFacts
    <3> QED BY <3>1 DEF DesktopFile
  <2> QED BY <1>2, <2>1 DEF ItemRecord
<1> DEFINE n == Len(Path)
           new == {i \in DOMAIN Path : /\ ~launcher_find_duplicates(apps, Path[i])
                                       /\ \A j \in 1 .. i - 1 : Path[j] # Path[i]}
           kept == Keep([i \in DOMAIN Path |-> i], new)
           programs == launcher_scan_path(apps)
<1>4. n \in Nat /\ DOMAIN Path = 1 .. n /\ \A i \in 1 .. n : Path[i] \in Nat
  BY FilesAssumption
<1>5. /\ kept \in Seq(1 .. n) /\ Len(kept) \in Nat /\ Members(kept) = new
      /\ \A a, b \in 1 .. Len(kept) : a < b => kept[a] < kept[b]
  BY <1>4, KeepPositions
<1>6. programs = [k \in DOMAIN kept |-> [name |-> Path[kept[k]], is_desktop |-> FALSE]]
  BY DEF launcher_scan_path
<1> HIDE DEF kept, n, programs
<1>7. DOMAIN kept = 1 .. Len(kept) /\ \A k \in 1 .. Len(kept) : kept[k] \in 1 .. n
  BY <1>5, SequenceFacts
<1>8. \A k \in 1 .. Len(kept) : kept[k] \in new
  BY <1>5, MembersFacts
<1>9. /\ programs \in Seq(ItemRecord) /\ Len(programs) = Len(kept)
      /\ \A k \in 1 .. Len(kept) : /\ programs[k].name = Path[kept[k]]
                                   /\ programs[k].is_desktop = FALSE
  BY <1>4, <1>5, <1>6, <1>7 DEF ItemRecord
<1>10. ASSUME NEW k \in 1 .. Len(kept), NEW i \in 1 .. Len(apps)
       PROVE  apps[i].name # programs[k].name
  BY <1>3, <1>8, <1>9 DEF launcher_find_duplicates
<1>11. ASSUME NEW k \in 1 .. Len(kept), NEW l \in 1 .. Len(kept), k # l
       PROVE  programs[k].name # programs[l].name
  <2>1. \A a, b \in 1 .. Len(kept) : a < b => programs[a].name # programs[b].name
    <3> SUFFICES ASSUME NEW a \in 1 .. Len(kept), NEW b \in 1 .. Len(kept), a < b
                 PROVE  programs[a].name # programs[b].name
      OBVIOUS
    <3>1. kept[a] \in 1 .. kept[b] - 1
      BY <1>4, <1>5, <1>7
    <3>2. Path[kept[a]] # Path[kept[b]]
      BY <1>8, <3>1
    <3> QED BY <1>9, <3>2
  <2>2. k < l \/ l < k
    BY <1>5, <1>11
  <2> QED BY <2>1, <2>2
<1>12. items = apps \o programs
  BY DEF items, launcher_append_items, apps, programs
<1>13. /\ items \in Seq(ItemRecord) /\ Len(items) = Len(apps) + Len(kept)
       /\ \A i \in 1 .. Len(apps) + Len(kept) :
             items[i] = IF i <= Len(apps) THEN apps[i] ELSE programs[i - Len(apps)]
  <2>1. /\ apps \o programs \in Seq(ItemRecord)
        /\ Len(apps \o programs) = Len(apps) + Len(programs)
        /\ \A i \in 1 .. Len(apps) + Len(programs) :
              (apps \o programs)[i] = IF i <= Len(apps) THEN apps[i] ELSE programs[i - Len(apps)]
    <3>1. apps \in Seq(ItemRecord) /\ programs \in Seq(ItemRecord)
      BY <1>3, <1>9
    <3> QED BY <3>1, ConcatProperties
  <2>2. Len(programs) = Len(kept)
    BY <1>9
  <2> QED BY <1>12, <2>1, <2>2
<1>14. Len(items) \in Nat /\ Item = 1 .. Len(items) /\ \A i \in Item : items[i] \in ItemRecord
  BY <1>13 DEF Item
<1>15. ASSUME NEW i \in Item, NEW j \in Item, i # j, ~items[i].is_desktop
       PROVE  items[i].name # items[j].name
  <2>1. i > Len(apps) /\ i - Len(apps) \in 1 .. Len(kept) /\ items[i] = programs[i - Len(apps)]
    BY <1>3, <1>5, <1>13, <1>14, <1>15
  <2>2. CASE j <= Len(apps)
    <3>1. j \in 1 .. Len(apps) /\ items[j] = apps[j]
      BY <1>3, <1>5, <1>13, <1>14, <2>2
    <3> QED BY <1>10, <2>1, <3>1
  <2>3. CASE j > Len(apps)
    <3>1. /\ j - Len(apps) \in 1 .. Len(kept) /\ items[j] = programs[j - Len(apps)]
          /\ i - Len(apps) # j - Len(apps)
      BY <1>3, <1>5, <1>13, <1>14, <1>15, <2>3
    <3> QED BY <1>11, <2>1, <3>1
  <2> QED BY <1>3, <1>14, <2>2, <2>3
<1> QED BY <1>13, <1>14, <1>15

\* launcher_item_cmp() is a strict total order of the items.
LEMMA ItemOrder ==
    ASSUME NEW count \in Count
    PROVE  /\ \A i \in Item : ~launcher_item_cmp(count, i, i)
           /\ \A i, j \in Item : i # j =>
                launcher_item_cmp(count, i, j) \/ launcher_item_cmp(count, j, i)
           /\ \A i, j, k \in Item :
                launcher_item_cmp(count, i, j) /\ launcher_item_cmp(count, j, k) =>
                    launcher_item_cmp(count, i, k)
<1>1. \A i \in Item : i \in Nat /\ count[i] \in Nat /\ items[i].name \in Nat
  BY ItemsFacts, BoundAssumption DEF Count, ItemRecord
<1> QED BY <1>1 DEF launcher_item_cmp

\* The items that come before item i.
Before(count, i) == {j \in Item : launcher_item_cmp(count, j, i)}

\* No two items have as many before them, and the one that comes before has fewer.
LEMMA BeforeCounts ==
    ASSUME NEW count \in Count
    PROVE  /\ \A i \in Item : /\ Cardinality(Before(count, i)) \in Nat
                              /\ Cardinality(Before(count, i)) + 1 \in Item
           /\ \A i, j \in Item : launcher_item_cmp(count, i, j) =>
                Cardinality(Before(count, i)) < Cardinality(Before(count, j))
<1> DEFINE n == Len(items)
           B(i) == Before(count, i)
<1>1. n \in Nat /\ Item = 1 .. n /\ IsFiniteSet(Item) /\ Cardinality(Item) = n
  <2>1. n \in Nat /\ Item = 1 .. n
    BY ItemsFacts
  <2>2. IsFiniteSet(1 .. n) /\ Cardinality(1 .. n) = IF 1 > n THEN 0 ELSE n - 1 + 1
    BY <2>1, FS_Interval
  <2> HIDE DEF n
  <2> QED BY <2>1, <2>2
<1> HIDE DEF n
<1>2. ASSUME NEW i \in Item
      PROVE  /\ IsFiniteSet(B(i)) /\ Cardinality(B(i)) \in Nat
             /\ i \notin B(i) /\ B(i) \subseteq Item
  <2>1. i \notin B(i) /\ B(i) \subseteq Item
    BY ItemOrder DEF Before
  <2>2. IsFiniteSet(B(i))
    BY <1>1, <2>1, FS_Subset
  <2> QED BY <2>1, <2>2, FS_CardinalityType
<1>3. ASSUME NEW S, NEW T, IsFiniteSet(T), S \subseteq T, S # T
      PROVE  Cardinality(S) < Cardinality(T)
  <2>1. /\ IsFiniteSet(S) /\ Cardinality(S) <= Cardinality(T)
        /\ Cardinality(T) # Cardinality(S)
    BY <1>3, FS_Subset
  <2>2. Cardinality(S) \in Nat /\ Cardinality(T) \in Nat
    BY <1>3, <2>1, FS_CardinalityType
  <2> QED BY <2>1, <2>2
<1>4. ASSUME NEW i \in Item PROVE Cardinality(B(i)) + 1 \in Item
  <2>1. Cardinality(B(i)) < n
    BY <1>1, <1>2, <1>3
  <2> QED BY <1>1, <1>2, <2>1
<1>5. ASSUME NEW i \in Item, NEW j \in Item, launcher_item_cmp(count, i, j)
      PROVE  Cardinality(B(i)) < Cardinality(B(j))
  <2>1. B(i) \subseteq B(j)
    BY <1>5, ItemOrder DEF Before
  <2>2. i \in B(j)
    BY <1>5 DEF Before
  <2> QED BY <1>2, <1>3, <2>1, <2>2
<1> QED BY <1>2, <1>4, <1>5

\* Ranked() has every item once, in order.
LEMMA RankedFacts ==
    ASSUME NEW count \in Count, NEW list, list = Ranked(count)
    PROVE  /\ list \in Seq(Item) /\ Len(list) = Len(items) /\ DOMAIN list = Item
           /\ \A i \in Item : \E k \in Item : list[k] = i
           /\ \A k, l \in Item : k < l => launcher_item_cmp(count, list[k], list[l])
<1> DEFINE n == Len(items)
           at == [i \in Item |-> Cardinality(Before(count, i)) + 1]
<1>1. n \in Nat /\ Item = 1 .. n
  BY ItemsFacts
<1>2. at \in [Item -> Item]
  BY BeforeCounts
<1>3. \A i, j \in Item : launcher_item_cmp(count, i, j) => at[i] < at[j]
  BY BeforeCounts
<1>4. \A i, j \in Item : at[i] = at[j] => i = j
  <2> SUFFICES ASSUME NEW i \in Item, NEW j \in Item, at[i] = at[j], i # j PROVE FALSE
    OBVIOUS
  <2>1. at[i] < at[j] \/ at[j] < at[i]
    BY <1>3, ItemOrder
  <2>2. at[i] \in Nat /\ at[j] \in Nat
    BY <1>1, <1>2
  <2> QED BY <2>1, <2>2
<1>5. \A k \in Item : \E i \in Item : at[i] = k
  <2>1. IsFiniteSet(Item)
    BY <1>1, FS_Interval
  <2> HIDE DEF at
  <2>3. at \in Injection(Item, Item)
    BY <1>2, <1>4 DEF Injection, IsInjective
  <2>2. at \in Surjection(Item, Item)
    BY <2>1, <2>3, FS_Injection
  <2> QED BY <2>2 DEF Surjection
<1>6. \A k \in Item : list[k] = CHOOSE i \in Item : Cardinality(Before(count, i)) = k - 1
  BY DEF Ranked, Before
<1>7. ASSUME NEW k \in Item PROVE list[k] \in Item /\ at[list[k]] = k
  <2>1. PICK i \in Item : at[i] = k
    BY <1>5
  <2>2. Cardinality(Before(count, i)) \in Nat
    BY BeforeCounts
  <2>3. Cardinality(Before(count, i)) = k - 1
    BY <2>1, <2>2
  <2>4. list[k] \in Item /\ Cardinality(Before(count, list[k])) = k - 1
    BY <1>6, <2>3
  <2> QED BY <1>1, <2>4
<1>8. list \in Seq(Item) /\ Len(list) = n /\ DOMAIN list = Item
  <2>1. list = [k \in 1 .. n |-> list[k]]
    <3> HIDE DEF n
    <3>1. list = [k \in 1 .. n |-> CHOOSE i \in Item :
                    Cardinality({j \in Item : launcher_item_cmp(count, j, i)}) = k - 1]
      BY <1>1 DEF Ranked
    <3> QED BY <3>1
  <2>2. \A k \in 1 .. n : list[k] \in Item
    BY <1>1, <1>7
  <2> HIDE DEF n
  <2>3. list \in [1 .. n -> Item]
    BY <2>1, <2>2
  <2> QED BY <1>1, <2>3
<1> HIDE DEF at
<1>9. ASSUME NEW i \in Item PROVE \E k \in Item : list[k] = i
  <2>1. at[i] \in Item
    BY <1>2
  <2> QED BY <1>4, <1>7, <2>1
<1>10. ASSUME NEW k \in Item, NEW l \in Item, k < l
       PROVE  launcher_item_cmp(count, list[k], list[l])
  <2>1. /\ list[k] \in Item /\ list[l] \in Item
        /\ at[list[k]] = k /\ at[list[l]] = l
    BY <1>7
  <2>2. ~(l < k) /\ k # l
    BY <1>1, <1>10
  <2>3. ~launcher_item_cmp(count, list[l], list[k]) /\ list[k] # list[l]
    BY <1>3, <2>1, <2>2
  <2> QED BY <2>1, <2>3, ItemOrder
<1> QED BY <1>8, <1>9, <1>10

-----------------------------------------------------------------------------
\* Types, and that every item has a row.
Typed ==
    /\ rows \in Seq(Item) /\ DOMAIN rows = Item /\ Len(rows) = Len(items)
    /\ \A i \in Item : \E k \in Item : rows[k] = i
    /\ sel \in Item \cup {NoRow}
    /\ search \in Text \cup {NoText} /\ filtered \in Text \cup {NoText}
    /\ changed \in BOOLEAN /\ idle \in BOOLEAN /\ moved \in BOOLEAN
    /\ visible \in BOOLEAN /\ saving \in BOOLEAN /\ lost \in BOOLEAN
    /\ launch_count \in Count /\ launched \in [Names -> Nat]
    /\ file \in Seq(Names \X (1 .. MaxCount))

\* The rows are filtered by the text once GTK has told of it; and unless the first
\* row is due to be selected, what is selected matches the text if anything does.
Selected ==
    /\ ~changed => filtered = search
    /\ visible /\ ~changed /\ ~idle /\ ~moved =>
         \/ sel = NoRow
         \/ launcher_item_matches(sel, search)
         \/ \A i \in Item : ~launcher_item_matches(i, search)

\* The items of a name.
Named(n) == {i \in Item : items[i].name = n}

\* The counts that lines tell of a name.
Told(lines, n) == {lines[k][2] : k \in {j \in DOMAIN lines : lines[j][1] = n}}

\* The lines, or the counts, tell of the launches.
LinesTell(lines) ==
    \A n \in Names :
        IF launched[n] = 0 THEN Told(lines, n) = {}
        ELSE IF Cardinality(Named(n)) = 1 THEN Told(lines, n) = {launched[n]}
        ELSE Told(lines, n) # {}

CountsTell ==
    \A n \in Names :
        IF launched[n] = 0 THEN \A i \in Named(n) : launch_count[i] = 0
        ELSE IF Cardinality(Named(n)) = 1 THEN \A i \in Named(n) : launch_count[i] = launched[n]
        ELSE \E i \in Named(n) : launch_count[i] > 0

\* As long as no save failed: the counts do, and the file unless it is being written.
Remembered == ~lost => CountsTell /\ (~saving => LinesTell(file))

\* The first item of a name.
LEMMA FirstFacts ==
    ASSUME NEW n \in Names
    PROVE  FirstOf(n) \in Named(n)
<1>1. Named(n) # {} /\ Named(n) \in SUBSET Nat
  BY ItemsFacts DEF Names, Named
<1>2. PICK m \in Named(n) : \A y \in Named(n) : m <= y
  BY <1>1, LeastElement
<1>3. m \in Item /\ items[m].name = n /\ \A j \in Item : items[j].name = n => m <= j
  BY <1>2 DEF Named
<1> QED BY <1>3 DEF FirstOf, Named

\* What is read from lines: the counts of the names they tell of.
LEMMA HistoryFacts ==
    ASSUME NEW lines \in Seq(Names \X (1 .. MaxCount)),
           NEW count, count = launcher_history_load(lines)
    PROVE  /\ count \in Count
           /\ \A n \in Names : Told(lines, n) = {} => \A i \in Named(n) : count[i] = 0
           /\ \A n \in Names : Told(lines, n) # {} =>
                \E i \in Named(n) : count[i] \in Told(lines, n)
<1> DEFINE mine(n) == {k \in DOMAIN lines : lines[k][1] = n}
<1>1. /\ DOMAIN lines = 1 .. Len(lines) /\ Len(lines) \in Nat
      /\ \A k \in 1 .. Len(lines) : lines[k][1] \in Names /\ lines[k][2] \in 1 .. MaxCount
  BY SequenceFacts
<1>2. ASSUME NEW n, mine(n) # {} PROVE Max(mine(n)) \in mine(n)
  <2>1. mine(n) \in SUBSET (1 .. Len(lines))
    BY <1>1
  <2>2. \E m \in mine(n) : \A y \in mine(n) : m >= y
    <3> HIDE DEF mine
    <3> QED BY <1>1, <1>2, <2>1, GreatestElement
  <2> HIDE DEF mine
  <2> QED BY <2>2 DEF Max
<1>3. ASSUME NEW n, mine(n) # {}
      PROVE  lines[Max(mine(n))][2] \in Told(lines, n) /\ lines[Max(mine(n))][2] \in 1 .. MaxCount
  BY <1>1, <1>2, <1>3 DEF Told
<1>4. \A n : mine(n) = {} <=> Told(lines, n) = {}
  BY DEF Told
<1>5. \A i \in Item : count[i] = IF \/ mine(items[i].name) = {}
                                    \/ i # FirstOf(items[i].name) THEN 0
                                 ELSE lines[Max(mine(items[i].name))][2]
  BY DEF launcher_history_load
<1> HIDE DEF mine
<1>6. \A i \in Item : count[i] \in 0 .. MaxCount
  BY <1>3, <1>5, BoundAssumption
<1>7. count \in Count
  <2>1. count = [i \in Item |-> count[i]]
    BY DEF launcher_history_load
  <2> QED BY <1>6, <2>1 DEF Count
<1>8. ASSUME NEW n \in Names, Told(lines, n) = {}, NEW i \in Named(n) PROVE count[i] = 0
  BY <1>4, <1>5, <1>8 DEF Named
<1>9. ASSUME NEW n \in Names, Told(lines, n) # {}
      PROVE  \E i \in Named(n) : count[i] \in Told(lines, n)
  <2>1. FirstOf(n) \in Item /\ items[FirstOf(n)].name = n /\ FirstOf(n) \in Named(n)
    BY FirstFacts DEF Named
  <2>2. count[FirstOf(n)] = lines[Max(mine(n))][2]
    BY <1>4, <1>5, <1>9, <2>1
  <2> QED BY <1>3, <1>4, <1>9, <2>1, <2>2
<1> QED BY <1>7, <1>8, <1>9

\* The lines that are written: the counts that are not zero.
LEMMA LinesFacts ==
    ASSUME launch_count \in Count
    PROVE  /\ Lines \in Seq(Names \X (1 .. MaxCount))
           /\ \A n \in Names :
                Told(Lines, n) = {launch_count[i] : i \in {j \in Named(n) : launch_count[j] > 0}}
<1> DEFINE positive == {i \in Item : launch_count[i] > 0}
           counted == Keep([i \in Item |-> i], positive)
<1>1. Len(items) \in Nat /\ Item = 1 .. Len(items)
  BY ItemsFacts
<1>2. /\ counted \in Seq(Item) /\ Len(counted) \in Nat /\ Members(counted) = positive
      /\ DOMAIN counted = 1 .. Len(counted)
  BY <1>1, KeepPositions, SequenceFacts
<1>3. Lines = [k \in DOMAIN counted |-> <<items[counted[k]].name, launch_count[counted[k]]>>]
  BY DEF Lines
<1>4. Members(counted) = {counted[k] : k \in 1 .. Len(counted)}
  BY <1>2, MembersFacts
<1> HIDE DEF counted
<1>5. \A k \in 1 .. Len(counted) : counted[k] \in positive
  BY <1>2, <1>4
<1>6. \A i \in positive : /\ i \in Item /\ items[i].name \in Names
                          /\ launch_count[i] \in 1 .. MaxCount
  BY BoundAssumption DEF Count, Names
<1>7. /\ DOMAIN Lines = 1 .. Len(counted)
      /\ \A k \in 1 .. Len(counted) :
            Lines[k] = <<items[counted[k]].name, launch_count[counted[k]]>>
  BY <1>2, <1>3
<1>8. Lines \in Seq(Names \X (1 .. MaxCount))
  <2>1. \A k \in 1 .. Len(counted) :
            <<items[counted[k]].name, launch_count[counted[k]]>> \in Names \X (1 .. MaxCount)
    BY <1>5, <1>6
  <2> HIDE DEF positive
  <2> QED BY <1>2, <1>3, <2>1
<1>9. ASSUME NEW n \in Names
      PROVE  Told(Lines, n) = {launch_count[i] : i \in {j \in Named(n) : launch_count[j] > 0}}
  <2> DEFINE some == {j \in Named(n) : launch_count[j] > 0}
  <2>1. ASSUME NEW c \in Told(Lines, n) PROVE \E i \in some : c = launch_count[i]
    <3>1. PICK k \in DOMAIN Lines : Lines[k][1] = n /\ c = Lines[k][2]
      BY <2>1 DEF Told
    <3>2. /\ counted[k] \in positive /\ items[counted[k]].name = n
          /\ c = launch_count[counted[k]]
      BY <1>5, <1>7, <3>1
    <3> QED BY <3>2 DEF Named
  <2>2. ASSUME NEW i \in some PROVE launch_count[i] \in Told(Lines, n)
    <3>1. i \in positive /\ items[i].name = n
      BY DEF Named
    <3>2. PICK k \in 1 .. Len(counted) : counted[k] = i
      BY <1>2, <1>4, <3>1
    <3>3. k \in DOMAIN Lines /\ Lines[k][1] = n /\ Lines[k][2] = launch_count[i]
      BY <1>7, <3>1, <3>2
    <3> QED BY <3>3 DEF Told
  <2> QED BY <2>1, <2>2
<1> QED BY <1>8, <1>9

\* Lines that are written from the counts tell what they do.
LEMMA SavedTells ==
    ASSUME launch_count \in Count, launched \in [Names -> Nat], CountsTell
    PROVE  LinesTell(Lines)
<1> SUFFICES ASSUME NEW n \in Names
             PROVE  IF launched[n] = 0 THEN Told(Lines, n) = {}
                    ELSE IF Cardinality(Named(n)) = 1 THEN Told(Lines, n) = {launched[n]}
                    ELSE Told(Lines, n) # {}
  BY DEF LinesTell
<1>1. Told(Lines, n) = {launch_count[i] : i \in {j \in Named(n) : launch_count[j] > 0}}
  BY LinesFacts
<1>2. Named(n) # {} /\ IsFiniteSet(Named(n))
  <2>1. IsFiniteSet(Item)
    BY ItemsFacts, FS_Interval
  <2> QED BY <2>1, FS_Subset DEF Names, Named
<1>3. CASE launched[n] = 0
  BY <1>1, <1>3 DEF CountsTell
<1>4. CASE launched[n] # 0 /\ Cardinality(Named(n)) = 1
  <2>1. PICK i \in Named(n) : Named(n) = {i}
    BY <1>2, <1>4, FS_Singleton
  <2>2. launch_count[i] = launched[n] /\ launched[n] > 0
    BY <1>4 DEF CountsTell
  <2> QED BY <1>1, <1>4, <2>1, <2>2
<1>5. CASE launched[n] # 0 /\ Cardinality(Named(n)) # 1
  BY <1>1, <1>5 DEF CountsTell
<1> QED BY <1>3, <1>4, <1>5

\* Counts that are read from lines tell what they do.
LEMMA LoadedTells ==
    ASSUME file' \in Seq(Names \X (1 .. MaxCount)), launched' \in [Names -> Nat],
           launch_count' = launcher_history_load(file'), LinesTell(file)'
    PROVE  CountsTell'
<1> SUFFICES ASSUME NEW n \in Names
             PROVE  IF launched'[n] = 0 THEN \A i \in Named(n) : launch_count'[i] = 0
                    ELSE IF Cardinality(Named(n)) = 1
                         THEN \A i \in Named(n) : launch_count'[i] = launched'[n]
                    ELSE \E i \in Named(n) : launch_count'[i] > 0
  BY DEF CountsTell, Named, Names
<1>1. /\ launched'[n] = 0 => Told(file', n) = {}
      /\ launched'[n] # 0 /\ Cardinality(Named(n)) = 1 => Told(file', n) = {launched'[n]}
      /\ launched'[n] # 0 => Told(file', n) # {}
  BY DEF LinesTell, Told, Named, Names
<1>2. /\ Told(file', n) = {} => \A i \in Named(n) : launch_count'[i] = 0
      /\ Told(file', n) # {} => \E i \in Named(n) : launch_count'[i] \in Told(file', n)
  BY HistoryFacts
<1>3. CASE launched'[n] = 0
  BY <1>1, <1>2, <1>3
<1>4. CASE launched'[n] # 0 /\ Cardinality(Named(n)) = 1
  <2>1. IsFiniteSet(Named(n))
    <3>1. IsFiniteSet(Item)
      BY ItemsFacts, FS_Interval
    <3> QED BY <3>1, FS_Subset DEF Named
  <2>2. PICK i \in Named(n) : launch_count'[i] = launched'[n]
    BY <1>1, <1>2, <1>4
  <2>3. Named(n) = {i}
    BY <1>4, <2>1, FS_Singleton
  <2> QED BY <1>4, <2>2, <2>3
<1>5. CASE launched'[n] # 0 /\ Cardinality(Named(n)) # 1
  <2>1. PICK i \in Named(n) : launch_count'[i] \in Told(file', n)
    BY <1>1, <1>2, <1>5
  <2>2. \A c \in Told(file', n) : c > 0
    <3>1. \A k \in DOMAIN file' : file'[k][2] \in 1 .. MaxCount
      BY SequenceFacts
    <3> QED BY <3>1, BoundAssumption DEF Told
  <2> QED BY <1>5, <2>1, <2>2
<1> QED BY <1>3, <1>4, <1>5

-----------------------------------------------------------------------------
\* What the steps are made of.

\* The first row on display, if any.
LEMMA FirstVisible ==
    ASSUME Typed
    PROVE  LET row == launcher_first_visible_row
           IN  /\ row \in Item \cup {NoRow}
               /\ row # NoRow => launcher_item_matches(row, filtered)
               /\ row = NoRow => \A i \in Item : ~launcher_item_matches(i, filtered)
<1> DEFINE at == {k \in DOMAIN rows : launcher_filter_func(rows[k])}
           row == launcher_first_visible_row
<1>1. /\ Item = 1 .. Len(items) /\ DOMAIN rows = Item
      /\ \A k \in Item : rows[k] \in Item
  BY ItemsFacts, SequenceFacts DEF Typed
<1>2. row = IF at = {} THEN NoRow ELSE rows[Min(at)]
  BY DEF launcher_first_visible_row
<1>3. CASE at = {}
  <2>1. \A i \in Item : ~launcher_filter_func(i)
    BY <1>1, <1>3 DEF Typed
  <2> QED BY <1>2, <1>3, <2>1 DEF launcher_filter_func
<1>4. CASE at # {}
  <2>1. at \in SUBSET Nat
    BY <1>1
  <2>2. Min(at) \in at
    <3> HIDE DEF at
    <3> QED BY <1>4, <2>1, LeastElement DEF Min
  <2>3. row \in Item /\ launcher_filter_func(row)
    BY <1>1, <1>2, <1>4, <2>2
  <2>4. row # NoRow
    BY <1>1, <2>3 DEF NoRow
  <2> QED BY <2>3, <2>4 DEF launcher_filter_func
<1> QED BY <1>3, <1>4

\* The row above or below the selection.
LEMMA ArrowFacts ==
    ASSUME Typed, on_key_press_Up \/ on_key_press_Down
    PROVE  sel' \in Item \cup {NoRow}
<1>1. /\ Item = 1 .. Len(items) /\ Len(items) \in Nat /\ Len(rows) = Len(items)
      /\ \A k \in Item : rows[k] \in Item
  BY ItemsFacts, SequenceFacts DEF Typed
<1>2. FirstRow \in Item \cup {NoRow} /\ LastRow \in Item \cup {NoRow}
  <2>1. rows # <<>> => 1 \in Item /\ Len(rows) \in Item
    BY <1>1, EmptySeq DEF Typed
  <2> QED BY <1>1, <2>1 DEF FirstRow, LastRow
<1>3. sel # NoRow => PositionOf(sel) \in Item
  <2>1. sel \in Item => \E k \in DOMAIN rows : rows[k] = sel
    BY DEF Typed
  <2> QED BY <2>1 DEF PositionOf, Typed
<1>4. CASE on_key_press_Up
  <2>1. sel # NoRow /\ PositionOf(sel) # 1 => PositionOf(sel) - 1 \in Item
    BY <1>1, <1>3
  <2> QED BY <1>1, <1>2, <1>4, <2>1 DEF on_key_press_Up, Typed
<1>5. CASE on_key_press_Down
  <2>1. sel # NoRow /\ PositionOf(sel) # Len(rows) => PositionOf(sel) + 1 \in Item
    BY <1>1, <1>3
  <2> QED BY <1>1, <1>2, <1>5, <2>1 DEF on_key_press_Down, Typed
<1> QED BY <1>4, <1>5

\* The rows after they were sorted or built.
LEMMA Resorted ==
    ASSUME Typed, rows' = Ranked(launch_count) \/ rows' = rows
    PROVE  /\ rows' \in Seq(Item) /\ DOMAIN rows' = Item /\ Len(rows') = Len(items)
           /\ \A i \in Item : \E k \in Item : rows'[k] = i
  BY RankedFacts DEF Typed

\* What a new text changes.
LEMMA TextFacts ==
    ASSUME Typed, NEW text \in Text \cup {NoText}, gtk_entry_set_text(text)
    PROVE  /\ rows' = Ranked(launch_count) \/ rows' = rows
           /\ search' \in Text \cup {NoText} /\ filtered' \in Text \cup {NoText}
           /\ changed' \in BOOLEAN /\ idle' \in BOOLEAN
           /\ search' = text
           /\ text # search => changed' \/ idle'
           /\ (~changed => filtered = search) => (~changed' => filtered' = search')
  BY DEF gtk_entry_set_text, on_search_changed, Typed

\* A launch is counted, and the history is being written or could not be.
LEMMA LaunchFacts ==
    ASSUME Typed, NEW i \in Item, launcher_launch_row(i)
    PROVE  /\ launch_count' \in Count /\ launched' \in [Names -> Nat]
           /\ file' \in Seq(Names \X (1 .. MaxCount))
           /\ saving' \in BOOLEAN /\ lost' \in BOOLEAN /\ visible' = FALSE
           /\ Remembered => Remembered'
<1> DEFINE m == items[i].name
<1>1. m \in Names /\ i \in Named(m)
  BY DEF Names, Named
<1>2. /\ launch_count' = [launch_count EXCEPT ![i] = launch_count[i] + 1]
      /\ launched' = [launched EXCEPT ![m] = launched[m] + 1]
      /\ launch_count[i] < MaxCount
      /\ \/ file' = <<>> /\ saving' = TRUE /\ lost' = lost
         \/ lost' = TRUE /\ file' = file /\ saving' = saving
      /\ visible' = FALSE
  BY DEF launcher_launch_row, launcher_history_save
<1> HIDE DEF m
<1>3. launch_count \in Count /\ launched \in [Names -> Nat]
  BY DEF Typed
<1>4. /\ \A j \in Item : launch_count[j] \in Nat
      /\ launch_count' \in Count /\ launched' \in [Names -> Nat]
      /\ launch_count'[i] = launch_count[i] + 1 /\ launched'[m] = launched[m] + 1
      /\ \A j \in Item \ {i} : launch_count'[j] = launch_count[j]
      /\ \A n \in Names \ {m} : launched'[n] = launched[n]
  BY <1>1, <1>2, <1>3, BoundAssumption DEF Count
<1>5. ASSUME CountsTell PROVE CountsTell'
  <2> SUFFICES ASSUME NEW n \in Names
               PROVE  IF launched'[n] = 0 THEN \A j \in Named(n) : launch_count'[j] = 0
                      ELSE IF Cardinality(Named(n)) = 1
                           THEN \A j \in Named(n) : launch_count'[j] = launched'[n]
                      ELSE \E j \in Named(n) : launch_count'[j] > 0
    BY DEF CountsTell, Named, Names
  <2>1. CASE n # m
    <3>1. launched'[n] = launched[n] /\ \A j \in Named(n) : launch_count'[j] = launch_count[j]
      BY <1>1, <1>4, <2>1 DEF Named
    <3> QED BY <1>5, <3>1 DEF CountsTell
  <2>2. CASE n = m
    <3>1. launched'[n] # 0 /\ launch_count'[i] > 0
      BY <1>1, <1>3, <1>4, <2>2
    <3>2. ASSUME Cardinality(Named(n)) = 1, NEW j \in Named(n)
          PROVE  launch_count'[j] = launched'[n]
      <4>1. IsFiniteSet(Named(n))
        <5>1. IsFiniteSet(Item)
          BY ItemsFacts, FS_Interval
        <5> QED BY <5>1, FS_Subset DEF Named
      <4>2. Named(n) = {i}
        BY <1>1, <2>2, <3>2, <4>1, FS_Singleton
      <4>3. launch_count[i] = launched[n]
        BY <1>1, <1>5, <2>2, <3>2 DEF CountsTell
      <4> QED BY <1>4, <2>2, <4>2, <4>3
    <3> QED BY <1>1, <2>2, <3>1, <3>2
  <2> QED BY <2>1, <2>2
<1>6. Remembered => Remembered'
  BY <1>2, <1>5 DEF Remembered
<1>7. file' \in Seq(Names \X (1 .. MaxCount)) /\ saving' \in BOOLEAN /\ lost' \in BOOLEAN
  <2>1. <<>> \in Seq(Names \X (1 .. MaxCount))
    OBVIOUS
  <2> QED BY <1>2, <2>1 DEF Typed
<1> QED BY <1>2, <1>4, <1>6, <1>7

\* What is on disk when the history has been written, or the helper died.
LEMMA WrittenFacts ==
    ASSUME Typed, Remembered, NEW n \in 0 .. Len(Lines),
           saving, file' = SubSeq(Lines, 1, n), lost' = (lost \/ n < Len(Lines)),
           launched' = launched
    PROVE  /\ file' \in Seq(Names \X (1 .. MaxCount)) /\ lost' \in BOOLEAN
           /\ ~lost' => ~lost /\ LinesTell(file)'
<1>1. Lines \in Seq(Names \X (1 .. MaxCount)) /\ Len(Lines) \in Nat
  BY LinesFacts, SequenceFacts DEF Typed
<1>2. file' \in Seq(Names \X (1 .. MaxCount))
  BY <1>1
<1>3. ASSUME ~lost' PROVE ~lost /\ LinesTell(file)'
  <2>1. ~lost /\ n = Len(Lines)
    <3>1. ~lost /\ ~(n < Len(Lines))
      BY <1>3
    <3>2. n \in Nat /\ n <= Len(Lines)
      BY <1>1
    <3> QED BY <1>1, <3>1, <3>2
  <2>2. file' = Lines
    BY <1>1, <2>1
  <2>3. LinesTell(Lines)
    BY <2>1, SavedTells DEF Remembered, Typed
  <2> QED BY <2>1, <2>2, <2>3 DEF LinesTell, Told
<1> QED BY <1>2, <1>3 DEF Typed

-----------------------------------------------------------------------------
\* The invariant.
LauncherInv == Typed /\ Selected /\ Remembered

\* A launcher that starts has no text, every row on display, and the counts on file.
LEMMA LauncherStart == LauncherInit => LauncherInv
<1> SUFFICES ASSUME LauncherInit PROVE LauncherInv
  OBVIOUS
<1>1. <<>> \in Seq(Names \X (1 .. MaxCount)) /\ \A n : Told(<<>>, n) = {}
  BY DEF Told
<1>2. /\ launch_count \in Count
      /\ \A n \in Names : \A i \in Named(n) : launch_count[i] = 0
  BY <1>1, HistoryFacts DEF LauncherInit
<1>3. rows = Ranked(launch_count)
  BY DEF LauncherInit
<1>4. Typed
  BY <1>1, <1>2, <1>3, RankedFacts DEF LauncherInit, Typed
<1>5. Selected
  BY DEF LauncherInit, Selected
<1>6. Remembered
  BY <1>1, <1>2 DEF LauncherInit, Remembered, CountsTell, LinesTell
<1> QED BY <1>4, <1>5, <1>6 DEF LauncherInv

\* The counts and the history are what they were.
LEMMA HistoryKeeps ==
    ASSUME Remembered, UNCHANGED saveVars
    PROVE  Remembered'
<1>1. CountsTell => CountsTell'
  BY DEF CountsTell, Named, Names, saveVars
<1>2. LinesTell(file) => LinesTell(file)'
  BY DEF LinesTell, Told, Named, Names, saveVars
<1> QED BY <1>1, <1>2 DEF Remembered, saveVars

\* Each step keeps the types.
LEMMA TypedStep == ASSUME LauncherInv, LauncherNext PROVE Typed'
<1> USE DEF LauncherInv
<1>1. CASE launcher_show
  <2>1. /\ gtk_entry_set_text(NoText) /\ sel' = FirstRow'
        /\ moved' = FALSE /\ visible' = TRUE /\ UNCHANGED saveVars
    BY <1>1 DEF launcher_show
  <2>2. /\ rows' = Ranked(launch_count) \/ rows' = rows
        /\ search' \in Text \cup {NoText} /\ filtered' \in Text \cup {NoText}
        /\ changed' \in BOOLEAN /\ idle' \in BOOLEAN
    BY <2>1, TextFacts
  <2>3. /\ rows' \in Seq(Item) /\ DOMAIN rows' = Item /\ Len(rows') = Len(items)
        /\ \A i \in Item : \E k \in Item : rows'[k] = i
    BY <2>2, Resorted
  <2>4. sel' \in Item \cup {NoRow}
    <3>1. rows' # <<>> => 1 \in Item
      BY <2>3, ItemsFacts, EmptySeq
    <3> QED BY <2>1, <2>3, <3>1, SequenceFacts DEF FirstRow
  <2> QED BY <2>1, <2>2, <2>3, <2>4 DEF Typed, saveVars
<1>2. CASE launcher_hide
  BY <1>2 DEF launcher_hide, Typed, boxVars, saveVars
<1>3. CASE launcher_update_theme
  <2>1. rows' = Ranked(launch_count)
    BY <1>3 DEF launcher_update_theme, launcher_populate_listbox
  <2>2. /\ rows' \in Seq(Item) /\ DOMAIN rows' = Item /\ Len(rows') = Len(items)
        /\ \A i \in Item : \E k \in Item : rows'[k] = i
    BY <2>1, Resorted
  <2> QED BY <1>3, <2>2 DEF launcher_update_theme, Typed, saveVars
<1>4. ASSUME NEW text \in Text \cup {NoText}, Type(text) PROVE Typed'
  <2>1. /\ rows' = Ranked(launch_count) \/ rows' = rows
        /\ search' \in Text \cup {NoText} /\ filtered' \in Text \cup {NoText}
        /\ changed' \in BOOLEAN /\ idle' \in BOOLEAN
    BY <1>4, TextFacts DEF Type
  <2>2. /\ rows' \in Seq(Item) /\ DOMAIN rows' = Item /\ Len(rows') = Len(items)
        /\ \A i \in Item : \E k \in Item : rows'[k] = i
    BY <2>1, Resorted
  <2> QED BY <1>4, <2>1, <2>2 DEF Type, Typed, saveVars
<1>5. CASE SearchChanged
  <2>1. rows' = Ranked(launch_count)
    BY <1>5 DEF SearchChanged, on_search_changed
  <2>2. /\ rows' \in Seq(Item) /\ DOMAIN rows' = Item /\ Len(rows') = Len(items)
        /\ \A i \in Item : \E k \in Item : rows'[k] = i
    BY <2>1, Resorted
  <2> QED BY <1>5, <2>2 DEF SearchChanged, on_search_changed, Typed, saveVars
<1>6. CASE select_first_visible_idle
  <2>1. launcher_first_visible_row \in Item \cup {NoRow}
    BY FirstVisible
  <2> QED BY <1>6, <2>1 DEF select_first_visible_idle, Typed, saveVars
<1>7. CASE Arrow
  <2>1. sel' \in Item \cup {NoRow}
    BY <1>7, ArrowFacts DEF Arrow
  <2> QED BY <1>7, <2>1 DEF Arrow, Typed, saveVars
<1>8. CASE Return
  <2>1. Target \in Item
    <3>1. launcher_first_visible_row \in Item \cup {NoRow}
      BY FirstVisible
    <3> QED BY <1>8, <3>1 DEF Return, Target, Typed
  <2>2. launcher_launch_row(Target) /\ UNCHANGED boxVars
    BY <1>8 DEF Return
  <2>3. /\ launch_count' \in Count /\ launched' \in [Names -> Nat]
        /\ file' \in Seq(Names \X (1 .. MaxCount))
        /\ saving' \in BOOLEAN /\ lost' \in BOOLEAN /\ visible' = FALSE
    BY <2>1, <2>2, LaunchFacts
  <2> QED BY <2>2, <2>3 DEF Typed, boxVars
<1>9. ASSUME NEW i \in Item, on_row_activated(i) PROVE Typed'
  <2>1. launcher_launch_row(i)
    BY <1>9 DEF on_row_activated
  <2>2. /\ launch_count' \in Count /\ launched' \in [Names -> Nat]
        /\ file' \in Seq(Names \X (1 .. MaxCount))
        /\ saving' \in BOOLEAN /\ lost' \in BOOLEAN /\ visible' = FALSE
    BY <2>1, LaunchFacts
  <2> QED BY <1>9, <2>2 DEF on_row_activated, Typed
<1>10. CASE SaveReturns
  <2>1. PICK n \in 0 .. Len(Lines) :
            file' = SubSeq(Lines, 1, n) /\ lost' = (lost \/ n < Len(Lines))
    BY <1>10 DEF SaveReturns
  <2>2. file' \in Seq(Names \X (1 .. MaxCount)) /\ lost' \in BOOLEAN
    BY <1>10, <2>1, WrittenFacts DEF SaveReturns
  <2> QED BY <1>10, <2>2 DEF SaveReturns, Typed, boxVars
<1>11. CASE Crash
  <2>1. file' \in Seq(Names \X (1 .. MaxCount)) /\ lost' \in BOOLEAN
    <3>1. CASE saving
      <4>1. PICK n \in 0 .. Len(Lines) :
                file' = SubSeq(Lines, 1, n) /\ lost' = (lost \/ n < Len(Lines))
        BY <1>11, <3>1 DEF Crash
      <4> QED BY <1>11, <3>1, <4>1, WrittenFacts DEF Crash
    <3>2. CASE ~saving
      BY <1>11, <3>2 DEF Crash, Typed
    <3> QED BY <3>1, <3>2
  <2>2. launch_count' = launcher_history_load(file') /\ rows' = Ranked(launch_count')
    BY <1>11 DEF Crash, launcher_create, launcher_populate_listbox
  <2>3. launch_count' \in Count
    BY <2>1, <2>2, HistoryFacts
  <2>4. /\ rows' \in Seq(Item) /\ DOMAIN rows' = Item /\ Len(rows') = Len(items)
        /\ \A i \in Item : \E k \in Item : rows'[k] = i
    BY <2>2, <2>3, RankedFacts
  <2> QED BY <1>11, <2>1, <2>3, <2>4 DEF Crash, launcher_create, Typed
<1> QED BY <1>1, <1>2, <1>3, <1>4, <1>5, <1>6, <1>7, <1>8, <1>9, <1>10, <1>11
        DEF LauncherNext

\* Each step leaves a match selected, or the first row due to be.
LEMMA SelectedStep == ASSUME LauncherInv, LauncherNext PROVE Selected'
<1> USE DEF LauncherInv
<1>1. CASE launcher_show
  <2>1. gtk_entry_set_text(NoText) /\ sel' = FirstRow'
    BY <1>1 DEF launcher_show
  <2>2. search' = NoText /\ (~changed' => filtered' = search')
    BY <2>1, TextFacts DEF Selected
  <2>3. launcher_item_matches(sel, search)'
    BY <2>2 DEF launcher_item_matches
  <2> QED BY <2>2, <2>3 DEF Selected
<1>2. CASE launcher_hide
  BY <1>2 DEF launcher_hide, Selected, boxVars
<1>3. CASE launcher_update_theme
  BY <1>3 DEF launcher_update_theme, Selected
<1>4. ASSUME NEW text \in Text \cup {NoText}, Type(text) PROVE Selected'
  <2>1. (changed' \/ idle') /\ (~changed' => filtered' = search')
    BY <1>4, TextFacts DEF Type, Selected
  <2> QED BY <2>1 DEF Selected
<1>5. CASE SearchChanged
  BY <1>5 DEF SearchChanged, on_search_changed, Selected
<1>6. CASE select_first_visible_idle
  <2>1. /\ launcher_first_visible_row # NoRow =>
              launcher_item_matches(launcher_first_visible_row, filtered)
        /\ launcher_first_visible_row = NoRow =>
              \A i \in Item : ~launcher_item_matches(i, filtered)
    BY FirstVisible
  <2>2. /\ sel' = IF launcher_first_visible_row = NoRow THEN sel ELSE launcher_first_visible_row
        /\ UNCHANGED <<search, filtered, changed>>
    BY <1>6 DEF select_first_visible_idle
  <2>3. ASSUME ~changed'
        PROVE  launcher_item_matches(sel', search') \/ \A i \in Item : ~launcher_item_matches(i, search')
    <3>1. filtered = search /\ search' = search
      BY <2>2, <2>3 DEF Selected
    <3> QED BY <2>1, <2>2, <3>1
  <2> QED BY <2>2, <2>3 DEF Selected, launcher_item_matches
<1>7. CASE Arrow
  BY <1>7 DEF Arrow, Selected
<1>8. CASE Return
  BY <1>8 DEF Return, launcher_launch_row, boxVars, Selected
<1>9. ASSUME NEW i \in Item, on_row_activated(i) PROVE Selected'
  BY <1>9 DEF on_row_activated, launcher_launch_row, Selected
<1>10. CASE SaveReturns
  BY <1>10 DEF SaveReturns, boxVars, Selected
<1>11. CASE Crash
  BY <1>11 DEF Crash, launcher_create, Selected
<1> QED BY <1>1, <1>2, <1>3, <1>4, <1>5, <1>6, <1>7, <1>8, <1>9, <1>10, <1>11
        DEF LauncherNext

\* Each step keeps what counts and file tell, or something was lost.
LEMMA RememberedStep == ASSUME LauncherInv, LauncherNext PROVE Remembered'
<1> USE DEF LauncherInv
<1>1. CASE UNCHANGED saveVars
  BY <1>1, HistoryKeeps
<1>2. CASE Return
  <2>1. Target \in Item
    <3>1. launcher_first_visible_row \in Item \cup {NoRow}
      BY FirstVisible
    <3> QED BY <1>2, <3>1 DEF Return, Target, Typed
  <2> QED BY <1>2, <2>1, LaunchFacts DEF Return
<1>3. ASSUME NEW i \in Item, on_row_activated(i) PROVE Remembered'
  BY <1>3, LaunchFacts DEF on_row_activated
<1>4. CASE SaveReturns
  <2>1. PICK n \in 0 .. Len(Lines) :
            file' = SubSeq(Lines, 1, n) /\ lost' = (lost \/ n < Len(Lines))
    BY <1>4 DEF SaveReturns
  <2>2. ~lost' => ~lost /\ LinesTell(file)'
    BY <1>4, <2>1, WrittenFacts DEF SaveReturns
  <2>3. CountsTell => CountsTell'
    BY <1>4 DEF SaveReturns, CountsTell, Named, Names
  <2> QED BY <2>2, <2>3 DEF Remembered
<1>5. CASE Crash
  <2>1. file' \in Seq(Names \X (1 .. MaxCount)) /\ (~lost' => LinesTell(file)')
    <3>1. CASE saving
      <4>1. PICK n \in 0 .. Len(Lines) :
                file' = SubSeq(Lines, 1, n) /\ lost' = (lost \/ n < Len(Lines))
        BY <1>5, <3>1 DEF Crash
      <4> QED BY <1>5, <3>1, <4>1, WrittenFacts DEF Crash
    <3>2. CASE ~saving
      <4>1. file' = file /\ lost' = lost /\ launched' = launched
        BY <1>5, <3>2 DEF Crash
      <4>2. LinesTell(file) => LinesTell(file)'
        BY <4>1 DEF LinesTell, Told, Named, Names
      <4> QED BY <3>2, <4>1, <4>2 DEF Remembered, Typed
    <3> QED BY <3>1, <3>2
  <2>2. launch_count' = launcher_history_load(file') /\ launched' = launched
    BY <1>5 DEF Crash, launcher_create
  <2>3. ~lost' => CountsTell'
    BY <2>1, <2>2, LoadedTells DEF Typed
  <2> QED BY <2>1, <2>3 DEF Remembered
<1>6. ASSUME \/ launcher_show \/ launcher_hide \/ launcher_update_theme
             \/ \E text \in Text \cup {NoText} : Type(text)
             \/ SearchChanged \/ select_first_visible_idle \/ Arrow
      PROVE  UNCHANGED saveVars
  BY <1>6 DEF launcher_show, launcher_hide, launcher_update_theme, Type, SearchChanged,
              select_first_visible_idle, Arrow
<1> QED BY <1>1, <1>2, <1>3, <1>4, <1>5, <1>6 DEF LauncherNext

\* The invariant holds in every reachable state: it relates the selection to the
\* text that GTK has yet to report, and the file to counts a restart reads back.
THEOREM LauncherInvariant == LauncherSpec => []LauncherInv
<1>1. LauncherInv /\ [LauncherNext]_launcherVars => LauncherInv'
  <2> SUFFICES ASSUME LauncherInv, [LauncherNext]_launcherVars PROVE LauncherInv'
    OBVIOUS
  <2>1. CASE LauncherNext
    BY <2>1, TypedStep, SelectedStep, RememberedStep DEF LauncherInv
  <2>2. CASE UNCHANGED launcherVars
    <3>1. Typed' /\ Selected'
      BY <2>2 DEF LauncherInv, Typed, Selected, launcherVars, boxVars, saveVars
    <3>2. Remembered'
      BY <2>2, HistoryKeeps DEF LauncherInv, launcherVars
    <3> QED BY <3>1, <3>2 DEF LauncherInv
  <2> QED BY <2>1, <2>2
<1> QED BY <1>1, LauncherStart, PTL DEF LauncherSpec

\* The rows are the applications, each once, whatever was sorted or rebuilt; an
\* executable is listed only where no other item has its name; counts and
\* lines stay in their ranges.
THEOREM LauncherTypeCorrect == LauncherSpec => []LauncherTypeOK
<1>1. LauncherInv => LauncherTypeOK
  <2> SUFFICES ASSUME Typed PROVE LauncherTypeOK
    BY DEF LauncherInv
  <2>1. /\ Item = 1 .. Len(items) /\ Len(items) \in Nat
        /\ \A i, j \in Item : i # j /\ ~items[i].is_desktop => items[i].name # items[j].name
    BY ItemsFacts
  <2>2. Len(rows) = Cardinality(Item)
    <3>1. Cardinality(1 .. Len(items)) = IF 1 > Len(items) THEN 0 ELSE Len(items) - 1 + 1
      BY <2>1, FS_Interval
    <3> QED BY <2>1, <3>1 DEF Typed
  <2>3. {rows[k] : k \in DOMAIN rows} = Item
    <3>1. \A k \in Item : rows[k] \in Item
      BY <2>1, SequenceFacts DEF Typed
    <3> QED BY <3>1 DEF Typed
  <2>4. \A k \in DOMAIN file : file[k] \in Names \X (1 .. MaxCount)
    BY SequenceFacts DEF Typed
  <2> QED BY <2>1, <2>2, <2>3, <2>4 DEF Typed, LauncherTypeOK
<1> QED BY <1>1, LauncherInvariant, PTL

\* Once GTK has reported the text and the main loop was idle, Return launches
\* a program that the text matches, if any does.
THEOREM SelectionAlwaysSettled == LauncherSpec => []SettledSelection
<1>1. LauncherInv => SettledSelection
  <2> SUFFICES ASSUME LauncherInv, visible, ~changed, ~idle, ~moved,
                      NEW i \in Item, launcher_item_matches(i, search)
               PROVE  launcher_item_matches(Target, search)
    BY DEF SettledSelection
  <2>1. Typed /\ filtered = search /\ (sel = NoRow \/ launcher_item_matches(sel, search))
    BY DEF LauncherInv, Selected
  <2>2. /\ launcher_first_visible_row # NoRow =>
              launcher_item_matches(launcher_first_visible_row, filtered)
        /\ launcher_first_visible_row = NoRow =>
              \A j \in Item : ~launcher_item_matches(j, filtered)
    BY <2>1, FirstVisible
  <2> QED BY <2>1, <2>2 DEF Target
<1> QED BY <1>1, LauncherInvariant, PTL

\* As long as no save failed or was cut short, the file, or what is being
\* written, tells how often each name was launched.
THEOREM HistoryAlwaysKept == LauncherSpec => []HistoryKept
<1>1. LauncherInv => HistoryKept
  <2> SUFFICES ASSUME LauncherInv PROVE HistoryKept
    OBVIOUS
  <2> DEFINE lines == IF saving THEN Lines ELSE file
  <2>1. ~lost => LinesTell(lines)
    <3>1. CASE saving
      BY <3>1, SavedTells DEF LauncherInv, Remembered, Typed
    <3>2. CASE ~saving
      BY <3>2 DEF LauncherInv, Remembered
    <3> QED BY <3>1, <3>2
  <2> QED BY <2>1 DEF HistoryKept, LinesTell, Told, Named
<1> QED BY <1>1, LauncherInvariant, PTL
=============================================================================

---------------------------- MODULE NotifProofs -----------------------------
(***************************************************************************)
(* Theorems about Notif, for every limit of popups, every set of heights   *)
(* and scales and any number of notifications: its types, that no popup    *)
(* covers another, and that the daemon implements NotifService.            *)
(***************************************************************************)
EXTENDS Notif, ListProofs

\* A list in the order in which the numbers were given out.
Sorted(list) ==
    /\ list \in Seq(NotifItem)
    /\ \A i, j \in 1 .. Len(list) : i < j => list[i].id < list[j].id

\* Places in windows that leave every popup of the list its room.
Apart(list, windows) ==
    \A i, j \in 1 .. Len(list) :
        i < j /\ Shown(list[i]) /\ Shown(list[j]) =>
            windows[list[i].id] + list[i].h < windows[list[j].id]

ShownIds(list) == {it.id : it \in {x \in Members(list) : Shown(x)}}
TimedIds(list) == {it.id : it \in {x \in Members(list) : Shown(x) /\ ~x.critical}}

\* A signal: the number and the reason.
Signal == [id : Nat, reason : {"expired", "dismissed", "closed"}]

\* The list, in order and within its limit.
ListOK ==
    /\ Sorted(notif_list)
    /\ notif_seq \in 1 .. MaxId + 1
    /\ \A it \in Members(notif_list) : it.id \in 1 .. notif_seq - 1
    /\ Len(notif_list) <= MaxVisible
    /\ notif_geom_set \in BOOLEAN /\ notif_dpi \in Dpis

\* Windows and timers are those of the list, and the windows have room.
WindowsOK ==
    /\ popups \in [ShownIds(notif_list) -> Nat]
    /\ timers = TimedIds(notif_list)
    /\ Apart(notif_list, popups)

\* A number is told to be gone once, and is gone then.
SignalsOK ==
    /\ signals \in Seq(Signal)
    /\ \A i \in 1 .. Len(signals) :
          signals[i].id \in 1 .. notif_seq - 1 /\ signals[i].id \notin Ids(notif_list)
    /\ \A i, j \in 1 .. Len(signals) : signals[i].id = signals[j].id => i = j

IInv == ListOK /\ WindowsOK /\ SignalsOK

-----------------------------------------------------------------------------
(***************************************************************************)
(* Lists in order.                                                         *)
(***************************************************************************)

\* A number is at one place of the list, which IndexOf() finds.
LEMMA SortedIndex ==
    ASSUME NEW list, Sorted(list)
    PROVE  /\ \A i, j \in 1 .. Len(list) : list[i].id = list[j].id => i = j
           /\ \A i \in 1 .. Len(list) : IndexOf(list, list[i].id) = i
  <1>1. Len(list) \in Nat /\ DOMAIN list = 1 .. Len(list)
    BY DEF Sorted
  <1>2. \A i \in 1 .. Len(list) : list[i].id \in Nat
    <2>1. \A i \in 1 .. Len(list) : list[i] \in NotifItem
      BY DEF Sorted
    <2> QED BY <2>1 DEF NotifItem
  <1>3. ASSUME NEW i \in 1 .. Len(list), NEW j \in 1 .. Len(list), list[i].id = list[j].id
        PROVE  i = j
    <2>1. ~(list[i].id < list[j].id) /\ ~(list[j].id < list[i].id)
      BY <1>2, <1>3
    <2>2. ~(i < j) /\ ~(j < i)
      BY <2>1 DEF Sorted
    <2> QED BY <2>2
  <1>4. ASSUME NEW i \in 1 .. Len(list)
        PROVE  IndexOf(list, list[i].id) = i
    BY <1>1, <1>3 DEF IndexOf
  <1> QED BY <1>3, <1>4

\* Taking members off a list keeps the others in order.
LEMMA SortedKeep ==
    ASSUME NEW list, Sorted(list), NEW S
    PROVE  Sorted(Keep(list, S))
  <1> DEFINE k == Keep(list, S)
  <1>1. PICK at \in [1 .. Len(k) -> 1 .. Len(list)] :
            /\ \A i \in 1 .. Len(k) : k[i] = list[at[i]]
            /\ \A i, j \in 1 .. Len(k) : i < j => at[i] < at[j]
    BY KeepFacts DEF Sorted
  <1>2. k \in Seq(NotifItem)
    BY KeepFacts DEF Sorted
  <1> HIDE DEF k
  <1>3. ASSUME NEW i \in 1 .. Len(k), NEW j \in 1 .. Len(k), i < j
        PROVE  k[i].id < k[j].id
    BY <1>1, <1>3 DEF Sorted
  <1>4. Sorted(k)
    BY <1>2, <1>3 DEF Sorted
  <1> QED BY <1>4 DEF k

\* A new notification has the greatest number.
LEMMA SortedAppend ==
    ASSUME NEW list, Sorted(list), NEW it \in NotifItem,
           \A x \in Members(list) : x.id < it.id
    PROVE  Sorted(Append(list, it))
  <1> DEFINE r == Append(list, it)
  <1>1. /\ list \in Seq(NotifItem) /\ Len(list) \in Nat
        /\ r \in Seq(NotifItem) /\ Len(r) = Len(list) + 1
        /\ \A i \in 1 .. Len(list) : r[i] = list[i]
        /\ r[Len(list) + 1] = it
    BY AppendProperties DEF Sorted
  <1> HIDE DEF r
  <1>2. \A i \in 1 .. Len(list) : list[i].id < it.id
    BY <1>1, MembersFacts
  <1>3. ASSUME NEW i \in 1 .. Len(r), NEW j \in 1 .. Len(r), i < j
        PROVE  r[i].id < r[j].id
    <2>1. i \in 1 .. Len(list) /\ r[i] = list[i]
      BY <1>1, <1>3
    <2>2. CASE j \in 1 .. Len(list)
      BY <1>1, <1>3, <2>1, <2>2 DEF Sorted
    <2>3. CASE j = Len(list) + 1
      BY <1>1, <1>2, <2>1, <2>3
    <2> QED BY <1>1, <2>2, <2>3
  <1>4. Sorted(r)
    BY <1>1, <1>3 DEF Sorted
  <1> QED BY <1>4 DEF r

\* There are as many numbers on a list as notifications.
LEMMA SortedCount ==
    ASSUME NEW list, Sorted(list)
    PROVE  /\ IsFiniteSet(Members(list)) /\ Cardinality(Members(list)) = Len(list)
           /\ IsFiniteSet(Ids(list)) /\ Cardinality(Ids(list)) = Len(list)
  <1>1. list \in Seq(NotifItem) /\ Len(list) \in Nat
    BY DEF Sorted
  <1>2. Members(list) = {list[i] : i \in 1 .. Len(list)}
    BY <1>1, MembersFacts
  <1>3. Ids(list) = {list[i].id : i \in 1 .. Len(list)}
    BY <1>2 DEF Ids
  <1>4. \A i, j \in 1 .. Len(list) : list[i].id = list[j].id => i = j
    BY SortedIndex
  <1>5. IsFiniteSet(Members(list)) /\ Cardinality(Members(list)) = Len(list)
    BY <1>1, <1>4, DistinctCount
  <1> DEFINE g == [i \in 1 .. Len(list) |-> list[i].id]
  <1>6. g \in Bijection(1 .. Len(list), Ids(list))
    BY <1>3, <1>4 DEF Bijection, Injection, Surjection, IsInjective
  <1>7. ExistsBijection(1 .. Len(list), Ids(list))
    BY <1>6 DEF ExistsBijection
  <1> QED BY <1>1, <1>5, <1>7, FS_NatBijection, FS_CountingElements

\* What is left on the list, and what is not.
LEMMA RemainingFacts ==
    ASSUME ListOK, NEW gone
    PROVE  /\ Sorted(Remaining(gone))
           /\ Members(Remaining(gone)) = {it \in Members(notif_list) : it.id \notin gone}
           /\ Ids(Remaining(gone)) = Ids(notif_list) \ gone
           /\ Len(Remaining(gone)) \in Nat /\ Len(Remaining(gone)) <= MaxVisible
  <1> DEFINE S == {it \in Members(notif_list) : it.id \notin gone}
             r == Keep(notif_list, S)
  <1>1. Sorted(r)
    BY SortedKeep DEF ListOK
  <1>2. Members(r) = S /\ Len(r) <= Len(notif_list) /\ r \in Seq(NotifItem)
    BY KeepFacts DEF ListOK, Sorted
  <1>3. Len(r) \in Nat /\ Len(notif_list) \in Nat
    BY <1>2 DEF ListOK, Sorted
  <1>4. Ids(r) = Ids(notif_list) \ gone
    BY <1>2 DEF Ids
  <1>5. Len(r) <= MaxVisible
    BY <1>2, <1>3, SizesAssumption DEF ListOK
  <1> HIDE DEF r
  <1>6. Remaining(gone) = r
    BY DEF Remaining, r
  <1> QED BY <1>1, <1>2, <1>3, <1>4, <1>5, <1>6

-----------------------------------------------------------------------------
(***************************************************************************)
(* Places on the screen.                                                   *)
(***************************************************************************)

\* The height of a popup that is made is positive.
LEMMA MadeFacts ==
    ASSUME ListOK, NEW it \in NotifItem
    PROVE  /\ Made(it) \in NotifItem /\ Shown(Made(it))
           /\ Made(it).id = it.id /\ Made(it).critical = it.critical
  <1>1. it.content \in Nat \ {0} /\ notif_dpi \in Nat \ {0}
    BY SizesAssumption DEF ListOK, NotifItem
  <1>2. \A a, b \in Nat \ {0} : a * b \in Nat \ {0}
    OBVIOUS
  <1>3. it.content * notif_dpi \in Nat /\ it.content * notif_dpi > 0
    BY <1>1, <1>2
  <1> QED BY <1>3 DEF Made, popup_height, NotifItem, Shown

\* The sum in popup_position() is that of the heights and gaps before a popup.
LEMMA PositionFacts ==
    ASSUME ListOK, NEW list, Sorted(list)
    PROVE  /\ \A i \in 1 .. Len(list) : popup_position(list, i) \in Nat
           /\ \A i \in 1 .. Len(list) - 1 :
                 popup_position(list, i) + list[i].h < popup_position(list, i + 1)
  <1>1. Len(list) \in Nat /\ notif_dpi \in Nat \ {0} /\ NOTIF_GAP * notif_dpi = notif_dpi
    BY SizesAssumption DEF ListOK, Sorted, NOTIF_GAP
  <1>2. \A i \in 1 .. Len(list) : list[i].h \in Nat
    <2>1. \A i \in 1 .. Len(list) : list[i] \in NotifItem
      BY DEF Sorted
    <2> QED BY <2>1 DEF NotifItem
  <1> DEFINE gap == NOTIF_GAP * notif_dpi
             body(g, d) == [i \in 1 .. d |-> IF i = 1 THEN 0 ELSE g[i - 1] + list[i - 1].h + gap]
             P(d) == d <= Len(list) => \E g \in [1 .. d -> Nat] : g = body(g, d)
             N == {d \in Nat : P(d)}
  <1>3. P(0)
    <2> DEFINE g == [i \in 1 .. 0 |-> 0]
    <2>1. g \in [1 .. 0 -> Nat] /\ g = body(g, 0)
      OBVIOUS
    <2> QED BY <2>1
  <1>4. ASSUME NEW d \in Nat, P(d) PROVE P(d + 1)
    <2> SUFFICES ASSUME d + 1 <= Len(list)
                 PROVE \E g \in [1 .. d + 1 -> Nat] : g = body(g, d + 1)
      OBVIOUS
    <2>1. d <= Len(list) /\ d \in Nat
      BY <1>1
    <2>2. PICK h \in [1 .. d -> Nat] : h = body(h, d)
      BY <1>4, <2>1
    <2> DEFINE last == IF d + 1 = 1 THEN 0 ELSE h[d] + list[d].h + gap
               g == [i \in 1 .. d + 1 |-> IF i = d + 1 THEN last ELSE h[i]]
    <2>3. last \in Nat
      <3>1. CASE d = 0
        BY <3>1
      <3>2. CASE d # 0
        <4>1. d \in 1 .. d /\ d \in 1 .. Len(list)
          BY <2>1, <3>2
        <4>2. h[d] \in Nat /\ list[d].h \in Nat
          BY <4>1, <1>2
        <4> QED BY <1>1, <4>2
      <3> QED BY <3>1, <3>2
    <2>4. g \in [1 .. d + 1 -> Nat]
      BY <2>3
    <2>5. ASSUME NEW i \in 1 .. d + 1 PROVE g[i] = body(g, d + 1)[i]
      <3>1. CASE i = d + 1
        <4>1. i # 1 => g[i - 1] = h[d] /\ i - 1 = d
          BY <3>1
        <4> QED BY <3>1, <4>1
      <3>2. CASE i # d + 1
        <4>1. i \in 1 .. d /\ g[i] = h[i]
          BY <3>2
        <4>2. h[i] = body(h, d)[i]
          BY <2>2
        <4>3. i # 1 => g[i - 1] = h[i - 1]
          BY <4>1
        <4> QED BY <4>1, <4>2, <4>3
      <3> QED BY <3>1, <3>2
    <2>6. g = body(g, d + 1)
      BY <2>4, <2>5
    <2> QED BY <2>4, <2>6
  <1>5. P(Len(list))
    <2> HIDE DEF P
    <2>1. 0 \in N /\ \A d \in Nat : d \in N => d + 1 \in N
      BY <1>3, <1>4
    <2> HIDE DEF N
    <2>2. Len(list) \in N
      BY <1>1, <2>1, AllNumbers
    <2> QED BY <2>2 DEF N
  <1>6. PICK g \in [1 .. Len(list) -> Nat] : g = body(g, Len(list))
    BY <1>1, <1>5
  <1> DEFINE offset == CHOOSE f : f = body(f, Len(list))
  <1>7. offset = body(offset, Len(list))
    BY <1>6
  <1>8. \A i : popup_position(list, i) = offset[i]
    BY DEF popup_position
  <1>9. ASSUME NEW i \in 1 .. Len(list)
        PROVE offset[i] = IF i = 1 THEN 0 ELSE offset[i - 1] + list[i - 1].h + gap
    <2>1. body(offset, Len(list))[i] = IF i = 1 THEN 0 ELSE offset[i - 1] + list[i - 1].h + gap
      OBVIOUS
    <2> HIDE DEF offset
    <2> QED BY <1>7, <2>1
  <1> HIDE DEF offset
  <1>10. \A i \in 1 .. Len(list) : offset[i] \in Nat
    <2> DEFINE M == {d \in Nat : d + 1 <= Len(list) => offset[d + 1] \in Nat}
    <2>1. 0 \in M
      BY <1>9, <1>1
    <2>2. ASSUME NEW d \in Nat, d \in M PROVE d + 1 \in M
      <3> SUFFICES ASSUME d + 1 + 1 <= Len(list) PROVE offset[d + 1 + 1] \in Nat
        OBVIOUS
      <3>1. /\ d + 2 \in 1 .. Len(list) /\ d + 2 # 1 /\ d + 2 - 1 = d + 1
            /\ d + 1 + 1 = d + 2 /\ d + 1 \in 1 .. Len(list)
        BY <1>1
      <3>2. offset[d + 2] = offset[d + 1] + list[d + 1].h + gap
        BY <1>9, <3>1
      <3> QED BY <1>1, <1>2, <2>2, <3>1, <3>2
    <2>3. \A d \in Nat : d \in M
      <3> HIDE DEF M
      <3> QED BY <2>1, <2>2, AllNumbers
    <2>4. ASSUME NEW i \in 1 .. Len(list) PROVE offset[i] \in Nat
      <3>1. i - 1 \in Nat /\ i - 1 + 1 = i /\ i <= Len(list)
        BY <1>1
      <3>2. i - 1 \in M
        BY <2>3, <3>1
      <3> QED BY <3>1, <3>2
    <2> QED BY <2>4
  <1>11. ASSUME NEW i \in 1 .. Len(list) - 1
         PROVE  offset[i] + list[i].h < offset[i + 1]
    <2>1. i + 1 \in 1 .. Len(list) /\ i + 1 # 1 /\ i + 1 - 1 = i /\ i \in 1 .. Len(list)
      BY <1>1
    <2>2. offset[i + 1] = offset[i] + list[i].h + gap
      BY <1>9, <2>1
    <2>3. offset[i] \in Nat /\ list[i].h \in Nat
      BY <1>2, <1>10, <2>1
    <2> QED BY <1>1, <2>2, <2>3
  <1> QED BY <1>8, <1>10, <1>11

\* Popups that stand in these places leave each other room.
LEMMA PositionsApart ==
    ASSUME ListOK, NEW list, Sorted(list)
    PROVE  \A i, j \in 1 .. Len(list) :
              i < j => popup_position(list, i) + list[i].h < popup_position(list, j)
  <1>1. Len(list) \in Nat
    BY DEF Sorted
  <1>2. \A i \in 1 .. Len(list) : list[i].h \in Nat
    <2>1. \A i \in 1 .. Len(list) : list[i] \in NotifItem
      BY DEF Sorted
    <2> QED BY <2>1 DEF NotifItem
  <1> DEFINE at(i) == popup_position(list, i)
  <1>3. /\ \A i \in 1 .. Len(list) : at(i) \in Nat
        /\ \A i \in 1 .. Len(list) - 1 : at(i) + list[i].h < at(i + 1)
    BY PositionFacts
  <1> HIDE DEF at
  <1>4. ASSUME NEW i \in 1 .. Len(list), NEW j \in 1 .. Len(list), i < j
        PROVE  at(i) + list[i].h < at(j)
    <2> DEFINE N == {d \in Nat : i + d + 1 <= Len(list) => at(i) + list[i].h < at(i + d + 1)}
    <2>1. 0 \in N
      BY <1>1, <1>3
    <2>2. ASSUME NEW d \in Nat, d \in N PROVE d + 1 \in N
      <3> SUFFICES ASSUME i + (d + 1) + 1 <= Len(list)
                   PROVE at(i) + list[i].h < at(i + (d + 1) + 1)
        OBVIOUS
      <3>1. /\ i + d + 1 \in 1 .. Len(list) - 1 /\ i + (d + 1) + 1 = (i + d + 1) + 1
            /\ i + d + 1 \in 1 .. Len(list) /\ (i + d + 1) + 1 \in 1 .. Len(list)
        BY <1>1
      <3> DEFINE k == i + d + 1
      <3>2. at(k) + list[k].h < at(k + 1) /\ at(k) \in Nat /\ at(k + 1) \in Nat
        BY <1>3, <3>1
      <3>3. at(i) + list[i].h < at(k) /\ at(i) \in Nat /\ list[i].h \in Nat /\ list[k].h \in Nat
        BY <1>2, <1>3, <2>2, <3>1
      <3> HIDE DEF k
      <3>4. \A a, h, b, g, c \in Nat : a + h < b /\ b + g < c => a + h < c
        OBVIOUS
      <3>5. at(i) + list[i].h < at(k + 1)
        BY <3>2, <3>3, <3>4
      <3> QED BY <3>1, <3>5 DEF k
    <2>3. \A d \in Nat : d \in N
      <3> HIDE DEF N
      <3> QED BY <2>1, <2>2, AllNumbers
    <2>4. j - i - 1 \in Nat /\ i + (j - i - 1) + 1 = j /\ j <= Len(list)
      BY <1>1, <1>4
    <2>5. j - i - 1 \in N
      BY <2>3, <2>4
    <2> QED BY <2>4, <2>5
  <1> QED BY <1>4 DEF at

\* notif_restack() gives every window of the list its place.
LEMMA RestackFacts ==
    ASSUME ListOK, NEW list, Sorted(list), NEW windows, DOMAIN windows = ShownIds(list)
    PROVE  /\ notif_restack(windows, list) \in [ShownIds(list) -> Nat]
           /\ Apart(list, notif_restack(windows, list))
  <1> DEFINE w == notif_restack(windows, list)
  <1>1. Members(list) = {list[i] : i \in 1 .. Len(list)}
    BY MembersFacts DEF Sorted
  <1>2. ASSUME NEW i \in 1 .. Len(list), Shown(list[i])
        PROVE  list[i].id \in DOMAIN windows /\ w[list[i].id] = popup_position(list, i)
    <2>1. list[i].id \in ShownIds(list) /\ list[i].id \in Ids(list)
      BY <1>1, <1>2 DEF ShownIds, Ids
    <2>2. IndexOf(list, list[i].id) = i
      BY SortedIndex
    <2> QED BY <2>1, <2>2 DEF notif_restack
  <1>3. w = [n \in ShownIds(list) |-> w[n]]
    BY DEF notif_restack
  <1> HIDE DEF w
  <1>4. ASSUME NEW n \in ShownIds(list) PROVE w[n] \in Nat
    <2>1. PICK i \in 1 .. Len(list) : Shown(list[i]) /\ n = list[i].id
      BY <1>1 DEF ShownIds
    <2> QED BY <1>2, <2>1, PositionFacts
  <1>5. w \in [ShownIds(list) -> Nat]
    BY <1>3, <1>4
  <1>6. Apart(list, w)
    BY <1>2, PositionsApart DEF Apart
  <1> QED BY <1>5, <1>6 DEF w

-----------------------------------------------------------------------------
(***************************************************************************)
(* The steps.                                                              *)
(***************************************************************************)

\* A handler that ends with notif_restack() leaves the windows right.
LEMMA WindowsStep ==
    ASSUME ListOK, NEW windows, Sorted(notif_list'), DOMAIN windows = ShownIds(notif_list'),
           popups' = notif_restack(windows, notif_list'), timers' = TimedIds(notif_list')
    PROVE  WindowsOK'
  <1> DEFINE l == notif_list'
  <1>1. notif_restack(windows, l) \in [ShownIds(l) -> Nat] /\ Apart(l, notif_restack(windows, l))
    BY RestackFacts
  <1> QED BY <1>1 DEF WindowsOK

\* One more signal, of a number that is no longer on the list.
LEMMA SignalsStep ==
    ASSUME IInv, NEW s \in Signal,
           s.id \in Ids(notif_list), notif_seq' = notif_seq,
           Ids(notif_list)' = Ids(notif_list) \ {s.id}, signals' = Append(signals, s)
    PROVE  SignalsOK'
  <1>1. /\ signals \in Seq(Signal) /\ Len(signals) \in Nat
        /\ \A i \in 1 .. Len(signals) :
              signals[i].id \in 1 .. notif_seq - 1 /\ signals[i].id \notin Ids(notif_list)
        /\ \A i, j \in 1 .. Len(signals) : signals[i].id = signals[j].id => i = j
    BY DEF IInv, SignalsOK
  <1>2. /\ signals' \in Seq(Signal) /\ Len(signals') = Len(signals) + 1
        /\ \A i \in 1 .. Len(signals) : signals'[i] = signals[i]
        /\ signals'[Len(signals) + 1] = s
    BY <1>1, AppendProperties
  <1>3. s.id \in 1 .. notif_seq - 1
    BY DEF IInv, ListOK, Ids
  <1>4. ASSUME NEW i \in 1 .. Len(signals')
        PROVE  signals'[i].id \in 1 .. notif_seq - 1 /\ signals'[i].id \notin Ids(notif_list)'
    <2>1. CASE i \in 1 .. Len(signals)
      BY <1>1, <1>2, <2>1
    <2>2. CASE i = Len(signals) + 1
      BY <1>2, <1>3, <2>2
    <2> QED BY <1>1, <1>2, <2>1, <2>2
  <1>5. ASSUME NEW i \in 1 .. Len(signals'), NEW j \in 1 .. Len(signals'),
               signals'[i].id = signals'[j].id
        PROVE  i = j
    <2>1. CASE i \in 1 .. Len(signals) /\ j \in 1 .. Len(signals)
      BY <1>1, <1>2, <1>5, <2>1
    <2>2. \A k \in 1 .. Len(signals) : signals'[k].id # s.id
      BY <1>1, <1>2
    <2>3. \A k \in 1 .. Len(signals') : k \in 1 .. Len(signals) \/ k = Len(signals) + 1
      BY <1>1, <1>2
    <2> QED BY <1>2, <1>5, <2>1, <2>2, <2>3
  <1> QED BY <1>2, <1>4, <1>5 DEF SignalsOK

\* A notification that is closed goes with its timer and its window, and with
\* a signal, and the others move up.
LEMMA CloseStep ==
    ASSUME IInv, NEW n \in Ids(notif_list), NEW reason \in 1 .. 3, notif_item_close(n, reason)
    PROVE  IInv'
  <1> USE DEF IInv
  <1> DEFINE r == Remaining({n})
  <1>1. /\ notif_list' = r /\ timers' = timers \ {n}
        /\ popups' = notif_restack(Without(popups, {n}), r)
        /\ signals' = Append(signals, [id |-> n, reason |-> Reason[reason]])
        /\ notif_seq' = notif_seq /\ notif_geom_set' = notif_geom_set /\ notif_dpi' = notif_dpi
    BY DEF notif_item_close
  <1>2. /\ Sorted(r) /\ Len(r) <= MaxVisible
        /\ Members(r) = {it \in Members(notif_list) : it.id # n}
        /\ Ids(r) = Ids(notif_list) \ {n}
    BY RemainingFacts
  <1> HIDE DEF r
  <1>3. ListOK'
    BY <1>1, <1>2 DEF ListOK
  <1>4. ShownIds(r) = ShownIds(notif_list) \ {n} /\ TimedIds(r) = TimedIds(notif_list) \ {n}
    BY <1>2 DEF ShownIds, TimedIds
  <1>5. WindowsOK'
    <2>1. DOMAIN Without(popups, {n}) = ShownIds(r) /\ timers' = TimedIds(r)
      BY <1>1, <1>4 DEF Without, WindowsOK
    <2> QED BY <1>1, <1>2, <2>1, WindowsStep
  <1>6. SignalsOK'
    <2> DEFINE s == [id |-> n, reason |-> Reason[reason]]
    <2>1. n \in Nat
      BY DEF ListOK, Ids
    <2>2. Reason[reason] \in {"expired", "dismissed", "closed"}
      BY DEF Reason
    <2>3. s \in Signal /\ s.id = n
      BY <2>1, <2>2 DEF Signal
    <2>4. Ids(notif_list)' = Ids(notif_list) \ {s.id}
      BY <1>1, <1>2, <2>3
    <2> HIDE DEF s
    <2>5. signals' = Append(signals, s)
      BY <1>1 DEF s
    <2> QED BY <1>1, <2>3, <2>4, <2>5, SignalsStep
  <1> QED BY <1>3, <1>5, <1>6

\* Timers and windows are of notifications on the list.
LEMMA CallbackFacts ==
    ASSUME IInv, NEW n
    PROVE  (n \in timers \/ n \in DOMAIN popups) => n \in Ids(notif_list)
  BY DEF IInv, WindowsOK, ShownIds, TimedIds, Ids

\* handle_notify() drops at most one notification, the oldest, and only when
\* the limit is reached without the one that is replaced.
LEMMA DroppedFacts ==
    ASSUME IInv, NEW old
    PROVE  LET others == Ids(notif_list) \ {old} IN
           /\ IsFiniteSet(others)
           /\ \/ Dropped(old) = <<>> /\ Cardinality(others) < MaxVisible
              \/ /\ Cardinality(others) = MaxVisible
                 /\ \E n \in others : Dropped(old) = <<n>> /\ \A k \in others : n <= k
  <1> DEFINE others == Ids(notif_list) \ {old}
             r == Remaining({old})
  <1>1. /\ Sorted(r) /\ Len(r) \in Nat /\ Len(r) <= MaxVisible /\ Ids(r) = others
    BY RemainingFacts DEF IInv
  <1>2. IsFiniteSet(others) /\ Cardinality(others) = Len(r)
    BY <1>1, SortedCount
  <1>3. MaxVisible \in Nat \ {0}
    BY SizesAssumption
  <1>4. CASE Len(r) < MaxVisible
    BY <1>2, <1>4 DEF Dropped
  <1>5. CASE Len(r) >= MaxVisible
    <2>1. Len(r) = MaxVisible /\ Len(r) - MaxVisible + 1 = 1 /\ 1 \in 1 .. Len(r)
      <3> HIDE DEF r
      <3> QED BY <1>1, <1>3, <1>5
    <2>2. Dropped(old) = [i \in 1 .. Len(r) - MaxVisible + 1 |-> r[i].id]
      BY <1>1, <1>3, <2>1 DEF Dropped
    <2> DEFINE n == r[1].id
    <2>3. Dropped(old) = <<n>>
      <3> HIDE DEF r
      <3>1. Dropped(old) = [i \in 1 .. 1 |-> r[i].id]
        BY <2>1, <2>2
      <3> QED BY <3>1
    <2>4. Members(r) = {r[i] : i \in 1 .. Len(r)}
      BY <1>1, MembersFacts DEF Sorted
    <2>5. n \in others
      BY <1>1, <2>1, <2>4 DEF Ids
    <2>6. ASSUME NEW k \in others PROVE n <= k
      <3>1. PICK i \in 1 .. Len(r) : k = r[i].id
        BY <1>1, <2>4 DEF Ids
      <3>2. r[i] \in NotifItem /\ r[1] \in NotifItem
        BY <1>1, <2>1 DEF Sorted
      <3>3. k \in Nat /\ n \in Nat
        BY <3>1, <3>2 DEF NotifItem
      <3>4. CASE i = 1
        BY <3>1, <3>3, <3>4
      <3>5. CASE i # 1
        <4>1. 1 < i
          BY <1>1, <3>5
        <4>2. r[1].id < r[i].id
          BY <1>1, <2>1, <4>1 DEF Sorted
        <4> QED BY <3>1, <3>3, <4>2
      <3> QED BY <3>4, <3>5
    <2> QED BY <1>2, <2>1, <2>3, <2>5, <2>6
  <1> QED BY <1>1, <1>3, <1>4, <1>5

\* The numbers that leave the list when another notification comes.
Gone(old) == {old} \cup Members(Dropped(old))

\* What Dropped() means for the handler: there is room, and one signal more
\* or none.
LEMMA RoomFacts ==
    ASSUME IInv, NEW old
    PROVE  /\ Len(Remaining(Gone(old))) < MaxVisible
           /\ {Dropped(old)[i] : i \in DOMAIN Dropped(old)} = Members(Dropped(old))
           /\ LET told == [i \in DOMAIN Dropped(old) |->
                              [id |-> Dropped(old)[i], reason |-> Reason[3]]]
              IN  \/ /\ Dropped(old) = <<>> /\ signals \o told = signals
                  \/ \E n \in Ids(notif_list) \ {old} :
                        /\ Dropped(old) = <<n>>
                        /\ signals \o told = Append(signals, [id |-> n, reason |-> "closed"])
  <1> DEFINE others == Ids(notif_list) \ {old}
             d == Dropped(old)
             told == [i \in DOMAIN d |-> [id |-> d[i], reason |-> Reason[3]]]
             r == Remaining(Gone(old))
  <1>1. IsFiniteSet(others)
    BY DroppedFacts
  <1>2. /\ Sorted(r) /\ Len(r) \in Nat /\ Ids(r) = Ids(notif_list) \ Gone(old)
    BY RemainingFacts DEF IInv
  <1>3. Cardinality(Ids(r)) = Len(r)
    BY <1>2, SortedCount
  <1>4. MaxVisible \in Nat \ {0} /\ Reason[3] = "closed" /\ signals \in Seq(Signal)
    BY SizesAssumption DEF Reason, IInv, SignalsOK
  <1>5. {d[i] : i \in DOMAIN d} = Members(d)
    BY DEF Members
  <1>6. CASE d = <<>> /\ Cardinality(others) < MaxVisible
    <2>1. Members(d) = {}
      BY <1>6 DEF Members
    <2>2. Ids(r) = others
      BY <1>2, <2>1 DEF Gone
    <2>3. told = <<>>
      BY <1>6
    <2>4. signals \o told = signals
      BY <1>4, <2>3
    <2> QED BY <1>3, <1>5, <1>6, <2>2, <2>4
  <1>7. CASE /\ Cardinality(others) = MaxVisible
             /\ \E n \in others : d = <<n>> /\ \A k \in others : n <= k
    <2>1. PICK n \in others : d = <<n>>
      BY <1>7
    <2>2. Members(d) = {n}
      BY <2>1 DEF Members
    <2>3. Ids(r) = others \ {n}
      BY <1>2, <2>2 DEF Gone
    <2>4. Cardinality(others \ {n}) = MaxVisible - 1
      BY <1>1, <1>7, <2>1, FS_RemoveElement
    <2>5. n \in Nat
      BY <2>1 DEF IInv, ListOK, Ids
    <2> DEFINE s == [id |-> n, reason |-> "closed"]
    <2>6. s \in Signal
      BY <2>5 DEF Signal
    <2>7. DOMAIN d = 1 .. 1 /\ d[1] = n
      BY <2>1
    <2>8. told = [i \in 1 .. 1 |-> s]
      BY <1>4, <2>7
    <2>9. told = <<s>>
      BY <2>8
    <2>10. signals \o told = Append(signals, s)
      BY <1>4, <2>6, <2>9, AppendIsConcat
    <2> QED BY <1>3, <1>4, <1>5, <2>1, <2>3, <2>4, <2>10
  <1> QED BY <1>6, <1>7, DroppedFacts

\* A notification that comes gets a number of its own and the last place, in
\* the room that was made for it.
LEMMA NotifyStep ==
    ASSUME IInv, NEW old \in 0 .. MaxId, NEW critical \in BOOLEAN, NEW content \in Heights,
           handle_notify(old, critical, content)
    PROVE  IInv'
  <1> USE DEF IInv
  <1> DEFINE gone == Gone(old)
             it == NewItem(critical, content)
             r == Remaining(gone)
             l == Append(r, it)
             w == [n \in (DOMAIN popups \ gone) \cup DOMAIN notif_item_show({x \in {it} : Shown(x)}).windows |->
                                   IF n = it.id THEN 0 ELSE popups[n]]
             told == [i \in DOMAIN Dropped(old) |->
                                 [id |-> Dropped(old)[i], reason |-> Reason[3]]]
  <1>1. /\ notif_seq <= MaxId /\ notif_seq' = notif_seq + 1
        /\ notif_list' = l
        /\ timers' = (timers \ gone) \cup notif_item_show({x \in {it} : Shown(x)}).timers
        /\ popups' = notif_restack(w, l)
        /\ signals' = signals \o told
        /\ notif_geom_set' = notif_geom_set /\ notif_dpi' = notif_dpi
    <2>1. {old} \cup {Dropped(old)[i] : i \in DOMAIN Dropped(old)} = gone
      BY RoomFacts DEF Gone
    <2> QED BY <2>1 DEF handle_notify
  <1>2. it \in NotifItem /\ it.id = notif_seq /\ it.critical = critical
    <2> DEFINE x == [id |-> notif_seq, critical |-> critical, content |-> content, h |-> 0]
    <2>1. x \in NotifItem
      BY DEF NotifItem, ListOK
    <2>2. it = IF notif_geom_set THEN Made(x) ELSE x
      BY DEF NewItem
    <2> QED BY <2>1, <2>2, MadeFacts
  <1>3. /\ Sorted(r) /\ Members(r) = {x \in Members(notif_list) : x.id \notin gone}
        /\ Ids(r) = Ids(notif_list) \ gone /\ Len(r) \in Nat /\ Len(r) < MaxVisible
    BY RemainingFacts, RoomFacts
  <1>4. \A x \in Members(r) : x.id \in 1 .. notif_seq - 1 /\ x.id < it.id
    BY <1>2, <1>3 DEF ListOK
  <1>5. /\ r \in Seq(NotifItem) /\ Sorted(l) /\ Members(l) = Members(r) \cup {it}
        /\ Len(l) = Len(r) + 1
    <2> HIDE DEF it, r
    <2>1. r \in Seq(NotifItem)
      BY <1>3 DEF Sorted
    <2>2. Sorted(l) /\ Len(l) = Len(r) + 1
      BY <1>2, <1>3, <1>4, <2>1, SortedAppend, AppendProperties
    <2>3. Members(l) = Members(r) \cup {it}
      BY <1>2, <2>1, MembersAppend
    <2> QED BY <2>1, <2>2, <2>3
  <1> HIDE DEF it, r, l, told
  <1>6. ListOK'
    <2>1. \A x \in Members(l) : x.id \in 1 .. notif_seq
      BY <1>2, <1>4, <1>5 DEF ListOK
    <2>2. Len(l) <= MaxVisible /\ notif_seq + 1 \in 1 .. MaxId + 1 /\ notif_seq + 1 - 1 = notif_seq
      BY <1>1, <1>3, <1>5, SizesAssumption DEF ListOK
    <2> QED BY <1>1, <1>5, <2>1, <2>2 DEF ListOK
  <1>7. WindowsOK'
    <2>1. /\ ShownIds(l) = (ShownIds(notif_list) \ gone) \cup {x.id : x \in {y \in {it} : Shown(y)}}
          /\ TimedIds(l) = (TimedIds(notif_list) \ gone) \cup
                           {x.id : x \in {y \in {it} : Shown(y) /\ ~y.critical}}
      BY <1>3, <1>5 DEF ShownIds, TimedIds
    <2>2. DOMAIN w = ShownIds(l) /\ timers' = TimedIds(l)
      BY <1>1, <2>1 DEF WindowsOK, notif_item_show
    <2> HIDE DEF w
    <2> QED BY <1>1, <1>5, <2>2, WindowsStep
  <1>8. SignalsOK'
    <2>1. Ids(l) = (Ids(notif_list) \ gone) \cup {notif_seq}
      BY <1>2, <1>3, <1>5 DEF Ids
    <2>2. \A n \in Ids(notif_list) : n \in 1 .. notif_seq - 1
      BY DEF ListOK, Ids
    <2>3. notif_seq \in Nat
      BY DEF ListOK
    <2>4. CASE signals' = signals
      BY <1>1, <2>1, <2>2, <2>3, <2>4 DEF SignalsOK
    <2>5. ASSUME NEW n \in Ids(notif_list) \ {old}, Dropped(old) = <<n>>,
                 signals' = Append(signals, [id |-> n, reason |-> "closed"])
          PROVE  SignalsOK'
      <3> DEFINE s == [id |-> n, reason |-> "closed"]
      <3>1. n \in gone
        BY <2>5 DEF Gone, Members
      <3>2. s \in Signal /\ n \in 1 .. notif_seq - 1 /\ n \notin Ids(l)
        BY <2>1, <2>2, <2>3, <3>1 DEF Signal
      <3>3. /\ signals \in Seq(Signal) /\ Len(signals) \in Nat
            /\ \A i \in 1 .. Len(signals) :
                  signals[i].id \in 1 .. notif_seq - 1 /\ signals[i].id \notin Ids(notif_list)
            /\ \A i, j \in 1 .. Len(signals) : signals[i].id = signals[j].id => i = j
        BY DEF SignalsOK
      <3>4. /\ signals' \in Seq(Signal) /\ Len(signals') = Len(signals) + 1
            /\ \A i \in 1 .. Len(signals) : signals'[i] = signals[i]
            /\ signals'[Len(signals) + 1] = s
        BY <2>5, <3>2, <3>3, AppendProperties
      <3>5. \A i \in 1 .. Len(signals') : i \in 1 .. Len(signals) \/ i = Len(signals) + 1
        BY <3>3, <3>4
      <3>6. ASSUME NEW i \in 1 .. Len(signals')
            PROVE  signals'[i].id \in 1 .. notif_seq' - 1 /\ signals'[i].id \notin Ids(l)
        <4>1. CASE i \in 1 .. Len(signals)
          <5>1. signals'[i].id \in 1 .. notif_seq - 1 /\ signals'[i].id \notin Ids(notif_list)
            BY <3>3, <3>4, <4>1
          <5> QED BY <1>1, <2>1, <2>3, <5>1
        <4>2. CASE i = Len(signals) + 1
          BY <1>1, <2>3, <3>2, <3>4, <4>2
        <4> QED BY <3>5, <4>1, <4>2
      <3>7. \A k \in 1 .. Len(signals) : signals'[k].id # n
        BY <3>3, <3>4
      <3>8. ASSUME NEW i \in 1 .. Len(signals'), NEW j \in 1 .. Len(signals'),
                   signals'[i].id = signals'[j].id
            PROVE  i = j
        BY <3>3, <3>4, <3>5, <3>7, <3>8
      <3> QED BY <1>1, <3>4, <3>6, <3>8 DEF SignalsOK
    <2> QED BY <1>1, <2>4, <2>5, RoomFacts DEF told
  <1> QED BY <1>6, <1>7, <1>8

\* The first work area: what was put off is shown, and all are in place.
LEMMA GeomStep ==
    ASSUME IInv, notif_update_geom
    PROVE  IInv'
  <1> USE DEF IInv
  <1> DEFINE l == [i \in DOMAIN notif_list |->
                    IF Shown(notif_list[i]) THEN notif_list[i] ELSE Made(notif_list[i])]
             late == {l[i] : i \in {j \in DOMAIN l : ~Shown(notif_list[j])}}
             new == notif_item_show(late)
             w == [n \in DOMAIN popups \cup DOMAIN new.windows |->
                                   IF n \in DOMAIN popups THEN popups[n] ELSE 0]
  <1>1. /\ notif_geom_set' = TRUE /\ notif_list' = l /\ timers' = timers \cup new.timers
        /\ popups' = notif_restack(w, l)
        /\ notif_seq' = notif_seq /\ notif_dpi' = notif_dpi /\ signals' = signals
    BY DEF notif_update_geom
  <1>2. /\ notif_list \in Seq(NotifItem) /\ Len(notif_list) \in Nat
        /\ DOMAIN notif_list = 1 .. Len(notif_list)
        /\ \A i \in 1 .. Len(notif_list) : notif_list[i] \in NotifItem
    BY DEF ListOK, Sorted
  <1>3. ASSUME NEW i \in 1 .. Len(notif_list)
        PROVE  /\ l[i] \in NotifItem /\ Shown(l[i])
               /\ l[i].id = notif_list[i].id /\ l[i].critical = notif_list[i].critical
    BY <1>2, MadeFacts
  <1>4. l \in Seq(NotifItem) /\ Len(l) = Len(notif_list) /\ DOMAIN l = 1 .. Len(notif_list)
    BY <1>2, <1>3
  <1> HIDE DEF l
  <1>5. Sorted(l)
    BY <1>3, <1>4 DEF Sorted, ListOK
  <1>6. /\ Members(l) = {l[i] : i \in 1 .. Len(notif_list)}
        /\ Members(notif_list) = {notif_list[i] : i \in 1 .. Len(notif_list)}
    BY <1>2, <1>4, MembersFacts
  <1>7. ListOK'
    <2>1. \A x \in Members(l) : x.id \in 1 .. notif_seq - 1
      BY <1>3, <1>6 DEF ListOK
    <2> QED BY <1>1, <1>4, <1>5, <2>1 DEF ListOK
  <1>8. Ids(l) = Ids(notif_list)
    BY <1>3, <1>6 DEF Ids
  <1>9. WindowsOK'
    <2> DEFINE first == {i \in 1 .. Len(notif_list) : ~Shown(notif_list[i])}
    <2>1. late = {l[i] : i \in first}
      BY <1>4
    <2> DEFINE later == (1 .. Len(notif_list)) \ first
    <2>2. ShownIds(l) = ShownIds(notif_list) \cup {x.id : x \in late}
      <3>1. ShownIds(l) = {l[i].id : i \in 1 .. Len(notif_list)}
        BY <1>3, <1>6 DEF ShownIds
      <3>2. ShownIds(notif_list) = {notif_list[i].id : i \in later}
        BY <1>6 DEF ShownIds
      <3>3. {x.id : x \in late} = {l[i].id : i \in first}
        BY <2>1
      <3>4. {notif_list[i].id : i \in later} = {l[i].id : i \in later}
        BY <1>3
      <3> HIDE DEF late
      <3> QED BY <3>1, <3>2, <3>3, <3>4
    <2>3. TimedIds(l) = TimedIds(notif_list) \cup {x.id : x \in {y \in late : ~y.critical}}
      <3>1. TimedIds(l) = {l[i].id : i \in {j \in 1 .. Len(notif_list) : ~l[j].critical}}
        BY <1>3, <1>6 DEF TimedIds
      <3>2. TimedIds(notif_list) = {notif_list[i].id : i \in {j \in later : ~notif_list[j].critical}}
        BY <1>6 DEF TimedIds
      <3>3. {x.id : x \in {y \in late : ~y.critical}} =
                {l[i].id : i \in {j \in first : ~l[j].critical}}
        <4> HIDE DEF l, late, first
        <4>1. {y \in late : ~y.critical} = {l[i] : i \in {j \in first : ~l[j].critical}}
          BY <2>1
        <4> QED BY <4>1
      <3>4. {notif_list[i].id : i \in {j \in later : ~notif_list[j].critical}} =
                {l[i].id : i \in {j \in later : ~l[j].critical}}
        BY <1>3
      <3> HIDE DEF late
      <3> QED BY <3>1, <3>2, <3>3, <3>4
    <2>4. DOMAIN w = ShownIds(l) /\ timers' = TimedIds(l)
      BY <1>1, <2>2, <2>3 DEF WindowsOK, notif_item_show
    <2> HIDE DEF w
    <2> QED BY <1>1, <1>5, <2>4, WindowsStep
  <1>10. SignalsOK'
    BY <1>1, <1>8 DEF SignalsOK
  <1> QED BY <1>7, <1>9, <1>10

\* The daemon starts with an empty list, and again after the helper died.
LEMMA StartFacts ==
    ASSUME Init
    PROVE  IInv
  <1>1. Members(<<>>) = {} /\ <<>> \in Seq(NotifItem) /\ Len(<<>>) = 0 /\ <<>> \in Seq(Signal)
    BY DEF Members
  <1>2. ListOK
    <2>1. Sorted(<<>>)
      BY <1>1 DEF Sorted
    <2>2. 1 \in 1 .. MaxId + 1 /\ 0 <= MaxVisible /\ 1 \in Dpis
      BY SizesAssumption
    <2> QED BY <1>1, <2>1, <2>2 DEF Init, ListOK
  <1>3. ShownIds(<<>>) = {} /\ TimedIds(<<>>) = {}
    BY <1>1 DEF ShownIds, TimedIds
  <1>4. <<>> \in [{} -> Nat]
    OBVIOUS
  <1>5. WindowsOK
    BY <1>1, <1>3, <1>4 DEF Init, WindowsOK, Apart
  <1>6. SignalsOK
    BY <1>1 DEF Init, SignalsOK
  <1> QED BY <1>2, <1>5, <1>6 DEF IInv

\* Every step keeps the invariant.
LEMMA NextInv == IInv /\ [Next]_vars => IInv'
  <1> SUFFICES ASSUME IInv, [Next]_vars PROVE IInv'
    OBVIOUS
  <1>1. CASE \E old \in 0 .. MaxId, critical \in BOOLEAN, content \in Heights :
               handle_notify(old, critical, content)
    BY <1>1, NotifyStep
  <1>2. ASSUME NEW n \in 1 .. MaxId,
               handle_close_notification(n) \/ on_popup_button_press(n) \/ notif_expire_cb(n)
        PROVE  IInv'
    <2>1. n \in Ids(notif_list)
      BY <1>2, CallbackFacts DEF handle_close_notification, on_popup_button_press, notif_expire_cb
    <2>2. PICK reason \in 1 .. 3 : notif_item_close(n, reason)
      BY <1>2 DEF handle_close_notification, on_popup_button_press, notif_expire_cb
    <2> QED BY <2>1, <2>2, CloseStep
  <1>3. CASE notif_update_geom
    BY <1>3, GeomStep
  <1>4. ASSUME NEW dpi \in Dpis, notif_update_theme(dpi) PROVE IInv'
    BY <1>4 DEF notif_update_theme, IInv, ListOK, WindowsOK, SignalsOK
  <1>5. CASE Restart
    <2>1. Members(<<>>) = {} /\ <<>> \in Seq(NotifItem) /\ Len(<<>>) = 0 /\ <<>> \in Seq(Signal)
      BY DEF Members
    <2>2. ListOK'
      <3>1. Sorted(<<>>)
        BY <2>1 DEF Sorted
      <3>2. 1 \in 1 .. MaxId + 1 /\ 0 <= MaxVisible /\ 1 \in Dpis
        BY SizesAssumption
      <3> QED BY <1>5, <2>1, <3>1, <3>2 DEF Restart, ListOK
    <2>3. ShownIds(<<>>) = {} /\ TimedIds(<<>>) = {} /\ <<>> \in [{} -> Nat]
      BY <2>1 DEF ShownIds, TimedIds
    <2>4. WindowsOK'
      BY <1>5, <2>1, <2>3 DEF Restart, WindowsOK, Apart
    <2>5. SignalsOK'
      BY <1>5, <2>1 DEF Restart, SignalsOK
    <2> QED BY <2>2, <2>4, <2>5 DEF IInv
  <1>6. CASE UNCHANGED vars
    BY <1>6 DEF vars, IInv, ListOK, WindowsOK, SignalsOK
  <1> QED BY <1>1, <1>2, <1>3, <1>4, <1>5, <1>6 DEF Next

\* The inductive invariant holds in every reachable state.
LEMMA InductiveInvariant == Spec => []IInv
  BY StartFacts, NextInv, PTL DEF Spec

\* Every timer and every window is of a notification that is on the list, and a
\* shown one that is not critical has its timer.
THEOREM TypeCorrect == Spec => []TypeOK
  <1>1. IInv => TypeOK
    <2> SUFFICES ASSUME IInv PROVE TypeOK
      OBVIOUS
    <2> USE DEF IInv
    <2>1. /\ notif_list \in Seq(NotifItem) /\ DOMAIN notif_list = 1 .. Len(notif_list)
      BY DEF ListOK, Sorted
    <2>2. Items \subseteq NotifItem
      BY <2>1, MembersFacts DEF Items
    <2>3. Cardinality(Items) = Len(notif_list)
      BY SortedCount DEF ListOK, Items
    <2>4. \A i, j \in DOMAIN notif_list : i < j => notif_list[i].id < notif_list[j].id
      BY <2>1 DEF ListOK, Sorted
    <2>5. /\ DOMAIN popups = {it.id : it \in {x \in Items : Shown(x)}}
          /\ timers = {it.id : it \in {x \in Items : Shown(x) /\ ~x.critical}}
      BY DEF WindowsOK, ShownIds, TimedIds, Items
    <2>6. notif_seq \in 1 .. MaxId + 1 /\ notif_geom_set \in BOOLEAN /\ notif_dpi \in Dpis
      BY DEF ListOK
    <2> QED BY <2>2, <2>3, <2>4, <2>5, <2>6 DEF TypeOK
  <1> QED BY <1>1, InductiveInvariant, PTL

\* No popup covers another, whatever was closed, replaced, put off or rescaled,
\* for every limit, height and scale.
THEOREM NeverOverlap == Spec => []NoOverlap
  <1>1. IInv => NoOverlap
    <2> SUFFICES ASSUME IInv PROVE NoOverlap
      OBVIOUS
    <2>1. DOMAIN notif_list = 1 .. Len(notif_list)
      BY DEF IInv, ListOK, Sorted
    <2> QED BY <2>1 DEF IInv, WindowsOK, Apart, NoOverlap
  <1> QED BY <1>1, InductiveInvariant, PTL

-----------------------------------------------------------------------------
(***************************************************************************)
(* The refinement.                                                         *)
(***************************************************************************)

\* What the status of a number is, from the list and the signals.
StatusMap ==
    /\ status = [n \in 1 .. MaxId |-> status[n]]
    /\ \A n \in 1 .. MaxId :
          /\ n >= notif_seq => status[n] = "unused"
          /\ n \in Ids(notif_list) => status[n] = "open"
          /\ \A i \in 1 .. Len(signals) : signals[i].id = n => status[n] = signals[i].reason
          /\ n < notif_seq /\ n \notin Ids(notif_list)
                /\ (\A i \in 1 .. Len(signals) : signals[i].id # n) => status[n] = "replaced"

\* The status of a number is read off the list and the signals, of which each
\* number has at most one.
LEMMA StatusFacts == IInv => StatusMap
  <1> SUFFICES ASSUME IInv PROVE StatusMap
    OBVIOUS
  <1>1. /\ signals \in Seq(Signal) /\ DOMAIN signals = 1 .. Len(signals)
        /\ \A i \in 1 .. Len(signals) :
              signals[i].id \in 1 .. notif_seq - 1 /\ signals[i].id \notin Ids(notif_list)
        /\ \A i, j \in 1 .. Len(signals) : signals[i].id = signals[j].id => i = j
    BY DEF IInv, SignalsOK
  <1>2. notif_seq \in Nat /\ \A n \in Ids(notif_list) : n \in 1 .. notif_seq - 1
    BY DEF IInv, ListOK, Ids
  <1>3. ASSUME NEW n \in 1 .. MaxId
        PROVE  /\ n >= notif_seq => status[n] = "unused"
               /\ n \in Ids(notif_list) => status[n] = "open"
               /\ \A i \in 1 .. Len(signals) : signals[i].id = n => status[n] = signals[i].reason
               /\ n < notif_seq /\ n \notin Ids(notif_list)
                     /\ (\A i \in 1 .. Len(signals) : signals[i].id # n) => status[n] = "replaced"
    <2>1. SignalsOf(n) = {i \in 1 .. Len(signals) : signals[i].id = n}
      BY <1>1 DEF SignalsOf
    <2>2. CASE n >= notif_seq
      <3>1. n \notin Ids(notif_list) /\ SignalsOf(n) = {}
        BY <1>1, <1>2, <2>1, <2>2
      <3>2. status[n] = "unused"
        BY <2>2 DEF status
      <3> QED BY <1>2, <2>1, <2>2, <3>1, <3>2
    <2>3. CASE n \in Ids(notif_list)
      <3>1. ~(n >= notif_seq) /\ SignalsOf(n) = {}
        BY <1>1, <1>2, <2>1, <2>3
      <3>2. status[n] = "open"
        BY <2>3, <3>1 DEF status
      <3> QED BY <2>1, <2>3, <3>1, <3>2
    <2>4. ASSUME NEW i \in 1 .. Len(signals), signals[i].id = n
          PROVE  /\ ~(n >= notif_seq) /\ n \notin Ids(notif_list)
                 /\ status[n] = signals[i].reason
      <3>1. ~(n >= notif_seq) /\ n \notin Ids(notif_list)
        BY <1>1, <1>2, <2>4
      <3>2. SignalsOf(n) = {i}
        BY <1>1, <2>1, <2>4
      <3>3. Cardinality(SignalsOf(n)) = 1 /\ SignalsOf(n) # {}
        BY <3>2, FS_Singleton
      <3>4. (CHOOSE k \in SignalsOf(n) : TRUE) = i
        BY <3>2
      <3>5. status[n] = signals[i].reason
        BY <3>1, <3>3, <3>4 DEF status
      <3> QED BY <3>1, <3>5
    <2>5. CASE n < notif_seq /\ n \notin Ids(notif_list)
               /\ \A i \in 1 .. Len(signals) : signals[i].id # n
      <3>1. ~(n >= notif_seq) /\ SignalsOf(n) = {}
        BY <1>2, <2>1, <2>5
      <3>2. status[n] = "replaced"
        BY <2>5, <3>1 DEF status
      <3> QED BY <2>5, <3>1, <3>2
    <2> QED BY <2>2, <2>3, <2>4, <2>5
  <1>4. status = [n \in 1 .. MaxId |-> status[n]]
    BY DEF status
  <1> QED BY <1>3, <1>4 DEF StatusMap

\* A number is open for the service exactly when it is on the list.
LEMMA OpenFacts ==
    ASSUME IInv
    PROVE  Service!Open = Ids(notif_list)
  <1>1. StatusMap
    BY StatusFacts
  <1>2. notif_seq \in 1 .. MaxId + 1 /\ \A n \in Ids(notif_list) : n \in 1 .. notif_seq - 1
    BY DEF IInv, ListOK, Ids
  <1>3. /\ signals \in Seq(Signal)
        /\ \A i \in 1 .. Len(signals) : signals[i].reason # "open"
    <2>1. signals \in Seq(Signal)
      BY DEF IInv, SignalsOK
    <2>2. \A i \in 1 .. Len(signals) : signals[i] \in Signal
      BY <2>1
    <2> QED BY <2>1, <2>2 DEF Signal
  <1>4. ASSUME NEW n \in 1 .. MaxId PROVE status[n] = "open" <=> n \in Ids(notif_list)
    <2>1. CASE n >= notif_seq
      BY <1>1, <1>2, <2>1 DEF StatusMap
    <2>2. CASE n < notif_seq
      BY <1>1, <1>2, <1>3, <2>2 DEF StatusMap
    <2> QED BY <1>2, <2>1, <2>2
  <1>5. Ids(notif_list) \subseteq 1 .. MaxId
    BY <1>2, SizesAssumption
  <1> QED BY <1>4, <1>5 DEF Service!Open, Service!Id

\* What leaves list and signals alone leaves every status.
LEMMA StatusSame ==
    ASSUME IInv, StatusMap', notif_seq' = notif_seq, signals' = signals,
           Ids(notif_list)' = Ids(notif_list)
    PROVE  status' = status
  <1>1. StatusMap
    BY StatusFacts
  <1>2. notif_seq \in 1 .. MaxId + 1 /\ MaxId \in Nat
    BY SizesAssumption DEF IInv, ListOK
  <1>3. ASSUME NEW n \in 1 .. MaxId PROVE status[n]' = status[n]
    <2>1. CASE n >= notif_seq
      BY <1>1, <2>1 DEF StatusMap
    <2>2. CASE n \in Ids(notif_list)
      BY <1>1, <2>2 DEF StatusMap
    <2>3. CASE \E i \in 1 .. Len(signals) : signals[i].id = n
      BY <1>1, <2>3 DEF StatusMap
    <2>4. CASE n < notif_seq /\ n \notin Ids(notif_list)
               /\ \A i \in 1 .. Len(signals) : signals[i].id # n
      BY <1>1, <2>4 DEF StatusMap
    <2> QED BY <1>2, <2>1, <2>2, <2>3, <2>4
  <1> QED BY <1>1, <1>3 DEF StatusMap

\* A close, a click and a timer that fires are a close of the service.
LEMMA CloseRefines ==
    ASSUME IInv, StatusMap', NEW n \in Ids(notif_list), NEW reason \in 1 .. 3,
           notif_item_close(n, reason)
    PROVE  n \in Service!Id /\ Reason[reason] \in Service!Reason /\ Service!Close(n, Reason[reason])
  <1>1. StatusMap
    BY StatusFacts
  <1>2. /\ notif_seq \in 1 .. MaxId + 1 /\ MaxId \in Nat
        /\ \A k \in Ids(notif_list) : k \in 1 .. notif_seq - 1
    BY SizesAssumption DEF IInv, ListOK, Ids
  <1>3. n \in 1 .. MaxId
    BY <1>2
  <1>4. Reason[reason] \in {"expired", "dismissed", "closed"}
    BY DEF Reason
  <1> DEFINE s == [id |-> n, reason |-> Reason[reason]]
  <1>5. /\ notif_seq' = notif_seq /\ signals' = Append(signals, s)
        /\ Ids(notif_list)' = Ids(notif_list) \ {n}
    BY RemainingFacts DEF IInv, notif_item_close
  <1>6. s \in Signal /\ signals \in Seq(Signal) /\ Len(signals) \in Nat
    BY <1>2, <1>4 DEF IInv, SignalsOK, Signal
  <1>7. /\ Len(signals') = Len(signals) + 1
        /\ \A i \in 1 .. Len(signals) : signals'[i] = signals[i]
        /\ signals'[Len(signals) + 1] = s
    BY <1>5, <1>6, AppendProperties
  <1>8. \A i \in 1 .. Len(signals') : i \in 1 .. Len(signals) \/ i = Len(signals) + 1
    BY <1>6, <1>7
  <1>9. 1 .. Len(signals) \subseteq 1 .. Len(signals') /\ Len(signals) + 1 \in 1 .. Len(signals')
    BY <1>6, <1>7
  <1>10. ASSUME NEW k \in 1 .. MaxId
         PROVE  status[k]' = IF k = n THEN Reason[reason] ELSE status[k]
    <2>1. CASE k = n
      BY <1>7, <1>9, <2>1 DEF StatusMap
    <2>2. CASE k # n /\ k >= notif_seq
      BY <1>1, <1>5, <2>2 DEF StatusMap
    <2>3. CASE k # n /\ k \in Ids(notif_list)
      BY <1>1, <1>5, <2>3 DEF StatusMap
    <2>4. CASE k # n /\ \E i \in 1 .. Len(signals) : signals[i].id = k
      BY <1>1, <1>7, <1>9, <2>4 DEF StatusMap
    <2>5. CASE k # n /\ k < notif_seq /\ k \notin Ids(notif_list)
               /\ \A i \in 1 .. Len(signals) : signals[i].id # k
      <3>1. \A i \in 1 .. Len(signals') : signals'[i].id # k
        BY <1>7, <1>8, <2>5
      <3> QED BY <1>1, <1>5, <2>5, <3>1 DEF StatusMap
    <2> QED BY <1>2, <2>1, <2>2, <2>3, <2>4, <2>5
  <1>11. status' = [status EXCEPT ![n] = Reason[reason]]
    BY <1>1, <1>3, <1>10 DEF StatusMap
  <1> QED BY <1>3, <1>4, <1>11, OpenFacts DEF Service!Close, Service!Id, Service!Reason

\* Notify: the number is the next one, the one that is replaced goes without a
\* word, and the oldest gives way when the limit is reached.
LEMMA NotifyRefines ==
    ASSUME IInv, StatusMap', NEW old \in 0 .. MaxId, NEW critical \in BOOLEAN,
           NEW content \in Heights, handle_notify(old, critical, content)
    PROVE  notif_seq \in Service!Id /\ Service!Notify(notif_seq, old)
  <1> DEFINE others == Ids(notif_list) \ {old}
             d == Dropped(old)
             gone == Gone(old)
             r == Remaining(gone)
             it == NewItem(critical, content)
             told == [i \in DOMAIN d |-> [id |-> d[i], reason |-> Reason[3]]]
             dropped == IF Cardinality(others) < MaxVisible THEN {}
                        ELSE {k \in others : \A l \in others : k <= l}
  <1>1. StatusMap
    BY StatusFacts
  <1>2. /\ notif_seq \in 1 .. MaxId /\ MaxId \in Nat
        /\ \A k \in Ids(notif_list) : k \in 1 .. notif_seq - 1
    BY SizesAssumption DEF IInv, ListOK, Ids, handle_notify
  <1>3. /\ notif_seq' = notif_seq + 1 /\ notif_list' = Append(r, it)
        /\ signals' = signals \o told
    BY RoomFacts DEF handle_notify, Gone
  <1>4. it.id = notif_seq /\ it \in NotifItem
    <2>1. [id |-> notif_seq, critical |-> critical, content |-> content, h |-> 0] \in NotifItem
      BY <1>2 DEF NotifItem
    <2> QED BY <2>1, MadeFacts DEF NewItem, IInv
  <1>5. Ids(notif_list)' = (Ids(notif_list) \ gone) \cup {notif_seq}
    <2>1. Sorted(r) /\ Ids(r) = Ids(notif_list) \ gone
      BY RemainingFacts DEF IInv
    <2>2. Members(Append(r, it)) = Members(r) \cup {it}
      BY <1>4, <2>1, MembersAppend DEF Sorted
    <2>3. Ids(Append(r, it)) = Ids(r) \cup {it.id}
      BY <2>2 DEF Ids
    <2> QED BY <1>3, <1>4, <2>1, <2>3
  <1>6. /\ Members(d) = dropped
        /\ \/ dropped = {} /\ signals' = signals
           \/ \E n \in others : dropped = {n}
                 /\ signals' = Append(signals, [id |-> n, reason |-> "closed"])
    <2>1. /\ IsFiniteSet(others)
          /\ \/ d = <<>> /\ Cardinality(others) < MaxVisible
             \/ /\ Cardinality(others) = MaxVisible
                /\ \E n \in others : d = <<n>> /\ \A k \in others : n <= k
      BY DroppedFacts
    <2>2. \/ d = <<>> /\ signals \o told = signals
          \/ \E n \in others : d = <<n>>
                /\ signals \o told = Append(signals, [id |-> n, reason |-> "closed"])
      BY RoomFacts
    <2>3. MaxVisible \in Nat /\ \A k \in others : k \in Nat
      BY <1>2, SizesAssumption
    <2> HIDE DEF others, told
    <2>4. CASE d = <<>> /\ Cardinality(others) < MaxVisible
      <3>1. Members(d) = {}
        BY <2>4 DEF Members
      <3>2. \A n : <<>> # <<n>>
        OBVIOUS
      <3> QED BY <1>3, <2>2, <2>4, <3>1, <3>2
    <2>5. CASE /\ Cardinality(others) = MaxVisible
               /\ \E n \in others : d = <<n>> /\ \A k \in others : n <= k
      <3>1. PICK n \in others : d = <<n>> /\ \A k \in others : n <= k
        BY <2>5
      <3>2. Members(d) = {n}
        BY <3>1 DEF Members
      <3>3. dropped = {n}
        <4>1. ~(Cardinality(others) < MaxVisible)
          BY <2>3, <2>5
        <4>2. \A k \in others : (\A l \in others : k <= l) => k = n
          BY <2>3, <3>1
        <4> QED BY <3>1, <4>1, <4>2
      <3>4. /\ <<n>> # <<>>
            /\ \A m : <<n>> = <<m>> => m = n
        OBVIOUS
      <3> HIDE DEF dropped
      <3> QED BY <1>3, <2>2, <3>1, <3>2, <3>3, <3>4
    <2> QED BY <2>1, <2>4, <2>5
  <1>7. /\ dropped \subseteq others /\ gone = {old} \cup dropped
        /\ signals \in Seq(Signal) /\ Len(signals) \in Nat
        /\ \A i \in 1 .. Len(signals) :
              signals[i].id \in 1 .. notif_seq - 1 /\ signals[i].id \notin Ids(notif_list)
    BY <1>6 DEF Gone, IInv, SignalsOK
  \* The signals afterwards: those of before, and one of what was dropped.
  <1> DEFINE Told ==
           /\ \A i \in 1 .. Len(signals) : i \in 1 .. Len(signals') /\ signals'[i] = signals[i]
           /\ \A i \in 1 .. Len(signals') :
                 \/ i \in 1 .. Len(signals) /\ signals'[i] = signals[i]
                 \/ signals'[i].id \in dropped
           /\ \A n \in dropped : \E i \in 1 .. Len(signals') :
                 signals'[i].id = n /\ signals'[i].reason = "closed"
  <1>8. Told
    <2> HIDE DEF others, dropped
    <2>1. CASE dropped = {} /\ signals' = signals
      BY <2>1
    <2>2. ASSUME NEW n \in others, dropped = {n},
                 signals' = Append(signals, [id |-> n, reason |-> "closed"])
          PROVE  Told
      <3> DEFINE s == [id |-> n, reason |-> "closed"]
      <3>1. n \in Nat
        BY <1>2 DEF others
      <3>2. s \in Signal /\ s.id = n /\ s.reason = "closed"
        BY <3>1 DEF Signal
      <3>3. /\ Len(signals') = Len(signals) + 1
            /\ \A i \in 1 .. Len(signals) : signals'[i] = signals[i]
            /\ signals'[Len(signals) + 1] = s
        BY <1>7, <2>2, <3>2, AppendProperties
      <3>4. /\ \A i \in 1 .. Len(signals') : i \in 1 .. Len(signals) \/ i = Len(signals) + 1
            /\ 1 .. Len(signals) \subseteq 1 .. Len(signals')
            /\ Len(signals) + 1 \in 1 .. Len(signals')
        BY <1>7, <3>3
      <3> HIDE DEF s
      <3> QED BY <2>2, <3>2, <3>3, <3>4
    <2> HIDE DEF Told
    <2> QED BY <1>6, <2>1, <2>2
  <1>9. ASSUME NEW k \in 1 .. MaxId
        PROVE  status[k]' = IF k = notif_seq THEN "open"
                            ELSE IF k \in dropped THEN "closed"
                            ELSE IF k = old /\ status[k] = "open" THEN "replaced"
                            ELSE status[k]
    <2> HIDE DEF others, dropped, gone, told, r, it, d
    <2>0. /\ \A n \in dropped : n \in Ids(notif_list) /\ n # old /\ n < notif_seq
          /\ \A n \in 1 .. MaxId : n >= notif_seq => n \notin Ids(notif_list)
      BY <1>2, <1>7 DEF others
    <2>1. CASE k = notif_seq
      BY <1>5, <2>1 DEF StatusMap
    <2>2. CASE k > notif_seq
      BY <1>1, <1>2, <1>3, <2>0, <2>2, OpenFacts DEF StatusMap
    <2>3. CASE k < notif_seq /\ k \in dropped
      BY <1>8, <2>3 DEF StatusMap
    <2>4. CASE k < notif_seq /\ k \in Ids(notif_list) /\ k \notin dropped /\ k # old
      BY <1>1, <1>5, <1>7, <2>4 DEF StatusMap
    <2>5. CASE k < notif_seq /\ k \in Ids(notif_list) /\ k = old
      <3>1. k \notin dropped /\ k \notin Ids(notif_list)' /\ k < notif_seq'
        BY <1>2, <1>3, <1>5, <1>7, <2>0, <2>5
      <3>2. \A i \in 1 .. Len(signals') : signals'[i].id # k
        BY <1>7, <1>8, <2>5, <3>1
      <3>3. status[k]' = "replaced"
        BY <3>1, <3>2 DEF StatusMap
      <3>4. status[k] = "open"
        BY <1>1, <2>5 DEF StatusMap
      <3> QED BY <2>5, <3>1, <3>3, <3>4
    <2>6. CASE k < notif_seq /\ k \notin Ids(notif_list)
      <3>1. k \notin dropped /\ k \notin Ids(notif_list)' /\ k < notif_seq' /\ status[k] # "open"
        BY <1>2, <1>3, <1>5, <1>7, <2>0, <2>6, OpenFacts DEF Service!Open, Service!Id
      <3>2. status[k]' = status[k]
        <4>1. CASE \E i \in 1 .. Len(signals) : signals[i].id = k
          BY <1>1, <1>8, <4>1 DEF StatusMap
        <4>2. CASE \A i \in 1 .. Len(signals) : signals[i].id # k
          <5>1. \A i \in 1 .. Len(signals') : signals'[i].id # k
            BY <1>8, <3>1, <4>2
          <5> QED BY <1>1, <2>6, <3>1, <4>2, <5>1 DEF StatusMap
        <4> QED BY <4>1, <4>2
      <3> QED BY <2>6, <3>1, <3>2
    <2> QED BY <1>2, <2>1, <2>2, <2>3, <2>4, <2>5, <2>6
  <1>10. Service!Unused(notif_seq)
    <2>1. status[notif_seq] = "unused"
      BY <1>1, <1>2 DEF StatusMap
    <2>2. ASSUME NEW k \in 1 .. notif_seq - 1 PROVE status[k] # "unused"
      <3>1. k \in 1 .. MaxId /\ k < notif_seq
        BY <1>2
      <3>2. \A i \in 1 .. Len(signals) : signals[i].reason # "unused"
        <4>1. \A i \in 1 .. Len(signals) : signals[i] \in Signal
          BY <1>7
        <4> QED BY <4>1 DEF Signal
      <3> QED BY <1>1, <3>1, <3>2 DEF StatusMap
    <2> QED BY <2>1, <2>2 DEF Service!Unused
  <1>11. Service!Open \ {old} = others
    BY OpenFacts
  <1>12. status' = [k \in 1 .. MaxId |->
                       IF k = notif_seq THEN "open"
                       ELSE IF k \in dropped THEN "closed"
                       ELSE IF k = old /\ status[k] = "open" THEN "replaced"
                       ELSE status[k]]
    <2> HIDE DEF dropped
    <2>1. status' = [k \in 1 .. MaxId |-> status[k]']
      BY DEF StatusMap
    <2> QED BY <1>9, <2>1
  <1>13. Service!Notify(notif_seq, old)
    <2>1. Service!Cardinality(others) = Cardinality(others)
      BY DEF Service!Cardinality, Cardinality
    <2> QED BY <1>10, <1>11, <1>12, <2>1 DEF Service!Notify, Service!Id
  <1> QED BY <1>2, <1>13 DEF Service!Id

\* The work area that becomes known puts no notification on the list and takes
\* none from it.
LEMMA GeomRefines ==
    ASSUME IInv, StatusMap', notif_update_geom
    PROVE  status' = status
  <1> DEFINE l == [i \in DOMAIN notif_list |->
                      IF Shown(notif_list[i]) THEN notif_list[i] ELSE Made(notif_list[i])]
  <1>1. notif_list' = l /\ notif_seq' = notif_seq /\ signals' = signals
    BY DEF notif_update_geom
  <1>2. /\ notif_list \in Seq(NotifItem) /\ DOMAIN notif_list = 1 .. Len(notif_list)
        /\ Len(notif_list) \in Nat /\ ListOK
    BY DEF IInv, ListOK, Sorted
  <1>3. \A i \in 1 .. Len(notif_list) : l[i] \in NotifItem /\ l[i].id = notif_list[i].id
    <2>1. \A i \in 1 .. Len(notif_list) : notif_list[i] \in NotifItem
      BY <1>2
    <2> QED BY <1>2, <2>1, MadeFacts
  <1>4. l \in Seq(NotifItem) /\ Len(l) = Len(notif_list)
    <2> HIDE DEF NotifItem
    <2> QED BY <1>2, <1>3
  <1> HIDE DEF l
  <1>5. /\ Members(l) = {l[i] : i \in 1 .. Len(notif_list)}
        /\ Members(notif_list) = {notif_list[i] : i \in 1 .. Len(notif_list)}
    BY <1>2, <1>4, MembersFacts
  <1>6. Ids(l) = Ids(notif_list)
    BY <1>3, <1>5 DEF Ids
  <1> QED BY <1>1, <1>6, StatusSame

\* The daemon keeps the promise of the abstract service, in every step: a
\* notification leaves the display once, its program hears of it once and with
\* the reason unless it replaced it, and the oldest gives way at the limit.
THEOREM Implements == Spec => ImplementsService
  <1>1. Init => Service!Init
    <2> SUFFICES ASSUME Init PROVE Service!Init
      OBVIOUS
    <2>1. StatusMap /\ notif_seq = 1
      BY StartFacts, StatusFacts DEF Init
    <2> QED BY <2>1 DEF StatusMap, Service!Init, Service!Id
  <1>2. IInv' => StatusMap'
    BY StatusFacts, PTL
  <1>3. IInv /\ IInv' /\ [Next]_vars => [Service!Next]_status
    <2> SUFFICES ASSUME IInv, StatusMap', [Next]_vars PROVE Service!Next \/ status' = status
      BY <1>2
    <2>1. ASSUME NEW old \in 0 .. MaxId, NEW critical \in BOOLEAN, NEW content \in Heights,
                 handle_notify(old, critical, content)
          PROVE  Service!Next
      <3>1. notif_seq \in Service!Id /\ Service!Notify(notif_seq, old)
        BY <2>1, NotifyRefines
      <3>2. old \in Service!Id \cup {0}
        BY SizesAssumption DEF Service!Id
      <3> QED BY <3>1, <3>2 DEF Service!Next
    <2>2. ASSUME NEW n \in 1 .. MaxId,
                 handle_close_notification(n) \/ on_popup_button_press(n) \/ notif_expire_cb(n)
          PROVE  Service!Next
      <3>1. n \in Ids(notif_list)
        BY <2>2, CallbackFacts DEF handle_close_notification, on_popup_button_press, notif_expire_cb
      <3>2. PICK reason \in 1 .. 3 : notif_item_close(n, reason)
        BY <2>2 DEF handle_close_notification, on_popup_button_press, notif_expire_cb
      <3> QED BY <3>1, <3>2, CloseRefines DEF Service!Next
    <2>3. CASE notif_update_geom
      BY <2>3, GeomRefines
    <2>4. ASSUME NEW dpi \in Dpis, notif_update_theme(dpi) PROVE status' = status
      BY <2>4, StatusSame DEF notif_update_theme, Ids
    <2>5. CASE Restart
      <3>1. notif_seq' = 1
        BY <2>5 DEF Restart
      <3>2. status' = [n \in 1 .. MaxId |-> "unused"]
        BY <3>1 DEF StatusMap
      <3> QED BY <3>2 DEF Service!Next, Service!Restart, Service!Id
    <2>6. CASE UNCHANGED vars
      BY <2>6, StatusSame DEF vars, Ids
    <2> QED BY <2>1, <2>2, <2>3, <2>4, <2>5, <2>6 DEF Next
  <1> QED BY <1>1, <1>3, InductiveInvariant, PTL DEF Spec, ImplementsService, Service!Spec
=============================================================================

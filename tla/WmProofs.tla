------------------------------ MODULE WmProofs ------------------------------
(***************************************************************************)
(* Theorems about Wm, for every number of windows, tags and monitors and   *)
(* every configuration of bindings and placements.                         *)
(***************************************************************************)
EXTENDS Wm, ListProofs

-----------------------------------------------------------------------------
(***************************************************************************)
(* Numbers: what Min and Max choose.                                       *)
(***************************************************************************)

\* A non-empty set of natural numbers has a least element, which Min returns.
LEMMA MinFacts ==
    ASSUME NEW S \in SUBSET Nat, S # {}
    PROVE  Min(S) \in S /\ \A y \in S : Min(S) <= y
BY LeastElement DEF Min

\* A non-empty set of numbers up to n has a greatest element.
LEMMA MaxFacts ==
    ASSUME NEW n \in Nat, NEW S \in SUBSET (1..n), S # {}
    PROVE  Max(S) \in S
<1> DEFINE R == {n - x : x \in S}
<1>1. R \in SUBSET Nat /\ R # {}
  <2>1. \A x \in S : n - x \in Nat
    OBVIOUS
  <2> QED
    BY <2>1
<1>2. Min(R) \in R /\ \A y \in R : Min(R) <= y
  BY <1>1, MinFacts
<1>3. PICK x \in S : Min(R) = n - x
  BY <1>2
<1>4. \A y \in S : x >= y
  <2> SUFFICES ASSUME NEW y \in S PROVE x >= y
    OBVIOUS
  <2>1. n - y \in R
    OBVIOUS
  <2>2. n - x <= n - y
    BY <2>1, <1>2, <1>3
  <2> QED
    BY <2>2
<1> QED
  BY <1>4 DEF Max

-----------------------------------------------------------------------------
(***************************************************************************)
(* The two list operations.                                                *)
(***************************************************************************)

\* The members of a list are the values at its positions.
LEMMA ToSetFacts ==
    ASSUME NEW q \in Seq(Client)
    PROVE  /\ ToSet(q) = {q[i] : i \in 1..Len(q)}
           /\ ToSet(q) \subseteq Client
           /\ q = << >> <=> ToSet(q) = {}
<1>1. DOMAIN q = 1..Len(q)
  OBVIOUS
<1>2. ToSet(q) = {q[i] : i \in 1..Len(q)}
  BY <1>1 DEF ToSet
<1>3. \A i \in 1..Len(q) : q[i] \in Client
  OBVIOUS
<1>4. ToSet(q) \subseteq Client
  BY <1>2, <1>3
<1>5. ASSUME ToSet(q) = {} PROVE q = << >>
  BY <1>2, <1>5
<1>6. ASSUME q = << >> PROVE ToSet(q) = {}
  BY <1>2, <1>6
<1> QED
  BY <1>2, <1>4, <1>5, <1>6

\* A client that is in a list has a position in it.
LEMMA PositionFacts ==
    ASSUME NEW q \in Seq(Client), NEW c \in ToSet(q)
    PROVE  Position(q, c) \in 1..Len(q) /\ q[Position(q, c)] = c
<1>1. \E i \in DOMAIN q : q[i] = c
  BY DEF ToSet
<1>2. DOMAIN q = 1..Len(q)
  OBVIOUS
<1> QED
  BY <1>1, <1>2 DEF Position

\* Pushing a client that is not in a list keeps the list free of duplicates.
LEMMA ConsFacts ==
    ASSUME NEW q \in Seq(Client), NEW c \in Client
    PROVE  /\ Cons(c, q) \in Seq(Client)
           /\ ToSet(Cons(c, q)) = ToSet(q) \cup {c}
           /\ Cons(c, q) # << >>
           /\ Head(Cons(c, q)) = c
           /\ c \notin ToSet(q) /\ IsInjective(q) => IsInjective(Cons(c, q))
<1> DEFINE r == Cons(c, q)
<1>1. /\ r \in Seq(Client)
      /\ Len(r) = Len(q) + 1
      /\ r[1] = c
      /\ \A i \in 2..(Len(q) + 1) : r[i] = q[i - 1]
  BY DEF Cons
<1>2. r # << >> /\ Head(r) = c
  BY <1>1
<1> HIDE DEF r
<1>3. DOMAIN r = 1..(Len(q) + 1) /\ DOMAIN q = 1..Len(q)
  BY <1>1
<1>4. ToSet(r) = ToSet(q) \cup {c}
  <2>1. ASSUME NEW i \in 1..(Len(q) + 1) PROVE r[i] \in ToSet(q) \cup {c}
    <3>1. CASE i = 1
      BY <3>1, <1>1
    <3>2. CASE i # 1
      <4>1. r[i] = q[i - 1] /\ i - 1 \in 1..Len(q)
        BY <3>2, <1>1
      <4> QED
        BY <4>1, <1>3 DEF ToSet
    <3> QED
      BY <3>1, <3>2
  <2>2. ASSUME NEW i \in 1..Len(q) PROVE q[i] \in ToSet(r)
    <3>1. i + 1 \in 1..(Len(q) + 1) /\ r[i + 1] = q[i]
      BY <1>1
    <3> QED
      BY <3>1, <1>3 DEF ToSet
  <2>3. c \in ToSet(r)
    BY <1>1, <1>3 DEF ToSet
  <2> QED
    BY <1>3, <2>1, <2>2, <2>3 DEF ToSet
<1>5. ASSUME c \notin ToSet(q), IsInjective(q) PROVE IsInjective(r)
  <2> SUFFICES ASSUME NEW i \in 1..(Len(q) + 1), NEW j \in 1..(Len(q) + 1),
                      r[i] = r[j]
               PROVE  i = j
    BY <1>3 DEF IsInjective
  <2>1. \A k \in 1..Len(q) : q[k] # c
    BY <1>3, <1>5 DEF ToSet
  <2>2. CASE i = 1 /\ j = 1
    BY <2>2
  <2>3. CASE i = 1 /\ j # 1
    <3>1. j - 1 \in 1..Len(q) /\ r[j] = q[j - 1]
      BY <2>3, <1>1
    <3> QED
      BY <3>1, <2>1, <2>3, <1>1
  <2>4. CASE i # 1 /\ j = 1
    <3>1. i - 1 \in 1..Len(q) /\ r[i] = q[i - 1]
      BY <2>4, <1>1
    <3> QED
      BY <3>1, <2>1, <2>4, <1>1
  <2>5. CASE i # 1 /\ j # 1
    <3>1. i - 1 \in 1..Len(q) /\ j - 1 \in 1..Len(q) /\ q[i - 1] = q[j - 1]
      BY <2>5, <1>1
    <3>2. i - 1 = j - 1
      BY <3>1, <1>3, <1>5 DEF IsInjective
    <3> QED
      BY <3>2
  <2> QED
    BY <2>2, <2>3, <2>4, <2>5
<1> QED
  BY <1>1, <1>2, <1>4, <1>5 DEF r

\* Unlinking a client takes it out of the list and nothing else.
LEMMA UnlinkFacts ==
    ASSUME NEW q \in Seq(Client), IsInjective(q), NEW c \in ToSet(q)
    PROVE  /\ Unlink(q, c) \in Seq(Client)
           /\ IsInjective(Unlink(q, c))
           /\ ToSet(Unlink(q, c)) = ToSet(q) \ {c}
<1> DEFINE p == Position(q, c)
           a == SubSeq(q, 1, p - 1)
           b == SubSeq(q, p + 1, Len(q))
           r == Unlink(q, c)
<1>1. p \in 1..Len(q) /\ q[p] = c /\ DOMAIN q = 1..Len(q)
  BY PositionFacts
<1>2. /\ a \in Seq(Client) /\ Len(a) = p - 1
      /\ \A i \in 1..(p - 1) : a[i] = q[i]
  BY <1>1
<1>3. /\ b \in Seq(Client) /\ Len(b) = Len(q) - p
      /\ \A i \in 1..(Len(q) - p) : b[i] = q[p + i]
  BY <1>1
<1>4. r = a \o b
  BY DEF Unlink, RemoveAt
<1> HIDE DEF a, b, r, p
<1>5. /\ r \in Seq(Client) /\ Len(r) = Len(q) - 1
      /\ \A i \in 1..(Len(q) - 1) : r[i] = IF i < p THEN q[i] ELSE q[i + 1]
  <2>1. r \in Seq(Client) /\ Len(r) = Len(q) - 1
    <3>1. r \in Seq(Client) /\ Len(r) = Len(a) + Len(b)
      BY <1>2, <1>3, <1>4, ConcatProperties
    <3> QED
      BY <3>1, <1>1, <1>2, <1>3
  <2>2. ASSUME NEW i \in 1..(Len(q) - 1)
        PROVE  r[i] = IF i < p THEN q[i] ELSE q[i + 1]
    <3>1. CASE i < p
      BY <3>1, <1>1, <1>2, <1>3, <1>4
    <3>2. CASE i >= p
      <4>1. i - (p - 1) \in 1..(Len(q) - p) /\ p + (i - (p - 1)) = i + 1
        BY <3>2, <1>1
      <4>2. r[i] = b[i - (p - 1)]
        BY <3>2, <1>1, <1>2, <1>3, <1>4
      <4> QED
        BY <3>2, <4>1, <4>2, <1>1, <1>3
    <3> QED
      BY <3>1, <3>2, <1>1
  <2> QED
    BY <2>1, <2>2
<1>6. DOMAIN r = 1..(Len(q) - 1)
  BY <1>1, <1>5
<1>7. IsInjective(r)
  <2> SUFFICES ASSUME NEW i \in 1..(Len(q) - 1), NEW j \in 1..(Len(q) - 1),
                      r[i] = r[j]
               PROVE  i = j
    BY <1>6 DEF IsInjective
  <2> DEFINE f(k) == IF k < p THEN k ELSE k + 1
  <2>1. f(i) \in 1..Len(q) /\ f(j) \in 1..Len(q)
    BY <1>1
  <2>2. q[f(i)] = q[f(j)]
    BY <1>5
  <2>3. f(i) = f(j)
    BY <2>1, <2>2, <1>1 DEF IsInjective
  <2> QED
    BY <2>3, <1>1
<1>8. ASSUME NEW i \in 1..(Len(q) - 1) PROVE r[i] \in ToSet(q) \ {c}
  <2> DEFINE k == IF i < p THEN i ELSE i + 1
  <2>1. k \in 1..Len(q) /\ k # p /\ r[i] = q[k]
    BY <1>1, <1>5
  <2>2. q[k] # q[p]
    BY <2>1, <1>1 DEF IsInjective
  <2> QED
    BY <2>1, <2>2, <1>1 DEF ToSet
<1>9. ASSUME NEW i \in 1..Len(q), i # p
      PROVE  q[i] \in ToSet(r)
  <2>1. CASE i < p
    <3>1. i \in 1..(Len(q) - 1) /\ r[i] = q[i]
      BY <2>1, <1>1, <1>5
    <3> QED
      BY <3>1, <1>6 DEF ToSet
  <2>2. CASE i > p
    <3>1. i - 1 \in 1..(Len(q) - 1) /\ ~(i - 1 < p) /\ (i - 1) + 1 = i
      BY <2>2, <1>1
    <3>2. r[i - 1] = q[i]
      BY <3>1, <1>5
    <3> QED
      BY <3>1, <3>2, <1>6 DEF ToSet
  <2> QED
    BY <1>1, <1>9, <2>1, <2>2
<1>10. ToSet(r) \subseteq ToSet(q) \ {c}
  BY <1>6, <1>8 DEF ToSet
<1>11. ToSet(q) \ {c} \subseteq ToSet(r)
  BY <1>1, <1>9 DEF ToSet
<1> QED
  BY <1>5, <1>7, <1>10, <1>11 DEF r

-----------------------------------------------------------------------------
(***************************************************************************)
(* The invariant of the handlers.                                          *)
(***************************************************************************)

\* The state has its type, its monitors exist and show something.  With every
\* output off, monitor 1 stands for the one that will come back.
Core(s) == /\ s \in State
           /\ s.selmon \in Mon(s) \cup {1}
           /\ \A c \in Client : s.mon[c] \in Mon(s) \cup {1}
           /\ \A m \in Mon(s) : s.tagset[m] # {} /\ s.alttagset[m] # {}

\* The two lists hold the sets A and B of clients, each once.
Lists(s, A, B) == /\ IsInjective(s.clients) /\ IsInjective(s.stack)
                  /\ ToSet(s.clients) = A /\ ToSet(s.stack) = B

\* What holds whenever a handler starts or returns, but for the focus.
Well(s) == Core(s) /\ Lists(s, Managed(s), Managed(s))

\* FocusFollowsSelection, of any state.
Focused(s) ==
    LET c == SelectedClient(s)
    IN  /\ c # NoClient => /\ s.stack # << >> /\ c = Head(s.stack)
                           /\ s.mon[c] = s.selmon
                           /\ c \notin NeverFocus => s.active = c
        /\ c = NoClient => /\ s.active = NoClient
                           /\ \A d \in Managed(s) : ~ISVISIBLE(s, d, s.selmon)

\* Handlers that neither manage nor free a client, nor change the outputs.
Keeps(s, t) == Managed(t) = Managed(s) /\ t.n_monitors = s.n_monitors

-----------------------------------------------------------------------------
(***************************************************************************)
(* Focus.                                                                  *)
(***************************************************************************)

\* The search for a visible client finds one, or there is none.
LEMMA FirstVisibleFacts ==
    ASSUME NEW s, NEW q \in Seq(Client), NEW m
    PROVE  LET d == FirstVisible(s, q, m)
           IN  \/ d \in ToSet(q) /\ ISVISIBLE(s, d, m)
               \/ d = NoClient /\ \A c \in ToSet(q) : ~ISVISIBLE(s, c, m)
<1> DEFINE at == {i \in DOMAIN q : ISVISIBLE(s, q[i], m)}
<1>1. DOMAIN q = 1..Len(q) /\ at \in SUBSET Nat
  OBVIOUS
<1>2. CASE at = {}
  BY <1>2 DEF FirstVisible, ToSet
<1>3. CASE at # {}
  <2>1. Min(at) \in at
    BY <1>1, <1>3, MinFacts
  <2> QED
    BY <1>3, <2>1 DEF FirstVisible, ToSet
<1> QED
  BY <1>2, <1>3

\* The list operations keep the rest of the state.
LEMMA AttachFacts ==
    ASSUME NEW s, NEW A, NEW B, Core(s), Lists(s, A, B),
           NEW c \in Client, c \notin A
    PROVE  /\ Core(attach(s, c)) /\ Lists(attach(s, c), A \cup {c}, B)
           /\ attach(s, c).n_monitors = s.n_monitors
<1> DEFINE t == attach(s, c)
<1>1. s.clients \in Seq(Client)
  BY DEF Core, State
<1>2. /\ Cons(c, s.clients) \in Seq(Client)
      /\ ToSet(Cons(c, s.clients)) = A \cup {c}
      /\ IsInjective(Cons(c, s.clients))
  BY <1>1, ConsFacts DEF Lists
<1>3. t \in State
  BY <1>2 DEF attach, Core, State
<1>4. Core(t)
  BY <1>3 DEF attach, Core, State, Mon
<1> QED
  BY <1>2, <1>4 DEF attach, Lists, Core, State

\* attachstack() adds its client to the focus stack alone.
LEMMA AttachstackFacts ==
    ASSUME NEW s, NEW A, NEW B, Core(s), Lists(s, A, B),
           NEW c \in Client, c \notin B
    PROVE  /\ Core(attachstack(s, c)) /\ Lists(attachstack(s, c), A, B \cup {c})
           /\ attachstack(s, c).n_monitors = s.n_monitors
           /\ attachstack(s, c).stack # << >>
           /\ Head(attachstack(s, c).stack) = c
<1> DEFINE t == attachstack(s, c)
<1>1. s.stack \in Seq(Client)
  BY DEF Core, State
<1>2. /\ Cons(c, s.stack) \in Seq(Client)
      /\ ToSet(Cons(c, s.stack)) = B \cup {c}
      /\ IsInjective(Cons(c, s.stack))
      /\ Cons(c, s.stack) # << >> /\ Head(Cons(c, s.stack)) = c
  BY <1>1, ConsFacts DEF Lists
<1>3. t \in State
  BY <1>2 DEF attachstack, Core, State
<1>4. Core(t)
  BY <1>3 DEF attachstack, Core, State, Mon
<1> QED
  BY <1>2, <1>4 DEF attachstack, Lists, Core, State

\* detach() takes its client out of the client list alone.
LEMMA DetachFacts ==
    ASSUME NEW s, NEW A, NEW B, Core(s), Lists(s, A, B), NEW c \in A
    PROVE  /\ Core(detach(s, c)) /\ Lists(detach(s, c), A \ {c}, B)
           /\ detach(s, c).n_monitors = s.n_monitors
<1> DEFINE t == detach(s, c)
<1>1. s.clients \in Seq(Client)
  BY DEF Core, State
<1>2. /\ Unlink(s.clients, c) \in Seq(Client)
      /\ ToSet(Unlink(s.clients, c)) = A \ {c}
      /\ IsInjective(Unlink(s.clients, c))
  BY <1>1, UnlinkFacts DEF Lists
<1>3. t \in State
  BY <1>2 DEF detach, Core, State
<1>4. Core(t)
  BY <1>3 DEF detach, Core, State, Mon
<1> QED
  BY <1>2, <1>4 DEF detach, Lists, Core, State

\* detachstack() takes its client out of the focus stack; of the rest it may
\* change only a selection.
LEMMA DetachstackFacts ==
    ASSUME NEW s, NEW A, NEW B, Core(s), Lists(s, A, B), NEW c \in B
    PROVE  /\ Core(detachstack(s, c)) /\ Lists(detachstack(s, c), A, B \ {c})
           /\ detachstack(s, c).mon = s.mon
           /\ detachstack(s, c).selmon = s.selmon
           /\ detachstack(s, c).clients = s.clients
           /\ detachstack(s, c).n_monitors = s.n_monitors
<1> DEFINE t == [s EXCEPT !.stack = Unlink(@, c)]
           m == s.mon[c]
           d == FirstVisible(t, t.stack, m)
<1>1. s.stack \in Seq(Client) /\ c \in Client
  BY ToSetFacts DEF Core, State, Lists
<1>2. /\ Unlink(s.stack, c) \in Seq(Client)
      /\ ToSet(Unlink(s.stack, c)) = B \ {c}
      /\ IsInjective(Unlink(s.stack, c))
  BY <1>1, UnlinkFacts DEF Lists
<1>3. t \in State /\ t.stack = Unlink(s.stack, c)
  BY <1>2 DEF Core, State
<1>4. d \in Client \cup {NoClient}
  BY <1>2, <1>3, FirstVisibleFacts, ToSetFacts
<1>5. Core(t) /\ Lists(t, A, B \ {c})
  BY <1>2, <1>3 DEF Core, State, Lists, Mon
<1>6. CASE s.sel[m] # c
  BY <1>6, <1>5 DEF detachstack, Core, State
<1>7. CASE s.sel[m] = c
  <2>1. detachstack(s, c) = [t EXCEPT !.sel[m] = d]
    BY <1>7 DEF detachstack
  <2> HIDE DEF d
  <2>2. [t EXCEPT !.sel[m] = d] \in State
    BY <1>3, <1>4, <1>1 DEF State
  <2>3. Core([t EXCEPT !.sel[m] = d])
    BY <2>2, <1>5 DEF Core, State, Mon
  <2> QED
    BY <2>1, <2>3, <1>5 DEF Lists, Core, State
<1> QED
  BY <1>6, <1>7

\* setfocus() and unfocus() touch nothing but the input focus.
LEMMA ActiveFacts ==
    ASSUME NEW s, NEW A, NEW B, Core(s), Lists(s, A, B),
           NEW a \in Client \cup {NoClient}
    PROVE  LET t == [s EXCEPT !.active = a]
           IN  Core(t) /\ Lists(t, A, B)
<1>1. [s EXCEPT !.active = a] \in State
  BY DEF Core, State
<1> QED
  BY <1>1 DEF Core, State, Lists, Mon

\* Another monitor that exists may be selected.
LEMMA SelmonFacts ==
    ASSUME NEW s, NEW A, NEW B, Core(s), Lists(s, A, B),
           NEW m \in Mon(s) \cup {1}
    PROVE  LET t == [s EXCEPT !.selmon = m]
           IN  Core(t) /\ Lists(t, A, B) /\ Managed(t) = Managed(s)
<1>1. m \in Slot
  BY MonitorsAssumption DEF Core, State, Mon, Slot
<1>2. [s EXCEPT !.selmon = m] \in State
  BY <1>1 DEF Core, State
<1> QED
  BY <1>2 DEF Core, State, Lists, Mon, Managed

\* A monitor may select any client.
LEMMA SelFacts ==
    ASSUME NEW s, NEW A, NEW B, Core(s), Lists(s, A, B),
           NEW m \in Slot, NEW c \in Client \cup {NoClient}
    PROVE  LET t == [s EXCEPT !.sel[m] = c]
           IN  Core(t) /\ Lists(t, A, B)
<1>1. [s EXCEPT !.sel[m] = c] \in State
  BY DEF Core, State
<1> QED
  BY <1>1 DEF Core, State, Lists, Mon

\* focus(c), with c managed or NULL, leaves the selected monitor with the
\* client at the head of the stack focused, or with nothing to focus.
LEMMA FocusFacts ==
    ASSUME NEW s, Well(s), NEW c \in Managed(s) \cup {NoClient}
    PROVE  Well(focus(s, c)) /\ Keeps(s, focus(s, c)) /\ Focused(focus(s, c))
<1> DEFINE M == Managed(s)
           v == FirstVisible(s, s.stack, s.selmon)
           d == IF c # NoClient /\ ISVISIBLE(s, c, s.selmon) THEN c ELSE v
<1>1. Core(s) /\ Lists(s, M, M) /\ M \subseteq Client
  BY ToSetFacts DEF Well, Core, State, Managed
<1>2. \/ v \in M /\ ISVISIBLE(s, v, s.selmon)
      \/ v = NoClient /\ \A b \in M : ~ISVISIBLE(s, b, s.selmon)
  BY <1>1, FirstVisibleFacts DEF Core, State, Lists
<1>3. CASE d = NoClient
  <2> DEFINE t == [s EXCEPT !.active = NoClient]
             u == [t EXCEPT !.sel[s.selmon] = NoClient]
  <2>1. focus(s, c) = u
    BY <1>3 DEF focus
  <2>2. \A b \in M : ~ISVISIBLE(s, b, s.selmon)
    BY <1>1, <1>2, <1>3, ClientAssumption
  <2>3. Core(t) /\ Lists(t, M, M)
    BY <1>1, ActiveFacts
  <2>4. s.selmon \in Slot
    BY <1>1 DEF Core, State
  <2>5. Core(u) /\ Lists(u, M, M)
    <3> HIDE DEF t
    <3> QED
      BY <2>3, <2>4, SelFacts
  <2>6. Managed(u) = M /\ Well(u)
    BY <2>5 DEF Well, Lists, Managed
  <2>7. /\ u.selmon = s.selmon /\ u.sel[u.selmon] = NoClient
        /\ u.active = NoClient /\ u.tags = s.tags /\ u.tagset = s.tagset
        /\ u.n_monitors = s.n_monitors
    BY <1>1 DEF Core, State
  <2>8. Focused(u)
    BY <2>2, <2>6, <2>7 DEF Focused, SelectedClient, ISVISIBLE
  <2> QED
    BY <2>1, <2>6, <2>7, <2>8 DEF Keeps
<1>4. CASE d # NoClient
  <2>1. d \in M
    BY <1>2, <1>4
  <2> HIDE DEF d, v
  <2> DEFINE s1 == [s EXCEPT !.selmon = s.mon[d]]
             s2 == detachstack(s1, d)
             s3 == attachstack(s2, d)
             s4 == setfocus(s3, d)
             s5 == [s4 EXCEPT !.sel[s3.selmon] = d]
  <2>2. focus(s, c) = s5
    BY <1>4 DEF focus, d, v
  <2>3. s.mon[d] \in Mon(s) \cup {1} /\ d \in Client
    BY <1>1, <2>1 DEF Core
  <2>4. Core(s1) /\ Lists(s1, M, M)
    BY <1>1, <2>3, SelmonFacts
  <2>5. /\ s1.mon = s.mon /\ s1.selmon = s.mon[d] /\ s1.clients = s.clients
        /\ s1.n_monitors = s.n_monitors
    BY <1>1 DEF Core, State
  <2> HIDE DEF s1
  <2>6. /\ Core(s2) /\ Lists(s2, M, M \ {d})
        /\ s2.mon = s1.mon /\ s2.selmon = s1.selmon
        /\ s2.clients = s1.clients /\ s2.n_monitors = s1.n_monitors
    BY <2>1, <2>4, DetachstackFacts
  <2> HIDE DEF s2
  <2>7. (M \ {d}) \cup {d} = M
    BY <2>1
  <2>8. /\ Core(s3) /\ Lists(s3, M, M) /\ s3.stack # << >> /\ Head(s3.stack) = d
    BY <2>3, <2>6, <2>7, AttachstackFacts
  <2>9. /\ s3.mon = s2.mon /\ s3.selmon = s2.selmon
        /\ s3.clients = s2.clients /\ s3.n_monitors = s2.n_monitors
    BY <2>6 DEF attachstack, Core, State
  <2> HIDE DEF s3
  <2>10. /\ Core(s4) /\ Lists(s4, M, M)
         /\ s4.mon = s3.mon /\ s4.selmon = s3.selmon /\ s4.stack = s3.stack
         /\ s4.clients = s3.clients /\ s4.n_monitors = s3.n_monitors
         /\ d \notin NeverFocus => s4.active = d
    <3>1. CASE d \in NeverFocus
      BY <2>8, <3>1 DEF setfocus
    <3>2. CASE d \notin NeverFocus
      <4>1. s4 = [s3 EXCEPT !.active = d]
        BY <3>2 DEF setfocus
      <4>2. Core(s4) /\ Lists(s4, M, M)
        BY <4>1, <2>3, <2>8, ActiveFacts
      <4> QED
        BY <4>1, <4>2, <2>8 DEF Core, State
    <3> QED
      BY <3>1, <3>2
  <2> HIDE DEF s4
  <2>11. s3.selmon \in Slot
    BY <2>8 DEF Core, State
  <2>12. Core(s5) /\ Lists(s5, M, M)
    BY <2>3, <2>10, <2>11, SelFacts
  <2>13. /\ s5.mon = s4.mon /\ s5.selmon = s4.selmon /\ s5.stack = s4.stack
         /\ s5.clients = s4.clients /\ s5.n_monitors = s4.n_monitors
         /\ s5.active = s4.active /\ s5.sel[s4.selmon] = d
    BY <2>10, <2>11 DEF Core, State
  <2> HIDE DEF s5
  <2>14. Managed(s5) = M /\ Well(s5)
    BY <2>12 DEF Well, Lists, Managed
  <2>15. SelectedClient(s5) = d /\ s5.mon[d] = s5.selmon
    BY <2>5, <2>6, <2>9, <2>10, <2>13 DEF SelectedClient
  <2>16. s5.stack # << >>
    BY <2>8, <2>10, <2>13
  <2>17. d = Head(s5.stack) /\ (d \notin NeverFocus => s5.active = d)
    BY <2>8, <2>10, <2>13
  <2>18. Focused(s5)
    BY <1>4, <2>15, <2>16, <2>17 DEF Focused
  <2>19. Keeps(s, s5)
    BY <2>14, <2>5, <2>6, <2>9, <2>10, <2>13 DEF Keeps
  <2> QED
    BY <2>2, <2>14, <2>18, <2>19
<1> QED
  BY <1>3, <1>4

-----------------------------------------------------------------------------
(***************************************************************************)
(* What the helpers keep.                                                  *)
(***************************************************************************)

\* t follows s by a handler that ends in focus() or does nothing.
Done(s, t) == Well(t) /\ Keeps(s, t) /\ (Focused(t) \/ t = s)

\* The monitors that exist have a slot.
LEMMA MonFacts ==
    ASSUME NEW s \in State
    PROVE  Mon(s) \subseteq Slot
BY MonitorsAssumption DEF State, Mon, Slot

\* A change that leaves the lists, the selected monitor and the outputs alone.
LEMMA ChangeFacts ==
    ASSUME NEW s, Well(s), NEW t, t \in State,
           t.clients = s.clients, t.stack = s.stack,
           t.selmon = s.selmon, t.n_monitors = s.n_monitors,
           \A c \in Client : t.mon[c] \in Mon(s) \cup {1},
           \A m \in Mon(s) : t.tagset[m] # {} /\ t.alttagset[m] # {}
    PROVE  Well(t) /\ Keeps(s, t)
BY DEF Well, Core, Lists, Keeps, Managed, Mon

\* The client that a focused state has selected is managed.
LEMMA SelectedFacts ==
    ASSUME NEW s, Well(s), Focused(s)
    PROVE  SelectedClient(s) \in Managed(s) \cup {NoClient}
<1>1. s.stack \in Seq(Client) /\ ToSet(s.stack) = Managed(s)
  BY DEF Well, Core, State, Lists
<1>2. CASE SelectedClient(s) = NoClient
  BY <1>2
<1>3. CASE SelectedClient(s) # NoClient
  <2>1. s.stack # << >> /\ SelectedClient(s) = Head(s.stack)
    BY <1>3 DEF Focused
  <2>2. 1 \in 1..Len(s.stack) /\ Head(s.stack) = s.stack[1]
    BY <1>1, <2>1
  <2>3. Head(s.stack) \in ToSet(s.stack)
    BY <1>1, <2>2, ToSetFacts
  <2> QED
    BY <1>1, <2>1, <2>3
<1> QED
  BY <1>2, <1>3

\* Making an existing monitor the selected one keeps the state well-formed.
LEMMA SelectFacts ==
    ASSUME NEW s, Well(s), NEW m \in Mon(s) \cup {1}
    PROVE  LET t == [s EXCEPT !.selmon = m]
           IN  Well(t) /\ Keeps(s, t) /\ t.selmon = m
<1> DEFINE t == [s EXCEPT !.selmon = m]
<1>1. Core(t) /\ Lists(t, Managed(s), Managed(s)) /\ Managed(t) = Managed(s)
  BY SelmonFacts DEF Well
<1>2. t.n_monitors = s.n_monitors /\ t.selmon = m
  BY DEF Well, Core, State
<1> QED
  BY <1>1, <1>2 DEF Well, Keeps

\* unfocus() changes the input focus alone.
LEMMA UnfocusFacts ==
    ASSUME NEW s, Well(s), NEW c
    PROVE  /\ Well(unfocus(s, c)) /\ Keeps(s, unfocus(s, c))
           /\ unfocus(s, c).mon = s.mon
<1>1. CASE c = NoClient
  BY <1>1 DEF unfocus, Keeps
<1>2. CASE c # NoClient
  <2> DEFINE t == [s EXCEPT !.active = NoClient]
  <2>1. unfocus(s, c) = t
    BY <1>2 DEF unfocus
  <2>2. /\ t \in State /\ t.mon = s.mon
        /\ t.clients = s.clients /\ t.stack = s.stack
        /\ t.selmon = s.selmon /\ t.n_monitors = s.n_monitors
        /\ t.tagset = s.tagset /\ t.alttagset = s.alttagset
    BY DEF Well, Core, State
  <2> HIDE DEF t
  <2> QED
    BY <2>1, <2>2, ChangeFacts DEF Well, Core
<1> QED
  BY <1>1, <1>2

\* Focusing after a change that kept the state well-formed.
LEMMA ThenFocus ==
    ASSUME NEW s, NEW t, Well(t), Keeps(s, t),
           NEW c \in Managed(s) \cup {NoClient}
    PROVE  Done(s, focus(t, c))
<1>1. c \in Managed(t) \cup {NoClient}
  BY DEF Keeps
<1>2. Well(focus(t, c)) /\ Keeps(t, focus(t, c)) /\ Focused(focus(t, c))
  BY <1>1, FocusFacts
<1> QED
  BY <1>2 DEF Keeps, Done

\* Doing nothing, and doing one thing after another.
LEMMA DoneFacts ==
    ASSUME NEW s, Well(s)
    PROVE  /\ Done(s, s)
           /\ \A t : Done(s, t) => Well(t) /\ Keeps(s, t)
           /\ \A t, u : Done(s, t) /\ Done(t, u) => Done(s, u)
BY DEF Done, Keeps

\* enternotify() keeps the state well-formed, and the focus where it was or where
\* focus() puts it.
LEMMA EnternotifyFacts ==
    ASSUME NEW s, Well(s), NEW c \in Managed(s)
    PROVE  Done(s, enternotify(s, c))
<1> DEFINE t == unfocus(s, SelectedClient(s))
           u == [t EXCEPT !.selmon = s.mon[c]]
<1>1. c \in Client /\ s.mon[c] \in Mon(s) \cup {1}
  BY ToSetFacts DEF Well, Core, State, Managed
<1>2. Well(t) /\ Keeps(s, t)
  BY UnfocusFacts
<1>3. s.mon[c] \in Mon(t) \cup {1}
  BY <1>1, <1>2 DEF Keeps, Mon
<1>4. Well(u) /\ Keeps(s, u)
  <2> HIDE DEF t
  <2> QED
    BY <1>2, <1>3, SelectFacts DEF Keeps
<1>5. Done(s, focus(u, c)) /\ Done(s, focus(s, c)) /\ Done(s, s)
  <2> HIDE DEF u
  <2>1. Keeps(s, s)
    BY DEF Keeps
  <2> QED
    BY <1>4, <2>1, ThenFocus, DoneFacts
<1> QED
  BY <1>5 DEF enternotify

\* selectmon() ends with focus(): whatever the focus was, it follows the selection.
LEMMA SelectmonFacts ==
    ASSUME NEW s, Well(s), NEW m \in Mon(s) \cup {1}
    PROVE  Done(s, selectmon(s, m)) /\ Focused(selectmon(s, m))
<1> DEFINE t == unfocus(s, SelectedClient(s))
           u == [t EXCEPT !.selmon = m]
<1>1. Well(t) /\ Keeps(s, t)
  BY UnfocusFacts
<1>2. m \in Mon(t) \cup {1}
  BY <1>1 DEF Keeps, Mon
<1>3. Well(u) /\ Keeps(s, u)
  <2> HIDE DEF t
  <2> QED
    BY <1>1, <1>2, SelectFacts DEF Keeps
<1>4. selectmon(s, m) = focus(u, NoClient)
  BY DEF selectmon
<1> HIDE DEF u
<1> QED
  BY <1>3, <1>4, ThenFocus, FocusFacts

\* pop() moves its client to the head of the client list and ends with focus().
LEMMA PopFacts ==
    ASSUME NEW s, Well(s), NEW c \in Managed(s)
    PROVE  Done(s, pop(s, c))
<1> DEFINE M == Managed(s)
           t == detach(s, c)
           u == attach(t, c)
<1>1. c \in Client /\ Core(s) /\ Lists(s, M, M)
  BY ToSetFacts DEF Well, Core, State, Managed
<1>2. Core(t) /\ Lists(t, M \ {c}, M) /\ t.n_monitors = s.n_monitors
  BY <1>1, DetachFacts
<1>3. Core(u) /\ Lists(u, (M \ {c}) \cup {c}, M) /\ u.n_monitors = t.n_monitors
  <2> HIDE DEF t
  <2> QED
    BY <1>1, <1>2, AttachFacts
<1>4. (M \ {c}) \cup {c} = M
  OBVIOUS
<1>5. pop(s, c) = focus(u, c)
  BY DEF pop
<1> HIDE DEF t, u
<1>6. Well(u) /\ Keeps(s, u)
  BY <1>2, <1>3, <1>4 DEF Well, Lists, Managed, Keeps
<1> QED
  BY <1>5, <1>6, ThenFocus

-----------------------------------------------------------------------------
(***************************************************************************)
(* Tags and views.                                                         *)
(***************************************************************************)

\* attachclients() changes owners and tags alone, and no owner to a monitor that
\* does not exist.
LEMMA AttachclientsFacts ==
    ASSUME NEW s, Well(s), NEW m \in Mon(s) \cup {1}
    PROVE  /\ Well(attachclients(s, m)) /\ Keeps(s, attachclients(s, m))
           /\ attachclients(s, m).selmon = s.selmon
<1> DEFINE t == attachclients(s, m)
           shown == {c \in Managed(s) : ISVISIBLE(s, c, m)}
<1>1. s \in State /\ m \in Slot
  BY MonitorsAssumption DEF Well, Core, State, Mon, Slot
<1>2. /\ t.clients = s.clients /\ t.stack = s.stack
      /\ t.selmon = s.selmon /\ t.n_monitors = s.n_monitors
      /\ t.tagset = s.tagset /\ t.alttagset = s.alttagset
      /\ t.mon = [c \in Client |-> IF c \in shown THEN m ELSE s.mon[c]]
  BY <1>1 DEF attachclients, State
<1>3. t \in State
  <2>1. [c \in Client |-> IF c \in shown THEN m ELSE s.mon[c]] \in [Client -> Slot]
    BY <1>1 DEF State
  <2>2. \A u : [c \in Client |-> IF c \in shown /\ s.tags[c] \cap u # {}
                                  THEN s.tags[c] \cap s.tagset[m] ELSE s.tags[c]]
                 \in [Client -> SUBSET Tag]
    BY <1>1 DEF State
  <2>3. (IF shown = {} THEN s.active ELSE NoClient) \in Client \cup {NoClient}
    BY <1>1 DEF State
  <2> HIDE DEF shown
  <2> QED
    BY <1>1, <2>1, <2>2, <2>3 DEF attachclients, State, shown
<1>4. \A c \in Client : t.mon[c] \in Mon(s) \cup {1}
  BY <1>2 DEF Well, Core
<1>5. \A k \in Mon(s) : t.tagset[k] # {} /\ t.alttagset[k] # {}
  BY <1>2 DEF Well, Core
<1> HIDE DEF t
<1>6. Well(t) /\ Keeps(s, t)
  BY <1>2, <1>3, <1>4, <1>5, ChangeFacts
<1> QED
  BY <1>2, <1>6 DEF t

\* Giving monitor m the tags ts, which are not empty if m exists.
LEMMA FlipFacts ==
    ASSUME NEW s, Well(s), NEW m \in Slot, NEW ts \in SUBSET Tag,
           m \in Mon(s) => ts # {}
    PROVE  LET t == flip(s, m, ts)
           IN  /\ Well(t) /\ Keeps(s, t) /\ t.selmon = s.selmon
               /\ t.tagset = [s.tagset EXCEPT ![m] = ts]
<1> DEFINE t == flip(s, m, ts)
<1>1. s \in State
  BY DEF Well, Core
<1>2. /\ t.clients = s.clients /\ t.stack = s.stack /\ t.mon = s.mon
      /\ t.selmon = s.selmon /\ t.n_monitors = s.n_monitors
      /\ t.tagset = [s.tagset EXCEPT ![m] = ts]
      /\ t.alttagset = [s.alttagset EXCEPT ![m] = s.tagset[m]]
  BY <1>1 DEF flip, State
<1>3. t \in State
  BY <1>1 DEF flip, State
<1>4. \A c \in Client : t.mon[c] \in Mon(s) \cup {1}
  BY <1>2 DEF Well, Core
<1>5. ASSUME NEW k \in Mon(s) PROVE t.tagset[k] # {} /\ t.alttagset[k] # {}
  <2>1. k \in Slot
    BY <1>1, MonFacts
  <2> QED
    BY <1>1, <1>2, <2>1 DEF Well, Core, State
<1> HIDE DEF t
<1>6. Well(t) /\ Keeps(s, t)
  BY <1>2, <1>3, <1>4, <1>5, ChangeFacts
<1> QED
  BY <1>2, <1>6 DEF t

\* One monitor may take over another one's selection.
LEMMA WithSelFacts ==
    ASSUME NEW s, Well(s), NEW m \in Slot, NEW c \in Client \cup {NoClient}
    PROVE  LET t == [s EXCEPT !.sel[m] = c]
           IN  Well(t) /\ Keeps(s, t) /\ t.selmon = s.selmon
<1> DEFINE t == [s EXCEPT !.sel[m] = c]
<1>1. Core(t) /\ Lists(t, Managed(s), Managed(s))
  BY SelFacts DEF Well
<1>2. t.clients = s.clients /\ t.n_monitors = s.n_monitors /\ t.selmon = s.selmon
  BY DEF Well, Core, State
<1> HIDE DEF t
<1>3. Managed(t) = Managed(s)
  BY <1>2 DEF Managed
<1> QED
  BY <1>1, <1>2, <1>3 DEF Well, Keeps, t

\* The end of view() and toggleview() after an exchange of views.
LEMMA SettleFacts ==
    ASSUME NEW s, NEW t, Well(t), Keeps(s, t), NEW m \in Mon(t)
    PROVE  Done(s, settle(t, m))
<1> DEFINE u == attachclients(t, m)
           v == attachclients(u, t.selmon)
<1>1. Well(u) /\ Keeps(t, u)
  BY AttachclientsFacts
<1>2. t.selmon \in Mon(u) \cup {1}
  BY <1>1 DEF Keeps, Mon, Well, Core
<1>3. Well(v) /\ Keeps(u, v)
  <2> HIDE DEF u
  <2> QED
    BY <1>1, <1>2, AttachclientsFacts
<1>4. settle(t, m) = focus(v, NoClient)
  BY DEF settle
<1> HIDE DEF u, v
<1> QED
  BY <1>1, <1>3, <1>4, ThenFocus DEF Keeps

\* The monitor a view takes its tags from is a monitor other than n.
LEMMA ShowingFacts ==
    ASSUME NEW s, Well(s), NEW n, NEW ts, Showing(s, n, ts) # {}
    PROVE  /\ Min(Showing(s, n, ts)) \in Mon(s) \ {n}
           /\ Min(Showing(s, n, ts)) \in Slot
           /\ s.tagset[Min(Showing(s, n, ts))] \cap ts # {}
<1>1. Showing(s, n, ts) \in SUBSET Nat
  BY DEF Showing, Mon
<1>2. Min(Showing(s, n, ts)) \in Showing(s, n, ts)
  BY <1>1, MinFacts
<1> QED
  BY <1>2, MonFacts DEF Showing, Well, Core

\* Where there are monitors, the selected one is one of them.
LEMMA SelmonLive ==
    ASSUME NEW s, Well(s)
    PROVE  s.selmon \in Slot /\ (Mon(s) # {} => s.selmon \in Mon(s))
BY DEF Well, Core, State, Mon

\* view() keeps the state well-formed; when it returns early it keeps the focus.
LEMMA ViewFacts ==
    ASSUME NEW s, Well(s), NEW ui \in SUBSET Tag
    PROVE  Done(s, view(s, ui))
<1> DEFINE n      == s.selmon
           old    == s.tagset[n]
           newtagset == IF ui # {} THEN ui ELSE s.alttagset[n]
           others == Showing(s, n, newtagset)
           m      == Min(others)
           f      == flip(s, m, old)
           g      == flip(f, n, newtagset)
           swapped == [g EXCEPT !.sel[m] = s.sel[n]]
           here   == flip(s, n, newtagset)
           a      == attachclients(here, n)
<1>1. s \in State /\ n \in Slot
  BY SelmonLive DEF Well, Core
<1>2. /\ newtagset \in SUBSET Tag /\ old \in SUBSET Tag
      /\ n \in Mon(s) => newtagset # {} /\ old # {}
      /\ s.sel[n] \in Client \cup {NoClient}
  BY <1>1 DEF Well, Core, State
<1>3. CASE ui = old \/ (others # {} /\ newtagset \cap old # {})
  BY <1>3, DoneFacts DEF view
<1>4. CASE ~(ui = old \/ (others # {} /\ newtagset \cap old # {})) /\ others # {}
  <2>1. m \in Mon(s) /\ m \in Slot
    BY <1>4, ShowingFacts
  <2>2. view(s, ui) = settle(swapped, m)
    BY <1>4 DEF view
  <2>3. n \in Mon(s)
    BY <2>1, SelmonLive
  <2> HIDE DEF m, newtagset, old, n
  <2>4. Well(f) /\ Keeps(s, f)
    BY <1>2, <2>1, <2>3, FlipFacts
  <2>5. Mon(f) = Mon(s)
    BY <2>4 DEF Keeps, Mon
  <2> HIDE DEF f
  <2>6. Well(g) /\ Keeps(f, g)
    BY <1>1, <1>2, <2>3, <2>4, FlipFacts
  <2> HIDE DEF g
  <2>7. Well(swapped) /\ Keeps(g, swapped)
    BY <1>2, <2>1, <2>6, WithSelFacts
  <2> HIDE DEF swapped
  <2>8. Keeps(s, swapped) /\ m \in Mon(swapped)
    BY <2>1, <2>4, <2>6, <2>7 DEF Keeps, Mon
  <2> QED
    BY <2>2, <2>7, <2>8, SettleFacts
<1>5. CASE ~(ui = old \/ (others # {} /\ newtagset \cap old # {})) /\ others = {}
  <2>1. view(s, ui) = focus(a, NoClient)
    BY <1>5 DEF view
  <2> HIDE DEF newtagset, old
  <2>2. Well(here) /\ Keeps(s, here) /\ here.selmon = s.selmon
    BY <1>1, <1>2, FlipFacts
  <2>3. n \in Mon(here) \cup {1}
    BY <2>2 DEF Well, Core
  <2> HIDE DEF here
  <2>4. Well(a) /\ Keeps(here, a)
    BY <2>2, <2>3, AttachclientsFacts
  <2> HIDE DEF a
  <2> QED
    BY <2>1, <2>2, <2>4, ThenFocus DEF Keeps
<1> QED
  BY <1>3, <1>4, <1>5

\* toggleview() keeps the state well-formed; when it returns early it keeps the
\* focus.
LEMMA ToggleviewFacts ==
    ASSUME NEW s, Well(s), NEW ui \in SUBSET Tag
    PROVE  Done(s, toggleview(s, ui))
<1> DEFINE n      == s.selmon
           newtagset == SymDiff(s.tagset[n], ui)
           others == Showing(s, n, newtagset)
           m      == Min(others)
           here   == [s EXCEPT !.tagset[n] = newtagset]
           f      == flip(s, m, s.tagset[n])
           g      == [f EXCEPT !.tagset[n] = newtagset]
           swapped == [g EXCEPT !.sel[m] = s.sel[n]]
           a      == attachclients(here, n)
<1>1. s \in State /\ n \in Slot /\ s.tagset[n] \in SUBSET Tag
  BY SelmonLive DEF Well, Core, State
<1>2. newtagset \in SUBSET Tag
  BY <1>1 DEF SymDiff
<1>3. s.sel[n] \in Client \cup {NoClient}
  BY <1>1 DEF State
<1>4. CASE newtagset = {}
  BY <1>4, DoneFacts DEF toggleview
\* Changing what a monitor shows without remembering what it showed.
<1>5. ASSUME NEW t, Well(t), newtagset # {}
      PROVE  LET u == [t EXCEPT !.tagset[n] = newtagset]
             IN  Well(u) /\ Keeps(t, u) /\ u.selmon = t.selmon
  <2> DEFINE u == [t EXCEPT !.tagset[n] = newtagset]
  <2> HIDE DEF n, newtagset
  <2>1. t \in State
    BY <1>5 DEF Well, Core
  <2>2. /\ u \in State /\ u.clients = t.clients /\ u.stack = t.stack
        /\ u.mon = t.mon /\ u.selmon = t.selmon
        /\ u.n_monitors = t.n_monitors /\ u.alttagset = t.alttagset
        /\ u.tagset = [t.tagset EXCEPT ![n] = newtagset]
    BY <1>1, <1>2, <2>1 DEF State
  <2>3. \A k \in Mon(t) : u.tagset[k] # {} /\ u.alttagset[k] # {}
    BY <1>5, <2>1, <2>2, MonFacts DEF Well, Core, State
  <2> HIDE DEF u
  <2>4. \A c \in Client : u.mon[c] \in Mon(t) \cup {1}
    BY <1>5, <2>2 DEF Well, Core
  <2>5. Well(u) /\ Keeps(t, u)
    BY <1>5, <2>2, <2>3, <2>4, ChangeFacts
  <2> QED
    BY <2>2, <2>5 DEF u
<1>6. CASE newtagset # {} /\ others # {}
  <2>1. m \in Mon(s) /\ m \in Slot
    BY <1>6, ShowingFacts
  <2>2. toggleview(s, ui) = settle(swapped, m)
    BY <1>6 DEF toggleview
  <2>3. n \in Mon(s) /\ s.tagset[n] # {}
    BY <2>1, SelmonLive DEF Well, Core
  <2> HIDE DEF m, newtagset, n
  <2>4. Well(f) /\ Keeps(s, f)
    BY <1>1, <2>1, <2>3, FlipFacts
  <2> HIDE DEF f
  <2>5. Well(g) /\ Keeps(f, g)
    BY <1>5, <1>6, <2>4
  <2> HIDE DEF g
  <2>6. Well(swapped) /\ Keeps(g, swapped)
    BY <1>3, <2>1, <2>5, WithSelFacts
  <2> HIDE DEF swapped
  <2>7. Keeps(s, swapped) /\ m \in Mon(swapped)
    BY <2>1, <2>4, <2>5, <2>6 DEF Keeps, Mon
  <2> QED
    BY <2>2, <2>6, <2>7, SettleFacts
<1>7. CASE newtagset # {} /\ others = {}
  <2>1. toggleview(s, ui) = focus(a, NoClient)
    BY <1>7 DEF toggleview
  <2> HIDE DEF newtagset
  <2>2. Well(here) /\ Keeps(s, here) /\ here.selmon = s.selmon
    BY <1>5, <1>7
  <2>3. n \in Mon(here) \cup {1}
    BY <2>2 DEF Well, Core
  <2> HIDE DEF here
  <2>4. Well(a) /\ Keeps(here, a)
    BY <2>2, <2>3, AttachclientsFacts
  <2> HIDE DEF a
  <2> QED
    BY <2>1, <2>2, <2>4, ThenFocus DEF Keeps
<1> QED
  BY <1>4, <1>6, <1>7

\* A managed client may get other tags, another owner that exists, or be
\* hidden or shown, without harm to the lists.
LEMMA RetagFacts ==
    ASSUME NEW s, Well(s), NEW c \in Client, NEW ts \in SUBSET Tag
    PROVE  LET t == [s EXCEPT !.tags[c] = ts]
           IN  Well(t) /\ Keeps(s, t) /\ t.selmon = s.selmon
<1> DEFINE t == [s EXCEPT !.tags[c] = ts]
<1>1. /\ t \in State /\ t.clients = s.clients /\ t.stack = s.stack
      /\ t.selmon = s.selmon /\ t.n_monitors = s.n_monitors
      /\ t.mon = s.mon /\ t.tagset = s.tagset /\ t.alttagset = s.alttagset
  BY DEF Well, Core, State
<1> HIDE DEF t
<1>2. Well(t) /\ Keeps(s, t)
  BY <1>1, ChangeFacts DEF Well, Core
<1> QED
  BY <1>1, <1>2 DEF t

\* A client may be given to any existing monitor.
LEMMA ReownFacts ==
    ASSUME NEW s, Well(s), NEW c \in Client, NEW m \in Mon(s) \cup {1}
    PROVE  LET t == [s EXCEPT !.mon[c] = m]
           IN  Well(t) /\ Keeps(s, t) /\ t.selmon = s.selmon
<1> DEFINE t == [s EXCEPT !.mon[c] = m]
<1>1. m \in Slot
  BY MonFacts, MonitorsAssumption DEF Well, Core, Slot
<1>2. /\ t \in State /\ t.clients = s.clients /\ t.stack = s.stack
      /\ t.selmon = s.selmon /\ t.n_monitors = s.n_monitors
      /\ t.mon = [s.mon EXCEPT ![c] = m]
      /\ t.tagset = s.tagset /\ t.alttagset = s.alttagset
  BY <1>1 DEF Well, Core, State
<1>3. \A d \in Client : t.mon[d] \in Mon(s) \cup {1}
  BY <1>2 DEF Well, Core, State
<1> HIDE DEF t
<1>4. Well(t) /\ Keeps(s, t)
  BY <1>2, <1>3, ChangeFacts DEF Well, Core
<1> QED
  BY <1>2, <1>4 DEF t

\* Hiding or showing a client touches no list, view or selection.
LEMMA HiddenFacts ==
    ASSUME NEW s, Well(s), NEW c \in Client, NEW b \in BOOLEAN
    PROVE  LET t == [s EXCEPT !.ishidden[c] = b] IN Well(t) /\ Keeps(s, t)
<1> DEFINE t == [s EXCEPT !.ishidden[c] = b]
<1>1. /\ t \in State /\ t.clients = s.clients /\ t.stack = s.stack
      /\ t.selmon = s.selmon /\ t.n_monitors = s.n_monitors
      /\ t.mon = s.mon /\ t.tagset = s.tagset /\ t.alttagset = s.alttagset
  BY DEF Well, Core, State
<1> HIDE DEF t
<1>2. Well(t) /\ Keeps(s, t)
  BY <1>1, ChangeFacts DEF Well, Core
<1> QED
  BY <1>2 DEF t

\* tag() keeps the state well-formed and the focus on the selection.
LEMMA TagFacts ==
    ASSUME NEW s, Well(s), Focused(s), NEW ui \in SUBSET Tag
    PROVE  Done(s, tag(s, ui))
<1> DEFINE n == s.selmon
           c == s.sel[n]
           others == Showing(s, n, ui)
           retagged == [s EXCEPT !.tags[c] = ui]
           moved == [retagged EXCEPT !.mon[c] = Min(others)]
<1>1. c \in Managed(s) \cup {NoClient} /\ Managed(s) \subseteq Client
  BY SelectedFacts, ToSetFacts DEF SelectedClient, Well, Core, State, Managed
<1>2. CASE c = NoClient \/ (others # {} /\ ui \cap s.tagset[n] # {})
  BY <1>2, DoneFacts DEF tag
<1>3. CASE ~(c = NoClient \/ (others # {} /\ ui \cap s.tagset[n] # {}))
  <2>1. c \in Client
    BY <1>1, <1>3
  <2> HIDE DEF c
  <2>2. Well(retagged) /\ Keeps(s, retagged)
    BY <2>1, RetagFacts
  <2>3. CASE others = {}
    <3>1. tag(s, ui) = focus(retagged, NoClient)
      BY <1>3, <2>3 DEF tag, c
    <3> HIDE DEF retagged
    <3> QED
      BY <3>1, <2>2, ThenFocus
  <2>4. CASE others # {}
    <3>1. tag(s, ui) = focus(moved, NoClient)
      BY <1>3, <2>4 DEF tag, c
    <3>2. Min(others) \in Mon(s)
      BY <2>4, ShowingFacts
    <3> HIDE DEF retagged, others
    <3>3. Min(others) \in Mon(retagged) \cup {1}
      BY <3>2, <2>2 DEF Keeps, Mon
    <3>4. Well(moved) /\ Keeps(retagged, moved)
      BY <2>1, <2>2, <3>3, ReownFacts
    <3> HIDE DEF moved
    <3> QED
      BY <3>1, <3>4, <2>2, ThenFocus DEF Keeps
  <2> QED
    BY <2>3, <2>4
<1> QED
  BY <1>2, <1>3

\* toggletag() keeps the state well-formed and the focus on the selection.
LEMMA ToggletagFacts ==
    ASSUME NEW s, Well(s), Focused(s), NEW ui \in SUBSET Tag
    PROVE  Done(s, toggletag(s, ui))
<1> DEFINE c == SelectedClient(s)
           newtags == SymDiff(s.tags[c], ui)
           t == [s EXCEPT !.tags[c] = newtags]
<1>1. c \in Managed(s) \cup {NoClient} /\ Managed(s) \subseteq Client
  BY SelectedFacts, ToSetFacts DEF Well, Core, State, Managed
<1>2. CASE c = NoClient \/ newtags = {}
  BY <1>2, DoneFacts DEF toggletag
<1>3. CASE ~(c = NoClient \/ newtags = {})
  <2>1. c \in Client
    BY <1>1, <1>3
  <2>2. newtags \in SUBSET Tag
    BY <2>1 DEF Well, Core, State, SymDiff
  <2>3. toggletag(s, ui) = focus(t, NoClient)
    BY <1>3 DEF toggletag
  <2> HIDE DEF c, newtags
  <2>4. Well(t) /\ Keeps(s, t)
    BY <2>1, <2>2, RetagFacts
  <2> HIDE DEF t
  <2> QED
    BY <2>3, <2>4, ThenFocus
<1> QED
  BY <1>2, <1>3

\* dirtomon() stays among the monitors there are.
LEMMA DirtomonFacts ==
    ASSUME NEW s, Well(s), NEW dir \in Dir, s.n_monitors > 1
    PROVE  dirtomon(s, dir) \in Mon(s)
<1>1. s.n_monitors \in Nat /\ s.selmon \in 1..s.n_monitors
  BY MonitorsAssumption DEF Well, Core, State, Mon
<1>2. (s.selmon % s.n_monitors) \in 0..(s.n_monitors - 1)
  BY <1>1
<1> QED
  BY <1>1, <1>2 DEF dirtomon, Dir, Mon

-----------------------------------------------------------------------------
(***************************************************************************)
(* Moving, hiding and cycling.                                             *)
(***************************************************************************)

\* A client gets its owner and tags.
Placed(s, c, m, ts) == [s EXCEPT !.mon[c] = m, !.tags[c] = ts]

\* Writing the owner and the tags of one client touches nothing else.
LEMMA PlaceFacts ==
    ASSUME NEW s, NEW A, NEW B, Core(s), Lists(s, A, B),
           NEW c \in Client, NEW m \in Mon(s) \cup {1}, NEW ts \in SUBSET Tag
    PROVE  LET t == Placed(s, c, m, ts)
           IN  Core(t) /\ Lists(t, A, B) /\ t.n_monitors = s.n_monitors
<1> DEFINE t == Placed(s, c, m, ts)
<1>1. m \in Slot
  BY MonFacts, MonitorsAssumption DEF Core, Slot
<1>2. /\ t \in State /\ t.clients = s.clients /\ t.stack = s.stack
      /\ t.selmon = s.selmon /\ t.n_monitors = s.n_monitors
      /\ t.mon = [s.mon EXCEPT ![c] = m]
      /\ t.tagset = s.tagset /\ t.alttagset = s.alttagset
  BY <1>1 DEF Core, State, Placed
<1>3. \A d \in Client : t.mon[d] \in Mon(s) \cup {1}
  BY <1>2 DEF Core, State
<1> HIDE DEF t
<1> QED
  BY <1>2, <1>3 DEF Core, Lists, Mon, t

\* sendmon() takes its client out of both lists and puts it back in both.
LEMMA SendmonFacts ==
    ASSUME NEW s, Well(s), NEW c \in Managed(s), NEW m \in Mon(s)
    PROVE  Done(s, sendmon(s, c, m))
<1> DEFINE M   == Managed(s)
           s1  == unfocus(s, c)
           s2  == detach(s1, c)
           off == detachstack(s2, c)
           on  == [off EXCEPT !.mon[c] = m, !.tags[c] = s.tagset[m]]
           s3  == attach(on, c)
           s4  == attachstack(s3, c)
<1>1. /\ c \in Client /\ s.tagset[m] \in SUBSET Tag
      /\ (M \ {c}) \cup {c} = M /\ c \notin M \ {c}
  BY ToSetFacts, MonFacts DEF Well, Core, State, Managed
<1>2. CASE s.mon[c] = m
  BY <1>2, DoneFacts DEF sendmon
<1>3. CASE s.mon[c] # m
  <2>1. sendmon(s, c, m) = focus(s4, NoClient)
    BY <1>3 DEF sendmon
  <2>2. Core(s1) /\ Lists(s1, M, M) /\ s1.n_monitors = s.n_monitors
    BY UnfocusFacts DEF Well, Keeps
  <2> HIDE DEF s1
  <2>3. Core(s2) /\ Lists(s2, M \ {c}, M) /\ s2.n_monitors = s.n_monitors
    BY <2>2, DetachFacts
  <2> HIDE DEF s2
  <2>4. Core(off) /\ Lists(off, M \ {c}, M \ {c}) /\ off.n_monitors = s.n_monitors
    BY <2>3, DetachstackFacts
  <2>5. m \in Mon(off) \cup {1}
    BY <2>4 DEF Mon
  <2> HIDE DEF off
  <2>6. Core(on) /\ Lists(on, M \ {c}, M \ {c}) /\ on.n_monitors = s.n_monitors
    <3>1. on = Placed(off, c, m, s.tagset[m])
      BY DEF Placed
    <3> QED
      BY <1>1, <2>4, <2>5, <3>1, PlaceFacts
  <2> HIDE DEF on
  <2>7. Core(s3) /\ Lists(s3, M, M \ {c}) /\ s3.n_monitors = s.n_monitors
    BY <1>1, <2>6, AttachFacts
  <2> HIDE DEF s3
  <2>8. Core(s4) /\ Lists(s4, M, M) /\ s4.n_monitors = s.n_monitors
    BY <1>1, <2>7, AttachstackFacts
  <2> HIDE DEF s4
  <2>9. Well(s4) /\ Keeps(s, s4)
    BY <2>8 DEF Well, Lists, Managed, Keeps
  <2> QED
    BY <2>1, <2>9, ThenFocus
<1> QED
  BY <1>2, <1>3

\* hide() and show() end with focus() unless they return early.
LEMMA HideShowFacts ==
    ASSUME NEW s, Well(s), NEW c \in Managed(s)
    PROVE  Done(s, hide(s, c)) /\ Done(s, show(s, c))
<1> DEFINE h == [s EXCEPT !.ishidden[c] = TRUE]
           v == [s EXCEPT !.ishidden[c] = FALSE]
<1>1. c \in Client
  BY ToSetFacts DEF Well, Core, State, Managed
<1>2. Well(h) /\ Keeps(s, h) /\ Well(v) /\ Keeps(s, v)
  BY <1>1, HiddenFacts
<1>3. Done(s, focus(h, NoClient)) /\ Done(s, focus(v, c))
  <2> HIDE DEF h, v
  <2> QED
    BY <1>2, ThenFocus
<1> QED
  BY <1>3, DoneFacts DEF hide, show

\* Focusing in the state itself.
LEMMA JustFocus ==
    ASSUME NEW s, Well(s), NEW c \in Managed(s) \cup {NoClient}
    PROVE  Done(s, focus(s, c))
<1>1. Keeps(s, s)
  BY DEF Keeps
<1> QED
  BY <1>1, ThenFocus

\* Every outcome of a click on a tab keeps the state well-formed.
LEMMA FocuswinFacts ==
    ASSUME NEW s, Well(s), NEW c \in Managed(s), NEW t \in focuswin(s, c)
    PROVE  Done(s, t)
<1>1. t \in {show(s, c), hide(s, c), pop(s, c), focus(s, c), s}
  BY DEF focuswin
<1> QED
  BY <1>1, HideShowFacts, PopFacts, JustFocus, DoneFacts

\* The clients at the positions that VisibleAt gives are managed.
LEMMA VisibleAtFacts ==
    ASSUME NEW s, Well(s), NEW floating
    PROVE  /\ VisibleAt(s, floating) \in SUBSET (1..Len(s.clients))
           /\ Len(s.clients) \in Nat
           /\ \A i \in 1..Len(s.clients) : s.clients[i] \in Managed(s)
<1>1. s.clients \in Seq(Client)
  BY DEF Well, Core, State
<1>2. DOMAIN s.clients = 1..Len(s.clients) /\ Len(s.clients) \in Nat
  BY <1>1
<1> QED
  BY <1>2 DEF VisibleAt, Managed, ToSet

\* The position that focusstack() and its kin reach is one of those it may choose.
LEMMA CycleFacts ==
    ASSUME NEW s, Well(s), NEW dir \in Dir,
           NEW at \in SUBSET (1..Len(s.clients)), at # {}
    PROVE  Cycle(s, at, dir) \in at
<1> DEFINE i      == Position(s.clients, SelectedClient(s))
           after  == {j \in at : j > i}
           before == {j \in at : j < i}
<1>1. Len(s.clients) \in Nat
  BY VisibleAtFacts
<1>2. ASSUME NEW S \in SUBSET at, S # {} PROVE Min(S) \in at /\ Max(S) \in at
  <2>1. S \in SUBSET Nat /\ S \in SUBSET (1..Len(s.clients))
    BY <1>1
  <2> QED
    BY <1>1, <1>2, <2>1, MinFacts, MaxFacts
<1>3. after \in SUBSET at /\ before \in SUBSET at
  OBVIOUS
<1> HIDE DEF i
<1> QED
  BY <1>2, <1>3 DEF Cycle, i

\* zoom() keeps the state well-formed and the focus on the selection.
LEMMA ZoomFacts ==
    ASSUME NEW s, Well(s), Focused(s), NEW floating
    PROVE  Done(s, zoom(s, floating))
<1> DEFINE c     == SelectedClient(s)
           i     == Position(s.clients, c)
           tiled == VisibleAt(s, floating \cup {d \in Client : s.ishidden[d]})
           after == {j \in tiled : j > i}
<1>1. /\ tiled \in SUBSET (1..Len(s.clients)) /\ after \in SUBSET tiled
      /\ after \in SUBSET Nat
      /\ \A j \in tiled : s.clients[j] \in Managed(s)
  BY VisibleAtFacts
<1>2. after # {} => Done(s, pop(s, s.clients[Min(after)]))
  BY <1>1, MinFacts, PopFacts
<1>3. c # NoClient => Done(s, pop(s, c))
  BY SelectedFacts, PopFacts
<1> QED
  BY <1>2, <1>3, DoneFacts DEF zoom

\* togglescratch() keeps the state well-formed and the focus on the selection.
LEMMA TogglescratchFacts ==
    ASSUME NEW s, Well(s)
    PROVE  Done(s, togglescratch(s))
<1> DEFINE M  == Managed(s)
           at == {i \in DOMAIN s.clients : s.clients[i] \in Scratch}
           c  == s.clients[Min(at)]
           n  == s.selmon
           off == detachstack(s, c)
           on  == [off EXCEPT !.mon[c] = n]
           moved == IF s.mon[c] = n THEN s ELSE attachstack(on, c)
           away == [s EXCEPT !.tags[c] = {}]
           back == [moved EXCEPT !.tags[c] = s.tagset[n]]
<1>1. CASE at = {}
  BY <1>1, DoneFacts DEF togglescratch
<1>2. CASE at # {}
  <2>1. s.clients \in Seq(Client) /\ M \subseteq Client
    BY ToSetFacts DEF Well, Core, State, Managed
  <2>2. at \in SUBSET Nat
    BY <2>1
  <2>3. Min(at) \in at
    BY <1>2, <2>2, MinFacts
  <2>4. c \in M /\ c \in Client
    BY <2>1, <2>3 DEF Managed, ToSet
  <2>5. n \in Mon(s) \cup {1} /\ n \in Slot /\ s.tagset[n] \in SUBSET Tag
    BY DEF Well, Core, State
  <2>6. togglescratch(s) = focus(away, NoClient)
          \/ togglescratch(s) = focus(back, c)
    BY <1>2 DEF togglescratch
  <2> HIDE DEF c, n, at
  <2>7. Well(away) /\ Keeps(s, away)
    BY <2>4, RetagFacts
  <2>8. Well(moved) /\ Keeps(s, moved)
    <3>1. CASE s.mon[c] = n
      BY <3>1 DEF Keeps
    <3>2. CASE s.mon[c] # n
      <4>1. /\ Core(off) /\ Lists(off, M, M \ {c})
            /\ off.n_monitors = s.n_monitors
        BY <2>4, DetachstackFacts DEF Well
      <4>2. n \in Mon(off) \cup {1}
        BY <2>5, <4>1 DEF Mon
      <4> HIDE DEF off
      <4>3. /\ Core(on) /\ Lists(on, M, M \ {c})
            /\ on.n_monitors = s.n_monitors
        <5>1. on = Placed(off, c, n, off.tags[c])
          <6>1. off \in State
            BY <4>1 DEF Core
          <6> QED
            BY <2>4, <6>1 DEF State, Placed
        <5>2. off.tags[c] \in SUBSET Tag
          BY <2>4, <4>1 DEF Core, State
        <5> QED
          BY <2>4, <4>1, <4>2, <5>1, <5>2, PlaceFacts
      <4> HIDE DEF on
      <4>4. (M \ {c}) \cup {c} = M /\ c \notin M \ {c}
        BY <2>4
      <4>5. /\ Core(attachstack(on, c)) /\ Lists(attachstack(on, c), M, M)
            /\ attachstack(on, c).n_monitors = s.n_monitors
        BY <2>4, <4>3, <4>4, AttachstackFacts
      <4>6. moved = attachstack(on, c)
        BY <3>2
      <4> HIDE DEF moved
      <4> QED
        BY <4>5, <4>6 DEF Well, Lists, Managed, Keeps
    <3> QED
      BY <3>1, <3>2
  <2> HIDE DEF moved
  <2>9. Well(back) /\ Keeps(moved, back)
    BY <2>4, <2>5, <2>8, RetagFacts
  <2> HIDE DEF away, back
  <2>10. Done(s, focus(away, NoClient)) /\ Done(s, focus(back, c))
    BY <2>4, <2>7, <2>8, <2>9, ThenFocus DEF Keeps
  <2> QED
    BY <2>6, <2>10
<1> QED
  BY <1>1, <1>2

-----------------------------------------------------------------------------
(***************************************************************************)
(* Requests, windows that come and go, and outputs.                        *)
(***************************************************************************)

\* Selecting the monitor of a managed client selects an existing monitor.
LEMMA OwnerFacts ==
    ASSUME NEW s, Well(s), NEW c \in Managed(s)
    PROVE  /\ c \in Client /\ s.mon[c] \in Mon(s) \cup {1}
           /\ s.tags[c] \in SUBSET Tag
BY ToSetFacts DEF Well, Core, State, Managed

\* _NET_ACTIVE_WINDOW for a tagged client keeps the state well-formed.
LEMMA ActivateFacts ==
    ASSUME NEW s, Well(s), NEW c \in Managed(s), s.tags[c] # {}
    PROVE  Done(s, activate(s, c))
<1> DEFINE t == [s EXCEPT !.selmon = s.mon[c]]
           ui == {Min(s.tags[c])}
<1>1. Well(t) /\ Keeps(s, t)
  BY OwnerFacts, SelectFacts
<1>2. ui \in SUBSET Tag
  <2>1. s.tags[c] \in SUBSET Tag
    BY OwnerFacts
  <2>2. s.tags[c] \in SUBSET Nat
    BY <2>1, NumTagsAssumption DEF Tag
  <2>3. Min(s.tags[c]) \in s.tags[c]
    BY <2>2, MinFacts
  <2> QED
    BY <2>1, <2>3
<1>3. activate(s, c) = focus(view(t, ui), c)
  BY DEF activate
<1> HIDE DEF t, ui
<1>4. Well(view(t, ui)) /\ Keeps(t, view(t, ui))
  BY <1>1, <1>2, ViewFacts DEF Done
<1> QED
  BY <1>1, <1>3, <1>4, ThenFocus DEF Keeps

\* The choice of a client in the preview or in the switcher keeps the state
\* well-formed.
LEMMA PreviewFacts ==
    ASSUME NEW s, Well(s), NEW c \in Managed(s), NEW all
    PROVE  Done(s, preview_focus(s, c)) /\ Done(s, switcher_confirm(s, c, all))
<1> DEFINE t == [s EXCEPT !.selmon = s.mon[c]]
           ui == t.tags[c]
<1>1. Well(t) /\ Keeps(s, t)
  BY OwnerFacts, SelectFacts
<1>2. c \in Managed(t)
  BY <1>1 DEF Keeps
<1>3. Well(view(t, ui)) /\ Keeps(t, view(t, ui))
  <2> HIDE DEF t
  <2> QED
    BY <1>1, <1>2, OwnerFacts, ViewFacts DEF Done
<1>4. /\ Done(s, focus(t, c)) /\ Done(s, focus(view(t, ui), c))
      /\ Done(s, focus(s, c))
  <2> HIDE DEF t, ui
  <2> QED
    BY <1>1, <1>3, ThenFocus, JustFocus DEF Keeps
<1> QED
  BY <1>4 DEF preview_focus, switcher_confirm

\* The monitor a rule leads to exists.
LEMMA RuledmonFacts ==
    ASSUME NEW s \in State, s.selmon \in Mon(s) \cup {1}, NEW r
    PROVE  ruledmon(s, r) \in Mon(s) \cup {1}
<1> DEFINE showing_r == {m \in Mon(s) : s.tagset[m] \cap r # {}}
<1>1. CASE showing_r # {}
  <2>1. showing_r \in SUBSET Nat
    BY DEF Mon
  <2>2. Min(showing_r) \in showing_r /\ ruledmon(s, r) = Min(showing_r)
    BY <1>1, <2>1, MinFacts DEF ruledmon
  <2> QED
    BY <2>2
<1>2. CASE showing_r = {} /\ Mon(s) = {}
  BY <1>2 DEF ruledmon
<1>3. CASE showing_r = {} /\ Mon(s) # {}
  <2>1. ruledmon(s, r) = s.n_monitors /\ s.n_monitors \in Nat
    BY <1>3 DEF ruledmon, State
  <2> QED
    BY <1>3, <2>1 DEF Mon
<1> QED
  BY <1>1, <1>2, <1>3

\* A window is placed on a monitor that exists.
LEMMA PlacementsFacts ==
    ASSUME NEW s, Well(s), NEW c \in Client, NEW place \in placements(s, c)
    PROVE  place.mon \in Mon(s) \cup {1} /\ place.tags \in SUBSET Tag
<1>1. /\ s \in State /\ s.selmon \in Mon(s) \cup {1}
      /\ \A m \in Slot : s.tagset[m] \in SUBSET Tag
  BY DEF Well, Core, State
<1>2. ASSUME NEW r PROVE ruledmon(s, r) \in Mon(s) \cup {1}
  BY <1>1, RuledmonFacts
<1>3. Mon(s) \cup {1} \subseteq Slot
  BY <1>1, MonFacts, MonitorsAssumption DEF Slot
<1> DEFINE ruled(r) == [mon |-> ruledmon(s, r),
                        tags |-> IF c \in Scratch THEN {}
                                 ELSE IF r # {} THEN r
                                 ELSE s.tagset[ruledmon(s, r)]]
           fine(p) == p.mon \in Mon(s) \cup {1} /\ p.tags \in SUBSET Tag
<1>4. ASSUME NEW r \in SUBSET Tag PROVE fine(ruled(r))
  <2>1. ruledmon(s, r) \in Mon(s) \cup {1} /\ ruledmon(s, r) \in Slot
    BY <1>2, <1>3
  <2> QED
    BY <1>1, <2>1
<1>5. fine([mon |-> s.selmon, tags |-> s.tagset[s.selmon]])
  BY <1>1, <1>3
<1>6. ASSUME NEW d \in Managed(s) PROVE fine([mon |-> s.mon[d], tags |-> s.tags[d]])
  BY OwnerFacts
<1>7. \/ place = ruled({})
      \/ \E r \in RuleTags : place = ruled(r)
      \/ place = [mon |-> s.selmon, tags |-> s.tagset[s.selmon]]
      \/ \E d \in Managed(s) : place = [mon |-> s.mon[d], tags |-> s.tags[d]]
  BY DEF placements
<1>8. \A r \in RuleTags : r \in SUBSET Tag
  BY ConfigAssumption DEF Tag
<1>9. {} \in SUBSET Tag
  OBVIOUS
<1> HIDE DEF ruled
<1> QED
  BY <1>4, <1>5, <1>6, <1>7, <1>8, <1>9

\* manage() adds its client to both lists, on a monitor that exists.
LEMMA ManageFacts ==
    ASSUME NEW s, Well(s), NEW c \in Client, c \notin Managed(s),
           NEW place \in placements(s, c)
    PROVE  /\ Well(manage(s, c, place)) /\ Focused(manage(s, c, place))
           /\ manage(s, c, place).n_monitors = s.n_monitors
<1> DEFINE M == Managed(s)
           N == M \cup {c}
           s1 == Placed(s, c, place.mon, place.tags)
           s2 == attach(s1, c)
           s3 == attachstack(s2, c)
           s4 == [s3 EXCEPT !.sel[place.mon] = c]
           s5 == IF c \in Scratch THEN s3 ELSE s4
<1>1. place.mon \in Mon(s) \cup {1} /\ place.tags \in SUBSET Tag
  BY PlacementsFacts
<1>2. place.mon \in Slot
  BY <1>1, MonFacts, MonitorsAssumption DEF Well, Core, Slot
<1>3. manage(s, c, place) = focus(s5, NoClient)
  BY DEF manage, Placed
<1>4. Core(s1) /\ Lists(s1, M, M) /\ s1.n_monitors = s.n_monitors
  BY <1>1, PlaceFacts DEF Well
<1> HIDE DEF s1
<1>5. Core(s2) /\ Lists(s2, N, M) /\ s2.n_monitors = s.n_monitors
  BY <1>4, AttachFacts
<1> HIDE DEF s2
<1>6. Core(s3) /\ Lists(s3, N, N) /\ s3.n_monitors = s.n_monitors
  BY <1>5, AttachstackFacts
<1> HIDE DEF s3
<1>7. Core(s4) /\ Lists(s4, N, N) /\ s4.n_monitors = s.n_monitors
  <2>1. s4.n_monitors = s3.n_monitors
    BY <1>6 DEF Core, State
  <2> HIDE DEF s4
  <2> QED
    BY <2>1, <1>2, <1>6, SelFacts DEF s4
<1> HIDE DEF s4
<1>8. Core(s5) /\ Lists(s5, N, N) /\ s5.n_monitors = s.n_monitors
  BY <1>6, <1>7
<1> HIDE DEF s5
<1>9. Well(s5)
  BY <1>8 DEF Well, Lists, Managed
<1> QED
  BY <1>3, <1>8, <1>9, FocusFacts DEF Keeps

\* unmanage() takes its client out of both lists.
LEMMA UnmanageFacts ==
    ASSUME NEW s, Well(s), NEW c \in Managed(s)
    PROVE  /\ Well(unmanage(s, c)) /\ Focused(unmanage(s, c))
           /\ unmanage(s, c).n_monitors = s.n_monitors
<1> DEFINE M  == Managed(s)
           s1 == detach(s, c)
           s2 == detachstack(s1, c)
           s3 == Placed(s2, c, 1, {})
           s4 == [s3 EXCEPT !.ishidden[c] = FALSE]
<1>1. c \in Client
  BY OwnerFacts
<1>2. unmanage(s, c) = focus(s4, NoClient)
  BY DEF unmanage, Placed
<1>3. Core(s1) /\ Lists(s1, M \ {c}, M) /\ s1.n_monitors = s.n_monitors
  BY DetachFacts DEF Well
<1> HIDE DEF s1
<1>4. Core(s2) /\ Lists(s2, M \ {c}, M \ {c}) /\ s2.n_monitors = s.n_monitors
  BY <1>3, DetachstackFacts
<1> HIDE DEF s2
<1>5. Core(s3) /\ Lists(s3, M \ {c}, M \ {c}) /\ s3.n_monitors = s.n_monitors
  BY <1>1, <1>4, PlaceFacts
<1> HIDE DEF s3
<1>6. Well(s3)
  BY <1>5 DEF Well, Lists, Managed
<1>7. Well(s4) /\ Keeps(s3, s4)
  BY <1>1, <1>6, HiddenFacts
<1> HIDE DEF s4
<1> QED
  BY <1>2, <1>5, <1>7, FocusFacts DEF Keeps

\* createmon() gives every monitor, the new one included, a view that is not empty.
LEMMA CreatemonFacts ==
    ASSUME NEW s, Well(s), s.n_monitors < MaxMonitors
    PROVE  /\ Well(createmon(s))
           /\ createmon(s).n_monitors = s.n_monitors + 1
<1> DEFINE free == {t \in Tag : \A m \in Mon(s) : t \notin s.tagset[m]}
           n    == s.n_monitors + 1
           reassigned == [s EXCEPT
               !.tagset    = [m \in Slot |-> IF m \in Mon(s) THEN {m} ELSE @[m]],
               !.alttagset = [m \in Slot |->
                                IF m \in Mon(s) THEN s.tagset[m] ELSE @[m]]]
           t    == IF free # {} THEN s ELSE reassigned
           i    == IF free # {} THEN Min(free) ELSE n
           u    == createmon(s)
<1>1. s \in State /\ s.n_monitors \in Nat /\ n \in Slot /\ n \in Nat
  BY MonitorsAssumption DEF Well, Core, State, Slot
<1>2. Slot \subseteq Tag /\ Mon(s) \subseteq Slot
  BY <1>1, MonFacts, MonitorsAssumption, NumTagsAssumption DEF Slot, Tag
<1>3. i \in Tag
  <2>1. free \in SUBSET Nat
    BY NumTagsAssumption DEF Tag
  <2> QED
    BY <2>1, <1>1, <1>2, MinFacts
<1>4. /\ reassigned \in State
      /\ reassigned.clients = s.clients /\ reassigned.stack = s.stack
      /\ reassigned.mon = s.mon /\ reassigned.selmon = s.selmon
      /\ \A m \in Mon(s) : /\ reassigned.tagset[m] = {m}
                           /\ reassigned.alttagset[m] = s.tagset[m]
  <2>1. [m \in Slot |-> IF m \in Mon(s) THEN {m} ELSE s.tagset[m]]
          \in [Slot -> SUBSET Tag]
    BY <1>1, <1>2 DEF State
  <2>2. [m \in Slot |-> IF m \in Mon(s) THEN s.tagset[m] ELSE s.alttagset[m]]
          \in [Slot -> SUBSET Tag]
    BY <1>1, <1>2 DEF State
  <2> QED
    BY <1>1, <1>2, <2>1, <2>2 DEF State
<1>5. /\ t \in State /\ t.clients = s.clients /\ t.stack = s.stack
      /\ t.mon = s.mon /\ t.selmon = s.selmon
      /\ \A m \in Mon(s) : t.tagset[m] # {} /\ t.alttagset[m] # {}
  BY <1>1, <1>4 DEF Well, Core
<1>6. u = [t EXCEPT !.n_monitors = n, !.tagset[n] = {i}, !.alttagset[n] = {i},
                    !.sel[n] = NoClient]
  BY DEF createmon
<1> HIDE DEF t, i, u
<1>7. /\ u.clients = t.clients /\ u.stack = t.stack /\ u.mon = t.mon
      /\ u.selmon = t.selmon /\ u.n_monitors = n
      /\ u.tagset = [t.tagset EXCEPT ![n] = {i}]
      /\ u.alttagset = [t.alttagset EXCEPT ![n] = {i}]
  BY <1>5, <1>6 DEF State
<1>8. u \in State
  <2>1. n \in 0..MaxMonitors
    BY <1>1, MonitorsAssumption DEF Slot
  <2>2. {i} \in SUBSET Tag
    BY <1>3
  <2> QED
    BY <1>1, <1>5, <1>6, <2>1, <2>2 DEF State
<1>9. Mon(u) = Mon(s) \cup {n}
  BY <1>1, <1>7 DEF Mon
<1>10. \A m \in Mon(u) : u.tagset[m] # {} /\ u.alttagset[m] # {}
  <2> SUFFICES ASSUME NEW m \in Mon(u)
               PROVE  u.tagset[m] # {} /\ u.alttagset[m] # {}
    OBVIOUS
  <2>1. m \in Slot
    BY <1>1, <1>2, <1>9
  <2>2. CASE m = n
    BY <2>2, <2>1, <1>5, <1>7 DEF State
  <2>3. CASE m # n
    <3>1. u.tagset[m] = t.tagset[m] /\ u.alttagset[m] = t.alttagset[m]
      BY <2>3, <2>1, <1>5, <1>7 DEF State
    <3> QED
      BY <2>3, <3>1, <1>5, <1>9
  <2> QED
    BY <2>2, <2>3
<1>11. Core(u)
  BY <1>5, <1>7, <1>8, <1>9, <1>10 DEF Core, Well
<1> QED
  BY <1>5, <1>7, <1>11 DEF Well, Lists, Managed, u

\* The heir of the clients of the last monitor outlives it.
LEMMA RemovemonFacts ==
    ASSUME NEW s, Well(s), s.n_monitors > 0
    PROVE  /\ Well(removemon(s))
           /\ removemon(s).n_monitors = s.n_monitors - 1
<1> DEFINE dying == s.n_monitors
           heir  == IF s.selmon = dying THEN 1 ELSE s.selmon
           t     == removemon(s)
<1>1. /\ s \in State /\ dying \in Nat /\ dying - 1 \in Nat
      /\ dying - 1 \in 0..MaxMonitors
  BY MonitorsAssumption DEF Well, Core, State
<1>2. heir \in (1..(dying - 1)) \cup {1} /\ heir \in Slot
  BY <1>1, MonitorsAssumption DEF Well, Core, Mon, State, Slot
<1>3. [c \in Client |-> IF s.mon[c] = dying THEN heir ELSE s.mon[c]]
        \in [Client -> Slot]
  BY <1>1, <1>2 DEF State
<1>4. /\ t \in State /\ t.clients = s.clients /\ t.stack = s.stack
      /\ t.selmon = heir /\ t.n_monitors = dying - 1
      /\ t.mon = [c \in Client |-> IF s.mon[c] = dying THEN heir ELSE s.mon[c]]
      /\ t.tagset = s.tagset /\ t.alttagset = s.alttagset
  BY <1>1, <1>2, <1>3 DEF removemon, State
<1> HIDE DEF t
<1>5. Mon(t) = 1..(dying - 1) /\ Mon(t) \subseteq Mon(s)
  BY <1>1, <1>4 DEF Mon
<1>6. ASSUME NEW c \in Client PROVE t.mon[c] \in Mon(t) \cup {1}
  <2>1. s.mon[c] \in (1..dying) \cup {1}
    BY DEF Well, Core, Mon
  <2> QED
    BY <2>1, <1>1, <1>2, <1>4, <1>5
<1>7. Core(t)
  BY <1>2, <1>4, <1>5, <1>6 DEF Core, Well
<1> QED
  BY <1>4, <1>7 DEF Well, Lists, Managed, t

\* Clearing the slots no monitor uses keeps the state well-formed.
LEMMA ForgetFacts ==
    ASSUME NEW s, Well(s)
    PROVE  Well(forget(s)) /\ Keeps(s, forget(s))
<1> DEFINE t == forget(s)
           live == Mon(s) \cup {1}
<1>1. s \in State /\ Mon(s) \subseteq Slot
  BY MonFacts DEF Well, Core
<1>2. /\ [m \in Slot |-> IF m \in live THEN s.tagset[m] ELSE {}] \in [Slot -> SUBSET Tag]
      /\ [m \in Slot |-> IF m \in live THEN s.alttagset[m] ELSE {}] \in [Slot -> SUBSET Tag]
      /\ [m \in Slot |-> IF m \in live THEN s.sel[m] ELSE NoClient]
           \in [Slot -> Client \cup {NoClient}]
  <2> HIDE DEF live
  <2> QED
    BY <1>1 DEF State
<1>3. /\ t \in State /\ t.clients = s.clients /\ t.stack = s.stack
      /\ t.selmon = s.selmon /\ t.n_monitors = s.n_monitors
      /\ t.mon = s.mon
      /\ t.tagset = [m \in Slot |-> IF m \in live THEN s.tagset[m] ELSE {}]
      /\ t.alttagset = [m \in Slot |-> IF m \in live THEN s.alttagset[m] ELSE {}]
  BY <1>1, <1>2 DEF forget, State
<1> HIDE DEF t
<1>4. \A m \in Mon(s) : t.tagset[m] # {} /\ t.alttagset[m] # {}
  BY <1>1, <1>3 DEF Well, Core
<1>5. Well(t) /\ Keeps(s, t)
  BY <1>3, <1>4, ChangeFacts DEF Well, Core
<1> QED
  BY <1>5 DEF t

-----------------------------------------------------------------------------
(***************************************************************************)
(* The inductive invariant.                                                *)
(***************************************************************************)

\* Between handlers the state is well-formed and focused, no more outputs are
\* off than may be, and the loop of showall() has only managed clients left to
\* visit.
IInv == /\ Well(g_awm) /\ Focused(g_awm)
        /\ g_awm.n_monitors >= MinMonitors
        /\ showing \in [todo : Seq(Client), tagset : SUBSET Tag]
        /\ ToSet(showing.todo) \subseteq Managed(g_awm)

\* The empty list.
LEMMA EmptyFacts == /\ << >> \in Seq(Client) /\ ToSet(<< >>) = {}
                    /\ IsInjective(<< >>)
<1>1. << >> \in Seq(Client)
  OBVIOUS
<1>2. ToSet(<< >>) = {}
  BY <1>1, ToSetFacts
<1>3. IsInjective(<< >>)
  BY DEF IsInjective
<1> QED
  BY <1>1, <1>2, <1>3

\* The state that setup() leaves satisfies the inductive invariant.
LEMMA InitInvariant == Init => IInv
<1> SUFFICES ASSUME Init PROVE IInv
  OBVIOUS
<1>1. PICK n \in (MinMonitors..MaxMonitors) \ {0} : \E m \in 1..n :
        g_awm = [InitialState(n) EXCEPT !.selmon = m]
  BY DEF Init
<1>2. PICK m \in 1..n : g_awm = [InitialState(n) EXCEPT !.selmon = m]
  BY <1>1
<1>3. n \in 1..MaxMonitors /\ m \in Slot
  BY MonitorsAssumption DEF Slot
<1>4. Slot \subseteq Tag
  BY MonitorsAssumption, NumTagsAssumption DEF Slot, Tag
<1> DEFINE shown == [k \in Slot |-> IF k <= n THEN {k} ELSE {}]
<1>5. shown \in [Slot -> SUBSET Tag]
  BY <1>4
<1>6. g_awm = [clients    |-> << >>, stack |-> << >>,
               mon        |-> [c \in Client |-> 1],
               tags       |-> [c \in Client |-> {}],
               ishidden   |-> [c \in Client |-> FALSE],
               n_monitors |-> n, selmon |-> m,
               tagset     |-> shown, alttagset  |-> shown,
               sel        |-> [k \in Slot |-> NoClient],
               active     |-> NoClient]
  BY <1>2 DEF InitialState
<1> HIDE DEF shown
<1>7. 1 \in Slot
  BY MonitorsAssumption DEF Slot
<1>8. g_awm \in State
  BY <1>3, <1>5, <1>6, <1>7, EmptyFacts DEF State
<1>9. Mon(g_awm) = 1..n /\ 1..n \subseteq Slot
  BY <1>3, <1>6, MonitorsAssumption DEF Mon, Slot
<1>10. \A k \in Mon(g_awm) : shown[k] # {}
  BY <1>9 DEF shown
<1>11. Core(g_awm)
  BY <1>6, <1>8, <1>9, <1>10 DEF Core
<1>12. Managed(g_awm) = {} /\ Lists(g_awm, {}, {})
  BY <1>6, EmptyFacts DEF Managed, Lists
<1>13. Focused(g_awm)
  BY <1>3, <1>6, <1>12 DEF Focused, SelectedClient
<1>14. /\ showing \in [todo : Seq(Client), tagset : SUBSET Tag]
       /\ ToSet(showing.todo) = {}
  BY EmptyFacts DEF Init, Idle
<1>15. g_awm.n_monitors >= MinMonitors
  BY <1>6, MonitorsAssumption
<1> QED
  BY <1>11, <1>12, <1>13, <1>14, <1>15 DEF IInv, Well

\* A handler that leaves a well-formed and focused state keeps the invariant,
\* and so does one that does nothing or ends in focus().
LEMMA HandlerInvariant ==
    ASSUME IInv, NEW STATE s, Handler(s), Well(s), Focused(s),
           s.n_monitors >= MinMonitors
    PROVE  IInv'
<1>1. g_awm' = s /\ showing' = showing /\ showing.todo = << >>
  BY DEF Handler
<1>2. ToSet(showing'.todo) = {}
  BY <1>1, EmptyFacts
<1> QED
  BY <1>1, <1>2 DEF IInv

\* A handler that keeps the state well-formed and ends with focus() (or keeps the
\* focus) preserves the inductive invariant.
LEMMA DoneInvariant ==
    ASSUME IInv, NEW STATE s, Handler(s), Done(g_awm, s)
    PROVE  IInv'
<1>1. Well(s) /\ Focused(s) /\ s.n_monitors >= MinMonitors
  BY DEF Done, Keeps, IInv
<1> QED
  BY <1>1, HandlerInvariant

\* movestack() exchanges two members of the list.
LEMMA SwapFacts ==
    ASSUME NEW q \in Seq(Client), IsInjective(q),
           NEW i \in 1..Len(q), NEW j \in 1..Len(q)
    PROVE  LET r == [q EXCEPT ![i] = q[j], ![j] = q[i]]
           IN  r \in Seq(Client) /\ IsInjective(r) /\ ToSet(r) = ToSet(q)
<1> DEFINE r == [q EXCEPT ![i] = q[j], ![j] = q[i]]
           f(k) == IF k = j THEN i ELSE IF k = i THEN j ELSE k
<1>1. DOMAIN q = 1..Len(q) /\ DOMAIN r = 1..Len(q)
  OBVIOUS
<1>2. \A k \in 1..Len(q) : f(k) \in 1..Len(q) /\ r[k] = q[f(k)] /\ f(f(k)) = k
  BY <1>1
<1>3. r \in Seq(Client) /\ Len(r) = Len(q)
  OBVIOUS
<1> HIDE DEF r, f
<1>4. IsInjective(r)
  BY <1>1, <1>2 DEF IsInjective
<1>5. ToSet(r) = ToSet(q)
  BY <1>1, <1>2 DEF ToSet
<1> QED
  BY <1>3, <1>4, <1>5 DEF r

\* movestack() preserves the inductive invariant: it exchanges two elements of the
\* client list and leaves the focus stack alone.
LEMMA MoveStackInvariant ==
    ASSUME IInv, NEW dir \in Dir, MoveStack(dir)
    PROVE  IInv'
<1> DEFINE q == g_awm.clients
           i == Position(q, SelectedClient(g_awm))
<1>1. PICK floating \in SUBSET Managed(g_awm) :
        LET at == VisibleAt(g_awm, floating)
            j  == Cycle(g_awm, at, dir)
        IN  at # {} /\ Handler([g_awm EXCEPT !.clients =
                                  [q EXCEPT ![i] = q[j], ![j] = q[i]]])
  BY DEF MoveStack
<1> DEFINE j == Cycle(g_awm, VisibleAt(g_awm, floating), dir)
           r == [q EXCEPT ![i] = q[j], ![j] = q[i]]
           s == [g_awm EXCEPT !.clients = r]
<1>2. /\ Well(g_awm) /\ Focused(g_awm) /\ g_awm \in State
      /\ q \in Seq(Client) /\ IsInjective(q)
  BY DEF IInv, Well, Core, State, Lists
<1>3. SelectedClient(g_awm) \in ToSet(q)
  BY <1>2, SelectedFacts DEF MoveStack, Managed
<1>4. i \in 1..Len(q) /\ j \in 1..Len(q)
  BY <1>1, <1>2, <1>3, PositionFacts, VisibleAtFacts, CycleFacts
<1>5. Handler(s)
  BY <1>1
<1> HIDE DEF i, j
<1>6. r \in Seq(Client) /\ IsInjective(r) /\ ToSet(r) = ToSet(q)
  BY <1>2, <1>4, SwapFacts
<1> HIDE DEF r
<1>7. /\ s \in State /\ s.clients = r /\ s.stack = g_awm.stack
      /\ s.selmon = g_awm.selmon /\ s.n_monitors = g_awm.n_monitors
      /\ s.mon = g_awm.mon /\ s.tags = g_awm.tags /\ s.sel = g_awm.sel
      /\ s.tagset = g_awm.tagset /\ s.alttagset = g_awm.alttagset
      /\ s.active = g_awm.active
  BY <1>2, <1>6 DEF State
<1> HIDE DEF s
<1>8. Managed(s) = Managed(g_awm) /\ Mon(s) = Mon(g_awm)
  BY <1>6, <1>7 DEF Managed, Mon
<1>9. Well(s)
  BY <1>2, <1>6, <1>7, <1>8 DEF Well, Core, Lists, Managed
<1>10. Focused(s)
  BY <1>2, <1>7, <1>8 DEF Focused, SelectedClient, ISVISIBLE
<1>11. s.n_monitors >= MinMonitors
  BY <1>7 DEF IInv
<1> QED
  BY <1>5, <1>9, <1>10, <1>11, HandlerInvariant

\* Each turn of the loop of showall() preserves the inductive invariant.
LEMMA ShowAllInvariant ==
    ASSUME IInv, ShowAllBegin \/ ShowAllStep
    PROVE  IInv'
<1>1. /\ Well(g_awm) /\ g_awm.clients \in Seq(Client)
      /\ showing.todo \in Seq(Client)
  BY DEF IInv, Well, Core, State
<1>2. CASE ShowAllBegin
  <2>1. g_awm.tagset[g_awm.selmon] \in SUBSET Tag
    BY <1>1 DEF Well, Core, State
  <2>2. showing'.todo = g_awm.clients /\ g_awm' = g_awm
        /\ showing' \in [todo : Seq(Client), tagset : SUBSET Tag]
    BY <1>1, <1>2, <2>1 DEF ShowAllBegin
  <2> QED
    BY <2>2 DEF IInv, Managed
<1>3. CASE ShowAllStep
  <2> DEFINE c == Head(showing.todo)
             rest == Tail(showing.todo)
  <2>1. showing.todo # << >>
    BY <1>3 DEF ShowAllStep
  <2>2. /\ rest \in Seq(Client) /\ 1 \in 1..Len(showing.todo)
        /\ c = showing.todo[1]
        /\ Len(rest) = Len(showing.todo) - 1
        /\ \A i \in 1..Len(rest) : rest[i] = showing.todo[i + 1]
    BY <1>1, <2>1
  <2>3. c \in Managed(g_awm)
    BY <1>1, <2>2, ToSetFacts DEF IInv
  <2>4. ToSet(rest) \subseteq Managed(g_awm)
    <3>1. ASSUME NEW i \in 1..Len(rest)
          PROVE  rest[i] \in ToSet(showing.todo)
      <4>1. i + 1 \in 1..Len(showing.todo) /\ rest[i] = showing.todo[i + 1]
        BY <2>2
      <4> QED
        BY <1>1, <4>1, ToSetFacts
    <3>2. ToSet(rest) = {rest[i] : i \in 1..Len(rest)}
      BY <2>2, ToSetFacts
    <3> HIDE DEF rest
    <3> QED
      BY <3>1, <3>2 DEF IInv
  <2>5. Done(g_awm, g_awm')
    <3>1. g_awm' = show(g_awm, c) \/ g_awm' = g_awm
      BY <1>3 DEF ShowAllStep
    <3> QED
      BY <1>1, <2>3, <3>1, HideShowFacts, DoneFacts
  <2>6. /\ Well(g_awm') /\ Focused(g_awm') /\ Managed(g_awm') = Managed(g_awm)
        /\ g_awm'.n_monitors >= MinMonitors
    BY <2>5 DEF Done, Keeps, IInv
  <2> HIDE DEF c, rest
  <2>7. /\ showing' \in [todo : Seq(Client), tagset : SUBSET Tag]
        /\ ToSet(showing'.todo) \subseteq Managed(g_awm)
    <3>1. showing' = Idle \/ showing' = [showing EXCEPT !.todo = rest]
      BY <1>3 DEF ShowAllStep, rest
    <3>2. CASE showing' = Idle
      BY <3>2, EmptyFacts DEF Idle
    <3>3. CASE showing' = [showing EXCEPT !.todo = rest]
      BY <3>3, <2>2, <2>4 DEF IInv
    <3> QED
      BY <3>1, <3>2, <3>3
  <2> QED
    BY <2>6, <2>7 DEF IInv
<1> QED
  BY <1>2, <1>3

\* The press on a client selects it, or its drop on another monitor sends it
\* there.
LEMMA ClickmonFacts ==
    ASSUME NEW s, Well(s), NEW m \in Mon(s) \cup {1}
    PROVE  Done(s, clickmon(s, m))
BY SelectmonFacts, DoneFacts DEF clickmon

\* A press on a window, with or without a drop on another monitor, preserves the
\* inductive invariant.
LEMMA ClickClientInvariant ==
    ASSUME IInv, NEW c \in Client, ClickClient(c)
    PROVE  IInv'
<1> DEFINE t == clickmon(g_awm, g_awm.mon[c])
           s == focus(t, c)
           d == SelectedClient(s)
           sent(m) == sendmon(s, d, m)
           over(m) == [sent(m) EXCEPT !.selmon = m]
<1>1. Well(g_awm) /\ Focused(g_awm) /\ c \in Managed(g_awm)
  BY DEF IInv, ClickClient
<1>2. Well(t) /\ Keeps(g_awm, t)
  BY <1>1, OwnerFacts, ClickmonFacts, DoneFacts
<1>3. Done(g_awm, s) /\ Well(s) /\ Focused(s)
  <2> HIDE DEF t
  <2>1. c \in Managed(t) \cup {NoClient}
    BY <1>1, <1>2 DEF Keeps
  <2> QED
    BY <1>1, <1>2, <2>1, ThenFocus, FocusFacts
<1>4. \/ Handler(s)
      \/ d # NoClient /\ \E m \in Mon(s) \ {s.selmon} : Handler(focus(over(m), NoClient))
  BY DEF ClickClient
<1> HIDE DEF s
<1>5. CASE Handler(s)
  BY <1>3, <1>5, DoneInvariant
<1>6. CASE d # NoClient /\ \E m \in Mon(s) \ {s.selmon} : Handler(focus(over(m), NoClient))
  <2>1. PICK m \in Mon(s) : Handler(focus(over(m), NoClient))
    BY <1>6
  <2>2. d \in Managed(s)
    BY <1>3, <1>6, SelectedFacts
  <2> HIDE DEF d
  <2>3. Well(sent(m)) /\ Keeps(s, sent(m))
    BY <1>3, <2>2, SendmonFacts DEF Done
  <2>4. m \in Mon(sent(m)) \cup {1}
    BY <2>3 DEF Keeps, Mon
  <2> HIDE DEF sent
  <2>5. Well(over(m)) /\ Keeps(sent(m), over(m))
    BY <2>3, <2>4, SelectFacts
  <2> HIDE DEF over
  <2>6. Keeps(g_awm, over(m))
    BY <1>3, <2>3, <2>5 DEF Done, Keeps
  <2>7. Done(g_awm, focus(over(m), NoClient))
    BY <2>5, <2>6, ThenFocus
  <2> QED
    BY <2>1, <2>7, DoneInvariant
<1> QED
  BY <1>4, <1>5, <1>6

\* A press on a tag of a bar preserves the inductive invariant.
LEMMA ClickTagInvariant ==
    ASSUME IInv, NEW m \in Slot, NEW ts \in SingleTags, ClickTag(m, ts)
    PROVE  IInv'
<1> DEFINE s == clickmon(g_awm, m)
<1>1. Well(g_awm) /\ Focused(g_awm) /\ m \in Mon(g_awm)
  BY DEF IInv, ClickTag
<1>2. Done(g_awm, s) /\ Well(s) /\ Focused(s)
  BY <1>1, ClickmonFacts DEF Done
<1>3. \E t \in {view(s, ts), toggleview(s, ts), tag(s, ts), toggletag(s, ts)} :
        Handler(t)
  BY DEF ClickTag
<1> HIDE DEF s
<1>4. ts \in SUBSET Tag
  BY DEF SingleTags
<1>5. /\ Done(s, view(s, ts)) /\ Done(s, toggleview(s, ts))
      /\ Done(s, tag(s, ts)) /\ Done(s, toggletag(s, ts))
  BY <1>2, <1>4, ViewFacts, ToggleviewFacts, TagFacts, ToggletagFacts
<1>6. PICK t \in {view(s, ts), toggleview(s, ts), tag(s, ts), toggletag(s, ts)} :
        Handler(t)
  BY <1>3
<1>7. Done(g_awm, t)
  BY <1>1, <1>2, <1>5, <1>6, DoneFacts
<1> QED
  BY <1>6, <1>7, DoneInvariant

\* A press on a tab of a bar preserves the inductive invariant.
LEMMA ClickTitleInvariant ==
    ASSUME IInv, NEW m \in Slot, NEW c \in Client, ClickTitle(m, c)
    PROVE  IInv'
<1> DEFINE s == clickmon(g_awm, m)
<1>1. /\ Well(g_awm) /\ Focused(g_awm) /\ m \in Mon(g_awm)
      /\ c \in Managed(g_awm)
  BY DEF IInv, ClickTitle
<1>2. Done(g_awm, s) /\ Well(s) /\ Focused(s)
  BY <1>1, ClickmonFacts DEF Done
<1>3. \/ \E t \in focuswin(s, c) : Handler(t)
      \/ \E floating \in SUBSET Managed(s) : Handler(zoom(s, floating))
  BY DEF ClickTitle
<1> HIDE DEF s
<1>4. c \in Managed(s)
  BY <1>1, <1>2 DEF Done, Keeps
<1>5. CASE \E t \in focuswin(s, c) : Handler(t)
  <2>1. PICK t \in focuswin(s, c) : Handler(t)
    BY <1>5
  <2>2. Done(g_awm, t)
    BY <1>1, <1>2, <1>4, FocuswinFacts, DoneFacts
  <2> QED
    BY <2>1, <2>2, DoneInvariant
<1>6. CASE \E floating \in SUBSET Managed(s) : Handler(zoom(s, floating))
  <2>1. PICK floating \in SUBSET Managed(s) : Handler(zoom(s, floating))
    BY <1>6
  <2>2. Done(g_awm, zoom(s, floating))
    BY <1>1, <1>2, ZoomFacts, DoneFacts
  <2> QED
    BY <2>1, <2>2, DoneInvariant
<1> QED
  BY <1>3, <1>5, <1>6

\* An output that comes or goes preserves the inductive invariant.
LEMMA HotplugInvariant ==
    ASSUME IInv, NEW m \in Slot, PlugOutput(m) \/ UnplugOutput(m)
    PROVE  IInv'
<1>1. /\ Well(g_awm) /\ g_awm.n_monitors \in Nat /\ MinMonitors \in Nat
      /\ g_awm.n_monitors >= MinMonitors
  <2>1. Well(g_awm) /\ g_awm \in State /\ g_awm.n_monitors >= MinMonitors
    BY DEF IInv, Well, Core
  <2> QED
    BY <2>1, MonitorsAssumption DEF State
<1>2. CASE PlugOutput(m)
  <2> DEFINE t == createmon(g_awm)
             s == [t EXCEPT !.selmon = m]
  <2>1. Well(t) /\ t.n_monitors = g_awm.n_monitors + 1
    BY <1>1, <1>2, CreatemonFacts DEF PlugOutput
  <2>2. m \in Mon(t) \cup {1}
    BY <1>2, <2>1 DEF PlugOutput, Mon
  <2>3. Handler(focus(s, NoClient))
    BY <1>2 DEF PlugOutput
  <2> HIDE DEF t
  <2>4. Well(s) /\ s.n_monitors = g_awm.n_monitors + 1
    BY <2>1, <2>2, SelectFacts DEF Keeps
  <2> HIDE DEF s
  <2>5. /\ Well(focus(s, NoClient)) /\ Focused(focus(s, NoClient))
        /\ focus(s, NoClient).n_monitors >= MinMonitors
    BY <1>1, <2>4, FocusFacts DEF Keeps
  <2> QED
    BY <2>3, <2>5, HandlerInvariant
<1>3. CASE UnplugOutput(m)
  <2> DEFINE t == removemon(g_awm)
             u == forget(t)
             s == [u EXCEPT !.selmon = m]
  <2>1. g_awm.n_monitors > 0 /\ g_awm.n_monitors > MinMonitors
    BY <1>1, <1>3 DEF UnplugOutput
  <2>2. Well(t) /\ t.n_monitors = g_awm.n_monitors - 1
    BY <1>1, <2>1, RemovemonFacts
  <2>3. Handler(focus(s, NoClient)) /\ m \in 1..(g_awm.n_monitors - 1) \cup {1}
    BY <1>3 DEF UnplugOutput
  <2> HIDE DEF t
  <2>4. Well(u) /\ Keeps(t, u)
    BY <2>2, ForgetFacts
  <2>5. m \in Mon(u) \cup {1}
    BY <2>2, <2>3, <2>4 DEF Keeps, Mon
  <2> HIDE DEF u
  <2>6. Well(s) /\ s.n_monitors = g_awm.n_monitors - 1
    BY <2>2, <2>4, <2>5, SelectFacts DEF Keeps
  <2> HIDE DEF s
  <2>7. /\ Well(focus(s, NoClient)) /\ Focused(focus(s, NoClient))
        /\ focus(s, NoClient).n_monitors >= MinMonitors
    BY <1>1, <2>1, <2>6, FocusFacts DEF Keeps
  <2> QED
    BY <2>3, <2>7, HandlerInvariant
<1> QED
  BY <1>2, <1>3

\* Every step preserves the inductive invariant: one step of the proof per action.
LEMMA NextInvariant == IInv /\ [Next]_vars => IInv'
<1> SUFFICES ASSUME IInv, [Next]_vars PROVE IInv'
  OBVIOUS
<1> USE DoneInvariant
<1>1. Well(g_awm) /\ Focused(g_awm) /\ g_awm.n_monitors >= MinMonitors
  BY DEF IInv
<1>2. SelectedClient(g_awm) \in Managed(g_awm) \cup {NoClient}
  BY <1>1, SelectedFacts
<1>3. CASE UNCHANGED vars
  BY <1>3 DEF vars, IInv
<1>4. ASSUME NEW ui \in SingleTags, View(ui) \/ ToggleView(ui)
      PROVE  IInv'
  <2>1. Done(g_awm, view(g_awm, ui)) /\ Done(g_awm, toggleview(g_awm, ui))
    BY <1>1, ViewFacts, ToggleviewFacts DEF SingleTags
  <2> QED
    BY <1>4, <2>1 DEF View, ToggleView
<1>5. ASSUME NEW ui \in SingleTags, TagSelected(ui) \/ ToggleTag(ui)
      PROVE  IInv'
  <2>1. Done(g_awm, tag(g_awm, ui)) /\ Done(g_awm, toggletag(g_awm, ui))
    BY <1>1, TagFacts, ToggletagFacts DEF SingleTags
  <2> QED
    BY <1>5, <2>1 DEF TagSelected, ToggleTag
<1>6. CASE ViewAll \/ TagAll
  <2>1. Done(g_awm, view(g_awm, Tag)) /\ Done(g_awm, tag(g_awm, Tag))
    BY <1>1, ViewFacts, TagFacts
  <2> QED
    BY <1>6, <2>1 DEF ViewAll, TagAll
<1>7. ASSUME NEW dir \in Dir, FocusMon(dir)
      PROVE  IInv'
  <2> DEFINE t == [g_awm EXCEPT !.selmon = dirtomon(g_awm, dir)]
  <2>1. dirtomon(g_awm, dir) \in Mon(g_awm) \cup {1}
    BY <1>1, <1>7, DirtomonFacts DEF FocusMon
  <2>2. Well(t) /\ Keeps(g_awm, t)
    BY <1>1, <2>1, SelectFacts
  <2>3. Handler(focus(t, NoClient))
    BY <1>7 DEF FocusMon
  <2> HIDE DEF t
  <2>4. Done(g_awm, focus(t, NoClient))
    BY <2>2, ThenFocus
  <2> QED
    BY <2>3, <2>4
<1>8. ASSUME NEW dir \in Dir, TagMon(dir)
      PROVE  IInv'
  <2>1. dirtomon(g_awm, dir) \in Mon(g_awm)
    BY <1>1, <1>8, DirtomonFacts DEF TagMon
  <2>2. SelectedClient(g_awm) \in Managed(g_awm)
    BY <1>2, <1>8 DEF TagMon
  <2>3. Done(g_awm, sendmon(g_awm, SelectedClient(g_awm), dirtomon(g_awm, dir)))
    BY <1>1, <2>1, <2>2, SendmonFacts
  <2> QED
    BY <1>8, <2>3 DEF TagMon
<1>9. ASSUME NEW dir \in Dir, FocusStack(dir) \/ FocusStackHidden(dir)
      PROVE  IInv'
  <2> DEFINE at == VisibleAt(g_awm, {})
             c  == g_awm.clients[Cycle(g_awm, at, dir)]
  <2>1. at # {}
    BY <1>9 DEF FocusStack, FocusStackHidden
  <2>2. c \in Managed(g_awm)
    BY <1>1, <2>1, VisibleAtFacts, CycleFacts
  <2>3. Handler(focus(g_awm, c)) \/ Handler(show(g_awm, c))
    BY <1>9 DEF FocusStack, FocusStackHidden
  <2> HIDE DEF c
  <2>4. Done(g_awm, focus(g_awm, c)) /\ Done(g_awm, show(g_awm, c))
    BY <1>1, <2>2, JustFocus, HideShowFacts
  <2> QED
    BY <2>3, <2>4
<1>10. ASSUME NEW dir \in Dir, MoveStack(dir)
       PROVE  IInv'
  BY <1>10, MoveStackInvariant
<1>11. CASE Zoom
  <2>1. PICK floating \in SUBSET Managed(g_awm) : Handler(zoom(g_awm, floating))
    BY <1>11 DEF Zoom
  <2>2. Done(g_awm, zoom(g_awm, floating))
    BY <1>1, ZoomFacts
  <2> QED
    BY <2>1, <2>2
<1>12. CASE HideWin
  <2>1. Done(g_awm, hide(g_awm, SelectedClient(g_awm)))
    BY <1>1, <1>2, <1>12, HideShowFacts DEF HideWin
  <2> QED
    BY <1>12, <2>1 DEF HideWin
<1>13. CASE RestoreWin
  <2> DEFINE at == {i \in DOMAIN g_awm.stack : g_awm.ishidden[g_awm.stack[i]]}
             c  == g_awm.stack[Min(at)]
  <2>1. g_awm.stack \in Seq(Client) /\ ToSet(g_awm.stack) = Managed(g_awm)
    BY <1>1 DEF Well, Core, State, Lists
  <2>2. at \in SUBSET Nat /\ at # {} /\ Handler(show(g_awm, c))
    BY <1>13, <2>1 DEF RestoreWin
  <2>3. Min(at) \in at
    BY <2>2, MinFacts
  <2>4. c \in Managed(g_awm)
    BY <2>1, <2>3 DEF ToSet
  <2> HIDE DEF c
  <2>5. Done(g_awm, show(g_awm, c))
    BY <1>1, <2>4, HideShowFacts
  <2> QED
    BY <2>2, <2>5
<1>14. CASE ShowAllBegin \/ ShowAllStep
  BY <1>14, ShowAllInvariant
<1>15. CASE ToggleScratch
  BY <1>1, <1>15, TogglescratchFacts DEF ToggleScratch
<1>16. ASSUME NEW c \in Client, EnterClient(c)
       PROVE  IInv'
  BY <1>1, <1>16, EnternotifyFacts DEF EnterClient
<1>17. ASSUME NEW c \in Client, ClickClient(c)
       PROVE  IInv'
  BY <1>17, ClickClientInvariant
<1>18. ASSUME NEW c \in Client, MapRequest(c)
       PROVE  IInv'
  <2>1. PICK place \in placements(g_awm, c) : Handler(manage(g_awm, c, place))
    BY <1>18 DEF MapRequest
  <2>2. /\ Well(manage(g_awm, c, place)) /\ Focused(manage(g_awm, c, place))
        /\ manage(g_awm, c, place).n_monitors = g_awm.n_monitors
    BY <1>1, <1>18, ManageFacts DEF MapRequest
  <2> QED
    BY <1>1, <2>1, <2>2, HandlerInvariant
<1>19. ASSUME NEW c \in Client, Unmanage(c)
       PROVE  IInv'
  <2>1. /\ Well(unmanage(g_awm, c)) /\ Focused(unmanage(g_awm, c))
        /\ unmanage(g_awm, c).n_monitors = g_awm.n_monitors
    BY <1>1, <1>19, UnmanageFacts DEF Unmanage
  <2> QED
    BY <1>1, <1>19, <2>1, HandlerInvariant DEF Unmanage
<1>20. ASSUME NEW c \in Client, ActivateClient(c)
       PROVE  IInv'
  BY <1>1, <1>20, ActivateFacts DEF ActivateClient
<1>21. ASSUME NEW c \in Client, NEW all \in BOOLEAN,
              PreviewFocus(c) \/ SwitcherConfirm(c, all)
       PROVE  IInv'
  <2>1. c \in Managed(g_awm)
    BY <1>21 DEF PreviewFocus, SwitcherConfirm
  <2>2. Done(g_awm, preview_focus(g_awm, c))
          /\ Done(g_awm, switcher_confirm(g_awm, c, all))
    BY <1>1, <2>1, PreviewFacts
  <2> QED
    BY <1>21, <2>2 DEF PreviewFocus, SwitcherConfirm
<1>22. ASSUME NEW m \in Slot, EnterMonitor(m)
       PROVE  IInv'
  BY <1>1, <1>22, SelectmonFacts DEF EnterMonitor
<1>23. ASSUME NEW m \in Slot, PlugOutput(m) \/ UnplugOutput(m)
       PROVE  IInv'
  BY <1>23, HotplugInvariant
<1>24. ASSUME NEW m \in Slot, ClickBarLost(m)
       PROVE  IInv'
  BY <1>1, <1>24, ClickmonFacts DEF ClickBarLost
<1>25. ASSUME NEW m \in Slot, NEW ts \in SingleTags, ClickTag(m, ts)
       PROVE  IInv'
  BY <1>25, ClickTagInvariant
<1>26. ASSUME NEW m \in Slot, NEW c \in Client, ClickTitle(m, c)
       PROVE  IInv'
  BY <1>26, ClickTitleInvariant
<1> QED
  BY <1>3, <1>4, <1>5, <1>6, <1>7, <1>8, <1>9, <1>10, <1>11, <1>12, <1>13,
     <1>14, <1>15, <1>16, <1>17, <1>18, <1>19, <1>20, <1>21, <1>22, <1>23,
     <1>24, <1>25, <1>26 DEF Next

-----------------------------------------------------------------------------
(***************************************************************************)
(* The theorems.                                                           *)
(***************************************************************************)

\* The invariant holds in every reachable state.
THEOREM Invariant == Spec => []IInv
BY InitInvariant, NextInvariant, PTL DEF Spec

\* Every field keeps its type, whatever the windows, tags and monitors.
THEOREM TypeCorrect == Spec => []TypeOK
<1>1. IInv => TypeOK
  BY DEF IInv, Well, Core, TypeOK
<1> QED
  BY <1>1, Invariant, PTL

\* No handler loses a window from one of the two lists or links it twice.
THEOREM ListsAgreeAlways == Spec => []ListsAgree
<1>1. IInv => ListsAgree
  BY DEF IInv, Well, Lists, Managed, ListsAgree
<1> QED
  BY <1>1, Invariant, PTL

\* No monitor ever shows, or can flip back to, no tag at all.
THEOREM ViewsNonEmptyAlways == Spec => []ViewsNonEmpty
<1>1. IInv => ViewsNonEmpty
  BY DEF IInv, Well, Core, ViewsNonEmpty
<1> QED
  BY <1>1, Invariant, PTL

\* When a handler returns, the selected client is on the selected monitor, at
\* the head of the focus stack and focused; or nothing there could be focused.
THEOREM FocusFollowsSelectionAlways == Spec => []FocusFollowsSelection
<1>1. IInv => FocusFollowsSelection
  BY DEF IInv, Focused, FocusFollowsSelection
<1> QED
  BY <1>1, Invariant, PTL

\* While at least one output stays on, the selected monitor and the owner of
\* every managed window exist.
THEOREM OwnersLiveAlways == ASSUME MinMonitors >= 1
                            PROVE  Spec => []OwnersLive
<1>1. IInv => OwnersLive
  <2> SUFFICES ASSUME IInv PROVE OwnersLive
    OBVIOUS
  <2>1. g_awm \in State /\ Well(g_awm) /\ g_awm.n_monitors >= MinMonitors
    BY DEF IInv, Well, Core
  <2>2. g_awm.n_monitors \in Nat /\ g_awm.n_monitors >= 1
    BY <2>1, MonitorsAssumption DEF State
  <2>3. 1 \in Mon(g_awm)
    BY <2>2 DEF Mon
  <2> QED
    BY <2>1, <2>3, OwnerFacts DEF OwnersLive, Well, Core
<1> QED
  BY <1>1, Invariant, PTL

-----------------------------------------------------------------------------
(***************************************************************************)
(* Windows and views of one tag: what is shown where, and by whom.         *)
(***************************************************************************)

\* Outputs neither come nor go.
Steady == "hotplug" \notin Bindings
\* No binding toggles single tags of a view or a window, and no rule assigns
\* several.  The bindings that give a view or a window all tags are refused while
\* two monitors show something, and harmless if there is only ever one.
OneTagBindings ==
    /\ Bindings \cap {"toggleview", "toggletag"} = {}
    /\ RuleTags \subseteq SingleTags \cup {{}}
    /\ Bindings \cap {"viewall", "tagall"} # {} => Steady \/ MinMonitors >= 2
\* New windows are placed where the user looks, or are the scratchpad.
PlainPlacement == Placements \subseteq {"plain", "scratch"}

\* Every view is one tag, no two monitors show the same one, and a window has
\* one tag or (the scratchpad put away) none.
OneTag(s) ==
    /\ \A m \in Mon(s) \cup {1} :
         s.tagset[m] \in SingleTags /\ s.alttagset[m] \in SingleTags
    /\ \A m, n \in Mon(s) : m # n => s.tagset[m] # s.tagset[n]
    /\ \A c \in Managed(s) : s.tags[c] \in SingleTags \cup {{}}

\* VisibleIsOwned, of any state of windows and views of one tag.
Home(s) ==
    /\ Mon(s) # {}
    /\ \A c \in Managed(s), m \in Mon(s) : s.tags[c] = s.tagset[m] => s.mon[c] = m

\* Every monitor but k has selected a window it owns and shows, or none.
Chosen(s, k) == \A m \in Mon(s) \ {k} :
    LET c == s.sel[m]
    IN  c # NoClient =>
          c \in Managed(s) /\ s.mon[c] = m /\ s.tags[c] = s.tagset[m]

\* What holds of these under each set of bindings and placements; in the
\* middle of a handler the selection of monitor k may be out of date.
Neat(s, k) == /\ OneTag(s)
              /\ Steady => Home(s)
              /\ Steady /\ PlainPlacement => Chosen(s, k)
\* There is one monitor and there will be no other.
Lone(s) == Steady /\ s.n_monitors = 1
TidyBut(s, k) == Lone(s) \/ Neat(s, k)
Tidy(s) == TidyBut(s, 0)

\* t has the windows of s with their tags and owners, and the views of s.
Same(s, t) == /\ Managed(t) = Managed(s) /\ t.n_monitors = s.n_monitors
              /\ t.tags = s.tags /\ t.mon = s.mon
              /\ t.tagset = s.tagset /\ t.alttagset = s.alttagset

\* No window is retagged on the way from s to t.
Calm(s, t) == Managed(t) = Managed(s) /\ t.tags = s.tags

\* At most one window is retagged on the way from s to t.
Retags(s, t) == \E e : \A d \in Managed(s) \cap Managed(t) :
                          d # e => t.tags[d] = s.tags[d]

\* Two sets of one tag are the same or disjoint.
LEMMA SingleFacts ==
    ASSUME NEW a \in SingleTags, NEW b \in SingleTags
    PROVE  /\ a \cap b # {} <=> a = b
           /\ a # {} /\ a \in SUBSET Tag
BY DEF SingleTags

\* A window of one tag is visible where that tag is shown.
LEMMA VisibleFacts ==
    ASSUME NEW s, OneTag(s), NEW c \in Managed(s), NEW m \in Mon(s) \cup {1}
    PROVE  /\ ISVISIBLE(s, c, m) <=> s.tags[c] = s.tagset[m]
           /\ s.tagset[m] # {}
<1>1. s.tagset[m] \in SingleTags
  BY DEF OneTag
<1>2. s.tags[c] \in SingleTags \/ s.tags[c] = {}
  BY DEF OneTag
<1> QED
  BY <1>1, <1>2, SingleFacts DEF ISVISIBLE

\* What does not change windows, views and selections keeps all of this.
LEMMA SameFacts ==
    ASSUME NEW s, NEW t, Same(s, t)
    PROVE  /\ Mon(t) = Mon(s) /\ Calm(s, t)
           /\ OneTag(s) => OneTag(t)
           /\ Home(s) => Home(t)
           /\ \A k : t.sel = s.sel /\ TidyBut(s, k) => TidyBut(t, k)
<1>1. Mon(t) = Mon(s) /\ Calm(s, t)
  BY DEF Same, Mon, Calm
<1>2. OneTag(s) => OneTag(t)
  BY <1>1 DEF Same, OneTag
<1>3. Home(s) => Home(t)
  BY <1>1 DEF Same, Home
<1>4. ASSUME NEW k, t.sel = s.sel, Chosen(s, k) PROVE Chosen(t, k)
  BY <1>1, <1>4 DEF Same, Chosen
<1>5. Lone(s) => Lone(t)
  BY DEF Same, Lone
<1> QED
  BY <1>1, <1>2, <1>3, <1>4, <1>5 DEF TidyBut, Neat

\* Same, one thing after another.
LEMMA SameAfter ==
    ASSUME NEW s, NEW t, NEW u, Same(s, t), Same(t, u)
    PROVE  Same(s, u)
BY DEF Same

\* When all selections are right, so are all but one.
LEMMA TidyFacts ==
    ASSUME NEW s, Tidy(s), NEW k
    PROVE  TidyBut(s, k)
BY DEF Tidy, TidyBut, Neat, Chosen, Mon

\* Selecting a monitor and moving the input focus change no view and no window.
LEMMA ActiveSame ==
    ASSUME NEW s \in State, NEW m, NEW c
    PROVE  /\ LET t == [s EXCEPT !.selmon = m]
              IN  Same(s, t) /\ t.sel = s.sel /\ t.selmon = m
           /\ Same(s, unfocus(s, c)) /\ unfocus(s, c).sel = s.sel
           /\ unfocus(s, c) \in State
<1>1. LET t == [s EXCEPT !.selmon = m]
      IN  Same(s, t) /\ t.sel = s.sel /\ t.selmon = m
  BY DEF State, Same, Managed
<1>2. /\ Same(s, unfocus(s, c)) /\ unfocus(s, c).sel = s.sel
      /\ unfocus(s, c) \in State
  BY DEF State, Same, Managed, unfocus
<1> QED
  BY <1>1, <1>2

\* detachstack() may change the selection of its client's monitor, to another
\* client that is visible there.
LEMMA DetachstackSame ==
    ASSUME NEW s, NEW A, NEW B, Core(s), Lists(s, A, B), NEW c \in B
    PROVE  LET t == detachstack(s, c)
               m == s.mon[c]
           IN  /\ Same(s, t) /\ t.selmon = s.selmon
               /\ \A k \in Slot : k # m => t.sel[k] = s.sel[k]
               /\ t.sel[m] # c
               /\ t.sel[m] # s.sel[m] /\ t.sel[m] # NoClient =>
                    t.sel[m] \in B /\ ISVISIBLE(s, t.sel[m], m)
<1> DEFINE t == [s EXCEPT !.stack = Unlink(@, c)]
           m == s.mon[c]
           d == FirstVisible(t, t.stack, m)
           u == detachstack(s, c)
<1>1. s \in State /\ s.stack \in Seq(Client) /\ c \in Client /\ m \in Slot
  BY ToSetFacts DEF Core, State, Lists
<1>2. /\ Unlink(s.stack, c) \in Seq(Client)
      /\ ToSet(Unlink(s.stack, c)) = B \ {c}
  BY <1>1, UnlinkFacts DEF Lists
<1>3. /\ t.stack = Unlink(s.stack, c) /\ t.clients = s.clients
      /\ t.n_monitors = s.n_monitors /\ t.tags = s.tags /\ t.mon = s.mon
      /\ t.tagset = s.tagset /\ t.alttagset = s.alttagset
      /\ t.sel = s.sel /\ t.selmon = s.selmon /\ t \in State
  BY <1>1, <1>2 DEF State
<1>4. \/ d \in B \ {c} /\ ISVISIBLE(s, d, m)
      \/ d = NoClient
  <2>1. t.stack \in Seq(Client) /\ ToSet(t.stack) = B \ {c}
    BY <1>2, <1>3
  <2> HIDE DEF t, m
  <2>2. \/ d \in ToSet(t.stack) /\ ISVISIBLE(t, d, m)
        \/ d = NoClient
    BY <2>1, FirstVisibleFacts
  <2> QED
    BY <1>3, <2>1, <2>2 DEF ISVISIBLE
<1>5. c # NoClient
  BY <1>1, ClientAssumption
<1> HIDE DEF d, m
<1>6. CASE s.sel[m] # c
  <2>1. u = t
    BY <1>6 DEF detachstack, m
  <2> HIDE DEF t, u
  <2> QED
    BY <1>3, <1>6, <2>1 DEF Same, Managed, m, u
<1>7. CASE s.sel[m] = c
  <2>1. u = [t EXCEPT !.sel[m] = d]
    BY <1>7 DEF detachstack, d, m
  <2> HIDE DEF t, u
  <2>2. /\ u.clients = t.clients
        /\ u.n_monitors = t.n_monitors /\ u.tags = t.tags /\ u.mon = t.mon
        /\ u.tagset = t.tagset /\ u.alttagset = t.alttagset
        /\ u.selmon = t.selmon /\ u.sel = [t.sel EXCEPT ![m] = d]
    BY <1>3, <2>1 DEF State
  <2>3. u.sel[m] = d /\ \A k \in Slot : k # m => u.sel[k] = s.sel[k]
    BY <1>1, <1>3, <2>2 DEF State
  <2> QED
    BY <1>3, <1>4, <1>5, <2>2, <2>3 DEF Same, Managed, m, u
<1> QED
  BY <1>6, <1>7

\* focus() changes no window and no view; it makes the client d that it finds
\* the selection of d's monitor, and of the others' selections it may repair one.
LEMMA FocusSame ==
    ASSUME NEW s, Well(s), NEW c \in Managed(s) \cup {NoClient}
    PROVE  LET t == focus(s, c)
               d == SelectedClient(t)
           IN  /\ Same(s, t)
               /\ d = NoClient => t.selmon = s.selmon
               /\ d # NoClient => /\ d \in Managed(s) /\ t.selmon = s.mon[d]
                                  /\ ISVISIBLE(s, d, s.selmon)
               /\ c # NoClient /\ ISVISIBLE(s, c, s.selmon) => d = c
               /\ \A k \in Slot : k # t.selmon => t.sel[k] = s.sel[k]
<1> DEFINE M == Managed(s)
           v == FirstVisible(s, s.stack, s.selmon)
           d == IF c # NoClient /\ ISVISIBLE(s, c, s.selmon) THEN c ELSE v
           good(t) == /\ Same(s, t) /\ SelectedClient(t) = d
                      /\ t.selmon = IF d = NoClient THEN s.selmon ELSE s.mon[d]
                      /\ \A k \in Slot : k # t.selmon => t.sel[k] = s.sel[k]
<1>1. s \in State /\ Core(s) /\ Lists(s, M, M) /\ M \subseteq Client
  BY ToSetFacts DEF Well, Core, State, Managed
<1>2. \/ v \in M /\ ISVISIBLE(s, v, s.selmon)
      \/ v = NoClient
  BY <1>1, FirstVisibleFacts DEF State, Lists
<1>3. d # NoClient => d \in M /\ ISVISIBLE(s, d, s.selmon)
  BY <1>2
<1>4. c # NoClient /\ ISVISIBLE(s, c, s.selmon) => d = c
  OBVIOUS
<1>5. CASE d = NoClient
  <2> DEFINE t == [[s EXCEPT !.active = NoClient] EXCEPT !.sel[s.selmon] = NoClient]
  <2>1. focus(s, c) = t
    BY <1>5 DEF focus
  <2>2. /\ Same(s, t) /\ t.selmon = s.selmon
        /\ t.sel = [s.sel EXCEPT ![s.selmon] = NoClient]
    BY <1>1 DEF State, Same, Managed
  <2> HIDE DEF t, d
  <2>3. good(t)
    BY <1>1, <1>5, <2>2 DEF State, SelectedClient
  <2> QED
    BY <1>3, <1>4, <1>5, <2>1, <2>3
<1>6. CASE d # NoClient
  <2>1. d \in M
    BY <1>3, <1>6
  <2> HIDE DEF d, v
  <2> DEFINE s1 == [s EXCEPT !.selmon = s.mon[d]]
             s2 == detachstack(s1, d)
             s3 == attachstack(s2, d)
             s4 == setfocus(s3, d)
             s5 == [s4 EXCEPT !.sel[s3.selmon] = d]
  <2>2. focus(s, c) = s5
    BY <1>6 DEF focus, d, v
  <2>3. s.mon[d] \in Mon(s) \cup {1} /\ d \in Client /\ s.mon[d] \in Slot
    BY <1>1, <2>1 DEF Core, State
  <2>4. Core(s1) /\ Lists(s1, M, M)
    BY <1>1, <2>3, SelmonFacts
  <2>5. Same(s, s1) /\ s1.sel = s.sel /\ s1.selmon = s.mon[d]
    BY <1>1, ActiveSame
  <2> HIDE DEF s1
  <2>6. /\ Core(s2) /\ Same(s1, s2) /\ s2.selmon = s1.selmon
        /\ \A k \in Slot : k # s.mon[d] => s2.sel[k] = s1.sel[k]
    <3>1. Core(s2)
      BY <2>1, <2>4, DetachstackFacts
    <3>2. /\ Same(s1, s2) /\ s2.selmon = s1.selmon
          /\ \A k \in Slot : k # s1.mon[d] => s2.sel[k] = s1.sel[k]
      BY <2>1, <2>4, DetachstackSame
    <3>3. s1.mon = s.mon
      BY <2>5 DEF Same
    <3> QED
      BY <3>1, <3>2, <3>3
  <2> HIDE DEF s2
  <2>7. /\ Same(s2, s3) /\ s3.sel = s2.sel /\ s3.selmon = s2.selmon
        /\ s3.sel \in [Slot -> Client \cup {NoClient}]
        /\ s3 = [s2 EXCEPT !.stack = s3.stack]
    BY <2>6 DEF attachstack, Core, State, Same, Managed
  <2>8. s2 \in State
    BY <2>6 DEF Core
  <2> HIDE DEF s3
  <2>9. Same(s3, s4) /\ s4.sel = s3.sel /\ s4.selmon = s3.selmon
    BY <2>7, <2>8 DEF setfocus, State, Same, Managed
  <2>10. /\ Same(s4, s5) /\ s5.selmon = s4.selmon
         /\ s5.sel = [s4.sel EXCEPT ![s3.selmon] = d]
    BY <2>7, <2>8 DEF setfocus, State, Same, Managed
  <2> HIDE DEF s4, s5
  <2>11. Same(s, s5)
    BY <2>5, <2>6, <2>7, <2>9, <2>10, SameAfter
  <2>12. s5.selmon = s.mon[d] /\ s3.selmon = s.mon[d]
    BY <2>5, <2>6, <2>7, <2>9, <2>10
  <2>13. /\ s5.sel[s5.selmon] = d
         /\ \A k \in Slot : k # s.mon[d] => s5.sel[k] = s.sel[k]
    BY <2>3, <2>5, <2>6, <2>7, <2>9, <2>10, <2>12
  <2>14. good(s5)
    BY <1>6, <2>11, <2>12, <2>13 DEF SelectedClient
  <2> QED
    BY <1>3, <1>4, <1>6, <2>2, <2>14
<1> QED
  BY <1>5, <1>6

\* focus() repairs the selection of the selected monitor, and no other needs it:
\* a client that is visible there is owned there.
LEMMA FocusTidy ==
    ASSUME NEW s, Well(s), TidyBut(s, s.selmon),
           NEW c \in Managed(s) \cup {NoClient}
    PROVE  Tidy(focus(s, c)) /\ Calm(s, focus(s, c))
<1> DEFINE t == focus(s, c)
           d == SelectedClient(t)
<1>1. /\ Same(s, t)
      /\ d = NoClient => t.selmon = s.selmon
      /\ d # NoClient => /\ d \in Managed(s) /\ t.selmon = s.mon[d]
                         /\ ISVISIBLE(s, d, s.selmon)
      /\ \A k \in Slot : k # t.selmon => t.sel[k] = s.sel[k]
  BY FocusSame
<1>2. /\ Mon(t) = Mon(s) /\ Calm(s, t) /\ Managed(t) = Managed(s)
      /\ Lone(s) => Lone(t)
      /\ Neat(s, s.selmon) => OneTag(t) /\ (Steady => Home(t))
  BY <1>1, SameFacts DEF Neat, Lone, Same
<1>3. d = t.sel[t.selmon]
  BY DEF SelectedClient
<1> HIDE DEF t, d
<1>4. ASSUME Neat(s, s.selmon), Steady, PlainPlacement PROVE Chosen(t, 0)
  <2>1. Home(s) /\ Chosen(s, s.selmon) /\ OneTag(s)
    BY <1>4 DEF Neat
  <2>2. s.selmon \in Mon(s) /\ Mon(s) \subseteq Slot
    BY <2>1, SelmonLive, MonFacts DEF Home, Well, Core
  <2>3. d # NoClient => /\ s.tags[d] = s.tagset[s.selmon]
                        /\ s.mon[d] = s.selmon
    BY <1>1, <2>1, <2>2, VisibleFacts DEF Home
  <2>4. t.selmon = s.selmon
    BY <1>1, <2>3
  <2> SUFFICES ASSUME NEW m \in Mon(s), t.sel[m] # NoClient
               PROVE  /\ t.sel[m] \in Managed(s) /\ s.mon[t.sel[m]] = m
                      /\ s.tags[t.sel[m]] = s.tagset[m]
    BY <1>1, <1>2 DEF Chosen, Same
  <2>5. CASE m = s.selmon
    BY <1>1, <1>3, <2>3, <2>4, <2>5
  <2>6. CASE m # s.selmon
    <3>1. t.sel[m] = s.sel[m]
      BY <1>1, <2>2, <2>4, <2>6
    <3> QED
      BY <2>1, <2>6, <3>1 DEF Chosen
  <2> QED
    BY <2>5, <2>6
<1> QED
  BY <1>2, <1>4 DEF Tidy, TidyBut, Neat, t

\* Focusing after a change that left the selected monitor's selection alone wrong.
LEMMA ThenFocusTidy ==
    ASSUME NEW s, NEW t, Well(t), Calm(s, t), TidyBut(t, t.selmon),
           NEW c \in Managed(s) \cup {NoClient}
    PROVE  Tidy(focus(t, c)) /\ Calm(s, focus(t, c))
<1>1. c \in Managed(t) \cup {NoClient}
  BY DEF Calm
<1> QED
  BY <1>1, FocusTidy DEF Calm

\* Another monitor may be selected first.
LEMMA SelectTidy ==
    ASSUME NEW s, Well(s), Tidy(s), NEW m \in Mon(s) \cup {1}
    PROVE  LET t == [s EXCEPT !.selmon = m]
           IN  Well(t) /\ Tidy(t) /\ Calm(s, t) /\ Same(s, t) /\ t.selmon = m
<1> DEFINE t == [s EXCEPT !.selmon = m]
<1>1. Same(s, t) /\ t.sel = s.sel /\ t.selmon = m
  BY ActiveSame DEF Well, Core
<1>2. Well(t)
  BY SelectFacts
<1> HIDE DEF t
<1>3. Tidy(t) /\ Calm(s, t)
  BY <1>1, SameFacts DEF Tidy
<1> QED
  BY <1>1, <1>2, <1>3 DEF t

\* So does dropping the focus.
LEMMA UnfocusTidy ==
    ASSUME NEW s, Well(s), Tidy(s), NEW c
    PROVE  /\ Well(unfocus(s, c)) /\ Tidy(unfocus(s, c))
           /\ Calm(s, unfocus(s, c)) /\ Same(s, unfocus(s, c))
<1>1. Same(s, unfocus(s, c)) /\ unfocus(s, c).sel = s.sel
  BY ActiveSame DEF Well, Core
<1>2. Well(unfocus(s, c))
  BY UnfocusFacts
<1> QED
  BY <1>1, <1>2, SameFacts DEF Tidy

\* selectmon() and enternotify() retag nothing and leave every selection right.
LEMMA SelectmonTidy ==
    ASSUME NEW s, Well(s), Tidy(s), NEW m \in Mon(s) \cup {1},
           NEW c \in Managed(s) \cup {NoClient}
    PROVE  LET t == [unfocus(s, SelectedClient(s)) EXCEPT !.selmon = m]
           IN  Tidy(focus(t, c)) /\ Calm(s, focus(t, c))
<1> DEFINE u == unfocus(s, SelectedClient(s))
           t == [u EXCEPT !.selmon = m]
<1>1. Well(u) /\ Tidy(u) /\ Calm(s, u) /\ Same(s, u)
  BY UnfocusTidy
<1>2. m \in Mon(u) \cup {1}
  BY <1>1, SameFacts
<1> HIDE DEF u
<1>3. Well(t) /\ Tidy(t) /\ Calm(u, t)
  BY <1>1, <1>2, SelectTidy
<1> HIDE DEF t
<1>4. Calm(s, t) /\ TidyBut(t, t.selmon)
  BY <1>1, <1>3, TidyFacts DEF Calm
<1> QED
  BY <1>3, <1>4, ThenFocusTidy DEF t, u

\* Retagging nothing, and one thing after another.
LEMMA CalmFacts ==
    ASSUME NEW s
    PROVE  /\ Calm(s, s)
           /\ \A t, u : Calm(s, t) /\ Calm(t, u) => Calm(s, u)
           /\ \A t, u : Calm(s, t) /\ Retags(t, u) => Retags(s, u)
           /\ \A t, u : Retags(s, t) /\ Calm(t, u) => Retags(s, u)
           /\ \A t : Calm(s, t) => Retags(s, t)
BY DEF Calm, Retags

\* The handlers of crossings and the press on a bar likewise.
LEMMA PointerTidy ==
    ASSUME NEW s, Well(s), Tidy(s)
    PROVE  /\ \A c \in Managed(s) :
                Tidy(enternotify(s, c)) /\ Calm(s, enternotify(s, c))
           /\ \A m \in Mon(s) \cup {1} :
                /\ Tidy(selectmon(s, m)) /\ Calm(s, selectmon(s, m))
                /\ Tidy(clickmon(s, m)) /\ Calm(s, clickmon(s, m))
           /\ \A c \in Managed(s) \cup {NoClient} :
                Tidy(focus(s, c)) /\ Calm(s, focus(s, c))
<1>1. ASSUME NEW c \in Managed(s) \cup {NoClient}
      PROVE  Tidy(focus(s, c)) /\ Calm(s, focus(s, c))
  BY TidyFacts, FocusTidy
<1>2. ASSUME NEW m \in Mon(s) \cup {1}
      PROVE  Tidy(selectmon(s, m)) /\ Calm(s, selectmon(s, m))
  BY SelectmonTidy DEF selectmon
<1>3. ASSUME NEW c \in Managed(s)
      PROVE  Tidy(enternotify(s, c)) /\ Calm(s, enternotify(s, c))
  <2>1. s.mon[c] \in Mon(s) \cup {1}
    BY OwnerFacts
  <2> QED
    BY <1>1, <2>1, SelectmonTidy, CalmFacts DEF enternotify
<1> QED
  BY <1>1, <1>2, <1>3, CalmFacts DEF clickmon

\* With windows and views of one tag, attachclients() retags none: it gives
\* monitor m the windows that it shows.
LEMMA AttachclientsMoves ==
    ASSUME NEW s, Well(s), OneTag(s), NEW m \in Mon(s) \cup {1}
    PROVE  LET t == attachclients(s, m)
           IN  /\ Calm(s, t) /\ OneTag(t) /\ Mon(t) = Mon(s)
               /\ t.tagset = s.tagset /\ t.alttagset = s.alttagset
               /\ t.sel = s.sel /\ t.selmon = s.selmon
               /\ \A c \in Managed(s) :
                    t.mon[c] = IF s.tags[c] = s.tagset[m] THEN m ELSE s.mon[c]
<1> DEFINE t == attachclients(s, m)
           shown == {c \in Managed(s) : ISVISIBLE(s, c, m)}
           utags == UNION {s.tagset[k] : k \in Mon(s) \ {m}}
<1>1. s \in State /\ Managed(s) \subseteq Client
  BY ToSetFacts DEF Well, Core, State, Managed
<1>2. /\ t.clients = s.clients /\ t.n_monitors = s.n_monitors
      /\ t.tagset = s.tagset /\ t.alttagset = s.alttagset
      /\ t.sel = s.sel /\ t.selmon = s.selmon
      /\ t.mon = [c \in Client |-> IF c \in shown THEN m ELSE s.mon[c]]
      /\ t.tags = [c \in Client |->
                     IF c \in shown /\ s.tags[c] \cap utags # {}
                     THEN s.tags[c] \cap s.tagset[m] ELSE s.tags[c]]
  BY <1>1 DEF attachclients, State
<1> HIDE DEF t
<1>3. \A c \in Managed(s) : c \in shown <=> s.tags[c] = s.tagset[m]
  BY VisibleFacts
<1> HIDE DEF utags
<1>4. t.tags = s.tags
  <2>1. \A c \in shown : s.tags[c] \cap s.tagset[m] = s.tags[c]
    BY <1>3
  <2>2. \A c \in Client : t.tags[c] = s.tags[c]
    BY <1>2, <2>1
  <2>3. t.tags = [c \in Client |-> t.tags[c]]
    BY <1>2
  <2>4. s.tags = [c \in Client |-> s.tags[c]]
    BY <1>1 DEF State
  <2> QED
    BY <2>2, <2>3, <2>4
<1>5. \A c \in Managed(s) :
        t.mon[c] = IF s.tags[c] = s.tagset[m] THEN m ELSE s.mon[c]
  BY <1>1, <1>2, <1>3
<1>6. Managed(t) = Managed(s) /\ Mon(t) = Mon(s)
  BY <1>2 DEF Managed, Mon
<1> HIDE DEF shown
<1>7. OneTag(t)
  BY <1>2, <1>4, <1>6 DEF OneTag
<1>8. Calm(s, t)
  BY <1>4, <1>6 DEF Calm
<1> QED
  BY <1>2, <1>5, <1>6, <1>7, <1>8 DEF t

\* On a lone monitor everything is that monitor's.
LEMMA LoneFacts ==
    ASSUME NEW s, Well(s), Lone(s)
    PROVE  /\ Mon(s) = {1} /\ s.selmon = 1 /\ 1 \in Slot
           /\ \A c \in Managed(s) : s.mon[c] = 1
           /\ \A ts : Showing(s, 1, ts) = {}
           /\ \A t : Keeps(s, t) => Tidy(t)
<1>1. Mon(s) = {1} /\ 1 \in Slot
  BY MonitorsAssumption DEF Lone, Mon, Slot
<1>2. s.selmon = 1 /\ \A c \in Managed(s) : s.mon[c] = 1
  BY <1>1, OwnerFacts DEF Well, Core
<1>3. \A t : Keeps(s, t) => Tidy(t)
  BY DEF Keeps, Lone, Tidy, TidyBut
<1> QED
  BY <1>1, <1>2, <1>3 DEF Showing

\* There, view() retags nothing, and shows what has a tag of the view.
LEMMA LoneView ==
    ASSUME NEW s, Well(s), Lone(s), NEW ui \in SUBSET Tag
    PROVE  /\ Tidy(view(s, ui)) /\ Calm(s, view(s, ui))
           /\ \A c \in Managed(s) : s.tags[c] \cap ui # {} =>
                ISVISIBLE(view(s, ui), c, 1)
<1> DEFINE ts == IF ui # {} THEN ui ELSE s.alttagset[1]
           here == flip(s, 1, ts)
           shown == {c \in Managed(here) : ISVISIBLE(here, c, 1)}
           utags == UNION {here.tagset[k] : k \in Mon(here) \ {1}}
           a == attachclients(here, 1)
           v == view(s, ui)
<1>1. /\ s \in State /\ Mon(s) = {1} /\ s.selmon = 1 /\ 1 \in Slot
      /\ Showing(s, 1, ts) = {}
  BY LoneFacts DEF Well, Core
<1>2. Well(v) /\ Keeps(s, v)
  BY ViewFacts DEF Done
<1>3. Tidy(v)
  BY <1>2, LoneFacts
<1>4. CASE ui = s.tagset[1]
  <2>1. v = s
    BY <1>1, <1>4 DEF view
  <2> QED
    BY <1>3, <1>4, <2>1, CalmFacts DEF ISVISIBLE
<1>5. CASE ui # s.tagset[1]
  <2>1. v = focus(a, NoClient)
    BY <1>1, <1>5 DEF view
  <2>2. ts \in SUBSET Tag /\ ts # {} /\ (ui # {} => ts = ui)
    BY <1>1 DEF State, Well, Core
  <2> HIDE DEF ts, v
  <2>3. Well(here)
    BY <1>1, <2>2, FlipFacts
  <2>4. /\ here.clients = s.clients /\ here.tags = s.tags
        /\ here.n_monitors = s.n_monitors
        /\ here.tagset = [s.tagset EXCEPT ![1] = ts]
    BY <1>1 DEF flip, State
  <2> HIDE DEF here
  <2>5. Mon(here) = {1} /\ here \in State /\ here.tagset[1] = ts
    BY <1>1, <2>3, <2>4 DEF Mon, Well, Core, State
  <2>6. Well(a)
    BY <2>3, <2>5, AttachclientsFacts
  <2>7. /\ a.clients = here.clients /\ a.tagset = here.tagset
        /\ a.tags = [c \in Client |->
                       IF c \in shown /\ here.tags[c] \cap utags # {}
                       THEN here.tags[c] \cap here.tagset[1] ELSE here.tags[c]]
    BY <2>5 DEF attachclients, State
  <2>8. utags = {}
    BY <2>5
  <2> HIDE DEF a, shown, utags
  <2>9. a.tags = s.tags
    <3>1. a.tags = [c \in Client |-> here.tags[c]]
      BY <2>7, <2>8
    <3> QED
      BY <2>4, <2>5, <3>1 DEF State
  <2>10. Same(a, v)
    BY <2>1, <2>6, FocusSame
  <2>11. v.tags = s.tags /\ v.tagset[1] = ts /\ Managed(v) = Managed(s)
    BY <2>4, <2>5, <2>7, <2>9, <2>10 DEF Same, Managed
  <2> QED
    BY <1>3, <2>2, <2>11 DEF Calm, ISVISIBLE, v
<1> QED
  BY <1>4, <1>5

\* The monitor that view() takes the tag ts from is the one that shows it.
LEMMA ShowingOne ==
    ASSUME NEW s, Well(s), OneTag(s), NEW n, NEW ts \in SingleTags
    PROVE  LET others == Showing(s, n, ts)
           IN  /\ others = {k \in Mon(s) \ {n} : s.tagset[k] = ts}
               /\ others # {} => /\ Min(others) \in Mon(s) \ {n}
                                 /\ s.tagset[Min(others)] = ts
<1> DEFINE others == Showing(s, n, ts)
<1>1. others = {k \in Mon(s) \ {n} : s.tagset[k] = ts}
  BY SingleFacts DEF OneTag, Showing
<1>2. others \in SUBSET Nat
  BY <1>1 DEF Mon
<1>3. others # {} => Min(others) \in others
  BY <1>2, MinFacts
<1> QED
  BY <1>1, <1>3

\* view() retags nothing, and every view stays one tag that no other shows; the
\* windows of an exchanged view follow it, and so does the selection.
LEMMA ViewNeat ==
    ASSUME NEW s, Well(s), Neat(s, 0), NEW ui \in SingleTags \cup {{}}
    PROVE  Tidy(view(s, ui)) /\ Calm(s, view(s, ui))
<1> DEFINE n      == s.selmon
           old    == s.tagset[n]
           newtagset == IF ui # {} THEN ui ELSE s.alttagset[n]
           others == Showing(s, n, newtagset)
           m      == Min(others)
           f      == flip(s, m, old)
           g      == flip(f, n, newtagset)
           swapped == [g EXCEPT !.sel[m] = s.sel[n]]
           here   == flip(s, n, newtagset)
<1>1. /\ s \in State /\ n \in Slot /\ OneTag(s) /\ n \in Mon(s) \cup {1}
      /\ Mon(s) \subseteq Slot /\ (Mon(s) # {} => n \in Mon(s))
  BY SelmonLive, MonFacts DEF Well, Core, Neat
<1>2. newtagset \in SingleTags /\ old \in SingleTags /\ s.alttagset[n] \in SingleTags
  BY <1>1, SingleFacts DEF OneTag
<1>3. /\ newtagset \in SUBSET Tag /\ old \in SUBSET Tag
      /\ newtagset # {} /\ old # {}
      /\ s.sel[n] \in Client \cup {NoClient}
  BY <1>1, <1>2, SingleFacts DEF State
<1>4. /\ others = {k \in Mon(s) \ {n} : s.tagset[k] = newtagset}
      /\ others # {} => m \in Mon(s) \ {n} /\ s.tagset[m] = newtagset
  BY <1>1, <1>2, ShowingOne
<1>5. CASE ui = old \/ (others # {} /\ newtagset \cap old # {})
  BY <1>5, CalmFacts DEF view, Tidy, TidyBut
<1>6. CASE ~(ui = old \/ (others # {} /\ newtagset \cap old # {})) /\ others # {}
  <2> DEFINE a == attachclients(swapped, m)
             b == attachclients(a, swapped.selmon)
  <2>1. /\ m \in Mon(s) /\ m \in Slot /\ m # n /\ n \in Mon(s)
        /\ s.tagset[m] = newtagset
    BY <1>1, <1>4, <1>6
  <2>2. view(s, ui) = focus(b, NoClient)
    BY <1>6 DEF view, settle
  <2> HIDE DEF m, newtagset, old, n, others
  <2>3. Well(f) /\ Keeps(s, f)
    BY <1>3, <2>1, FlipFacts
  <2>4. /\ f \in State /\ f.clients = s.clients /\ f.tags = s.tags /\ f.mon = s.mon
        /\ f.n_monitors = s.n_monitors /\ f.selmon = s.selmon /\ f.sel = s.sel
        /\ f.tagset = [s.tagset EXCEPT ![m] = old]
        /\ f.alttagset = [s.alttagset EXCEPT ![m] = s.tagset[m]]
    BY <1>1, <2>3 DEF flip, State, Well, Core
  <2> HIDE DEF f
  <2>5. Well(g) /\ Keeps(f, g)
    BY <1>1, <1>3, <2>3, FlipFacts
  <2>6. /\ g \in State /\ g.clients = s.clients /\ g.tags = s.tags /\ g.mon = s.mon
        /\ g.n_monitors = s.n_monitors /\ g.selmon = s.selmon /\ g.sel = s.sel
        /\ g.tagset = [f.tagset EXCEPT ![n] = newtagset]
        /\ g.alttagset = [f.alttagset EXCEPT ![n] = f.tagset[n]]
    BY <2>4, <2>5 DEF flip, State, Well, Core
  <2> HIDE DEF g
  <2>7. Well(swapped) /\ Keeps(g, swapped)
    BY <1>3, <2>1, <2>5, WithSelFacts
  <2>8. /\ swapped.clients = s.clients /\ swapped.tags = s.tags /\ swapped.mon = s.mon
        /\ swapped.n_monitors = s.n_monitors /\ swapped.selmon = s.selmon
        /\ swapped.tagset = g.tagset /\ swapped.alttagset = g.alttagset
        /\ swapped.sel = [s.sel EXCEPT ![m] = s.sel[n]]
    BY <2>6 DEF State
  <2> HIDE DEF swapped
  <2>9. \A k \in Slot :
           /\ swapped.tagset[k] = IF k = n THEN newtagset
                                  ELSE IF k = m THEN old ELSE s.tagset[k]
           /\ swapped.alttagset[k] = IF k = n THEN old
                                     ELSE IF k = m THEN newtagset ELSE s.alttagset[k]
           /\ swapped.sel[k] = IF k = m THEN s.sel[n] ELSE s.sel[k]
    <3>1. old = s.tagset[n]
      BY DEF old
    <3> QED
      BY <1>1, <2>1, <2>4, <2>6, <2>8, <3>1 DEF State
  <2>10. Managed(swapped) = Managed(s) /\ Mon(swapped) = Mon(s)
    BY <2>8 DEF Managed, Mon
  <2>11. \A k \in Mon(s) : s.tagset[k] = old => k = n
    BY <1>1, <2>1 DEF OneTag, old
  <2>12. \A k \in Mon(s) : s.tagset[k] = newtagset => k = m
    BY <1>1, <2>1 DEF OneTag
  <2>13. OneTag(swapped)
    <3>1. 1 \in Slot
      BY MonitorsAssumption DEF Slot
    <3>2. \A k \in Mon(s) \cup {1} :
            swapped.tagset[k] \in SingleTags /\ swapped.alttagset[k] \in SingleTags
      BY <1>1, <1>2, <2>9, <3>1 DEF OneTag
    <3>3. \A j, k \in Mon(s) : j # k => swapped.tagset[j] # swapped.tagset[k]
      BY <1>1, <2>1, <2>9, <2>11, <2>12 DEF OneTag
    <3>4. \A c \in Managed(s) : swapped.tags[c] \in SingleTags \cup {{}}
      BY <1>1, <2>8 DEF OneTag
    <3> QED
      BY <2>10, <3>2, <3>3, <3>4 DEF OneTag
  <2>14. /\ Well(a) /\ OneTag(a) /\ Calm(swapped, a) /\ Mon(a) = Mon(s)
         /\ a.tagset = swapped.tagset
         /\ a.sel = swapped.sel /\ a.selmon = n
         /\ \A c \in Managed(s) :
              a.mon[c] = IF s.tags[c] = old THEN m ELSE s.mon[c]
    <3>1. m \in Mon(swapped) \cup {1} /\ swapped.tagset[m] = old
      BY <2>1, <2>9, <2>10
    <3>2. swapped.selmon = n
      BY <2>8 DEF n
    <3> QED
      BY <2>7, <2>8, <2>10, <2>13, <3>1, <3>2, AttachclientsMoves, AttachclientsFacts
  <2>15. Managed(a) = Managed(s) /\ a.tags = s.tags
    BY <2>8, <2>10, <2>14 DEF Calm
  <2> HIDE DEF a
  <2>16. /\ Well(b) /\ OneTag(b) /\ Calm(a, b) /\ Mon(b) = Mon(s)
         /\ b.tagset = swapped.tagset
         /\ b.sel = swapped.sel /\ b.selmon = n
         /\ \A c \in Managed(s) :
              b.mon[c] = IF s.tags[c] = newtagset THEN n ELSE a.mon[c]
    <3>1. n \in Mon(a) \cup {1} /\ a.tagset[n] = newtagset
      BY <1>1, <2>1, <2>9, <2>14
    <3>2. swapped.selmon = n
      BY <2>8 DEF n
    <3> QED
      BY <2>14, <2>15, <3>1, <3>2, AttachclientsMoves, AttachclientsFacts
  <2>17. Managed(b) = Managed(s) /\ b.tags = s.tags /\ Calm(s, b)
    BY <2>15, <2>16 DEF Calm
  <2> HIDE DEF b
  <2>18. newtagset # old
    BY <1>6, <1>2, SingleFacts
  <2>19. ASSUME Steady PROVE Home(b)
    <3>1. Home(s)
      BY <2>19 DEF Neat
    <3> SUFFICES ASSUME NEW c \in Managed(s), NEW k \in Mon(s),
                        s.tags[c] = swapped.tagset[k]
                 PROVE  b.mon[c] = k
      BY <2>1, <2>16, <2>17 DEF Home
    <3>2. CASE k = n
      BY <3>2, <1>1, <2>9, <2>16
    <3>3. CASE k = m
      BY <3>3, <2>1, <2>9, <2>14, <2>16, <2>18
    <3>4. CASE k # n /\ k # m
      <4>1. s.tags[c] = s.tagset[k] /\ s.mon[c] = k
        BY <1>1, <2>9, <3>1, <3>4 DEF Home
      <4>2. s.tags[c] # old /\ s.tags[c] # newtagset
        BY <2>11, <2>12, <3>4, <4>1
      <4> QED
        BY <2>14, <2>16, <4>1, <4>2
    <3> QED
      BY <3>2, <3>3, <3>4
  <2>20. ASSUME Steady, PlainPlacement PROVE Chosen(b, n)
    <3>1. Chosen(s, 0)
      BY <2>20 DEF Neat
    <3> SUFFICES ASSUME NEW k \in Mon(s), k # n, b.sel[k] # NoClient
                 PROVE  /\ b.sel[k] \in Managed(s)
                        /\ s.tags[b.sel[k]] = swapped.tagset[k]
                        /\ b.mon[b.sel[k]] = k
      BY <2>16, <2>17 DEF Chosen
    <3> DEFINE c == b.sel[k]
    <3>2. CASE k = m
      <4>1. c = s.sel[n]
        BY <2>1, <2>9, <2>16, <3>2
      <4>2. c \in Managed(s) /\ s.tags[c] = old
        <5>1. n \in Mon(s) \ {0}
          BY <2>1 DEF Mon
        <5> QED
          BY <3>1, <4>1, <5>1 DEF Chosen, old
      <4> QED
        BY <2>1, <2>9, <2>14, <2>16, <2>18, <3>2, <4>2
    <3>3. CASE k # m
      <4>1. c = s.sel[k]
        BY <1>1, <2>9, <2>16, <3>3
      <4>2. c \in Managed(s) /\ s.tags[c] = s.tagset[k] /\ s.mon[c] = k
        <5>1. k \in Mon(s) \ {0}
          BY DEF Mon
        <5> QED
          BY <3>1, <4>1, <5>1 DEF Chosen
      <4>3. s.tags[c] # old /\ s.tags[c] # newtagset
        BY <2>11, <2>12, <3>3, <4>2
      <4> QED
        BY <1>1, <2>9, <2>14, <2>16, <3>3, <4>2, <4>3
    <3> QED
      BY <3>2, <3>3
  <2>21. TidyBut(b, b.selmon)
    BY <2>16, <2>19, <2>20 DEF TidyBut, Neat
  <2> QED
    BY <2>2, <2>16, <2>17, <2>21, ThenFocusTidy
<1>7. CASE ~(ui = old \/ (others # {} /\ newtagset \cap old # {})) /\ others = {}
  <2> DEFINE a == attachclients(here, n)
  <2>1. view(s, ui) = focus(a, NoClient)
    BY <1>7 DEF view
  <2>2. \A k \in Mon(s) : k # n => s.tagset[k] # newtagset
    BY <1>4, <1>7
  <2> HIDE DEF newtagset, old, n, others
  <2>3. Well(here) /\ Keeps(s, here)
    BY <1>1, <1>3, FlipFacts
  <2>4. /\ here \in State /\ here.clients = s.clients /\ here.tags = s.tags
        /\ here.mon = s.mon /\ here.n_monitors = s.n_monitors
        /\ here.selmon = s.selmon /\ here.sel = s.sel
        /\ here.tagset = [s.tagset EXCEPT ![n] = newtagset]
        /\ here.alttagset = [s.alttagset EXCEPT ![n] = s.tagset[n]]
    BY <1>1, <2>3 DEF flip, State, Well, Core
  <2> HIDE DEF here
  <2>5. Managed(here) = Managed(s) /\ Mon(here) = Mon(s)
    BY <2>4 DEF Managed, Mon
  <2>6. \A k \in Slot :
           /\ here.tagset[k] = IF k = n THEN newtagset ELSE s.tagset[k]
           /\ here.alttagset[k] = IF k = n THEN s.tagset[n] ELSE s.alttagset[k]
    BY <1>1, <2>4 DEF State
  <2>7. OneTag(here)
    <3>1. 1 \in Slot
      BY MonitorsAssumption DEF Slot
    <3>2. \A k \in Mon(s) \cup {1} :
            here.tagset[k] \in SingleTags /\ here.alttagset[k] \in SingleTags
      BY <1>1, <1>2, <2>6, <3>1 DEF OneTag
    <3>3. \A j, k \in Mon(s) : j # k => here.tagset[j] # here.tagset[k]
      BY <1>1, <2>2, <2>6 DEF OneTag
    <3>4. \A c \in Managed(s) : here.tags[c] \in SingleTags \cup {{}}
      BY <1>1, <2>4 DEF OneTag
    <3> QED
      BY <2>5, <3>2, <3>3, <3>4 DEF OneTag
  <2>8. /\ Well(a) /\ OneTag(a) /\ Calm(here, a) /\ Mon(a) = Mon(s)
        /\ a.tagset = here.tagset
        /\ a.sel = s.sel /\ a.selmon = n
        /\ \A c \in Managed(s) :
             a.mon[c] = IF s.tags[c] = newtagset THEN n ELSE s.mon[c]
    <3>1. n \in Mon(here) \cup {1} /\ here.tagset[n] = newtagset
      BY <1>1, <2>5, <2>6
    <3>2. here.selmon = n
      BY <2>4 DEF n
    <3>3. Well(a)
      BY <2>3, <3>1, AttachclientsFacts
    <3>4. /\ Calm(here, a) /\ OneTag(a) /\ Mon(a) = Mon(here)
          /\ a.tagset = here.tagset /\ a.sel = here.sel /\ a.selmon = here.selmon
          /\ \A c \in Managed(here) :
               a.mon[c] = IF here.tags[c] = here.tagset[n] THEN n ELSE here.mon[c]
      BY <2>3, <2>7, <3>1, AttachclientsMoves
    <3> QED
      BY <2>4, <2>5, <3>1, <3>2, <3>3, <3>4
  <2>9. Managed(a) = Managed(s) /\ a.tags = s.tags /\ Calm(s, a)
    BY <2>4, <2>5, <2>8 DEF Calm
  <2> HIDE DEF a
  <2>10. ASSUME Steady PROVE Home(a)
    <3>1. Home(s) /\ n \in Mon(s)
      BY <1>1, <2>10 DEF Neat, Home
    <3> SUFFICES ASSUME NEW c \in Managed(s), NEW k \in Mon(s),
                        s.tags[c] = here.tagset[k]
                 PROVE  a.mon[c] = k
      BY <3>1, <2>8, <2>9 DEF Home
    <3> QED
      BY <1>1, <2>2, <2>6, <2>8, <3>1 DEF Home
  <2>11. ASSUME Steady, PlainPlacement PROVE Chosen(a, n)
    <3>1. Chosen(s, 0)
      BY <2>11 DEF Neat
    <3> SUFFICES ASSUME NEW k \in Mon(s), k # n, s.sel[k] # NoClient
                 PROVE  /\ s.sel[k] \in Managed(s)
                        /\ s.tags[s.sel[k]] = here.tagset[k]
                        /\ a.mon[s.sel[k]] = k
      BY <2>8, <2>9 DEF Chosen
    <3>2. k \in Mon(s) \ {0}
      BY DEF Mon
    <3>3. /\ s.sel[k] \in Managed(s) /\ s.tags[s.sel[k]] = s.tagset[k]
          /\ s.mon[s.sel[k]] = k
      BY <3>1, <3>2 DEF Chosen
    <3> QED
      BY <1>1, <2>2, <2>6, <2>8, <3>3
  <2>12. TidyBut(a, a.selmon)
    BY <2>8, <2>10, <2>11 DEF TidyBut, Neat
  <2> QED
    BY <2>1, <2>8, <2>9, <2>12, ThenFocusTidy
<1> QED
  BY <1>5, <1>6, <1>7

\* There, tag() retags the selected window.
LEMMA LoneTag ==
    ASSUME NEW s, Well(s), Focused(s), Lone(s), NEW ui \in SUBSET Tag, ui # {}
    PROVE  Tidy(tag(s, ui)) /\ Retags(s, tag(s, ui))
<1> DEFINE c == s.sel[1]
           t == [s EXCEPT !.tags[c] = ui]
<1>1. s \in State /\ s.selmon = 1 /\ Showing(s, 1, ui) = {}
  BY LoneFacts DEF Well, Core
<1>2. Tidy(tag(s, ui))
  BY TagFacts, LoneFacts DEF Done
<1>3. CASE c = NoClient
  BY <1>1, <1>2, <1>3, CalmFacts DEF tag
<1>4. CASE c # NoClient
  <2>1. c \in Managed(s) /\ c \in Client /\ Managed(s) \subseteq Client
    BY <1>1, <1>4, SelectedFacts, OwnerFacts DEF SelectedClient
  <2>2. tag(s, ui) = focus(t, NoClient)
    BY <1>1, <1>4 DEF tag
  <2> HIDE DEF c
  <2>3. Well(t)
    BY <2>1, RetagFacts
  <2>4. Managed(t) = Managed(s) /\ t.tags = [s.tags EXCEPT ![c] = ui]
    BY <1>1 DEF State, Managed
  <2> HIDE DEF t
  <2>5. Retags(s, t)
    BY <1>1, <2>1, <2>4 DEF Retags, State
  <2>6. Calm(t, focus(t, NoClient))
    BY <2>3, FocusSame, SameFacts
  <2> QED
    BY <1>2, <2>2, <2>5, <2>6, CalmFacts
<1> QED
  BY <1>3, <1>4

\* Either way, the bindings that view one tag, or flip back, keep all in order.
LEMMA ViewTidy ==
    ASSUME NEW s, Well(s), Tidy(s), NEW ui \in SingleTags \cup {{}}
    PROVE  Tidy(view(s, ui)) /\ Calm(s, view(s, ui))
<1>1. ui \in SUBSET Tag
  BY SingleFacts
<1> QED
  BY <1>1, LoneView, ViewNeat DEF Tidy, TidyBut

\* With two monitors that show something, viewing all tags or giving them all to
\* a window is refused; on a lone monitor neither does harm.
LEMMA AllTags ==
    ASSUME NEW s, Well(s), Focused(s), Tidy(s), s.n_monitors >= 2 \/ Lone(s)
    PROVE  /\ Tidy(view(s, Tag)) /\ Calm(s, view(s, Tag))
           /\ Tidy(tag(s, Tag)) /\ Retags(s, tag(s, Tag))
<1>1. CASE Lone(s)
  <2>1. Tag \in SUBSET Tag /\ Tag # {}
    BY NumTagsAssumption DEF Tag
  <2> QED
    BY <1>1, <2>1, LoneView, LoneTag
<1>2. CASE s.n_monitors >= 2
  <2> DEFINE n == s.selmon
             others == Showing(s, n, Tag)
  <2>1. s \in State /\ s.n_monitors \in Nat /\ NumTags \in Nat \ {0}
    BY NumTagsAssumption DEF Well, Core, State
  <2>2. 1 \in Mon(s) /\ 2 \in Mon(s) /\ n \in Mon(s) /\ Mon(s) \subseteq Slot
    BY <1>2, <2>1, MonFacts DEF Mon, Well, Core
  <2>3. \A m \in Mon(s) : s.tagset[m] \cap Tag # {}
    BY <2>1, <2>2 DEF State, Well, Core
  <2>4. others # {} /\ Tag \cap s.tagset[n] # {}
    <3>1. \E m \in Mon(s) : m # n
      BY <2>2
    <3> QED
      BY <2>2, <2>3, <3>1 DEF Showing
  <2>5. Tag # {}
    BY <2>1 DEF Tag
  <2>6. view(s, Tag) = s
    BY <2>4, <2>5 DEF view
  <2>7. tag(s, Tag) = s
    BY <2>4 DEF tag
  <2> QED
    BY <2>6, <2>7, CalmFacts
<1> QED
  BY <1>1, <1>2

\* One window gets another owner and other tags.
Moves(s, t, c, m, ts) ==
    /\ Managed(t) = Managed(s) /\ t.n_monitors = s.n_monitors
    /\ t.tagset = s.tagset /\ t.alttagset = s.alttagset
    /\ t.mon = [s.mon EXCEPT ![c] = m] /\ t.tags = [s.tags EXCEPT ![c] = ts]

\* It does no harm to a view or to an owner, when the window goes where its tag
\* is shown.
LEMMA MoveNeat ==
    ASSUME NEW s, Well(s), Neat(s, 0), NEW c \in Managed(s), NEW m,
           NEW ts \in SingleTags \cup {{}}, NEW t, Moves(s, t, c, m, ts),
           \A k \in Mon(s) : s.tagset[k] = ts => m = k
    PROVE  OneTag(t) /\ (Steady => Home(t)) /\ Retags(s, t)
<1>1. /\ s \in State /\ c \in Client /\ OneTag(s) /\ Managed(s) \subseteq Client
      /\ Mon(t) = Mon(s)
  BY ToSetFacts DEF Well, Core, State, Managed, Neat, Moves, Mon
<1>2. \A d \in Managed(s) : /\ t.mon[d] = IF d = c THEN m ELSE s.mon[d]
                            /\ t.tags[d] = IF d = c THEN ts ELSE s.tags[d]
  BY <1>1 DEF State, Moves
<1>3. OneTag(t)
  BY <1>1, <1>2 DEF OneTag, Moves
<1>4. ASSUME Steady PROVE Home(t)
  <2>1. Home(s)
    BY <1>4 DEF Neat
  <2> QED
    BY <1>1, <1>2, <2>1 DEF Home, Moves
<1>5. Retags(s, t)
  BY <1>2 DEF Retags
<1> QED
  BY <1>3, <1>4, <1>5

\* Nor to the selections, when no monitor but k has that window selected, and a
\* selection that changed on the way is of a window visible there.
LEMMA MoveChosen ==
    ASSUME NEW s, Well(s), Neat(s, 0), NEW c \in Managed(s), NEW m, NEW ts,
           NEW t, Moves(s, t, c, m, ts), Steady, PlainPlacement, NEW k,
           \A j \in Mon(s) \ {k} :
             t.sel[j] # NoClient =>
               /\ t.sel[j] # c
               /\ \/ t.sel[j] = s.sel[j]
                  \/ t.sel[j] \in Managed(s) /\ ISVISIBLE(s, t.sel[j], j)
    PROVE  Chosen(t, k)
<1>1. /\ s \in State /\ c \in Client /\ Managed(s) \subseteq Client
      /\ Mon(t) = Mon(s) /\ OneTag(s) /\ Home(s) /\ Chosen(s, 0)
  BY ToSetFacts DEF Well, Core, State, Managed, Neat, Moves, Mon
<1>2. \A d \in Managed(s) : d # c => t.mon[d] = s.mon[d] /\ t.tags[d] = s.tags[d]
  BY <1>1 DEF State, Moves
<1> SUFFICES ASSUME NEW j \in Mon(s) \ {k}, t.sel[j] # NoClient
             PROVE  /\ t.sel[j] \in Managed(s) /\ t.mon[t.sel[j]] = j
                    /\ t.tags[t.sel[j]] = t.tagset[j]
  BY <1>1 DEF Chosen, Moves
<1> DEFINE d == t.sel[j]
<1>3. /\ d \in Managed(s) /\ s.mon[d] = j /\ s.tags[d] = s.tagset[j]
  <2>1. CASE d = s.sel[j]
    <3>1. j \in Mon(s) \ {0}
      BY DEF Mon
    <3> QED
      BY <1>1, <2>1, <3>1 DEF Chosen
  <2>2. CASE d # s.sel[j]
    <3>1. d \in Managed(s) /\ ISVISIBLE(s, d, j)
      BY <2>2
    <3> HIDE DEF d
    <3> QED
      BY <1>1, <3>1, VisibleFacts DEF Home
  <2> QED
    BY <2>1, <2>2
<1>4. d # c
  OBVIOUS
<1> QED
  BY <1>2, <1>3, <1>4 DEF Moves

\* tag() retags the selected window, and gives it to the monitor that shows its
\* new tag.
LEMMA TagNeat ==
    ASSUME NEW s, Well(s), Focused(s), Neat(s, 0), NEW ui \in SingleTags
    PROVE  Tidy(tag(s, ui)) /\ Retags(s, tag(s, ui))
<1> DEFINE n == s.selmon
           c == s.sel[n]
           others == Showing(s, n, ui)
           retagged == [s EXCEPT !.tags[c] = ui]
           t == IF others # {} THEN [retagged EXCEPT !.mon[c] = Min(others)]
                               ELSE retagged
           m == IF others # {} THEN Min(others) ELSE s.mon[c]
<1>1. /\ c \in Managed(s) \cup {NoClient} /\ Managed(s) \subseteq Client
      /\ s \in State /\ OneTag(s)
  BY SelectedFacts, ToSetFacts
     DEF SelectedClient, Well, Core, State, Managed, Neat
<1>2. CASE c = NoClient \/ (others # {} /\ ui \cap s.tagset[n] # {})
  BY <1>2, CalmFacts DEF tag, Tidy, TidyBut
<1>3. CASE ~(c = NoClient \/ (others # {} /\ ui \cap s.tagset[n] # {}))
  <2>1. c \in Managed(s) /\ c \in Client /\ s.mon[c] = n
    BY <1>1, <1>3 DEF Focused, SelectedClient
  <2>2. tag(s, ui) = focus(t, NoClient)
    BY <1>3 DEF tag
  <2>3. /\ others = {k \in Mon(s) \ {n} : s.tagset[k] = ui}
        /\ others # {} => Min(others) \in Mon(s) \ {n} /\ s.tagset[Min(others)] = ui
    BY <1>1, ShowingOne
  <2>4. m \in Mon(s) \cup {1}
    BY <2>3, OwnerFacts, <2>1
  <2>5. \A k \in Mon(s) : s.tagset[k] = ui => m = k
    <3>1. CASE others = {}
      BY <2>1, <2>3, <3>1
    <3>2. CASE others # {}
      BY <1>1, <2>3, <3>2 DEF OneTag
    <3> QED
      BY <3>1, <3>2
  <2>6. ui \in SUBSET Tag
    BY SingleFacts
  <2>7. /\ t.clients = s.clients /\ t.n_monitors = s.n_monitors
        /\ t.tagset = s.tagset /\ t.alttagset = s.alttagset
        /\ t.mon = [s.mon EXCEPT ![c] = m] /\ t.tags = [s.tags EXCEPT ![c] = ui]
        /\ t.sel = s.sel /\ t.selmon = n
    <3> HIDE DEF c, n, others
    <3>1. CASE others # {}
      BY <1>1, <3>1 DEF State, n
    <3>2. CASE others = {}
      <4>1. s.mon = [s.mon EXCEPT ![c] = s.mon[c]]
        BY <1>1, <2>1 DEF State
      <4> QED
        BY <1>1, <3>2, <4>1 DEF State, n
    <3> QED
      BY <3>1, <3>2
  <2>8. Well(t) /\ Keeps(s, t)
    <3> HIDE DEF c, others
    <3>1. Well(retagged) /\ Keeps(s, retagged)
      BY <2>1, <2>6, RetagFacts
    <3>2. others # {} => Min(others) \in Mon(retagged) \cup {1}
      BY <2>3, <3>1 DEF Keeps, Mon
    <3> HIDE DEF retagged
    <3>3. others # {} => /\ Well([retagged EXCEPT !.mon[c] = Min(others)])
                         /\ Keeps(retagged, [retagged EXCEPT !.mon[c] = Min(others)])
      BY <2>1, <3>1, <3>2, ReownFacts
    <3> QED
      BY <3>1, <3>3 DEF Keeps
  <2> HIDE DEF t, m, others
  <2>9. Moves(s, t, c, m, ui)
    BY <2>7 DEF Moves, Managed
  <2> HIDE DEF c
  <2>10. OneTag(t) /\ (Steady => Home(t)) /\ Retags(s, t)
    BY <2>1, <2>5, <2>9, MoveNeat
  <2>11. ASSUME Steady, PlainPlacement PROVE Chosen(t, n)
    <3>1. ASSUME NEW j \in Mon(s) \ {n} PROVE s.sel[j] # c
      <4>1. Chosen(s, 0) /\ j \in Mon(s) \ {0}
        BY <2>11 DEF Neat, Mon
      <4>2. c # NoClient
        BY <2>1, ClientAssumption
      <4> QED
        BY <2>1, <4>1, <4>2 DEF Chosen
    <3> QED
      BY <2>1, <2>7, <2>9, <2>11, <3>1, MoveChosen
  <2>12. TidyBut(t, t.selmon)
    BY <2>7, <2>10, <2>11 DEF TidyBut, Neat
  <2>13. Tidy(focus(t, NoClient)) /\ Calm(t, focus(t, NoClient))
    BY <2>8, <2>12, FocusTidy
  <2> QED
    BY <2>2, <2>10, <2>13, CalmFacts
<1> QED
  BY <1>2, <1>3

\* So does the tag() of the bindings that give one tag.
LEMMA TagTidy ==
    ASSUME NEW s, Well(s), Focused(s), Tidy(s), NEW ui \in SingleTags
    PROVE  Tidy(tag(s, ui)) /\ Retags(s, tag(s, ui))
<1>1. ui \in SUBSET Tag /\ ui # {}
  BY SingleFacts
<1> QED
  BY <1>1, LoneTag, TagNeat DEF Tidy, TidyBut

\* What sendmon() and togglescratch() do to a client before they focus: out of
\* the focus stack (and the client list), to monitor m with tags ts, and back.
Sent(s, c, m, ts) ==
    attachstack(attach(Placed(detachstack(detach(unfocus(s, c), c), c), c, m, ts),
                       c), c)
Brought(s, c, m, ts) == attachstack(Placed(detachstack(s, c), c, m, ts), c)

\* No selection but that of the client's old monitor changes, and that one only
\* if it was the client.
LEMMA BroughtFacts ==
    ASSUME NEW s, NEW A, NEW B, Core(s), Lists(s, A, B), NEW c \in B,
           NEW m \in Mon(s) \cup {1}, NEW ts \in SUBSET Tag
    PROVE  LET t == Brought(s, c, m, ts)
               k == s.mon[c]
           IN  /\ Core(t) /\ Lists(t, A, B)
               /\ t.n_monitors = s.n_monitors /\ t.selmon = s.selmon
               /\ t.tagset = s.tagset /\ t.alttagset = s.alttagset
               /\ t.mon = [s.mon EXCEPT ![c] = m]
               /\ t.tags = [s.tags EXCEPT ![c] = ts]
               /\ \A j \in Slot : j # k => t.sel[j] = s.sel[j]
               /\ t.sel[k] # c
               /\ t.sel[k] # s.sel[k] /\ t.sel[k] # NoClient =>
                    t.sel[k] \in B /\ ISVISIBLE(s, t.sel[k], k)
<1> DEFINE off == detachstack(s, c)
           on  == Placed(off, c, m, ts)
           t   == attachstack(on, c)
           k   == s.mon[c]
<1>1. c \in Client /\ (B \ {c}) \cup {c} = B /\ c \notin B \ {c}
  BY ToSetFacts DEF Core, State, Lists
<1>2. /\ Core(off) /\ Lists(off, A, B \ {c})
      /\ Same(s, off) /\ off.selmon = s.selmon
      /\ \A j \in Slot : j # k => off.sel[j] = s.sel[j]
      /\ off.sel[k] # c
      /\ off.sel[k] # s.sel[k] /\ off.sel[k] # NoClient =>
           off.sel[k] \in B /\ ISVISIBLE(s, off.sel[k], k)
  BY DetachstackFacts, DetachstackSame
<1> HIDE DEF off, k
<1>3. m \in Mon(off) \cup {1}
  BY <1>2, SameFacts
<1>4. /\ Core(on) /\ Lists(on, A, B \ {c}) /\ on.n_monitors = off.n_monitors
  BY <1>1, <1>2, <1>3, PlaceFacts
<1>5. /\ on.tagset = off.tagset /\ on.alttagset = off.alttagset
      /\ on.mon = [off.mon EXCEPT ![c] = m]
      /\ on.tags = [off.tags EXCEPT ![c] = ts]
      /\ on.sel = off.sel /\ on.selmon = off.selmon
  BY <1>2 DEF Placed, Core, State
<1> HIDE DEF on
<1>6. Core(t) /\ Lists(t, A, B) /\ t.n_monitors = on.n_monitors
  BY <1>1, <1>4, AttachstackFacts
<1>7. /\ t.tagset = on.tagset /\ t.alttagset = on.alttagset
      /\ t.mon = on.mon /\ t.tags = on.tags
      /\ t.sel = on.sel /\ t.selmon = on.selmon
  BY <1>4 DEF attachstack, Core, State
<1>8. t = Brought(s, c, m, ts)
  BY DEF Brought, on, off
<1> HIDE DEF t
<1> QED
  BY <1>2, <1>4, <1>5, <1>6, <1>7, <1>8 DEF Same, k

\* The same with the client list.
LEMMA SentFacts ==
    ASSUME NEW s, Well(s), NEW c \in Managed(s),
           NEW m \in Mon(s) \cup {1}, NEW ts \in SUBSET Tag
    PROVE  LET t == Sent(s, c, m, ts)
               k == s.mon[c]
           IN  /\ Well(t) /\ t.selmon = s.selmon
               /\ Moves(s, t, c, m, ts)
               /\ \A j \in Slot : j # k => t.sel[j] = s.sel[j]
               /\ t.sel[k] # c
               /\ t.sel[k] # s.sel[k] /\ t.sel[k] # NoClient =>
                    t.sel[k] \in Managed(s) /\ ISVISIBLE(s, t.sel[k], k)
<1> DEFINE M   == Managed(s)
           s1  == unfocus(s, c)
           s2  == detach(s1, c)
           off == detachstack(s2, c)
           on  == Placed(off, c, m, ts)
           s3  == attach(on, c)
           t   == attachstack(s3, c)
           k   == s.mon[c]
<1>1. /\ c \in Client /\ (M \ {c}) \cup {c} = M /\ c \notin M \ {c}
  BY OwnerFacts
<1>2. /\ Core(s1) /\ Lists(s1, M, M) /\ s1 \in State
      /\ Same(s, s1) /\ s1.sel = s.sel /\ s1.selmon = s.selmon
  <2>1. Well(s1) /\ Keeps(s, s1)
    BY UnfocusFacts
  <2>2. Same(s, s1) /\ s1.sel = s.sel /\ s1 \in State
    BY ActiveSame DEF Well, Core
  <2>3. s1.selmon = s.selmon
    BY DEF unfocus, Well, Core, State
  <2> QED
    BY <2>1, <2>2, <2>3 DEF Well, Keeps
<1> HIDE DEF s1
<1>3. Core(s2) /\ Lists(s2, M \ {c}, M) /\ s2.n_monitors = s1.n_monitors
  BY <1>2, DetachFacts
<1>4. /\ s2.tagset = s1.tagset /\ s2.alttagset = s1.alttagset
      /\ s2.mon = s1.mon /\ s2.tags = s1.tags
      /\ s2.sel = s1.sel /\ s2.selmon = s1.selmon
  BY <1>2 DEF detach, State
<1> HIDE DEF s2
<1>5. /\ Core(off) /\ Lists(off, M \ {c}, M \ {c})
      /\ Same(s2, off) /\ off.selmon = s2.selmon
      /\ \A j \in Slot : j # s2.mon[c] => off.sel[j] = s2.sel[j]
      /\ off.sel[s2.mon[c]] # c
      /\ off.sel[s2.mon[c]] # s2.sel[s2.mon[c]] /\ off.sel[s2.mon[c]] # NoClient =>
           off.sel[s2.mon[c]] \in M /\ ISVISIBLE(s2, off.sel[s2.mon[c]], s2.mon[c])
  BY <1>3, DetachstackFacts, DetachstackSame
<1>6. s2.mon[c] = k
  BY <1>2, <1>4 DEF Same
<1> HIDE DEF off, k
<1>7. /\ \A j \in Slot : j # k => off.sel[j] = s.sel[j]
      /\ off.sel[k] # c
      /\ off.sel[k] # s.sel[k] /\ off.sel[k] # NoClient =>
           off.sel[k] \in M /\ ISVISIBLE(s, off.sel[k], k)
  <2>1. \A d : ISVISIBLE(s2, d, k) => ISVISIBLE(s, d, k)
    BY <1>2, <1>4 DEF Same, ISVISIBLE
  <2> QED
    BY <1>2, <1>4, <1>5, <1>6, <2>1
<1>8. m \in Mon(off) \cup {1} /\ off.n_monitors = s.n_monitors
  BY <1>2, <1>3, <1>5 DEF Same, Mon
<1>9. Core(on) /\ Lists(on, M \ {c}, M \ {c}) /\ on.n_monitors = off.n_monitors
  BY <1>1, <1>5, <1>8, PlaceFacts
<1>10. /\ on.tagset = off.tagset /\ on.alttagset = off.alttagset
       /\ on.mon = [off.mon EXCEPT ![c] = m]
       /\ on.tags = [off.tags EXCEPT ![c] = ts]
       /\ on.sel = off.sel /\ on.selmon = off.selmon
  BY <1>5 DEF Placed, Core, State
<1> HIDE DEF on
<1>11. Core(s3) /\ Lists(s3, M, M \ {c}) /\ s3.n_monitors = on.n_monitors
  BY <1>1, <1>9, AttachFacts
<1>12. /\ s3.tagset = on.tagset /\ s3.alttagset = on.alttagset
       /\ s3.mon = on.mon /\ s3.tags = on.tags
       /\ s3.sel = on.sel /\ s3.selmon = on.selmon
  BY <1>9 DEF attach, Core, State
<1> HIDE DEF s3
<1>13. Core(t) /\ Lists(t, M, M) /\ t.n_monitors = s3.n_monitors
  BY <1>1, <1>11, AttachstackFacts
<1>14. /\ t.tagset = s3.tagset /\ t.alttagset = s3.alttagset
       /\ t.mon = s3.mon /\ t.tags = s3.tags
       /\ t.sel = s3.sel /\ t.selmon = s3.selmon
  BY <1>11 DEF attachstack, Core, State
<1>15. t = Sent(s, c, m, ts)
  BY DEF Sent, s3, on, off, s2, s1
<1> HIDE DEF t
<1>16. Managed(t) = M /\ Well(t)
  BY <1>13 DEF Well, Lists, Managed
<1>17. Moves(s, t, c, m, ts)
  BY <1>2, <1>4, <1>5, <1>8, <1>9, <1>10, <1>11, <1>12, <1>13, <1>14, <1>16
     DEF Moves, Same
<1>18. t.selmon = s.selmon /\ t.sel = off.sel
  BY <1>2, <1>4, <1>5, <1>10, <1>12, <1>14
<1> QED
  BY <1>7, <1>15, <1>16, <1>17, <1>18 DEF k

\* sendmon() retags the window it sends, and repairs the selection it leaves.
LEMMA SendmonNeat ==
    ASSUME NEW s, Well(s), Neat(s, 0), NEW c \in Managed(s), NEW m \in Mon(s)
    PROVE  Tidy(sendmon(s, c, m)) /\ Retags(s, sendmon(s, c, m))
<1> DEFINE ts == s.tagset[m]
           t  == Sent(s, c, m, ts)
           k  == s.mon[c]
<1>1. CASE s.mon[c] = m
  BY <1>1, CalmFacts DEF sendmon, Tidy, TidyBut
<1>2. CASE s.mon[c] # m
  <2>1. /\ OneTag(s) /\ c \in Client /\ Mon(s) \subseteq Slot
        /\ ts \in SingleTags /\ ts \in SUBSET Tag
    BY OwnerFacts, MonFacts, SingleFacts DEF Neat, OneTag, Well, Core
  <2>2. /\ Well(t) /\ t.selmon = s.selmon /\ Moves(s, t, c, m, ts)
        /\ \A j \in Slot : j # k => t.sel[j] = s.sel[j]
        /\ t.sel[k] # c
        /\ t.sel[k] # s.sel[k] /\ t.sel[k] # NoClient =>
             t.sel[k] \in Managed(s) /\ ISVISIBLE(s, t.sel[k], k)
    BY <2>1, SentFacts
  <2>3. sendmon(s, c, m) = focus(t, NoClient)
    BY <1>2 DEF sendmon, Sent, Placed
  <2>4. \A j \in Mon(s) : s.tagset[j] = ts => m = j
    BY <2>1 DEF OneTag
  <2> HIDE DEF t, ts
  <2>5. OneTag(t) /\ (Steady => Home(t)) /\ Retags(s, t)
    BY <2>1, <2>2, <2>4, MoveNeat
  <2>6. ASSUME Steady, PlainPlacement PROVE Chosen(t, t.selmon)
    <3>1. Chosen(s, 0)
      BY <2>6 DEF Neat
    <3>2. ASSUME NEW j \in Mon(s), j # k PROVE s.sel[j] # c
      <4>1. j \in Mon(s) \ {0} /\ c # NoClient
        BY <2>1, ClientAssumption DEF Mon
      <4> QED
        BY <3>1, <3>2, <4>1 DEF Chosen
    <3>3. \A j \in Mon(s) \ {t.selmon} :
            t.sel[j] # NoClient =>
              /\ t.sel[j] # c
              /\ \/ t.sel[j] = s.sel[j]
                 \/ t.sel[j] \in Managed(s) /\ ISVISIBLE(s, t.sel[j], j)
      BY <2>1, <2>2, <3>2
    <3> QED
      BY <2>2, <2>6, <3>3, MoveChosen
  <2>7. TidyBut(t, t.selmon)
    BY <2>5, <2>6 DEF TidyBut, Neat
  <2>8. Tidy(focus(t, NoClient)) /\ Calm(t, focus(t, NoClient))
    BY <2>2, <2>7, FocusTidy
  <2> QED
    BY <2>3, <2>5, <2>8, CalmFacts
<1> QED
  BY <1>1, <1>2

\* A lone monitor sends nothing anywhere.
LEMMA SendmonTidy ==
    ASSUME NEW s, Well(s), Tidy(s), NEW c \in Managed(s), NEW m \in Mon(s)
    PROVE  Tidy(sendmon(s, c, m)) /\ Retags(s, sendmon(s, c, m))
<1>1. CASE Lone(s)
  <2>1. s.mon[c] = m
    BY <1>1, LoneFacts
  <2> QED
    BY <2>1, CalmFacts DEF sendmon
<1> QED
  BY <1>1, SendmonNeat DEF Tidy, TidyBut

\* togglescratch() puts the scratchpad away, or shows it on the selected monitor.
LEMMA TogglescratchNeat ==
    ASSUME NEW s, Well(s), Neat(s, 0)
    PROVE  Tidy(togglescratch(s)) /\ Retags(s, togglescratch(s))
<1> DEFINE at == {i \in DOMAIN s.clients : s.clients[i] \in Scratch}
           c  == s.clients[Min(at)]
           n  == s.selmon
           ts == s.tagset[n]
           k  == s.mon[c]
           away == [s EXCEPT !.tags[c] = {}]
           stay == [s EXCEPT !.tags[c] = ts]
           moved == attachstack([detachstack(s, c) EXCEPT !.mon[c] = n], c)
           come == [moved EXCEPT !.tags[c] = ts]
<1>1. CASE at = {}
  BY <1>1, CalmFacts DEF togglescratch, Tidy, TidyBut
<1>2. CASE at # {}
  <2>1. s \in State /\ s.clients \in Seq(Client) /\ OneTag(s)
    BY DEF Well, Core, State, Neat
  <2>2. c \in Managed(s) /\ c \in Client /\ c # NoClient
    <3>1. at \in SUBSET Nat
      BY <2>1
    <3>2. Min(at) \in at
      BY <1>2, <3>1, MinFacts
    <3>3. c \in Managed(s)
      BY <2>1, <3>2 DEF Managed, ToSet
    <3> QED
      BY <3>3, OwnerFacts, ClientAssumption
  <2>3. /\ n \in Mon(s) \cup {1} /\ n \in Slot /\ ts \in SingleTags /\ ts \in SUBSET Tag
        /\ Mon(s) \subseteq Slot /\ (Mon(s) # {} => n \in Mon(s))
    <3>1. n \in Mon(s) \cup {1} /\ n \in Slot /\ (Mon(s) # {} => n \in Mon(s))
      BY SelmonLive DEF Well, Core
    <3>2. ts \in SingleTags
      BY <2>1, <3>1 DEF OneTag
    <3> HIDE DEF n, ts
    <3> QED
      BY <2>1, <3>1, <3>2, MonFacts, SingleFacts
  <2>4. ASSUME Steady PROVE Home(s) /\ n \in Mon(s) /\ (PlainPlacement => Chosen(s, 0))
    BY <2>3, <2>4 DEF Home, Neat
  <2>5. \/ ISVISIBLE(s, c, n) /\ togglescratch(s) = focus(away, NoClient)
        \/ ~ISVISIBLE(s, c, n) /\ k = n /\ togglescratch(s) = focus(stay, c)
        \/ ~ISVISIBLE(s, c, n) /\ k # n /\ togglescratch(s) = focus(come, c)
    BY <1>2 DEF togglescratch
  <2> HIDE DEF c, n, at
  <2>6. ISVISIBLE(s, c, n) <=> s.tags[c] = ts
    BY <2>1, <2>2, <2>3, VisibleFacts
  <2>7. ASSUME Steady, PlainPlacement, NEW j \in Mon(s), j # k PROVE s.sel[j] # c
    <3>1. j \in Mon(s) \ {0}
      BY DEF Mon
    <3> QED
      BY <2>2, <2>4, <2>7, <3>1 DEF Chosen
  <2>8. \A j \in Mon(s) : s.tagset[j] = ts => (n \in Mon(s) => n = j)
    BY <2>1, <2>3 DEF OneTag
  <2>9. \A j \in Mon(s) : s.tagset[j] = ts => n = j
    BY <2>3, <2>8
  <2>10. CASE ISVISIBLE(s, c, n) /\ togglescratch(s) = focus(away, NoClient)
    <3>1. Well(away)
      BY <2>2, RetagFacts
    <3>2. Moves(s, away, c, k, {}) /\ away.sel = s.sel /\ away.selmon = n
      <4>1. s.mon = [s.mon EXCEPT ![c] = k]
        BY <2>1, <2>2 DEF State
      <4>2. /\ away.clients = s.clients /\ away.n_monitors = s.n_monitors
            /\ away.tagset = s.tagset /\ away.alttagset = s.alttagset
            /\ away.mon = s.mon /\ away.tags = [s.tags EXCEPT ![c] = {}]
            /\ away.sel = s.sel /\ away.selmon = n
        BY <2>1 DEF State, n
      <4> HIDE DEF away, k
      <4> QED
        BY <4>1, <4>2 DEF Moves, Managed
    <3> HIDE DEF away, k
    <3>3. \A j \in Mon(s) : s.tagset[j] # {}
      BY <2>1, SingleFacts DEF OneTag
    <3>4. OneTag(away) /\ (Steady => Home(away)) /\ Retags(s, away)
      BY <2>2, <3>1, <3>2, <3>3, MoveNeat
    <3>5. ASSUME Steady, PlainPlacement PROVE Chosen(away, n)
      <4>1. k = n
        BY <2>2, <2>4, <2>6, <2>10, <3>5 DEF Home, k
      <4>2. \A j \in Mon(s) \ {n} : away.sel[j] # c
        BY <2>7, <3>2, <3>5, <4>1
      <4> QED
        BY <2>2, <3>2, <3>5, <4>2, MoveChosen
    <3>6. TidyBut(away, away.selmon)
      BY <3>2, <3>4, <3>5 DEF TidyBut, Neat
    <3>7. Tidy(focus(away, NoClient)) /\ Calm(away, focus(away, NoClient))
      BY <3>1, <3>6, FocusTidy
    <3> QED
      BY <2>10, <3>4, <3>7, CalmFacts
  <2>11. CASE k = n /\ togglescratch(s) = focus(stay, c)
    <3>1. Well(stay)
      BY <2>2, <2>3, RetagFacts
    <3>2. Moves(s, stay, c, n, ts) /\ stay.sel = s.sel /\ stay.selmon = n
      <4>1. s.mon = [s.mon EXCEPT ![c] = n]
        BY <2>1, <2>2, <2>11 DEF State
      <4>2. /\ stay.clients = s.clients /\ stay.n_monitors = s.n_monitors
            /\ stay.tagset = s.tagset /\ stay.alttagset = s.alttagset
            /\ stay.mon = s.mon /\ stay.tags = [s.tags EXCEPT ![c] = ts]
            /\ stay.sel = s.sel /\ stay.selmon = n
        BY <2>1 DEF State, n
      <4> HIDE DEF stay, k, ts
      <4> QED
        BY <4>1, <4>2 DEF Moves, Managed
    <3> HIDE DEF stay, k, ts
    <3>3. OneTag(stay) /\ (Steady => Home(stay)) /\ Retags(s, stay)
      BY <2>2, <2>3, <2>9, <3>1, <3>2, MoveNeat
    <3>4. ASSUME Steady, PlainPlacement PROVE Chosen(stay, n)
      <4>1. \A j \in Mon(s) \ {n} : stay.sel[j] # c
        BY <2>7, <2>11, <3>2, <3>4
      <4> QED
        BY <2>2, <3>2, <3>4, <4>1, MoveChosen
    <3>5. TidyBut(stay, stay.selmon)
      BY <3>2, <3>3, <3>4 DEF TidyBut, Neat
    <3>6. c \in Managed(stay)
      BY <2>2, <3>2 DEF Moves
    <3>7. Tidy(focus(stay, c)) /\ Calm(stay, focus(stay, c))
      BY <3>1, <3>5, <3>6, FocusTidy
    <3> QED
      BY <2>11, <3>3, <3>7, CalmFacts
  <2>12. CASE k # n /\ togglescratch(s) = focus(come, c)
    <3>1. come = Brought(s, c, n, ts)
      <4>1. detachstack(s, c) \in State
        BY <2>2, DetachstackFacts DEF Well, Core
      <4> QED
        BY <4>1 DEF Brought, Placed, attachstack, State
    <3> HIDE DEF come, ts
    <3>2. /\ Core(come) /\ Lists(come, Managed(s), Managed(s))
          /\ come.n_monitors = s.n_monitors /\ come.selmon = s.selmon
          /\ come.tagset = s.tagset /\ come.alttagset = s.alttagset
          /\ come.mon = [s.mon EXCEPT ![c] = n]
          /\ come.tags = [s.tags EXCEPT ![c] = ts]
          /\ \A j \in Slot : j # k => come.sel[j] = s.sel[j]
          /\ come.sel[k] # c
          /\ come.sel[k] # s.sel[k] /\ come.sel[k] # NoClient =>
               come.sel[k] \in Managed(s) /\ ISVISIBLE(s, come.sel[k], k)
      <4>1. Core(s) /\ Lists(s, Managed(s), Managed(s))
        BY DEF Well
      <4> QED
        BY <2>2, <2>3, <3>1, <4>1, BroughtFacts
    <3>3. Managed(come) = Managed(s) /\ Well(come)
      BY <3>2 DEF Well, Lists, Managed
    <3>4. Moves(s, come, c, n, ts)
      BY <3>2, <3>3 DEF Moves
    <3> HIDE DEF k
    <3>5. OneTag(come) /\ (Steady => Home(come)) /\ Retags(s, come)
      BY <2>2, <2>3, <2>9, <3>4, MoveNeat
    <3>6. ASSUME Steady, PlainPlacement PROVE Chosen(come, n)
      <4>1. \A j \in Mon(s) \ {n} :
              come.sel[j] # NoClient =>
                /\ come.sel[j] # c
                /\ \/ come.sel[j] = s.sel[j]
                   \/ come.sel[j] \in Managed(s) /\ ISVISIBLE(s, come.sel[j], j)
        BY <2>3, <2>7, <3>2, <3>6
      <4> QED
        BY <2>2, <3>4, <3>6, <4>1, MoveChosen
    <3>7. come.selmon = n
      BY <3>2 DEF n
    <3>8. TidyBut(come, come.selmon)
      BY <3>5, <3>6, <3>7 DEF TidyBut, Neat
    <3>9. Tidy(focus(come, c)) /\ Calm(come, focus(come, c))
      BY <2>2, <3>3, <3>8, FocusTidy
    <3> QED
      BY <2>12, <3>5, <3>9, CalmFacts
  <2> QED
    BY <2>5, <2>10, <2>11, <2>12
<1> QED
  BY <1>1, <1>2

\* On a lone monitor only the scratchpad is retagged as well.
LEMMA TogglescratchTidy ==
    ASSUME NEW s, Well(s), Tidy(s)
    PROVE  Tidy(togglescratch(s)) /\ Retags(s, togglescratch(s))
<1>1. CASE Lone(s)
  <2> DEFINE at == {i \in DOMAIN s.clients : s.clients[i] \in Scratch}
             c  == s.clients[Min(at)]
             t(ts) == [s EXCEPT !.tags[c] = ts]
  <2>1. /\ s \in State /\ s.clients \in Seq(Client) /\ s.selmon = 1 /\ 1 \in Slot
        /\ \A d \in Managed(s) : s.mon[d] = 1 /\ d \in Client
    BY <1>1, LoneFacts, OwnerFacts DEF Well, Core, State
  <2>2. Tidy(togglescratch(s))
    BY <1>1, TogglescratchFacts, LoneFacts DEF Done
  <2>3. CASE at = {}
    BY <2>2, <2>3, CalmFacts DEF togglescratch
  <2>4. CASE at # {}
    <3>1. c \in Managed(s) /\ c \in Client
      <4>1. at \in SUBSET Nat
        BY <2>1
      <4>2. Min(at) \in at
        BY <2>4, <4>1, MinFacts
      <4>3. c \in Managed(s)
        <5> HIDE DEF c
        <5>1. Min(at) \in DOMAIN s.clients /\ c = s.clients[Min(at)]
          BY <4>2 DEF c
        <5> QED
          BY <5>1 DEF Managed, ToSet
      <4> QED
        BY <4>3, OwnerFacts
    <3>2. \/ togglescratch(s) = focus(t({}), NoClient)
          \/ togglescratch(s) = focus(t(s.tagset[1]), c)
      <4>1. s.mon[c] = 1
        BY <2>1, <3>1
      <4> QED
        BY <2>1, <2>4, <4>1 DEF togglescratch
    <3> HIDE DEF c
    <3>3. ASSUME NEW ts \in SUBSET Tag, NEW d \in {NoClient, c}
          PROVE  Retags(s, focus(t(ts), d))
      <4>1. Well(t(ts))
        BY <3>1, RetagFacts
      <4>2. Managed(t(ts)) = Managed(s) /\ t(ts).tags = [s.tags EXCEPT ![c] = ts]
        BY <2>1 DEF State, Managed
      <4> HIDE DEF t
      <4>3. Retags(s, t(ts))
        BY <2>1, <4>2 DEF Retags, State
      <4>4. Calm(t(ts), focus(t(ts), d))
        BY <3>1, <4>1, <4>2, FocusSame, SameFacts
      <4> QED
        BY <4>3, <4>4, CalmFacts
    <3>4. s.tagset[1] \in SUBSET Tag
      BY <2>1 DEF State
    <3> HIDE DEF t
    <3> QED
      BY <2>2, <3>2, <3>3, <3>4
  <2> QED
    BY <2>3, <2>4
<1> QED
  BY <1>1, TogglescratchNeat DEF Tidy, TidyBut

\* Reordering the client list and hiding or showing a window retag nothing.
LEMMA ReorderTidy ==
    ASSUME NEW s, Well(s), Tidy(s), NEW c \in Managed(s)
    PROVE  /\ Tidy(pop(s, c)) /\ Calm(s, pop(s, c))
           /\ Tidy(hide(s, c)) /\ Calm(s, hide(s, c))
           /\ Tidy(show(s, c)) /\ Calm(s, show(s, c))
<1> DEFINE M == Managed(s)
           r == detach(s, c)
           u == attach(r, c)
           h(b) == [s EXCEPT !.ishidden[c] = b]
<1>1. /\ c \in Client /\ Core(s) /\ Lists(s, M, M) /\ s \in State
      /\ (M \ {c}) \cup {c} = M /\ c \notin M \ {c}
  BY OwnerFacts DEF Well, Core
<1>2. ASSUME NEW t, Well(t), Same(s, t), t.sel = s.sel,
             NEW d \in M \cup {NoClient}
      PROVE  Tidy(focus(t, d)) /\ Calm(s, focus(t, d))
  <2>1. Calm(s, t) /\ TidyBut(t, t.selmon)
    BY <1>2, SameFacts, TidyFacts
  <2> QED
    BY <1>2, <2>1, ThenFocusTidy
<1>3. Well(u) /\ Same(s, u) /\ u.sel = s.sel
  <2>1. Core(r) /\ Lists(r, M \ {c}, M)
    BY <1>1, DetachFacts
  <2>2. /\ r.n_monitors = s.n_monitors /\ r.tags = s.tags /\ r.mon = s.mon
        /\ r.tagset = s.tagset /\ r.alttagset = s.alttagset /\ r.sel = s.sel
    BY <1>1 DEF detach, State
  <2> HIDE DEF r
  <2>3. Core(u) /\ Lists(u, M, M)
    BY <1>1, <2>1, AttachFacts
  <2>4. /\ u.n_monitors = r.n_monitors /\ u.tags = r.tags /\ u.mon = r.mon
        /\ u.tagset = r.tagset /\ u.alttagset = r.alttagset /\ u.sel = r.sel
    BY <2>1 DEF attach, Core, State
  <2> HIDE DEF u
  <2> QED
    BY <2>2, <2>3, <2>4 DEF Well, Lists, Managed, Same
<1>4. ASSUME NEW b \in BOOLEAN
      PROVE  Well(h(b)) /\ Same(s, h(b)) /\ h(b).sel = s.sel
  <2>1. Well(h(b))
    BY <1>1, HiddenFacts
  <2>2. /\ h(b).clients = s.clients /\ h(b).n_monitors = s.n_monitors
        /\ h(b).tags = s.tags /\ h(b).mon = s.mon /\ h(b).tagset = s.tagset
        /\ h(b).alttagset = s.alttagset /\ h(b).sel = s.sel
    BY <1>1 DEF State
  <2> HIDE DEF h
  <2> QED
    BY <2>1, <2>2 DEF Same, Managed
<1>5. pop(s, c) = focus(u, c)
  BY DEF pop
<1>6. /\ hide(s, c) = s \/ hide(s, c) = focus(h(TRUE), NoClient)
      /\ show(s, c) = s \/ show(s, c) = focus(h(FALSE), c)
  BY DEF hide, show
<1> HIDE DEF u, h
<1>7. Tidy(focus(u, c)) /\ Calm(s, focus(u, c))
  BY <1>2, <1>3
<1>8. /\ Tidy(focus(h(TRUE), NoClient)) /\ Calm(s, focus(h(TRUE), NoClient))
      /\ Tidy(focus(h(FALSE), c)) /\ Calm(s, focus(h(FALSE), c))
  BY <1>2, <1>4
<1>9. Tidy(s) /\ Calm(s, s)
  BY CalmFacts
<1>10. Tidy(pop(s, c)) /\ Calm(s, pop(s, c))
  BY <1>5, <1>7
<1>11. Tidy(hide(s, c)) /\ Calm(s, hide(s, c))
  BY <1>6, <1>8, <1>9
<1>12. Tidy(show(s, c)) /\ Calm(s, show(s, c))
  BY <1>6, <1>8, <1>9
<1> QED
  BY <1>10, <1>11, <1>12

\* So does a click on a tab, whatever it leads to.
LEMMA ClickedTidy ==
    ASSUME NEW s, Well(s), Focused(s), Tidy(s)
    PROVE  /\ \A c \in Managed(s) : \A t \in focuswin(s, c) : Tidy(t) /\ Calm(s, t)
           /\ \A floating : /\ Tidy(zoom(s, floating))
                            /\ Calm(s, zoom(s, floating))
<1>1. ASSUME NEW c \in Managed(s), NEW t \in focuswin(s, c)
      PROVE  Tidy(t) /\ Calm(s, t)
  <2>1. t \in {show(s, c), hide(s, c), pop(s, c), focus(s, c), s}
    BY DEF focuswin
  <2> QED
    BY <2>1, ReorderTidy, PointerTidy, CalmFacts
<1>2. ASSUME NEW floating
      PROVE  Tidy(zoom(s, floating)) /\ Calm(s, zoom(s, floating))
  <2> DEFINE c     == SelectedClient(s)
             i     == Position(s.clients, c)
             tiled == VisibleAt(s, floating \cup {d \in Client : s.ishidden[d]})
             after == {j \in tiled : j > i}
  <2>1. /\ after \in SUBSET tiled /\ after \in SUBSET Nat
        /\ \A j \in tiled : s.clients[j] \in Managed(s)
    BY VisibleAtFacts
  <2>2. after # {} => s.clients[Min(after)] \in Managed(s)
    BY <2>1, MinFacts
  <2>3. c # NoClient => c \in Managed(s)
    BY SelectedFacts
  <2>4. \/ zoom(s, floating) = s
        \/ c # NoClient /\ zoom(s, floating) = pop(s, c)
        \/ after # {} /\ zoom(s, floating) = pop(s, s.clients[Min(after)])
    BY DEF zoom
  <2> HIDE DEF c, after
  <2> QED
    BY <2>2, <2>3, <2>4, ReorderTidy, CalmFacts
<1> QED
  BY <1>1, <1>2

-----------------------------------------------------------------------------
(***************************************************************************)
(* Requests to show a window.                                              *)
(***************************************************************************)

\* _NET_ACTIVE_WINDOW views one of the window's tags, its own when it has one.
LEMMA LowestTag ==
    ASSUME NEW s, Well(s), NEW c \in Managed(s), s.tags[c] # {}
    PROVE  /\ {Min(s.tags[c])} \in SingleTags
           /\ {Min(s.tags[c])} \cap s.tags[c] # {}
           /\ OneTag(s) => {Min(s.tags[c])} = s.tags[c]
<1>1. s.tags[c] \in SUBSET Tag /\ Tag \subseteq Nat
  BY OwnerFacts, NumTagsAssumption DEF Tag
<1>2. Min(s.tags[c]) \in s.tags[c]
  BY <1>1, MinFacts
<1>3. {Min(s.tags[c])} \in SingleTags
  BY <1>1, <1>2 DEF SingleTags
<1>4. ASSUME OneTag(s) PROVE {Min(s.tags[c])} = s.tags[c]
  <2>1. PICK t \in Tag : s.tags[c] = {t}
    BY <1>4 DEF SingleTags, OneTag
  <2> QED
    BY <1>2, <2>1
<1> QED
  BY <1>2, <1>3, <1>4

\* Requests retag nothing.
LEMMA RequestTidy ==
    ASSUME NEW s, Well(s), Tidy(s), NEW c \in Managed(s)
    PROVE  /\ s.tags[c] # {} => Tidy(activate(s, c)) /\ Calm(s, activate(s, c))
           /\ Tidy(preview_focus(s, c)) /\ Calm(s, preview_focus(s, c))
           /\ \A all : /\ Tidy(switcher_confirm(s, c, all))
                       /\ Calm(s, switcher_confirm(s, c, all))
<1> DEFINE t == [s EXCEPT !.selmon = s.mon[c]]
<1>1. /\ Well(t) /\ Tidy(t) /\ Calm(s, t)
  BY OwnerFacts, SelectTidy
<1>2. c \in Managed(t) /\ t.tags = s.tags /\ t.tags[c] \in SUBSET Tag
  BY <1>1, OwnerFacts DEF Calm
<1>3. activate(s, c) = focus(view(t, {Min(s.tags[c])}), c)
  BY DEF activate
<1>4. \/ preview_focus(s, c) = focus(t, c)
      \/ preview_focus(s, c) = focus(view(t, t.tags[c]), c)
  BY DEF preview_focus
<1>5. ASSUME NEW all
      PROVE  \/ switcher_confirm(s, c, all) = focus(s, c)
             \/ switcher_confirm(s, c, all) = focus(view(t, t.tags[c]), c)
  BY DEF switcher_confirm
<1> HIDE DEF t
<1>6. Tidy(focus(t, c)) /\ Calm(s, focus(t, c))
  BY <1>1, <1>2, PointerTidy, CalmFacts
<1>7. Tidy(focus(s, c)) /\ Calm(s, focus(s, c))
  BY PointerTidy
<1>8. ASSUME NEW ui \in SUBSET Tag, Tidy(view(t, ui)), Calm(t, view(t, ui))
      PROVE  Tidy(focus(view(t, ui), c)) /\ Calm(s, focus(view(t, ui), c))
  <2> DEFINE v == view(t, ui)
  <2>1. Well(v) /\ c \in Managed(v)
    BY <1>1, <1>2, <1>8, ViewFacts DEF Done, Calm
  <2> QED
    BY <1>1, <1>8, <2>1, PointerTidy, CalmFacts
\* Of the windows that Neat speaks of, none has several tags.
<1>9. Tidy(view(t, t.tags[c])) /\ Calm(t, view(t, t.tags[c]))
  <2>1. CASE Lone(t)
    BY <1>1, <1>2, <2>1, LoneView
  <2>2. CASE Neat(t, 0)
    <3>1. t.tags[c] \in SingleTags \cup {{}}
      BY <1>2, <2>2 DEF Neat, OneTag
    <3> QED
      BY <1>1, <3>1, ViewTidy
  <2> QED
    BY <1>1, <2>1, <2>2 DEF Tidy, TidyBut
<1>10. ASSUME s.tags[c] # {}
       PROVE  /\ {Min(s.tags[c])} \in SUBSET Tag
              /\ Tidy(view(t, {Min(s.tags[c])})) /\ Calm(t, view(t, {Min(s.tags[c])}))
  <2>1. {Min(s.tags[c])} \in SingleTags
    BY <1>10, LowestTag
  <2> QED
    BY <1>1, <2>1, ViewTidy, SingleFacts
<1> QED
  BY <1>2, <1>3, <1>4, <1>5, <1>6, <1>7, <1>8, <1>9, <1>10

\* view() of a window's own tag on the monitor that owns it shows the window.
LEMMA ViewShows ==
    ASSUME NEW s, Well(s), OneTag(s), Home(s), NEW c \in Managed(s),
           s.tags[c] # {}, s.selmon = s.mon[c]
    PROVE  LET v == view(s, s.tags[c])
           IN  Well(v) /\ c \in Managed(v) /\ ISVISIBLE(v, c, v.selmon)
               /\ v.mon[c] = v.selmon
<1> DEFINE n  == s.selmon
           ts == s.tags[c]
           here == flip(s, n, ts)
           a == attachclients(here, n)
           v == view(s, ts)
           d == SelectedClient(v)
<1>1. /\ s \in State /\ n \in Slot /\ n \in Mon(s) /\ ts \in SingleTags
      /\ ts \in SUBSET Tag /\ ts # {}
  <2>1. s \in State /\ n \in Slot /\ n \in Mon(s)
    BY SelmonLive DEF Well, Core, Home
  <2>2. ts \in SingleTags
    BY DEF OneTag
  <2> QED
    BY <2>1, <2>2, SingleFacts
<1>2. Well(v) /\ Managed(v) = Managed(s)
  BY <1>1, ViewFacts DEF Done, Keeps
<1>3. Showing(s, n, ts) = {}
  BY <1>1, ShowingOne DEF Home
<1>4. CASE ts = s.tagset[n]
  <2>1. v = s
    BY <1>4 DEF view
  <2> QED
    BY <1>1, <1>2, <1>4, <2>1 DEF ISVISIBLE
<1>5. CASE ts # s.tagset[n]
  <2>1. v = focus(a, NoClient)
    BY <1>1, <1>3, <1>5 DEF view
  <2> HIDE DEF n, ts, v
  <2>2. Well(here)
    BY <1>1, FlipFacts
  <2>3. /\ here.clients = s.clients /\ here.tags = s.tags
        /\ here.mon = s.mon /\ here.n_monitors = s.n_monitors
        /\ here.selmon = n
        /\ here.tagset = [s.tagset EXCEPT ![n] = ts]
        /\ here.alttagset = [s.alttagset EXCEPT ![n] = s.tagset[n]]
    BY <1>1 DEF flip, State, n
  <2> HIDE DEF here
  <2>4. Managed(here) = Managed(s) /\ Mon(here) = Mon(s)
    BY <2>3 DEF Managed, Mon
  <2>5. \A k \in Slot :
           /\ here.tagset[k] = IF k = n THEN ts ELSE s.tagset[k]
           /\ here.alttagset[k] = IF k = n THEN s.tagset[n] ELSE s.alttagset[k]
    BY <1>1, <2>3 DEF State
  <2>6. OneTag(here)
    <3>1. 1 \in Slot /\ Mon(s) \subseteq Slot
      BY <1>1, MonFacts, MonitorsAssumption DEF Slot
    <3>2. \A k \in Mon(s) \cup {1} :
            here.tagset[k] \in SingleTags /\ here.alttagset[k] \in SingleTags
      BY <1>1, <2>5, <3>1 DEF OneTag
    <3>3. \A k \in Mon(s) : k # n => s.tagset[k] # ts
      BY <1>1, <1>3, ShowingOne
    <3>4. \A j, k \in Mon(s) : j # k => here.tagset[j] # here.tagset[k]
      BY <2>5, <3>1, <3>3 DEF OneTag
    <3>5. \A e \in Managed(s) : here.tags[e] \in SingleTags \cup {{}}
      BY <2>3 DEF OneTag
    <3> QED
      BY <2>4, <3>2, <3>4, <3>5 DEF OneTag
  <2>7. n \in Mon(here) \cup {1}
    BY <1>1, <2>4
  <2>8. Well(a)
    BY <2>2, <2>7, AttachclientsFacts
  <2>9. /\ Calm(here, a) /\ OneTag(a) /\ Mon(a) = Mon(here)
        /\ a.tagset = here.tagset /\ a.selmon = here.selmon
        /\ \A e \in Managed(here) :
             a.mon[e] = IF here.tags[e] = here.tagset[n] THEN n ELSE here.mon[e]
    BY <2>2, <2>6, <2>7, AttachclientsMoves
  <2>10. /\ Managed(a) = Managed(s) /\ a.selmon = n /\ a.tagset[n] = ts
         /\ a.tags = s.tags
    BY <1>1, <2>3, <2>4, <2>5, <2>9 DEF Calm
  <2> HIDE DEF a
  <2>11. \A e \in Managed(a) : ISVISIBLE(a, e, n) => a.mon[e] = n
    <3>1. \A e \in Managed(a) : ISVISIBLE(a, e, n) => a.tags[e] = a.tagset[n]
      BY <1>1, <2>4, <2>9, VisibleFacts
    <3> QED
      BY <2>3, <2>4, <2>9, <2>10, <3>1
  <2>12. /\ Same(a, v)
         /\ d = NoClient => v.selmon = a.selmon
         /\ d # NoClient => /\ d \in Managed(a) /\ v.selmon = a.mon[d]
                            /\ ISVISIBLE(a, d, a.selmon)
    BY <2>1, <2>8, FocusSame
  <2> HIDE DEF d
  <2>13. v.selmon = n
    BY <2>10, <2>11, <2>12
  <2>14. v.tags = s.tags /\ v.tagset[n] = ts /\ v.mon = a.mon
    BY <2>10, <2>12 DEF Same
  <2>15. ISVISIBLE(v, c, n)
    BY <1>1, <2>14 DEF ISVISIBLE, ts
  <2>16. v.mon[c] = n
    <3>1. ISVISIBLE(a, c, n)
      BY <2>14, <2>12, <2>15 DEF Same, ISVISIBLE
    <3> QED
      BY <2>10, <2>11, <2>14, <3>1
  <2> QED
    BY <1>2, <2>13, <2>15, <2>16 DEF v, ts
<1> QED
  BY <1>4, <1>5

\* So does the view that a request asks for, on a lone monitor or where windows
\* and views have one tag.
LEMMA RequestShows ==
    ASSUME NEW s, Well(s), Lone(s) \/ (OneTag(s) /\ Home(s)), NEW c \in Managed(s),
           s.tags[c] # {}, s.selmon = s.mon[c],
           NEW ui \in {s.tags[c], {Min(s.tags[c])}}
    PROVE  LET v == view(s, ui)
           IN  Well(v) /\ c \in Managed(v) /\ ISVISIBLE(v, c, v.selmon)
               /\ v.mon[c] = v.selmon
<1>1. ui \in SUBSET Tag /\ s.tags[c] \cap ui # {}
  BY LowestTag, SingleFacts, OwnerFacts
<1>2. CASE Lone(s)
  <2> DEFINE v == view(s, ui)
  <2>1. /\ Well(v) /\ Keeps(s, v) /\ ISVISIBLE(v, c, 1)
    BY <1>1, <1>2, ViewFacts, LoneView DEF Done
  <2> HIDE DEF v
  <2>2. Lone(v) /\ c \in Managed(v)
    BY <1>2, <2>1 DEF Keeps, Lone
  <2>3. v.selmon = 1 /\ v.mon[c] = 1
    BY <2>1, <2>2, LoneFacts
  <2> QED
    BY <2>1, <2>2, <2>3 DEF v
<1>3. CASE OneTag(s) /\ Home(s)
  <2>1. ui = s.tags[c]
    BY <1>3, LowestTag
  <2> QED
    BY <1>3, <2>1, ViewShows
<1> QED
  BY <1>2, <1>3

\* Whatever was selected and shown before, a request ends with its window
\* selected, on a monitor that shows it.
LEMMA RequestReaches ==
    ASSUME NEW s, Well(s), Lone(s) \/ (OneTag(s) /\ Home(s)), NEW c \in Managed(s),
           s.tags[c] # {}
    PROVE  LET reached(t) == SelectedClient(t) = c /\ ISVISIBLE(t, c, t.selmon)
           IN  /\ reached(activate(s, c))
               /\ reached(preview_focus(s, c))
               /\ reached(enternotify(switcher_confirm(s, c, TRUE), c))
<1> DEFINE reached(t) == SelectedClient(t) = c /\ ISVISIBLE(t, c, t.selmon)
           t == [s EXCEPT !.selmon = s.mon[c]]
           v == view(t, t.tags[c])
           w == view(t, {Min(t.tags[c])})
<1>1. c \in Client /\ c # NoClient /\ s.mon[c] \in Mon(s) \cup {1}
  BY OwnerFacts, ClientAssumption
\* Focusing a window on its own monitor, where it is visible, selects it.
<1>2. ASSUME NEW u, Well(u), c \in Managed(u), u.mon[c] = u.selmon,
             ISVISIBLE(u, c, u.selmon)
      PROVE  reached(focus(u, c))
  <2>1. /\ Same(u, focus(u, c)) /\ SelectedClient(focus(u, c)) = c
        /\ focus(u, c).selmon = u.mon[c]
    BY <1>1, <1>2, FocusSame
  <2> QED
    BY <1>2, <2>1 DEF Same, ISVISIBLE
<1>3. /\ Well(t) /\ Same(s, t) /\ t.selmon = s.mon[c]
      /\ (Lone(t) \/ (OneTag(t) /\ Home(t)))
      /\ Managed(t) = Managed(s) /\ t.tags = s.tags /\ t.mon = s.mon
  <2>1. Well(t) /\ Same(s, t) /\ t.selmon = s.mon[c]
    <3>1. Well(t)
      BY <1>1, SelectFacts
    <3>2. s \in State
      BY DEF Well, Core
    <3>3. Same(s, t) /\ t.selmon = s.mon[c]
      BY <3>2, ActiveSame
    <3> QED
      BY <3>1, <3>3
  <2> HIDE DEF t
  <2> QED
    BY <2>1, SameFacts DEF Same, Lone
<1>4. activate(s, c) = focus(w, c)
  BY <1>3 DEF activate
<1>5. preview_focus(s, c) = focus(IF ISVISIBLE(t, c, t.selmon) THEN t ELSE v, c)
  BY DEF preview_focus
<1>6. switcher_confirm(s, c, TRUE) =
        focus(IF ~ISVISIBLE(s, c, t.selmon) THEN v ELSE s, c)
  BY DEF switcher_confirm
<1> HIDE DEF t, reached
<1>7. /\ Well(v) /\ c \in Managed(v) /\ ISVISIBLE(v, c, v.selmon) /\ v.mon[c] = v.selmon
      /\ Well(w) /\ c \in Managed(w) /\ ISVISIBLE(w, c, w.selmon) /\ w.mon[c] = w.selmon
  BY <1>3, RequestShows
<1> HIDE DEF v, w
<1>8. reached(focus(v, c)) /\ reached(focus(w, c))
  BY <1>2, <1>7
<1>9. ISVISIBLE(t, c, t.selmon) => reached(focus(t, c))
  BY <1>2, <1>3 DEF Same
<1>10. reached(preview_focus(s, c))
  BY <1>5, <1>8, <1>9
\* The crossing event of the pointer that the switcher warps into the window.
<1>11. reached(enternotify(switcher_confirm(s, c, TRUE), c))
  <2>1. CASE ~ISVISIBLE(s, c, t.selmon)
    <3> DEFINE u == focus(v, c)
    <3>1. switcher_confirm(s, c, TRUE) = u
      BY <1>6, <2>1
    <3>2. SelectedClient(u) = c /\ u.mon[c] = u.selmon
      <4>1. /\ Same(v, u) /\ SelectedClient(u) = c /\ u.selmon = v.mon[c]
        BY <1>1, <1>7, FocusSame
      <4> QED
        BY <1>7, <4>1 DEF Same
    <3> HIDE DEF u
    <3>3. enternotify(u, c) = u
      BY <3>2 DEF enternotify
    <3> QED
      BY <1>8, <3>1, <3>3 DEF u
  <2>2. CASE ISVISIBLE(s, c, t.selmon)
    <3> DEFINE u == focus(s, c)
               y == unfocus(u, SelectedClient(u))
               x == [y EXCEPT !.selmon = u.mon[c]]
    <3>1. switcher_confirm(s, c, TRUE) = u
      BY <1>6, <2>2
    <3>2. Well(u) /\ Same(s, u)
      BY FocusFacts, FocusSame
    <3> HIDE DEF u
    <3>3. /\ c \in Managed(u) /\ u.mon[c] = s.mon[c] /\ ISVISIBLE(u, c, s.mon[c])
          /\ u.mon[c] \in Mon(u) \cup {1}
      BY <1>1, <1>3, <2>2, <3>2 DEF Same, ISVISIBLE, Mon
    <3>4. CASE u.mon[c] # u.selmon
      <4>1. enternotify(u, c) = focus(x, c)
        BY <3>4 DEF enternotify
      <4>2. Well(y) /\ Same(u, y)
        <5>1. Well(y)
          BY <3>2, UnfocusFacts
        <5>2. u \in State
          BY <3>2 DEF Well, Core
        <5> QED
          BY <5>1, <5>2, ActiveSame
      <4>3. u.mon[c] \in Mon(y) \cup {1}
        BY <3>3, <4>2 DEF Same, Mon
      <4> HIDE DEF y
      <4>4. Well(x) /\ Same(y, x) /\ x.selmon = u.mon[c]
        <5>1. Well(x)
          BY <4>2, <4>3, SelectFacts
        <5>2. y \in State
          BY <4>2 DEF Well, Core
        <5>3. Same(y, x) /\ x.selmon = u.mon[c]
          BY <5>2, ActiveSame
        <5> QED
          BY <5>1, <5>3
      <4> HIDE DEF x
      <4>5. c \in Managed(x) /\ x.mon[c] = x.selmon /\ ISVISIBLE(x, c, x.selmon)
        BY <3>3, <4>2, <4>4 DEF Same, ISVISIBLE
      <4> QED
        BY <1>2, <3>1, <4>1, <4>4, <4>5
    <3>5. CASE u.mon[c] = u.selmon /\ c = SelectedClient(u)
      <4>1. enternotify(u, c) = u
        BY <3>5 DEF enternotify
      <4> QED
        BY <3>1, <3>3, <3>5, <4>1 DEF reached
    <3>6. CASE u.mon[c] = u.selmon /\ c # SelectedClient(u)
      <4>1. enternotify(u, c) = focus(u, c)
        BY <3>6 DEF enternotify
      <4> QED
        BY <1>2, <3>1, <3>2, <3>3, <3>6, <4>1
    <3> QED
      BY <3>4, <3>5, <3>6
  <2> QED
    BY <2>1, <2>2
<1> QED
  BY <1>4, <1>8, <1>10, <1>11 DEF reached

-----------------------------------------------------------------------------
(***************************************************************************)
(* Windows and outputs that come and go.                                   *)
(***************************************************************************)

\* A window is placed with one tag or none, and where its tag is shown if it is
\* shown at all.
LEMMA PlacementTidy ==
    ASSUME OneTagBindings, NEW s, Well(s), Neat(s, 0),
           NEW c \in Client, NEW place \in placements(s, c)
    PROVE  /\ place.tags \in SingleTags \cup {{}}
           /\ Steady => \A m \in Mon(s) : s.tagset[m] = place.tags => place.mon = m
           /\ Steady /\ PlainPlacement /\ c \notin Scratch => place.mon = s.selmon
<1>1. /\ s \in State /\ OneTag(s) /\ s.selmon \in Mon(s) \cup {1}
      /\ \A m \in Mon(s) : s.tagset[m] # {}
  BY DEF Well, Core, Neat
<1> DEFINE fine(p) ==
             /\ p.tags \in SingleTags \cup {{}}
             /\ Steady => \A m \in Mon(s) : s.tagset[m] = p.tags => p.mon = m
           ruled(r) == [mon |-> ruledmon(s, r),
                        tags |-> IF c \in Scratch THEN {}
                                 ELSE IF r # {} THEN r
                                 ELSE s.tagset[ruledmon(s, r)]]
\* A monitor that shows a tag shows no other window's.
<1>2. ASSUME NEW m \in Mon(s) \cup {1}
      PROVE  s.tagset[m] \in SingleTags
  BY <1>1 DEF OneTag
<1>3. ASSUME Steady, NEW m \in Mon(s) \cup {1}, NEW k \in Mon(s),
             s.tagset[k] = s.tagset[m]
      PROVE  m = k
  <2>1. 1 \in Mon(s)
    <3>1. Mon(s) # {} /\ s.n_monitors \in Nat
      BY <1>1, <1>3, MonitorsAssumption DEF Neat, Home, State
    <3> QED
      BY <3>1 DEF Mon
  <2> QED
    BY <1>1, <1>3, <2>1 DEF OneTag
<1>4. fine([mon |-> s.selmon, tags |-> s.tagset[s.selmon]])
  BY <1>1, <1>2, <1>3
<1>5. ASSUME NEW d \in Managed(s) PROVE fine([mon |-> s.mon[d], tags |-> s.tags[d]])
  BY <1>1 DEF OneTag, Neat, Home
<1>6. ASSUME NEW r PROVE ruledmon(s, r) \in Mon(s) \cup {1}
  BY <1>1, RuledmonFacts
<1>7. ASSUME NEW r \in SingleTags \cup {{}}
      PROVE  fine(ruled(r))
  <2> DEFINE k == ruledmon(s, r)
             showing_r == {m \in Mon(s) : s.tagset[m] \cap r # {}}
  <2>1. k \in Mon(s) \cup {1} /\ s.tagset[k] \in SingleTags
    BY <1>2, <1>6
  <2>2. CASE c \in Scratch
    BY <1>1, <2>2
  <2>3. CASE c \notin Scratch /\ r = {}
    <3> HIDE DEF k
    <3>1. ruled(r) = [mon |-> k, tags |-> s.tagset[k]]
      BY <2>3 DEF k
    <3> QED
      BY <1>3, <2>1, <3>1
  <2>4. CASE c \notin Scratch /\ r # {}
    <3>1. ruled(r).mon = k /\ ruled(r).tags = r
      BY <2>4
    <3>2. r \in SingleTags
      BY <2>4
    <3>3. showing_r = {m \in Mon(s) : s.tagset[m] = r}
      BY <1>2, <3>2, SingleFacts
    <3>4. showing_r # {} => k = Min(showing_r) /\ Min(showing_r) \in showing_r
      <4>1. showing_r \in SUBSET Nat
        BY DEF Mon
      <4> QED
        BY <4>1, MinFacts DEF ruledmon
    <3>5. \A m \in Mon(s) : s.tagset[m] = r => k = m
      BY <1>1, <3>3, <3>4 DEF OneTag
    <3> HIDE DEF ruled, k
    <3> QED
      BY <3>1, <3>2, <3>5
  <2> QED
    BY <2>2, <2>3, <2>4
<1>8. \/ place = ruled({})
      \/ \E r \in RuleTags : place = ruled(r)
      \/ place = [mon |-> s.selmon, tags |-> s.tagset[s.selmon]]
      \/ \E d \in Managed(s) : place = [mon |-> s.mon[d], tags |-> s.tags[d]]
  BY DEF placements
<1>9. PlainPlacement /\ c \notin Scratch =>
        place = [mon |-> s.selmon, tags |-> s.tagset[s.selmon]]
  BY DEF placements, PlainPlacement
<1>10. RuleTags \subseteq SingleTags \cup {{}}
  BY DEF OneTagBindings
<1>11. fine(place)
  <2> HIDE DEF ruled, fine
  <2> QED
    BY <1>4, <1>5, <1>7, <1>8, <1>10
<1> QED
  BY <1>9, <1>11

\* manage() puts the new window where its tag is shown, and retags no other; a
\* window placed where the user looks becomes the selection there.
LEMMA ManageTidy ==
    ASSUME OneTagBindings, NEW s, Well(s), Tidy(s),
           NEW c \in Client, c \notin Managed(s), NEW place \in placements(s, c)
    PROVE  Tidy(manage(s, c, place)) /\ Retags(s, manage(s, c, place))
<1> DEFINE M  == Managed(s)
           N  == M \cup {c}
           k  == place.mon
           ts == place.tags
           s1 == Placed(s, c, k, ts)
           s2 == attach(s1, c)
           s3 == attachstack(s2, c)
           s4 == [s3 EXCEPT !.sel[k] = c]
           t  == IF c \in Scratch THEN s3 ELSE s4
<1>1. k \in Mon(s) \cup {1} /\ ts \in SUBSET Tag /\ k \in Slot
  <2>1. k \in Mon(s) \cup {1} /\ ts \in SUBSET Tag
    BY PlacementsFacts
  <2> QED
    BY <2>1, MonFacts, MonitorsAssumption DEF Well, Core, Slot
<1>2. Neat(s, 0) =>
        /\ ts \in SingleTags \cup {{}}
        /\ Steady => \A m \in Mon(s) : s.tagset[m] = ts => k = m
        /\ Steady /\ PlainPlacement /\ c \notin Scratch => k = s.selmon
  BY PlacementTidy
<1>3. manage(s, c, place) = focus(t, NoClient)
  BY DEF manage, Placed
<1> HIDE DEF k, ts
<1>4. Core(s1) /\ Lists(s1, M, M) /\ s1.n_monitors = s.n_monitors
  BY <1>1, PlaceFacts DEF Well
<1>5. /\ s1.tagset = s.tagset /\ s1.alttagset = s.alttagset
      /\ s1.mon = [s.mon EXCEPT ![c] = k] /\ s1.tags = [s.tags EXCEPT ![c] = ts]
      /\ s1.sel = s.sel /\ s1.selmon = s.selmon
  BY DEF Placed, Well, Core, State
<1> HIDE DEF s1
<1>6. Core(s2) /\ Lists(s2, N, M) /\ s2.n_monitors = s.n_monitors
  BY <1>4, AttachFacts
<1>7. /\ s2.tagset = s1.tagset /\ s2.alttagset = s1.alttagset
      /\ s2.mon = s1.mon /\ s2.tags = s1.tags
      /\ s2.sel = s1.sel /\ s2.selmon = s1.selmon
  BY <1>4 DEF attach, Core, State
<1> HIDE DEF s2
<1>8. Core(s3) /\ Lists(s3, N, N) /\ s3.n_monitors = s.n_monitors
  BY <1>6, AttachstackFacts
<1>9. /\ s3.tagset = s2.tagset /\ s3.alttagset = s2.alttagset
      /\ s3.mon = s2.mon /\ s3.tags = s2.tags
      /\ s3.sel = s2.sel /\ s3.selmon = s2.selmon
  BY <1>6 DEF attachstack, Core, State
<1> HIDE DEF s3
<1>10. Core(s4) /\ Lists(s4, N, N)
  BY <1>1, <1>8, SelFacts
<1>11. /\ s4.n_monitors = s3.n_monitors /\ s4.tagset = s3.tagset
       /\ s4.alttagset = s3.alttagset
       /\ s4.mon = s3.mon /\ s4.tags = s3.tags /\ s4.selmon = s3.selmon
       /\ s4.sel = [s3.sel EXCEPT ![k] = c]
  BY <1>8 DEF Core, State
<1> HIDE DEF s4
<1>12. /\ Core(t) /\ Lists(t, N, N) /\ t.n_monitors = s.n_monitors
       /\ t.tagset = s.tagset /\ t.alttagset = s.alttagset
       /\ t.mon = [s.mon EXCEPT ![c] = k] /\ t.tags = [s.tags EXCEPT ![c] = ts]
       /\ t.selmon = s.selmon
       /\ t.sel = IF c \in Scratch THEN s.sel ELSE [s.sel EXCEPT ![k] = c]
  BY <1>5, <1>7, <1>8, <1>9, <1>10, <1>11
<1> HIDE DEF t
<1>13. Managed(t) = N /\ Well(t) /\ Mon(t) = Mon(s)
  BY <1>12 DEF Well, Lists, Managed, Mon
<1>14. s \in State /\ M \subseteq Client
  BY ToSetFacts DEF Well, Core, State, Managed
<1>15. /\ t.mon[c] = k /\ t.tags[c] = ts
       /\ \A d \in M : t.mon[d] = s.mon[d] /\ t.tags[d] = s.tags[d]
  BY <1>12, <1>14 DEF State
<1> HIDE DEF M
<1>16. ASSUME Neat(s, 0) PROVE Neat(t, t.selmon)
  <2>1. OneTag(t)
    <3>1. OneTag(s)
      BY <1>16 DEF Neat
    <3>2. \A d \in N : t.tags[d] \in SingleTags \cup {{}}
      BY <1>2, <1>14, <1>15, <1>16, <3>1 DEF OneTag, M
    <3> QED
      BY <1>12, <1>13, <1>14, <3>1, <3>2 DEF OneTag
  <2>2. ASSUME Steady PROVE Home(t)
    <3>1. Home(s)
      BY <1>16, <2>2 DEF Neat
    <3> QED
      BY <1>2, <1>12, <1>13, <1>15, <1>16, <2>2, <3>1 DEF Home, M
  <2>3. ASSUME Steady, PlainPlacement PROVE Chosen(t, t.selmon)
    <3>1. Chosen(s, 0)
      BY <1>16, <2>3 DEF Neat
    <3> SUFFICES ASSUME NEW m \in Mon(s), m # s.selmon, t.sel[m] # NoClient
                 PROVE  /\ t.sel[m] \in N /\ t.mon[t.sel[m]] = m
                        /\ t.tags[t.sel[m]] = s.tagset[m]
      BY <1>12, <1>13 DEF Chosen
    <3>2. t.sel[m] = s.sel[m]
      BY <1>1, <1>2, <1>12, <1>14, <1>16, <2>3 DEF State
    <3>3. m \in Mon(s) \ {0}
      BY DEF Mon
    <3>4. /\ s.sel[m] \in M /\ s.mon[s.sel[m]] = m
          /\ s.tags[s.sel[m]] = s.tagset[m]
      BY <3>1, <3>2, <3>3 DEF Chosen, M
    <3> QED
      BY <1>15, <3>2, <3>4
  <2> QED
    BY <2>1, <2>2, <2>3 DEF Neat
<1>17. Retags(s, t)
  BY <1>13, <1>15 DEF Retags, M
<1>18. TidyBut(t, t.selmon)
  BY <1>12, <1>16 DEF Tidy, TidyBut, Lone
<1>19. Tidy(focus(t, NoClient)) /\ Calm(t, focus(t, NoClient))
  BY <1>13, <1>18, FocusTidy
<1> QED
  BY <1>3, <1>17, <1>19, CalmFacts

\* unmanage() repairs the selection of the monitor that had the window selected.
LEMMA UnmanageTidy ==
    ASSUME NEW s, Well(s), Tidy(s), NEW c \in Managed(s)
    PROVE  Tidy(unmanage(s, c)) /\ Retags(s, unmanage(s, c))
<1> DEFINE M  == Managed(s)
           k  == s.mon[c]
           s1 == detach(s, c)
           s2 == detachstack(s1, c)
           s3 == Placed(s2, c, 1, {})
           t  == [s3 EXCEPT !.ishidden[c] = FALSE]
<1>1. /\ c \in Client /\ s \in State /\ M \subseteq Client
      /\ Core(s) /\ Lists(s, M, M) /\ Mon(s) \subseteq Slot
  BY OwnerFacts, ToSetFacts, MonFacts
     DEF Well, Core, State, Managed
<1>2. unmanage(s, c) = focus(t, NoClient)
  BY DEF unmanage, Placed
<1>3. Core(s1) /\ Lists(s1, M \ {c}, M) /\ s1.n_monitors = s.n_monitors
  BY <1>1, DetachFacts
<1>4. /\ s1.tagset = s.tagset /\ s1.alttagset = s.alttagset
      /\ s1.mon = s.mon /\ s1.tags = s.tags
      /\ s1.sel = s.sel /\ s1.selmon = s.selmon
  BY <1>1 DEF detach, State
<1> HIDE DEF s1
<1>5. /\ Core(s2) /\ Lists(s2, M \ {c}, M \ {c}) /\ s2.n_monitors = s.n_monitors
      /\ Same(s1, s2) /\ s2.selmon = s.selmon
      /\ \A j \in Slot : j # k => s2.sel[j] = s.sel[j]
      /\ s2.sel[k] # c
      /\ s2.sel[k] # s.sel[k] /\ s2.sel[k] # NoClient =>
           s2.sel[k] \in M /\ ISVISIBLE(s, s2.sel[k], k)
  <2>1. Core(s2) /\ Lists(s2, M \ {c}, M \ {c}) /\ s2.n_monitors = s.n_monitors
    BY <1>3, DetachstackFacts
  <2>2. /\ Same(s1, s2) /\ s2.selmon = s1.selmon
        /\ \A j \in Slot : j # s1.mon[c] => s2.sel[j] = s1.sel[j]
        /\ s2.sel[s1.mon[c]] # c
        /\ s2.sel[s1.mon[c]] # s1.sel[s1.mon[c]] /\ s2.sel[s1.mon[c]] # NoClient =>
             s2.sel[s1.mon[c]] \in M /\ ISVISIBLE(s1, s2.sel[s1.mon[c]], s1.mon[c])
    BY <1>3, DetachstackSame
  <2>3. \A d, m : ISVISIBLE(s1, d, m) => ISVISIBLE(s, d, m)
    BY <1>4 DEF ISVISIBLE
  <2> QED
    BY <1>4, <2>1, <2>2, <2>3
<1> HIDE DEF s2, k
<1>6. Core(s3) /\ Lists(s3, M \ {c}, M \ {c}) /\ s3.n_monitors = s.n_monitors
  BY <1>1, <1>5, PlaceFacts
<1>7. /\ s3.tagset = s.tagset /\ s3.alttagset = s.alttagset
      /\ s3.mon = [s.mon EXCEPT ![c] = 1] /\ s3.tags = [s.tags EXCEPT ![c] = {}]
      /\ s3.sel = s2.sel /\ s3.selmon = s.selmon
  BY <1>4, <1>5 DEF Placed, Core, State, Same
<1> HIDE DEF s3
<1>8. Well(s3) /\ Managed(s3) = M \ {c}
  BY <1>6 DEF Well, Lists, Managed
<1>9. Well(t) /\ Keeps(s3, t)
  BY <1>1, <1>8, HiddenFacts
<1>10. /\ t.tagset = s.tagset /\ t.alttagset = s.alttagset
       /\ t.mon = [s.mon EXCEPT ![c] = 1] /\ t.tags = [s.tags EXCEPT ![c] = {}]
       /\ t.sel = s2.sel /\ t.selmon = s.selmon
  BY <1>6, <1>7 DEF Core, State
<1> HIDE DEF t, M
<1>11. Managed(t) = M \ {c} /\ Mon(t) = Mon(s)
  BY <1>6, <1>8, <1>9 DEF Keeps, Mon
<1>12. \A d \in M : d # c => t.mon[d] = s.mon[d] /\ t.tags[d] = s.tags[d]
  BY <1>1, <1>10 DEF State
<1>13. ASSUME Neat(s, 0) PROVE Neat(t, 0)
  <2>1. OneTag(s) /\ OneTag(t)
    <3>1. OneTag(s)
      BY <1>13 DEF Neat
    <3>2. \A d \in M \ {c} : t.tags[d] \in SingleTags \cup {{}}
      BY <1>1, <1>12, <3>1 DEF OneTag, M
    <3> QED
      BY <1>1, <1>10, <1>11, <3>1, <3>2 DEF OneTag
  <2>2. ASSUME Steady PROVE Home(t)
    <3>1. Home(s)
      BY <1>13, <2>2 DEF Neat
    <3> QED
      BY <1>10, <1>11, <1>12, <3>1 DEF Home, M
  <2>3. ASSUME Steady, PlainPlacement PROVE Chosen(t, 0)
    <3>1. Chosen(s, 0) /\ Home(s)
      BY <1>13, <2>3 DEF Neat
    <3> SUFFICES ASSUME NEW m \in Mon(s) \ {0}, s2.sel[m] # NoClient
                 PROVE  /\ s2.sel[m] \in M \ {c} /\ t.mon[s2.sel[m]] = m
                        /\ t.tags[s2.sel[m]] = s.tagset[m]
      BY <1>10, <1>11 DEF Chosen
    <3> DEFINE d == s2.sel[m]
    <3>2. c # NoClient
      BY <1>1, ClientAssumption
    <3>3. CASE d = s.sel[m]
      <4>1. d \in M /\ s.mon[d] = m /\ s.tags[d] = s.tagset[m]
        BY <3>1, <3>3 DEF Chosen, M
      <4>2. d # c
        BY <1>5, <4>1 DEF k
      <4> QED
        BY <1>12, <4>1, <4>2
    <3>4. CASE d # s.sel[m]
      <4>1. m = k
        BY <1>1, <1>5, <3>4
      <4>2. d \in M /\ ISVISIBLE(s, d, m) /\ d # c
        BY <1>5, <3>4, <4>1
      <4> HIDE DEF d
      <4>3. s.tags[d] = s.tagset[m] /\ s.mon[d] = m
        BY <2>1, <3>1, <4>2, VisibleFacts DEF Home, M
      <4> QED
        BY <1>12, <4>2, <4>3 DEF d
    <3> QED
      BY <3>3, <3>4
  <2> QED
    BY <2>1, <2>2, <2>3 DEF Neat
<1>14. Retags(s, t)
  BY <1>12 DEF Retags, M
<1>15. t.n_monitors = s.n_monitors
  BY <1>6, <1>9 DEF Keeps
<1>16. Tidy(t)
  BY <1>13, <1>15 DEF Tidy, TidyBut, Lone
<1>17. TidyBut(t, t.selmon)
  BY <1>16, TidyFacts
<1>18. Tidy(focus(t, NoClient)) /\ Calm(t, focus(t, NoClient))
  BY <1>9, <1>17, FocusTidy
<1> QED
  BY <1>2, <1>14, <1>18, CalmFacts

\* createmon() finds the new monitor a tag that no other shows, or hands out
\* the tags anew.
LEMMA CreatemonOneTag ==
    ASSUME NEW s, Well(s), OneTag(s), s.n_monitors < MaxMonitors
    PROVE  OneTag(createmon(s)) /\ Calm(s, createmon(s))
<1> DEFINE free == {t \in Tag : \A m \in Mon(s) : t \notin s.tagset[m]}
           n    == s.n_monitors + 1
           reassigned == [s EXCEPT
               !.tagset    = [m \in Slot |-> IF m \in Mon(s) THEN {m} ELSE @[m]],
               !.alttagset = [m \in Slot |->
                                IF m \in Mon(s) THEN s.tagset[m] ELSE @[m]]]
           t    == IF free # {} THEN s ELSE reassigned
           i    == IF free # {} THEN Min(free) ELSE n
           u    == createmon(s)
<1>1. /\ s \in State /\ s.n_monitors \in Nat /\ n \in Slot /\ n \in Nat
      /\ n \notin Mon(s)
  BY MonitorsAssumption DEF Well, Core, State, Slot, Mon
<1>2. /\ Slot \subseteq Tag /\ Mon(s) \subseteq Slot /\ 1 \in Slot
      /\ (Mon(s) = {} => n = 1) /\ (Mon(s) # {} => 1 \in Mon(s))
  BY <1>1, MonFacts, MonitorsAssumption, NumTagsAssumption DEF Slot, Tag, Mon
<1>3. i \in Tag /\ {i} \in SingleTags
  <2>1. free \in SUBSET Nat
    BY NumTagsAssumption DEF Tag
  <2> QED
    BY <2>1, <1>1, <1>2, MinFacts DEF SingleTags
\* Case by case: what the old monitors show now, and that none shows the new tag.
<1>4. /\ t \in State /\ t.clients = s.clients /\ t.tags = s.tags
      /\ \A m \in Mon(s) : /\ t.tagset[m] \in SingleTags
                           /\ t.alttagset[m] \in SingleTags
                           /\ t.tagset[m] # {i}
      /\ \A j, m \in Mon(s) : j # m => t.tagset[j] # t.tagset[m]
  <2>1. CASE free # {}
    <3>1. t = s /\ i = Min(free)
      BY <2>1
    <3>2. free \in SUBSET Nat
      BY NumTagsAssumption DEF Tag
    <3>3. i \in free
      BY <2>1, <3>1, <3>2, MinFacts
    <3> HIDE DEF t, i
    <3>4. \A m \in Mon(s) : i \notin s.tagset[m]
      BY <3>3
    <3> QED
      BY <1>1, <3>1, <3>4 DEF OneTag
  <2>2. CASE free = {}
    <3>1. t = reassigned /\ i = n
      BY <2>2
    <3>2. [m \in Slot |-> IF m \in Mon(s) THEN {m} ELSE s.tagset[m]]
            \in [Slot -> SUBSET Tag]
      BY <1>1, <1>2 DEF State
    <3>3. [m \in Slot |-> IF m \in Mon(s) THEN s.tagset[m] ELSE s.alttagset[m]]
            \in [Slot -> SUBSET Tag]
      BY <1>1, <1>2 DEF State
    <3>4. /\ reassigned \in State
          /\ reassigned.clients = s.clients /\ reassigned.tags = s.tags
          /\ \A m \in Mon(s) : /\ reassigned.tagset[m] = {m}
                               /\ reassigned.alttagset[m] = s.tagset[m]
      BY <1>1, <1>2, <3>2, <3>3 DEF State
    <3> HIDE DEF reassigned, t, i
    <3>5. \A m \in Mon(s) : {m} \in SingleTags /\ s.tagset[m] \in SingleTags
      BY <1>2 DEF SingleTags, OneTag
    <3> QED
      BY <1>1, <3>1, <3>4, <3>5
  <2> QED
    BY <2>1, <2>2
<1>5. u = [t EXCEPT !.n_monitors = n, !.tagset[n] = {i}, !.alttagset[n] = {i},
                    !.sel[n] = NoClient]
  BY DEF createmon
<1> HIDE DEF t, i, u
<1>6. /\ u.clients = t.clients /\ u.tags = t.tags /\ u.n_monitors = n
      /\ u.tagset = [t.tagset EXCEPT ![n] = {i}]
      /\ u.alttagset = [t.alttagset EXCEPT ![n] = {i}]
  BY <1>4, <1>5 DEF State
<1>7. Mon(u) = Mon(s) \cup {n} /\ Managed(u) = Managed(s)
  BY <1>1, <1>4, <1>6 DEF Mon, Managed
<1>8. /\ u.tagset[n] = {i} /\ u.alttagset[n] = {i}
      /\ \A m \in Mon(s) : /\ u.tagset[m] = t.tagset[m]
                           /\ u.alttagset[m] = t.alttagset[m]
  BY <1>1, <1>2, <1>4, <1>6 DEF State
<1>9. \A m \in Mon(u) \cup {1} :
        u.tagset[m] \in SingleTags /\ u.alttagset[m] \in SingleTags
  BY <1>2, <1>3, <1>4, <1>7, <1>8
<1>10. \A j, m \in Mon(u) : j # m => u.tagset[j] # u.tagset[m]
  BY <1>4, <1>7, <1>8
<1>11. \A c \in Managed(u) : u.tags[c] \in SingleTags \cup {{}}
  BY <1>4, <1>6, <1>7 DEF OneTag
<1> QED
  BY <1>4, <1>6, <1>7, <1>9, <1>10, <1>11 DEF OneTag, Calm, u

\* The monitors that outlive the last one show what they showed.
LEMMA RemovemonOneTag ==
    ASSUME NEW s, Well(s), OneTag(s), s.n_monitors > 0
    PROVE  /\ OneTag(forget(removemon(s))) /\ Calm(s, forget(removemon(s)))
           /\ Well(forget(removemon(s)))
           /\ forget(removemon(s)).n_monitors = s.n_monitors - 1
<1> DEFINE t == removemon(s)
           u == forget(t)
           live == Mon(t) \cup {1}
<1>1. s \in State /\ s.n_monitors \in Nat /\ s.n_monitors - 1 \in Nat
  BY DEF Well, Core, State
<1>2. Well(t) /\ t.n_monitors = s.n_monitors - 1
  BY RemovemonFacts
<1>3. /\ t.clients = s.clients /\ t.tags = s.tags
      /\ t.tagset = s.tagset /\ t.alttagset = s.alttagset
  BY <1>1 DEF removemon, State
<1> HIDE DEF t
<1>4. /\ Mon(t) \subseteq Mon(s) /\ Managed(t) = Managed(s)
  BY <1>1, <1>2, <1>3 DEF Mon, Managed
<1>5. Well(u) /\ Keeps(t, u)
  BY <1>2, ForgetFacts
<1>6. /\ u.clients = t.clients /\ u.tags = t.tags
      /\ u.tagset = [m \in Slot |-> IF m \in live THEN t.tagset[m] ELSE {}]
      /\ u.alttagset = [m \in Slot |-> IF m \in live THEN t.alttagset[m] ELSE {}]
  BY <1>2 DEF forget, Well, Core, State
<1> HIDE DEF u
<1>7. Mon(u) = Mon(t) /\ Managed(u) = Managed(s) /\ live \subseteq Slot
  BY <1>2, <1>4, <1>5, MonFacts, MonitorsAssumption DEF Keeps, Mon, Well, Core, Slot
<1>8. \A m \in live : u.tagset[m] = s.tagset[m] /\ u.alttagset[m] = s.alttagset[m]
  BY <1>3, <1>6, <1>7
<1>9. OneTag(u)
  BY <1>3, <1>4, <1>6, <1>7, <1>8 DEF OneTag
<1> QED
  BY <1>2, <1>3, <1>5, <1>6, <1>7, <1>9 DEF Calm, Keeps, u, t

-----------------------------------------------------------------------------
(***************************************************************************)
(* Every step of the specification.                                        *)
(***************************************************************************)

\* What a step does to windows of one tag.
Orderly(s, t) == Tidy(t) /\ Retags(s, t)

\* What retags nothing is orderly.
LEMMA CalmOrderly ==
    ASSUME NEW s, NEW t, Tidy(t), Calm(s, t)
    PROVE  Orderly(s, t)
BY CalmFacts DEF Orderly

\* So is what is orderly after something calm.
LEMMA OrderlyAfter ==
    ASSUME NEW s, NEW t, NEW u, Calm(s, t), Orderly(t, u)
    PROVE  Orderly(s, u)
BY CalmFacts DEF Orderly

\* The state that setup() leaves: every monitor shows the tag of its number.
LEMMA InitTidy == Init => Tidy(g_awm)
<1> SUFFICES ASSUME Init PROVE Tidy(g_awm)
  OBVIOUS
<1>1. PICK n \in (MinMonitors..MaxMonitors) \ {0} : \E m \in 1..n :
        g_awm = [InitialState(n) EXCEPT !.selmon = m]
  BY DEF Init
<1>2. PICK m \in 1..n : g_awm = [InitialState(n) EXCEPT !.selmon = m]
  BY <1>1
<1> DEFINE shown == [k \in Slot |-> IF k <= n THEN {k} ELSE {}]
<1>3. /\ g_awm.clients = << >> /\ g_awm.n_monitors = n
      /\ g_awm.tagset = shown /\ g_awm.alttagset = shown
      /\ g_awm.sel = [k \in Slot |-> NoClient]
  BY <1>2 DEF InitialState
<1>4. n \in 1..MaxMonitors /\ Mon(g_awm) = 1..n /\ 1..n \subseteq Slot
      /\ 1..n \subseteq Tag /\ 1 \in 1..n
  BY <1>3, MonitorsAssumption, NumTagsAssumption DEF Mon, Slot, Tag
<1> DEFINE N == Mon(g_awm)
<1>5. /\ N \cup {1} = N
      /\ \A k \in N : /\ g_awm.tagset[k] = {k} /\ g_awm.alttagset[k] = {k}
                      /\ {k} \in SingleTags
  <2>1. \A k \in 1..n : shown[k] = {k} /\ {k} \in SingleTags
    BY <1>4 DEF SingleTags
  <2> HIDE DEF shown
  <2> QED
    BY <1>3, <1>4, <2>1
<1> HIDE DEF shown, N
<1>6. Managed(g_awm) = {}
  BY <1>3, EmptyFacts DEF Managed
<1>7. OneTag(g_awm)
  <2>1. \A k \in N \cup {1} :
          g_awm.tagset[k] \in SingleTags /\ g_awm.alttagset[k] \in SingleTags
    BY <1>5
  <2>2. \A j, k \in N : j # k => g_awm.tagset[j] # g_awm.tagset[k]
    BY <1>5
  <2> QED
    BY <1>6, <2>1, <2>2 DEF OneTag, N
<1>8. Home(g_awm)
  BY <1>4, <1>6 DEF Home
<1>9. Chosen(g_awm, 0)
  BY <1>3, <1>4 DEF Chosen
<1> QED
  BY <1>7, <1>8, <1>9 DEF Tidy, TidyBut, Neat

\* A press on a window selects it and retags none; its drop on another monitor
\* retags the window dropped.
LEMMA ClickClientTidy ==
    ASSUME IInv, Tidy(g_awm), NEW c \in Client, ClickClient(c)
    PROVE  Orderly(g_awm, g_awm')
<1> DEFINE t == clickmon(g_awm, g_awm.mon[c])
           s == focus(t, c)
           d == SelectedClient(s)
           sent(m) == sendmon(s, d, m)
           over(m) == [sent(m) EXCEPT !.selmon = m]
<1>1. Well(g_awm) /\ c \in Managed(g_awm)
  BY DEF IInv, ClickClient
<1>2. g_awm.mon[c] \in Mon(g_awm) \cup {1}
  BY <1>1, OwnerFacts
<1>3. Well(t) /\ Tidy(t) /\ Calm(g_awm, t)
  BY <1>1, <1>2, ClickmonFacts, PointerTidy DEF Done
<1>4. c \in Managed(t)
  BY <1>1, <1>3 DEF Calm
<1> HIDE DEF t
<1>5. Well(s) /\ Focused(s) /\ Tidy(s) /\ Calm(g_awm, s)
  BY <1>3, <1>4, FocusFacts, PointerTidy, CalmFacts
<1>6. \/ g_awm' = s
      \/ d # NoClient /\ \E m \in Mon(s) \ {s.selmon} : g_awm' = focus(over(m), NoClient)
  BY DEF ClickClient, Handler, t
<1> HIDE DEF s
<1>7. CASE g_awm' = s
  BY <1>5, <1>7, CalmOrderly
<1>8. CASE d # NoClient /\ \E m \in Mon(s) \ {s.selmon} : g_awm' = focus(over(m), NoClient)
  <2>1. PICK m \in Mon(s) : g_awm' = focus(over(m), NoClient)
    BY <1>8
  <2>2. d \in Managed(s)
    BY <1>5, <1>8, SelectedFacts
  <2> HIDE DEF d
  <2>3. /\ Well(sent(m)) /\ Tidy(sent(m)) /\ Retags(s, sent(m))
        /\ Keeps(s, sent(m))
    BY <1>5, <2>2, SendmonFacts, SendmonTidy DEF Done
  <2>4. m \in Mon(sent(m)) \cup {1}
    BY <2>3 DEF Keeps, Mon
  <2> HIDE DEF sent
  <2>5. Well(over(m)) /\ Tidy(over(m)) /\ Calm(sent(m), over(m))
    BY <2>3, <2>4, SelectTidy
  <2> HIDE DEF over
  <2>6. /\ Tidy(focus(over(m), NoClient))
        /\ Calm(over(m), focus(over(m), NoClient))
    BY <2>5, PointerTidy
  <2> QED
    BY <1>5, <2>1, <2>3, <2>5, <2>6, CalmFacts DEF Orderly
<1> QED
  BY <1>6, <1>7, <1>8

\* movestack() and showall() retag no window.
LEMMA LoopsTidy ==
    ASSUME IInv, Tidy(g_awm),
           (\E dir \in Dir : MoveStack(dir)) \/ ShowAllBegin \/ ShowAllStep
    PROVE  Orderly(g_awm, g_awm')
<1>1. /\ Well(g_awm) /\ Focused(g_awm) /\ g_awm \in State
      /\ showing.todo \in Seq(Client) /\ ToSet(showing.todo) \subseteq Managed(g_awm)
  BY DEF IInv, Well, Core
<1>2. Orderly(g_awm, g_awm)
  BY CalmFacts, CalmOrderly
<1>3. CASE ShowAllBegin
  BY <1>2, <1>3 DEF ShowAllBegin
<1>4. CASE ShowAllStep
  <2> DEFINE c == Head(showing.todo)
  <2>1. 1 \in 1..Len(showing.todo) /\ c = showing.todo[1]
    BY <1>1, <1>4 DEF ShowAllStep
  <2>2. c \in Managed(g_awm)
    BY <1>1, <2>1, ToSetFacts
  <2>3. g_awm' = show(g_awm, c) \/ g_awm' = g_awm
    BY <1>4 DEF ShowAllStep
  <2> HIDE DEF c
  <2> QED
    BY <1>1, <1>2, <2>2, <2>3, ReorderTidy, CalmOrderly
<1>5. CASE \E dir \in Dir : MoveStack(dir)
  <2>1. PICK dir \in Dir : MoveStack(dir)
    BY <1>5
  <2> DEFINE q == g_awm.clients
             i == Position(q, SelectedClient(g_awm))
  <2>2. PICK floating \in SUBSET Managed(g_awm) :
          LET at == VisibleAt(g_awm, floating)
              j  == Cycle(g_awm, at, dir)
          IN  at # {} /\ g_awm' = [g_awm EXCEPT !.clients =
                                     [q EXCEPT ![i] = q[j], ![j] = q[i]]]
    BY <2>1 DEF MoveStack, Handler
  <2> DEFINE j == Cycle(g_awm, VisibleAt(g_awm, floating), dir)
             r == [q EXCEPT ![i] = q[j], ![j] = q[i]]
  <2>3. q \in Seq(Client) /\ IsInjective(q)
    BY <1>1 DEF Well, Lists, State
  <2>4. SelectedClient(g_awm) \in ToSet(q)
    BY <1>1, <2>1, SelectedFacts DEF MoveStack, Managed
  <2>5. i \in 1..Len(q) /\ j \in 1..Len(q)
    BY <1>1, <2>2, <2>3, <2>4, PositionFacts, VisibleAtFacts, CycleFacts
  <2>6. g_awm' = [g_awm EXCEPT !.clients = r]
    BY <2>2
  <2> HIDE DEF i, j
  <2>7. r \in Seq(Client) /\ ToSet(r) = ToSet(q)
    BY <2>3, <2>5, SwapFacts
  <2> HIDE DEF r
  <2>8. Same(g_awm, g_awm') /\ g_awm'.sel = g_awm.sel
    BY <1>1, <2>6, <2>7 DEF Same, Managed, State
  <2> QED
    BY <2>8, SameFacts, CalmOrderly DEF Tidy
<1> QED
  BY <1>3, <1>4, <1>5

\* A press on a bar selects the monitor, which retags nothing, and then acts on
\* it: none of those that toggle tags is bound.
LEMMA ClickBarTidy ==
    ASSUME OneTagBindings, IInv, Tidy(g_awm), NEW m \in Slot,
           \/ ClickBarLost(m)
           \/ \E ts \in SingleTags : ClickTag(m, ts)
           \/ \E c \in Client : ClickTitle(m, c)
    PROVE  Orderly(g_awm, g_awm')
<1> DEFINE s == clickmon(g_awm, m)
<1>1. Well(g_awm) /\ Focused(g_awm) /\ m \in Mon(g_awm)
  BY DEF IInv, ClickBarLost, ClickTag, ClickTitle
<1>2. Tidy(s) /\ Calm(g_awm, s) /\ Done(g_awm, s)
  BY <1>1, PointerTidy, ClickmonFacts
<1>3. Well(s) /\ Focused(s) /\ Managed(s) = Managed(g_awm)
  BY <1>1, <1>2 DEF Done, Calm
<1>4. \/ g_awm' = s
      \/ \E ts \in SingleTags : g_awm' = view(s, ts) \/ g_awm' = tag(s, ts)
      \/ \E c \in Managed(g_awm) : g_awm' \in focuswin(s, c)
      \/ \E floating : g_awm' = zoom(s, floating)
  <2>1. ~Bound("toggleview") /\ ~Bound("toggletag")
    BY DEF OneTagBindings, Bound
  <2> HIDE DEF s
  <2>2. ClickBarLost(m) => g_awm' = s
    BY DEF ClickBarLost, Handler, s
  <2>3. ASSUME NEW ts \in SingleTags, ClickTag(m, ts)
        PROVE  g_awm' = view(s, ts) \/ g_awm' = tag(s, ts)
    BY <2>1, <2>3 DEF ClickTag, Handler, s
  <2>4. ASSUME NEW c \in Client, ClickTitle(m, c)
        PROVE  \/ c \in Managed(g_awm) /\ g_awm' \in focuswin(s, c)
               \/ \E floating : g_awm' = zoom(s, floating)
    BY <2>4 DEF ClickTitle, Handler, s
  <2> QED
    BY <2>2, <2>3, <2>4
<1> HIDE DEF s
<1>5. CASE g_awm' = s
  BY <1>2, <1>5, CalmOrderly
<1>6. ASSUME NEW ts \in SingleTags, g_awm' = view(s, ts) \/ g_awm' = tag(s, ts)
      PROVE  Orderly(g_awm, g_awm')
  <2>1. Orderly(s, view(s, ts)) /\ Orderly(s, tag(s, ts))
    BY <1>2, <1>3, ViewTidy, TagTidy, CalmOrderly DEF Orderly
  <2> QED
    BY <1>2, <1>6, <2>1, OrderlyAfter
<1>7. ASSUME NEW c \in Managed(g_awm), g_awm' \in focuswin(s, c)
      PROVE  Orderly(g_awm, g_awm')
  <2>1. Tidy(g_awm') /\ Calm(s, g_awm')
    BY <1>2, <1>3, <1>7, ClickedTidy
  <2> QED
    BY <1>2, <2>1, CalmFacts, CalmOrderly
<1>8. ASSUME NEW floating, g_awm' = zoom(s, floating)
      PROVE  Orderly(g_awm, g_awm')
  <2>1. Tidy(g_awm') /\ Calm(s, g_awm')
    BY <1>2, <1>3, <1>8, ClickedTidy
  <2> QED
    BY <1>2, <2>1, CalmFacts, CalmOrderly
<1> QED
  BY <1>4, <1>5, <1>6, <1>7, <1>8

\* An output that comes or goes keeps every view one tag of its own, and retags
\* nothing; who owns what is shown is then another matter.
LEMMA HotplugTidy ==
    ASSUME IInv, Tidy(g_awm), NEW m \in Slot, PlugOutput(m) \/ UnplugOutput(m)
    PROVE  Orderly(g_awm, g_awm')
<1>1. /\ Well(g_awm) /\ OneTag(g_awm) /\ ~Steady
      /\ g_awm.n_monitors \in Nat /\ g_awm.n_monitors >= MinMonitors
  <2>1. ~Steady
    BY DEF PlugOutput, UnplugOutput, Bound, Steady
  <2>2. Well(g_awm) /\ OneTag(g_awm) /\ g_awm.n_monitors >= MinMonitors
    BY <2>1 DEF IInv, Tidy, TidyBut, Neat, Lone
  <2>3. g_awm.n_monitors \in Nat
    BY <2>2 DEF Well, Core, State
  <2> QED
    BY <2>1, <2>2, <2>3
\* Without Steady, one tag each is all there is to keep.
<1>2. ASSUME NEW t, Well(t), OneTag(t), Calm(g_awm, t), m \in Mon(t) \cup {1}
      PROVE  Orderly(g_awm, focus([t EXCEPT !.selmon = m], NoClient))
  <2>1. Tidy(t)
    BY <1>1, <1>2 DEF Tidy, TidyBut, Neat
  <2> DEFINE u == [t EXCEPT !.selmon = m]
  <2>2. Well(u) /\ Tidy(u) /\ Calm(t, u)
    BY <1>2, <2>1, SelectTidy
  <2> HIDE DEF u
  <2>3. Tidy(focus(u, NoClient)) /\ Calm(u, focus(u, NoClient))
    BY <2>2, PointerTidy
  <2> QED
    BY <1>2, <2>2, <2>3, CalmFacts, CalmOrderly DEF u
<1>3. CASE PlugOutput(m)
  <2> DEFINE t == createmon(g_awm)
  <2>1. /\ Well(t) /\ t.n_monitors = g_awm.n_monitors + 1
        /\ OneTag(t) /\ Calm(g_awm, t)
    BY <1>1, <1>3, CreatemonFacts, CreatemonOneTag DEF PlugOutput
  <2>2. m \in Mon(t) \cup {1}
    BY <1>3, <2>1 DEF PlugOutput, Mon
  <2>3. g_awm' = focus([t EXCEPT !.selmon = m], NoClient)
    BY <1>3 DEF PlugOutput, Handler
  <2> HIDE DEF t
  <2> QED
    BY <1>2, <2>1, <2>2, <2>3
<1>4. CASE UnplugOutput(m)
  <2> DEFINE t == forget(removemon(g_awm))
  <2>1. g_awm.n_monitors > 0
    BY <1>1, <1>4, MonitorsAssumption DEF UnplugOutput
  <2>2. /\ Well(t) /\ t.n_monitors = g_awm.n_monitors - 1
        /\ OneTag(t) /\ Calm(g_awm, t)
    BY <1>1, <2>1, RemovemonOneTag
  <2>3. m \in Mon(t) \cup {1}
    BY <1>4, <2>2 DEF UnplugOutput, Mon
  <2>4. g_awm' = focus([t EXCEPT !.selmon = m], NoClient)
    BY <1>4 DEF UnplugOutput, Handler
  <2> HIDE DEF t
  <2> QED
    BY <1>2, <2>2, <2>3, <2>4
<1> QED
  BY <1>3, <1>4

\* Every step keeps windows and views of one tag in order: one step of the
\* proof per action.
LEMMA NextTidy ==
    ASSUME OneTagBindings, IInv, Tidy(g_awm), [Next]_vars
    PROVE  Orderly(g_awm, g_awm')
<1> USE CalmOrderly
<1>1. Well(g_awm) /\ Focused(g_awm)
  BY DEF IInv
<1>2. SelectedClient(g_awm) \in Managed(g_awm) \cup {NoClient}
  BY <1>1, SelectedFacts
<1>3. CASE UNCHANGED vars
  BY <1>3, CalmFacts DEF vars
<1>4. ASSUME NEW ui \in SingleTags, View(ui) \/ TagSelected(ui)
      PROVE  Orderly(g_awm, g_awm')
  <2>1. g_awm' = view(g_awm, ui) \/ g_awm' = tag(g_awm, ui)
    BY <1>4 DEF View, TagSelected, Handler
  <2>2. Orderly(g_awm, view(g_awm, ui)) /\ Orderly(g_awm, tag(g_awm, ui))
    BY <1>1, ViewTidy, TagTidy DEF Orderly
  <2> QED
    BY <2>1, <2>2
\* The functions that toggle tags are not bound.
<1>5. \A ui : ~ToggleView(ui) /\ ~ToggleTag(ui)
  BY DEF OneTagBindings, ToggleView, ToggleTag, Bound
<1>6. CASE ViewAll \/ TagAll
  <2>1. /\ g_awm' = view(g_awm, Tag) \/ g_awm' = tag(g_awm, Tag)
        /\ Steady \/ MinMonitors >= 2
    BY <1>6 DEF OneTagBindings, ViewAll, TagAll, Handler, Bound
  <2>2. g_awm.n_monitors \in Nat /\ g_awm.n_monitors >= MinMonitors
    BY DEF IInv, Well, Core, State
  <2>3. Steady => Lone(g_awm) \/ Mon(g_awm) # {}
    BY DEF Tidy, TidyBut, Neat, Home
  <2>4. g_awm.n_monitors >= 2 \/ Lone(g_awm)
    <3>1. MinMonitors \in Nat
      BY MonitorsAssumption
    <3>2. CASE MinMonitors >= 2
      BY <2>2, <3>1, <3>2
    <3>3. CASE Steady /\ ~Lone(g_awm)
      <4>1. g_awm.n_monitors # 0 /\ g_awm.n_monitors # 1
        BY <2>2, <2>3, <3>3 DEF Mon, Lone
      <4> QED
        BY <2>2, <4>1
    <3> QED
      BY <2>1, <3>2, <3>3
  <2>5. /\ Tidy(view(g_awm, Tag)) /\ Calm(g_awm, view(g_awm, Tag))
        /\ Tidy(tag(g_awm, Tag)) /\ Retags(g_awm, tag(g_awm, Tag))
    BY <1>1, <2>4, AllTags
  <2>6. /\ Orderly(g_awm, view(g_awm, Tag))
        /\ Orderly(g_awm, tag(g_awm, Tag))
    BY <2>5, CalmOrderly DEF Orderly
  <2> QED
    BY <2>1, <2>6
<1>7. ASSUME NEW dir \in Dir, FocusMon(dir)
      PROVE  Orderly(g_awm, g_awm')
  <2> DEFINE t == [g_awm EXCEPT !.selmon = dirtomon(g_awm, dir)]
  <2>1. dirtomon(g_awm, dir) \in Mon(g_awm) \cup {1}
    BY <1>1, <1>7, DirtomonFacts DEF FocusMon
  <2>2. Well(t) /\ Tidy(t) /\ Calm(g_awm, t)
    BY <1>1, <2>1, SelectTidy
  <2>3. g_awm' = focus(t, NoClient)
    BY <1>7 DEF FocusMon, Handler
  <2> HIDE DEF t
  <2>4. Tidy(focus(t, NoClient)) /\ Calm(t, focus(t, NoClient))
    BY <2>2, PointerTidy
  <2> QED
    BY <2>2, <2>3, <2>4, CalmFacts
<1>8. ASSUME NEW dir \in Dir, TagMon(dir)
      PROVE  Orderly(g_awm, g_awm')
  <2>1. dirtomon(g_awm, dir) \in Mon(g_awm)
    BY <1>1, <1>8, DirtomonFacts DEF TagMon
  <2>2. SelectedClient(g_awm) \in Managed(g_awm)
    BY <1>2, <1>8 DEF TagMon
  <2>3. Orderly(g_awm, sendmon(g_awm, SelectedClient(g_awm), dirtomon(g_awm, dir)))
    BY <1>1, <2>1, <2>2, SendmonTidy DEF Orderly
  <2> QED
    BY <1>8, <2>3 DEF TagMon, Handler
<1>9. ASSUME NEW dir \in Dir, FocusStack(dir) \/ FocusStackHidden(dir)
      PROVE  Orderly(g_awm, g_awm')
  <2> DEFINE at == VisibleAt(g_awm, {})
             c  == g_awm.clients[Cycle(g_awm, at, dir)]
  <2>1. at # {}
    BY <1>9 DEF FocusStack, FocusStackHidden
  <2>2. c \in Managed(g_awm)
    BY <1>1, <2>1, VisibleAtFacts, CycleFacts
  <2>3. g_awm' = focus(g_awm, c) \/ g_awm' = show(g_awm, c)
    BY <1>9 DEF FocusStack, FocusStackHidden, Handler
  <2> HIDE DEF c
  <2> QED
    BY <1>1, <2>2, <2>3, PointerTidy, ReorderTidy
<1>10. CASE (\E dir \in Dir : MoveStack(dir)) \/ ShowAllBegin \/ ShowAllStep
  BY <1>10, LoopsTidy
<1>11. CASE Zoom
  <2>1. PICK floating : g_awm' = zoom(g_awm, floating)
    BY <1>11 DEF Zoom, Handler
  <2> QED
    BY <1>1, <2>1, ClickedTidy
<1>12. CASE HideWin
  BY <1>1, <1>2, <1>12, ReorderTidy DEF HideWin, Handler
<1>13. CASE RestoreWin
  <2> DEFINE at == {i \in DOMAIN g_awm.stack : g_awm.ishidden[g_awm.stack[i]]}
             c  == g_awm.stack[Min(at)]
  <2>1. g_awm.stack \in Seq(Client) /\ ToSet(g_awm.stack) = Managed(g_awm)
    BY <1>1 DEF Well, Core, State, Lists
  <2>2. at \in SUBSET Nat /\ at # {} /\ g_awm' = show(g_awm, c)
    BY <1>13, <2>1 DEF RestoreWin, Handler
  <2>3. Min(at) \in at
    BY <2>2, MinFacts
  <2>4. c \in Managed(g_awm)
    BY <2>1, <2>3 DEF ToSet
  <2> HIDE DEF c
  <2> QED
    BY <1>1, <2>2, <2>4, ReorderTidy
<1>14. CASE ToggleScratch
  BY <1>1, <1>14, TogglescratchTidy DEF ToggleScratch, Handler, Orderly
<1>15. ASSUME NEW c \in Client, EnterClient(c)
       PROVE  Orderly(g_awm, g_awm')
  BY <1>1, <1>15, PointerTidy DEF EnterClient, Handler
<1>16. ASSUME NEW c \in Client, ClickClient(c)
       PROVE  Orderly(g_awm, g_awm')
  BY <1>16, ClickClientTidy
<1>17. ASSUME NEW c \in Client, MapRequest(c)
       PROVE  Orderly(g_awm, g_awm')
  <2>1. PICK place \in placements(g_awm, c) : g_awm' = manage(g_awm, c, place)
    BY <1>17 DEF MapRequest, Handler
  <2> QED
    BY <1>1, <1>17, <2>1, ManageTidy DEF MapRequest, Orderly
<1>18. ASSUME NEW c \in Client, Unmanage(c)
       PROVE  Orderly(g_awm, g_awm')
  BY <1>1, <1>18, UnmanageTidy DEF Unmanage, Handler, Orderly
<1>19. ASSUME NEW c \in Client, NEW all \in BOOLEAN,
              ActivateClient(c) \/ PreviewFocus(c) \/ SwitcherConfirm(c, all)
       PROVE  Orderly(g_awm, g_awm')
  <2>1. c \in Managed(g_awm)
    BY <1>19 DEF ActivateClient, PreviewFocus, SwitcherConfirm
  <2>2. \/ g_awm.tags[c] # {} /\ g_awm' = activate(g_awm, c)
        \/ g_awm' = preview_focus(g_awm, c)
        \/ g_awm' = switcher_confirm(g_awm, c, all)
    BY <1>19 DEF ActivateClient, PreviewFocus, SwitcherConfirm, Handler
  <2> QED
    BY <1>1, <2>1, <2>2, RequestTidy
<1>20. ASSUME NEW m \in Slot, EnterMonitor(m)
       PROVE  Orderly(g_awm, g_awm')
  BY <1>1, <1>20, PointerTidy DEF EnterMonitor, Handler
<1>21. ASSUME NEW m \in Slot, PlugOutput(m) \/ UnplugOutput(m)
       PROVE  Orderly(g_awm, g_awm')
  BY <1>21, HotplugTidy
<1>22. ASSUME NEW m \in Slot,
              \/ ClickBarLost(m)
              \/ \E ts \in SingleTags : ClickTag(m, ts)
              \/ \E c \in Client : ClickTitle(m, c)
       PROVE  Orderly(g_awm, g_awm')
  BY <1>22, ClickBarTidy
<1> QED
  BY <1>3, <1>4, <1>5, <1>6, <1>7, <1>8, <1>9, <1>10, <1>11, <1>12, <1>13,
     <1>14, <1>15, <1>16, <1>17, <1>18, <1>19, <1>20, <1>21, <1>22 DEF Next

\* Windows and views keep to one tag in every reachable state.
THEOREM TidyAlways == ASSUME OneTagBindings
                      PROVE  Spec => [](IInv /\ Tidy(g_awm))
<1>1. IInv /\ Tidy(g_awm) /\ [Next]_vars => IInv' /\ Tidy(g_awm')
  BY NextInvariant, NextTidy DEF Orderly
<1>2. Tidy(g_awm)' <=> Tidy(g_awm')
  BY DEF Tidy, TidyBut, Neat, Lone, OneTag, Home, Chosen, Mon, Managed
<1> QED
  BY <1>1, <1>2, InitInvariant, InitTidy, PTL DEF Spec

\* Where no binding toggles tags of a view or a window, no two monitors show a
\* tag in common, however views are exchanged, windows moved and outputs plugged.
THEOREM DisjointViewsAlways == ASSUME OneTagBindings
                               PROVE  Spec => []DisjointViews
<1>1. IInv /\ Tidy(g_awm) => DisjointViews
  <2> SUFFICES ASSUME IInv, Tidy(g_awm) PROVE DisjointViews
    OBVIOUS
  <2>1. \A m \in Mon(g_awm) : g_awm.tagset[m] # {} /\ g_awm.alttagset[m] # {}
    BY DEF IInv, Well, Core
  <2>2. CASE Lone(g_awm)
    BY <2>1, <2>2, LoneFacts DEF IInv, DisjointViews, ViewsNonEmpty
  <2>3. CASE OneTag(g_awm)
    <3>1. \A m, n \in Mon(g_awm) :
            m # n => g_awm.tagset[m] \cap g_awm.tagset[n] = {}
      BY <2>3, SingleFacts DEF OneTag
    <3> QED
      BY <2>1, <3>1 DEF DisjointViews, ViewsNonEmpty
  <2> QED
    BY <2>2, <2>3 DEF Tidy, TidyBut, Neat
<1> QED
  BY <1>1, TidyAlways, PTL

\* While outputs neither come nor go, a window that some monitor shows belongs to
\* that monitor, so that it is laid out and drawn there.
THEOREM VisibleIsOwnedAlways == ASSUME OneTagBindings, Steady
                                PROVE  Spec => []VisibleIsOwned
<1>1. IInv /\ Tidy(g_awm) => VisibleIsOwned
  <2> SUFFICES ASSUME IInv, Tidy(g_awm) PROVE VisibleIsOwned
    OBVIOUS
  <2>1. CASE Lone(g_awm)
    BY <2>1, LoneFacts DEF IInv, VisibleIsOwned
  <2>2. CASE OneTag(g_awm) /\ Home(g_awm)
    BY <2>2, VisibleFacts DEF VisibleIsOwned, Home
  <2> QED
    BY <2>1, <2>2 DEF Tidy, TidyBut, Neat
<1> QED
  BY <1>1, TidyAlways, PTL

\* While, besides, windows are placed where the user looks, no monitor keeps as
\* its selection a client that was freed or that another monitor owns.
THEOREM SelectionsOwnedAlways == ASSUME OneTagBindings, Steady, PlainPlacement
                                 PROVE  Spec => []SelectionsOwned
<1>1. IInv /\ Tidy(g_awm) => SelectionsOwned
  <2> SUFFICES ASSUME IInv, Tidy(g_awm) PROVE SelectionsOwned
    OBVIOUS
  <2>1. CASE Lone(g_awm)
    <3>1. /\ Mon(g_awm) = {1} /\ g_awm.selmon = 1
          /\ \A c \in Managed(g_awm) : g_awm.mon[c] = 1
      BY <2>1, LoneFacts DEF IInv
    <3>2. SelectedClient(g_awm) \in Managed(g_awm) \cup {NoClient}
      BY SelectedFacts DEF IInv
    <3> QED
      BY <3>1, <3>2 DEF SelectionsOwned, SelectedClient
  <2>2. CASE Chosen(g_awm, 0)
    <3>1. \A m \in Mon(g_awm) : m \in Mon(g_awm) \ {0}
      BY DEF Mon
    <3> QED
      BY <2>2, <3>1 DEF SelectionsOwned, Chosen
  <2> QED
    BY <2>1, <2>2 DEF Tidy, TidyBut, Neat
<1> QED
  BY <1>1, TidyAlways, PTL

\* While outputs neither come nor go, asking for a window with a tag ends with
\* that window selected on a monitor that shows it, however it was asked for.
THEOREM RequestsAlwaysReach == ASSUME OneTagBindings, Steady
                               PROVE  Spec => []RequestsReachWindow
<1>1. IInv /\ Tidy(g_awm) => RequestsReachWindow
  <2> SUFFICES ASSUME IInv, Tidy(g_awm) PROVE RequestsReachWindow
    OBVIOUS
  <2>1. Well(g_awm) /\ (Lone(g_awm) \/ (OneTag(g_awm) /\ Home(g_awm)))
    BY DEF IInv, Tidy, TidyBut, Neat
  <2> QED
    BY <2>1, RequestReaches DEF RequestsReachWindow
<1> QED
  BY <1>1, TidyAlways, PTL

\* Where no binding toggles tags of a view or a window, no step retags more than
\* one window that stays managed: showing tags and moving windows between
\* monitors retags none of the others.
THEOREM OneWindowRetaggedAlways == ASSUME OneTagBindings
                                   PROVE  Spec => OneWindowRetagged
<1>1. IInv /\ Tidy(g_awm) /\ [Next]_vars =>
        [\A c, d \in Managed(g_awm) \cap Managed(g_awm') :
           g_awm'.tags[c] # g_awm.tags[c] /\ g_awm'.tags[d] # g_awm.tags[d]
             => c = d]_vars
  <2> SUFFICES ASSUME IInv, Tidy(g_awm), [Next]_vars
               PROVE  \A c, d \in Managed(g_awm) \cap Managed(g_awm') :
                        /\ g_awm'.tags[c] # g_awm.tags[c]
                        /\ g_awm'.tags[d] # g_awm.tags[d]
                        => c = d
    OBVIOUS
  <2>1. Retags(g_awm, g_awm')
    BY NextTidy DEF Orderly
  <2> QED
    BY <2>1 DEF Retags
<1> QED
  BY <1>1, TidyAlways, PTL DEF OneWindowRetagged, Spec
=============================================================================

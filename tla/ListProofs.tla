----------------------------- MODULE ListProofs -----------------------------
(***************************************************************************)
(* Lemmas about lists: their members, lists without duplicates, and what   *)
(* Keep() returns.  Induction is by the least counterexample, since the    *)
(* theorems of the library about it have operators for parameters.         *)
(***************************************************************************)
EXTENDS Lists, FiniteSetTheorems, SequenceTheorems, TLAPS

\* A set of numbers that is not empty has a least one.
LEMMA LeastElement ==
    ASSUME NEW S \in SUBSET Nat, S # {}
    PROVE  \E m \in S : \A y \in S : m <= y
<1> DEFINE upto(k) == S \cap (0..k)
           T == {A \in FiniteSubsetsOf(Nat) : A # {} /\ \E k \in Nat : A = upto(k)}
<1>1. \A k \in Nat : upto(k) \in FiniteSubsetsOf(Nat)
  <2> SUFFICES ASSUME NEW k \in Nat PROVE IsFiniteSet(upto(k))
    BY DEF FiniteSubsetsOf
  <2>1. IsFiniteSet(0..k)
    BY FS_Interval
  <2> QED
    BY <2>1, FS_Subset
<1>2. T # {}
  <2>1. PICK x \in S : TRUE
    OBVIOUS
  <2>2. x \in upto(x)
    OBVIOUS
  <2> QED
    BY <1>1, <2>2
<1>3. PICK A \in T : \A B \in T : <<B, A>> \notin StrictSubsetOrdering(Nat)
  BY <1>2, WFMin, FS_StrictSubsetOrderingWellFounded
<1>4. \A B \in T : B \subseteq A => B = A
  BY <1>3 DEF StrictSubsetOrdering, FiniteSubsetsOf
<1>5. PICK k \in Nat : A = upto(k)
  OBVIOUS
<1>6. PICK x \in S : x \in A
  BY <1>5
<1>7. ASSUME NEW y \in S PROVE x <= y
  <2>1. CASE y > k
    BY <2>1, <1>5, <1>6
  <2>2. CASE y <= k
    <3>1. y \in upto(y)
      OBVIOUS
    <3>2. upto(y) \in T /\ upto(y) \subseteq A
      BY <3>1, <1>1, <1>5, <2>2
    <3> QED
      BY <3>2, <1>4, <1>6
  <2> QED
    BY <2>1, <2>2
<1> QED
  BY <1>7

\* And a set of numbers up to n has a greatest one.
LEMMA GreatestElement ==
    ASSUME NEW n \in Nat, NEW S \in SUBSET (1 .. n), S # {}
    PROVE  \E m \in S : \A y \in S : m >= y
<1> DEFINE R == {n - x : x \in S}
<1>1. R \in SUBSET Nat /\ R # {}
  <2>1. \A x \in S : n - x \in Nat
    OBVIOUS
  <2> QED BY <2>1
<1>2. PICK r \in R : \A y \in R : r <= y
  <2> HIDE DEF R
  <2> QED BY <1>1, LeastElement
<1>3. PICK m \in S : r = n - m
  OBVIOUS
<1>4. ASSUME NEW y \in S PROVE m >= y
  <2>1. n - y \in R
    OBVIOUS
  <2>2. n - m <= n - y
    BY <1>2, <1>3, <2>1
  <2> QED BY <2>2
<1> QED BY <1>4

\* Induction: a set that has 0 and with each number the next one has all.
LEMMA AllNumbers ==
    ASSUME NEW S, 0 \in S, \A n \in Nat : n \in S => n + 1 \in S
    PROVE  \A n \in Nat : n \in S
<1> SUFFICES ASSUME Nat \ S # {} PROVE FALSE
  OBVIOUS
<1>1. PICK m \in Nat \ S : \A k \in Nat \ S : m <= k
  BY LeastElement
<1>2. m - 1 \in Nat /\ m - 1 \notin Nat \ S
  BY <1>1
<1> QED
  BY <1>1, <1>2

\* The members of a list are the values at its positions.
LEMMA MembersFacts ==
    ASSUME NEW T, NEW s \in Seq(T)
    PROVE  /\ Members(s) = {s[i] : i \in 1 .. Len(s)}
           /\ Members(s) \subseteq T
           /\ s = <<>> <=> Members(s) = {}
           /\ \A i \in 1 .. Len(s) : s[i] \in Members(s)
<1>1. DOMAIN s = 1 .. Len(s) /\ \A i \in 1 .. Len(s) : s[i] \in T
  OBVIOUS
<1>2. Members(s) = {s[i] : i \in 1 .. Len(s)}
  BY <1>1 DEF Members
<1>3. s = <<>> => Members(s) = {}
  BY DEF Members
<1>4. s # <<>> => 1 \in 1 .. Len(s)
  OBVIOUS
<1> QED BY <1>1, <1>2, <1>3, <1>4

\* Appending to a list adds one member.
LEMMA MembersAppend ==
    ASSUME NEW T, NEW s \in Seq(T), NEW x \in T
    PROVE  Members(Append(s, x)) = Members(s) \cup {x}
<1> DEFINE r == Append(s, x)
<1>1. /\ r \in Seq(T) /\ Len(r) = Len(s) + 1 /\ Len(s) \in Nat
      /\ \A i \in 1 .. Len(s) : r[i] = s[i]
      /\ r[Len(s) + 1] = x
  OBVIOUS
<1> HIDE DEF r
<1>2. 1 .. Len(r) = (1 .. Len(s)) \cup {Len(s) + 1}
  BY <1>1
<1>3. /\ Members(r) = {r[i] : i \in 1 .. Len(r)}
      /\ Members(s) = {s[i] : i \in 1 .. Len(s)}
  BY <1>1, MembersFacts
<1>4. Members(r) = Members(s) \cup {x}
  BY <1>1, <1>2, <1>3
<1> QED BY <1>4 DEF r

\* A list after another has the members of both.
LEMMA MembersConcat ==
    ASSUME NEW T, NEW s \in Seq(T), NEW t \in Seq(T)
    PROVE  Members(s \o t) = Members(s) \cup Members(t)
<1> DEFINE r == s \o t
<1>1. /\ r \in Seq(T) /\ Len(r) = Len(s) + Len(t) /\ Len(s) \in Nat /\ Len(t) \in Nat
      /\ \A i \in 1 .. Len(s) + Len(t) : r[i] = IF i <= Len(s) THEN s[i] ELSE t[i - Len(s)]
  BY ConcatProperties
<1> HIDE DEF r
<1>2. /\ Members(r) = {r[i] : i \in 1 .. Len(r)}
      /\ Members(s) = {s[i] : i \in 1 .. Len(s)}
      /\ Members(t) = {t[i] : i \in 1 .. Len(t)}
  BY <1>1, MembersFacts
<1>3. ASSUME NEW i \in 1 .. Len(r) PROVE r[i] \in Members(s) \cup Members(t)
  <2>1. CASE i <= Len(s)
    BY <1>1, <1>2, <2>1
  <2>2. CASE i > Len(s)
    <3>1. i - Len(s) \in 1 .. Len(t)
      BY <1>1, <2>2
    <3> QED BY <1>1, <1>2, <2>2, <3>1
  <2> QED BY <1>1, <2>1, <2>2
<1>4. ASSUME NEW i \in 1 .. Len(s) PROVE s[i] \in Members(r)
  BY <1>1, <1>2
<1>5. ASSUME NEW i \in 1 .. Len(t) PROVE t[i] \in Members(r)
  <2>1. /\ i + Len(s) \in 1 .. Len(r) /\ ~(i + Len(s) <= Len(s))
        /\ i + Len(s) - Len(s) = i
    BY <1>1
  <2>2. r[i + Len(s)] = t[i]
    BY <1>1, <2>1
  <2> QED BY <1>2, <2>1, <2>2
<1>6. Members(r) = Members(s) \cup Members(t)
  BY <1>2, <1>3, <1>4, <1>5
<1> QED BY <1>6 DEF r

\* The head and the tail of a list have its members between them.
LEMMA MembersTail ==
    ASSUME NEW T, NEW s \in Seq(T), s # <<>>
    PROVE  /\ Head(s) \in T /\ Tail(s) \in Seq(T)
           /\ Members(s) = Members(Tail(s)) \cup {Head(s)}
<1> DEFINE r == Tail(s)
<1>1. /\ Head(s) \in T /\ r \in Seq(T) /\ Len(r) = Len(s) - 1 /\ Len(s) \in Nat \ {0}
      /\ \A i \in 1 .. Len(r) : r[i] = s[i + 1]
      /\ Head(s) = s[1]
  BY HeadTailProperties, EmptySeq
<1> HIDE DEF r
<1>2. /\ Members(r) = {r[i] : i \in 1 .. Len(r)}
      /\ Members(s) = {s[i] : i \in 1 .. Len(s)}
  BY <1>1, MembersFacts
<1>3. ASSUME NEW i \in 1 .. Len(s) PROVE s[i] \in Members(r) \cup {Head(s)}
  <2>1. CASE i = 1
    BY <1>1, <2>1
  <2>2. CASE i # 1
    <3>1. i - 1 \in 1 .. Len(r) /\ i - 1 + 1 = i
      BY <1>1, <2>2
    <3> QED BY <1>1, <1>2, <3>1
  <2> QED BY <2>1, <2>2
<1>4. ASSUME NEW i \in 1 .. Len(r) PROVE r[i] \in Members(s)
  <2>1. i + 1 \in 1 .. Len(s)
    BY <1>1
  <2> QED BY <1>1, <1>2, <2>1
<1>5. Head(s) \in Members(s)
  <2>1. 1 \in 1 .. Len(s)
    BY <1>1
  <2> QED BY <1>1, <1>2, <2>1
<1>6. Members(s) = Members(r) \cup {Head(s)}
  BY <1>2, <1>3, <1>4, <1>5
<1> QED BY <1>1, <1>6 DEF r

\* A list without duplicates has as many members as positions.
LEMMA DistinctCount ==
    ASSUME NEW T, NEW s \in Seq(T),
           \A i, j \in 1 .. Len(s) : s[i] = s[j] => i = j
    PROVE  IsFiniteSet(Members(s)) /\ Cardinality(Members(s)) = Len(s)
<1>1. Members(s) = {s[i] : i \in 1 .. Len(s)} /\ Len(s) \in Nat
  BY MembersFacts
<1> DEFINE f == [i \in 1 .. Len(s) |-> s[i]]
<1>2. f \in Bijection(1 .. Len(s), Members(s))
  BY <1>1 DEF Bijection, Injection, Surjection, IsInjective
<1>3. ExistsBijection(1 .. Len(s), Members(s))
  BY <1>2 DEF ExistsBijection
<1> QED BY <1>1, <1>3, FS_NatBijection, FS_CountingElements

\* A list that has no member twice.
Distinct(list) == \A i, j \in 1 .. Len(list) : list[i] = list[j] => i = j

\* Such a list has as many members as positions, and no other list has.
LEMMA DistinctMembers ==
    ASSUME NEW T, NEW list \in Seq(T)
    PROVE  Distinct(list) <=> Cardinality(Members(list)) = Len(list)
<1>1. Members(list) = {list[i] : i \in 1 .. Len(list)} /\ Len(list) \in Nat
  BY MembersFacts
<1> DEFINE f == [i \in 1 .. Len(list) |-> list[i]]
<1>2. f \in Surjection(1 .. Len(list), Members(list))
  <2>1. f \in [1 .. Len(list) -> Members(list)]
    BY <1>1
  <2>2. \A c \in Members(list) : \E i \in 1 .. Len(list) : f[i] = c
    BY <1>1
  <2> HIDE DEF f
  <2> QED BY <2>1, <2>2 DEF Surjection
<1>3. IsFiniteSet(1 .. Len(list)) /\ Cardinality(1 .. Len(list)) = Len(list)
  <2>1. \A n \in Nat : IsFiniteSet(1 .. n) /\ Cardinality(1 .. n) = n
    <3> TAKE n \in Nat
    <3>1. /\ IsFiniteSet(1 .. n)
          /\ Cardinality(1 .. n) = IF 1 > n THEN 0 ELSE n - 1 + 1
      BY FS_Interval
    <3> QED BY <3>1
  <2> QED BY <1>1, <2>1
<1>4. Cardinality(Members(list)) = Len(list) => f \in Injection(1 .. Len(list), Members(list))
  <2> HIDE DEF f
  <2> QED BY <1>2, <1>3, FS_SurjSameCardinalityImpliesInj
<1>5. Cardinality(Members(list)) = Len(list) => Distinct(list)
  BY <1>4 DEF Injection, IsInjective, Distinct
<1>6. Distinct(list) => Cardinality(Members(list)) = Len(list)
  BY DistinctCount DEF Distinct
<1> QED BY <1>5, <1>6

\* A new member in front.
LEMMA DistinctPush ==
    ASSUME NEW T, NEW list \in Seq(T), NEW x \in T
    PROVE  /\ <<x>> \o list \in Seq(T) /\ Len(<<x>> \o list) = Len(list) + 1
           /\ Members(<<x>> \o list) = Members(list) \cup {x}
           /\ Distinct(list) /\ x \notin Members(list) => Distinct(<<x>> \o list)
<1> DEFINE one == <<x>>
           r == one \o list
<1>1. one \in Seq(T) /\ Len(one) = 1 /\ one[1] = x /\ Members(one) = {x} /\ Len(list) \in Nat
  BY DEF Members
<1> HIDE DEF one
<1>2. /\ r \in Seq(T) /\ Len(r) = 1 + Len(list)
      /\ \A i \in 1 .. 1 + Len(list) : r[i] = IF i <= 1 THEN one[i] ELSE list[i - 1]
      /\ Members(r) = Members(one) \cup Members(list)
  <2>1. /\ r \in Seq(T) /\ Len(r) = Len(one) + Len(list)
        /\ \A i \in 1 .. Len(one) + Len(list) :
              r[i] = IF i <= Len(one) THEN one[i] ELSE list[i - Len(one)]
    BY <1>1, ConcatProperties
  <2>2. Members(r) = Members(one) \cup Members(list)
    BY <1>1, MembersConcat
  <2> HIDE DEF r
  <2> QED BY <1>1, <2>1, <2>2
<1> HIDE DEF r
<1>3. ASSUME Distinct(list), x \notin Members(list) PROVE Distinct(r)
  <2>1. \A i \in 1 .. Len(list) : list[i] # x
    BY <1>3, MembersFacts
  <2>2. ASSUME NEW i \in 1 .. Len(r)
        PROVE  \/ i = 1 /\ r[i] = x
               \/ i # 1 /\ i - 1 \in 1 .. Len(list) /\ r[i] = list[i - 1]
    <3>1. CASE i = 1
      BY <1>1, <1>2, <3>1
    <3>2. CASE i # 1
      BY <1>1, <1>2, <3>2
    <3> QED BY <3>1, <3>2
  <2> SUFFICES ASSUME NEW i \in 1 .. Len(r), NEW j \in 1 .. Len(r), r[i] = r[j]
               PROVE  i = j
    BY DEF Distinct
  <2>3. CASE i = 1 \/ j = 1
    BY <2>1, <2>2, <2>3
  <2>4. CASE i # 1 /\ j # 1
    <3>1. i - 1 = j - 1
      BY <1>3, <2>2, <2>4 DEF Distinct
    <3> QED BY <3>1
  <2> QED BY <2>3, <2>4
<1> QED BY <1>1, <1>2, <1>3 DEF r, one

\* The equations of the recursion in Keep().
LEMMA KeepRecursion ==
    ASSUME NEW T, NEW list \in Seq(T), NEW S
    PROVE  \E kept :
              /\ Keep(list, S) = kept[Len(list)]
              /\ kept[0] = <<>>
              /\ \A n \in 1 .. Len(list) :
                    kept[n] = IF list[n] \in S THEN Append(kept[n - 1], list[n])
                              ELSE kept[n - 1]
<1> DEFINE body(g, d) == [n \in 0 .. d |->
                IF n = 0 THEN <<>>
                ELSE IF list[n] \in S THEN Append(g[n - 1], list[n])
                ELSE g[n - 1]]
           P(d) == d <= Len(list) => \E g \in [0 .. d -> Seq(T)] : g = body(g, d)
           N == {d \in Nat : P(d)}
<1>1. P(0)
  <2> DEFINE g == [n \in 0 .. 0 |-> <<>>]
  <2>1. g \in [0 .. 0 -> Seq(T)]
    OBVIOUS
  <2>2. g = body(g, 0)
    OBVIOUS
  <2> QED BY <2>1, <2>2
<1>2. ASSUME NEW d \in Nat, P(d) PROVE P(d + 1)
  <2> SUFFICES ASSUME d + 1 <= Len(list)
               PROVE \E g \in [0 .. d + 1 -> Seq(T)] : g = body(g, d + 1)
    OBVIOUS
  <2>0. d <= Len(list) /\ d + 1 \in 1 .. Len(list)
    OBVIOUS
  <2>1. PICK h \in [0 .. d -> Seq(T)] : h = body(h, d)
    BY <1>2, <2>0
  <2> DEFINE last == IF list[d + 1] \in S THEN Append(h[d], list[d + 1]) ELSE h[d]
             g == [n \in 0 .. d + 1 |-> IF n = d + 1 THEN last ELSE h[n]]
  <2>2. list[d + 1] \in T /\ last \in Seq(T)
    OBVIOUS
  <2>3. g \in [0 .. d + 1 -> Seq(T)]
    BY <2>2
  <2>4. ASSUME NEW n \in 0 .. d + 1 PROVE g[n] = body(g, d + 1)[n]
    <3>1. CASE n = d + 1
      BY <3>1
    <3>2. CASE n # d + 1
      <4>1. n \in 0 .. d /\ g[n] = h[n]
        BY <3>2
      <4>2. h[n] = body(h, d)[n]
        BY <2>1
      <4>3. n # 0 => g[n - 1] = h[n - 1]
        BY <4>1
      <4> QED BY <4>1, <4>2, <4>3
    <3> QED BY <3>1, <3>2
  <2>5. g = body(g, d + 1)
    BY <2>3, <2>4
  <2> QED BY <2>3, <2>5
<1>3. P(Len(list))
  <2>1. Len(list) \in Nat
    OBVIOUS
  <2> HIDE DEF P
  <2>2. 0 \in N /\ \A d \in Nat : d \in N => d + 1 \in N
    BY <1>1, <1>2
  <2> HIDE DEF N
  <2>3. Len(list) \in N
    BY <2>1, <2>2, AllNumbers
  <2> QED BY <2>3 DEF N
<1>4. PICK g \in [0 .. Len(list) -> Seq(T)] : g = body(g, Len(list))
  BY <1>3
<1> DEFINE kept == CHOOSE k : k = body(k, Len(list))
<1>5. kept = body(kept, Len(list))
  BY <1>4
<1>6. Keep(list, S) = kept[Len(list)]
  BY DEF Keep
<1>7. ASSUME NEW n \in 0 .. Len(list)
      PROVE kept[n] = IF n = 0 THEN <<>>
                      ELSE IF list[n] \in S THEN Append(kept[n - 1], list[n])
                      ELSE kept[n - 1]
  <2>1. body(kept, Len(list))[n] = IF n = 0 THEN <<>>
                      ELSE IF list[n] \in S THEN Append(kept[n - 1], list[n])
                      ELSE kept[n - 1]
    OBVIOUS
  <2> HIDE DEF kept
  <2> QED BY <1>5, <2>1
<1> HIDE DEF kept
<1>8. 0 \in 0 .. Len(list) /\ \A n \in 1 .. Len(list) : n \in 0 .. Len(list) /\ n # 0
  OBVIOUS
<1> QED
  BY <1>6, <1>7, <1>8

\* What Keep() returns: the members that pass, each from a position of its own,
\* and in the order of these positions.
LEMMA KeepFacts ==
    ASSUME NEW T, NEW list \in Seq(T), NEW S
    PROVE  /\ Keep(list, S) \in Seq(T)
           /\ Members(Keep(list, S)) = Members(list) \cap S
           /\ Len(Keep(list, S)) <= Len(list)
           /\ \E at \in [1 .. Len(Keep(list, S)) -> 1 .. Len(list)] :
                 /\ \A i \in 1 .. Len(Keep(list, S)) : Keep(list, S)[i] = list[at[i]]
                 /\ \A i, j \in 1 .. Len(Keep(list, S)) : i < j => at[i] < at[j]
<1>1. PICK kept :
          /\ Keep(list, S) = kept[Len(list)]
          /\ kept[0] = <<>>
          /\ \A n \in 1 .. Len(list) :
                kept[n] = IF list[n] \in S THEN Append(kept[n - 1], list[n])
                          ELSE kept[n - 1]
  BY KeepRecursion
<1> DEFINE Picks(n, at) ==
              /\ \A i \in 1 .. Len(kept[n]) : kept[n][i] = list[at[i]]
              /\ \A i, j \in 1 .. Len(kept[n]) : i < j => at[i] < at[j]
           P(n) == n <= Len(list) =>
              /\ kept[n] \in Seq(T)
              /\ Members(kept[n]) = {list[i] : i \in 1 .. n} \cap S
              /\ Len(kept[n]) <= n
              /\ \E at \in [1 .. Len(kept[n]) -> 1 .. n] : Picks(n, at)
           N == {n \in Nat : P(n)}
<1>2. P(0)
  <2>1. kept[0] = <<>> /\ Members(<<>>) = {}
    BY <1>1 DEF Members
  <2>2. kept[0] \in Seq(T) /\ Len(kept[0]) = 0
    BY <2>1
  <2> DEFINE at == [i \in 1 .. 0 |-> i]
  <2>3. at \in [1 .. Len(kept[0]) -> 1 .. 0] /\ Picks(0, at)
    BY <2>2
  <2>4. Members(kept[0]) = {list[i] : i \in 1 .. 0} \cap S
    BY <2>1
  <2> HIDE DEF Picks, at
  <2> QED BY <2>2, <2>3, <2>4
<1>3. ASSUME NEW n \in Nat, P(n) PROVE P(n + 1)
  <2> SUFFICES ASSUME n + 1 <= Len(list)
               PROVE /\ kept[n + 1] \in Seq(T)
                     /\ Members(kept[n + 1]) = {list[i] : i \in 1 .. n + 1} \cap S
                     /\ Len(kept[n + 1]) <= n + 1
                     /\ \E at \in [1 .. Len(kept[n + 1]) -> 1 .. n + 1] : Picks(n + 1, at)
    OBVIOUS
  <2> DEFINE k == kept[n]
             x == list[n + 1]
  <2>0. n <= Len(list) /\ n + 1 \in 1 .. Len(list) /\ n + 1 - 1 = n
    OBVIOUS
  <2>1. /\ k \in Seq(T) /\ x \in T /\ Len(k) \in Nat
        /\ kept[n + 1] = IF x \in S THEN Append(k, x) ELSE k
    BY <1>1, <1>3, <2>0
  <2>2. /\ Members(k) = {list[i] : i \in 1 .. n} \cap S
        /\ Len(k) <= n
    BY <1>3, <2>0
  <2>3. PICK at \in [1 .. Len(k) -> 1 .. n] : Picks(n, at)
    BY <1>3, <2>0
  <2>4. {list[i] : i \in 1 .. n + 1} = {list[i] : i \in 1 .. n} \cup {x}
    <3>1. 1 .. n + 1 = (1 .. n) \cup {n + 1}
      OBVIOUS
    <3> QED BY <3>1
  <2>5. CASE x \notin S
    <3>1. kept[n + 1] = k
      BY <2>1, <2>5
    <3>2. at \in [1 .. Len(k) -> 1 .. n + 1] /\ Len(k) <= n + 1
      BY <2>1, <2>2
    <3>3. Picks(n + 1, at)
      BY <2>3, <3>1
    <3>4. Members(k) = {list[i] : i \in 1 .. n + 1} \cap S
      BY <2>2, <2>4, <2>5
    <3> HIDE DEF Picks, k
    <3>5. k = kept[n]
      BY DEF k
    <3> QED BY <2>1, <3>1, <3>2, <3>3, <3>4, <3>5
  <2>6. CASE x \in S
    <3> DEFINE r == Append(k, x)
               to == [i \in 1 .. Len(k) + 1 |-> IF i = Len(k) + 1 THEN n + 1 ELSE at[i]]
    <3>1. /\ kept[n + 1] = r /\ r \in Seq(T) /\ Len(r) = Len(k) + 1
          /\ \A i \in 1 .. Len(k) : r[i] = k[i]
          /\ r[Len(k) + 1] = x
      BY <2>1, <2>6
    <3>2. Members(r) = Members(k) \cup {x}
      BY <2>1, MembersAppend
    <3>3. to \in [1 .. Len(k) + 1 -> 1 .. n + 1]
      BY <2>1
    <3>4. \A i \in 1 .. Len(k) + 1 : r[i] = list[to[i]]
      <4> HIDE DEF r
      <4> QED BY <3>1, <2>1, <2>3
    <3>5. \A i, j \in 1 .. Len(k) + 1 : i < j => to[i] < to[j]
      <4> SUFFICES ASSUME NEW i \in 1 .. Len(k) + 1, NEW j \in 1 .. Len(k) + 1, i < j
                   PROVE to[i] < to[j]
        OBVIOUS
      <4>0. Len(k) \in Nat /\ at \in [1 .. Len(k) -> 1 .. n]
        BY <2>1
      <4>1. i \in 1 .. Len(k) /\ to[i] = at[i] /\ at[i] \in 1 .. n
        <5> HIDE DEF k
        <5>1. i \in Nat /\ j \in Nat /\ j <= Len(k) + 1 /\ i <= Len(k) /\ 1 <= i
          BY <4>0
        <5>2. i \in 1 .. Len(k) /\ i # Len(k) + 1
          BY <4>0, <5>1
        <5>3. to[i] = at[i]
          BY <5>2
        <5> QED BY <4>0, <5>2, <5>3
      <4>2. CASE j = Len(k) + 1
        <5>1. to[j] = n + 1
          BY <4>2
        <5> QED BY <4>1, <5>1
      <4>3. CASE j # Len(k) + 1
        <5>1. j \in 1 .. Len(k) /\ to[j] = at[j]
          <6> HIDE DEF k
          <6> QED BY <4>3, <4>0
        <5> QED BY <4>1, <5>1, <2>3
      <4> QED BY <4>2, <4>3
    <3>6. Picks(n + 1, to)
      <4> HIDE DEF r, to
      <4> QED BY <3>1, <3>4, <3>5
    <3>7. Members(r) = {list[i] : i \in 1 .. n + 1} \cap S /\ Len(r) <= n + 1
      BY <2>1, <2>2, <2>4, <2>6, <3>1, <3>2
    <3> HIDE DEF r, to, k, Picks
    <3> QED BY <3>1, <3>3, <3>6, <3>7
  <2> QED BY <2>5, <2>6
<1>4. P(Len(list))
  <2>1. Len(list) \in Nat
    OBVIOUS
  <2> HIDE DEF P
  <2>2. 0 \in N /\ \A d \in Nat : d \in N => d + 1 \in N
    BY <1>2, <1>3
  <2> HIDE DEF N
  <2>3. Len(list) \in N
    BY <2>1, <2>2, AllNumbers
  <2> QED BY <2>3 DEF N
<1>5. Members(list) = {list[i] : i \in 1 .. Len(list)}
  BY DEF Members
<1> DEFINE k == Keep(list, S)
<1>6. Len(list) <= Len(list) /\ k = kept[Len(list)]
  BY <1>1
<1>7. /\ k \in Seq(T) /\ Members(k) = Members(list) \cap S /\ Len(k) <= Len(list)
      /\ \E at \in [1 .. Len(k) -> 1 .. Len(list)] : Picks(Len(list), at)
  BY <1>4, <1>5, <1>6
<1> QED BY <1>6, <1>7

\* Members of a list without duplicates that are kept are kept once.
LEMMA DistinctKeep ==
    ASSUME NEW T, NEW list \in Seq(T), NEW S, Distinct(list)
    PROVE  Distinct(Keep(list, S))
<1> DEFINE r == Keep(list, S)
<1>1. PICK at \in [1 .. Len(r) -> 1 .. Len(list)] :
            /\ \A i \in 1 .. Len(r) : r[i] = list[at[i]]
            /\ \A i, j \in 1 .. Len(r) : i < j => at[i] < at[j]
  BY KeepFacts
<1>2. r \in Seq(T)
  BY KeepFacts
<1> HIDE DEF r
<1>3. Len(r) \in Nat
  BY <1>2
<1>4. Distinct(r)
  <2> SUFFICES ASSUME NEW i \in 1 .. Len(r), NEW j \in 1 .. Len(r), r[i] = r[j]
               PROVE  i = j
    BY DEF Distinct
  <2>1. at[i] = at[j]
    BY <1>1 DEF Distinct
  <2>2. ~(i < j) /\ ~(j < i)
    BY <1>1, <2>1
  <2> QED BY <2>2
<1> QED BY <1>4 DEF r

\* A member that is taken out of its position.
LEMMA MembersCut ==
    ASSUME NEW T, NEW list \in Seq(T), NEW i \in 1 .. Len(list)
    PROVE  /\ SubSeq(list, 1, i - 1) \o SubSeq(list, i + 1, Len(list)) \in Seq(T)
           /\ list[i] \in T
           /\ Members(list) =
                 Members(SubSeq(list, 1, i - 1) \o SubSeq(list, i + 1, Len(list))) \cup {list[i]}
<1> DEFINE n == Len(list)
           s == SubSeq(list, 1, i - 1)
           t == SubSeq(list, i + 1, Len(list))
<1>1. n \in Nat /\ i \in Nat /\ 1 <= i /\ i <= n
  OBVIOUS
<1>2. /\ \A k \in 1 .. i - 1 : k \in 1 .. n /\ list[k] \in T
      /\ \A k \in i + 1 .. n : k \in 1 .. n /\ list[k] \in T
  BY <1>1
<1>3. /\ s \in Seq(T) /\ Len(s) = i - 1
      /\ \A k \in 1 .. i - 1 : s[k] = list[k]
  BY <1>1, <1>2
<1>4. /\ t \in Seq(T) /\ Len(t) = n - i
      /\ \A k \in 1 .. n - i : t[k] = list[k + i]
  BY <1>1, <1>2
<1> HIDE DEF n, s, t
<1>5. /\ Members(s) = {s[k] : k \in 1 .. i - 1}
      /\ Members(t) = {t[k] : k \in 1 .. n - i}
      /\ Members(list) = {list[k] : k \in 1 .. n}
  BY <1>3, <1>4, MembersFacts DEF n
<1>6. s \o t \in Seq(T) /\ Members(s \o t) = Members(s) \cup Members(t)
  BY <1>3, <1>4, MembersConcat, ConcatProperties
<1>7. Members(list) = Members(s) \cup Members(t) \cup {list[i]}
  <2>1. ASSUME NEW k \in 1 .. n PROVE list[k] \in Members(s) \cup Members(t) \cup {list[i]}
    <3>1. CASE k < i
      BY <1>1, <1>3, <1>5, <3>1
    <3>2. CASE k > i
      <4>1. k - i \in 1 .. n - i /\ (k - i) + i = k
        BY <1>1, <3>2
      <4>2. t[k - i] = list[k]
        BY <1>4, <4>1
      <4> QED BY <1>5, <4>1, <4>2
    <3>3. CASE k = i
      BY <3>3
    <3> QED BY <1>1, <3>1, <3>2, <3>3
  <2>2. \A k \in 1 .. i - 1 : s[k] \in Members(list)
    BY <1>1, <1>2, <1>3, <1>5
  <2>3. ASSUME NEW k \in 1 .. n - i PROVE t[k] \in Members(list)
    <3>1. k + i \in 1 .. n
      BY <1>1
    <3> QED BY <1>4, <1>5, <3>1
  <2>4. list[i] \in Members(list)
    BY <1>1, <1>5
  <2> QED BY <1>5, <2>1, <2>2, <2>3, <2>4
<1> QED BY <1>1, <1>6, <1>7 DEF n, s, t

=============================================================================

------------------------------ MODULE TaskLists ------------------------------
(***************************************************************************)
(* Facts about lists of tasks, for the proofs about components whose       *)
(* threads carry one: a step takes the first task off a list and may put   *)
(* others in its place.  S is any set of tasks.                            *)
(***************************************************************************)
EXTENDS Integers, Sequences, SequenceTheorems, TLAPS

\* The tasks of a list, and those that wait behind the first.
All(s)   == {s[i] : i \in 1..Len(s)}
Later(s) == {s[i] : i \in 2..Len(s)}

\* The tasks of L come only at the end of the list.
LastOnly(s, L) == \A i \in 1..Len(s) - 1 : s[i] \notin L

\* The tasks of L come only at the beginning of the list.
FirstOnly(s, L) == \A i, j \in 1..Len(s) : i <= j /\ s[j] \in L => s[i] \in L

-----------------------------------------------------------------------------
\* The first task and the rest make up the list.
LEMMA ListParts ==
  ASSUME NEW S, NEW s \in Seq(S), s # <<>>
  PROVE  /\ Head(s) \in S /\ Tail(s) \in Seq(S)
         /\ Head(s) \in All(s) /\ All(s) = {Head(s)} \cup Later(s)
         /\ All(s) \subseteq S /\ Later(s) \subseteq S
         /\ All(Tail(s)) = Later(s) /\ Later(Tail(s)) \subseteq Later(s)
         /\ Len(s) \in Nat \ {0} /\ Len(Tail(s)) = Len(s) - 1
         /\ \A i \in 1..Len(Tail(s)) : Tail(s)[i] = s[i + 1]
<1>1. /\ Head(s) \in S /\ Tail(s) \in Seq(S) /\ Len(Tail(s)) = Len(s) - 1
      /\ \A i \in 1..Len(Tail(s)) : Tail(s)[i] = s[i + 1]
  BY HeadTailProperties
<1>2. Len(s) \in Nat \ {0} /\ Head(s) = s[1] /\ \A i \in 1..Len(s) : s[i] \in S
  OBVIOUS
<1>3. Head(s) \in All(s) /\ All(s) = {Head(s)} \cup Later(s)
  <2>1. \A i \in 1..Len(s) : i = 1 \/ i \in 2..Len(s)
    BY <1>2
  <2> QED
    BY <1>2, <2>1 DEF All, Later
<1>4. All(s) \subseteq S /\ Later(s) \subseteq S
  BY <1>2, <1>3 DEF All
<1>5. All(Tail(s)) = Later(s)
  <2>1. ASSUME NEW i \in 1..Len(Tail(s)) PROVE Tail(s)[i] = s[i + 1] /\ i + 1 \in 2..Len(s)
    BY <1>1, <1>2
  <2>2. ASSUME NEW j \in 2..Len(s) PROVE j - 1 \in 1..Len(Tail(s)) /\ Tail(s)[j - 1] = s[j]
    <3>1. j - 1 \in 1..Len(Tail(s)) /\ (j - 1) + 1 = j
      BY <1>1, <1>2
    <3> QED
      BY <3>1, <2>1
  <2>3. \A x \in All(Tail(s)) : x \in Later(s)
    BY <2>1 DEF All, Later
  <2>4. \A x \in Later(s) : x \in All(Tail(s))
    BY <2>2 DEF All, Later
  <2> QED
    BY <2>3, <2>4
<1>6. Later(Tail(s)) \subseteq Later(s)
  <2>1. \A i \in 2..Len(Tail(s)) : i \in 1..Len(Tail(s))
    BY <1>1, <1>2
  <2>2. Later(Tail(s)) \subseteq All(Tail(s))
    BY <2>1 DEF All, Later
  <2> QED
    BY <2>2, <1>5
<1> QED
  BY <1>1, <1>2, <1>3, <1>4, <1>5, <1>6

\* Two lists one after the other.
LEMMA Joined ==
  ASSUME NEW S, NEW u \in Seq(S), NEW v \in Seq(S)
  PROVE  /\ u \o v \in Seq(S) /\ All(u \o v) = All(u) \cup All(v)
         /\ Len(u \o v) = Len(u) + Len(v)
         /\ u = <<>> => u \o v = v
         /\ u # <<>> => /\ u \o v # <<>> /\ Head(u \o v) = Head(u)
                        /\ Later(u \o v) = Later(u) \cup All(v)
<1> DEFINE r == u \o v
<1>1. /\ r \in Seq(S) /\ Len(r) = Len(u) + Len(v)
      /\ \A i \in 1..Len(u) + Len(v) : r[i] = IF i <= Len(u) THEN u[i] ELSE v[i - Len(u)]
  BY ConcatProperties
<1>2. Len(u) \in Nat /\ Len(v) \in Nat
  OBVIOUS
<1>3. ASSUME NEW i \in 1..Len(u) PROVE i \in 1..Len(r) /\ r[i] = u[i]
  BY <1>1, <1>2
<1>4. ASSUME NEW i \in 1..Len(v)
      PROVE  i + Len(u) \in 1..Len(r) /\ r[i + Len(u)] = v[i]
  BY <1>1, <1>2
<1>5. ASSUME NEW i \in 1..Len(r)
      PROVE  \/ i \in 1..Len(u) /\ r[i] = u[i]
             \/ i - Len(u) \in 1..Len(v) /\ r[i] = v[i - Len(u)]
  BY <1>1, <1>2
<1> HIDE DEF r
<1>6. All(r) = All(u) \cup All(v)
  <2>1. \A x \in All(u) : x \in All(r)
    BY <1>3 DEF All
  <2>2. \A x \in All(v) : x \in All(r)
    BY <1>4 DEF All
  <2>3. \A x \in All(r) : x \in All(u) \/ x \in All(v)
    BY <1>5 DEF All
  <2> QED
    BY <2>1, <2>2, <2>3
<1>7. ASSUME u # <<>> PROVE r # <<>> /\ Head(r) = Head(u)
  <2>1. 1 \in 1..Len(u)
    BY <1>2, <1>7
  <2>2. 1 \in 1..Len(r) /\ r[1] = u[1]
    BY <1>3, <2>1
  <2>3. r # <<>>
    BY <2>2
  <2> QED
    BY <1>1, <2>2, <2>3, <1>7
<1>8. ASSUME u # <<>> PROVE Later(r) = Later(u) \cup All(v)
  <2>0. Len(u) >= 1
    BY <1>2, <1>8
  <2>1. \A x \in Later(u) : x \in Later(r)
    <3>1. ASSUME NEW i \in 2..Len(u) PROVE i \in 2..Len(r) /\ r[i] = u[i]
      BY <1>3, <1>2
    <3> QED
      BY <3>1 DEF Later
  <2>2. \A x \in All(v) : x \in Later(r)
    <3>1. ASSUME NEW i \in 1..Len(v)
          PROVE  i + Len(u) \in 2..Len(r) /\ r[i + Len(u)] = v[i]
      <4>1. i + Len(u) \in 1..Len(r) /\ r[i + Len(u)] = v[i]
        BY <1>4
      <4>2. i + Len(u) \in 2..Len(r)
        BY <4>1, <1>2, <2>0
      <4> QED
        BY <4>1, <4>2
    <3> QED
      BY <3>1 DEF All, Later
  <2>3. \A x \in Later(r) : x \in Later(u) \/ x \in All(v)
    <3>1. ASSUME NEW i \in 2..Len(r)
          PROVE  \/ i \in 2..Len(u) /\ r[i] = u[i]
                 \/ i - Len(u) \in 1..Len(v) /\ r[i] = v[i - Len(u)]
      <4>1. i \in 1..Len(r) /\ i >= 2
        BY <1>1, <1>2
      <4>2. CASE i \in 1..Len(u) /\ r[i] = u[i]
        BY <4>1, <4>2, <1>2
      <4> QED
        BY <4>1, <4>2, <1>5
    <3> QED
      BY <3>1 DEF All, Later
  <2> QED
    BY <2>1, <2>2, <2>3
<1>9. u = <<>> => r = v
  BY DEF r
<1> QED
  BY <1>1, <1>6, <1>7, <1>8, <1>9 DEF r

\* The lists the drivers write down.
LEMMA Listed ==
  ASSUME NEW S
  PROVE  /\ <<>> \in Seq(S) /\ All(<<>>) = {} /\ Later(<<>>) = {}
         /\ \A a \in S : /\ <<a>> \in Seq(S) /\ All(<<a>>) = {a} /\ Later(<<a>>) = {}
                         /\ <<a>> # <<>> /\ Head(<<a>>) = a
         /\ \A a, b \in S : /\ <<a, b>> \in Seq(S) /\ All(<<a, b>>) = {a, b}
                            /\ Later(<<a, b>>) = {b}
                            /\ <<a, b>> # <<>> /\ Head(<<a, b>>) = a
         /\ \A a, b, c \in S : /\ <<a, b, c>> \in Seq(S) /\ All(<<a, b, c>>) = {a, b, c}
                               /\ Later(<<a, b, c>>) = {b, c}
                               /\ <<a, b, c>> # <<>> /\ Head(<<a, b, c>>) = a
<1>1. <<>> \in Seq(S) /\ All(<<>>) = {} /\ Later(<<>>) = {}
  BY DEF All, Later
<1>2. ASSUME NEW a \in S
      PROVE  /\ <<a>> \in Seq(S) /\ All(<<a>>) = {a} /\ Later(<<a>>) = {}
             /\ <<a>> # <<>> /\ Head(<<a>>) = a
  <2>1. Len(<<a>>) = 1 /\ <<a>>[1] = a /\ 1..1 = {1} /\ 2..1 = {}
    OBVIOUS
  <2> QED
    BY <2>1 DEF All, Later
<1>3. ASSUME NEW a \in S, NEW b \in S
      PROVE  /\ <<a, b>> \in Seq(S) /\ All(<<a, b>>) = {a, b} /\ Later(<<a, b>>) = {b}
             /\ <<a, b>> # <<>> /\ Head(<<a, b>>) = a
  <2> DEFINE s == <<a, b>>
  <2>1. Len(s) = 2 /\ s[1] = a /\ s[2] = b /\ 1..2 = {1, 2} /\ 2..2 = {2}
    OBVIOUS
  <2>2. s \in Seq(S) /\ s # <<>> /\ Head(s) = a
    OBVIOUS
  <2> HIDE DEF s
  <2>3. All(s) = {a, b} /\ Later(s) = {b}
    BY <2>1 DEF All, Later
  <2> QED
    BY <2>2, <2>3 DEF s
<1>4. ASSUME NEW a \in S, NEW b \in S, NEW c \in S
      PROVE  /\ <<a, b, c>> \in Seq(S) /\ All(<<a, b, c>>) = {a, b, c}
             /\ Later(<<a, b, c>>) = {b, c}
             /\ <<a, b, c>> # <<>> /\ Head(<<a, b, c>>) = a
  <2> DEFINE s == <<a, b, c>>
  <2>1. Len(s) = 3 /\ s[1] = a /\ s[2] = b /\ s[3] = c /\ 1..3 = {1, 2, 3} /\ 2..3 = {2, 3}
    OBVIOUS
  <2>2. s \in Seq(S) /\ s # <<>> /\ Head(s) = a
    OBVIOUS
  <2> HIDE DEF s
  <2>3. All(s) = {a, b, c} /\ Later(s) = {b, c}
    BY <2>1 DEF All, Later
  <2> QED
    BY <2>2, <2>3 DEF s
<1> QED
  BY <1>1, <1>2, <1>3, <1>4

\* A list of two tasks is the first put before the second,
LEMMA CoupleJoined ==
  ASSUME NEW a, NEW b
  PROVE  <<a>> \o <<b>> = <<a, b>>
<1> DEFINE S == {a, b}
           u == <<a>>
           v == <<b>>
           r == u \o v
           q == <<a, b>>
<1>1. u \in Seq(S) /\ v \in Seq(S) /\ Len(u) = 1 /\ Len(v) = 1 /\ u[1] = a /\ v[1] = b
  OBVIOUS
<1>2. q \in Seq(S) /\ Len(q) = 2 /\ q[1] = a /\ q[2] = b
  OBVIOUS
<1> HIDE DEF S, u, v, q
<1>3. /\ r \in Seq(S) /\ Len(r) = Len(u) + Len(v)
      /\ \A i \in 1..Len(u) + Len(v) : r[i] = IF i <= Len(u) THEN u[i] ELSE v[i - Len(u)]
  BY <1>1, ConcatProperties
<1> HIDE DEF r
<1>4. \A i \in 1..Len(r) : r[i] = q[i]
  BY <1>1, <1>2, <1>3
<1>5. r = q
  BY <1>1, <1>2, <1>3, <1>4, SeqEqual
<1> QED
  BY <1>5 DEF r, q, u, v

\* and holds these two.
LEMMA Pair ==
  ASSUME NEW S, NEW a \in S, NEW b \in S
  PROVE  /\ <<a>> \o <<b>> = <<a, b>>
         /\ <<a, b>> \in Seq(S) /\ <<a, b>> # <<>>
         /\ All(<<a, b>>) = {a, b} /\ Later(<<a, b>>) = {b}
<1> DEFINE q == <<a, b>>
<1>1. q \in Seq(S) /\ Len(q) = 2 /\ q[1] = a /\ q[2] = b /\ q # <<>>
  OBVIOUS
<1>2. <<a>> \o <<b>> = q
  BY CoupleJoined
<1> HIDE DEF q
<1>3. All(q) = {a, b} /\ Later(q) = {b}
  <2>1. 1..2 = {1, 2} /\ 2..2 = {2}
    OBVIOUS
  <2> QED
    BY <1>1, <2>1 DEF All, Later
<1> QED
  BY <1>1, <1>2, <1>3 DEF q

\* A task and the list behind it.
LEMMA TailJoined ==
  ASSUME NEW S, NEW a \in S, NEW v \in Seq(S)
  PROVE  /\ <<a>> \o v \in Seq(S) /\ <<a>> \o v # <<>>
         /\ Head(<<a>> \o v) = a /\ Tail(<<a>> \o v) = v
<1> DEFINE r == <<a>> \o v
<1>1. /\ <<a>> \in Seq(S) /\ Len(<<a>>) = 1 /\ <<a>>[1] = a
  OBVIOUS
<1>2. /\ r \in Seq(S) /\ Len(r) = 1 + Len(v) /\ Len(v) \in Nat
      /\ \A i \in 1..1 + Len(v) : r[i] = IF i <= 1 THEN a ELSE v[i - 1]
  BY <1>1, ConcatProperties
<1>3. r[1] = a /\ r # <<>>
  BY <1>2
<1> HIDE DEF r
<1>4. Head(r) = a
  BY <1>2, <1>3
<1>5. /\ Tail(r) \in Seq(S) /\ Len(Tail(r)) = Len(v)
      /\ \A i \in 1..Len(Tail(r)) : Tail(r)[i] = r[i + 1]
  BY <1>2, <1>3, HeadTailProperties
<1>6. \A i \in 1..Len(v) : Tail(r)[i] = v[i]
  BY <1>2, <1>5
<1>7. Tail(r) = v
  BY <1>2, <1>5, <1>6, SeqEqual
<1> QED
  BY <1>2, <1>3, <1>4, <1>7 DEF r

\* The first task of s is done and the list u comes in its place.
LEMMA Replaced ==
  ASSUME NEW S, NEW s \in Seq(S), s # <<>>, NEW u \in Seq(S)
  PROVE  /\ u \o Tail(s) \in Seq(S) /\ All(u \o Tail(s)) = All(u) \cup Later(s)
         /\ Later(u \o Tail(s)) \subseteq Later(u) \cup Later(s)
         /\ u = <<>> => /\ u \o Tail(s) = Tail(s)
                        /\ u \o Tail(s) # <<>> => Head(u \o Tail(s)) \in Later(s)
         /\ u # <<>> => /\ u \o Tail(s) # <<>> /\ Head(u \o Tail(s)) = Head(u)
                        /\ Later(u \o Tail(s)) = Later(u) \cup Later(s)
<1>1. Tail(s) \in Seq(S) /\ All(Tail(s)) = Later(s) /\ Later(Tail(s)) \subseteq Later(s)
  BY ListParts
<1>2. CASE u = <<>>
  <2>1. u \o Tail(s) = Tail(s) /\ All(u) = {}
    BY <1>1, <1>2, Listed, ConcatEmptySeq
  <2>2. ASSUME Tail(s) # <<>> PROVE Head(Tail(s)) \in Later(s)
    <3>1. Head(Tail(s)) \in All(Tail(s))
      BY <1>1, <2>2, ListParts
    <3> QED
      BY <1>1, <3>1
  <2> QED
    BY <1>1, <1>2, <2>1, <2>2
<1>3. CASE u # <<>>
  <2> DEFINE v == Tail(s)
  <2>1. v \in Seq(S) /\ All(v) = Later(s)
    BY <1>1
  <2> HIDE DEF v
  <2>2. /\ u \o v \in Seq(S) /\ All(u \o v) = All(u) \cup All(v)
        /\ u \o v # <<>> /\ Head(u \o v) = Head(u) /\ Later(u \o v) = Later(u) \cup All(v)
    BY <2>1, <1>3, Joined
  <2> QED
    BY <1>3, <2>1, <2>2 DEF v
<1> QED
  BY <1>2, <1>3

\* Tasks that come last still come last after such a step, unless it puts
\* them before others.
LEMMA LastOnlyReplaced ==
  ASSUME NEW S, NEW s \in Seq(S), s # <<>>, NEW u \in Seq(S), NEW L, LastOnly(s, L),
         (All(u) \cap L = {}) \/ (Head(s) \in L /\ LastOnly(u, L))
  PROVE  LastOnly(u \o Tail(s), L)
<1>1. /\ Len(s) \in Nat \ {0} /\ Tail(s) \in Seq(S) /\ Len(Tail(s)) = Len(s) - 1
      /\ \A i \in 1..Len(Tail(s)) : Tail(s)[i] = s[i + 1]
  BY ListParts
<1>2. \A i \in 1..Len(Tail(s)) - 1 : i + 1 \in 1..Len(s) - 1 /\ i \in 1..Len(Tail(s))
  BY <1>1
<1>3. LastOnly(Tail(s), L)
  BY <1>1, <1>2 DEF LastOnly
<1>4. CASE Head(s) \in L /\ LastOnly(u, L)
  <2>1. Len(s) = 1
    <3>1. 1 \in 1..Len(s) - 1 => s[1] \notin L
      BY DEF LastOnly
    <3>2. Head(s) = s[1]
      OBVIOUS
    <3> QED
      BY <1>1, <1>4, <3>1, <3>2
  <2>2. Tail(s) = <<>>
    <3>1. Len(Tail(s)) = 0
      BY <1>1, <2>1
    <3>2. Tail(s) # <<>> => Len(Tail(s)) \in Nat \ {0}
      BY <1>1, EmptySeq
    <3> QED
      BY <3>1, <3>2
  <2>3. u \o Tail(s) = u
    BY <2>2, ConcatEmptySeq
  <2> QED
    BY <1>4, <2>3
<1>5. CASE All(u) \cap L = {}
  <2> DEFINE v == Tail(s)
             r == u \o v
  <2>1. /\ Len(r) = Len(u) + Len(v) /\ Len(u) \in Nat /\ Len(v) \in Nat
        /\ \A i \in 1..Len(u) + Len(v) : r[i] = IF i <= Len(u) THEN u[i] ELSE v[i - Len(u)]
    BY <1>1, ConcatProperties
  <2> HIDE DEF r, v
  <2>2. ASSUME NEW i \in 1..Len(r) - 1 PROVE r[i] \notin L
    <3>1. CASE i <= Len(u)
      <4>1. i \in 1..Len(u) /\ r[i] = u[i]
        BY <2>1, <3>1
      <4> QED
        BY <4>1, <1>5 DEF All
    <3>2. CASE ~(i <= Len(u))
      <4>1. i - Len(u) \in 1..Len(v) - 1 /\ r[i] = v[i - Len(u)]
        BY <2>1, <3>2
      <4> QED
        BY <4>1, <1>3 DEF LastOnly, v
    <3> QED
      BY <3>1, <3>2
  <2> QED
    BY <2>2 DEF LastOnly, r, v
<1> QED
  BY <1>4, <1>5

\* A list without tasks of L satisfies both.
LEMMA NoneOf ==
  ASSUME NEW S, NEW s \in Seq(S), NEW L, All(s) \cap L = {}
  PROVE  LastOnly(s, L) /\ FirstOnly(s, L)
<1>1. Len(s) \in Nat /\ \A i \in 1..Len(s) : s[i] \notin L
  BY DEF All
<1>2. \A i \in 1..Len(s) - 1 : i \in 1..Len(s)
  BY <1>1
<1> QED
  BY <1>1, <1>2 DEF LastOnly, FirstOnly

\* With tasks of L only at its beginning, a list that begins with another has
\* none of them.
LEMMA FirstOnlyHead ==
  ASSUME NEW S, NEW s \in Seq(S), NEW L, s # <<>>, FirstOnly(s, L), Head(s) \notin L
  PROVE  All(s) \cap L = {}
<1>1. Len(s) \in Nat \ {0} /\ Head(s) = s[1]
  OBVIOUS
<1>2. \A j \in 1..Len(s) : s[j] \notin L
  BY <1>1 DEF FirstOnly
<1> QED
  BY <1>2 DEF All

\* Tasks that come first still do when the first is done and others of their
\* kind come in its place, or when there were none and none come.
LEMMA FirstOnlyReplaced ==
  ASSUME NEW S, NEW s \in Seq(S), s # <<>>, NEW u \in Seq(S), NEW L, FirstOnly(s, L),
         All(u) \subseteq L \/ (Head(s) \notin L /\ All(u) \cap L = {})
  PROVE  FirstOnly(u \o Tail(s), L)
<1>1. /\ Len(s) \in Nat \ {0} /\ Tail(s) \in Seq(S) /\ Len(Tail(s)) = Len(s) - 1
      /\ \A i \in 1..Len(Tail(s)) : Tail(s)[i] = s[i + 1]
  BY ListParts
<1>2. CASE Head(s) \notin L /\ All(u) \cap L = {}
  <2>1. All(s) \cap L = {}
    BY <1>2, FirstOnlyHead
  <2>2. Later(s) \subseteq All(s)
    BY ListParts
  <2>3. All(u \o Tail(s)) = All(u) \cup Later(s) /\ u \o Tail(s) \in Seq(S)
    BY Replaced
  <2>4. All(u \o Tail(s)) \cap L = {}
    BY <1>2, <2>1, <2>2, <2>3
  <2> QED
    BY <2>3, <2>4, NoneOf
<1>3. CASE All(u) \subseteq L
  <2> DEFINE v == Tail(s)
             r == u \o v
  <2>1. /\ Len(r) = Len(u) + Len(v) /\ Len(u) \in Nat /\ Len(v) \in Nat
        /\ \A i \in 1..Len(u) + Len(v) : r[i] = IF i <= Len(u) THEN u[i] ELSE v[i - Len(u)]
    BY <1>1, ConcatProperties
  <2>2. \A i \in 1..Len(v) : i + 1 \in 1..Len(s) /\ v[i] = s[i + 1]
    BY <1>1
  <2> HIDE DEF r, v
  <2>3. ASSUME NEW i \in 1..Len(r), NEW j \in 1..Len(r), i <= j, r[j] \in L PROVE r[i] \in L
    <3>1. CASE i <= Len(u)
      <4>1. i \in 1..Len(u) /\ r[i] = u[i]
        BY <2>1, <3>1
      <4> QED
        BY <4>1, <1>3 DEF All
    <3>2. CASE ~(i <= Len(u))
      <4> DEFINE m == i - Len(u)
                 n == j - Len(u)
      <4>1. m \in 1..Len(v) /\ r[i] = v[m] /\ n \in 1..Len(v) /\ r[j] = v[n] /\ m + 1 <= n + 1
        BY <2>1, <2>3, <3>2
      <4> HIDE DEF m, n
      <4>2. m + 1 \in 1..Len(s) /\ n + 1 \in 1..Len(s) /\ r[i] = s[m + 1] /\ r[j] = s[n + 1]
        BY <4>1, <2>2
      <4> QED
        BY <4>1, <4>2, <2>3 DEF FirstOnly
    <3> QED
      BY <3>1, <3>2
  <2> QED
    BY <2>3 DEF FirstOnly, r, v
<1> QED
  BY <1>2, <1>3

\* A list without tasks is the empty one.
LEMMA NoTasks ==
  ASSUME NEW S, NEW s \in Seq(S), All(s) = {}
  PROVE  s = <<>>
BY ListParts

\* A task of L at the end of a list without any.
LEMMA LastOnlyEnd ==
  ASSUME NEW S, NEW u \in Seq(S), NEW a \in S, NEW L, All(u) \cap L = {}
  PROVE  LastOnly(u \o <<a>>, L)
<1> DEFINE v == <<a>>
           r == u \o v
<1>1. v \in Seq(S) /\ Len(v) = 1
  OBVIOUS
<1> HIDE DEF v
<1>2. /\ Len(r) = Len(u) + Len(v) /\ Len(u) \in Nat
      /\ \A i \in 1..Len(u) + Len(v) : r[i] = IF i <= Len(u) THEN u[i] ELSE v[i - Len(u)]
  BY <1>1, ConcatProperties
<1> HIDE DEF r
<1>3. \A i \in 1..Len(r) - 1 : i \in 1..Len(u) /\ r[i] = u[i]
  BY <1>1, <1>2
<1> QED
  BY <1>3 DEF LastOnly, All, r, v

-----------------------------------------------------------------------------
\* Lists of two and three tasks, by a name that stands for the list: what is
\* known of them needs no set that the tasks come from.
Couple(a, b)    == <<a, b>>
Triple(a, b, c) == <<a, b, c>>

\* The tasks of a list of two,
LEMMA Twos ==
  ASSUME NEW a, NEW b
  PROVE  /\ Couple(a, b) # <<>> /\ Head(Couple(a, b)) = a
         /\ All(Couple(a, b)) = {a, b} /\ Later(Couple(a, b)) = {b}
<1> DEFINE s == <<a, b>>
<1>1. s # <<>> /\ Head(s) = a
  OBVIOUS
<1>2. Len(s) = 2 /\ s[1] = a /\ s[2] = b /\ 1..2 = {1, 2} /\ 2..2 = {2}
  OBVIOUS
<1> HIDE DEF s
<1>3. All(s) = {a, b} /\ Later(s) = {b}
  BY <1>2 DEF All, Later
<1> QED
  BY <1>1, <1>3 DEF Couple, s

\* and of a list of three.
LEMMA Threes ==
  ASSUME NEW a, NEW b, NEW c
  PROVE  /\ Triple(a, b, c) # <<>> /\ Head(Triple(a, b, c)) = a
         /\ All(Triple(a, b, c)) = {a, b, c} /\ Later(Triple(a, b, c)) = {b, c}
<1> DEFINE s == <<a, b, c>>
<1>1. s # <<>> /\ Head(s) = a
  OBVIOUS
<1>2. Len(s) = 3 /\ s[1] = a /\ s[2] = b /\ s[3] = c /\ 1..3 = {1, 2, 3} /\ 2..3 = {2, 3}
  OBVIOUS
<1> HIDE DEF s
<1>3. All(s) = {a, b, c} /\ Later(s) = {b, c}
  BY <1>2 DEF All, Later
<1> QED
  BY <1>1, <1>3 DEF Triple, s

=============================================================================

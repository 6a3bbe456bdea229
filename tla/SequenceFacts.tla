---------------------------- MODULE SequenceFacts ----------------------------
\* Facts about the operations on queues, about smallest and largest numbers, about
\* functions given by steps, and about the sums that the community modules define by
\* recursion over a finite set.
EXTENDS SequenceUtils, SequenceTheorems, FiniteSetTheorems, WellFoundedInduction, TLAPS

\* What removing the element at a position leaves.
LEMMA RemoveAtElements ==
    ASSUME NEW S, NEW s \in Seq(S), NEW i \in 1 .. Len(s)
    PROVE  /\ RemoveAt(s, i) \in Seq(S)
           /\ Len(RemoveAt(s, i)) = Len(s) - 1
           /\ \A j \in 1 .. Len(s) - 1 :
                  RemoveAt(s, i)[j] = IF j < i THEN s[j] ELSE s[j + 1]
<1>. DEFINE before == SubSeq(s, 1, i - 1)
            after == SubSeq(s, i + 1, Len(s))
<1>1. /\ before \in Seq(S) /\ Len(before) = i - 1
      /\ \A j \in 1 .. i - 1 : before[j] = s[j]
  OBVIOUS
<1>2. /\ after \in Seq(S) /\ Len(after) = Len(s) - i
      /\ \A j \in 1 .. Len(s) - i : after[j] = s[i + j]
  OBVIOUS
<1>. HIDE DEF before, after
<1>3. /\ before \o after \in Seq(S)
      /\ Len(before \o after) = Len(s) - 1
      /\ \A j \in 1 .. Len(s) - 1 :
             (before \o after)[j] = IF j < i THEN s[j] ELSE s[j + 1]
  <2>1. /\ before \o after \in Seq(S)
        /\ Len(before \o after) = Len(before) + Len(after)
        /\ \A j \in 1 .. Len(before) + Len(after) :
               (before \o after)[j] = IF j <= Len(before) THEN before[j]
                                       ELSE after[j - Len(before)]
    BY <1>1, <1>2, ConcatProperties
  <2>2. ASSUME NEW j \in 1 .. Len(s) - 1, j < i
        PROVE  (before \o after)[j] = s[j]
    BY <1>1, <1>2, <2>1, <2>2
  <2>3. ASSUME NEW j \in 1 .. Len(s) - 1, ~(j < i)
        PROVE  (before \o after)[j] = s[j + 1]
    <3>1. j - (i - 1) \in 1 .. Len(s) - i /\ i + (j - (i - 1)) = j + 1
      BY <2>3
    <3>2. (before \o after)[j] = after[j - (i - 1)]
      BY <1>1, <1>2, <2>1, <2>3
    <3>3. after[j - (i - 1)] = s[i + (j - (i - 1))]
      BY <1>2, <3>1
    <3>. QED
      BY <3>1, <3>2, <3>3
  <2>. QED
    BY <1>1, <1>2, <2>1, <2>2, <2>3
<1>. QED
  BY <1>3 DEF RemoveAt, before, after

\* Removing an element of an injective sequence removes exactly it, and keeps
\* the head of the sequence unless it is the head.
LEMMA WithoutElements ==
    ASSUME NEW S, NEW s \in Seq(S), NEW e, IsInjective(s)
    PROVE  /\ Without(s, e) \in Seq(S)
           /\ IsInjective(Without(s, e))
           /\ ToSet(Without(s, e)) = ToSet(s) \ {e}
           /\ s # <<>> /\ Head(s) # e =>
                  Without(s, e) # <<>> /\ Head(Without(s, e)) = Head(s)
<1>1. CASE e \in ToSet(s)
  <2>1. PICK i \in 1 .. Len(s) : s[i] = e /\ Without(s, e) = RemoveAt(s, i)
    <3>1. \E i \in DOMAIN s : s[i] = e
      BY <1>1 DEF ToSet
    <3>. DEFINE i == CHOOSE i \in DOMAIN s : s[i] = e
    <3>2. i \in DOMAIN s /\ s[i] = e
      BY <3>1
    <3>3. Without(s, e) = RemoveAt(s, i)
      BY <3>1 DEF Without
    <3>. HIDE DEF i
    <3>. QED
      BY <3>2, <3>3
  <2>. DEFINE w == RemoveAt(s, i)
  <2>2. /\ w \in Seq(S)
        /\ Len(w) = Len(s) - 1
        /\ \A j \in 1 .. Len(s) - 1 : w[j] = IF j < i THEN s[j] ELSE s[j + 1]
    BY RemoveAtElements
  <2>. HIDE DEF w
  <2>3. IsInjective(w)
    BY <2>2 DEF IsInjective
  <2>4. ToSet(w) \subseteq ToSet(s) \ {e}
    BY <2>1, <2>2 DEF ToSet, IsInjective
  <2>5. ASSUME NEW x \in ToSet(s) \ {e} PROVE x \in ToSet(w)
    <3>1. PICK k \in 1 .. Len(s) : s[k] = x
      BY <2>5 DEF ToSet
    <3>2. k # i
      BY <2>1, <2>5, <3>1
    <3>3. CASE k < i
      BY <2>2, <3>1, <3>3 DEF ToSet
    <3>4. CASE k > i
      <4>1. k - 1 \in 1 .. Len(s) - 1 /\ ~(k - 1 < i) /\ (k - 1) + 1 = k
        BY <3>4
      <4>2. w[k - 1] = s[k]
        BY <2>2, <4>1
      <4>. QED
        BY <2>2, <3>1, <4>1, <4>2 DEF ToSet
    <3>. QED
      BY <3>2, <3>3, <3>4
  <2>6. ASSUME s # <<>>, Head(s) # e PROVE w # <<>> /\ Head(w) = Head(s)
    BY <2>1, <2>2, <2>6
  <2>. QED
    BY <2>1, <2>2, <2>3, <2>4, <2>5, <2>6 DEF w
<1>2. CASE e \notin ToSet(s)
  BY <1>2 DEF Without, ToSet
<1>. QED
  BY <1>1, <1>2

\* Adding an element that is not there yet.
LEMMA AppendElements ==
    ASSUME NEW S, NEW s \in Seq(S), NEW e \in S, IsInjective(s), e \notin ToSet(s)
    PROVE  /\ Append(s, e) \in Seq(S)
           /\ IsInjective(Append(s, e))
           /\ ToSet(Append(s, e)) = ToSet(s) \cup {e}
<1>1. /\ Append(s, e) \in Seq(S) /\ Len(Append(s, e)) = Len(s) + 1
      /\ \A j \in 1 .. Len(s) : Append(s, e)[j] = s[j]
      /\ Append(s, e)[Len(s) + 1] = e
  OBVIOUS
<1>2. IsInjective(Append(s, e))
  BY <1>1 DEF IsInjective, ToSet
<1>3. ToSet(Append(s, e)) = ToSet(s) \cup {e}
  BY <1>1 DEF ToSet
<1>. QED
  BY <1>1, <1>2, <1>3

\* Taking the first element off an injective sequence.
LEMMA TailElements ==
    ASSUME NEW S, NEW s \in Seq(S), s # <<>>, IsInjective(s)
    PROVE  /\ Tail(s) \in Seq(S)
           /\ IsInjective(Tail(s))
           /\ ToSet(Tail(s)) = ToSet(s) \ {Head(s)}
           /\ Head(s) \in ToSet(s)
<1>1. /\ Tail(s) \in Seq(S) /\ Len(Tail(s)) = Len(s) - 1 /\ Len(s) > 0
      /\ \A j \in 1 .. Len(s) - 1 : Tail(s)[j] = s[j + 1]
      /\ Head(s) = s[1]
  OBVIOUS
<1>2. IsInjective(Tail(s))
  BY <1>1 DEF IsInjective
<1>3. ToSet(Tail(s)) \subseteq ToSet(s) \ {Head(s)}
  BY <1>1 DEF ToSet, IsInjective
<1>4. ASSUME NEW x \in ToSet(s) \ {Head(s)} PROVE x \in ToSet(Tail(s))
  <2>1. PICK k \in 1 .. Len(s) : s[k] = x
    BY <1>4 DEF ToSet
  <2>2. k - 1 \in 1 .. Len(s) - 1 /\ (k - 1) + 1 = k
    BY <1>1, <1>4, <2>1
  <2>3. Tail(s)[k - 1] = x
    BY <1>1, <2>1, <2>2
  <2>. QED
    <3>1. k - 1 \in DOMAIN Tail(s)
      BY <1>1, <2>2
    <3>. QED
      BY <2>3, <3>1 DEF ToSet
<1>. QED
  BY <1>1, <1>2, <1>3, <1>4 DEF ToSet

\* Moving the first element to the end keeps the elements.
LEMMA ToTheEndElements ==
    ASSUME NEW S, NEW s \in Seq(S), s # <<>>, IsInjective(s)
    PROVE  /\ ToTheEnd(s) \in Seq(S)
           /\ IsInjective(ToTheEnd(s))
           /\ ToSet(ToTheEnd(s)) = ToSet(s)
<1>. DEFINE t == Tail(s)
            e == Head(s)
<1>1. t \in Seq(S) /\ IsInjective(t) /\ ToSet(t) = ToSet(s) \ {e} /\ e \in ToSet(s)
  BY TailElements
<1>2. e \in S
  OBVIOUS
<1>. HIDE DEF t, e
<1>3. /\ Append(t, e) \in Seq(S)
      /\ IsInjective(Append(t, e))
      /\ ToSet(Append(t, e)) = ToSet(t) \cup {e}
  BY <1>1, <1>2, AppendElements
<1>. QED
  BY <1>1, <1>3 DEF ToTheEnd, t, e

\* A sequence of whatever elements, with one more.
LEMMA AppendSequence ==
    ASSUME NEW s, IsSequence(s), NEW e
    PROVE  /\ IsSequence(Append(s, e))
           /\ Len(s) \in Nat /\ Len(Append(s, e)) = Len(s) + 1
           /\ DOMAIN s = 1..Len(s) /\ DOMAIN Append(s, e) = 1..(Len(s) + 1)
           /\ \A i \in DOMAIN s : Append(s, e)[i] = s[i]
           /\ Append(s, e)[Len(s) + 1] = e
<1>. DEFINE S == Range(s) \cup {e}
<1>1. s \in Seq(S)
  BY SeqMonotonic DEF IsSequence
<1>2. e \in S
  OBVIOUS
<1>. HIDE DEF S
<1>3. Append(s, e) \in Seq(S)
  BY <1>1, <1>2
<1>4. /\ Len(s) \in Nat /\ Len(Append(s, e)) = Len(s) + 1
      /\ DOMAIN s = 1..Len(s) /\ DOMAIN Append(s, e) = 1..(Len(s) + 1)
      /\ \A i \in DOMAIN s : Append(s, e)[i] = s[i]
      /\ Append(s, e)[Len(s) + 1] = e
  BY <1>1, <1>2
<1>5. Append(s, e) \in Seq(Range(Append(s, e)))
  BY <1>3, SeqOfRange
<1>. QED
  BY <1>4, <1>5 DEF IsSequence

\* A set of numbers that is not empty has a smallest one.
LEMMA SmallestNumber ==
    ASSUME NEW T, T \subseteq Nat, T # {}
    PROVE  \E m \in T : \A k \in T : m <= k
<1>1. PICK m \in T : \A k \in T : <<k, m>> \notin OpToRel(<, Nat)
  BY WFMin, NatLessThanWellFounded, Zenon
<1>2. m \in T /\ \A k \in T : ~(k < m)
  BY <1>1, Zenon DEF OpToRel
<1>. QED
  BY <1>2

\* The minimum of a set of numbers.
LEMMA MinIs ==
    ASSUME NEW T, T \subseteq Nat, T # {}
    PROVE  Min(T) \in T /\ \A k \in T : Min(T) <= k
BY SmallestNumber, Zenon DEF Min

\* The maximum of a set of numbers that has a bound.
LEMMA MaxIs ==
    ASSUME NEW N \in Nat, NEW T, T \subseteq 1..N, T # {}
    PROVE  Max(T) \in T /\ \A y \in T : Max(T) >= y
<1>. DEFINE D == {N - k : k \in T}
<1>1. D \subseteq Nat /\ D # {}
  <2>1. ASSUME NEW k \in T PROVE k \in 1..N /\ N - k \in Nat /\ N - k \in D
    <3>1. k \in 1..N
      OBVIOUS
    <3>. QED
      BY <3>1
  <2>. QED
    BY <2>1
<1>2. PICK m \in D : \A j \in D : m <= j
  BY <1>1, SmallestNumber
<1>3. PICK k \in T : m = N - k
  BY <1>2
<1>4. ASSUME NEW y \in T PROVE k >= y
  <2>1. N - k <= N - y
    BY <1>2, <1>3
  <2>. QED
    BY <2>1
<1>. QED
  BY <1>3, <1>4, Zenon DEF Max

\* A function that is given by its first value and by steps exists.
LEMMA StepsExist ==
    ASSUME NEW S, NEW s \in S, NEW N \in Nat, NEW step \in [1..N -> [S -> S]]
    PROVE  \E f \in [0..N -> S] : f[0] = s /\ \A i \in 1..N : f[i] = step[i][f[i - 1]]
<1>. DEFINE Goes(f, n) == /\ f \in [0..n -> S] /\ f[0] = s
                          /\ \A i \in 1..n : f[i] = step[i][f[i - 1]]
            T == {n \in 0..N : ~\E f : Goes(f, n)}
<1>1. ASSUME T # {} PROVE FALSE
  <2>. T \subseteq Nat
    OBVIOUS
  <2>1. PICK n \in T : \A k \in T : n <= k
    BY <1>1, SmallestNumber
  <2>2. n \in 0..N /\ ~\E f : Goes(f, n)
    BY <2>1
  <2>3. n # 0
    <3>1. CASE n = 0
      <4>1. Goes([i \in 0..0 |-> s], 0)
        OBVIOUS
      <4>. QED
        BY <2>2, <3>1, <4>1
    <3>. QED
      BY <3>1
  <2>4. n \in 1..N /\ n - 1 \in 0..N /\ n - 1 \notin T
    <3>1. n \in 1..N /\ n - 1 \in 0..N /\ ~(n <= n - 1)
      BY <2>2, <2>3
    <3>. QED
      BY <2>1, <3>1, Zenon
  <2>5. PICK g : Goes(g, n - 1)
    BY <2>4
  <2>. DEFINE f == [i \in 0..n |-> IF i = n THEN step[n][g[n - 1]] ELSE g[i]]
  <2>6. step[n] \in [S -> S] /\ g[n - 1] \in S
    BY <2>4, <2>5
  <2>7. f \in [0..n -> S] /\ f[0] = s
    BY <2>4, <2>5, <2>6
  <2>8. ASSUME NEW i \in 1..n PROVE f[i] = step[i][f[i - 1]]
    <3>1. i \in 0..n /\ i - 1 \in 0..n /\ i - 1 # n
      BY <2>4
    <3>2. CASE i = n
      BY <3>1, <3>2
    <3>3. CASE i # n
      <4>1. i \in 1..(n - 1)
        BY <2>4, <3>3
      <4>. QED
        BY <2>5, <3>1, <3>3, <4>1
    <3>. QED
      BY <3>2, <3>3
  <2>. QED
    BY <2>2, <2>7, <2>8
<1>. QED
  BY <1>1

\* A filter that lets everything pass changes nothing.
LEMMA OnlyOfAll ==
    ASSUME NEW S, NEW s \in Seq(S)
    PROVE  OnlyOf(s, S) = s
<1>. DEFINE Keeps(f) == [n \in 0..Len(s) |->
                IF n = 0 THEN <<>>
                ELSE IF s[n] \in S THEN Append(f[n - 1], s[n]) ELSE f[n - 1]]
            prefixes == [n \in 0..Len(s) |-> SubSeq(s, 1, n)]
            kept == CHOOSE f : f = Keeps(f)
<1>1. Len(s) \in Nat /\ \A n \in 1 .. Len(s) : s[n] \in S
  OBVIOUS
<1>2. ASSUME NEW n \in 1 .. Len(s) PROVE SubSeq(s, 1, n) = Append(SubSeq(s, 1, n - 1), s[n])
  OBVIOUS
<1>3. prefixes = Keeps(prefixes)
  <2>1. ASSUME NEW n \in 0 .. Len(s) PROVE prefixes[n] = Keeps(prefixes)[n]
    <3>1. CASE n = 0
      BY <1>1, <3>1
    <3>2. CASE n # 0
      <4>1. n \in 1 .. Len(s) /\ n - 1 \in 0 .. Len(s)
        BY <1>1, <3>2
      <4>. QED
        BY <1>1, <1>2, <3>2, <4>1
    <3>. QED
      BY <3>1, <3>2
  <2>. QED
    BY <2>1
<1>4. kept = Keeps(kept)
  BY <1>3, Zenon
<1>. HIDE DEF kept
<1>5. \A n \in 0 .. Len(s) : kept[n] = SubSeq(s, 1, n)
  <2>. DEFINE T == {n \in 0 .. Len(s) : kept[n] # SubSeq(s, 1, n)}
  <2>1. ASSUME T # {} PROVE FALSE
    <3>1. T \subseteq Nat
      BY <1>1
    <3>2. PICK m \in T : \A k \in T : m <= k
      BY <2>1, <3>1, SmallestNumber
    <3>3. m \in 0 .. Len(s) /\ kept[m] # SubSeq(s, 1, m)
      BY <3>2
    <3>4. CASE m = 0
      BY <1>1, <1>4, <3>3, <3>4
    <3>5. CASE m # 0
      <4>1. m \in 1 .. Len(s) /\ m - 1 \in 0 .. Len(s) /\ m - 1 \notin T
        BY <1>1, <3>1, <3>2, <3>3, <3>5
      <4>2. kept[m - 1] = SubSeq(s, 1, m - 1)
        BY <4>1
      <4>3. kept[m] = Append(kept[m - 1], s[m])
        BY <1>1, <1>4, <3>5, <4>1
      <4>. QED
        BY <1>2, <3>3, <4>1, <4>2, <4>3
    <3>. QED
      BY <3>4, <3>5
  <2>. QED
    BY <2>1
<1>6. OnlyOf(s, S) = kept[Len(s)]
  BY Zenon DEF OnlyOf, kept
<1>. QED
  BY <1>1, <1>5, <1>6

\* t has the entries of s but for the one at i.
Others(t, s, i) ==
    /\ \A j \in DOMAIN t : \E k \in DOMAIN s : k # i /\ t[j] = s[k]
    /\ \A k \in DOMAIN s : k # i => \E j \in DOMAIN t : t[j] = s[k]
    /\ \A j1, j2 \in DOMAIN t : j1 # j2 =>
           \E k1, k2 \in DOMAIN s : k1 # k2 /\ t[j1] = s[k1] /\ t[j2] = s[k2]

\* What is left when an entry is removed are the other ones.
LEMMA RemoveAtOthers ==
    ASSUME NEW S, NEW s \in Seq(S), NEW i \in 1 .. Len(s)
    PROVE  RemoveAt(s, i) \in Seq(S) /\ Others(RemoveAt(s, i), s, i)
<1>. SUFFICES ASSUME NEW t, t = RemoveAt(s, i)
              PROVE  t \in Seq(S) /\ Others(t, s, i)
  OBVIOUS
<1>1. /\ t \in Seq(S) /\ Len(t) = Len(s) - 1 /\ Len(s) \in Nat
      /\ \A j \in 1 .. Len(s) - 1 : t[j] = IF j < i THEN s[j] ELSE s[j + 1]
  BY RemoveAtElements
<1>2. DOMAIN t = 1 .. Len(s) - 1 /\ DOMAIN s = 1 .. Len(s)
  BY <1>1
<1>. DEFINE old(j) == IF j < i THEN j ELSE j + 1
<1>3. \A j \in DOMAIN t : old(j) \in DOMAIN s /\ old(j) # i /\ t[j] = s[old(j)]
  BY <1>1, <1>2
<1>4. \A j1, j2 \in DOMAIN t : j1 # j2 => old(j1) # old(j2)
  BY <1>1, <1>2
<1>5. ASSUME NEW k \in DOMAIN s, k # i PROVE \E j \in DOMAIN t : t[j] = s[k]
  <2>1. CASE k < i
    BY <1>1, <1>2, <2>1
  <2>2. CASE k > i
    <3>1. k - 1 \in DOMAIN t /\ ~(k - 1 < i) /\ (k - 1) + 1 = k
      BY <1>1, <1>2, <2>2
    <3>. QED
      BY <1>1, <1>2, <3>1
  <2>. QED
    BY <1>1, <1>2, <1>5, <2>1, <2>2
<1>. HIDE DEF old
<1>6. \A j \in DOMAIN t : \E k \in DOMAIN s : k # i /\ t[j] = s[k]
  BY <1>3
<1>7. \A j1, j2 \in DOMAIN t : j1 # j2 =>
          \E k1, k2 \in DOMAIN s : k1 # k2 /\ t[j1] = s[k1] /\ t[j2] = s[k2]
  BY <1>3, <1>4
<1>. QED
  BY <1>1, <1>5, <1>6, <1>7, Zenon DEF Others

\* An injective sequence in two parts.
LEMMA PartsAre ==
    ASSUME NEW S, NEW s \in Seq(S), IsInjective(s), NEW m \in 0 .. Len(s)
    PROVE  LET t == SubSeq(s, 1, m)
               u == SubSeq(s, m + 1, Len(s))
           IN  /\ t \in Seq(S) /\ IsInjective(t) /\ Len(t) = m
               /\ u \in Seq(S) /\ IsInjective(u)
               /\ ToSet(t) \cup ToSet(u) = ToSet(s) /\ ToSet(t) \cap ToSet(u) = {}
<1>. SUFFICES ASSUME NEW t, t = SubSeq(s, 1, m), NEW u, u = SubSeq(s, m + 1, Len(s))
              PROVE  /\ t \in Seq(S) /\ IsInjective(t) /\ Len(t) = m
                     /\ u \in Seq(S) /\ IsInjective(u)
                     /\ ToSet(t) \cup ToSet(u) = ToSet(s) /\ ToSet(t) \cap ToSet(u) = {}
  OBVIOUS
<1>1. Len(s) \in Nat /\ DOMAIN s = 1 .. Len(s)
  OBVIOUS
<1>2. /\ t \in Seq(S) /\ Len(t) = m /\ DOMAIN t = 1 .. m
      /\ \A j \in 1 .. m : t[j] = s[j]
  OBVIOUS
<1>3. /\ u \in Seq(S) /\ DOMAIN u = 1 .. Len(s) - m
      /\ \A j \in 1 .. Len(s) - m : u[j] = s[m + j]
  OBVIOUS
<1>4. IsInjective(t)
  BY <1>1, <1>2 DEF IsInjective
<1>5. IsInjective(u)
  <2>1. ASSUME NEW a \in DOMAIN u, NEW b \in DOMAIN u, u[a] = u[b] PROVE a = b
    <3>1. m + a \in DOMAIN s /\ m + b \in DOMAIN s /\ s[m + a] = s[m + b]
      BY <1>1, <1>3, <2>1
    <3>2. m + a = m + b
      BY <3>1 DEF IsInjective
    <3>. QED
      BY <1>1, <1>3, <3>2
  <2>. QED
    BY <2>1 DEF IsInjective
<1>6. ASSUME NEW k \in DOMAIN s PROVE s[k] \in ToSet(t) \cup ToSet(u)
  <2>1. CASE k <= m
    BY <1>1, <1>2, <2>1 DEF ToSet
  <2>2. CASE k > m
    <3>1. k - m \in DOMAIN u /\ m + (k - m) = k
      BY <1>1, <1>3, <2>2
    <3>2. u[k - m] = s[k]
      BY <1>3, <3>1
    <3>. QED
      BY <3>1, <3>2 DEF ToSet
  <2>. QED
    BY <1>1, <2>1, <2>2
<1>7. ASSUME NEW a \in DOMAIN t, NEW b \in DOMAIN u PROVE t[a] # u[b]
  <2>1. a \in DOMAIN s /\ m + b \in DOMAIN s /\ a # m + b
    BY <1>1, <1>2, <1>3
  <2>2. s[a] # s[m + b]
    BY <2>1 DEF IsInjective
  <2>. QED
    BY <1>2, <1>3, <2>2
<1>8. \A a \in DOMAIN t : t[a] \in ToSet(s)
  BY <1>1, <1>2 DEF ToSet
<1>9. \A b \in DOMAIN u : u[b] \in ToSet(s)
  BY <1>1, <1>3 DEF ToSet
<1>10. ToSet(t) \cap ToSet(u) = {}
  BY <1>7 DEF ToSet
<1>11. ToSet(s) \subseteq ToSet(t) \cup ToSet(u)
  <2>. SUFFICES ASSUME NEW e \in ToSet(s) PROVE e \in ToSet(t) \cup ToSet(u)
    OBVIOUS
  <2>1. PICK k \in DOMAIN s : e = s[k]
    BY DEF ToSet
  <2>. QED
    BY <1>6, <2>1
<1>12. ToSet(t) \subseteq ToSet(s)
  BY <1>8, Zenon DEF ToSet
<1>13. ToSet(u) \subseteq ToSet(s)
  BY <1>9, Zenon DEF ToSet
<1>. QED
  BY <1>2, <1>3, <1>4, <1>5, <1>10, <1>11, <1>12, <1>13

\* The sequence of a set with at most one element.
LEMMA SetToSeqSmall ==
    /\ SetToSeq({}) = <<>>
    /\ \A e : SetToSeq({e}) = <<e>>
<1>1. SetToSeq({}) = <<>>
  <2>1. Cardinality({}) = 0
    BY FS_EmptySet
  <2>2. <<>> \in [1 .. 0 -> {}] /\ IsInjective(<<>>)
    BY DEF IsInjective
  <2>3. SetToSeq({}) \in [1 .. 0 -> {}]
    BY <2>1, <2>2, Zenon DEF SetToSeq
  <2>4. SetToSeq({}) \in Seq({}) /\ Len(SetToSeq({})) = 0
    BY <2>3
  <2>. QED
    BY <2>4
<1>2. ASSUME NEW e PROVE SetToSeq({e}) = <<e>>
  <2>1. Cardinality({e}) = 1
    BY FS_Singleton
  <2>2. <<e>> \in [1 .. 1 -> {e}] /\ IsInjective(<<e>>)
    BY DEF IsInjective
  <2>3. SetToSeq({e}) \in [1 .. 1 -> {e}]
    BY <2>1, <2>2, Zenon DEF SetToSeq
  <2>. QED
    BY <2>3
<1>. QED
  BY <1>1, <1>2
-----------------------------------------------------------------------------
\* Sums.  The sum of the numbers w[r] over the members r of a finite set is the
\* number of pairs of a member and one of its units.

Units(w, S) == UNION {{r} \X (1 .. w[r]) : r \in S}
Total(w, S) == Cardinality(Units(w, S))

\* The member that a sum over s takes first.
Some(s) == CHOOSE x \in s : TRUE

LEMMA UpTo ==
    ASSUME NEW n \in Nat
    PROVE  IsFiniteSet(1 .. n) /\ Cardinality(1 .. n) = n
<1>1. 1 \in Int /\ n \in Int
  OBVIOUS
<1>2. IsFiniteSet(1 .. n) /\ Cardinality(1 .. n) = IF 1 > n THEN 0 ELSE n - 1 + 1
  BY <1>1, FS_Interval
<1>. QED
  BY <1>2

LEMMA UnitsFinite ==
    ASSUME NEW S, IsFiniteSet(S), NEW w, \A r \in S : w[r] \in Nat
    PROVE  IsFiniteSet(Units(w, S))
<1>. DEFINE parts == {{r} \X (1 .. w[r]) : r \in S}
            part == [r \in S |-> {r} \X (1 .. w[r])]
<1>1. part \in Surjection(S, parts)
  BY Zenon DEF Surjection
<1>2. IsFiniteSet(parts)
  BY <1>1, FS_Surjection
<1>3. ASSUME NEW P \in parts PROVE IsFiniteSet(P)
  <2>1. PICK r \in S : P = {r} \X (1 .. w[r])
    OBVIOUS
  <2>2. IsFiniteSet({r}) /\ IsFiniteSet(1 .. w[r])
    BY FS_Singleton, UpTo
  <2>. QED
    BY <2>1, <2>2, FS_Product
<1>4. IsFiniteSet(UNION parts)
  BY <1>2, <1>3, FS_UNION
<1>. QED
  BY <1>4 DEF Units

\* The units of one member are as many as its number.
LEMMA TotalSplit ==
    ASSUME NEW S, IsFiniteSet(S), NEW w, \A r \in S : w[r] \in Nat, NEW x \in S
    PROVE  /\ Total(w, S) = w[x] + Total(w, S \ {x})
           /\ Total(w, S) \in Nat
           /\ Total(w, S \ {x}) \in Nat
<1>. DEFINE own == {x} \X (1 .. w[x])
            rest == Units(w, S \ {x})
<1>1. Units(w, S) = own \cup rest /\ own \cap rest = {}
  BY DEF Units
<1>2. IsFiniteSet({x}) /\ IsFiniteSet(1 .. w[x])
      /\ Cardinality({x}) = 1 /\ Cardinality(1 .. w[x]) = w[x]
  BY FS_Singleton, UpTo
<1>3. IsFiniteSet(own) /\ Cardinality(own) = w[x]
  <2>1. IsFiniteSet(own) /\ Cardinality(own) = 1 * Cardinality(1 .. w[x])
    BY <1>2, FS_Product
  <2>. QED
    BY <1>2, <2>1
<1>4. IsFiniteSet(rest)
  BY FS_RemoveElement, UnitsFinite
<1>. HIDE DEF own, rest
<1>5. Cardinality({}) = 0
  BY FS_EmptySet
<1>6. /\ IsFiniteSet(own \cup rest)
      /\ Cardinality(own \cup rest) = Cardinality(own) + Cardinality(rest) - Cardinality(own \cap rest)
  BY <1>3, <1>4, FS_Union
<1>7. Cardinality(rest) \in Nat
  BY <1>4, FS_CardinalityType
<1>. QED
  <2>1. Total(w, S) = Cardinality(own) + Cardinality(rest)
    <3>1. Cardinality(own \cap rest) = 0
      BY <1>1, <1>5, Zenon
    <3>2. Cardinality(own \cup rest) = Total(w, S)
      BY <1>1, Zenon DEF Total
    <3>. QED
      BY <1>3, <1>6, <1>7, <3>1, <3>2, w[x] \in Nat
  <2>2. Total(w, S \ {x}) = Cardinality(rest)
    BY DEF Total, rest
  <2>. QED
    BY <1>3, <1>7, <2>1, <2>2, w[x] \in Nat

LEMMA TotalOfNone == \A w : Total(w, {}) = 0
BY FS_EmptySet DEF Total, Units

LEMMA TotalIsNat ==
    ASSUME NEW S, IsFiniteSet(S), NEW w, \A r \in S : w[r] \in Nat
    PROVE  Total(w, S) \in Nat
BY UnitsFinite, FS_CardinalityType DEF Total

\* What is summed counts, and only where it is not zero.
LEMMA TotalSame ==
    ASSUME NEW S, NEW T \in SUBSET S, NEW v, NEW w,
           \A r \in T : v[r] = w[r], \A r \in S \ T : v[r] = 0
    PROVE  Total(v, S) = Total(w, T)
<1>1. Units(v, S) = Units(w, T)
  <2>1. ASSUME NEW p \in Units(v, S) PROVE p \in Units(w, T)
    <3>1. PICK r \in S : p \in {r} \X (1 .. v[r])
      BY DEF Units
    <3>2. r \in T
      BY <3>1
    <3>. QED
      BY <3>1, <3>2 DEF Units
  <2>2. ASSUME NEW p \in Units(w, T) PROVE p \in Units(v, S)
    BY <2>2 DEF Units
  <2>. QED
    BY <2>1, <2>2
<1>. QED
  BY <1>1 DEF Total

\* The sum of ones is the size of the set.
LEMMA TotalOfOnes ==
    ASSUME NEW S, IsFiniteSet(S), NEW w, \A r \in S : w[r] = 1
    PROVE  Total(w, S) = Cardinality(S)
<1>1. Units(w, S) = S \X {1}
  <2>1. \A r \in S : 1 .. w[r] = {1}
    OBVIOUS
  <2>2. Units(w, S) = UNION {{r} \X {1} : r \in S}
    BY <2>1 DEF Units
  <2>. QED
    BY <2>2
<1>2. IsFiniteSet({1}) /\ Cardinality({1}) = 1 /\ Cardinality(S) \in Nat
  BY FS_Singleton, FS_CardinalityType
<1>3. Cardinality(S \X {1}) = Cardinality(S) * Cardinality({1})
  BY <1>2, FS_Product
<1>. QED
  BY <1>1, <1>2, <1>3 DEF Total

\* A number that changes changes the sum by as much.
LEMMA TotalChange ==
    ASSUME NEW S, IsFiniteSet(S), NEW v, NEW w,
           \A r \in S : v[r] \in Nat /\ w[r] \in Nat,
           NEW x \in S, \A r \in S \ {x} : v[r] = w[r]
    PROVE  Total(v, S) = Total(w, S) - w[x] + v[x]
<1>1. Total(v, S \ {x}) = Total(w, S \ {x})
  BY TotalSame
<1>2. Total(v, S) = v[x] + Total(v, S \ {x}) /\ Total(v, S \ {x}) \in Nat
  BY TotalSplit
<1>3. Total(w, S) = w[x] + Total(w, S \ {x}) /\ Total(w, S \ {x}) \in Nat
  BY TotalSplit
<1>. QED
  BY <1>1, <1>2, <1>3

\* Each recursive definition of the sum counts the units.
LEMMA RecursionIsTotal ==
    ASSUME NEW S, IsFiniteSet(S), NEW w, \A r \in S : w[r] \in Nat,
           NEW iter,
           \A s \in SUBSET S :
               iter[s] = IF s = {} THEN 0
                         ELSE w[Some(s)] + iter[s \ {Some(s)}]
    PROVE  iter[S] = Total(w, S)
<1>. DEFINE Wrong == {s \in SUBSET S : iter[s] # Total(w, s)}
            sizes == {Cardinality(s) : s \in Wrong}
<1>1. ASSUME NEW s \in SUBSET S PROVE IsFiniteSet(s) /\ Cardinality(s) \in Nat
  BY FS_Subset, FS_CardinalityType
<1>2. ASSUME Wrong # {} PROVE FALSE
  <2>1. sizes \subseteq Nat /\ sizes # {}
    BY <1>1, <1>2
  <2>2. PICK m \in sizes : \A k \in sizes : m <= k
    <3>. HIDE DEF sizes
    <3>. QED
      BY <2>1, SmallestNumber
  <2>3. PICK s \in Wrong : m = Cardinality(s)
    BY <2>2
  <2>4. s \in SUBSET S /\ iter[s] # Total(w, s)
    BY <2>3
  <2>5. CASE s = {}
    BY <2>4, <2>5, TotalOfNone
  <2>6. CASE s # {}
    <3>. DEFINE x == Some(s)
                rest == s \ {x}
    <3>1. x \in s
      BY <2>6 DEF Some
    <3>2. iter[s] = w[x] + iter[rest]
      BY <2>4, <2>6
    <3>. HIDE DEF x
    <3>3. IsFiniteSet(s) /\ Cardinality(s) \in Nat
      BY <1>1, <2>4
    <3>4. Cardinality(rest) = Cardinality(s) - 1 /\ rest \in SUBSET S
      BY <2>4, <3>1, <3>3, FS_RemoveElement
    <3>5. rest \notin Wrong
      <4>1. SUFFICES ASSUME rest \in Wrong PROVE FALSE
        OBVIOUS
      <4>2. Cardinality(rest) \in sizes
        BY <4>1
      <4>. QED
        <5>1. m <= Cardinality(rest)
          <6>. HIDE DEF sizes, rest
          <6>. QED
            BY <2>2, <4>2
        <5>. QED
          BY <2>3, <3>3, <3>4, <5>1
    <3>6. iter[rest] = Total(w, rest)
      BY <3>4, <3>5
    <3>7. Total(w, s) = w[x] + Total(w, rest)
      BY <2>4, <3>1, <3>3, TotalSplit
    <3>. QED
      BY <2>4, <3>2, <3>6, <3>7
  <2>. QED
    BY <2>5, <2>6
<1>. QED
  BY <1>2

\* The numbers of units, as such a recursion.
LEMMA TotalRecurs ==
    ASSUME NEW S, IsFiniteSet(S), NEW w, \A r \in S : w[r] \in Nat
    PROVE  \A s \in SUBSET S : s # {} =>
               Total(w, s) = w[Some(s)]
                             + Total(w, s \ {Some(s)})
<1>. SUFFICES ASSUME NEW s \in SUBSET S, s # {}
              PROVE  Total(w, s) = w[Some(s)]
                                   + Total(w, s \ {Some(s)})
  OBVIOUS
<1>. DEFINE x == Some(s)
<1>1. x \in s
  BY DEF Some
<1>. HIDE DEF x
<1>2. IsFiniteSet(s)
  BY FS_Subset
<1>3. Total(w, s) = w[x] + Total(w, s \ {x})
  BY <1>1, <1>2, TotalSplit
<1>. QED
  BY <1>3 DEF x

\* The sums of the two numbers of a permit.
LEMMA SumOfCounts ==
    ASSUME NEW S, IsFiniteSet(S), NEW h, \A r \in S : h[r].count \in Nat
    PROVE  MapThenSumSet(LAMBDA r : h[r].count, S) = Total([r \in S |-> h[r].count], S)
<1>. DEFINE w == [r \in S |-> h[r].count]
            Iterates(f) == [s \in SUBSET S |->
                IF s = {} THEN 0
                ELSE h[Some(s)].count + f[s \ {Some(s)}]]
            totals == [s \in SUBSET S |-> Total(w, s)]
            iter == CHOOSE f : f = Iterates(f)
<1>1. \A r \in S : w[r] = h[r].count /\ w[r] \in Nat
  OBVIOUS
<1>. HIDE DEF w
<1>2. ASSUME NEW s \in SUBSET S, s # {}
      PROVE  /\ w[Some(s)] = h[Some(s)].count
             /\ s \ {Some(s)} \in SUBSET S
  <2>1. Some(s) \in s
    BY <1>2 DEF Some
  <2>. QED
    BY <1>1, <2>1
<1>8. \A s \in SUBSET S : s # {} =>
          Total(w, s) = w[Some(s)] + Total(w, s \ {Some(s)})
  BY <1>1, TotalRecurs
<1>3. totals = Iterates(totals)
  <2>1. ASSUME NEW s \in SUBSET S PROVE totals[s] = Iterates(totals)[s]
    <3>1. CASE s = {}
      BY <3>1, TotalOfNone
    <3>2. CASE s # {}
      <4>1. Total(w, s) = w[Some(s)] + Total(w, s \ {Some(s)})
        BY <1>8, <3>2
      <4>. QED
        BY <1>2, <3>2, <4>1
    <3>. QED
      BY <3>1, <3>2
  <2>. QED
    BY <2>1
<1>4. iter = Iterates(iter)
  BY <1>3, Zenon
<1>. HIDE DEF iter
<1>5. ASSUME NEW s \in SUBSET S
      PROVE  iter[s] = IF s = {} THEN 0
                       ELSE w[Some(s)] + iter[s \ {Some(s)}]
  BY <1>2, <1>4
<1>6. iter[S] = Total(w, S)
  BY <1>1, <1>5, RecursionIsTotal
<1>7. MapThenSumSet(LAMBDA r : h[r].count, S) = iter[S]
  BY Zenon DEF MapThenSumSet, MapThenFoldSet, iter, Some
<1>. QED
  BY <1>6, <1>7 DEF w

LEMMA SumOfBytes ==
    ASSUME NEW S, IsFiniteSet(S), NEW h, \A r \in S : h[r].bytes \in Nat
    PROVE  MapThenSumSet(LAMBDA r : h[r].bytes, S) = Total([r \in S |-> h[r].bytes], S)
<1>. DEFINE w == [r \in S |-> h[r].bytes]
            Iterates(f) == [s \in SUBSET S |->
                IF s = {} THEN 0
                ELSE h[Some(s)].bytes + f[s \ {Some(s)}]]
            totals == [s \in SUBSET S |-> Total(w, s)]
            iter == CHOOSE f : f = Iterates(f)
<1>1. \A r \in S : w[r] = h[r].bytes /\ w[r] \in Nat
  OBVIOUS
<1>. HIDE DEF w
<1>2. ASSUME NEW s \in SUBSET S, s # {}
      PROVE  /\ w[Some(s)] = h[Some(s)].bytes
             /\ s \ {Some(s)} \in SUBSET S
  <2>1. Some(s) \in s
    BY <1>2 DEF Some
  <2>. QED
    BY <1>1, <2>1
<1>8. \A s \in SUBSET S : s # {} =>
          Total(w, s) = w[Some(s)] + Total(w, s \ {Some(s)})
  BY <1>1, TotalRecurs
<1>3. totals = Iterates(totals)
  <2>1. ASSUME NEW s \in SUBSET S PROVE totals[s] = Iterates(totals)[s]
    <3>1. CASE s = {}
      BY <3>1, TotalOfNone
    <3>2. CASE s # {}
      <4>1. Total(w, s) = w[Some(s)] + Total(w, s \ {Some(s)})
        BY <1>8, <3>2
      <4>. QED
        BY <1>2, <3>2, <4>1
    <3>. QED
      BY <3>1, <3>2
  <2>. QED
    BY <2>1
<1>4. iter = Iterates(iter)
  BY <1>3, Zenon
<1>. HIDE DEF iter
<1>5. ASSUME NEW s \in SUBSET S
      PROVE  iter[s] = IF s = {} THEN 0
                       ELSE w[Some(s)] + iter[s \ {Some(s)}]
  BY <1>2, <1>4
<1>6. iter[S] = Total(w, S)
  BY <1>1, <1>5, RecursionIsTotal
<1>7. MapThenSumSet(LAMBDA r : h[r].bytes, S) = iter[S]
  BY Zenon DEF MapThenSumSet, MapThenFoldSet, iter, Some
<1>. QED
  BY <1>6, <1>7 DEF w

\* A sequence without repetitions is as long as the set of its elements.
LEMMA InjectiveLength ==
    ASSUME NEW S, NEW s \in Seq(S), IsInjective(s)
    PROVE  IsFiniteSet(ToSet(s)) /\ Cardinality(ToSet(s)) = Len(s)
<1>1. Len(s) \in Nat /\ DOMAIN s = 1 .. Len(s)
  OBVIOUS
<1>2. s \in Bijection(1 .. Len(s), ToSet(s))
  BY <1>1 DEF Bijection, Injection, Surjection, IsInjective, ToSet
<1>3. ExistsBijection(1 .. Len(s), ToSet(s))
  BY <1>2 DEF ExistsBijection
<1>. QED
  BY <1>1, <1>3, FS_NatBijection, FS_CountingElements
=============================================================================

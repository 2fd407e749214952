----------------------------- MODULE SequenceFacts -----------------------------
(* What the sequence operations of the models do to the length, the range   *)
(* and the injectivity of a sequence.                                       *)
EXTENDS Integers, Sequences, Functions, TLAPS

\* push_back() of a list.
LEMMA AppendFacts ==
    ASSUME NEW S, NEW s \in Seq(S), NEW x \in S
    PROVE  /\ Append(s, x) \in Seq(S)
           /\ Append(s, x) # <<>>
           /\ Len(Append(s, x)) = Len(s) + 1
           /\ DOMAIN Append(s, x) = 1..(Len(s) + 1)
           /\ \A i \in DOMAIN s : Append(s, x)[i] = s[i]
           /\ Append(s, x)[Len(s) + 1] = x
           /\ DOMAIN s = 1..Len(s) /\ Len(s) \in Nat
OBVIOUS

\* pop_front() of a list, and its first entry.
LEMMA TailFacts ==
    ASSUME NEW S, NEW s \in Seq(S), s # <<>>
    PROVE  /\ Tail(s) \in Seq(S)
           /\ Head(s) = s[1] /\ Head(s) \in S
           /\ Len(s) \in Nat /\ Len(s) > 0 /\ Len(Tail(s)) = Len(s) - 1
           /\ DOMAIN s = 1..Len(s)
           /\ DOMAIN Tail(s) = 1..(Len(s) - 1)
           /\ \A i \in 1..(Len(s) - 1) : Tail(s)[i] = s[i + 1]
OBVIOUS

\* The empty list.
LEMMA EmptyFacts == DOMAIN <<>> = {} /\ \A S : <<>> \in Seq(S)
OBVIOUS

\* A list is a function of its places.
LEMMA ListIsFunction ==
    ASSUME NEW S, NEW s \in Seq(S)
    PROVE  s = [i \in DOMAIN s |-> s[i]]
OBVIOUS

\* A place of a list that is not the last is followed by another.
LEMMA BelowLast ==
    ASSUME NEW n \in Nat, NEW i \in 1..n, i # n
    PROVE  i \in 1..(n - 1) /\ i + 1 \in 1..n
OBVIOUS

\* Appending adds to the range, and keeps a list free of duplicates when what is
\* appended is new.
LEMMA AppendRange ==
    ASSUME NEW S, NEW s \in Seq(S), NEW x \in S
    PROVE  /\ Range(Append(s, x)) = Range(s) \cup {x}
           /\ IsInjective(s) /\ x \notin Range(s) => IsInjective(Append(s, x))
<1>1. \A i \in DOMAIN Append(s, x) : i \in DOMAIN s \/ i = Len(s) + 1
  BY AppendFacts
<1>2. Range(Append(s, x)) = Range(s) \cup {x}
  BY AppendFacts DEF Range
<1>3. IsInjective(s) /\ x \notin Range(s) => IsInjective(Append(s, x))
  BY <1>1, AppendFacts DEF Range, IsInjective
<1> QED BY <1>2, <1>3

\* Without its first entry, a list without duplicates no longer holds that entry.
LEMMA TailRange ==
    ASSUME NEW S, NEW s \in Seq(S), s # <<>>
    PROVE  /\ Head(s) \in Range(s)
           /\ Range(s) = Range(Tail(s)) \cup {Head(s)}
           /\ IsInjective(s) => IsInjective(Tail(s)) /\ Head(s) \notin Range(Tail(s))
<1> DEFINE n == Len(s)
<1>1. /\ n \in Nat /\ n > 0 /\ DOMAIN s = 1..n /\ DOMAIN Tail(s) = 1..(n - 1)
      /\ Head(s) = s[1] /\ \A i \in 1..(n - 1) : Tail(s)[i] = s[i + 1]
  BY TailFacts
<1>2. \A i \in 1..(n - 1) : i + 1 \in 1..n
  BY <1>1
<1>3. Head(s) \in Range(s)
  BY <1>1 DEF Range
<1>4. Range(Tail(s)) \subseteq Range(s)
  BY <1>1, <1>2 DEF Range
<1>5. ASSUME NEW i \in 1..n PROVE s[i] \in Range(Tail(s)) \cup {Head(s)}
  <2>1. CASE i = 1
    BY <2>1, <1>1
  <2>2. CASE i # 1
    <3>1. i - 1 \in 1..(n - 1) /\ (i - 1) + 1 = i
      BY <1>1, <2>2
    <3>2. Tail(s)[i - 1] = s[i]
      BY <3>1, <1>1
    <3> QED BY <3>1, <3>2, <1>1 DEF Range
  <2> QED BY <2>1, <2>2
<1>6. ASSUME IsInjective(s)
      PROVE  IsInjective(Tail(s)) /\ Head(s) \notin Range(Tail(s))
  <2>1. ASSUME NEW i \in 1..(n - 1), NEW j \in 1..(n - 1), Tail(s)[i] = Tail(s)[j]
        PROVE  i = j
    <3>1. s[i + 1] = s[j + 1] /\ i + 1 \in DOMAIN s /\ j + 1 \in DOMAIN s
      BY <2>1, <1>1, <1>2
    <3>2. i + 1 = j + 1
      BY <3>1, <1>6 DEF IsInjective
    <3> QED BY <3>2
  <2>2. ASSUME NEW i \in 1..(n - 1) PROVE Tail(s)[i] # Head(s)
    <3>1. Tail(s)[i] = s[i + 1] /\ i + 1 \in DOMAIN s /\ 1 \in DOMAIN s /\ i + 1 # 1
      BY <1>1, <1>2
    <3> QED BY <3>1, <1>1, <1>6 DEF IsInjective
  <2>3. IsInjective(Tail(s))
    BY <2>1, <1>1 DEF IsInjective
  <2>4. Head(s) \notin Range(Tail(s))
    BY <2>2, <1>1 DEF Range
  <2> QED BY <2>3, <2>4
<1>7. Range(s) \subseteq Range(Tail(s)) \cup {Head(s)}
  BY <1>5, <1>1 DEF Range
<1> QED BY <1>3, <1>4, <1>6, <1>7

\* Two lists that share nothing and have no duplicates, one after the other.
LEMMA ConcatRange ==
    ASSUME NEW S, NEW s \in Seq(S), NEW r \in Seq(S)
    PROVE  /\ s \o r \in Seq(S)
           /\ Len(s \o r) = Len(s) + Len(r)
           /\ Range(s \o r) = Range(s) \cup Range(r)
           /\ IsInjective(s) /\ IsInjective(r) /\ Range(s) \cap Range(r) = {}
                 => IsInjective(s \o r)
<1> DEFINE m == Len(s)
           n == Len(r)
           c == s \o r
<1>1. /\ c \in Seq(S) /\ m \in Nat /\ n \in Nat /\ Len(c) = m + n
      /\ DOMAIN s = 1..m /\ DOMAIN r = 1..n /\ DOMAIN c = 1..(m + n)
  OBVIOUS
<1>2. \A i \in 1..m : c[i] = s[i]
  OBVIOUS
<1>3. \A i \in (m + 1)..(m + n) : c[i] = r[i - m]
  OBVIOUS
<1> HIDE DEF m, n, c
<1>4. \A i \in 1..(m + n) : i \in 1..m \/ (i \in (m + 1)..(m + n) /\ i - m \in 1..n)
  BY <1>1
<1>5. \A i \in 1..m : i \in 1..(m + n)
  BY <1>1
<1>6. \A i \in 1..n : i + m \in (m + 1)..(m + n) /\ i + m \in 1..(m + n) /\ (i + m) - m = i
  BY <1>1
<1>7. Range(c) = Range(s) \cup Range(r)
  <2>1. ASSUME NEW x \in Range(c) PROVE x \in Range(s) \cup Range(r)
    <3>1. PICK i \in 1..(m + n) : c[i] = x
      BY <1>1 DEF Range
    <3> QED BY <3>1, <1>1, <1>2, <1>3, <1>4 DEF Range
  <2>2. Range(s) \subseteq Range(c)
    BY <1>1, <1>2, <1>5 DEF Range
  <2>3. ASSUME NEW x \in Range(r) PROVE x \in Range(c)
    <3>1. PICK i \in 1..n : r[i] = x
      BY <1>1 DEF Range
    <3>2. c[i + m] = x
      BY <3>1, <1>3, <1>6
    <3> QED BY <3>2, <1>1, <1>6 DEF Range
  <2> QED BY <2>1, <2>2, <2>3
<1>8. ASSUME IsInjective(s), IsInjective(r), Range(s) \cap Range(r) = {}
      PROVE  IsInjective(c)
  <2> SUFFICES ASSUME NEW i \in 1..(m + n), NEW j \in 1..(m + n), c[i] = c[j]
               PROVE  i = j
    BY <1>1 DEF IsInjective
  <2>1. CASE i \in 1..m /\ j \in 1..m
    BY <2>1, <1>1, <1>2, <1>8 DEF IsInjective
  <2>2. CASE i \notin 1..m /\ j \notin 1..m
    <3>1. i - m \in 1..n /\ j - m \in 1..n /\ r[i - m] = r[j - m]
      BY <2>2, <1>3, <1>4
    <3>2. i - m = j - m
      BY <3>1, <1>1, <1>8 DEF IsInjective
    <3> QED BY <3>2, <1>1
  <2>3. CASE i \in 1..m /\ j \notin 1..m
    <3>1. s[i] = r[j - m] /\ j - m \in 1..n
      BY <2>3, <1>2, <1>3, <1>4
    <3> QED BY <3>1, <2>3, <1>1, <1>8 DEF Range
  <2>4. CASE i \notin 1..m /\ j \in 1..m
    <3>1. s[j] = r[i - m] /\ i - m \in 1..n
      BY <2>4, <1>2, <1>3, <1>4
    <3> QED BY <3>1, <2>4, <1>1, <1>8 DEF Range
  <2> QED BY <2>1, <2>2, <2>3, <2>4
<1> QED BY <1>1, <1>7, <1>8 DEF m, n, c

\* A list of one entry.
LEMMA SingleFacts ==
    ASSUME NEW S, NEW x \in S
    PROVE  /\ <<x>> \in Seq(S) /\ Len(<<x>>) = 1
           /\ Range(<<x>>) = {x} /\ IsInjective(<<x>>)
BY DEF Range, IsInjective

\* splice(): a list without duplicates is cut in two that share nothing.
LEMMA CutFacts ==
    ASSUME NEW S, NEW s \in Seq(S), NEW k \in 0..Len(s), IsInjective(s)
    PROVE  LET a == SubSeq(s, 1, k)
               b == SubSeq(s, k + 1, Len(s))
           IN  /\ a \in Seq(S) /\ b \in Seq(S)
               /\ Len(a) = k /\ Len(b) = Len(s) - k
               /\ Range(a) \subseteq Range(s) /\ Range(b) \subseteq Range(s)
               /\ Range(a) \cap Range(b) = {}
               /\ IsInjective(a) /\ IsInjective(b)
<1> DEFINE n == Len(s)
           a == SubSeq(s, 1, k)
           b == SubSeq(s, k + 1, n)
<1>1. n \in Nat /\ k \in Nat /\ k <= n /\ DOMAIN s = 1..n /\ \A i \in 1..n : s[i] \in S
  OBVIOUS
<1>2. a = [i \in 1..k |-> s[i]] /\ a \in Seq(S) /\ Len(a) = k
  OBVIOUS
<1>3. b = [i \in 1..(n - k) |-> s[k + i]] /\ b \in Seq(S) /\ Len(b) = n - k
  OBVIOUS
<1> HIDE DEF a, b, n
<1>4. \A i \in 1..k : i \in 1..n
  BY <1>1
<1>5. \A i \in 1..(n - k) : k + i \in 1..n /\ \A j \in 1..k : k + i # j
  BY <1>1
<1>6. IsInjective(a)
  BY <1>1, <1>2, <1>4 DEF IsInjective
<1>7. IsInjective(b)
  <2> SUFFICES ASSUME NEW i \in 1..(n - k), NEW j \in 1..(n - k), b[i] = b[j]
               PROVE  i = j
    BY <1>3 DEF IsInjective
  <2>1. k + i = k + j
    BY <1>1, <1>3, <1>5 DEF IsInjective
  <2> QED BY <2>1, <1>1
<1>8. Range(a) \cap Range(b) = {}
  BY <1>1, <1>2, <1>3, <1>4, <1>5 DEF Range, IsInjective
<1>9. Range(a) \subseteq Range(s) /\ Range(b) \subseteq Range(s)
  BY <1>1, <1>2, <1>3, <1>4, <1>5 DEF Range
<1> QED BY <1>2, <1>3, <1>6, <1>7, <1>8, <1>9 DEF a, b, n
=============================================================================

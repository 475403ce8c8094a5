---------------------------- MODULE SequenceFacts ----------------------------
(***************************************************************************)
(* Facts that the proofs share: what the operators on channels and batches *)
(* do to membership, length and range of sequences of message numbers, and *)
(* that sets of numbers have a least and a greatest member. They rest on   *)
(* the library's SequenceTheorems and WellFoundedInduction.                *)
(***************************************************************************)
EXTENDS Naturals, SequencesExt, Functions, SequenceTheorems, FiniteSetsExt,
        WellFoundedInduction, TLAPS

\* Messages are numbered from 1.
Msg == Nat \ {0}

LEMMA RangeElements ==
    ASSUME NEW s \in Seq(Msg)
    PROVE  Range(s) = {s[k] : k \in 1..Len(s)}
  BY LenProperties, Zenon DEF Range

LEMMA SeqAppend ==
    ASSUME NEW s \in Seq(Msg), NEW m \in Msg
    PROVE  /\ Append(s, m) \in Seq(Msg) /\ Len(Append(s, m)) = Len(s) + 1
           /\ \A k \in 1..Len(s) : Append(s, m)[k] = s[k]
           /\ Append(s, m)[Len(s) + 1] = m
           /\ Range(Append(s, m)) = Range(s) \cup {m}
<1>1. /\ Append(s, m) \in Seq(Msg) /\ Len(Append(s, m)) = Len(s) + 1
      /\ \A k \in 1..Len(s) : Append(s, m)[k] = s[k]
      /\ Append(s, m)[Len(s) + 1] = m
  BY SMT
<1>2. /\ Range(s) = {s[k] : k \in 1..Len(s)}
      /\ Range(Append(s, m)) = {Append(s, m)[k] : k \in 1..Len(s) + 1}
  BY <1>1, LenProperties, Zenon DEF Range
<1>3. 1..Len(s) + 1 = (1..Len(s)) \cup {Len(s) + 1}  BY SMT
<1>4. {Append(s, m)[k] : k \in 1..Len(s)} = {s[k] : k \in 1..Len(s)}  BY <1>1, Zenon
<1>5. {Append(s, m)[k] : k \in 1..Len(s) + 1}
        = {Append(s, m)[k] : k \in 1..Len(s)} \cup {Append(s, m)[Len(s) + 1]}
  BY <1>3, Zenon
<1> QED  BY <1>1, <1>2, <1>4, <1>5, Zenon

LEMMA SeqTail ==
    ASSUME NEW s \in Seq(Msg), s # <<>>
    PROVE  /\ Head(s) \in Msg /\ Head(s) \in Range(s)
           /\ Tail(s) \in Seq(Msg) /\ Len(Tail(s)) = Len(s) - 1 /\ Len(s) >= 1
           /\ Range(Tail(s)) \subseteq Range(s)
<1>1. /\ Head(s) \in Msg
      /\ Tail(s) \in Seq(Msg) /\ Len(Tail(s)) = Len(s) - 1
      /\ \A k \in 1..Len(Tail(s)) : Tail(s)[k] = s[k + 1]
  BY HeadTailProperties
<1>2. Len(s) \in Nat \ {0} /\ Head(s) = s[1]  BY SMT
<1>3. /\ Range(s) = {s[k] : k \in 1..Len(s)}
      /\ Range(Tail(s)) = {Tail(s)[k] : k \in 1..Len(Tail(s))}
  BY <1>1, LenProperties, Zenon DEF Range
<1>4. Head(s) \in Range(s)  BY <1>2, <1>3, SMT
<1>5. \A k \in 1..Len(Tail(s)) : k + 1 \in 1..Len(s)  BY <1>1, <1>2, SMT
<1>6. Range(Tail(s)) \subseteq Range(s)  BY <1>1, <1>3, <1>5, Zenon
<1>7. Len(s) >= 1  BY <1>2, SMT
<1> QED  BY <1>1, <1>4, <1>6, <1>7

LEMMA SeqOne ==
    ASSUME NEW m \in Msg
    PROVE  <<m>> \in Seq(Msg) /\ Len(<<m>>) = 1 /\ Range(<<m>>) = {m}
<1>1. <<m>> \in Seq(Msg) /\ Len(<<m>>) = 1 /\ <<m>>[1] = m  BY SMT
<1>2. DOMAIN <<m>> = 1..1  BY <1>1, LenProperties
<1>3. 1..1 = {1}  BY SMT
<1> QED  BY <1>1, <1>2, <1>3, Zenon DEF Range

LEMMA SeqEmpty == <<>> \in Seq(Msg) /\ Len(<<>>) = 0 /\ Range(<<>>) = {}
  BY SMT DEF Range

LEMMA SeqConcat ==
    ASSUME NEW s \in Seq(Msg), NEW t \in Seq(Msg)
    PROVE  /\ s \o t \in Seq(Msg) /\ Len(s \o t) = Len(s) + Len(t)
           /\ Range(s \o t) \subseteq Range(s) \cup Range(t)
<1>1. /\ s \o t \in Seq(Msg) /\ Len(s \o t) = Len(s) + Len(t)
      /\ \A k \in 1..Len(s) + Len(t) :
            (s \o t)[k] = IF k <= Len(s) THEN s[k] ELSE t[k - Len(s)]
  BY ConcatProperties
<1>2. /\ Range(s) = {s[k] : k \in 1..Len(s)} /\ Range(t) = {t[k] : k \in 1..Len(t)}
      /\ Range(s \o t) = {(s \o t)[k] : k \in 1..Len(s) + Len(t)}
  BY <1>1, LenProperties, Zenon DEF Range
<1>3. Len(s) \in Nat /\ Len(t) \in Nat  BY LenProperties
<1>4. ASSUME NEW k \in 1..Len(s) + Len(t)
      PROVE  (s \o t)[k] \in Range(s) \cup Range(t)
  <2>1. CASE k <= Len(s)
    <3>1. (s \o t)[k] = s[k] /\ k \in 1..Len(s)  BY <1>1, <1>3, <2>1, SMT
    <3> QED  BY <1>2, <3>1
  <2>2. CASE k > Len(s)
    <3>1. (s \o t)[k] = t[k - Len(s)]  BY <1>1, <1>3, <2>2, SMT
    <3>2. k - Len(s) \in 1..Len(t)  BY <1>3, <2>2, SMT
    <3> QED  BY <1>2, <3>1, <3>2
  <2> QED  BY <1>3, <2>1, <2>2, SMT
<1> QED  BY <1>1, <1>2, <1>4

LEMMA SeqNonEmpty ==
    ASSUME NEW s \in Seq(Msg)
    PROVE  (s = <<>> <=> Len(s) = 0) /\ Len(s) \in Nat
  BY SMT

-----------------------------------------------------------------------------
\* Moving the head of one sequence to the end of the one before it.
LEMMA MoveHead ==
    ASSUME NEW S, NEW s \in Seq(S), NEW t \in Seq(S), t # <<>>
    PROVE  Append(s, Head(t)) \o Tail(t) = s \o t
  BY SMT

\* What RemoveAt leaves: the elements before and behind the one removed.
LEMMA RemoveAtProperties ==
    ASSUME NEW S, NEW t \in Seq(S), NEW i \in 1..Len(t)
    PROVE  /\ RemoveAt(t, i) \in Seq(S)
           /\ Len(RemoveAt(t, i)) = Len(t) - 1
           /\ \A k \in 1..Len(t) - 1 :
                 RemoveAt(t, i)[k] = IF k < i THEN t[k] ELSE t[k + 1]
<1> DEFINE a == SubSeq(t, 1, i - 1)
           b == SubSeq(t, i + 1, Len(t))
<1>1. /\ a \in Seq(S) /\ Len(a) = i - 1
      /\ \A k \in 1..i - 1 : a[k] = t[k]
  <2>1. \A k \in 1..i - 1 : t[k] \in S  BY ElementOfSeq, SMT
  <2>2. 1 \in Int /\ i - 1 \in Int  OBVIOUS
  <2> HIDE DEF a
  <2> QED  BY <2>1, <2>2, SubSeqProperties, SMT DEF a
<1>2. /\ b \in Seq(S) /\ Len(b) = Len(t) - i
      /\ \A k \in 1..Len(t) - i : b[k] = t[k + i]
  <2>1. \A k \in i + 1..Len(t) : t[k] \in S  BY ElementOfSeq, SMT
  <2>2. i + 1 \in Int /\ Len(t) \in Int  OBVIOUS
  <2> HIDE DEF b
  <2> QED  BY <2>1, <2>2, SubSeqProperties, SMT DEF b
<1>3. RemoveAt(t, i) = a \o b  BY Zenon DEF RemoveAt
<1> HIDE DEF a, b
<1>4. /\ a \o b \in Seq(S) /\ Len(a \o b) = Len(a) + Len(b)
      /\ \A k \in 1..Len(a) + Len(b) :
            (a \o b)[k] = IF k <= Len(a) THEN a[k] ELSE b[k - Len(a)]
  BY <1>1, <1>2, ConcatProperties
<1>5. ASSUME NEW k \in 1..Len(t) - 1
      PROVE  (a \o b)[k] = IF k < i THEN t[k] ELSE t[k + 1]
  <2>1. CASE k < i  BY <1>1, <1>2, <1>4, <2>1, SMT
  <2>2. CASE k >= i
    <3>1. (a \o b)[k] = b[k - (i - 1)]  BY <1>1, <1>2, <1>4, <2>2, SMT
    <3>2. k - (i - 1) \in 1..Len(t) - i  BY <2>2, SMT
    <3>3. b[k - (i - 1)] = t[k - (i - 1) + i]  BY <1>2, <3>2
    <3>4. k - (i - 1) + i = k + 1  BY SMT
    <3> QED  BY <3>1, <3>3, <3>4, <2>2, SMT
  <2>3. k < i \/ k >= i  BY SMT
  <2> QED  BY <2>1, <2>2, <2>3, Zenon
<1>6. Len(a \o b) = Len(t) - 1  BY <1>1, <1>2, <1>4, SMT
<1> QED  BY <1>3, <1>4, <1>5, <1>6, Zenon

\* Removing from the second part of a concatenation.
LEMMA RemoveBehind ==
    ASSUME NEW S, NEW s \in Seq(S), NEW t \in Seq(S), NEW i \in 1..Len(t)
    PROVE  s \o RemoveAt(t, i) = RemoveAt(s \o t, Len(s) + i)
<1> DEFINE u == s \o t
           r == RemoveAt(t, i)
           q == RemoveAt(u, Len(s) + i)
<1>1. /\ u \in Seq(S) /\ Len(u) = Len(s) + Len(t)
      /\ \A k \in 1..Len(s) + Len(t) :
            u[k] = IF k <= Len(s) THEN s[k] ELSE t[k - Len(s)]
  BY ConcatProperties
<1> HIDE DEF u
<1>2. /\ r \in Seq(S) /\ Len(r) = Len(t) - 1
      /\ \A k \in 1..Len(t) - 1 : r[k] = IF k < i THEN t[k] ELSE t[k + 1]
  BY RemoveAtProperties
<1>3. Len(s) + i \in 1..Len(u)  BY <1>1, SMT
<1>4. /\ q \in Seq(S) /\ Len(q) = Len(u) - 1
      /\ \A k \in 1..Len(u) - 1 : q[k] = IF k < Len(s) + i THEN u[k] ELSE u[k + 1]
  BY <1>1, <1>3, RemoveAtProperties
<1> HIDE DEF r, q
<1>5. /\ s \o r \in Seq(S) /\ Len(s \o r) = Len(s) + Len(r)
      /\ \A k \in 1..Len(s) + Len(r) :
            (s \o r)[k] = IF k <= Len(s) THEN s[k] ELSE r[k - Len(s)]
  BY <1>2, ConcatProperties
<1>6. Len(s \o r) = Len(q)  BY <1>1, <1>2, <1>4, <1>5, SMT
<1>7. ASSUME NEW k \in 1..Len(s \o r)
      PROVE  (s \o r)[k] = q[k]
  <2>1. k \in 1..Len(s) + Len(r) /\ k \in 1..Len(u) - 1
    BY <1>4, <1>5, <1>6, SMT
  <2>2. CASE k <= Len(s)  BY <1>1, <1>4, <1>5, <2>1, <2>2, SMT
  <2>3. CASE k > Len(s) /\ k < Len(s) + i
    <3>1. (s \o r)[k] = r[k - Len(s)]  BY <1>5, <2>1, <2>3, SMT
    <3>2. r[k - Len(s)] = t[k - Len(s)]  BY <1>2, <2>1, <2>3, SMT
    <3>3. q[k] = u[k]  BY <1>4, <2>1, <2>3, SMT
    <3>4. u[k] = t[k - Len(s)]  BY <1>1, <2>1, <2>3, SMT
    <3> QED  BY <3>1, <3>2, <3>3, <3>4
  <2>4. CASE k >= Len(s) + i
    <3>1. (s \o r)[k] = r[k - Len(s)]  BY <1>5, <2>1, <2>4, SMT
    <3>2. r[k - Len(s)] = t[k - Len(s) + 1]  BY <1>2, <2>1, <2>4, SMTT(30)
    <3>3. q[k] = u[k + 1]  BY <1>4, <2>1, <2>4, SMT
    <3>4. u[k + 1] = t[k + 1 - Len(s)]  BY <1>1, <2>1, <2>4, SMT
    <3>5. k + 1 - Len(s) = k - Len(s) + 1  BY <2>1, SMT
    <3> QED  BY <3>1, <3>2, <3>3, <3>4, <3>5
  <2> QED  BY <2>1, <2>2, <2>3, <2>4, SMT
<1>8. s \o r = q  BY <1>4, <1>5, <1>6, <1>7, SeqEqual
<1> QED  BY <1>8 DEF r, q, u


\* Removing the first element of the second part.
LEMMA RemoveHeadBehind ==
    ASSUME NEW s \in Seq(Msg), NEW t \in Seq(Msg), t # <<>>
    PROVE  /\ s \o Tail(t) = RemoveAt(s \o t, Len(s) + 1)
           /\ Len(s) + 1 \in DOMAIN (s \o t)
           /\ (s \o t)[Len(s) + 1] = Head(t)
<1>1. Len(t) \in Nat \ {0} /\ Head(t) = t[1] /\ Len(s) \in Nat  BY SMT
<1>2. 1 \in 1..Len(t)  BY <1>1, SMT
<1>3. /\ RemoveAt(t, 1) \in Seq(Msg) /\ Len(RemoveAt(t, 1)) = Len(t) - 1
      /\ \A k \in 1..Len(t) - 1 : RemoveAt(t, 1)[k] = IF k < 1 THEN t[k] ELSE t[k + 1]
  BY <1>2, RemoveAtProperties
<1>4. /\ Tail(t) \in Seq(Msg) /\ Len(Tail(t)) = Len(t) - 1
      /\ \A k \in 1..Len(Tail(t)) : Tail(t)[k] = t[k + 1]
  BY HeadTailProperties
<1>5. \A k \in 1..Len(t) - 1 : Tail(t)[k] = RemoveAt(t, 1)[k]
  BY <1>1, <1>3, <1>4, SMT
<1>6. Tail(t) = RemoveAt(t, 1)  BY <1>3, <1>4, <1>5, SeqEqual
<1>7. s \o Tail(t) = RemoveAt(s \o t, Len(s) + 1)  BY <1>2, <1>6, RemoveBehind
<1>8. /\ s \o t \in Seq(Msg) /\ Len(s \o t) = Len(s) + Len(t)
      /\ \A k \in 1..Len(s) + Len(t) :
            (s \o t)[k] = IF k <= Len(s) THEN s[k] ELSE t[k - Len(s)]
  BY ConcatProperties
<1>9. DOMAIN (s \o t) = 1..Len(s \o t)  BY <1>8, LenProperties
<1>10. Len(s) + 1 \in 1..Len(s) + Len(t)  BY <1>1, SMT
<1>11. (s \o t)[Len(s) + 1] = Head(t)
  <2>1. (s \o t)[Len(s) + 1] = t[Len(s) + 1 - Len(s)]  BY <1>1, <1>8, <1>10, SMT
  <2>2. Len(s) + 1 - Len(s) = 1  BY <1>1, SMT
  <2> QED  BY <1>1, <2>1, <2>2
<1> QED  BY <1>7, <1>8, <1>9, <1>10, <1>11

-----------------------------------------------------------------------------
\* A set of numbers has a least one, and a greatest one if it has a bound.
LEMMA LeastNat ==
    ASSUME NEW S \in SUBSET Nat, S # {}
    PROVE  \E x \in S : \A y \in S : x <= y
<1>1. PICK x \in S : \A y \in S : ~ (<<y, x>> \in OpToRel(<, Nat))
  BY NatLessThanWellFounded, WFMin
<1>2. \A y \in S : ~ (y < x)  BY <1>1, Zenon DEF OpToRel
<1> QED  BY <1>2

LEMMA MinNat ==
    ASSUME NEW S \in SUBSET Nat, S # {}
    PROVE  Min(S) \in S /\ \A y \in S : Min(S) <= y
  BY LeastNat DEF Min

LEMMA MaxNat ==
    ASSUME NEW S \in SUBSET Nat, S # {}, NEW n \in Nat, \A x \in S : x <= n
    PROVE  Max(S) \in S /\ \A y \in S : y <= Max(S)
<1> DEFINE T == {k \in Nat : \E x \in S : k = n - x}
<1>1. PICK k \in T : \A j \in T : k <= j
  <2>1. T # {}
    <3>1. PICK x \in S : TRUE  OBVIOUS
    <3>2. n - x \in Nat  BY <3>1
    <3> QED  BY <3>1, <3>2
  <2> QED  BY <2>1, LeastNat
<1>2. PICK x \in S : k = n - x  BY <1>1
<1>3. \A y \in S : y <= x
  <2> SUFFICES ASSUME NEW y \in S PROVE y <= x
    OBVIOUS
  <2>1. n - y \in T  OBVIOUS
  <2>2. n - x <= n - y  BY <1>1, <1>2, <2>1
  <2> QED  BY <2>2
<1> QED  BY <1>2, <1>3 DEF Max

=============================================================================

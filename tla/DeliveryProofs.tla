--------------------------- MODULE DeliveryProofs ---------------------------
(***************************************************************************)
(* Proofs about Delivery: its messages come out in order, and each is in   *)
(* exactly one place. The invariants are proved of the history             *)
(* written \o pending, which a delivery leaves as it is.                   *)
(***************************************************************************)
EXTENDS Delivery, SequenceFacts, TLAPS

-----------------------------------------------------------------------------
\* How the range and the order of a sequence change when it grows or shrinks.

LEMMA RemoveHistory ==
    ASSUME NEW s \in Seq(Msg), NEW i \in 1..Len(s), Increasing(s)
    PROVE  /\ Increasing(RemoveAt(s, i))
           /\ Range(RemoveAt(s, i)) = Range(s) \ {s[i]}
<1> DEFINE r == RemoveAt(s, i)
<1>1. /\ r \in Seq(Msg) /\ Len(r) = Len(s) - 1
      /\ \A k \in 1..Len(s) - 1 : r[k] = IF k < i THEN s[k] ELSE s[k + 1]
  BY RemoveAtProperties
<1>2. \A k \in 1..Len(s) : s[k] \in Nat  BY ElementOfSeq DEF Msg
<1> HIDE DEF r
<1>3. Increasing(r)
  <2> SUFFICES ASSUME NEW j \in 1..Len(r), NEW k \in 1..Len(r), j < k
               PROVE  r[j] < r[k]
    BY DEF Increasing
  <2>1. \A x, y \in 1..Len(s) : x < y => s[x] < s[y]  BY DEF Increasing
  <2>2. j \in 1..Len(s) - 1 /\ k \in 1..Len(s) - 1  BY <1>1
  <2>3. CASE k < i
    <3>1. r[j] = s[j] /\ r[k] = s[k]  BY <1>1, <2>2, <2>3, SMT
    <3> QED  BY <2>1, <2>2, <3>1, SMT
  <2>4. CASE j < i /\ k >= i
    <3>1. r[j] = s[j] /\ r[k] = s[k + 1]  BY <1>1, <2>2, <2>4, SMT
    <3> QED  BY <2>1, <2>2, <3>1, SMT
  <2>5. CASE j >= i
    <3>1. r[j] = s[j + 1] /\ r[k] = s[k + 1]  BY <1>1, <2>2, <2>5, SMT
    <3> QED  BY <2>1, <2>2, <3>1, SMT
  <2>6. k < i \/ (j < i /\ k >= i) \/ j >= i  BY SMT
  <2> QED  BY <2>3, <2>4, <2>5, <2>6, Zenon
<1>4. Range(r) \subseteq Range(s) \ {s[i]}
  <2> SUFFICES ASSUME NEW k \in 1..Len(r)
               PROVE  r[k] \in Range(s) /\ r[k] # s[i]
    BY <1>1, RangeElements
  <2>1. PICK x \in 1..Len(s) : r[k] = s[x] /\ x # i
    <3>1. CASE k < i  BY <1>1, <3>1, SMT
    <3>2. CASE k >= i
      <4>1. r[k] = s[k + 1] /\ k + 1 \in 1..Len(s) /\ k + 1 # i  BY <1>1, <3>2, SMT
      <4> QED  BY <4>1
    <3> QED  BY <3>1, <3>2, <1>1, SMT
  <2>2. s[x] # s[i]  BY <1>2, <2>1, SMT DEF Increasing
  <2> QED  BY <2>1, <2>2, RangeElements
<1>5. Range(s) \ {s[i]} \subseteq Range(r)
  <2> SUFFICES ASSUME NEW x \in 1..Len(s), s[x] # s[i]
               PROVE  s[x] \in Range(r)
    BY RangeElements
  <2>1. CASE x < i
    <3>1. r[x] = s[x] /\ x \in 1..Len(r)  BY <1>1, <2>1, SMT
    <3> QED  BY <1>1, <3>1, RangeElements
  <2>2. CASE x > i
    <3>1. x - 1 \in 1..Len(r) /\ r[x - 1] = s[x - 1 + 1] /\ x - 1 + 1 = x
      BY <1>1, <2>2, SMT
    <3> QED  BY <1>1, <3>1, RangeElements
  <2> QED  BY <2>1, <2>2, SMT
<1> QED  BY <1>3, <1>4, <1>5 DEF r

-----------------------------------------------------------------------------
\* The inductive invariant, and the two promises it makes.

DeliveryInv == DeliveryTypeOK /\ InOrder /\ Accounted

LEMMA InitInv == DeliveryInit => DeliveryInv
<1> SUFFICES ASSUME DeliveryInit PROVE DeliveryInv
  OBVIOUS
<1> USE DEF DeliveryInit
<1>1. DeliveryTypeOK  BY SMT DEF DeliveryTypeOK
<1>2. written \o pending = <<>>  BY SMT
<1>3. InOrder  BY <1>2, SMT DEF InOrder, Increasing
<1>4. Range(<<>>) = {}  BY SMT DEF Range
<1>5. 1..accepted = {}  BY SMT
<1>6. Accounted  BY <1>2, <1>4, <1>5 DEF Accounted
<1> QED  BY <1>1, <1>3, <1>6 DEF DeliveryInv

\* A message that is taken in is larger than all that are accounted for.
LEMMA TakeInInv == DeliveryInv /\ TakeIn => DeliveryInv'
<1> SUFFICES ASSUME DeliveryInv, TakeIn PROVE DeliveryInv'
  OBVIOUS
<1> DEFINE h == written \o pending
           m == accepted + 1
<1>1. /\ accepted \in Nat /\ m \in Msg
      /\ pending \in Seq(Msg) /\ written \in Seq(Msg) /\ discarded \subseteq Msg
  BY SMT DEF DeliveryInv, DeliveryTypeOK, Msg
<1>2. h \in Seq(Msg)  BY <1>1, ConcatProperties
<1>3. written' \o pending' = Append(h, m)
  BY <1>1, SMT DEF TakeIn
<1>4. \A k \in 1..Len(h) : h[k] \in 1..accepted
  BY <1>2, RangeElements DEF DeliveryInv, Accounted
<1>5. \A j, k \in 1..Len(h) : j < k => h[j] < h[k]
  BY DEF DeliveryInv, InOrder, Increasing
<1> HIDE DEF h
<1>6. DeliveryTypeOK'
  BY <1>1, SeqAppend DEF TakeIn, DeliveryTypeOK, Msg
<1>7. InOrder'
  <2> SUFFICES ASSUME NEW j \in 1..Len(Append(h, m)), NEW k \in 1..Len(Append(h, m)), j < k
               PROVE  Append(h, m)[j] < Append(h, m)[k]
    BY <1>3 DEF InOrder, Increasing
  <2>1. j \in 1..Len(h)  BY <1>1, <1>2, SeqAppend, SMT
  <2>2. CASE k \in 1..Len(h)  BY <1>1, <1>2, <1>5, <2>1, <2>2, SeqAppend
  <2>3. CASE k = Len(h) + 1
    <3>1. Append(h, m)[j] = h[j] /\ Append(h, m)[k] = m
      BY <1>1, <1>2, <2>1, <2>3, SeqAppend
    <3> QED  BY <1>1, <1>4, <2>1, <3>1, SMT
  <2>4. Len(Append(h, m)) = Len(h) + 1  BY <1>1, <1>2, SeqAppend
  <2>5. k \in 1..Len(h) \/ k = Len(h) + 1  BY <1>2, <2>4, SMT
  <2> QED  BY <2>2, <2>3, <2>5, Zenon
<1>8. Accounted'
  <2>1. Range(Append(h, m)) = Range(h) \cup {m}  BY <1>1, <1>2, SeqAppend
  <2>2. 1..m = (1..accepted) \cup {m} /\ m \notin 1..accepted  BY <1>1, SMT
  <2>3. Range(h) \cup discarded = 1..accepted /\ Range(h) \cap discarded = {}
    BY DEF DeliveryInv, Accounted, h
  <2>4. accepted' = m /\ discarded' = discarded  BY DEF TakeIn
  <2> QED  BY <1>3, <2>1, <2>2, <2>3, <2>4 DEF Accounted
<1> QED  BY <1>6, <1>7, <1>8 DEF DeliveryInv

LEMMA DeliverInv == DeliveryInv /\ Deliver => DeliveryInv'
<1> SUFFICES ASSUME DeliveryInv, Deliver PROVE DeliveryInv'
  OBVIOUS
<1>1. pending \in Seq(Msg) /\ written \in Seq(Msg) /\ pending # <<>>
  BY DEF DeliveryInv, DeliveryTypeOK, Msg, Deliver
<1>2. written' \o pending' = written \o pending
  BY <1>1, MoveHead DEF Deliver
<1>3. DeliveryTypeOK'
  BY <1>1, HeadTailProperties, SeqAppend DEF DeliveryInv, DeliveryTypeOK, Msg, Deliver
<1>4. InOrder'  BY <1>2 DEF DeliveryInv, InOrder, Increasing
<1>5. Accounted'  BY <1>2 DEF DeliveryInv, Accounted, Deliver
<1> QED  BY <1>3, <1>4, <1>5 DEF DeliveryInv

LEMMA DiscardInv == DeliveryInv /\ Discard => DeliveryInv'
<1> SUFFICES ASSUME DeliveryInv, Discard PROVE DeliveryInv'
  OBVIOUS
<1> DEFINE h == written \o pending
<1>1. /\ accepted \in Nat
      /\ pending \in Seq(Msg) /\ written \in Seq(Msg) /\ discarded \subseteq Msg
  BY DEF DeliveryInv, DeliveryTypeOK, Msg
<1>2. PICK i \in 1..Len(pending) : /\ pending' = RemoveAt(pending, i)
                                   /\ discarded' = discarded \cup {pending[i]}
  BY <1>1, LenProperties DEF Discard
<1>3. accepted' = accepted /\ written' = written  BY DEF Discard
<1>4. /\ h \in Seq(Msg) /\ Len(written) + i \in 1..Len(h)
      /\ h[Len(written) + i] = pending[i]
  BY <1>1, SMT
<1>5. written' \o pending' = RemoveAt(h, Len(written) + i)
  BY <1>1, <1>2, <1>3, RemoveBehind
<1>6. Increasing(h) /\ Range(h) \cup discarded = 1..accepted /\ Range(h) \cap discarded = {}
  BY DEF DeliveryInv, InOrder, Accounted
<1>7. pending[i] \in Msg  BY <1>1, ElementOfSeq
<1> HIDE DEF h
<1>8. /\ Increasing(RemoveAt(h, Len(written) + i))
      /\ Range(RemoveAt(h, Len(written) + i)) = Range(h) \ {pending[i]}
  BY <1>4, <1>6, RemoveHistory
<1>9. DeliveryTypeOK'
  BY <1>1, <1>2, <1>3, <1>7, RemoveAtProperties DEF DeliveryTypeOK, Msg
<1>10. InOrder'  BY <1>5, <1>8 DEF InOrder
<1>11. Accounted'
  <2>1. pending[i] \in Range(h)  BY <1>4, RangeElements
  <2> QED  BY <1>2, <1>3, <1>5, <1>6, <1>8, <2>1 DEF Accounted
<1> QED  BY <1>9, <1>10, <1>11 DEF DeliveryInv

LEMMA StutterInv == DeliveryInv /\ UNCHANGED deliveryVars => DeliveryInv'
  BY DEF DeliveryInv, DeliveryTypeOK, InOrder, Increasing, Accounted, deliveryVars

\* Whatever the pipeline between them, messages are written in the order they
\* were taken in, none twice, and none is lost from sight.
THEOREM DeliveryCorrect == DeliverySpec => [](InOrder /\ Accounted)
<1>1. DeliveryInv /\ [DeliveryNext]_deliveryVars => DeliveryInv'
  BY TakeInInv, DeliverInv, DiscardInv, StutterInv DEF DeliveryNext
<1>2. DeliveryInv => InOrder /\ Accounted
  BY DEF DeliveryInv
<1> QED  BY InitInv, <1>1, <1>2, PTL DEF DeliverySpec

=============================================================================

------------------------------ MODULE Delivery ------------------------------
(***************************************************************************)
(* What mafio promises of the messages it has taken in, whatever the       *)
(* input, filter and output plugins: a message is pending until it is      *)
(* written or discarded, it is written at most once, and the messages that *)
(* are written come out in the order in which they were taken in.          *)
(* Pipeline.tla is the detailed specification that implements this one.    *)
(***************************************************************************)
EXTENDS Naturals, SequencesExt, FiniteSetsExt, Functions

VARIABLES
    accepted,   \* how many messages were taken in; they are named 1..accepted
    pending,    \* taken in, neither written nor discarded yet
    written,    \* handed to the output, in order
    discarded   \* refused by the filter, or emptied from a channel

deliveryVars == <<accepted, pending, written, discarded>>

DeliveryInit ==
    /\ accepted = 0
    /\ pending = <<>>
    /\ written = <<>>
    /\ discarded = {}

\* A message is taken in behind all that are pending.
TakeIn ==
    /\ accepted' = accepted + 1
    /\ pending' = Append(pending, accepted + 1)
    /\ UNCHANGED <<written, discarded>>

\* The oldest pending message, and no other, may be written.
Deliver ==
    /\ pending # <<>>
    /\ written' = Append(written, Head(pending))
    /\ pending' = Tail(pending)
    /\ UNCHANGED <<accepted, discarded>>

\* Any pending message may be discarded instead.
Discard ==
    /\ \E i \in DOMAIN pending :
          /\ pending' = RemoveAt(pending, i)
          /\ discarded' = discarded \cup {pending[i]}
    /\ UNCHANGED <<accepted, written>>

DeliveryNext == TakeIn \/ Deliver \/ Discard

DeliverySpec == DeliveryInit /\ [][DeliveryNext]_deliveryVars

-----------------------------------------------------------------------------

DeliveryTypeOK ==
    /\ accepted \in Nat
    /\ pending \in Seq(Nat \ {0})
    /\ written \in Seq(Nat \ {0})
    /\ discarded \subseteq Nat \ {0}

Increasing(s) == \A i, j \in 1..Len(s) : i < j => s[i] < s[j]

\* Messages are written in the order they were taken in, none twice: the
\* output is, and stays when what is pending follows it, strictly increasing.
InOrder == Increasing(written \o pending)

\* No message is lost from sight: each one taken in is pending, written or
\* discarded, and a discarded one is never written.
Accounted ==
    /\ Range(written \o pending) \cup discarded = 1..accepted
    /\ Range(written \o pending) \cap discarded = {}
=============================================================================

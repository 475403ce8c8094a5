---------------------------- MODULE SinceDBProofs ----------------------------
(***************************************************************************)
(* Proofs about SinceDB, for any number of files, lines and restarts: what *)
(* the database may say of a file, what the ends of the process cost, and  *)
(* when lastRaw is what the disk has.                                      *)
(***************************************************************************)
EXTENDS SinceDB, SequenceFacts, FiniteSetTheorems

\* S has at most n elements.
Few(S, n) == IsFiniteSet(S) /\ Cardinality(S) <= n

LEMMA FewSubset ==
    ASSUME NEW T, NEW S \in SUBSET T, NEW n \in Nat, NEW m \in Nat, n <= m, Few(T, n)
    PROVE  Few(S, m)
<1>1. IsFiniteSet(S) /\ Cardinality(S) <= Cardinality(T)  BY FS_Subset DEF Few
<1>2. Cardinality(S) \in Nat /\ Cardinality(T) \in Nat  BY <1>1, FS_CardinalityType DEF Few
<1> QED  BY <1>1, <1>2 DEF Few

LEMMA FewAndOne ==
    ASSUME NEW T, NEW x, NEW S \in SUBSET (T \cup {x}), NEW n \in Nat, Few(T, n)
    PROVE  Few(S, n + 1)
<1>1. IsFiniteSet(T \cup {x}) /\ Cardinality(T) \in Nat
      /\ Cardinality(T \cup {x}) = IF x \in T THEN Cardinality(T) ELSE Cardinality(T) + 1
  BY FS_AddElement, FS_CardinalityType DEF Few
<1>2. Few(T \cup {x}, n + 1)  BY <1>1 DEF Few
<1> QED  BY <1>2, FewSubset

LEMMA FewNone == \A n \in Nat : Few({}, n)
  BY FS_EmptySet DEF Few

\* A file has a number for an offset, 0 if it has none.
LEMMA OffsetIsNat == ASSUME NEW r, IsOffsets(r), NEW f PROVE OffsetsOf(r, f) \in Nat
  BY DEF IsOffsets, OffsetsOf

LEMMA NoneKnown == IsOffsets(NoOffsets) /\ \A f : OffsetsOf(NoOffsets, f) = 0
  BY DEF IsOffsets, OffsetsOf, NoOffsets

LEMMA NoneMissing == \A f \in Files : Missing(f, 0) = {}
  BY DEF Missing

-----------------------------------------------------------------------------
\* The lines a reader is done with: all before its position but the one it is
\* about to send.
DoneWith(f) == IF rpc[f] = "send" THEN pos[f] - 1 ELSE pos[f]

\* A reader: each restart has cost a line at most, and its offset is not ahead of
\* its position.
Reading(f) ==
    /\ rpc[f] = "open" => Few(Missing(f, OffsetsOf(infos, f)), restarts)
    /\ rpc[f] # "open" => /\ f \in DOMAIN infos /\ infos[f] <= pos[f]
                          /\ Few(Missing(f, DoneWith(f)), restarts)
    /\ rpc[f] = "send" => pos[f] >= 1

\* The offsets on disk and on their way, and what was sent.
Kept(f) ==
    /\ Few(Missing(f, OffsetsOf(disk.offsets, f)), restarts + 1)
    /\ \A g \in Savers : Few(Missing(f, OffsetsOf(raw[g], f)), restarts + 1)
    /\ \E n \in Nat : \A x \in sent[f] : x <= n
    /\ Few(Missing(f, Highest(f)), restarts)

\* A process that does not run keeps nothing in memory; a reader that saves is
\* behind a line it has sent.
Stopped ==
    run # "up" => /\ \A f \in Files : rpc[f] = "open"
                  /\ \A g \in Savers : spc[g] = "off"
                  /\ lastRaw = <<>> /\ infos = NoOffsets
Called == \A g \in Files : Saving(g) => rpc[g] = "check"

Shape ==
    /\ DOMAIN raw = Savers
    /\ disk = [readable |-> disk.readable, offsets |-> disk.offsets]

\* While at most one saver is active and no write fails: it writes what lastRaw has,
\* nobody else has written meanwhile, and before it writes the disk has lastRaw.
Alone ==
    run = "up" /\ alone =>
        /\ \A g, h \in Savers : Saving(g) /\ Saving(h) => g = h
        /\ \A g \in Savers : spc[g] \in {"write", "fill"} => lastRaw = <<raw[g]>>
        /\ \A g \in Savers : spc[g] = "fill" => ~overwritten[g]
        /\ lastRaw # <<>> /\ (\A g \in Savers : spc[g] \notin {"write", "fill"}) =>
               disk.readable /\ lastRaw = <<disk.offsets>>

Memory == TypeOK /\ Stopped /\ Called /\ Shape
IInv == Memory /\ Alone /\ \A f \in Files : Kept(f) /\ (run = "up" => Reading(f))

-----------------------------------------------------------------------------
LEMMA InitInv == Init => IInv
<1> SUFFICES ASSUME Init PROVE IInv
  OBVIOUS
<1>1. TypeOK
  <2>1. size \in [Files -> Nat]  BY SizesAssumption DEF Init
  <2>2. IsOffsets(infos) /\ IsOffsets(disk.offsets) /\ \A g \in Savers : IsOffsets(raw[g])
    BY NoneKnown DEF Init
  <2> QED  BY <2>1, <2>2 DEF Init, TypeOK
<1>2. Stopped /\ Called /\ Shape
  <2>1. Stopped /\ Called  BY DEF Init, Stopped, Called, Saving, Savers
  <2>2. DOMAIN raw = Savers  BY DEF Init
  <2>3. disk = [readable |-> disk.readable, offsets |-> disk.offsets]  BY DEF Init
  <2> QED  BY <2>1, <2>2, <2>3 DEF Shape
<1>3. Alone  BY DEF Init, Alone, Saving
<1>4. ASSUME NEW f \in Files PROVE Kept(f) /\ Reading(f)
  <2>1. /\ OffsetsOf(disk.offsets, f) = 0 /\ OffsetsOf(infos, f) = 0
        /\ \A g \in Savers : OffsetsOf(raw[g], f) = 0
        /\ restarts = 0 /\ sent[f] = {} /\ rpc[f] = "open"
    BY NoneKnown DEF Init
  <2>2. Few({}, 0) /\ Few({}, 0 + 1)  BY FewNone
  <2>3. Highest(f) = 0
    <3>1. {0} \in SUBSET Nat /\ {0} # {}  OBVIOUS
    <3>2. Max({0}) \in {0}  BY <3>1, MaxNat
    <3> QED  BY <2>1, <3>2 DEF Highest
  <2> QED  BY <2>1, <2>2, <2>3, NoneMissing DEF Kept, Reading
<1> QED  BY <1>1, <1>2, <1>3, <1>4 DEF IInv, Memory

-----------------------------------------------------------------------------
LEMMA SetOffsetType ==
    ASSUME NEW f \in Files, NEW n \in Nat, IsOffsets(infos), SetOffset(f, n)
    PROVE  /\ IsOffsets(infos') /\ f \in DOMAIN infos' /\ infos'[f] = n
           /\ DOMAIN infos \subseteq DOMAIN infos'
           /\ \A g \in DOMAIN infos : g # f => infos'[g] = infos[g]
           /\ \A g : g # f => OffsetsOf(infos', g) = OffsetsOf(infos, g)
<1>1. DOMAIN infos' = DOMAIN infos \cup {f}  BY DEF SetOffset
<1>2. \A g \in DOMAIN infos \cup {f} : infos'[g] = IF g = f THEN n ELSE infos[g]  BY DEF SetOffset
<1> QED  BY <1>1, <1>2 DEF IsOffsets, OffsetsOf

\* The actions of the readers.
LEMMA ReaderTypes ==
    ASSUME Memory, NEW f \in Files, Reading(f), ReaderNext(f)
    PROVE  Memory' /\ (Alone => Alone')
<1>1. run = "up" /\ UNCHANGED <<size, run, restarts, lastRaw, elapsed, disk, saver>>
  BY DEF ReaderNext, Open, Read, Send, ReadAt, memory
<1>2. UNCHANGED <<spc, raw, overwritten, alone>>  BY <1>1 DEF saver
<1>3. rpc' \in [Files -> {"open", "read", "send", "check"}]
  BY DEF ReaderNext, Open, Read, Send, ReadGoto, Memory, TypeOK
<1>4. IsOffsets(infos') /\ pos' \in [Files -> Nat]
  <2>1. CASE Open(f)
    <3>1. OffsetsOf(infos, f) \in Nat  BY OffsetIsNat DEF Memory, TypeOK
    <3>2. IsOffsets(infos')  BY <2>1, <3>1, SetOffsetType DEF Open, Memory, TypeOK
    <3>3. pos' \in [Files -> Nat]  BY <2>1, <3>1 DEF Open, Memory, TypeOK
    <3> QED  BY <3>2, <3>3
  <2>2. CASE Read(f)
    <3>1. infos[f] + 1 \in Nat  BY <2>2 DEF Read, ReadAt, Reading, Memory, TypeOK, IsOffsets
    <3>2. IsOffsets(infos')  BY <2>2, <3>1, SetOffsetType DEF Read, Memory, TypeOK
    <3> QED  BY <2>2, <3>2 DEF Read, Memory, TypeOK
  <2>3. CASE Send(f)  BY <2>3 DEF Send, memory, Memory, TypeOK
  <2> QED  BY <2>1, <2>2, <2>3 DEF ReaderNext
<1>5. sent' \in [Files -> SUBSET Nat] /\ passed' \in [Files -> SUBSET Nat]
  <2>1. CASE Open(f)
    <3>1. 1..size[f] \subseteq Nat  BY DEF Memory, TypeOK
    <3>2. passed' \in [Files -> SUBSET Nat]  BY <2>1, <3>1 DEF Open, Memory, TypeOK
    <3> QED  BY <2>1, <3>2 DEF Open, Memory, TypeOK
  <2>2. CASE Read(f)  BY <2>2 DEF Read, history, Memory, TypeOK
  <2>3. CASE Send(f)
    <3>1. pos[f] \in Nat  BY DEF Memory, TypeOK
    <3> QED  BY <2>3, <3>1 DEF Send, Memory, TypeOK
  <2> QED  BY <2>1, <2>2, <2>3 DEF ReaderNext
<1>6. TypeOK'  BY <1>1, <1>2, <1>3, <1>4, <1>5 DEF Memory, TypeOK
<1>7. Stopped'  BY <1>1 DEF Stopped
<1>8. Called'
  <2>1. rpc[f] # "check" /\ \A g \in Files : g # f => rpc'[g] = rpc[g]
    BY DEF ReaderNext, Open, Read, Send, ReadAt, ReadGoto, Memory, TypeOK
  <2> QED  BY <1>2, <2>1 DEF Called, Saving, Memory
<1>9. Shape'  BY <1>1, <1>2 DEF Shape, Memory
<1>10. Alone => Alone'  BY <1>1, <1>2 DEF Alone, Saving
<1> QED  BY <1>6, <1>7, <1>8, <1>9, <1>10 DEF Memory

\* What is missing gets no more as more is sent or passed over.
LEMMA FewStay ==
    ASSUME NEW f, NEW n, NEW m \in Nat, NEW k \in Nat, m <= k, Few(Missing(f, n), m),
           sent[f] \cup passed[f] \subseteq sent'[f] \cup passed'[f]
    PROVE  Few(1..n \ (sent'[f] \cup passed'[f]), k)
<1>1. (1..n) \ (sent'[f] \cup passed'[f]) \in SUBSET Missing(f, n)  BY DEF Missing
<1> QED  BY <1>1, FewSubset

LEMMA FewUpTo ==
    ASSUME NEW f, NEW n \in Nat, NEW j \in Nat, j <= n, NEW m \in Nat, Few(Missing(f, n), m)
    PROVE  Few(Missing(f, j), m)
<1>1. Missing(f, j) \in SUBSET Missing(f, n)  BY DEF Missing
<1> QED  BY <1>1, FewSubset

\* The offset in memory counts at most the line a reader is about to send.
LEMMA InfosFew ==
    ASSUME Memory, NEW f \in Files, run = "up" => Reading(f)
    PROVE  Few(Missing(f, OffsetsOf(infos, f)), restarts + 1)
<1>1. restarts \in Nat /\ restarts + 1 \in Nat /\ restarts <= restarts + 1 /\ pos[f] \in Nat
  BY DEF Memory, TypeOK
<1>2. CASE run # "up"
  <2>1. OffsetsOf(infos, f) = 0  BY <1>2, NoneKnown DEF Memory, Stopped
  <2> QED  BY <1>1, <2>1, NoneMissing, FewNone
<1>3. CASE run = "up" /\ rpc[f] = "open"
  <2>1. Missing(f, OffsetsOf(infos, f)) \in SUBSET Missing(f, OffsetsOf(infos, f))  OBVIOUS
  <2> QED  BY <1>1, <1>3, <2>1, FewSubset DEF Reading
<1>4. CASE run = "up" /\ rpc[f] # "open"
  <2>1. /\ OffsetsOf(infos, f) = infos[f] /\ infos[f] \in Nat /\ infos[f] <= pos[f]
        /\ Few(Missing(f, DoneWith(f)), restarts)
    BY <1>4 DEF Reading, OffsetsOf, Memory, TypeOK, IsOffsets
  <2>2. Missing(f, pos[f]) \in SUBSET (Missing(f, DoneWith(f)) \cup {pos[f]})
    <3> SUFFICES ASSUME NEW x \in Missing(f, pos[f]), x # pos[f] PROVE x \in Missing(f, DoneWith(f))
      OBVIOUS
    <3>1. x \in 1..pos[f] /\ x \notin sent[f] \cup passed[f]  BY DEF Missing
    <3>2. x \in 1..DoneWith(f)  BY <1>1, <3>1 DEF DoneWith
    <3> QED  BY <3>1, <3>2 DEF Missing
  <2>3. Few(Missing(f, pos[f]), restarts + 1)  BY <1>1, <2>1, <2>2, FewAndOne
  <2> QED  BY <1>1, <2>1, <2>3, FewUpTo
<1> QED  BY <1>2, <1>3, <1>4

\* The highest line that was sent.
LEMMA HighestIs ==
    ASSUME NEW S \in SUBSET Nat, NEW n \in Nat, \A x \in S : x <= n
    PROVE  /\ Max(S \cup {0}) \in S \cup {0} /\ Max(S \cup {0}) \in Nat
           /\ \A x \in S \cup {0} : x <= Max(S \cup {0})
<1>1. S \cup {0} \in SUBSET Nat /\ S \cup {0} # {} /\ \A x \in S \cup {0} : x <= n
  OBVIOUS
<1> QED  BY <1>1, MaxNat

LEMMA ReaderKeeps ==
    ASSUME Memory, NEW f \in Files, Reading(f), Kept(f), ReaderNext(f)
    PROVE  Reading(f)' /\ Kept(f)'
<1>1. UNCHANGED <<restarts, disk, raw>>
  BY DEF ReaderNext, Open, Read, Send, saver
<1>2. /\ restarts \in Nat /\ restarts + 1 \in Nat /\ pos[f] \in Nat /\ size[f] \in Nat
      /\ restarts <= restarts /\ restarts + 1 <= restarts + 1
      /\ sent[f] \in SUBSET Nat
  BY DEF Memory, TypeOK
<1>3. ASSUME sent[f] \cup passed[f] \subseteq sent'[f] \cup passed'[f]
      PROVE  /\ Few(Missing(f, OffsetsOf(disk.offsets, f)), restarts + 1)'
             /\ \A g \in Savers : Few(Missing(f, OffsetsOf(raw[g], f)), restarts + 1)'
  <2>1. ASSUME NEW n, Few(Missing(f, n), restarts + 1)
        PROVE  Few(1..n \ (sent'[f] \cup passed'[f]), restarts + 1)
    BY <1>2, <1>3, <2>1, FewStay
  <2> QED  BY <1>1, <2>1 DEF Kept, Missing
<1>4. ASSUME sent'[f] = sent[f], sent[f] \cup passed[f] \subseteq sent'[f] \cup passed'[f]
      PROVE  Kept(f)'
  <2>1. Highest(f)' = Highest(f)  BY <1>4 DEF Highest
  <2>2. Few(1..Highest(f) \ (sent'[f] \cup passed'[f]), restarts)
    BY <1>2, <1>4, FewStay DEF Kept
  <2>3. Few(Missing(f, Highest(f)), restarts)'  BY <1>1, <2>1, <2>2 DEF Missing
  <2>4. \E n \in Nat : \A x \in sent'[f] : x <= n  BY <1>4 DEF Kept
  <2> QED  BY <1>3, <1>4, <2>3, <2>4 DEF Kept
<1>5. CASE Open(f)
  <2> DEFINE n == OffsetsOf(infos, f)
  <2>1. n \in Nat  BY OffsetIsNat DEF Memory, TypeOK
  <2>2. infos'[f] = n /\ f \in DOMAIN infos'
    BY <1>5, <2>1, SetOffsetType DEF Open, Memory, TypeOK
  <2>3. /\ pos'[f] = IF n = 0 THEN size[f] ELSE n
        /\ passed'[f] = IF n = 0 THEN (passed[f] \cup 1..size[f]) \ sent[f] ELSE passed[f]
        /\ sent'[f] = sent[f] /\ rpc'[f] = "read" /\ rpc[f] = "open"
    BY <1>5 DEF Open, ReadAt, ReadGoto, Memory, TypeOK
  <2>4. Few(Missing(f, n), restarts)  BY <2>3 DEF Reading
  <2> HIDE DEF n
  <2>5. Kept(f)'  BY <1>4, <2>3
  <2>6. infos'[f] <= pos'[f]  BY <1>2, <2>1, <2>2, <2>3
  <2>7. Few(1..pos'[f] \ (sent'[f] \cup passed'[f]), restarts)
    <3>1. CASE n = 0
      <4>1. 1..pos'[f] \ (sent'[f] \cup passed'[f]) = {}  BY <2>3, <3>1
      <4> QED  BY <1>2, <4>1, FewNone
    <3>2. CASE n # 0
      <4>1. pos'[f] = n /\ passed'[f] = passed[f]  BY <2>3, <3>2
      <4> QED  BY <2>3, <2>4, <4>1 DEF Missing
    <3> QED  BY <3>1, <3>2
  <2>8. DoneWith(f)' = pos'[f]  BY <2>3 DEF DoneWith
  <2>9. Few(Missing(f, DoneWith(f)), restarts)'  BY <1>1, <2>7, <2>8 DEF Missing
  <2> QED  BY <2>2, <2>3, <2>5, <2>6, <2>9 DEF Reading
<1>6. CASE Read(f)
  <2>1. rpc[f] = "read" /\ rpc'[f] = "send" /\ pos'[f] = pos[f] + 1 /\ UNCHANGED <<sent, passed>>
    BY <1>6 DEF Read, ReadAt, ReadGoto, history, Memory, TypeOK
  <2>2. f \in DOMAIN infos /\ infos[f] \in Nat /\ infos[f] <= pos[f] /\ Few(Missing(f, DoneWith(f)), restarts)
    BY <2>1 DEF Reading, Memory, TypeOK, IsOffsets
  <2>3. infos'[f] = infos[f] + 1 /\ f \in DOMAIN infos'
    BY <1>6, <2>2, SetOffsetType DEF Read, Memory, TypeOK
  <2>4. DoneWith(f)' = DoneWith(f)  BY <1>2, <2>1 DEF DoneWith
  <2>5. Few(Missing(f, DoneWith(f)), restarts)'  BY <1>1, <2>1, <2>2, <2>4 DEF Missing
  <2>6. infos'[f] <= pos'[f] /\ pos'[f] >= 1  BY <1>2, <2>1, <2>2, <2>3
  <2>7. Kept(f)'  BY <1>4, <2>1
  <2> QED  BY <2>1, <2>3, <2>5, <2>6, <2>7 DEF Reading
<1>7. CASE Send(f)
  <2>1. /\ rpc[f] = "send" /\ rpc'[f] = "check" /\ sent'[f] = sent[f] \cup {pos[f]}
        /\ UNCHANGED <<infos, pos, passed>>
    BY <1>7 DEF Send, ReadAt, ReadGoto, memory, Memory, TypeOK
  <2>2. /\ f \in DOMAIN infos /\ infos[f] <= pos[f] /\ Few(Missing(f, DoneWith(f)), restarts)
        /\ pos[f] >= 1 /\ DoneWith(f) = pos[f] - 1
    BY <2>1 DEF Reading, DoneWith
  <2>3. Few(1..pos[f] \ (sent'[f] \cup passed'[f]), restarts)
    <3>1. 1..pos[f] \ (sent'[f] \cup passed'[f]) \in SUBSET Missing(f, DoneWith(f))
      <4> SUFFICES ASSUME NEW x \in 1..pos[f], x \notin sent'[f] \cup passed'[f]
                   PROVE  x \in Missing(f, DoneWith(f))
        OBVIOUS
      <4>1. x # pos[f] /\ x \notin sent[f] \cup passed[f]  BY <2>1
      <4>2. x \in 1..DoneWith(f)  BY <1>2, <2>2, <4>1
      <4> QED  BY <4>1, <4>2 DEF Missing
    <3> QED  BY <1>2, <2>2, <3>1, FewSubset
  <2>4. DoneWith(f)' = pos[f]  BY <2>1 DEF DoneWith
  <2>5. Few(Missing(f, DoneWith(f)), restarts)'  BY <1>1, <2>3, <2>4 DEF Missing
  <2>6. Reading(f)'  BY <2>1, <2>2, <2>5 DEF Reading
  <2>7. PICK n \in Nat : \A x \in sent[f] : x <= n  BY DEF Kept
  <2>8. PICK m \in Nat : \A x \in sent'[f] : x <= m
    <3>1. CASE n <= pos[f]
      <4>1. \A x \in sent'[f] : x <= pos[f]  BY <1>2, <2>1, <2>7, <3>1
      <4> QED  BY <1>2, <4>1
    <3>2. CASE pos[f] <= n
      <4>1. \A x \in sent'[f] : x <= n  BY <2>1, <2>7, <3>2
      <4> QED  BY <4>1
    <3> QED  BY <1>2, <3>1, <3>2
  <2>9. sent'[f] \in SUBSET Nat  BY <1>2, <2>1
  <2> DEFINE h == Max(sent[f] \cup {0})
             j == Max(sent'[f] \cup {0})
  <2>10. /\ h \in Nat /\ \A x \in sent[f] \cup {0} : x <= h
         /\ j \in sent'[f] \cup {0} /\ j \in Nat
    BY <1>2, <2>7, <2>8, <2>9, HighestIs
  <2>11. Few(Missing(f, h), restarts)  BY DEF Kept, Highest
  <2> HIDE DEF h, j
  <2>12. Few(1..j \ (sent'[f] \cup passed'[f]), restarts)
    <3>1. CASE j = pos[f]  BY <2>3, <3>1
    <3>2. CASE j # pos[f]
      <4>1. j <= h  BY <2>1, <2>10, <3>2
      <4>2. Few(Missing(f, j), restarts)  BY <1>2, <2>10, <2>11, <4>1, FewUpTo
      <4> QED  BY <1>2, <2>1, <4>2, FewStay
    <3> QED  BY <3>1, <3>2
  <2>13. Few(Missing(f, Highest(f)), restarts)'  BY <1>1, <2>12 DEF Missing, Highest, j
  <2> QED  BY <1>3, <2>1, <2>6, <2>8, <2>13 DEF Kept
<1> QED  BY <1>5, <1>6, <1>7 DEF ReaderNext

\* The step of one reader leaves what concerns another file as it is.
LEMMA OtherReader ==
    ASSUME Memory, NEW f \in Files, Reading(f), ReaderNext(f), NEW g \in Files, g # f
    PROVE  (Reading(g) => Reading(g)') /\ (Kept(g) => Kept(g)')
<1>1. UNCHANGED <<restarts, disk, raw>>
  BY DEF ReaderNext, Open, Read, Send, saver
<1>2. rpc'[g] = rpc[g] /\ pos'[g] = pos[g] /\ sent'[g] = sent[g] /\ passed'[g] = passed[g]
  BY DEF ReaderNext, Open, Read, Send, ReadGoto, history, Memory, TypeOK
<1>3. /\ OffsetsOf(infos', g) = OffsetsOf(infos, g)
      /\ g \in DOMAIN infos => g \in DOMAIN infos' /\ infos'[g] = infos[g]
  <2>1. CASE Open(f)
    <3>1. OffsetsOf(infos, f) \in Nat  BY OffsetIsNat DEF Memory, TypeOK
    <3> QED  BY <2>1, <3>1, SetOffsetType DEF Open, Memory, TypeOK
  <2>2. CASE Read(f)
    <3>1. infos[f] + 1 \in Nat  BY <2>2 DEF Read, ReadAt, Reading, Memory, TypeOK, IsOffsets
    <3> QED  BY <2>2, <3>1, SetOffsetType DEF Read, Memory, TypeOK
  <2>3. CASE Send(f)  BY <2>3 DEF Send, memory
  <2> QED  BY <2>1, <2>2, <2>3 DEF ReaderNext
<1>4. \A n : Missing(g, n)' = Missing(g, n)  BY <1>2 DEF Missing
<1>5. Highest(g)' = Highest(g) /\ DoneWith(g)' = DoneWith(g)  BY <1>2 DEF Highest, DoneWith
<1>6. Reading(g) => Reading(g)'
  BY <1>1, <1>2, <1>3, <1>5 DEF Reading, Missing
<1>7. Kept(g) => Kept(g)'
  BY <1>1, <1>2, <1>5 DEF Kept, Missing
<1> QED  BY <1>6, <1>7

-----------------------------------------------------------------------------
\* The actions of the savers.
LEMMA ReturnKeeps ==
    ASSUME Memory, NEW g \in Savers, Return(g), g \in Files => rpc[g] = "check", run = "up"
    PROVE  /\ rpc' \in [Files -> {"open", "read", "send", "check"}]
           /\ \A f \in Files : rpc'[f] = rpc[f] \/ (f = g /\ rpc[f] = "check" /\ rpc'[f] = "read")
  BY DEF Return, Memory, TypeOK

LEMMA SaverMemory ==
    ASSUME Memory, NEW g \in Savers, SaverNext(g)
    PROVE  Memory'
<1>1. run = "up" /\ UNCHANGED <<size, run, restarts, infos, pos, history>>
  BY DEF SaverNext, CheckNothing, Check, Save, WriteOpen, WriteFill, WriteFails, Calls, SaveAt, memory, reader
<1>2. Saving(g) => (g \in Files => rpc[g] = "check")  BY DEF Memory, Called
<1>3. /\ rpc' \in [Files -> {"open", "read", "send", "check"}]
      /\ \A f \in Files : rpc'[f] = rpc[f] \/ (f = g /\ rpc[f] = "check" /\ rpc'[f] = "read")
      /\ spc'[g] \in {"save", "write", "fill"} => UNCHANGED rpc
  <2>1. CASE UNCHANGED rpc  BY <2>1 DEF Memory, TypeOK
  <2>2. CASE CheckNothing(g)
    <3>1. UNCHANGED spc /\ spc[g] = "off"  BY <2>2 DEF CheckNothing, Calls, saver
    <3> QED  BY <1>1, <2>2, <3>1, ReturnKeeps DEF CheckNothing, Calls
  <2>3. CASE WriteFill(g) \/ WriteFails(g)
    <3>1. Saving(g) /\ Return(g)  BY <2>3 DEF WriteFill, WriteFails, SaveAt, Saving
    <3>2. spc'[g] \in {"off", "done"}
      BY <2>3 DEF WriteFill, WriteFails, SaveGoto, Memory, TypeOK
    <3> QED  BY <1>1, <1>2, <3>1, <3>2, ReturnKeeps
  <2> QED  BY <2>1, <2>2, <2>3 DEF SaverNext, Check, Save, WriteOpen, reader
<1>4. spc' \in [Savers -> {"off", "save", "write", "fill", "done"}]
      /\ \A h \in Savers : h # g => spc'[h] = spc[h]
  BY DEF SaverNext, CheckNothing, Check, Save, WriteOpen, WriteFill, WriteFails, SaveGoto, saver, Memory, TypeOK
<1>5. elapsed' \in BOOLEAN /\ (lastRaw' = <<>> \/ (Len(lastRaw') = 1 /\ IsOffsets(lastRaw'[1])))
  <2>1. CASE Save(g)
    <3>1. lastRaw' = <<infos>> /\ elapsed' = FALSE  BY <2>1 DEF Save
    <3>2. Len(lastRaw') = 1 /\ lastRaw'[1] = infos  BY <3>1
    <3> QED  BY <3>1, <3>2 DEF Memory, TypeOK
  <2>2. CASE UNCHANGED memory  BY <2>2 DEF memory, Memory, TypeOK
  <2> QED  BY <2>1, <2>2 DEF SaverNext, CheckNothing, Check, WriteOpen, WriteFill, WriteFails
<1>6. /\ DOMAIN raw' = Savers
      /\ \A h \in Savers : raw'[h] = raw[h] \/ raw'[h] = infos \/ raw'[h] = NoOffsets
  <2>1. DOMAIN raw = Savers  BY DEF Memory, Shape
  <2>2. CASE UNCHANGED raw  BY <2>1, <2>2
  <2>3. CASE raw' = [raw EXCEPT ![g] = infos]  BY <2>1, <2>3
  <2>4. CASE raw' = [raw EXCEPT ![g] = NoOffsets]  BY <2>1, <2>4
  <2> QED
    BY <2>2, <2>3, <2>4 DEF SaverNext, CheckNothing, Check, Save, WriteOpen, WriteFill, WriteFails, saver
<1>7. \A h \in Savers : IsOffsets(raw'[h])  BY <1>6, NoneKnown DEF Memory, TypeOK
<1>8. /\ disk' = [readable |-> disk'.readable, offsets |-> disk'.offsets]
      /\ disk'.readable \in BOOLEAN
      /\ disk'.offsets = disk.offsets \/ disk'.offsets = raw[g]
  <2>1. disk = [readable |-> disk.readable, offsets |-> disk.offsets] /\ disk.readable \in BOOLEAN
    BY DEF Memory, Shape, TypeOK
  <2>2. CASE UNCHANGED disk  BY <2>1, <2>2
  <2>3. ASSUME NEW b \in BOOLEAN, disk' = [disk EXCEPT !.readable = b]
        PROVE  /\ disk' = [readable |-> disk'.readable, offsets |-> disk'.offsets]
               /\ disk'.readable \in BOOLEAN /\ disk'.offsets = disk.offsets
    <3>1. disk' = [readable |-> b, offsets |-> disk.offsets]  BY <2>1, <2>3
    <3> QED  BY <3>1
  <2>4. CASE WriteOpen(g)  BY <2>3, <2>4 DEF WriteOpen
  <2>5. CASE WriteFails(g)
    <3>1. UNCHANGED disk \/ \E intact \in BOOLEAN : disk' = [disk EXCEPT !.readable = disk.readable /\ intact]
      BY <2>5 DEF WriteFails
    <3>2. ASSUME NEW intact \in BOOLEAN, disk' = [disk EXCEPT !.readable = disk.readable /\ intact]
          PROVE  /\ disk' = [readable |-> disk'.readable, offsets |-> disk'.offsets]
                 /\ disk'.readable \in BOOLEAN /\ disk'.offsets = disk.offsets
      <4>1. (disk.readable /\ intact) \in BOOLEAN  OBVIOUS
      <4> QED  BY <2>3, <3>2, <4>1
    <3> QED  BY <2>2, <3>1, <3>2
  <2>6. CASE WriteFill(g)
    <3>1. PICK clean \in BOOLEAN : disk' = [readable |-> clean, offsets |-> raw[g]]
      BY <2>6 DEF WriteFill
    <3> QED  BY <3>1
  <2> QED  BY <2>2, <2>4, <2>5, <2>6 DEF SaverNext, CheckNothing, Check, Save
<1>9. overwritten' \in [Savers -> BOOLEAN] /\ alone' \in BOOLEAN
  BY DEF SaverNext, CheckNothing, Check, Save, WriteOpen, WriteFill, WriteFails, saver, Memory, TypeOK
<1>10. TypeOK'
  <2>1. IsOffsets(disk'.offsets)  BY <1>8 DEF Memory, TypeOK
  <2> QED  BY <1>1, <1>3, <1>4, <1>5, <1>7, <1>8, <1>9, <2>1 DEF Memory, TypeOK, history
<1>11. Stopped'  BY <1>1 DEF Stopped
<1>12. Called'
  <2> SUFFICES ASSUME NEW h \in Files, Saving(h)' PROVE rpc'[h] = "check"
    BY DEF Called
  <2>1. h \in Savers  BY DEF Savers
  <2>2. CASE h # g
    <3>1. Saving(h)  BY <1>4, <2>1, <2>2 DEF Saving
    <3>2. rpc[h] = "check"  BY <3>1 DEF Memory, Called
    <3> QED  BY <1>3, <2>2, <3>2
  <2>3. CASE h = g
    <3>1. UNCHANGED rpc  BY <1>3, <2>3 DEF Saving
    <3>2. CASE Check(g)  BY <2>3, <3>1, <3>2 DEF Check, Calls
    <3>3. CASE CheckNothing(g)
      <4>1. spc[g] = "off" /\ UNCHANGED spc  BY <3>3 DEF CheckNothing, Calls, saver
      <4> QED  BY <2>3, <4>1 DEF Saving
    <3>4. CASE Save(g) \/ WriteOpen(g) \/ WriteFill(g) \/ WriteFails(g)
      <4>1. Saving(g)  BY <3>4 DEF Save, WriteOpen, WriteFill, WriteFails, SaveAt, Saving
      <4> QED  BY <1>2, <2>3, <3>1, <4>1
    <3> QED  BY <3>2, <3>3, <3>4 DEF SaverNext
  <2> QED  BY <2>2, <2>3
<1>13. Shape'  BY <1>6, <1>8 DEF Shape
<1> QED  BY <1>10, <1>11, <1>12, <1>13 DEF Memory

LEMMA SaverKeeps ==
    ASSUME Memory, Memory', NEW g \in Savers, SaverNext(g), NEW f \in Files, Kept(f), Reading(f)
    PROVE  Kept(f)' /\ Reading(f)'
<1>1. run = "up" /\ UNCHANGED <<restarts, infos, pos, sent, passed>>
  BY DEF SaverNext, CheckNothing, Check, Save, WriteOpen, WriteFill, WriteFails, Calls, SaveAt, memory,
         reader, history
<1>2. rpc'[f] = rpc[f] \/ (rpc[f] = "check" /\ rpc'[f] = "read")
  <2>1. Saving(g) => (g \in Files => rpc[g] = "check")  BY DEF Memory, Called
  <2>2. CASE UNCHANGED rpc  BY <2>2
  <2>3. CASE Return(g) /\ (g \in Files => rpc[g] = "check")  BY <1>1, <2>3, ReturnKeeps
  <2>4. CASE CheckNothing(g)  BY <2>3, <2>4 DEF CheckNothing, Calls
  <2>5. CASE WriteFill(g) \/ WriteFails(g)
    <3>1. Saving(g) /\ Return(g)  BY <2>5 DEF WriteFill, WriteFails, SaveAt, Saving
    <3> QED  BY <2>1, <2>3, <3>1
  <2> QED  BY <2>2, <2>4, <2>5 DEF SaverNext, Check, Save, WriteOpen, reader
<1>3. DoneWith(f)' = DoneWith(f)  BY <1>1, <1>2 DEF DoneWith
<1>4. Reading(f)'  BY <1>1, <1>2, <1>3 DEF Reading, Missing
<1>5. disk'.offsets = disk.offsets \/ disk'.offsets = raw[g]
  <2>1. disk = [readable |-> disk.readable, offsets |-> disk.offsets]  BY DEF Memory, Shape
  <2>2. CASE WriteFill(g)  BY <2>2 DEF WriteFill
  <2>3. ASSUME NEW b, disk' = [disk EXCEPT !.readable = b] PROVE disk'.offsets = disk.offsets
    BY <2>1, <2>3
  <2> QED
    BY <2>2, <2>3 DEF SaverNext, CheckNothing, Check, Save, WriteOpen, WriteFails
<1>6. \A h \in Savers : raw'[h] = raw[h] \/ raw'[h] = infos \/ raw'[h] = NoOffsets
  <2>1. DOMAIN raw = Savers  BY DEF Memory, Shape
  <2>2. CASE UNCHANGED raw  BY <2>1, <2>2
  <2>3. CASE raw' = [raw EXCEPT ![g] = infos]  BY <2>1, <2>3
  <2>4. CASE raw' = [raw EXCEPT ![g] = NoOffsets]  BY <2>1, <2>4
  <2> QED
    BY <2>2, <2>3, <2>4 DEF SaverNext, CheckNothing, Check, Save, WriteOpen, WriteFill, WriteFails, saver
<1>7. restarts + 1 \in Nat  BY DEF Memory, TypeOK
<1>8. Few(Missing(f, OffsetsOf(infos, f)), restarts + 1)  BY InfosFew
<1>9. Few(Missing(f, OffsetsOf(NoOffsets, f)), restarts + 1)
  BY <1>7, NoneKnown, NoneMissing, FewNone
<1>10. Few(Missing(f, OffsetsOf(disk'.offsets, f)), restarts + 1)  BY <1>5 DEF Kept
<1>11. \A h \in Savers : Few(Missing(f, OffsetsOf(raw'[h], f)), restarts + 1)
  BY <1>6, <1>8, <1>9 DEF Kept
<1>12. Highest(f)' = Highest(f)  BY <1>1 DEF Highest
<1>13. Kept(f)'  BY <1>1, <1>10, <1>11, <1>12 DEF Kept, Missing
<1> QED  BY <1>4, <1>13

LEMMA SaverAlone ==
    ASSUME Memory, Alone, NEW g \in Savers, SaverNext(g)
    PROVE  Alone'
<1>1. run' = run /\ run = "up"
  BY DEF SaverNext, CheckNothing, Check, Save, WriteOpen, WriteFill, WriteFails, Calls, SaveAt
<1> SUFFICES ASSUME alone'
             PROVE  /\ \A h, k \in Savers : Saving(h)' /\ Saving(k)' => h = k
                    /\ \A h \in Savers : spc'[h] \in {"write", "fill"} => lastRaw' = <<raw'[h]>>
                    /\ \A h \in Savers : spc'[h] = "fill" => ~overwritten'[h]
                    /\ lastRaw' # <<>> /\ (\A h \in Savers : spc'[h] \notin {"write", "fill"}) =>
                           disk'.readable /\ lastRaw' = <<disk'.offsets>>
  BY DEF Alone
<1>2. alone
  BY DEF SaverNext, CheckNothing, Check, Save, WriteOpen, WriteFill, WriteFails, saver, Memory, TypeOK
<1>3. /\ \A h, k \in Savers : Saving(h) /\ Saving(k) => h = k
      /\ \A h \in Savers : spc[h] \in {"write", "fill"} => lastRaw = <<raw[h]>>
      /\ \A h \in Savers : spc[h] = "fill" => ~overwritten[h]
      /\ lastRaw # <<>> /\ (\A h \in Savers : spc[h] \notin {"write", "fill"}) =>
             disk.readable /\ lastRaw = <<disk.offsets>>
  BY <1>1, <1>2 DEF Alone
<1>4. spc \in [Savers -> {"off", "save", "write", "fill", "done"}] /\ DOMAIN raw = Savers
  BY DEF Memory, TypeOK, Shape
<1>5. CASE CheckNothing(g)
  BY <1>3, <1>5 DEF CheckNothing, saver, memory, Saving
<1>6. CASE Check(g)
  <2>1. /\ UNCHANGED <<lastRaw, disk, raw, overwritten>> /\ spc' = [spc EXCEPT ![g] = "save"]
        /\ \A h \in Savers : ~Saving(h)
    BY <1>6 DEF Check, SaveGoto, memory
  <2>2. spc'[g] = "save" /\ \A h \in Savers : h # g => spc'[h] = spc[h]  BY <1>4, <2>1
  <2>3. \A h \in Savers : spc[h] \notin {"save", "write", "fill"}  BY <2>1 DEF Saving
  <2>4. \A h \in Savers : spc'[h] \notin {"write", "fill"} /\ (Saving(h)' => h = g)
    BY <2>2, <2>3 DEF Saving
  <2> QED  BY <1>3, <2>1, <2>3, <2>4
<1>7. CASE Save(g)
  <2>1. /\ spc[g] = "save" /\ lastRaw' = <<infos>> /\ raw' = [raw EXCEPT ![g] = infos]
        /\ spc' = [spc EXCEPT ![g] = "write"]
    BY <1>7 DEF Save, SaveAt, SaveGoto
  <2>2. spc'[g] = "write" /\ raw'[g] = infos /\ \A h \in Savers : h # g => spc'[h] = spc[h]
    BY <1>4, <2>1
  <2>3. \A h \in Savers : h # g => ~Saving(h)  BY <1>3, <2>1 DEF Saving
  <2>4. \A h \in Savers : Saving(h)' => h = g  BY <2>2, <2>3 DEF Saving
  <2>5. \A h \in Savers : spc'[h] \in {"write", "fill"} => h = g  BY <2>4 DEF Saving
  <2> QED  BY <2>1, <2>2, <2>4, <2>5
<1>8. CASE WriteOpen(g)
  <2>1. /\ spc[g] = "write" /\ UNCHANGED <<lastRaw, raw>> /\ overwritten' = [h \in Savers |-> FALSE]
        /\ spc' = [spc EXCEPT ![g] = "fill"]
    BY <1>8 DEF WriteOpen, SaveAt, SaveGoto, memory
  <2>2. spc'[g] = "fill" /\ \A h \in Savers : h # g => spc'[h] = spc[h]  BY <1>4, <2>1
  <2>3. \A h \in Savers : h # g => ~Saving(h)  BY <1>3, <2>1 DEF Saving
  <2>4. \A h \in Savers : Saving(h)' => h = g  BY <2>2, <2>3 DEF Saving
  <2>5. \A h \in Savers : spc'[h] \in {"write", "fill"} => h = g  BY <2>4 DEF Saving
  <2>6. lastRaw' = <<raw'[g]>>  BY <1>3, <2>1
  <2>7. \A h \in Savers : ~overwritten'[h]  BY <2>1
  <2> QED  BY <2>2, <2>4, <2>5, <2>6, <2>7
<1>9. CASE WriteFill(g)
  <2>1. /\ spc[g] = "fill" /\ UNCHANGED lastRaw /\ spc' = [spc EXCEPT ![g] = "off"]
    BY <1>9 DEF WriteFill, SaveAt, SaveGoto, memory
  <2>2. PICK clean \in BOOLEAN : /\ clean \/ (overwritten[g] /\ (disk.readable => More(disk.offsets, raw[g])))
                                 /\ disk' = [readable |-> clean, offsets |-> raw[g]]
    BY <1>9 DEF WriteFill
  <2>3. clean  BY <1>3, <2>1, <2>2
  <2>4. disk'.readable /\ disk'.offsets = raw[g]  BY <2>2, <2>3
  <2>5. lastRaw' = <<raw[g]>>  BY <1>3, <2>1
  <2>6. spc'[g] = "off" /\ \A h \in Savers : h # g => spc'[h] = spc[h]  BY <1>4, <2>1
  <2>7. \A h \in Savers : h # g => ~Saving(h)  BY <1>3, <2>1 DEF Saving
  <2>8. \A h \in Savers : ~Saving(h)'  BY <2>6, <2>7 DEF Saving
  <2>9. \A h \in Savers : spc'[h] \notin {"write", "fill"}  BY <2>8 DEF Saving
  <2> QED  BY <2>4, <2>5, <2>8, <2>9
<1>10. CASE WriteFails(g)  BY <1>10 DEF WriteFails
<1> QED  BY <1>5, <1>6, <1>7, <1>8, <1>9, <1>10 DEF SaverNext

-----------------------------------------------------------------------------
\* Time, the files, and the process.
LEMMA TimePasses ==
    ASSUME IInv, IntervalOver \/ \E f \in Files : Grow(f)
    PROVE  IInv'
<1>1. /\ UNCHANGED <<run, restarts, infos, lastRaw, disk, rpc, pos, spc, raw, overwritten, alone, sent, passed>>
      /\ size' \in [Files -> Nat] /\ elapsed' \in BOOLEAN
  <2>1. CASE IntervalOver
    BY <2>1 DEF IntervalOver, reader, saver, history, IInv, Memory, TypeOK
  <2>2. ASSUME NEW f \in Files, Grow(f)
        PROVE  /\ UNCHANGED <<run, restarts, memory, disk, reader, saver, history>>
               /\ size' \in [Files -> Nat]
    BY <2>2 DEF Grow, IInv, Memory, TypeOK
  <2> QED  BY <2>1, <2>2 DEF memory, reader, saver, history, IInv, Memory, TypeOK
<1>2. Memory'
  <2>1. TypeOK'  BY <1>1 DEF IInv, Memory, TypeOK
  <2>2. Stopped' /\ Called' /\ Shape'  BY <1>1 DEF IInv, Memory, Stopped, Called, Saving, Shape
  <2> QED  BY <2>1, <2>2 DEF Memory
<1>3. Alone'  BY <1>1 DEF IInv, Alone, Saving
<1>4. ASSUME NEW f \in Files PROVE Kept(f)' /\ (run' = "up" => Reading(f)')
  <2>1. Kept(f) /\ (run = "up" => Reading(f))  BY DEF IInv
  <2>2. Kept(f)'  BY <1>1, <2>1 DEF Kept, Missing, Highest
  <2>3. run' = "up" => Reading(f)'  BY <1>1, <2>1 DEF Reading, DoneWith, Missing
  <2> QED  BY <2>2, <2>3
<1> QED  BY <1>2, <1>3, <1>4 DEF IInv

LEMMA Ends == ASSUME IInv, End PROVE IInv'
<1>1. /\ UNCHANGED <<size, restarts, disk, sent, passed>> /\ run' = "down"
      /\ infos' = NoOffsets /\ rpc' = [f \in Files |-> "open"]
      /\ lastRaw' = <<>> /\ elapsed' = TRUE /\ pos' = [f \in Files |-> 0]
      /\ spc' = [g \in Savers |-> "off"] /\ raw' = [g \in Savers |-> NoOffsets]
      /\ overwritten' = [g \in Savers |-> FALSE] /\ alone' = TRUE
  BY DEF End, Fresh, history
<1>2. TypeOK'  BY <1>1, NoneKnown DEF IInv, Memory, TypeOK
<1>3. Stopped'  BY <1>1 DEF Stopped
<1>4. Called'  BY <1>1 DEF Called, Saving, Savers
<1>5. Shape'
  <2>1. DOMAIN raw' = Savers  BY <1>1
  <2> QED  BY <1>1, <2>1 DEF IInv, Memory, Shape
<1>6. Alone'  BY <1>1 DEF Alone
<1>7. ASSUME NEW f \in Files PROVE Kept(f)'
  <2>1. restarts + 1 \in Nat  BY DEF IInv, Memory, TypeOK
  <2>2. \A g \in Savers : OffsetsOf(raw'[g], f) = 0  BY <1>1, NoneKnown
  <2>3. 1..0 \ (sent[f] \cup passed[f]) = {}  OBVIOUS
  <2>4. \A g \in Savers : Few(1..OffsetsOf(raw'[g], f) \ (sent[f] \cup passed[f]), restarts + 1)
    BY <2>1, <2>2, <2>3, FewNone
  <2> QED  BY <1>1, <2>4 DEF IInv, Kept, Missing, Highest
<1> QED  BY <1>1, <1>2, <1>3, <1>4, <1>5, <1>6, <1>7 DEF IInv, Memory

LEMMA Restarts == ASSUME IInv, Restart PROVE IInv'
<1>1. /\ UNCHANGED <<size, lastRaw, elapsed, disk, rpc, pos, spc, raw, overwritten, alone, sent, passed>>
      /\ run = "down" /\ restarts' = restarts + 1 /\ restarts \in Nat
      /\ \/ run' = "up" /\ infos' = disk.offsets
         \/ run' = "idle" /\ infos' = infos
  BY DEF Restart, reader, saver, history, IInv, Memory, TypeOK
<1>2. /\ \A f \in Files : rpc[f] = "open"
      /\ \A g \in Savers : spc[g] = "off"
      /\ lastRaw = <<>> /\ infos = NoOffsets
  BY <1>1 DEF IInv, Memory, Stopped
<1>3. Memory'
  <2>1. TypeOK'  BY <1>1 DEF IInv, Memory, TypeOK
  <2>2. Stopped'  BY <1>1, <1>2 DEF Stopped
  <2>3. Called' /\ Shape'  BY <1>1 DEF IInv, Memory, Called, Saving, Shape
  <2> QED  BY <2>1, <2>2, <2>3 DEF Memory
<1>4. Alone'  BY <1>1, <1>2 DEF Alone, Saving
<1>5. ASSUME NEW f \in Files PROVE Kept(f)' /\ (run' = "up" => Reading(f)')
  <2>1. Kept(f)  BY DEF IInv
  <2>2. ASSUME NEW n, NEW m \in Nat, Few(Missing(f, n), m)
        PROVE  Few(1..n \ (sent'[f] \cup passed'[f]), m + 1)
    <3>1. m + 1 \in Nat /\ m <= m + 1  OBVIOUS
    <3> QED  BY <1>1, <2>2, <3>1, FewStay
  <2>3. restarts' \in Nat /\ restarts + 1 \in Nat  BY <1>1
  <2>4. Kept(f)'
    <3>1. Few(Missing(f, OffsetsOf(disk.offsets, f)), restarts + 1)'
      BY <1>1, <2>1, <2>2, <2>3 DEF Kept, Missing
    <3>2. \A g \in Savers : Few(Missing(f, OffsetsOf(raw[g], f)), restarts + 1)'
      BY <1>1, <2>1, <2>2, <2>3 DEF Kept, Missing
    <3>3. Few(Missing(f, Highest(f)), restarts)'
      BY <1>1, <2>1, <2>2, <2>3 DEF Kept, Missing, Highest
    <3> QED  BY <1>1, <2>1, <3>1, <3>2, <3>3 DEF Kept
  <2>5. ASSUME run' = "up" PROVE Reading(f)'
    <3>1. infos' = disk.offsets  BY <1>1, <2>5
    <3>2. Few(Missing(f, OffsetsOf(infos, f)), restarts)'
      BY <1>1, <2>1, <3>1 DEF Kept, Missing
    <3> QED  BY <1>1, <1>2, <3>2 DEF Reading
  <2> QED  BY <2>4, <2>5
<1> QED  BY <1>3, <1>4, <1>5 DEF IInv

-----------------------------------------------------------------------------
\* The process, its readers and its savers keep the invariant.
THEOREM Invariance == Spec => []IInv
<1>1. IInv /\ [Next]_vars => IInv'
  <2> SUFFICES ASSUME IInv, [Next]_vars PROVE IInv'
    OBVIOUS
  <2>1. Memory /\ Alone /\ \A f \in Files : Kept(f) /\ (run = "up" => Reading(f))
    BY DEF IInv
  <2>2. CASE UNCHANGED vars
    <3>1. UNCHANGED <<size, run, restarts, infos, lastRaw, elapsed, disk, rpc, pos, spc, raw,
                      overwritten, alone, sent, passed>>
      BY <2>2 DEF vars, memory, reader, saver, history
    <3>2. TypeOK'  BY <2>1, <3>1 DEF Memory, TypeOK
    <3>3. Stopped' /\ Called' /\ Shape'  BY <2>1, <3>1 DEF Memory, Stopped, Called, Saving, Shape
    <3>4. Alone'  BY <2>1, <3>1 DEF Alone, Saving
    <3>5. \A f \in Files : Kept(f)' /\ (run' = "up" => Reading(f)')
      BY <2>1, <3>1 DEF Kept, Reading, DoneWith, Missing, Highest
    <3> QED  BY <3>2, <3>3, <3>4, <3>5 DEF IInv, Memory
  <2>3. ASSUME NEW f \in Files, ReaderNext(f) PROVE IInv'
    <3>1. run = "up" /\ run' = "up"  BY <2>3 DEF ReaderNext, Open, Read, Send, ReadAt
    <3>2. Memory' /\ Alone'  BY <2>1, <2>3, <3>1, ReaderTypes
    <3>3. ASSUME NEW h \in Files PROVE Kept(h)' /\ Reading(h)'
      <4>1. CASE h = f  BY <2>1, <2>3, <3>1, <4>1, ReaderKeeps
      <4>2. CASE h # f  BY <2>1, <2>3, <3>1, <4>2, OtherReader
      <4> QED  BY <4>1, <4>2
    <3> QED  BY <3>2, <3>3 DEF IInv
  <2>4. ASSUME NEW g \in Savers, SaverNext(g) PROVE IInv'
    <3>1. run = "up"
      BY <2>4 DEF SaverNext, CheckNothing, Check, Save, WriteOpen, WriteFill, WriteFails, Calls, SaveAt
    <3>2. Memory' /\ Alone'  BY <2>1, <2>4, SaverMemory, SaverAlone
    <3>3. \A f \in Files : Kept(f)' /\ Reading(f)'  BY <2>1, <2>4, <3>1, <3>2, SaverKeeps
    <3> QED  BY <3>2, <3>3 DEF IInv
  <2> QED  BY <2>2, <2>3, <2>4, TimePasses, Ends, Restarts DEF Next
<1> QED  BY <1>1, InitInv, PTL DEF Spec

\* Every variable of the process, the database and its savers keeps its type.
THEOREM TypeCorrect == Spec => []TypeOK
<1>1. IInv => TypeOK  BY DEF IInv, Memory
<1> QED  BY <1>1, Invariance, PTL

\* An offset, on disk or on its way there, is never ahead of what was sent by more
\* than one line for each start of the process (flie_input.go:196-198).
THEOREM OffsetsAreBehind == Spec => []SavedNotAhead
<1>1. IInv => SavedNotAhead
  <2> SUFFICES ASSUME IInv, NEW f \in Files, NEW r \in {disk.offsets, infos} \cup Range(raw)
               PROVE  Cardinality(Missing(f, OffsetsOf(r, f))) <= restarts + 1
    BY DEF SavedNotAhead
  <2>1. Memory /\ Kept(f) /\ (run = "up" => Reading(f))  BY DEF IInv
  <2>2. CASE r = disk.offsets  BY <2>1, <2>2 DEF Kept, Few
  <2>3. CASE r = infos  BY <2>1, <2>3, InfosFew DEF Few
  <2>4. CASE r \in Range(raw)
    <3>1. PICK g \in Savers : r = raw[g]  BY <2>1, <2>4 DEF Range, Memory, Shape
    <3> QED  BY <2>1, <3>1 DEF Kept, Few
  <2> QED  BY <2>2, <2>3, <2>4
<1> QED  BY <1>1, Invariance, PTL

\* Of the lines before one that was sent, each end of the process costs at most one of
\* those a reader with an offset loses, whatever the savers did. What a reader without
\* an offset passes over, when the process ended before a save, is not counted.
THEOREM LossIsBounded == Spec => []LossBounded
<1>1. IInv => LossBounded  BY DEF IInv, Kept, Few, LossBounded
<1> QED  BY <1>1, Invariance, PTL

\* What lastRaw says was saved is on disk, unless a saver still writes, two of them
\* were active together or a write failed (sincedb.go:65-67).
THEOREM LastRawIsSaved == Spec => []SavedWhenAlone
<1>1. IInv => SavedWhenAlone
  <2> SUFFICES ASSUME IInv, run = "up", alone, lastRaw # <<>>, \A g \in Savers : ~Saving(g)
               PROVE  disk.readable /\ lastRaw = <<disk.offsets>>
    BY DEF SavedWhenAlone
  <2>1. \A g \in Savers : spc[g] \notin {"write", "fill"}  BY DEF Saving
  <2> QED  BY <2>1 DEF IInv, Alone
<1> QED  BY <1>1, Invariance, PTL

=============================================================================

--------------------------- MODULE LogRotatorProofs ---------------------------
(***************************************************************************)
(* Proofs about LogRotator, for every MaximumSize and every largest        *)
(* packet: the size of the log file stays within its limits, and the newest *)
(* packets are in it.                                                      *)
(***************************************************************************)
EXTENDS LogRotator, SequenceFacts

LEMMA LimitNat == Limit \in Nat /\ Limit >= MaximumSize /\ MaximumSize \in Nat /\ Largest \in Nat
  BY SizeAssumption, LargestAssumption DEF Limit

\* What the clears that failed allow: one limit each.
LEMMA OneMore ==
    ASSUME NEW k \in Nat
    PROVE  /\ k * Limit \in Nat
           /\ (k + 1) * Limit = k * Limit + Limit
  BY LimitNat

LEMMA ZeroMore == 0 * Limit = 0 /\ (0 + 1) * Limit = Limit
  BY LimitNat

LEMMA EmptyContents == Empty \in Contents /\ Empty.size = 0
<1>1. <<>> \in Seq(Nat \ {0})  OBVIOUS
<1> QED  BY <1>1 DEF Empty, Contents

LEMMA InitIInv == Init => IInv
<1> SUFFICES ASSUME Init PROVE IInv
  OBVIOUS
<1>1. TypeOK
  <2>1. packet \in [n : Nat, length : Nat]  BY DEF Init, NoPacket
  <2> QED  BY <2>1, EmptyContents DEF Init, TypeOK
<1>2. FileBounded  BY ZeroMore, LimitNat DEF Init, FileBounded, Empty
<1> QED  BY <1>1, <1>2 DEF Init, IInv

-----------------------------------------------------------------------------
\* One lemma for each group of actions.

LEMMA OpenStep == IInv /\ (OpenWriter \/ OpenFails) => IInv'
<1> SUFFICES ASSUME IInv, OpenWriter \/ OpenFails PROVE IInv'
  OBVIOUS
<1>1. TypeOK /\ FileBounded /\ wpc = "ready" /\ UNCHANGED <<file, wpc, packet, given, dropped, fails, restarts, turns>>
  BY DEF IInv, OpenWriter, OpenFails, history
<1>2. FileBounded'  BY <1>1 DEF FileBounded
<1>3. CASE OpenWriter
  <2>1. exists' = TRUE /\ proc' = "up" /\ writer' = TRUE /\ currentSize' = file.size /\ detached' = FALSE /\ old' = Empty
    BY <1>3 DEF OpenWriter
  <2>2. TypeOK'  BY <1>1, <2>1, EmptyContents DEF TypeOK, Contents
  <2>3. file.size \in Nat /\ fails * Limit \in Nat  BY <1>1, OneMore DEF TypeOK, Contents
  <2>4. (writer /\ ~detached => file.size <= currentSize + fails * Limit)'
    BY <1>1, <2>1, <2>3
  <2> QED  BY <1>1, <1>2, <2>2, <2>4 DEF IInv
<1>4. CASE OpenFails
  <2>1. exists' \in {exists, TRUE} /\ proc' = "up" /\ writer' = FALSE /\ UNCHANGED <<currentSize, detached, old>>
    BY <1>4 DEF OpenFails
  <2>2. exists' \in BOOLEAN  BY <1>1, <2>1 DEF TypeOK
  <2>3. TypeOK'  BY <1>1, <2>1, <2>2 DEF TypeOK
  <2> QED  BY <1>1, <1>2, <2>1, <2>3 DEF IInv
<1> QED  BY <1>3, <1>4

LEMMA TakeStep ==
    ASSUME IInv, NilPanic \/ \E n \in 1..Largest : TakePacket(n)
    PROVE  IInv'
<1> USE DEF IInv, TypeOK, disk, FileBounded
<1>1. CASE NilPanic  BY <1>1 DEF NilPanic
<1>2. ASSUME NEW n \in 1..Largest, TakePacket(n) PROVE IInv'
  <2>1. n \in Nat  BY LimitNat
  <2> QED  BY <1>2, <2>1, LimitNat DEF TakePacket, Take, WriteAt
<1> QED  BY <1>1, <1>2

LEMMA ClearStep == IInv /\ (Clear \/ ClearFails) => IInv'
<1> SUFFICES ASSUME IInv, Clear \/ ClearFails PROVE IInv'
  OBVIOUS
<1> USE DEF IInv, TypeOK, Contents, WriteAt
<1>1. CASE Clear
  BY <1>1, ZeroMore, LimitNat, SizeAssumption DEF Clear, Empty, FileBounded
<1>2. CASE ClearFails
  <2>1. fails' = fails + 1 /\ currentSize' = 0 /\ UNCHANGED <<file, writer, detached>>
    BY <1>2 DEF ClearFails, disk
  <2>a. fails \in Nat /\ fails + 1 \in Nat  OBVIOUS
  <2>b. (fails + 1 + 1) * Limit = (fails + 1) * Limit + Limit /\ (fails + 1) * Limit \in Nat
    BY <2>a, OneMore
  <2>2. /\ (fails + 1) * Limit = fails * Limit + Limit
        /\ (fails + 1 + 1) * Limit = (fails + 1) * Limit + Limit
        /\ (fails + 1) * Limit \in Nat
    BY <2>a, <2>b, OneMore
  <2>3. file.size <= (fails + 1) * Limit  BY DEF FileBounded
  <2>4. FileBounded'
    BY <2>1, <2>2, <2>3, LimitNat DEF FileBounded
  <2>5. (writer /\ ~detached => file.size <= currentSize + fails * Limit)'
    BY <2>1, <2>2, <2>3
  <2>6. /\ UNCHANGED <<exists, old, proc, given, restarts, turns>>
        /\ wpc' = "ready" /\ packet' = NoPacket /\ dropped' = dropped \cup {packet.n}
        /\ packet.n \in Nat \ {0}
    BY <1>2 DEF ClearFails, Returns, NotWritten, disk
  <2>7. dropped' \subseteq Nat \ {0}  BY <2>6
  <2>8. TypeOK'  BY <2>a, <2>1, <2>6, <2>7 DEF NoPacket
  <2> QED  BY <2>4, <2>5, <2>6, <2>8
<1> QED  BY <1>1, <1>2

\* What AppendPacket and AppendFails do to the sizes: k bytes are added.
LEMMA GrowStep ==
    ASSUME IInv, WriteAt("append"), NEW k \in 0..Largest, NEW s \in Seq(Nat \ {0}),
           TargetBecomes([size |-> Target.size + k, packets |-> s]),
           currentSize' = currentSize + k,
           UNCHANGED <<detached, writer, fails>>
    PROVE  /\ file' \in Contents /\ old' \in Contents /\ currentSize' \in Nat
           /\ (writer /\ ~detached => file.size <= currentSize + fails * Limit)'
           /\ FileBounded'
<1>1. k \in Nat /\ k <= Largest /\ fails * Limit \in Nat /\ (fails + 1) * Limit = fails * Limit + Limit
  <2>1. fails \in Nat  BY DEF IInv, TypeOK
  <2>2. k \in Nat /\ k <= Largest  BY LargestAssumption
  <2> QED  BY <2>1, <2>2, OneMore, LimitNat
<1> USE DEF IInv, TypeOK, Contents, TargetBecomes, Target, WriteAt
<1>2. CASE detached
  BY <1>1, <1>2 DEF FileBounded
<1>3. CASE ~detached
  <2>1. file'.size = file.size + k /\ file' \in Contents /\ old' = old  BY <1>1, <1>3
  <2>2. file.size <= currentSize + fails * Limit  BY <1>3
  <2>3. currentSize <= MaximumSize - 1  BY LimitNat
  <2>4. file'.size <= fails * Limit + Limit
    BY <1>1, <2>1, <2>2, <2>3, LimitNat DEF Limit
  <2>5. FileBounded'  BY <1>1, <2>4 DEF FileBounded
  <2>6. (writer /\ ~detached => file.size <= currentSize + fails * Limit)'
    <3>1. file.size \in Nat /\ currentSize \in Nat /\ currentSize' = currentSize + k /\ fails' = fails
      OBVIOUS
    <3> HIDE DEF IInv, TypeOK, Contents, TargetBecomes, Target, WriteAt
    <3>2. file.size + k <= (currentSize + k) + fails * Limit  BY <1>1, <2>2, <3>1
    <3> QED  BY <2>1, <3>1, <3>2
  <2>7. currentSize' \in Nat  BY <1>1
  <2> QED  BY <2>1, <2>5, <2>6, <2>7
<1> QED  BY <1>2, <1>3

LEMMA AppendStep == IInv /\ (AppendPacket \/ AppendFails) => IInv'
<1> SUFFICES ASSUME IInv, AppendPacket \/ AppendFails PROVE IInv'
  OBVIOUS
<1>1. /\ TypeOK /\ WriteAt("append") /\ packet \in [n : Nat \ {0}, length : 1..Largest]
      /\ UNCHANGED <<exists, detached, proc, writer, given, fails, restarts, turns>>
      /\ wpc' = "ready" /\ packet' = NoPacket
      /\ dropped' = dropped \/ dropped' = dropped \cup {packet.n}
  BY DEF IInv, AppendPacket, AppendFails, WriteAt, Returns, Written, NotWritten
<1>2. Target.packets \in Seq(Nat \ {0})
  BY <1>1 DEF TypeOK, Target, Contents
<1>3. /\ file' \in Contents /\ old' \in Contents /\ currentSize' \in Nat
      /\ (writer /\ ~detached => file.size <= currentSize + fails * Limit)'
      /\ FileBounded'
  <2>1. CASE AppendPacket
    <3>1. packet.length \in 0..Largest  BY <1>1, LimitNat
    <3>2. Append(Target.packets, packet.n) \in Seq(Nat \ {0})  BY <1>1, <1>2
    <3> QED  BY <1>1, <2>1, <3>1, <3>2, GrowStep, Zenon DEF AppendPacket
  <2>2. CASE AppendFails
    <3>1. PICK k \in 0..packet.length - 1 :
             /\ TargetBecomes([size |-> Target.size + k, packets |-> Target.packets])
             /\ currentSize' = currentSize + k
      BY <2>2 DEF AppendFails
    <3>2. k \in 0..Largest  BY <1>1, <3>1, LimitNat
    <3> QED  BY <1>1, <1>2, <3>1, <3>2, GrowStep, Zenon
  <2> QED  BY <2>1, <2>2
<1>4. (exists \in BOOLEAN /\ dropped \subseteq Nat \ {0})'
  BY <1>1 DEF TypeOK
<1>5. TypeOK'
  BY <1>1, <1>3, <1>4 DEF TypeOK, NoPacket
<1> QED  BY <1>1, <1>3, <1>5 DEF IInv

\* The end of the process, and what others do to the file.
LEMMA TurnStep == IInv /\ (End \/ Move \/ Cut \/ Create) => IInv'
<1> SUFFICES ASSUME IInv, End \/ Move \/ Cut \/ Create PROVE IInv'
  OBVIOUS
<1>1. TypeOK /\ fails \in Nat  BY DEF IInv, TypeOK
<1>2. /\ fails * Limit \in Nat /\ (fails + 1) * Limit = fails * Limit + Limit
      /\ (fails + 1) * Limit \in Nat
  BY <1>1, OneMore, LimitNat
<1>3. CASE End
  <2>1. /\ UNCHANGED <<exists, file, given, fails, turns>> /\ restarts' = restarts + 1
        /\ proc' = "off" /\ writer' = FALSE /\ currentSize' = 0 /\ wpc' = "ready"
        /\ packet' = NoPacket /\ detached' = FALSE /\ old' = Empty
    BY <1>3 DEF End, Returns, disk
  <2>2. dropped' \subseteq Nat \ {0}  BY <1>3 DEF End, IInv, TypeOK
  <2>3. packet' \in [n : Nat, length : Nat]  BY <2>1 DEF NoPacket
  <2>4. (/\ exists \in BOOLEAN /\ file \in Contents
         /\ given \in Nat /\ fails \in Nat /\ restarts \in Nat /\ turns \in Nat)'
    BY <1>1, <2>1 DEF TypeOK
  <2>5. (/\ detached \in BOOLEAN /\ old \in Contents
         /\ proc \in {"off", "up", "panic"} /\ writer \in BOOLEAN /\ currentSize \in Nat
         /\ wpc \in {"ready", "clear", "append"})'
    BY <2>1, EmptyContents
  <2>6. TypeOK'  BY <2>2, <2>3, <2>4, <2>5 DEF TypeOK
  <2> QED  BY <2>1, <2>6, <1>2 DEF IInv, FileBounded
<1>4. CASE Move \/ Cut
  <2>1. /\ file' = Empty /\ turns' = turns + 1 /\ exists' \in {exists, FALSE}
        /\ UNCHANGED <<proc, writer, currentSize, wpc, packet, given, dropped, fails, restarts>>
    BY <1>4 DEF Move, Cut, Turn, output, history
  <2>2. detached' \in BOOLEAN /\ old' \in Contents
    BY <1>1, <1>4 DEF Move, Cut, TypeOK
  <2>3. exists' \in BOOLEAN  BY <1>1, <2>1 DEF TypeOK
  <2>4. TypeOK'  BY <1>1, <2>1, <2>2, <2>3, EmptyContents DEF TypeOK
  <2>5. currentSize \in Nat  BY <1>1 DEF TypeOK
  <2>6. (file.size <= currentSize + fails * Limit)' /\ FileBounded'
    BY <1>2, <2>1, <2>5, EmptyContents DEF FileBounded
  <2> QED  BY <2>1, <2>4, <2>6 DEF IInv
<1>5. CASE Create
  BY <1>5 DEF Create, output, history, IInv, TypeOK, FileBounded
<1> QED  BY <1>3, <1>4, <1>5

LEMMA StutterStep == IInv /\ UNCHANGED vars => IInv'
  BY DEF IInv, TypeOK, FileBounded, vars, disk, output, history

\* IInv holds throughout: currentSize has forgotten at most one limit for each
\* clear that failed, and no write follows a currentSize of MaximumSize.
THEOREM SizeInvariance == Spec => []IInv
<1>1. IInv /\ [Next]_vars => IInv'
  BY OpenStep, TakeStep, ClearStep, AppendStep, TurnStep, StutterStep, Zenon
     DEF Next, WriteNext
<1> QED  BY InitIInv, <1>1, PTL DEF Spec

\* Every variable has its type.
THEOREM RotatorTypeCorrect == Spec => []TypeOK
<1>1. IInv => TypeOK  BY DEF IInv
<1> QED  BY <1>1, SizeInvariance, PTL

\* The file is never larger than one limit, and one more for each clear in a row
\* that failed.
THEOREM FileIsBounded == Spec => []FileBounded
<1>1. IInv => FileBounded  BY DEF IInv
<1> QED  BY <1>1, SizeInvariance, PTL

\* Without a failed clear the writer never takes its file for smaller than it is.
THEOREM SizeIsKnown == Spec => []SizeKnown
<1>1. IInv => SizeKnown
  BY ZeroMore DEF IInv, TypeOK, Contents, SizeKnown
<1> QED  BY <1>1, SizeInvariance, PTL
-----------------------------------------------------------------------------
\* The packets in the file.

\* Packets are in p in their order; those behind the oldest of them, up to n, are
\* in it but for those in S.
KeepsNewest(p, n, S) ==
    /\ \A i \in 1..Len(p) - 1 : p[i] < p[i + 1]
    /\ p # <<>> => Head(p)..n \subseteq Range(p) \cup S

\* The invariant behind NewestKept: the packet in Write is the newest one and not in
\* the file yet, and a file that another one replaced is the writer's only file.
Newest ==
    /\ writer => proc = "up"
    /\ detached => writer /\ file = Empty
    /\ wpc = "ready" => packet.n = 0
    /\ wpc # "ready" => packet.n = given /\ given > 0
    /\ \A i \in 1..Len(Target.packets) :
          Target.packets[i] <= IF wpc = "ready" THEN given ELSE given - 1
    /\ KeepsNewest(Target.packets, IF wpc = "ready" THEN given ELSE given - 1, dropped)

LEMMA TargetType == ASSUME TypeOK PROVE Target \in Contents /\ Target.packets \in Seq(Msg)
  BY DEF TypeOK, Target, Contents, Msg

LEMMA NothingKept ==
    ASSUME NEW n, NEW S
    PROVE  KeepsNewest(<<>>, n, S)
  BY DEF KeepsNewest

\* More packets that Write reported keep what there is.
LEMMA KeptWithout ==
    ASSUME NEW p \in Seq(Msg), NEW n \in Nat, NEW S, NEW T, KeepsNewest(p, n, S), S \subseteq T
    PROVE  KeepsNewest(p, n, T)
  BY DEF KeepsNewest

\* So does the next packet if Write reported it.
LEMMA KeptUnlessDropped ==
    ASSUME NEW p \in Seq(Msg), NEW n \in Nat, NEW S, KeepsNewest(p, n, S), n + 1 \in S
    PROVE  KeepsNewest(p, n + 1, S)
<1>1. p # <<>> => Head(p) \in Nat  BY SeqTail DEF Msg
<1>2. ASSUME p # <<>>, NEW k \in Head(p)..n + 1
      PROVE  k \in Range(p) \cup S
  <2>1. k \in Head(p)..n \/ k = n + 1  BY <1>1, <1>2
  <2> QED  BY <1>2, <2>1 DEF KeepsNewest
<1> QED  BY <1>2 DEF KeepsNewest

\* And if it is appended.
LEMMA KeptAppended ==
    ASSUME NEW p \in Seq(Msg), NEW n \in Nat, NEW S, KeepsNewest(p, n, S),
           \A i \in 1..Len(p) : p[i] <= n
    PROVE  /\ KeepsNewest(Append(p, n + 1), n + 1, S)
           /\ \A i \in 1..Len(Append(p, n + 1)) : Append(p, n + 1)[i] <= n + 1
<1> DEFINE q == Append(p, n + 1)
<1>0. n + 1 \in Msg /\ Len(p) \in Nat  BY LenProperties DEF Msg
<1>1. /\ q \in Seq(Msg) /\ Len(q) = Len(p) + 1 /\ q[Len(p) + 1] = n + 1
      /\ \A k \in 1..Len(p) : q[k] = p[k]
      /\ Range(q) = Range(p) \cup {n + 1}
  BY <1>0, SeqAppend
<1>2. \A i \in 1..Len(p) : p[i] \in Nat  BY ElementOfSeq DEF Msg
<1>3. p # <<>> => Head(q) = Head(p) /\ Head(p) \in Nat
  <2>1. SUFFICES ASSUME p # <<>> PROVE Head(q) = Head(p) /\ Head(p) \in Nat
    OBVIOUS
  <2>2. Head(p) = p[1] /\ 1 \in 1..Len(p)  BY <2>1
  <2>3. Head(q) = q[1]  BY <1>1
  <2> QED  BY <1>1, <1>2, <2>2, <2>3
<1>4. p = <<>> => Head(q) = n + 1
  <2>1. p = <<>> => Len(p) = 0  OBVIOUS
  <2>2. Head(q) = q[1]  BY <1>1
  <2> QED  BY <1>1, <2>1, <2>2
<1> HIDE DEF q
<1>5. ASSUME NEW i \in 1..Len(q) - 1
      PROVE  q[i] < q[i + 1]
  <2>1. i \in 1..Len(p) /\ (i = Len(p) \/ i \in 1..Len(p) - 1)  BY <1>0, <1>1
  <2>2. CASE i = Len(p)  BY <1>0, <1>1, <1>2, <2>1, <2>2
  <2>3. CASE i \in 1..Len(p) - 1
    <3>1. i + 1 \in 1..Len(p)  BY <1>0, <2>3
    <3> QED  BY <1>1, <2>1, <2>3, <3>1 DEF KeepsNewest
  <2> QED  BY <2>1, <2>2, <2>3
<1>6. ASSUME NEW k \in Head(q)..n + 1
      PROVE  k \in Range(q) \cup S
  <2>1. CASE p = <<>>  BY <1>1, <1>4, <1>6, <2>1
  <2>2. CASE p # <<>>
    <3>1. k \in Head(p)..n \/ k = n + 1  BY <1>3, <1>6, <2>2
    <3> QED  BY <1>1, <2>2, <3>1 DEF KeepsNewest
  <2> QED  BY <2>1, <2>2
<1>7. \A i \in 1..Len(q) : q[i] <= n + 1
  <2>1. SUFFICES ASSUME NEW i \in 1..Len(q) PROVE q[i] <= n + 1
    OBVIOUS
  <2>2. i \in 1..Len(p) \/ i = Len(p) + 1  BY <1>0, <1>1
  <2> QED  BY <1>1, <1>2, <2>2
<1> QED  BY <1>5, <1>6, <1>7 DEF KeepsNewest, q

\* A step that leaves Write and the writer's file where they are, or empties it,
\* and may report packets.
LEMMA NewestFrame ==
    ASSUME TypeOK, Newest,
           UNCHANGED <<wpc, packet, given>>, dropped \subseteq dropped',
           \/ Target'.packets = Target.packets
           \/ Target'.packets = <<>>,
           writer' => proc' = "up",
           detached' => writer' /\ file' = Empty
    PROVE  Newest'
<1>1. Target.packets \in Seq(Msg) /\ given \in Nat  BY TargetType DEF TypeOK
<1> DEFINE n == IF wpc = "ready" THEN given ELSE given - 1
<1>2. n \in Nat /\ n' = n  BY <1>1 DEF Newest
<1>3. KeepsNewest(Target'.packets, n, dropped')
  <2>1. KeepsNewest(Target.packets, n, dropped)  BY DEF Newest
  <2>2. KeepsNewest(Target.packets, n, dropped')
    <3> HIDE DEF n
    <3> QED  BY <1>1, <1>2, <2>1, KeptWithout
  <2> QED  BY <2>2, NothingKept
<1>4. \A i \in 1..Len(Target'.packets) : Target'.packets[i] <= n
  <2>1. CASE Target'.packets = Target.packets  BY <2>1 DEF Newest
  <2>2. CASE Target'.packets = <<>>
    <3>1. Len(Target'.packets) = 0  BY <2>2
    <3> QED  BY <3>1
  <2> QED  BY <2>1, <2>2
<1> QED  BY <1>2, <1>3, <1>4 DEF Newest

\* Write returns without having written its packet.
LEMMA NewestReported ==
    ASSUME TypeOK, Newest, wpc # "ready", wpc' = "ready", packet'.n = 0,
           given' = given, dropped' = dropped \cup {packet.n},
           \/ Target'.packets = Target.packets
           \/ Target'.packets = <<>>,
           writer' => proc' = "up",
           detached' => writer' /\ file' = Empty
    PROVE  Newest'
<1>1. Target.packets \in Seq(Msg) /\ given \in Nat  BY TargetType DEF TypeOK
<1>2. packet.n = given /\ given - 1 \in Nat /\ (given - 1) + 1 = given  BY <1>1 DEF Newest
<1>3. CASE Target'.packets = Target.packets
  <2>1. KeepsNewest(Target.packets, given - 1, dropped)  BY DEF Newest
  <2>2. KeepsNewest(Target.packets, given - 1, dropped')  BY <1>1, <1>2, <2>1, KeptWithout
  <2>3. KeepsNewest(Target.packets, (given - 1) + 1, dropped')
    BY <1>1, <1>2, <2>2, KeptUnlessDropped
  <2>4. \A i \in 1..Len(Target.packets) : Target.packets[i] <= given
    <3>1. \A i \in 1..Len(Target.packets) : Target.packets[i] \in Nat /\ Target.packets[i] <= given - 1
      BY <1>1, ElementOfSeq DEF Newest, Msg
    <3> QED  BY <1>1, <3>1
  <2> QED  BY <1>2, <1>3, <2>3, <2>4 DEF Newest
<1>4. CASE Target'.packets = <<>>
  <2>1. Len(Target'.packets) = 0  BY <1>4
  <2> QED  BY <1>4, <2>1, NothingKept DEF Newest
<1> QED  BY <1>3, <1>4

LEMMA NewestOpenStep ==
    ASSUME IInv, Newest, OpenWriter \/ OpenFails
    PROVE  Newest'
<1>1. TypeOK /\ proc = "off"  BY DEF IInv, OpenWriter, OpenFails
<1>2. ~ writer /\ ~ detached  BY <1>1 DEF Newest
<1>3. Target = file  BY <1>2 DEF Target
<1>4. CASE OpenWriter
  <2>1. detached' = FALSE /\ file' = file  BY <1>4 DEF OpenWriter
  <2>2. Target' = Target  BY <1>3, <2>1 DEF Target
  <2> QED  BY <1>1, <1>4, <2>1, <2>2, NewestFrame DEF OpenWriter, history
<1>5. CASE OpenFails
  <2>1. detached' = detached /\ file' = file /\ old' = old  BY <1>5 DEF OpenFails
  <2>2. Target' = Target  BY <2>1 DEF Target
  <2> QED  BY <1>1, <1>2, <1>5, <2>1, <2>2, NewestFrame DEF OpenFails, history
<1> QED  BY <1>4, <1>5

LEMMA NewestTakeStep ==
    ASSUME IInv, Newest, NilPanic \/ \E n \in 1..Largest : TakePacket(n)
    PROVE  Newest'
<1>1. /\ TypeOK /\ given \in Nat /\ Target.packets \in Seq(Msg)
      /\ UNCHANGED <<file, old, detached, writer>>
  BY TargetType DEF IInv, TypeOK, NilPanic, TakePacket, Take, disk
<1>2. Target' = Target  BY <1>1 DEF Target
<1>3. CASE NilPanic
  <2>1. /\ ~ writer /\ given' = given + 1 /\ dropped' = dropped \cup {given + 1}
        /\ UNCHANGED <<wpc, packet>> /\ wpc = "ready"
    BY <1>3 DEF NilPanic, IInv
  <2>2. KeepsNewest(Target.packets, given, dropped)  BY <2>1 DEF Newest
  <2>3. KeepsNewest(Target.packets, given, dropped')  BY <1>1, <2>1, <2>2, KeptWithout
  <2>4. KeepsNewest(Target.packets, given + 1, dropped')
    BY <1>1, <2>1, <2>3, KeptUnlessDropped
  <2>5. \A i \in 1..Len(Target.packets) : Target.packets[i] <= given + 1
    <3>1. \A i \in 1..Len(Target.packets) : Target.packets[i] \in Nat /\ Target.packets[i] <= given
      BY <1>1, <2>1, ElementOfSeq DEF Newest, Msg
    <3> QED  BY <1>1, <3>1
  <2> QED  BY <1>1, <1>2, <2>1, <2>4, <2>5 DEF Newest
<1>4. ASSUME NEW n \in 1..Largest, TakePacket(n) PROVE Newest'
  <2>1. /\ wpc = "ready" /\ wpc' \in {"clear", "append"} /\ given' = given + 1
        /\ packet'.n = given + 1 /\ UNCHANGED <<dropped, proc>>
    BY <1>4 DEF TakePacket, Take, WriteAt
  <2>2. given' - 1 = given /\ given' > 0  BY <1>1, <2>1
  <2> QED  BY <1>1, <1>2, <2>1, <2>2 DEF Newest
<1> QED  BY <1>3, <1>4

LEMMA NewestClearStep ==
    ASSUME IInv, Newest, Clear \/ ClearFails
    PROVE  Newest'
<1>1. TypeOK /\ given \in Nat /\ Target.packets \in Seq(Msg)  BY TargetType DEF IInv, TypeOK
<1>2. wpc = "clear" /\ UNCHANGED <<detached, old, writer, proc, given>>
  BY DEF Clear, ClearFails, WriteAt
<1>3. CASE Clear
  <2>1. file' = Empty /\ wpc' = "append" /\ UNCHANGED <<packet, dropped>>  BY <1>3 DEF Clear
  <2>2. Target'.packets = Target.packets \/ Target'.packets = <<>>
    BY <1>2, <2>1 DEF Target, Empty
  <2>3. KeepsNewest(Target'.packets, given - 1, dropped)  BY <1>2, <2>2, NothingKept DEF Newest
  <2>4. \A i \in 1..Len(Target'.packets) : Target'.packets[i] <= given - 1
    <3>1. CASE Target'.packets = Target.packets  BY <1>2, <3>1 DEF Newest
    <3>2. CASE Target'.packets = <<>>
      <4>1. Len(Target'.packets) = 0  BY <3>2
      <4> QED  BY <4>1
    <3> QED  BY <2>2, <3>1, <3>2
  <2> QED  BY <1>2, <2>1, <2>3, <2>4 DEF Newest
<1>4. CASE ClearFails
  <2>1. /\ file' = file /\ dropped' = dropped \cup {packet.n} /\ wpc' = "ready" /\ packet'.n = 0
    BY <1>4 DEF ClearFails, NotWritten, Returns, NoPacket, disk
  <2>2. Target' = Target  BY <1>2, <2>1 DEF Target
  <2>3. (writer' => proc' = "up") /\ (detached' => writer' /\ file' = Empty)
    BY <1>2, <2>1 DEF Newest
  <2> QED  BY <1>1, <1>2, <2>1, <2>2, <2>3, NewestReported
<1> QED  BY <1>3, <1>4

LEMMA NewestAppendStep ==
    ASSUME IInv, Newest, AppendPacket \/ AppendFails
    PROVE  Newest'
<1>1. TypeOK /\ given \in Nat /\ Target.packets \in Seq(Msg)  BY TargetType DEF IInv, TypeOK
<1>2. /\ wpc = "append" /\ writer /\ UNCHANGED <<detached, writer, proc, given>>
      /\ wpc' = "ready" /\ packet'.n = 0
  BY DEF AppendPacket, AppendFails, WriteAt, Returns, NoPacket
<1>3. ASSUME NEW f, TargetBecomes(f)
      PROVE  Target' = f /\ (detached' => file' = Empty)
  BY <1>2, <1>3 DEF TargetBecomes, Target, Newest
<1>4. CASE AppendPacket
  <2>1. Target'.packets = Append(Target.packets, packet.n) /\ dropped' = dropped
        /\ (detached' => file' = Empty)
    BY <1>3, <1>4 DEF AppendPacket, Written
  <2>2. packet.n = (given - 1) + 1 /\ given - 1 \in Nat /\ (given - 1) + 1 = given
    BY <1>1, <1>2 DEF Newest
  <2>3. /\ KeepsNewest(Target.packets, given - 1, dropped)
        /\ \A i \in 1..Len(Target.packets) : Target.packets[i] <= given - 1
    BY <1>2 DEF Newest
  <2>4. /\ KeepsNewest(Append(Target.packets, (given - 1) + 1), (given - 1) + 1, dropped)
        /\ \A i \in 1..Len(Append(Target.packets, (given - 1) + 1)) :
              Append(Target.packets, (given - 1) + 1)[i] <= (given - 1) + 1
    BY <1>1, <2>2, <2>3, KeptAppended
  <2> QED  BY <1>2, <2>1, <2>2, <2>4 DEF Newest
<1>5. CASE AppendFails
  <2>1. PICK k \in 0..packet.length - 1 :
           TargetBecomes([size |-> Target.size + k, packets |-> Target.packets])
    BY <1>5 DEF AppendFails
  <2>2. Target'.packets = Target.packets /\ (detached' => file' = Empty)  BY <1>3, <2>1
  <2>3. dropped' = dropped \cup {packet.n}  BY <1>5 DEF AppendFails, NotWritten
  <2>4. (writer' => proc' = "up") /\ (detached' => writer' /\ file' = Empty)
    BY <1>2, <2>2 DEF Newest
  <2>5. packet'.n = 0 /\ wpc # "ready"  BY <1>2
  <2> QED  BY <1>1, <1>2, <2>2, <2>3, <2>4, <2>5, NewestReported
<1> QED  BY <1>4, <1>5

LEMMA NewestTurnStep ==
    ASSUME IInv, Newest, End \/ Move \/ Cut \/ Create
    PROVE  Newest'
<1>1. TypeOK /\ given \in Nat /\ Target.packets \in Seq(Msg)  BY TargetType DEF IInv, TypeOK
<1>2. CASE End
  <2>1. /\ writer' = FALSE /\ detached' = FALSE /\ UNCHANGED <<file, given>>
        /\ wpc' = "ready" /\ packet'.n = 0
        /\ dropped' = IF wpc = "ready" THEN dropped ELSE dropped \cup {packet.n}
    BY <1>2 DEF End, Returns, NoPacket, disk
  <2>2. Target'.packets = Target.packets \/ Target'.packets = <<>>
    BY <2>1 DEF Target, Newest, Empty
  <2>3. CASE wpc # "ready"  BY <1>1, <2>1, <2>2, <2>3, NewestReported
  <2>4. CASE wpc = "ready"
    <3>1. \A i \in 1..Len(Target'.packets) : Target'.packets[i] <= given
      <4>1. CASE Target'.packets = Target.packets  BY <2>4, <4>1 DEF Newest
      <4>2. CASE Target'.packets = <<>>
        <5>1. Len(Target'.packets) = 0  BY <4>2
        <5> QED  BY <5>1
      <4> QED  BY <2>2, <4>1, <4>2
    <3>2. KeepsNewest(Target'.packets, given, dropped)  BY <2>2, <2>4, NothingKept DEF Newest
    <3> QED  BY <2>1, <2>4, <3>1, <3>2 DEF Newest
  <2> QED  BY <2>3, <2>4
<1>3. CASE Move
  <2>1. /\ file' = Empty /\ UNCHANGED <<wpc, packet, given, dropped, writer, proc>>
        /\ IF writer /\ ~detached THEN detached' = TRUE /\ old' = file
                                  ELSE UNCHANGED <<detached, old>>
    BY <1>3 DEF Move, output, history
  <2>2. Target'.packets = Target.packets \/ Target'.packets = <<>>
    BY <2>1 DEF Target, Empty
  <2>3. detached' => writer' /\ file' = Empty  BY <2>1 DEF Newest
  <2> QED  BY <1>1, <2>1, <2>2, <2>3, NewestFrame DEF Newest
<1>4. CASE Cut \/ Create
  <2>1. /\ file' \in {file, Empty} /\ UNCHANGED <<detached, old, wpc, packet, given, dropped, writer, proc>>
    BY <1>4 DEF Cut, Create, output, history
  <2>2. Target'.packets = Target.packets \/ Target'.packets = <<>>
    BY <2>1 DEF Target, Empty
  <2> QED  BY <1>1, <2>1, <2>2, NewestFrame DEF Newest
<1> QED  BY <1>2, <1>3, <1>4

\* The newest packets are in the file, in their order, but those that Write
\* reported or the end of the process met in it, whatever others do to the file and
\* however often the process ends
\* (rotator.go:89-120; logr_output.go:61-73).
THEOREM NewestAreKept == Spec => []NewestKept
<1>1. Init => Newest
  <2>1. SUFFICES ASSUME Init PROVE Newest
    OBVIOUS
  <2>2. Target.packets = <<>> /\ Len(<<>>) = 0  BY <2>1 DEF Init, Target, Empty
  <2> QED  BY <2>1, <2>2, NothingKept DEF Init, Newest, NoPacket
<1>2. ASSUME IInv, Newest, [Next]_vars PROVE Newest'
  <2>1. CASE UNCHANGED vars
    <3>1. UNCHANGED <<file, old, detached, wpc, packet, given, dropped, writer, proc>>
      BY <2>1 DEF vars, disk, output, history
    <3>2. Target' = Target  BY <3>1 DEF Target
    <3> QED  BY <1>2, <3>1, <3>2, Zenon DEF Newest, KeepsNewest
  <2> QED  BY <1>2, <2>1, NewestOpenStep, NewestTakeStep, NewestClearStep, NewestAppendStep,
              NewestTurnStep DEF Next, WriteNext
<1>3. ASSUME IInv, Newest PROVE NewestKept
  <2> DEFINE p == Target.packets
  <2>1. p \in Seq(Msg) /\ given \in Nat  BY <1>3, TargetType DEF IInv, TypeOK
  <2>2. ASSUME p # <<>>, NEW k \in (Head(p)..given) \ {packet.n}
        PROVE  k \in Range(p) \cup dropped
    <3>1. Head(p) \in Nat  BY <2>1, <2>2, SeqTail DEF Msg
    <3>2. CASE wpc = "ready"  BY <1>3, <2>2, <3>2 DEF Newest, KeepsNewest
    <3>3. CASE wpc # "ready"
      <4>1. k \in Head(p)..given - 1  BY <1>3, <2>1, <2>2, <3>1, <3>3 DEF Newest
      <4> QED  BY <1>3, <2>2, <3>3, <4>1 DEF Newest, KeepsNewest
    <3> QED  BY <3>2, <3>3
  <2> QED  BY <1>3, <2>2 DEF NewestKept, Newest, KeepsNewest
<1> QED  BY <1>1, <1>2, <1>3, SizeInvariance, PTL DEF Spec

=============================================================================

---------------------------- MODULE FileTailProofs ----------------------------
(***************************************************************************)
(* Proofs about FileTail, for any number of files, of bytes, truncations   *)
(* and events: what a reader makes of its file, and that it is woken.      *)
(***************************************************************************)
EXTENDS FileTail, SequenceFacts

Event == [file : Files, op : {"Create", "Write"}]

\* What the loop of f has at each label: the watcher it waits on, the event it
\* passes on.
WatchOK(f) ==
    /\ wpc[f] = "add" => watching[f] = f
    /\ wpc[f] = "wait" => watching[f] \in Files
    /\ wpc[f] = "send" => hand[f] # <<>>
Watching == \A f \in Files : WatchOK(f)

LEMMA InitTypes == Init => TypeOK
<1> SUFFICES ASSUME Init PROVE TypeOK
  OBVIOUS
<1>1. <<>> \in Seq(Nat) /\ <<>> \in Seq(Seq(Nat)) /\ <<>> \in Seq(Event)
      /\ <<>> \in Seq({"Create", "Write"})
  BY EmptySeq
<1>2. PICK size \in [Files -> Sizes] :
          /\ file = [f \in Files |-> [i \in 1..size[f] |-> i]]
          /\ appended = size
          /\ torn = [f \in Files |-> ~IsNewline(size[f])]
  BY DEF Init
<1>3. size \in [Files -> Nat]  BY SizesAssumption
<1>4. ASSUME NEW n \in Nat PROVE [i \in 1..n |-> i] \in Seq(Nat)
  BY IsASeq
<1>5. file \in [Files -> Seq(Nat)]  BY <1>2, <1>3, <1>4
<1>6. since \in [Files -> Nat]  BY SizesAssumption DEF Init
<1>7. torn \in [Files -> BOOLEAN]  BY <1>2
<1>8. /\ exists \in [Files -> BOOLEAN] /\ detached \in [Files -> BOOLEAN]
      /\ missed \in [Files -> BOOLEAN] /\ stolen \in [Files -> BOOLEAN]
  BY DEF Init
<1>9. /\ turns \in [Files -> Nat] /\ pos \in [Files -> Nat] /\ appended \in [Files -> Nat]
      /\ rpc \in [Files -> {"open", "read", "send", "event", "done"}]
      /\ wpc \in [Files -> {"lookup", "create", "add", "wait", "send", "done"}]
      /\ watching \in [Files -> Files \cup {NoWatcher}] /\ watcher \in Files \cup {NoWatcher}
      /\ active \subseteq Files
  BY <1>2, <1>3 DEF Init
<1>10. /\ buf \in [Files -> Seq(Nat)] /\ line \in [Files -> Seq(Nat)]
       /\ old \in [Files -> Seq(Nat)]
       /\ sent \in [Files -> Seq(Seq(Nat))] /\ out \in [Files -> Seq(Nat)]
       /\ queue \in [Files -> Seq(Event)]
       /\ hand \in [Files -> Seq({"Create", "Write"})]
       /\ eventChan \in [Files -> Seq({"Create", "Write"})]
  BY <1>1 DEF Init
<1> QED  BY <1>5, <1>6, <1>7, <1>8, <1>9, <1>10 DEF TypeOK, Event

-----------------------------------------------------------------------------
\* The buffer is cut behind its first newline.
LEMMA LineEndIn ==
    ASSUME NEW f \in Files, buf[f] \in Seq(Nat), HasLine(f)
    PROVE  /\ LineEnd(f) \in 1..Len(buf[f])
           /\ IsNewline(buf[f][LineEnd(f)])
           /\ \A i \in 1..Len(buf[f]) : IsNewline(buf[f][i]) => LineEnd(f) <= i
<1> DEFINE S == {i \in DOMAIN buf[f] : IsNewline(buf[f][i])}
<1>1. DOMAIN buf[f] = 1..Len(buf[f]) /\ Len(buf[f]) \in Nat  BY LenProperties
<1>2. S \subseteq Nat /\ S # {}  BY <1>1 DEF HasLine
<1>3. LineEnd(f) \in S /\ \A i \in S : LineEnd(f) <= i  BY <1>2, MinNat DEF LineEnd
<1> QED  BY <1>1, <1>3

LEMMA Cut ==
    ASSUME NEW s \in Seq(Nat), NEW e \in 0..Len(s)
    PROVE  /\ SubSeq(s, 1, e) \in Seq(Nat) /\ SubSeq(s, e + 1, Len(s)) \in Seq(Nat)
           /\ Len(SubSeq(s, 1, e)) = e /\ Len(SubSeq(s, e + 1, Len(s))) = Len(s) - e
           /\ \A i \in 1..e : SubSeq(s, 1, e)[i] = s[i]
           /\ \A i \in 1..Len(s) - e : SubSeq(s, e + 1, Len(s))[i] = s[e + i]
           /\ SubSeq(s, 1, e) \o SubSeq(s, e + 1, Len(s)) = s
<1>1. Len(s) \in Nat /\ \A i \in 1..Len(s) : s[i] \in Nat  BY LenProperties, ElementOfSeq
<1>2. /\ SubSeq(s, 1, e) \in Seq(Nat) /\ Len(SubSeq(s, 1, e)) = e
      /\ \A i \in 1..e : SubSeq(s, 1, e)[i] = s[i]
  <2>1. \A i \in 1..e : s[i] \in Nat  BY <1>1
  <2>2. 1 \in Int /\ e \in Int  BY <1>1
  <2>3. /\ SubSeq(s, 1, e) \in Seq(Nat)
        /\ Len(SubSeq(s, 1, e)) = IF 1 <= e THEN e - 1 + 1 ELSE 0
        /\ \A i \in 1..e - 1 + 1 : SubSeq(s, 1, e)[i] = s[1 + i - 1]
    BY <2>1, <2>2, SubSeqProperties
  <2> QED  BY <2>2, <2>3
<1>3. /\ SubSeq(s, e + 1, Len(s)) \in Seq(Nat)
      /\ Len(SubSeq(s, e + 1, Len(s))) = Len(s) - e
      /\ \A i \in 1..Len(s) - e : SubSeq(s, e + 1, Len(s))[i] = s[e + i]
  <2>1. \A i \in e + 1..Len(s) : s[i] \in Nat  BY <1>1
  <2>2. e + 1 \in Int /\ Len(s) \in Int /\ e \in Int  BY <1>1
  <2>3. /\ SubSeq(s, e + 1, Len(s)) \in Seq(Nat)
        /\ Len(SubSeq(s, e + 1, Len(s))) = IF e + 1 <= Len(s) THEN Len(s) - (e + 1) + 1 ELSE 0
        /\ \A i \in 1..Len(s) - (e + 1) + 1 : SubSeq(s, e + 1, Len(s))[i] = s[e + 1 + i - 1]
    BY <2>1, <2>2, SubSeqProperties
  <2> QED  BY <1>1, <2>2, <2>3
<1>4. SubSeq(s, 1, e) \o SubSeq(s, e + 1, Len(s)) = SubSeq(s, 1, Len(s))
  <2>1. 1 \in 1..Len(s) + 1 /\ e \in 1 - 1..Len(s) /\ Len(s) \in e..Len(s)  BY <1>1
  <2> QED  BY <2>1, ConcatAdjacentSubSeq
<1> QED  BY <1>2, <1>3, <1>4, SubSeqFull

LEMMA OpenAtIn ==
    ASSUME NEW f \in Files, since[f] \in Nat, file[f] \in Seq(Nat)
    PROVE  /\ OpenAt(f).offset \in Nat /\ OpenAt(f).position \in Nat
           /\ OpenAt(f).offset <= OpenAt(f).position
           /\ OpenAt(f).position <= Len(file[f])
<1>1. Len(file[f]) \in Nat  BY LenProperties
<1>2. CASE since[f] = 0
  <2>1. OpenAt(f) = [offset |-> 0, position |-> Len(file[f])]  BY <1>1, <1>2 DEF OpenAt
  <2> QED  BY <1>1, <2>1
<1>3. CASE since[f] > Len(file[f])
  <2>1. OpenAt(f) = [offset |-> 0, position |-> 0]  BY <1>1, <1>3 DEF OpenAt
  <2> QED  BY <1>1, <2>1
<1>4. CASE since[f] \in 1..Len(file[f])
  <2>1. OpenAt(f) = [offset |-> since[f], position |-> since[f]]  BY <1>1, <1>4 DEF OpenAt
  <2> QED  BY <1>1, <1>4, <2>1
<1> QED  BY <1>1, <1>2, <1>3, <1>4

LEMMA ReaderTypes ==
    ASSUME TypeOK, NEW f \in Files, ReaderNext(f)
    PROVE  TypeOK'
<1>1. UNCHANGED others  BY DEF ReaderNext, Open, OpenFails, Fill, TakeLine, Send, Eof, ReadFails, Reopen, Wake, NextEvent
<1>2. /\ file[f] \in Seq(Nat) /\ Len(file[f]) \in Nat /\ Content(f) \in Seq(Nat)
      /\ Len(Content(f)) \in Nat /\ buf[f] \in Seq(Nat) /\ <<>> \in Seq(Nat)
      /\ line[f] \in Seq(Nat) /\ out[f] \in Seq(Nat)
  BY LenProperties, EmptySeq DEF TypeOK, Content
<1>3. rpc' \in [Files -> {"open", "read", "send", "event", "done"}]
  BY DEF ReaderNext, Open, OpenFails, Fill, TakeLine, Send, Eof, ReadFails, Reopen, Wake, ReadGoto, TypeOK
<1>4. since' \in [Files -> Nat] /\ pos' \in [Files -> Nat]
  <2>1. CASE Open(f)
    <3>1. OpenAt(f).offset \in Nat /\ OpenAt(f).position \in Nat
      BY OpenAtIn DEF TypeOK
    <3> QED  BY <2>1, <3>1 DEF Open, TypeOK
  <2>2. CASE TakeLine(f)
    <3>1. LineEnd(f) \in Nat  BY <1>2, <2>2, LineEndIn DEF TakeLine
    <3>2. since' = [since EXCEPT ![f] = @ + LineEnd(f)] /\ pos' = pos  BY <2>2 DEF TakeLine
    <3> QED  BY <3>1, <3>2 DEF TypeOK
  <2>3. CASE Fill(f)  BY <1>2, <2>3 DEF Fill, TypeOK
  <2>4. CASE Reopen(f) \/ Wake(f)
    <3>1. CASE Rewind(f)  BY <3>1 DEF Rewind, TypeOK
    <3>2. CASE since' = [since EXCEPT ![f] = 0] /\ UNCHANGED pos  BY <3>2 DEF TypeOK
    <3>3. CASE UNCHANGED <<since, pos>>  BY <3>3 DEF TypeOK
    <3> QED  BY <2>4, <3>1, <3>2, <3>3 DEF Reopen, Wake
  <2>5. CASE OpenFails(f) \/ Send(f) \/ Eof(f) \/ ReadFails(f)
    BY <2>5 DEF OpenFails, Send, Eof, ReadFails, TypeOK
  <2> QED  BY <2>1, <2>2, <2>3, <2>4, <2>5 DEF ReaderNext
<1>5. buf' \in [Files -> Seq(Nat)] /\ line' \in [Files -> Seq(Nat)]
  <2>1. CASE Fill(f)
    <3>1. pos[f] \in 0..Len(Content(f))  BY <1>2, <2>1 DEF Fill, TypeOK
    <3>2. SubSeq(Content(f), pos[f] + 1, Len(Content(f))) \in Seq(Nat)  BY <1>2, <3>1, Cut
    <3>3. buf[f] \o SubSeq(Content(f), pos[f] + 1, Len(Content(f))) \in Seq(Nat)
      BY <1>2, <3>2, ConcatProperties
    <3> QED  BY <2>1, <3>3 DEF Fill, TypeOK
  <2>2. CASE TakeLine(f)
    <3>1. LineEnd(f) \in 0..Len(buf[f])  BY <1>2, <2>2, LineEndIn DEF TakeLine
    <3>2. /\ SubSeq(buf[f], 1, LineEnd(f)) \in Seq(Nat)
          /\ SubSeq(buf[f], LineEnd(f) + 1, Len(buf[f])) \in Seq(Nat)
      BY <1>2, <3>1, Cut
    <3> QED  BY <2>2, <3>2 DEF TakeLine, TypeOK
  <2>3. CASE Send(f)  BY <1>2, <2>3 DEF Send, TypeOK
  <2>4. CASE Eof(f)  BY <1>2, <2>4 DEF Eof, TypeOK
  <2>5. CASE Open(f) \/ OpenFails(f) \/ ReadFails(f) \/ Reopen(f) \/ Wake(f)
    BY <2>5 DEF Open, OpenFails, ReadFails, Reopen, Wake, NextEvent, TypeOK
  <2> QED  BY <2>1, <2>2, <2>3, <2>4, <2>5 DEF ReaderNext
<1>6. sent' \in [Files -> Seq(Seq(Nat))] /\ out' \in [Files -> Seq(Nat)]
  <2>1. CASE Send(f)
    <3>1. out[f] \o line[f] \in Seq(Nat)  BY <1>2, ConcatProperties
    <3>2. Append(sent[f], line[f]) \in Seq(Seq(Nat))  BY <1>2, AppendProperties DEF TypeOK
    <3> QED  BY <2>1, <3>1, <3>2 DEF Send, TypeOK
  <2>2. CASE UNCHANGED output  BY <2>2 DEF output, TypeOK
  <2> QED  BY <2>1, <2>2 DEF ReaderNext, Open, OpenFails, Fill, TakeLine, Eof, ReadFails, Reopen, Wake, NextEvent
<1>7. eventChan' \in [Files -> Seq({"Create", "Write"})]
  <2>1. CASE NextEvent(f)
    <3>1. Tail(eventChan[f]) \in Seq({"Create", "Write"})
      BY <2>1, HeadTailProperties DEF NextEvent, TypeOK
    <3> QED  BY <2>1, <3>1 DEF NextEvent, TypeOK
  <2>2. CASE UNCHANGED eventChan  BY <2>2 DEF TypeOK
  <2> QED  BY <2>1, <2>2 DEF ReaderNext, Open, OpenFails, Fill, TakeLine, Send, Eof, ReadFails, Reopen, Wake
<1>8. detached' \in [Files -> BOOLEAN] /\ old' \in [Files -> Seq(Nat)]
  <2>1. CASE Reopen(f)  BY <1>2, <2>1 DEF Reopen, TypeOK
  <2>2. CASE UNCHANGED <<detached, old>>  BY <2>2 DEF TypeOK
  <2> QED  BY <2>1, <2>2 DEF ReaderNext, Open, OpenFails, Fill, TakeLine, Send, Eof, ReadFails, Wake
<1> QED
  BY <1>1, <1>3, <1>4, <1>5, <1>6, <1>7, <1>8 DEF TypeOK, others, disk, watches, history

LEMMA WatcherTypes ==
    ASSUME TypeOK, Watching, NEW f \in Files, WatcherNext(f)
    PROVE  TypeOK'
<1>1. UNCHANGED notWatched
  BY DEF WatcherNext, WatchEnds, WatchLookup, WatchCreate, WatchAdd, WatchFails, WatchTake,
         WatchDrop, WatchPass
<1>2. wpc' \in [Files -> {"lookup", "create", "add", "wait", "send", "done"}]
  <2>1. ASSUME NEW l \in {"lookup", "create", "add", "wait", "send", "done"}, WatchGoto(f, l)
        PROVE  wpc' \in [Files -> {"lookup", "create", "add", "wait", "send", "done"}]
    BY <2>1 DEF WatchGoto, TypeOK
  <2>2. CASE UNCHANGED wpc  BY <2>2 DEF TypeOK
  <2> QED
    BY <2>1, <2>2 DEF WatcherNext, WatchEnds, WatchLookup, WatchCreate, WatchAdd, WatchFails,
                      WatchTake, WatchDrop, WatchPass, watches
<1>6. /\ watching' \in [Files -> Files \cup {NoWatcher}] /\ watcher' \in Files \cup {NoWatcher}
      /\ active' \subseteq Files /\ missed' \in [Files -> BOOLEAN]
  <2>1. CASE WatchLookup(f)  BY <2>1 DEF WatchLookup, history, TypeOK
  <2>2. CASE WatchCreate(f)  BY <2>2 DEF WatchCreate, TypeOK
  <2>3. CASE WatchAdd(f)  BY <2>3 DEF WatchAdd, history, TypeOK
  <2>4. CASE WatchEnds(f) \/ WatchFails(f) \/ WatchTake(f) \/ WatchDrop(f) \/ WatchPass(f)
    BY <2>4 DEF WatchEnds, WatchFails, WatchTake, WatchDrop, WatchPass, history, watches, TypeOK
  <2> QED  BY <2>1, <2>2, <2>3, <2>4 DEF WatcherNext
<1>3. stolen' \in [Files -> BOOLEAN]
  BY DEF WatcherNext, WatchEnds, WatchLookup, WatchCreate, WatchAdd, WatchFails, WatchTake,
         WatchDrop, WatchPass, history, TypeOK
<1>4. ASSUME NEW w, queue[w] # <<>>, w \in Files
      PROVE  /\ Tail(queue[w]) \in Seq(Event) /\ Head(queue[w]) \in Event
             /\ <<Head(queue[w]).op>> \in Seq({"Create", "Write"})
  <2>1. queue[w] \in Seq(Event)  BY <1>4 DEF TypeOK, Event
  <2>2. Tail(queue[w]) \in Seq(Event) /\ Head(queue[w]) \in Event
    BY <1>4, <2>1, HeadTailProperties
  <2> QED  BY <2>2 DEF Event
<1>5. queue' \in [Files -> Seq(Event)]
  <2>1. CASE UNCHANGED queue  BY <2>1 DEF TypeOK, Event
  <2>2. CASE queue' = [queue EXCEPT ![watching[f]] = Tail(queue[watching[f]])] /\ queue[watching[f]] # <<>>
    BY <1>4, <2>2 DEF TypeOK, Event
  <2> QED
    BY <2>1, <2>2 DEF WatcherNext, WatchEnds, WatchLookup, WatchCreate, WatchAdd, WatchFails,
                      WatchTake, WatchDrop, WatchPass
<1>7. /\ hand' \in [Files -> Seq({"Create", "Write"})]
      /\ eventChan' \in [Files -> Seq({"Create", "Write"})]
  <2>1. CASE UNCHANGED <<hand, eventChan>>  BY <2>1 DEF TypeOK
  <2>2. CASE WatchTake(f)
    <3>1. watching[f] \in Files  BY <2>2 DEF WatchTake, WatchAt, Watching, WatchOK
    <3> QED  BY <1>4, <2>2, <3>1 DEF WatchTake, TypeOK
  <2>3. CASE WatchPass(f)
    <3>1. <<>> \in Seq({"Create", "Write"})  BY EmptySeq
    <3>2. eventChan[f] \o hand[f] \in Seq({"Create", "Write"})
      BY ConcatProperties DEF TypeOK
    <3> QED  BY <2>3, <3>1, <3>2 DEF WatchPass, TypeOK
  <2> QED
    BY <2>1, <2>2, <2>3 DEF WatcherNext, WatchEnds, WatchLookup, WatchCreate, WatchAdd,
                            WatchFails, WatchDrop, watches
<1> QED  BY <1>1, <1>2, <1>3, <1>5, <1>6, <1>7 DEF TypeOK, Event, notWatched, reader, disk, output

LEMMA NotifyTypes ==
    ASSUME TypeOK, NEW f \in Files, NEW op \in {"Create", "Write"}, Notify(f, op)
    PROVE  /\ queue' \in [Files -> Seq(Event)]
           /\ missed' \in [Files -> BOOLEAN] /\ stolen' \in [Files -> BOOLEAN]
           /\ \A w \in Files :
                 \/ queue'[w] = queue[w]
                 \/ queue'[w] = Append(queue[w], [file |-> f, op |-> op])
<1> DEFINE e == [file |-> f, op |-> op]
           Merged(q) == q # <<>> /\ Last(q) = e
<1>1. PICK M \in SUBSET {w \in active : Merged(queue[w])} :
          queue' = [w \in Files |-> IF w \in active \ M THEN Append(queue[w], e) ELSE queue[w]]
  BY DEF Notify
<1>2. e \in Event  BY DEF Event
<1>3. \A w \in Files : queue[w] \in Seq(Event) /\ Append(queue[w], e) \in Seq(Event)
  BY <1>2, AppendProperties DEF TypeOK, Event
<1>4. queue' \in [Files -> Seq(Event)]  BY <1>1, <1>3
<1>5. missed' = [missed EXCEPT ![f] = ~Watched(f)] /\ stolen' = [stolen EXCEPT ![f] = FALSE]
  BY DEF Notify
<1>6. missed' \in [Files -> BOOLEAN] /\ stolen' \in [Files -> BOOLEAN]
  BY <1>5 DEF TypeOK
<1> QED  BY <1>1, <1>4, <1>6

\* The bytes an append adds.
LEMMA Grows ==
    ASSUME NEW a \in Nat, NEW n \in Nat, NEW s \in Seq(Nat)
    PROVE  /\ s \o [i \in 1..n |-> a + i] \in Seq(Nat)
           /\ Len(s \o [i \in 1..n |-> a + i]) = Len(s) + n
           /\ \A i \in 1..Len(s) : (s \o [j \in 1..n |-> a + j])[i] = s[i]
           /\ \A i \in 1..n : (s \o [j \in 1..n |-> a + j])[Len(s) + i] = a + i
<1> DEFINE t == [i \in 1..n |-> a + i]
<1>1. t \in Seq(Nat)  BY IsASeq
<1>2. Len(t) = n /\ \A i \in 1..n : t[i] = a + i
  <2>1. DOMAIN t = 1..n /\ DOMAIN t = 1..Len(t) /\ Len(t) \in Nat  BY <1>1, LenProperties
  <2> QED  BY <2>1
<1>3. Len(s) \in Nat  BY LenProperties
<1> HIDE DEF t
<1>4. /\ s \o t \in Seq(Nat) /\ Len(s \o t) = Len(s) + n
      /\ \A i \in 1..Len(s) + n : (s \o t)[i] = IF i <= Len(s) THEN s[i] ELSE t[i - Len(s)]
  BY <1>1, <1>2, ConcatProperties
<1>5. \A i \in 1..Len(s) : (s \o t)[i] = s[i]  BY <1>3, <1>4
<1>6. \A i \in 1..n : (s \o t)[Len(s) + i] = a + i
  <2> SUFFICES ASSUME NEW i \in 1..n PROVE (s \o t)[Len(s) + i] = a + i
    OBVIOUS
  <2>1. Len(s) + i \in 1..Len(s) + n /\ ~ (Len(s) + i <= Len(s)) /\ Len(s) + i - Len(s) = i
    BY <1>3
  <2> QED  BY <1>2, <1>4, <2>1
<1> QED  BY <1>4, <1>5, <1>6 DEF t

\* An event that is ignored is the first of a queue, and no more than that.
LEMMA IgnoredTypes ==
    ASSUME TypeOK, NEW w \in Files, EventIgnored(w)
    PROVE  /\ queue[w] \in Seq(Event) /\ Head(queue[w]) \in Event
           /\ queue' = [queue EXCEPT ![w] = Tail(queue[w])]
           /\ queue' \in [Files -> Seq(Event)] /\ missed' \in [Files -> BOOLEAN]
           /\ UNCHANGED <<disk, reader, detached, old, watches, eventChan, stolen>>
<1>1. queue[w] \in Seq(Event) /\ queue[w] # <<>>  BY DEF EventIgnored, TypeOK, Event
<1>2. Tail(queue[w]) \in Seq(Event) /\ Head(queue[w]) \in Event  BY <1>1, HeadTailProperties
<1>3. queue' = [queue EXCEPT ![w] = Tail(queue[w])]  BY DEF EventIgnored
<1>4. queue' \in [Files -> Seq(Event)]  BY <1>2, <1>3 DEF TypeOK, Event
<1>5. missed' \in [Files -> BOOLEAN]
  <2>1. missed' = [missed EXCEPT ![Head(queue[w]).file] = @ \/ Source(Head(queue[w]).file) = w]
    BY DEF EventIgnored
  <2> QED  BY <2>1 DEF TypeOK
<1> QED  BY <1>1, <1>2, <1>3, <1>4, <1>5 DEF EventIgnored, notWatched

LEMMA DiskTypes ==
    ASSUME TypeOK, NEW f \in Files, DiskNext(f)
    PROVE  TypeOK'
<1>1. UNCHANGED <<reader, watches, eventChan>>
  BY DEF DiskNext, AppendBytes, Truncate, Unlink, Create, EventIgnored, notWatched
<1>2. <<>> \in Seq(Nat) /\ file[f] \in Seq(Nat)  BY EmptySeq DEF TypeOK
<1>3. /\ queue' \in [Files -> Seq(Event)]
      /\ missed' \in [Files -> BOOLEAN] /\ stolen' \in [Files -> BOOLEAN]
  <2>1. CASE Unlink(f)  BY <2>1 DEF Unlink, history, TypeOK, Event
  <2>2. CASE EventIgnored(f)
    <3>1. stolen' \in [Files -> BOOLEAN]  BY <2>2 DEF EventIgnored, TypeOK
    <3> QED  BY <2>2, <3>1, IgnoredTypes
  <2> QED  BY <2>1, <2>2, NotifyTypes DEF DiskNext, AppendBytes, Truncate, Create
<1>4. /\ file' \in [Files -> Seq(Nat)] /\ exists' \in [Files -> BOOLEAN]
      /\ appended' \in [Files -> Nat] /\ torn' \in [Files -> BOOLEAN] /\ turns' \in [Files -> Nat]
  <2>1. CASE AppendBytes(f)
    <3>1. PICK n \in Chunks :
              /\ file' = [file EXCEPT ![f] = @ \o [i \in 1..n |-> appended[f] + i]]
              /\ appended' = [appended EXCEPT ![f] = @ + n]
              /\ torn' = [torn EXCEPT ![f] = @ \/ ~IsNewline(appended[f] + n)]
      BY <2>1 DEF AppendBytes
    <3>2. n \in Nat /\ appended[f] \in Nat  BY ChunksAssumption DEF TypeOK
    <3>3. file[f] \o [i \in 1..n |-> appended[f] + i] \in Seq(Nat)  BY <1>2, <3>2, Grows
    <3>4. file' \in [Files -> Seq(Nat)]  BY <3>1, <3>3 DEF TypeOK
    <3>5. appended' \in [Files -> Nat]  BY <3>1, <3>2, SMTT(30) DEF TypeOK
    <3>6. torn' \in [Files -> BOOLEAN]  BY <3>1 DEF TypeOK
    <3>7. exists' = exists /\ turns' = turns  BY <2>1 DEF AppendBytes
    <3>8. exists' \in [Files -> BOOLEAN] /\ turns' \in [Files -> Nat]  BY <3>7 DEF TypeOK
    <3> QED  BY <3>4, <3>5, <3>6, <3>8
  <2>2. CASE Truncate(f)
    <3>1. file' = [file EXCEPT ![f] = <<>>] /\ turns' = [turns EXCEPT ![f] = @ + 1]
      BY <2>2 DEF Truncate
    <3>2. file' \in [Files -> Seq(Nat)]  BY <1>2, <3>1 DEF TypeOK
    <3>3. turns' \in [Files -> Nat]  BY <3>1 DEF TypeOK
    <3>4. UNCHANGED <<exists, appended, torn>>  BY <2>2 DEF Truncate
    <3> QED  BY <3>2, <3>3, <3>4 DEF TypeOK
  <2>3. CASE Unlink(f)
    <3>1. file' = [file EXCEPT ![f] = <<>>] /\ turns' = [turns EXCEPT ![f] = @ + 1]
      BY <2>3 DEF Unlink
    <3>2. file' \in [Files -> Seq(Nat)]  BY <1>2, <3>1 DEF TypeOK
    <3>3. turns' \in [Files -> Nat]  BY <3>1 DEF TypeOK
    <3>4. exists' = [exists EXCEPT ![f] = FALSE]  BY <2>3 DEF Unlink
    <3>5. exists' \in [Files -> BOOLEAN]  BY <3>4 DEF TypeOK
    <3>6. appended' = appended /\ torn' = torn  BY <2>3 DEF Unlink
    <3> QED  BY <3>2, <3>3, <3>5, <3>6 DEF TypeOK
  <2>4. CASE Create(f)
    <3>1. exists' \in [Files -> BOOLEAN]  BY <2>4 DEF Create, TypeOK
    <3>2. UNCHANGED <<file, appended, torn, turns>>  BY <2>4 DEF Create
    <3> QED  BY <3>1, <3>2 DEF TypeOK
  <2>5. CASE EventIgnored(f)
    <3>1. UNCHANGED disk  BY <2>5, IgnoredTypes
    <3> QED  BY <3>1 DEF disk, TypeOK
  <2> QED  BY <2>1, <2>2, <2>3, <2>4, <2>5 DEF DiskNext
<1>5. detached' \in [Files -> BOOLEAN] /\ old' \in [Files -> Seq(Nat)]
  <2>1. CASE UNCHANGED <<detached, old>>  BY <2>1 DEF TypeOK
  <2>2. CASE detached' = [detached EXCEPT ![f] = TRUE] /\ old' = [old EXCEPT ![f] = file[f]]
    BY <1>2, <2>2 DEF TypeOK
  <2> QED  BY <2>1, <2>2 DEF DiskNext, AppendBytes, Truncate, Unlink, Create, EventIgnored, notWatched
<1> QED  BY <1>1, <1>3, <1>4, <1>5 DEF TypeOK, Event, reader, watches, output

LEMMA InitWatching == Init => Watching
  BY DEF Init, Watching, WatchOK

LEMMA WatchingStep ==
    ASSUME TypeOK, Watching, NEW f \in Files, ReaderNext(f) \/ WatcherNext(f) \/ DiskNext(f)
    PROVE  Watching'
<1>1. CASE UNCHANGED <<wpc, watching, hand>>
  BY <1>1 DEF Watching, WatchOK
<1>2. CASE ReaderNext(f)
  BY <1>1, <1>2 DEF ReaderNext, Open, OpenFails, Fill, TakeLine, Send, Eof, ReadFails, Reopen, Wake,
     NextEvent, others, watches
<1>3. CASE DiskNext(f)
  BY <1>1, <1>3 DEF DiskNext, AppendBytes, Truncate, Unlink, Create, EventIgnored, notWatched, watches
<1>4. CASE WatcherNext(f)
  <2>1. ASSUME \A g \in Files \ {f} : wpc'[g] = wpc[g] /\ watching'[g] = watching[g] /\ hand'[g] = hand[g],
               WatchOK(f)'
        PROVE  Watching'
    BY <2>1 DEF Watching, WatchOK
  <2>2. \A g \in Files \ {f} : wpc'[g] = wpc[g] /\ watching'[g] = watching[g] /\ hand'[g] = hand[g]
    <3>1. \A g \in Files \ {f} : wpc'[g] = wpc[g]
      <4>1. CASE UNCHANGED wpc  BY <4>1
      <4>2. ASSUME NEW l, WatchGoto(f, l) PROVE \A g \in Files \ {f} : wpc'[g] = wpc[g]
        BY <4>2 DEF WatchGoto, TypeOK
      <4>3. CASE WatchAdd(f) \/ WatchFails(f) \/ WatchTake(f) \/ WatchPass(f)
        BY <4>1, <4>2, <4>3 DEF WatchAdd, WatchFails, WatchTake, WatchPass
      <4>4. CASE WatchEnds(f) \/ WatchLookup(f) \/ WatchCreate(f) \/ WatchDrop(f)
        BY <4>1, <4>2, <4>4 DEF WatchEnds, WatchLookup, WatchCreate, WatchDrop, watches
      <4> QED  BY <1>4, <4>3, <4>4 DEF WatcherNext
    <3>2. \A g \in Files \ {f} : watching'[g] = watching[g]
      BY <1>4 DEF WatcherNext, WatchEnds, WatchLookup, WatchCreate, WatchAdd, WatchFails, WatchTake,
                  WatchDrop, WatchPass, watches, TypeOK
    <3>3. \A g \in Files \ {f} : hand'[g] = hand[g]
      BY <1>4 DEF WatcherNext, WatchEnds, WatchLookup, WatchCreate, WatchAdd, WatchFails, WatchTake,
                  WatchDrop, WatchPass, watches, TypeOK
    <3> QED  BY <3>1, <3>2, <3>3
  <2>3. WatchOK(f)'
    <3>1. CASE WatchLookup(f)
      BY <3>1 DEF WatchLookup, WatchGoto, WatchAt, WatchOK, TypeOK
    <3>2. CASE WatchCreate(f)  BY <3>2 DEF WatchCreate, WatchGoto, WatchOK, TypeOK
    <3>3. CASE WatchAdd(f)
      BY <3>3 DEF WatchAdd, WatchGoto, WatchAt, WatchOK, Watching, TypeOK
    <3>4. CASE WatchTake(f)
      BY <3>4 DEF WatchTake, WatchGoto, WatchOK, TypeOK
    <3>5. CASE WatchDrop(f)  BY <1>1, <3>5 DEF WatchDrop, watches, Watching
    <3>6. CASE WatchEnds(f) \/ WatchFails(f) \/ WatchPass(f)
      BY <3>6 DEF WatchEnds, WatchFails, WatchPass, WatchGoto, WatchOK, TypeOK
    <3> QED  BY <1>4, <3>1, <3>2, <3>3, <3>4, <3>5, <3>6 DEF WatcherNext
  <2> QED  BY <2>1, <2>2, <2>3
<1> QED  BY <1>2, <1>3, <1>4

-----------------------------------------------------------------------------
\* What a reader has at each label: a line only while it sends it, an empty
\* buffer when it opens its file or waits, and an offset that counts no byte
\* which fp has not read or the buffer has not given.
ReaderOK(f) ==
    /\ rpc[f] # "send" => line[f] = <<>>
    /\ rpc[f] \in {"open", "event"} => buf[f] = <<>>
    /\ rpc[f] = "open" => out[f] = <<>> /\ ~detached[f]
    /\ rpc[f] \notin {"open", "done"} => since[f] + Len(buf[f]) <= pos[f]

\* All that belongs to one file: what the steps of another file leave alone.
Own(f) == <<file[f], exists[f], appended[f], torn[f], turns[f], rpc[f], since[f], pos[f], buf[f],
            detached[f], old[f], line[f], sent[f], out[f], hand[f], eventChan[f]>>

LEMMA OthersKeep ==
    ASSUME TypeOK, Watching, NEW f \in Files, NEW g \in Files, f # g,
           ReaderNext(f) \/ WatcherNext(f) \/ DiskNext(f)
    PROVE  UNCHANGED Own(g)
<1>1. CASE ReaderNext(f)
  <2>1. UNCHANGED others
    BY <1>1 DEF ReaderNext, Open, OpenFails, Fill, TakeLine, Send, Eof, ReadFails, Reopen, Wake, NextEvent
  <2>2. rpc'[g] = rpc[g] /\ buf'[g] = buf[g]
    BY <1>1 DEF ReaderNext, Open, OpenFails, Fill, TakeLine, Send, Eof, ReadFails, Reopen, Wake, NextEvent,
                ReadGoto, TypeOK
  <2>4. since'[g] = since[g] /\ pos'[g] = pos[g]
    <3>1. CASE Reopen(f) \/ Wake(f)
      <4>1. CASE Rewind(f)  BY <4>1 DEF Rewind, TypeOK
      <4>2. CASE since' = [since EXCEPT ![f] = 0] /\ UNCHANGED pos  BY <4>2 DEF TypeOK
      <4>3. CASE UNCHANGED <<since, pos>>  BY <4>3
      <4> QED  BY <3>1, <4>1, <4>2, <4>3 DEF Reopen, Wake
    <3>2. CASE Open(f)  BY <3>2 DEF Open, TypeOK
    <3>3. CASE Fill(f) \/ TakeLine(f)  BY <3>3 DEF Fill, TakeLine, TypeOK
    <3>4. CASE OpenFails(f) \/ Send(f) \/ Eof(f) \/ ReadFails(f)
      BY <3>4 DEF OpenFails, Send, Eof, ReadFails
    <3> QED  BY <1>1, <3>1, <3>2, <3>3, <3>4 DEF ReaderNext
  <2>3. /\ detached'[g] = detached[g] /\ old'[g] = old[g] /\ line'[g] = line[g]
        /\ sent'[g] = sent[g] /\ out'[g] = out[g] /\ eventChan'[g] = eventChan[g]
    <3>1. CASE Open(f) \/ OpenFails(f) \/ Fill(f) \/ Eof(f) \/ ReadFails(f)
      BY <3>1 DEF Open, OpenFails, Fill, Eof, ReadFails, output
    <3>2. CASE TakeLine(f)
      <4>1. UNCHANGED <<output, detached, old, eventChan>>  BY <3>2 DEF TakeLine
      <4>2. line'[g] = line[g]  BY <3>2 DEF TakeLine, TypeOK
      <4> QED  BY <4>1, <4>2 DEF output
    <3>3. CASE Send(f)
      <4>1. UNCHANGED <<detached, old, eventChan>>  BY <3>3 DEF Send
      <4>2. line'[g] = line[g] /\ sent'[g] = sent[g] /\ out'[g] = out[g]
        BY <3>3 DEF Send, TypeOK
      <4> QED  BY <4>1, <4>2
    <3>4. CASE Reopen(f) \/ Wake(f)
      <4>1. eventChan'[g] = eventChan[g] /\ UNCHANGED <<line, output>>
        BY <3>4 DEF Reopen, Wake, NextEvent, TypeOK
      <4>2. detached'[g] = detached[g] /\ old'[g] = old[g]
        BY <3>4 DEF Reopen, Wake, TypeOK
      <4> QED  BY <4>1, <4>2 DEF output
    <3> QED  BY <1>1, <3>1, <3>2, <3>3, <3>4 DEF ReaderNext
  <2> QED  BY <2>1, <2>2, <2>3, <2>4 DEF Own, others, disk, watches
<1>2. CASE WatcherNext(f)
  <2>1. UNCHANGED notWatched
    BY <1>2 DEF WatcherNext, WatchEnds, WatchLookup, WatchCreate, WatchAdd, WatchFails, WatchTake,
                WatchDrop, WatchPass
  <2>2. hand'[g] = hand[g] /\ eventChan'[g] = eventChan[g]
    BY <1>2 DEF WatcherNext, WatchEnds, WatchLookup, WatchCreate, WatchAdd, WatchFails, WatchTake,
                WatchDrop, WatchPass, watches, TypeOK
  <2> QED  BY <2>1, <2>2 DEF Own, notWatched, disk, reader, output
<1>3. CASE DiskNext(f)
  <2>1. UNCHANGED <<reader, watches, eventChan>>
    BY <1>3 DEF DiskNext, AppendBytes, Truncate, Unlink, Create, EventIgnored, notWatched
  <2>2. /\ file'[g] = file[g] /\ exists'[g] = exists[g] /\ appended'[g] = appended[g]
        /\ torn'[g] = torn[g] /\ turns'[g] = turns[g]
        /\ detached'[g] = detached[g] /\ old'[g] = old[g]
    <3>1. CASE AppendBytes(f)
      <4>1. /\ \E n \in Chunks :
                   /\ file' = [file EXCEPT ![f] = @ \o [i \in 1..n |-> appended[f] + i]]
                   /\ appended' = [appended EXCEPT ![f] = @ + n]
                   /\ torn' = [torn EXCEPT ![f] = @ \/ ~IsNewline(appended[f] + n)]
            /\ UNCHANGED <<exists, turns, detached, old>>
        BY <3>1 DEF AppendBytes
      <4> QED  BY <4>1 DEF TypeOK
    <3>2. CASE Truncate(f)  BY <3>2 DEF Truncate, TypeOK
    <3>3. CASE Unlink(f)  BY <3>3 DEF Unlink, TypeOK
    <3>4. CASE Create(f)  BY <3>4 DEF Create, TypeOK
    <3>5. CASE EventIgnored(f)
      <4>1. UNCHANGED <<disk, detached, old>>  BY <3>5, IgnoredTypes
      <4> QED  BY <4>1 DEF disk
    <3> QED  BY <1>3, <3>1, <3>2, <3>3, <3>4, <3>5 DEF DiskNext
  <2> QED  BY <2>1, <2>2 DEF Own, reader, watches, output
<1> QED  BY <1>1, <1>2, <1>3

\* The steps of the file's own watcher concern only the event it passes on.
LEMMA WatcherKeeps ==
    ASSUME NEW f \in Files, WatcherNext(f)
    PROVE  UNCHANGED notWatched
  BY DEF WatcherNext, WatchEnds, WatchLookup, WatchCreate, WatchAdd, WatchFails, WatchTake,
         WatchDrop, WatchPass

LEMMA ReaderOKStep ==
    ASSUME TypeOK, NEW f \in Files, ReaderOK(f), ReaderNext(f)
    PROVE  ReaderOK(f)'
<1>1. /\ buf[f] \in Seq(Nat) /\ Len(buf[f]) \in Nat /\ Len(<<>>) = 0
      /\ since[f] \in Nat /\ pos[f] \in Nat /\ file[f] \in Seq(Nat)
      /\ Content(f) \in Seq(Nat) /\ Len(Content(f)) \in Nat
  BY LenProperties, EmptySeq DEF TypeOK, Content
<1>2. CASE Open(f)
  <2>1. OpenAt(f).offset <= OpenAt(f).position /\ OpenAt(f).offset \in Nat /\ OpenAt(f).position \in Nat
    BY <1>1, OpenAtIn
  <2>2. since'[f] = OpenAt(f).offset /\ pos'[f] = OpenAt(f).position /\ rpc'[f] = "read"
        /\ buf'[f] = <<>> /\ line'[f] = <<>>
    BY <1>2 DEF Open, ReadAt, ReadGoto, ReaderOK, TypeOK
  <2> QED  BY <1>1, <2>1, <2>2 DEF ReaderOK
<1>3. CASE Fill(f)
  <2>1. pos[f] \in 0..Len(Content(f))  BY <1>1, <1>3 DEF Fill
  <2>2. LET s == SubSeq(Content(f), pos[f] + 1, Len(Content(f)))
        IN  s \in Seq(Nat) /\ Len(s) = Len(Content(f)) - pos[f]
    BY <1>1, <2>1, Cut
  <2>3. Len(buf'[f]) = Len(buf[f]) + (Len(Content(f)) - pos[f])
    BY <1>1, <1>3, <2>2, ConcatProperties DEF Fill, TypeOK
  <2>4. pos'[f] = Len(Content(f)) /\ since'[f] = since[f] /\ rpc'[f] = "read" /\ line'[f] = line[f]
        /\ rpc[f] = "read"
    BY <1>3 DEF Fill, ReadAt, TypeOK
  <2> QED  BY <1>1, <2>3, <2>4 DEF ReaderOK
<1>4. CASE TakeLine(f)
  <2>1. LineEnd(f) \in 1..Len(buf[f])  BY <1>1, <1>4, LineEndIn DEF TakeLine
  <2>2. Len(SubSeq(buf[f], LineEnd(f) + 1, Len(buf[f]))) = Len(buf[f]) - LineEnd(f)
    <3>1. LineEnd(f) \in 0..Len(buf[f])  BY <1>1, <2>1
    <3> QED  BY <1>1, <3>1, Cut
  <2>3. Len(buf'[f]) = Len(buf[f]) - LineEnd(f) /\ since'[f] = since[f] + LineEnd(f)
        /\ pos'[f] = pos[f] /\ rpc'[f] = "send" /\ rpc[f] = "read"
    BY <1>4, <2>2 DEF TakeLine, ReadAt, ReadGoto, TypeOK
  <2> QED  BY <1>1, <2>1, <2>3 DEF ReaderOK
<1>5. CASE Send(f)
  BY <1>5 DEF Send, ReadAt, ReadGoto, ReaderOK, TypeOK
<1>6. CASE Eof(f)
  <2>1. buf'[f] = <<>> /\ rpc'[f] = "event" /\ rpc[f] = "read" /\ since'[f] = since[f]
        /\ pos'[f] = pos[f] /\ line'[f] = line[f]
    BY <1>6 DEF Eof, ReadAt, ReadGoto, TypeOK
  <2> QED  BY <1>1, <2>1 DEF ReaderOK
<1>7. CASE Reopen(f)
  <2>1. rpc[f] = "event" /\ buf'[f] = <<>> /\ line'[f] = <<>>
    BY <1>7 DEF Reopen, NextEvent, ReadAt, ReaderOK
  <2>2. \/ rpc'[f] = "read" /\ since'[f] = 0 /\ pos'[f] = 0
        \/ rpc'[f] = "done"
    BY <1>7 DEF Reopen, Rewind, ReadGoto, TypeOK
  <2> QED  BY <1>1, <2>1, <2>2 DEF ReaderOK
<1>8. CASE Wake(f)
  <2>1. rpc[f] = "event" /\ buf[f] = <<>> /\ buf'[f] = <<>> /\ line'[f] = <<>> /\ rpc'[f] = "read"
    BY <1>8 DEF Wake, NextEvent, ReadAt, ReadGoto, ReaderOK, TypeOK
  <2>2. \/ since'[f] = 0 /\ pos'[f] = 0
        \/ since'[f] = since[f] /\ pos'[f] = pos[f]
    BY <1>8 DEF Wake, Rewind, TypeOK
  <2> QED  BY <1>1, <2>1, <2>2 DEF ReaderOK
<1>9. CASE OpenFails(f) \/ ReadFails(f)
  BY <1>9 DEF OpenFails, ReadFails, ReadAt, ReadGoto, ReaderOK, TypeOK
<1> QED  BY <1>2, <1>3, <1>4, <1>5, <1>6, <1>7, <1>8, <1>9 DEF ReaderNext

LEMMA ReadersOKStep ==
    ASSUME TypeOK, Watching, NEW g \in Files, ReaderOK(g),
           NEW f \in Files, ReaderNext(f) \/ WatcherNext(f) \/ DiskNext(f)
    PROVE  ReaderOK(g)'
<1>1. CASE f # g  BY <1>1, OthersKeep DEF Own, ReaderOK
<1>2. CASE f = g /\ ReaderNext(f)  BY <1>2, ReaderOKStep
<1>3. CASE f = g /\ WatcherNext(f)
  BY <1>3, WatcherKeeps DEF notWatched, reader, output, ReaderOK
<1>4. CASE f = g /\ DiskNext(f)
  <2>1. UNCHANGED reader  BY <1>4 DEF DiskNext, AppendBytes, Truncate, Unlink, Create, EventIgnored, notWatched
  <2>2. rpc[f] = "open" => detached'[f] = detached[f]
    BY <1>4 DEF DiskNext, AppendBytes, Truncate, Unlink, Create, EventIgnored, notWatched
  <2> QED  BY <1>4, <2>1, <2>2 DEF reader, output, ReaderOK
<1> QED  BY <1>1, <1>2, <1>3, <1>4

-----------------------------------------------------------------------------
\* A file that was only appended to: its bytes are those that were appended, its
\* reader has it open, and no event says that it was created.
Grown(f) == turns[f] = 0 =>
    /\ exists[f] /\ ~detached[f]
    /\ Len(file[f]) = appended[f] /\ \A i \in 1..appended[f] : file[f][i] = i
    /\ ~torn[f] => IsNewline(appended[f])
    /\ pos[f] <= appended[f]
    /\ \A i \in 1..Len(eventChan[f]) : eventChan[f][i] # "Create"
    /\ \A i \in 1..Len(hand[f]) : hand[f][i] # "Create"
    /\ \A w \in Files : \A i \in 1..Len(queue[w]) : queue[w][i] # [file |-> f, op |-> "Create"]

\* Where the events in a queue come from.
LEMMA EventsFrom ==
    ASSUME TypeOK, Watching, NEW f \in Files, ReaderNext(f) \/ WatcherNext(f) \/ DiskNext(f),
           NEW w \in Files, NEW i \in 1..Len(queue'[w])
    PROVE  \/ \E j \in 1..Len(queue[w]) : queue'[w][i] = queue[w][j]
           \/ queue'[w][i] = [file |-> f, op |-> "Write"]
           \/ queue'[w][i] = [file |-> f, op |-> "Create"] /\ ~exists[f]
<1>1. queue[w] \in Seq(Event) /\ Len(queue[w]) \in Nat  BY LenProperties DEF TypeOK, Event
<1>2. CASE UNCHANGED queue  BY <1>2
<1>3. CASE ReaderNext(f)
  BY <1>2, <1>3 DEF ReaderNext, Open, OpenFails, Fill, TakeLine, Send, Eof, ReadFails, Reopen, Wake,
                    NextEvent, others
<1>6. ASSUME NEW v, queue' = [queue EXCEPT ![v] = Tail(queue[v])], queue[v] # <<>>
      PROVE  \E j \in 1..Len(queue[w]) : queue'[w][i] = queue[w][j]
  <2>1. CASE w = v
    <3>1. queue'[w] = Tail(queue[w]) /\ queue[w] # <<>>  BY <1>6, <2>1 DEF TypeOK
    <3>2. /\ Len(Tail(queue[w])) = Len(queue[w]) - 1
          /\ \A k \in 1..Len(Tail(queue[w])) : Tail(queue[w])[k] = queue[w][k + 1]
      BY <1>1, <3>1, HeadTailProperties
    <3>3. i + 1 \in 1..Len(queue[w])  BY <1>1, <3>1, <3>2
    <3> QED  BY <3>1, <3>2, <3>3
  <2>2. CASE w # v
    <3>1. queue'[w] = queue[w]  BY <1>6, <2>2 DEF TypeOK
    <3> QED  BY <3>1
  <2> QED  BY <2>1, <2>2
<1>4. CASE WatcherNext(f)
  <2>1. UNCHANGED queue
        \/ (queue' = [queue EXCEPT ![watching[f]] = Tail(queue[watching[f]])] /\ queue[watching[f]] # <<>>)
    BY <1>4 DEF WatcherNext, WatchEnds, WatchLookup, WatchCreate, WatchAdd, WatchFails,
                WatchTake, WatchDrop, WatchPass
  <2> QED  BY <1>2, <1>6, <2>1
<1>5. CASE DiskNext(f)
  <2>2. CASE EventIgnored(f)
    <3>1. queue' = [queue EXCEPT ![f] = Tail(queue[f])] /\ queue[f] # <<>>
      BY <2>2 DEF EventIgnored
    <3> QED  BY <1>6, <3>1
  <2>1. ASSUME NEW op \in {"Create", "Write"}, Notify(f, op)
        PROVE  \/ \E j \in 1..Len(queue[w]) : queue'[w][i] = queue[w][j]
               \/ queue'[w][i] = [file |-> f, op |-> op]
    <3>1. CASE queue'[w] = queue[w]  BY <3>1
    <3>2. CASE queue'[w] = Append(queue[w], [file |-> f, op |-> op])
      <4>1. [file |-> f, op |-> op] \in Event  BY DEF Event
      <4>2. /\ Len(queue'[w]) = Len(queue[w]) + 1
            /\ \A k \in 1..Len(queue[w]) : queue'[w][k] = queue[w][k]
            /\ queue'[w][Len(queue[w]) + 1] = [file |-> f, op |-> op]
        BY <1>1, <3>2, <4>1, AppendProperties
      <4> QED  BY <1>1, <4>2
    <3> QED  BY <2>1, <3>1, <3>2, NotifyTypes
  <2> QED  BY <1>2, <1>5, <2>1, <2>2 DEF DiskNext, AppendBytes, Truncate, Unlink, Create
<1> QED  BY <1>3, <1>4, <1>5

LEMMA GrownStep ==
    ASSUME TypeOK, Watching, NEW g \in Files, ReaderOK(g), Grown(g),
           NEW f \in Files, ReaderNext(f) \/ WatcherNext(f) \/ DiskNext(f)
    PROVE  Grown(g)'
<1>1. turns'[g] = 0 => turns[g] = 0
  <2>1. UNCHANGED turns \/ turns' = [turns EXCEPT ![f] = @ + 1]
    BY DEF ReaderNext, Open, OpenFails, Fill, TakeLine, Send, Eof, ReadFails, Reopen, Wake, NextEvent, others,
           WatcherNext, WatchEnds, WatchLookup, WatchCreate, WatchAdd, WatchFails, WatchTake, WatchDrop,
           WatchPass, notWatched, disk, DiskNext, AppendBytes, Truncate, Unlink, Create, EventIgnored
  <2>2. turns \in [Files -> Nat]  BY DEF TypeOK
  <2>3. turns'[g] \in {turns[g], turns[g] + 1} /\ turns[g] \in Nat  BY <2>1, <2>2
  <2> QED  BY <2>3
<1> SUFFICES ASSUME turns'[g] = 0, turns[g] = 0 PROVE Grown(g)'
  BY <1>1 DEF Grown
<1>2. /\ exists[g] /\ ~detached[g]
      /\ Len(file[g]) = appended[g] /\ \A i \in 1..appended[g] : file[g][i] = i
      /\ ~torn[g] => IsNewline(appended[g])
      /\ pos[g] <= appended[g]
      /\ \A i \in 1..Len(eventChan[g]) : eventChan[g][i] # "Create"
      /\ \A i \in 1..Len(hand[g]) : hand[g][i] # "Create"
      /\ \A w \in Files : \A i \in 1..Len(queue[w]) : queue[w][i] # [file |-> g, op |-> "Create"]
  BY DEF Grown
<1>3. \A w \in Files : \A i \in 1..Len(queue'[w]) : queue'[w][i] # [file |-> g, op |-> "Create"]
  <2> SUFFICES ASSUME NEW w \in Files, NEW i \in 1..Len(queue'[w]),
                      queue'[w][i] = [file |-> g, op |-> "Create"]
               PROVE  FALSE
    OBVIOUS
  <2>1. queue'[w][i].file = g /\ queue'[w][i].op = "Create"  OBVIOUS
  <2>2. CASE \E j \in 1..Len(queue[w]) : queue'[w][i] = queue[w][j]  BY <1>2, <2>2
  <2>3. CASE queue'[w][i] = [file |-> f, op |-> "Write"]
    <3>1. queue'[w][i].op = "Write"  BY <2>3
    <3> QED  BY <2>1, <3>1
  <2>4. CASE queue'[w][i] = [file |-> f, op |-> "Create"] /\ ~exists[f]
    <3>1. queue'[w][i].file = f  BY <2>4
    <3> QED  BY <1>2, <2>1, <2>4, <3>1
  <2> QED  BY <2>2, <2>3, <2>4, EventsFrom
<1>4. CASE UNCHANGED Own(g)
  <2>1. /\ file'[g] = file[g] /\ exists'[g] = exists[g] /\ appended'[g] = appended[g]
        /\ torn'[g] = torn[g] /\ pos'[g] = pos[g] /\ detached'[g] = detached[g]
        /\ hand'[g] = hand[g] /\ eventChan'[g] = eventChan[g]
    BY <1>4 DEF Own
  <2> QED  BY <1>2, <1>3, <2>1 DEF Grown
<1>5. CASE f # g  BY <1>4, <1>5, OthersKeep
<1>6. CASE f = g /\ ReaderNext(g)
  <2>1. UNCHANGED <<file, exists, appended, torn, hand>>
    BY <1>6 DEF ReaderNext, Open, OpenFails, Fill, TakeLine, Send, Eof, ReadFails, Reopen, Wake, NextEvent,
                others, disk, watches
  <2>2. ASSUME Reopen(g) PROVE FALSE
    <3>1. Head(eventChan[g]) = "Create" /\ eventChan[g] # <<>>  BY <2>2 DEF Reopen, NextEvent
    <3>2. Head(eventChan[g]) = eventChan[g][1] /\ 1 \in 1..Len(eventChan[g])
      BY <3>1, HeadTailProperties, LenProperties DEF TypeOK
    <3> QED  BY <1>2, <3>1, <3>2
  <2>3. \A i \in 1..Len(eventChan'[g]) : eventChan'[g][i] # "Create"
    <3>1. CASE UNCHANGED eventChan  BY <1>2, <3>1
    <3>2. CASE NextEvent(g)
      <4>1. eventChan[g] \in Seq({"Create", "Write"}) /\ eventChan[g] # <<>>
            /\ eventChan'[g] = Tail(eventChan[g])
        BY <3>2 DEF NextEvent, TypeOK
      <4>2. /\ Len(Tail(eventChan[g])) = Len(eventChan[g]) - 1 /\ Len(eventChan[g]) \in Nat
            /\ \A k \in 1..Len(Tail(eventChan[g])) : Tail(eventChan[g])[k] = eventChan[g][k + 1]
        BY <4>1, HeadTailProperties, LenProperties
      <4> QED  BY <1>2, <4>1, <4>2
    <3> QED
      BY <1>6, <3>1, <3>2 DEF ReaderNext, Open, OpenFails, Fill, TakeLine, Send, Eof, ReadFails, Reopen, Wake
  <2>4. Len(file[g]) \in Nat /\ pos[g] \in Nat /\ since[g] \in Nat /\ Content(g) = file[g]
        /\ file[g] \in Seq(Nat)
    BY <1>2, LenProperties DEF TypeOK, Content
  <2>5. pos'[g] <= appended[g] /\ ~detached'[g]
    <3>1. CASE Open(g)
      <4>1. OpenAt(g).position <= Len(file[g])  BY <2>4, OpenAtIn
      <4> QED  BY <1>2, <3>1, <4>1 DEF Open, TypeOK
    <3>2. CASE Fill(g)  BY <1>2, <2>4, <3>2 DEF Fill, TypeOK
    <3>3. CASE Wake(g)
      <4>1. ~ (Len(Content(g)) < since[g])
        <5>1. since[g] + Len(buf[g]) <= pos[g] /\ Len(buf[g]) \in Nat
          BY <3>3, LenProperties DEF Wake, NextEvent, ReadAt, ReaderOK, TypeOK
        <5> QED  BY <1>2, <2>4, <5>1
      <4> QED  BY <1>2, <3>3, <4>1 DEF Wake
    <3>4. CASE OpenFails(g) \/ TakeLine(g) \/ Send(g) \/ Eof(g) \/ ReadFails(g)
      BY <1>2, <3>4 DEF OpenFails, TakeLine, Send, Eof, ReadFails
    <3>5. CASE UNCHANGED detached
      BY <1>2, <1>6, <2>2, <3>1, <3>2, <3>3, <3>4, <3>5 DEF ReaderNext
    <3> QED
      BY <1>6, <2>2, <3>5 DEF ReaderNext, Open, OpenFails, Fill, TakeLine, Send, Eof, ReadFails, Wake
  <2> QED  BY <1>2, <1>3, <2>1, <2>3, <2>5 DEF Grown
<1>7. CASE f = g /\ WatcherNext(g)
  <2>1. UNCHANGED <<file, exists, appended, torn, pos, detached>>
    BY <1>7, WatcherKeeps DEF notWatched, disk, reader
  <2>2. /\ \A i \in 1..Len(eventChan'[g]) : eventChan'[g][i] # "Create"
        /\ \A i \in 1..Len(hand'[g]) : hand'[g][i] # "Create"
    <3>1. CASE UNCHANGED <<hand, eventChan>>  BY <1>2, <3>1
    <3>2. CASE WatchTake(g)
      <4>1. watching[g] \in Files  BY <3>2 DEF WatchTake, WatchAt, Watching, WatchOK
      <4>2. queue[watching[g]] \in Seq(Event) /\ queue[watching[g]] # <<>>
            /\ Head(queue[watching[g]]).file = g
        BY <3>2, <4>1 DEF WatchTake, TypeOK, Event
      <4>3. Head(queue[watching[g]]) = queue[watching[g]][1] /\ Head(queue[watching[g]]) \in Event
            /\ 1 \in 1..Len(queue[watching[g]])
        BY <4>2, HeadTailProperties, LenProperties
      <4>4. Head(queue[watching[g]]).op # "Create"
        BY <1>2, <4>1, <4>2, <4>3 DEF Event
      <4>5. hand'[g] = <<Head(queue[watching[g]]).op>> /\ UNCHANGED eventChan
        BY <3>2 DEF WatchTake, TypeOK
      <4> QED  BY <1>2, <4>4, <4>5
    <3>3. CASE WatchPass(g)
      <4>1. eventChan'[g] = eventChan[g] \o hand[g] /\ hand'[g] = <<>>
        BY <3>3 DEF WatchPass, TypeOK
      <4>2. eventChan[g] \in Seq({"Create", "Write"}) /\ hand[g] \in Seq({"Create", "Write"})
            /\ Len(eventChan[g]) \in Nat /\ Len(hand[g]) \in Nat
        BY LenProperties DEF TypeOK
      <4> DEFINE s == eventChan[g]
                 t == hand[g]
      <4>3. /\ Len(s \o t) = Len(s) + Len(t)
            /\ \A k \in 1..Len(s) + Len(t) : (s \o t)[k] = IF k <= Len(s) THEN s[k] ELSE t[k - Len(s)]
        BY <4>2, ConcatProperties
      <4>4. \A k \in 1..Len(s) : s[k] # "Create"  BY <1>2
      <4>5. \A k \in 1..Len(t) : t[k] # "Create"  BY <1>2
      <4>6. Len(s) \in Nat /\ Len(t) \in Nat  BY <4>2
      <4> HIDE DEF s, t
      <4>7. \A k \in 1..Len(s) + Len(t) : (s \o t)[k] # "Create"
        <5> SUFFICES ASSUME NEW k \in 1..Len(s) + Len(t) PROVE (s \o t)[k] # "Create"
          OBVIOUS
        <5>1. CASE k <= Len(s)  BY <4>3, <4>4, <4>6, <5>1
        <5>2. CASE k > Len(s)
          <6>1. k - Len(s) \in 1..Len(t)  BY <4>6, <5>2
          <6> QED  BY <4>3, <4>5, <4>6, <5>2, <6>1
        <5> QED  BY <4>6, <5>1, <5>2
      <4>8. \A i \in 1..Len(s \o t) : (s \o t)[i] # "Create"  BY <4>3, <4>7
      <4>9. Len(hand'[g]) = 0  BY <4>1
      <4>10. \A i \in 1..Len(hand'[g]) : hand'[g][i] # "Create"  BY <4>9
      <4>11. eventChan'[g] = s \o t  BY <4>1 DEF s, t
      <4>12. \A i \in 1..Len(eventChan'[g]) : eventChan'[g][i] # "Create"  BY <4>8, <4>11
      <4> QED  BY <4>10, <4>12
    <3> QED
      BY <1>7, <3>1, <3>2, <3>3 DEF WatcherNext, WatchEnds, WatchLookup, WatchCreate, WatchAdd,
                                    WatchFails, WatchDrop, watches
  <2> QED  BY <1>2, <1>3, <2>1, <2>2 DEF Grown
<1>8. CASE f = g /\ EventIgnored(g)
  <2>1. UNCHANGED <<disk, reader, detached, old, watches, eventChan>>  BY <1>8, IgnoredTypes
  <2> QED  BY <1>4, <2>1 DEF Own, disk, reader, output, watches
<1>9. CASE f = g /\ DiskNext(g) /\ ~EventIgnored(g)
  <2>1. AppendBytes(g)
    BY <1>2, <1>9 DEF DiskNext, Truncate, Unlink, Create, TypeOK
  <2>2. PICK n \in Chunks :
          /\ file' = [file EXCEPT ![g] = @ \o [i \in 1..n |-> appended[g] + i]]
          /\ appended' = [appended EXCEPT ![g] = @ + n]
          /\ torn' = [torn EXCEPT ![g] = @ \/ ~IsNewline(appended[g] + n)]
    BY <2>1 DEF AppendBytes
  <2>3. n \in Nat /\ appended[g] \in Nat /\ file[g] \in Seq(Nat) /\ pos[g] \in Nat
    BY ChunksAssumption DEF TypeOK
  <2>4. appended'[g] = appended[g] + n /\ torn'[g] = (torn[g] \/ ~IsNewline(appended[g] + n))
        /\ file'[g] = file[g] \o [i \in 1..n |-> appended[g] + i]
    BY <2>2 DEF TypeOK
  <2>5. /\ Len(file'[g]) = appended'[g]
        /\ \A i \in 1..appended[g] : file'[g][i] = file[g][i]
        /\ \A i \in 1..n : file'[g][appended[g] + i] = appended[g] + i
    <3> DEFINE a == appended[g]
               t == [i \in 1..n |-> a + i]
    <3>1. /\ Len(file[g] \o t) = Len(file[g]) + n
          /\ \A i \in 1..Len(file[g]) : (file[g] \o t)[i] = file[g][i]
          /\ \A i \in 1..n : (file[g] \o t)[Len(file[g]) + i] = a + i
      BY <2>3, Grows, SMTT(30)
    <3>2. file'[g] = file[g] \o t /\ Len(file[g]) = a  BY <1>2, <2>4
    <3> HIDE DEF t
    <3> QED  BY <2>4, <3>1, <3>2
  <2>6. \A i \in 1..appended'[g] : file'[g][i] = i
    <3> SUFFICES ASSUME NEW i \in 1..appended'[g] PROVE file'[g][i] = i
      OBVIOUS
    <3>3. \A j \in 1..appended[g] : file[g][j] = j  BY <1>2
    <3>1. CASE i <= appended[g]
      <4>1. i \in 1..appended[g]  BY <2>3, <2>4, <3>1
      <4> QED  BY <2>5, <3>3, <4>1
    <3>2. CASE i > appended[g]
      <4>1. i - appended[g] \in 1..n /\ appended[g] + (i - appended[g]) = i  BY <2>3, <2>4, <3>2
      <4> QED  BY <2>5, <4>1
    <3> QED  BY <2>3, <3>1, <3>2
  <2>7. UNCHANGED <<exists, detached, pos, hand, eventChan>>
    BY <2>1 DEF AppendBytes, reader, watches
  <2>8. ~torn'[g] => IsNewline(appended'[g])  BY <2>4
  <2>9. exists'[g] /\ ~detached'[g] /\ pos'[g] <= appended'[g]  BY <1>2, <2>3, <2>4, <2>7
  <2>10. /\ \A i \in 1..Len(eventChan'[g]) : eventChan'[g][i] # "Create"
         /\ \A i \in 1..Len(hand'[g]) : hand'[g][i] # "Create"
    BY <1>2, <2>7
  <2> QED  BY <1>3, <2>5, <2>6, <2>8, <2>9, <2>10, Zenon DEF Grown, IsNewline
<1> QED  BY <1>5, <1>6, <1>7, <1>8, <1>9

-----------------------------------------------------------------------------
\* The bytes in t are of the first p, each after the ones before it; and they are
\* the last of these, all of them.
Ordered(t, p) ==
    /\ \A i \in 1..Len(t) : t[i] \in 1..p
    /\ \A i, j \in 1..Len(t) : i < j => t[i] < t[j]
Whole(t, p) == \A i \in 1..Len(t) : t[i] = p - Len(t) + i

\* What a reader took from a file that was only appended to; of whole lines, all
\* that fp went over, up to the end of one.
ReadOK(f) == turns[f] = 0 =>
    /\ Ordered(Taken(f), pos[f])
    /\ ~torn[f] => Whole(Taken(f), pos[f]) /\ (buf[f] # <<>> => IsNewline(pos[f]))

LEMMA OrderedMore ==
    ASSUME NEW t \in Seq(Nat), NEW s \in Seq(Nat), NEW p \in Nat, NEW n \in Nat, p <= n,
           Len(s) = n - p, \A i \in 1..Len(s) : s[i] = p + i, Ordered(t, p)
    PROVE  Ordered(t \o s, n) /\ (Whole(t, p) => Whole(t \o s, n))
<1>1. Len(t) \in Nat /\ Len(s) \in Nat  BY LenProperties
<1>2. /\ t \o s \in Seq(Nat) /\ Len(t \o s) = Len(t) + Len(s)
      /\ \A i \in 1..Len(t) + Len(s) : (t \o s)[i] = IF i <= Len(t) THEN t[i] ELSE s[i - Len(t)]
  BY ConcatProperties
<1>3. \A i \in 1..Len(t) : (t \o s)[i] = t[i]  BY <1>1, <1>2
<1>4. ASSUME NEW i \in 1..Len(t) + Len(s), i > Len(t)
      PROVE  (t \o s)[i] = p + (i - Len(t))
  <2>1. i - Len(t) \in 1..Len(s)  BY <1>1, <1>4
  <2> QED  BY <1>1, <1>2, <1>4, <2>1
<1>5. \A i \in 1..Len(t) : t[i] \in 1..p  BY DEF Ordered
<1>6. \A i, j \in 1..Len(t) : i < j => t[i] < t[j]  BY DEF Ordered
<1> DEFINE u == t \o s
<1> HIDE DEF u
<1>7. \A i \in 1..Len(u) : u[i] \in 1..n
  <2> SUFFICES ASSUME NEW i \in 1..Len(u) PROVE u[i] \in 1..n
    OBVIOUS
  <2>1. CASE i <= Len(t)
    <3>1. u[i] = t[i] /\ t[i] \in 1..p  BY <1>1, <1>2, <1>3, <1>5, <2>1 DEF u
    <3> QED  BY <3>1
  <2>2. CASE i > Len(t)
    <3>1. u[i] = p + (i - Len(t)) /\ i <= Len(t) + Len(s)  BY <1>1, <1>2, <1>4, <2>2 DEF u
    <3> QED  BY <1>1, <2>2, <3>1
  <2> QED  BY <1>1, <2>1, <2>2
<1>8. \A i, j \in 1..Len(u) : i < j => u[i] < u[j]
  <2> SUFFICES ASSUME NEW i \in 1..Len(u), NEW j \in 1..Len(u), i < j PROVE u[i] < u[j]
    OBVIOUS
  <2>1. Len(u) = Len(t) + Len(s)  BY <1>2 DEF u
  <2>2. CASE j <= Len(t)
    <3>1. u[i] = t[i] /\ u[j] = t[j] /\ i \in 1..Len(t) /\ j \in 1..Len(t)
      BY <1>1, <1>3, <2>1, <2>2 DEF u
    <3> QED  BY <1>6, <3>1
  <2>3. CASE i <= Len(t) /\ j > Len(t)
    <3>1. u[i] = t[i] /\ t[i] \in 1..p  BY <1>1, <1>3, <1>5, <2>1, <2>3 DEF u
    <3>2. u[j] = p + (j - Len(t))  BY <1>1, <1>4, <2>1, <2>3 DEF u
    <3> QED  BY <1>1, <2>3, <3>1, <3>2
  <2>4. CASE i > Len(t) /\ j > Len(t)
    <3>1. u[i] = p + (i - Len(t)) /\ u[j] = p + (j - Len(t))  BY <1>1, <1>4, <2>1, <2>4 DEF u
    <3> QED  BY <1>1, <3>1
  <2> QED  BY <1>1, <2>1, <2>2, <2>3, <2>4
<1>9. ASSUME Whole(t, p), NEW i \in 1..Len(u) PROVE u[i] = n - Len(u) + i
  <2>1. Len(u) = Len(t) + Len(s)  BY <1>2 DEF u
  <2>2. CASE i <= Len(t)
    <3>1. u[i] = t[i] /\ t[i] = p - Len(t) + i  BY <1>1, <1>3, <1>9, <2>1, <2>2 DEF u, Whole
    <3> QED  BY <1>1, <2>1, <3>1
  <2>3. CASE i > Len(t)
    <3>1. u[i] = p + (i - Len(t))  BY <1>1, <1>4, <2>1, <2>3 DEF u
    <3> QED  BY <1>1, <2>1, <3>1
  <2> QED  BY <1>1, <2>1, <2>2, <2>3
<1> QED  BY <1>7, <1>8, <1>9 DEF u, Ordered, Whole

LEMMA OrderedLess ==
    ASSUME NEW t \in Seq(Nat), NEW s \in Seq(Nat), NEW p \in Nat, Ordered(t \o s, p)
    PROVE  Ordered(t, p)
<1>1. Len(t) \in Nat /\ Len(s) \in Nat  BY LenProperties
<1>2. /\ Len(t \o s) = Len(t) + Len(s)
      /\ \A i \in 1..Len(t) + Len(s) : (t \o s)[i] = IF i <= Len(t) THEN t[i] ELSE s[i - Len(t)]
  BY ConcatProperties
<1>3. ASSUME NEW i \in 1..Len(t) PROVE (t \o s)[i] = t[i] /\ i \in 1..Len(t \o s)
  <2>1. i \in 1..Len(t) + Len(s) /\ i <= Len(t)  BY <1>1
  <2> QED  BY <1>2, <2>1
<1> QED  BY <1>3 DEF Ordered

LEMMA Associative ==
    ASSUME NEW r \in Seq(Nat), NEW s \in Seq(Nat), NEW t \in Seq(Nat)
    PROVE  (r \o s) \o t = r \o (s \o t)
  BY ConcatAssociative, SMTT(30)

LEMMA ReadOKStep ==
    ASSUME TypeOK, NEW f \in Files, ReaderOK(f), Grown(f), Grown(f)', ReadOK(f), ReaderNext(f),
           TypeOK'
    PROVE  ReadOK(f)'
<1>1. UNCHANGED <<turns, torn, file>>
  BY DEF ReaderNext, Open, OpenFails, Fill, TakeLine, Send, Eof, ReadFails, Reopen, Wake, NextEvent,
         others, disk
<1> SUFFICES ASSUME turns[f] = 0
             PROVE  /\ Ordered(Taken(f)', pos'[f])
                    /\ ~torn[f] => Whole(Taken(f)', pos'[f]) /\ (buf'[f] # <<>> => IsNewline(pos'[f]))
  BY <1>1 DEF ReadOK, IsNewline
<1>2. /\ Ordered(Taken(f), pos[f])
      /\ ~torn[f] => Whole(Taken(f), pos[f]) /\ (buf[f] # <<>> => IsNewline(pos[f]))
  BY DEF ReadOK
<1>3. /\ out[f] \in Seq(Nat) /\ line[f] \in Seq(Nat) /\ buf[f] \in Seq(Nat) /\ <<>> \in Seq(Nat)
      /\ Len(<<>>) = 0 /\ pos[f] \in Nat /\ pos'[f] \in Nat /\ since[f] \in Nat
  BY EmptySeq DEF TypeOK
<1>4. out[f] \o line[f] \in Seq(Nat) /\ Taken(f) \in Seq(Nat) /\ Len(Taken(f)) \in Nat
  BY <1>3, ConcatProperties, LenProperties DEF Taken
<1>5. /\ Content(f) = file[f] /\ file[f] \in Seq(Nat) /\ Len(file[f]) \in Nat /\ pos[f] <= Len(file[f])
      /\ \A i \in 1..Len(file[f]) : file[f][i] = i
      /\ ~torn[f] => IsNewline(Len(file[f]))
  <2>1. file[f] \in Seq(Nat) /\ Len(file[f]) \in Nat  BY LenProperties DEF TypeOK
  <2> QED  BY <2>1 DEF Grown, Content
<1>6. CASE UNCHANGED <<Taken(f), pos[f], buf[f]>>  BY <1>2, <1>6
<1>7. CASE Open(f)
  <2>1. out'[f] = <<>> /\ line'[f] = <<>> /\ buf'[f] = <<>>
    BY <1>7 DEF Open, ReadAt, ReaderOK, output
  <2>2. Taken(f)' = <<>>  BY <1>3, <2>1, ConcatEmptySeq DEF Taken
  <2> QED  BY <1>3, <2>1, <2>2 DEF Ordered, Whole
<1>8. CASE Fill(f)
  <2> DEFINE s == SubSeq(file[f], pos[f] + 1, Len(file[f]))
  <2>1. pos[f] \in 0..Len(file[f])  BY <1>3, <1>5
  <2>2. s \in Seq(Nat) /\ Len(s) = Len(file[f]) - pos[f]
        /\ \A i \in 1..Len(file[f]) - pos[f] : s[i] = file[f][pos[f] + i]
    <3>1. file[f] \in Seq(Nat)  BY <1>5
    <3> QED  BY <2>1, <3>1, Cut, Zenon
  <2> HIDE DEF s
  <2>3. \A i \in 1..Len(s) : s[i] = pos[f] + i
    <3> SUFFICES ASSUME NEW i \in 1..Len(s) PROVE s[i] = pos[f] + i
      OBVIOUS
    <3>0. pos[f] \in Nat /\ Len(file[f]) \in Nat /\ Len(s) = Len(file[f]) - pos[f]  BY <1>3, <1>5, <2>2
    <3>1. pos[f] + i \in 1..Len(file[f]) /\ i \in 1..Len(file[f]) - pos[f]  BY <3>0
    <3> QED  BY <1>5, <2>2, <3>1
  <2>4. buf'[f] = buf[f] \o s /\ pos'[f] = Len(file[f]) /\ out'[f] = out[f] /\ line'[f] = line[f]
    BY <1>5, <1>8 DEF Fill, output, TypeOK, s
  <2>5. Taken(f)' = Taken(f) \o s
    <3>1. ((out[f] \o line[f]) \o buf[f]) \o s = (out[f] \o line[f]) \o (buf[f] \o s)
      <4>1. out[f] \o line[f] \in Seq(Nat) /\ buf[f] \in Seq(Nat) /\ s \in Seq(Nat)
        BY <1>3, <1>4, <2>2
      <4> QED  BY <4>1, Associative
    <3> QED  BY <2>4, <3>1 DEF Taken
  <2>6. Ordered(Taken(f) \o s, Len(file[f]))
        /\ (Whole(Taken(f), pos[f]) => Whole(Taken(f) \o s, Len(file[f])))
    BY <1>2, <1>3, <1>4, <1>5, <2>2, <2>3, OrderedMore
  <2> QED  BY <1>2, <1>5, <2>4, <2>5, <2>6, Zenon
<1>9. CASE TakeLine(f)
  <2>1. LineEnd(f) \in 1..Len(buf[f]) /\ Len(buf[f]) \in Nat
    BY <1>3, <1>9, LineEndIn, LenProperties DEF TakeLine
  <2>2. LineEnd(f) \in 0..Len(buf[f])  BY <2>1
  <2> DEFINE a == SubSeq(buf[f], 1, LineEnd(f))
             b == SubSeq(buf[f], LineEnd(f) + 1, Len(buf[f]))
  <2>3. a \in Seq(Nat) /\ b \in Seq(Nat) /\ a \o b = buf[f]  BY <1>3, <2>2, Cut
  <2>4. line'[f] = a /\ buf'[f] = b /\ out'[f] = out[f] /\ pos'[f] = pos[f] /\ line[f] = <<>>
    BY <1>9 DEF TakeLine, ReadAt, ReaderOK, output, TypeOK
  <2> HIDE DEF a, b
  <2>5. Taken(f)' = Taken(f)
    <3>1. Taken(f) = out[f] \o (a \o b)  BY <1>3, <2>3, <2>4, ConcatEmptySeq DEF Taken
    <3>2. Taken(f)' = (out[f] \o a) \o b  BY <2>4 DEF Taken
    <3>3. out[f] \in Seq(Nat)  BY <1>3
    <3>4. (out[f] \o a) \o b = out[f] \o (a \o b)  BY <2>3, <3>3, Associative
    <3> QED  BY <3>1, <3>2, <3>4
  <2>6. buf[f] # <<>>
    <3>1. Len(buf[f]) # 0  BY <2>1
    <3> QED  BY <3>1, <1>3
  <2> QED  BY <1>2, <2>4, <2>5, <2>6
<1>10. CASE Send(f)
  <2>1. out'[f] = out[f] \o line[f] /\ line'[f] = <<>> /\ buf'[f] = buf[f] /\ pos'[f] = pos[f]
    BY <1>10 DEF Send, TypeOK
  <2>2. Taken(f)' = Taken(f)  BY <1>3, <1>4, <2>1, ConcatEmptySeq DEF Taken
  <2> QED  BY <1>6, <2>1, <2>2
<1>11. CASE Eof(f)
  <2>1. buf'[f] = <<>> /\ out'[f] = out[f] /\ line'[f] = line[f] /\ pos'[f] = pos[f]
    BY <1>11 DEF Eof, output, TypeOK
  <2>2. Taken(f)' = out[f] \o line[f]  BY <1>4, <2>1, ConcatEmptySeq DEF Taken
  <2>3. Ordered(Taken(f)', pos[f])  BY <1>2, <1>3, <1>4, <2>2, OrderedLess DEF Taken
  <2>4. ASSUME ~torn[f] PROVE buf[f] = <<>>
    <3> SUFFICES ASSUME buf[f] # <<>> PROVE FALSE
      OBVIOUS
    <3> DEFINE t == out[f] \o line[f]
               n == Len(Taken(f))
    <3>1. Len(buf[f]) \in Nat /\ Len(buf[f]) # 0 /\ Len(t) \in Nat /\ DOMAIN buf[f] = 1..Len(buf[f])
      BY <1>3, <1>4, LenProperties, EmptySeq
    <3>2. /\ n = Len(t) + Len(buf[f])
          /\ \A i \in 1..Len(t) + Len(buf[f]) :
                Taken(f)[i] = IF i <= Len(t) THEN t[i] ELSE buf[f][i - Len(t)]
      <4> HIDE DEF t
      <4>1. t \in Seq(Nat) /\ Taken(f) = t \o buf[f]  BY <1>4 DEF t, Taken
      <4> QED  BY <1>3, <4>1, ConcatProperties
    <3> HIDE DEF t, n
    <3>3. n \in 1..Len(t) + Len(buf[f]) /\ ~ (n <= Len(t)) /\ n - Len(t) = Len(buf[f])
      BY <3>1, <3>2
    <3>9. n \in 1..Len(Taken(f))  BY <3>1, <3>2 DEF n
    <3>4. Taken(f)[Len(Taken(f))] = buf[f][Len(buf[f])]  BY <3>2, <3>3 DEF n
    <3>5. Taken(f)[Len(Taken(f))] = pos[f] - Len(Taken(f)) + Len(Taken(f))
      BY <1>2, <2>4, <3>9 DEF Whole, n
    <3>6. pos[f] - Len(Taken(f)) + Len(Taken(f)) = pos[f]  BY <1>3, <1>4
    <3>7. IsNewline(buf[f][Len(buf[f])])  BY <1>2, <2>4, <3>4, <3>5, <3>6, Zenon
    <3>8. Len(buf[f]) \in DOMAIN buf[f]  BY <3>1
    <3> QED  BY <1>11, <3>7, <3>8, Zenon DEF Eof, HasLine
  <2>5. ASSUME ~torn[f] PROVE Taken(f)' = Taken(f)
    BY <1>4, <2>2, <2>4, <2>5, ConcatEmptySeq DEF Taken
  <2> QED  BY <1>2, <2>1, <2>3, <2>5
<1>12. CASE Reopen(f)
  <2>1. eventChan[f] \in Seq({"Create", "Write"}) /\ Head(eventChan[f]) = "Create" /\ eventChan[f] # <<>>
    BY <1>12 DEF Reopen, NextEvent, TypeOK
  <2>2. Head(eventChan[f]) = eventChan[f][1] /\ 1 \in 1..Len(eventChan[f])
    BY <2>1, HeadTailProperties, LenProperties
  <2> QED  BY <2>1, <2>2 DEF Grown
<1>13. CASE Wake(f)
  <2>1. ~ (Len(Content(f)) < since[f])
    <3>1. since[f] + Len(buf[f]) <= pos[f] /\ Len(buf[f]) \in Nat
      BY <1>3, <1>13, LenProperties DEF Wake, NextEvent, ReadAt, ReaderOK
    <3> QED  BY <1>3, <1>5, <3>1
  <2>2. UNCHANGED <<pos, out, line, buf>>  BY <1>13, <2>1 DEF Wake, NextEvent, output
  <2> QED  BY <1>6, <2>2 DEF Taken
<1>14. CASE OpenFails(f) \/ ReadFails(f)
  <2>1. UNCHANGED <<pos, out, line, buf>>  BY <1>14 DEF OpenFails, ReadFails, output
  <2> QED  BY <1>6, <2>1 DEF Taken
<1> QED
  BY <1>7, <1>8, <1>9, <1>10, <1>11, <1>12, <1>13, <1>14 DEF ReaderNext

LEMMA ReadsOKStep ==
    ASSUME TypeOK, Watching, TypeOK', NEW g \in Files, ReaderOK(g), Grown(g), Grown(g)', ReadOK(g),
           NEW f \in Files, ReaderNext(f) \/ WatcherNext(f) \/ DiskNext(f)
    PROVE  ReadOK(g)'
<1>1. CASE f # g
  <2>1. UNCHANGED Own(g)  BY <1>1, OthersKeep
  <2>2. UNCHANGED <<turns[g], torn[g], pos[g], buf[g], Taken(g)>>  BY <2>1 DEF Own, Taken
  <2> QED  BY <2>2 DEF ReadOK
<1>2. CASE f = g /\ ReaderNext(f)  BY <1>2, ReadOKStep
<1>3. CASE f = g /\ WatcherNext(f)
  <2>1. UNCHANGED <<turns, torn, pos, buf, Taken(g)>>
    BY <1>3, WatcherKeeps DEF notWatched, disk, reader, output, Taken
  <2> QED  BY <2>1 DEF ReadOK
<1>4. CASE f = g /\ DiskNext(f)
  <2>1. UNCHANGED <<pos, buf, Taken(g)>>
    BY <1>4 DEF DiskNext, AppendBytes, Truncate, Unlink, Create, EventIgnored, notWatched, reader, output, Taken
  <2>2. turns'[g] = 0 => turns[g] = 0
    <3>1. UNCHANGED turns \/ turns' = [turns EXCEPT ![f] = @ + 1]
      BY <1>4 DEF DiskNext, AppendBytes, Truncate, Unlink, Create, EventIgnored, notWatched, disk
    <3>2. turns \in [Files -> Nat]  BY DEF TypeOK
    <3>3. turns'[g] \in {turns[g], turns[g] + 1} /\ turns[g] \in Nat  BY <3>1, <3>2
    <3> QED  BY <3>3
  <2>3. ~torn'[g] => ~torn[g]
    <3>1. UNCHANGED torn \/ \E n \in Chunks : torn' = [torn EXCEPT ![f] = @ \/ ~IsNewline(appended[f] + n)]
      BY <1>4 DEF DiskNext, AppendBytes, Truncate, Unlink, Create, EventIgnored, notWatched, disk
    <3>2. torn \in [Files -> BOOLEAN]  BY DEF TypeOK
    <3> QED  BY <1>4, <3>1, <3>2
  <2> QED  BY <2>1, <2>2, <2>3 DEF ReadOK
<1> QED  BY <1>1, <1>2, <1>3, <1>4

-----------------------------------------------------------------------------
\* A line that is sent has one newline, at its end.
OneLine(l) == {b \in Range(l) : IsNewline(b)} = {Last(l)}
SentOK(f) ==
    /\ rpc[f] = "send" => OneLine(line[f])
    /\ \A i \in 1..Len(sent[f]) : OneLine(sent[f][i])

LEMMA SentOKStep ==
    ASSUME TypeOK, Watching, NEW g \in Files, SentOK(g),
           NEW f \in Files, ReaderNext(f) \/ WatcherNext(f) \/ DiskNext(f)
    PROVE  SentOK(g)'
<1>1. CASE UNCHANGED <<sent[g], line[g]>> /\ (rpc'[g] = "send" => rpc[g] = "send")
  BY <1>1 DEF SentOK
<1>2. CASE f # g
  <2>1. UNCHANGED Own(g)  BY <1>2, OthersKeep
  <2> QED  BY <1>1, <2>1 DEF Own
<1>3. CASE WatcherNext(f)
  BY <1>1, <1>3, WatcherKeeps DEF notWatched, reader, output
<1>4. CASE DiskNext(f)
  BY <1>1, <1>4 DEF DiskNext, AppendBytes, Truncate, Unlink, Create, EventIgnored, notWatched, reader, output
<1>5. CASE f = g /\ TakeLine(f)
  <2>1. buf[f] \in Seq(Nat) /\ HasLine(f)  BY <1>5 DEF TakeLine, TypeOK
  <2>2. /\ LineEnd(f) \in 1..Len(buf[f]) /\ IsNewline(buf[f][LineEnd(f)])
        /\ \A i \in 1..Len(buf[f]) : IsNewline(buf[f][i]) => LineEnd(f) <= i
        /\ Len(buf[f]) \in Nat
    BY <2>1, LineEndIn, LenProperties
  <2> DEFINE l == SubSeq(buf[f], 1, LineEnd(f))
             e == LineEnd(f)
  <2>3. l \in Seq(Nat) /\ Len(l) = e /\ (\A i \in 1..e : l[i] = buf[f][i])
    <3>1. LineEnd(f) \in 0..Len(buf[f])  BY <2>2
    <3> QED  BY <2>1, <3>1, Cut
  <2>4. line'[f] = l /\ UNCHANGED sent  BY <1>5 DEF TakeLine, output, TypeOK
  <2> HIDE DEF l, e
  <2>5. OneLine(l)
    <3>1. Range(l) = {l[i] : i \in 1..e}  BY <2>3, LenProperties, Zenon DEF Range
    <3>2. l[e] = buf[f][e] /\ e \in 1..e /\ e \in Nat  BY <2>2, <2>3 DEF e
    <3>3. IsNewline(l[e]) /\ l[e] \in Range(l)  BY <2>2, <3>1, <3>2, Zenon DEF e
    <3>4. ASSUME NEW b \in Range(l), IsNewline(b) PROVE b = l[e]
      <4>1. PICK i \in 1..e : b = l[i]  BY <3>1
      <4>2. l[i] = buf[f][i] /\ i \in 1..Len(buf[f])  BY <2>2, <2>3 DEF e
      <4>3. IsNewline(buf[f][i])  BY <3>4, <4>1, <4>2, Zenon
      <4>4. e <= i  BY <2>2, <4>2, <4>3, Zenon DEF e
      <4> QED  BY <3>2, <4>1, <4>4
    <3>5. Last(l) = l[e]  BY <2>3 DEF Last
    <3> QED  BY <3>3, <3>4, <3>5, Zenon DEF OneLine
  <2> QED  BY <1>5, <2>4, <2>5, Zenon DEF SentOK
<1>6. CASE f = g /\ Send(f)
  <2>1. sent'[f] = Append(sent[f], line[f]) /\ rpc'[f] = "read" /\ OneLine(line[f])
    BY <1>6 DEF Send, ReadAt, ReadGoto, SentOK, TypeOK
  <2>2. sent[f] \in Seq(Seq(Nat)) /\ line[f] \in Seq(Nat) /\ Len(sent[f]) \in Nat
    BY LenProperties DEF TypeOK
  <2>3. /\ Len(sent'[f]) = Len(sent[f]) + 1
        /\ \A i \in 1..Len(sent[f]) : sent'[f][i] = sent[f][i]
        /\ sent'[f][Len(sent[f]) + 1] = line[f]
    BY <2>1, <2>2, AppendProperties
  <2>4. ASSUME NEW i \in 1..Len(sent'[f]) PROVE OneLine(sent'[f][i])
    <3>1. CASE i \in 1..Len(sent[f])  BY <1>6, <2>3, <3>1, Zenon DEF SentOK
    <3>2. CASE i = Len(sent[f]) + 1  BY <2>1, <2>3, <3>2, Zenon
    <3>3. i \in 1..Len(sent[f]) \/ i = Len(sent[f]) + 1  BY <2>2, <2>3
    <3> QED  BY <3>1, <3>2, <3>3
  <2> QED  BY <1>6, <2>1, <2>4 DEF SentOK
<1>7. CASE f = g /\ ReaderNext(f) /\ ~TakeLine(f) /\ ~Send(f)
  <2>1. UNCHANGED <<sent, line>>
    BY <1>7 DEF ReaderNext, Open, OpenFails, Fill, Eof, ReadFails, Reopen, Wake, NextEvent, output
  <2>2. rpc'[f] = "send" => rpc[f] = "send"
    BY <1>7 DEF ReaderNext, Open, OpenFails, Fill, Eof, ReadFails, Reopen, Wake, ReadGoto, TypeOK
  <2> QED  BY <1>1, <1>7, <2>1, <2>2
<1> QED  BY <1>2, <1>3, <1>4, <1>5, <1>6, <1>7

LEMMA InitGrown == Init => \A f \in Files : Grown(f) /\ ReadOK(f) /\ SentOK(f)
<1> SUFFICES ASSUME Init, NEW f \in Files PROVE Grown(f) /\ ReadOK(f) /\ SentOK(f)
  OBVIOUS
<1>1. PICK size \in [Files -> Sizes] :
          /\ file = [g \in Files |-> [i \in 1..size[g] |-> i]]
          /\ appended = size
          /\ torn = [g \in Files |-> ~IsNewline(size[g])]
  BY DEF Init
<1>2. size[f] \in Nat /\ file[f] = [i \in 1..size[f] |-> i]  BY <1>1, SizesAssumption
<1>3. file[f] \in Seq(Nat)  BY <1>2, IsASeq
<1>4. Len(file[f]) = size[f] /\ \A i \in 1..size[f] : file[f][i] = i
  <2>1. DOMAIN file[f] = 1..Len(file[f]) /\ Len(file[f]) \in Nat  BY <1>3, LenProperties
  <2>2. DOMAIN file[f] = 1..size[f]  BY <1>2
  <2> QED  BY <1>2, <2>1, <2>2
<1>5. appended[f] = size[f] /\ (~torn[f] => IsNewline(appended[f]))  BY <1>1
<1>6. /\ exists[f] /\ ~detached[f] /\ pos[f] = 0 /\ rpc[f] = "open" /\ out[f] = <<>> /\ line[f] = <<>>
      /\ buf[f] = <<>> /\ sent[f] = <<>> /\ eventChan[f] = <<>> /\ hand[f] = <<>>
      /\ \A w \in Files : queue[w] = <<>>
  BY DEF Init
<1>7. Taken(f) = <<>>
  <2>1. <<>> \in Seq(Nat)  BY EmptySeq
  <2> QED  BY <1>6, <2>1, ConcatEmptySeq DEF Taken
<1>8. Len(<<>>) = 0  BY EmptySeq
<1>9. Grown(f)
  <2>1. pos[f] <= appended[f]  BY <1>2, <1>5, <1>6
  <2> QED  BY <1>4, <1>5, <1>6, <1>8, <2>1 DEF Grown
<1> QED  BY <1>6, <1>7, <1>8, <1>9 DEF ReadOK, Ordered, Whole, SentOK

-----------------------------------------------------------------------------
\* The reader knows of all its file has, so far as it waits for an event: it read
\* to the end, and it will not find the file shorter than its offset.
UpToDate(f) ==
    /\ rpc[f] \in {"read", "send", "event"} => since[f] + Len(buf[f]) <= Len(Content(f))
    /\ rpc[f] = "event" => Len(Content(f)) <= pos[f]

\* An event is coming while the reader is not up to date.
Told(f) == ~WatchAt(f, "done") /\ ~missed[f] /\ ~stolen[f]
WakeOK(f) == Told(f) => Coming(f) \/ UpToDate(f)

LEMMA SourceKept ==
    ASSUME NEW f, wpc'[f] = wpc[f], watching'[f] = watching[f], watcher' = watcher
    PROVE  Source(f)' = Source(f)
  BY DEF Source, WatchAt

LEMMA SourceType ==
    ASSUME TypeOK, NEW f \in Files
    PROVE  Source(f) \in Files \cup {NoWatcher}
<1>1. wpc[f] \in {"lookup", "create", "add", "wait", "send", "done"}  BY DEF TypeOK
<1>2. watching[f] \in Files \cup {NoWatcher} /\ watcher \in Files \cup {NoWatcher}  BY DEF TypeOK
<1>3. CASE wpc[f] = "wait"
  <2>1. Source(f) = watching[f]  BY <1>3 DEF Source, WatchAt
  <2> QED  BY <1>2, <2>1
<1>4. CASE wpc[f] \in {"create", "add"}
  <2>1. Source(f) = f  BY <1>4 DEF Source, WatchAt
  <2> QED  BY <2>1
<1>5. CASE wpc[f] \in {"lookup", "send", "done"}
  <2>1. Source(f) = watcher  BY <1>5 DEF Source, WatchAt
  <2> QED  BY <1>2, <2>1
<1> QED  BY <1>1, <1>3, <1>4, <1>5

LEMMA QueuedKept ==
    ASSUME TypeOK, NEW g \in Files, Queued(g), Source(g)' = Source(g),
           \A w \in Files :
              \/ queue'[w] = queue[w]
              \/ \E e \in Event : queue'[w] = Append(queue[w], e)
              \/ queue[w] # <<>> /\ queue'[w] = Tail(queue[w])
                 /\ (w = Source(g) => Head(queue[w]).file # g)
    PROVE  Queued(g)'
<1> DEFINE w == Source(g)
<1>1. w \in Files /\ w # NoWatcher  BY SourceType DEF Queued
<1>2. queue[w] \in Seq(Event)  BY <1>1 DEF TypeOK, Event
<1>3. DOMAIN queue[w] = 1..Len(queue[w]) /\ Len(queue[w]) \in Nat  BY <1>2, LenProperties
<1>4. PICK i \in 1..Len(queue[w]) : queue[w][i].file = g
  BY <1>3 DEF Queued, Range
<1>5. ASSUME NEW q \in Seq(Event), queue'[w] = q, NEW j \in 1..Len(q), q[j] = queue[w][i]
      PROVE  Queued(g)'
  <2>1. j \in DOMAIN q  BY LenProperties
  <2>2. q[j] \in Range(q) /\ q[j].file = g  BY <1>4, <1>5, <2>1 DEF Range
  <2> QED  BY <1>1, <1>5, <2>2 DEF Queued
<1> HIDE DEF w
<1>6. CASE queue'[w] = queue[w]  BY <1>2, <1>5, <1>6
<1>7. CASE \E e \in Event : queue'[w] = Append(queue[w], e)
  <2>1. PICK e \in Event : queue'[w] = Append(queue[w], e)  BY <1>7
  <2>2. /\ Append(queue[w], e) \in Seq(Event) /\ Len(Append(queue[w], e)) = Len(queue[w]) + 1
        /\ Append(queue[w], e)[i] = queue[w][i]
    BY <1>2, AppendProperties
  <2>3. i \in 1..Len(Append(queue[w], e))  BY <1>3, <2>2
  <2> QED  BY <1>5, <2>1, <2>2, <2>3
<1>8. CASE queue[w] # <<>> /\ queue'[w] = Tail(queue[w]) /\ Head(queue[w]).file # g
  <2>1. /\ Tail(queue[w]) \in Seq(Event) /\ Len(Tail(queue[w])) = Len(queue[w]) - 1
        /\ \A k \in 1..Len(Tail(queue[w])) : Tail(queue[w])[k] = queue[w][k + 1]
        /\ Head(queue[w]) = queue[w][1]
    BY <1>2, <1>8, HeadTailProperties
  <2>2. i # 1  BY <1>4, <1>8, <2>1
  <2>3. i - 1 \in 1..Len(Tail(queue[w])) /\ i - 1 + 1 = i  BY <1>3, <2>1, <2>2
  <2>4. Tail(queue[w])[i - 1] = queue[w][i]  BY <2>1, <2>3
  <2> QED  BY <1>5, <1>8, <2>1, <2>3, <2>4
<1> QED  BY <1>1, <1>6, <1>7, <1>8 DEF w

\* The step of a reader either leaves the events alone or brings it up to date.
LEMMA ReaderWakes ==
    ASSUME TypeOK, NEW f \in Files, ReaderOK(f), WakeOK(f), ReaderNext(f)
    PROVE  WakeOK(f)'
<1>1. UNCHANGED others
  BY DEF ReaderNext, Open, OpenFails, Fill, TakeLine, Send, Eof, ReadFails, Reopen, Wake, NextEvent
<1>2. Told(f)' = Told(f)  BY <1>1 DEF others, watches, history, Told, WatchAt
<1>3. UNCHANGED <<wpc, watching, watcher, hand, queue, file>>  BY <1>1 DEF others, watches, disk
<1>4. Queued(f)' = Queued(f)
  <2>1. Source(f)' = Source(f)  BY <1>3, SourceKept
  <2> QED  BY <1>3, <2>1 DEF Queued
<1>5. ASSUME eventChan'[f] = eventChan[f] PROVE Coming(f)' = Coming(f)
  BY <1>3, <1>4, <1>5 DEF Coming
<1>6. /\ buf[f] \in Seq(Nat) /\ Len(buf[f]) \in Nat /\ Len(<<>>) = 0
      /\ since[f] \in Nat /\ pos[f] \in Nat /\ file[f] \in Seq(Nat) /\ Len(file[f]) \in Nat
      /\ Content(f) \in Seq(Nat) /\ Len(Content(f)) \in Nat
  BY LenProperties, EmptySeq DEF TypeOK, Content
<1>7. ASSUME UNCHANGED <<detached, old>> PROVE Content(f)' = Content(f)
  BY <1>3, <1>7 DEF Content
<1>8. CASE Open(f)
  <2>1. OpenAt(f).offset <= OpenAt(f).position /\ OpenAt(f).position <= Len(file[f])
        /\ OpenAt(f).offset \in Nat /\ OpenAt(f).position \in Nat
    BY <1>6, OpenAtIn
  <2>2. rpc[f] = "open" /\ buf[f] = <<>> /\ ~detached[f] /\ UNCHANGED <<detached, old, buf>>
        /\ since'[f] = OpenAt(f).offset /\ rpc'[f] = "read"
    BY <1>8 DEF Open, ReadAt, ReadGoto, ReaderOK, TypeOK
  <2>3. Content(f)' = file[f]  BY <1>7, <2>2 DEF Content
  <2>4. UpToDate(f)'  BY <1>6, <2>1, <2>2, <2>3 DEF UpToDate
  <2> QED  BY <2>4 DEF WakeOK
<1>9. CASE Fill(f)
  <2> DEFINE s == SubSeq(Content(f), pos[f] + 1, Len(Content(f)))
  <2>1. pos[f] \in 0..Len(Content(f))  BY <1>6, <1>9 DEF Fill
  <2>2. s \in Seq(Nat) /\ Len(s) = Len(Content(f)) - pos[f]  BY <1>6, <2>1, Cut
  <2>3. buf'[f] = buf[f] \o s /\ since'[f] = since[f] /\ rpc'[f] = "read" /\ rpc[f] = "read"
        /\ UNCHANGED <<detached, old>>
    BY <1>9 DEF Fill, ReadAt, TypeOK
  <2> HIDE DEF s
  <2>4. Len(buf'[f]) = Len(buf[f]) + (Len(Content(f)) - pos[f])
    <3>1. Len(buf[f] \o s) = Len(buf[f]) + Len(s)  BY <1>6, <2>2, ConcatProperties
    <3> QED  BY <2>2, <2>3, <3>1
  <2>5. since[f] + Len(buf[f]) <= pos[f]  BY <2>3 DEF ReaderOK
  <2>6. UpToDate(f)'  BY <1>6, <1>7, <2>3, <2>4, <2>5 DEF UpToDate
  <2> QED  BY <2>6 DEF WakeOK
<1>10. CASE TakeLine(f)
  <2>1. LineEnd(f) \in 1..Len(buf[f])  BY <1>6, <1>10, LineEndIn DEF TakeLine
  <2>2. Len(SubSeq(buf[f], LineEnd(f) + 1, Len(buf[f]))) = Len(buf[f]) - LineEnd(f)
    <3>1. LineEnd(f) \in 0..Len(buf[f])  BY <1>6, <2>1
    <3> QED  BY <1>6, <3>1, Cut
  <2>3. Len(buf'[f]) = Len(buf[f]) - LineEnd(f) /\ since'[f] = since[f] + LineEnd(f)
        /\ rpc'[f] = "send" /\ rpc[f] = "read" /\ UNCHANGED <<detached, old, eventChan>>
    BY <1>10, <2>2 DEF TakeLine, ReadAt, ReadGoto, TypeOK
  <2>4. UpToDate(f) => UpToDate(f)'  BY <1>6, <1>7, <2>1, <2>3 DEF UpToDate
  <2> QED  BY <1>2, <1>5, <2>3, <2>4 DEF WakeOK
<1>11. CASE Send(f)
  <2>1. rpc[f] = "send" /\ rpc'[f] = "read" /\ UNCHANGED <<since, pos, buf, detached, old, eventChan>>
    BY <1>11 DEF Send, ReadAt, ReadGoto, TypeOK
  <2>2. UpToDate(f) => UpToDate(f)'  BY <1>7, <2>1 DEF UpToDate
  <2> QED  BY <1>2, <1>5, <2>1, <2>2 DEF WakeOK
<1>12. CASE Eof(f)
  <2>1. rpc[f] = "read" /\ rpc'[f] = "event" /\ buf'[f] = <<>> /\ Len(Content(f)) <= pos[f]
        /\ UNCHANGED <<since, pos, detached, old, eventChan>>
    BY <1>6, <1>12 DEF Eof, ReadAt, ReadGoto, TypeOK
  <2>2. UpToDate(f) => UpToDate(f)'  BY <1>6, <1>7, <2>1 DEF UpToDate
  <2> QED  BY <1>2, <1>5, <2>1, <2>2 DEF WakeOK
<1>13. CASE Reopen(f)
  <2>1. buf'[f] = <<>>  BY <1>13 DEF Reopen, NextEvent, ReadAt, ReaderOK
  <2>2. CASE exists[f]
    <3>1. since'[f] = 0 /\ rpc'[f] = "read" /\ detached'[f] = FALSE
      BY <1>13, <2>2 DEF Reopen, Rewind, ReadGoto, TypeOK
    <3>2. Content(f)' = file[f]  BY <1>3, <3>1 DEF Content
    <3> QED  BY <1>6, <2>1, <3>1, <3>2 DEF UpToDate, WakeOK
  <2>3. CASE ~exists[f]
    <3>1. rpc'[f] = "done"  BY <1>13, <2>3 DEF Reopen, ReadGoto, TypeOK
    <3> QED  BY <3>1 DEF UpToDate, WakeOK
  <2> QED  BY <2>2, <2>3
<1>14. CASE Wake(f)
  <2>1. buf'[f] = <<>> /\ rpc'[f] = "read" /\ UNCHANGED <<detached, old>>
    BY <1>14 DEF Wake, NextEvent, ReadAt, ReadGoto, ReaderOK, TypeOK
  <2>2. since'[f] <= Len(Content(f)) /\ since'[f] \in Nat
    <3>1. CASE Len(Content(f)) < since[f]
      BY <1>6, <1>14, <3>1 DEF Wake, Rewind, TypeOK
    <3>2. CASE ~ (Len(Content(f)) < since[f])
      BY <1>6, <1>14, <3>2 DEF Wake
    <3> QED  BY <3>1, <3>2
  <2> QED  BY <1>6, <1>7, <2>1, <2>2 DEF UpToDate, WakeOK
<1>15. CASE OpenFails(f) \/ ReadFails(f)
  <2>1. rpc'[f] = "done"  BY <1>15 DEF OpenFails, ReadFails, ReadGoto, TypeOK
  <2> QED  BY <2>1 DEF UpToDate, WakeOK
<1> QED
  BY <1>8, <1>9, <1>10, <1>11, <1>12, <1>13, <1>14, <1>15 DEF ReaderNext

\* What nobody's step takes from a file g that is not its own: what its reader has.
LEMMA ReaderSame ==
    ASSUME NEW g \in Files, UNCHANGED <<file[g], rpc[g], since[g], pos[g], buf[g], detached[g], old[g]>>
    PROVE  UpToDate(g)' = UpToDate(g)
<1>1. Content(g)' = Content(g)  BY DEF Content
<1> QED  BY <1>1 DEF UpToDate

\* A watcher's step takes no event from a reader, or is counted as stolen.
LEMMA WatcherWakes ==
    ASSUME TypeOK, Watching, NEW f \in Files, NEW g \in Files, WakeOK(g), WatcherNext(f)
    PROVE  WakeOK(g)'
<1>1. UpToDate(g)' = UpToDate(g)
  BY WatcherKeeps, ReaderSame DEF notWatched, disk, reader
<1>2. ASSUME Told(g)' => Told(g), Told(g)' /\ Coming(g) => Coming(g)'
      PROVE  WakeOK(g)'
  BY <1>1, <1>2 DEF WakeOK
<1>3. wpc \in [Files -> {"lookup", "create", "add", "wait", "send", "done"}]
      /\ watching \in [Files -> Files \cup {NoWatcher}]
      /\ stolen \in [Files -> BOOLEAN]
  BY DEF TypeOK
<1>4. ASSUME Source(g)' = Source(g), UNCHANGED queue PROVE Queued(g)' = Queued(g)
  BY <1>4 DEF Queued
<1>5. CASE WatchEnds(f) \/ WatchFails(f)
  <2>1. UNCHANGED <<history, watching, watcher, hand, queue, eventChan>> /\ wpc' = [wpc EXCEPT ![f] = "done"]
    BY <1>5 DEF WatchEnds, WatchFails, WatchGoto
  <2>2. CASE f = g
    <3>1. ~Told(g)'  BY <1>3, <2>1, <2>2 DEF Told, WatchAt
    <3> QED  BY <3>1 DEF WakeOK
  <2>3. CASE f # g
    <3>1. wpc'[g] = wpc[g]  BY <1>3, <2>1, <2>3
    <3>2. Source(g)' = Source(g)  BY <2>1, <3>1, SourceKept
    <3> QED  BY <1>2, <1>4, <2>1, <3>1, <3>2 DEF Told, WatchAt, history, Coming
  <2> QED  BY <2>2, <2>3
<1>6. CASE WatchLookup(f)
  <2>1. /\ UNCHANGED <<history, watcher, hand, queue, eventChan>>
        /\ wpc[f] = "lookup" /\ watching' = [watching EXCEPT ![f] = watcher]
        /\ wpc' = [wpc EXCEPT ![f] = IF watcher = NoWatcher THEN "create" ELSE "wait"]
    BY <1>6 DEF WatchLookup, WatchGoto, WatchAt
  <2>2. Told(g)' => Told(g)  BY <1>3, <2>1 DEF Told, WatchAt, history
  <2>3. Queued(g) => Queued(g)'
    <3>1. CASE f # g
      <4>1. wpc'[g] = wpc[g] /\ watching'[g] = watching[g]  BY <1>3, <2>1, <3>1
      <4>2. Source(g)' = Source(g)  BY <2>1, <4>1, SourceKept
      <4> QED  BY <1>4, <2>1, <4>2
    <3>2. CASE f = g
      <4> SUFFICES ASSUME Queued(g) PROVE Queued(g)'
        OBVIOUS
      <4>1. Source(g) = watcher  BY <2>1, <3>2 DEF Source, WatchAt
      <4>2. watcher # NoWatcher  BY <4>1 DEF Queued
      <4>3. wpc'[g] = "wait" /\ watching'[g] = watcher  BY <1>3, <2>1, <3>2, <4>2
      <4>4. Source(g)' = watcher  BY <4>3 DEF Source, WatchAt
      <4> QED  BY <1>4, <2>1, <4>1, <4>4
    <3> QED  BY <3>1, <3>2
  <2> QED  BY <1>2, <2>1, <2>2, <2>3 DEF Coming
<1>7. CASE WatchCreate(f)
  <2>1. /\ UNCHANGED <<hand, queue, eventChan, missed>>
        /\ wpc[f] = "create" /\ watching' = [watching EXCEPT ![f] = f] /\ watcher' = f
        /\ wpc' = [wpc EXCEPT ![f] = "add"]
        /\ stolen' = [h \in Files |-> stolen[h] \/ (WatchAt(h, "lookup") /\ Queued(h))]
    BY <1>7 DEF WatchCreate, WatchGoto, WatchAt
  <2>2. Told(g)' => Told(g)
    <3>1. ~stolen'[g] => ~stolen[g]  BY <2>1
    <3>2. wpc'[g] # "done" => wpc[g] # "done"  BY <1>3, <2>1
    <3>3. missed'[g] = missed[g]  BY <2>1
    <3> QED  BY <3>1, <3>2, <3>3 DEF Told, WatchAt
  <2>3. Told(g)' /\ Coming(g) => Coming(g)'
    <3> SUFFICES ASSUME Told(g)', Coming(g) PROVE Coming(g)'
      OBVIOUS
    <3>1. CASE eventChan[g] # <<>> \/ hand[g] # <<>>  BY <2>1, <3>1 DEF Coming
    <3>2. CASE Queued(g) /\ hand[g] = <<>>
      <4>1. ~stolen'[g]  BY DEF Told
      <4>2. wpc[g] # "lookup"  BY <2>1, <3>2, <4>1 DEF WatchAt
      <4>3. wpc[g] # "send"  BY <3>2 DEF Watching, WatchOK
      <4>4. wpc[g] # "done"  BY <2>2 DEF Told, WatchAt
      <4>5. Source(g)' = Source(g)
        <5>1. CASE f = g
          <6>1. wpc[g] = "create" /\ wpc'[g] = "add"  BY <1>3, <2>1, <5>1
          <6>2. Source(g) = g  BY <6>1 DEF Source, WatchAt
          <6>3. Source(g)' = g  BY <6>1 DEF Source, WatchAt
          <6> QED  BY <6>2, <6>3
        <5>2. CASE f # g
          <6>1. wpc'[g] = wpc[g] /\ watching'[g] = watching[g]  BY <1>3, <2>1, <5>2
          <6>2. CASE wpc[g] = "wait"
            <7>1. Source(g) = watching[g]  BY <6>2 DEF Source, WatchAt
            <7>2. Source(g)' = watching'[g]  BY <6>1, <6>2 DEF Source, WatchAt
            <7> QED  BY <6>1, <7>1, <7>2
          <6>3. CASE wpc[g] \in {"create", "add"}
            <7>1. Source(g) = g  BY <6>3 DEF Source, WatchAt
            <7>2. Source(g)' = g  BY <6>1, <6>3 DEF Source, WatchAt
            <7> QED  BY <7>1, <7>2
          <6> QED  BY <1>3, <4>2, <4>3, <4>4, <6>2, <6>3
        <5> QED  BY <5>1, <5>2
      <4>6. Queued(g)'  BY <1>4, <2>1, <3>2, <4>5
      <4> QED  BY <4>6 DEF Coming
    <3> QED  BY <3>1, <3>2 DEF Coming
  <2> QED  BY <1>2, <2>2, <2>3
<1>8. CASE WatchAdd(f)
  <2>1. /\ UNCHANGED <<history, watching, watcher, hand, queue, eventChan>>
        /\ wpc[f] = "add" /\ wpc' = [wpc EXCEPT ![f] = "wait"]
    BY <1>8 DEF WatchAdd, WatchGoto, WatchAt
  <2>2. Told(g)' => Told(g)  BY <1>3, <2>1 DEF Told, WatchAt, history
  <2>3. Source(g)' = Source(g)
    <3>1. CASE f # g
      <4>1. wpc'[g] = wpc[g]  BY <1>3, <2>1, <3>1
      <4> QED  BY <2>1, <4>1, SourceKept
    <3>2. CASE f = g
      <4>1. wpc'[g] = "wait" /\ watching'[g] = g  BY <1>3, <2>1, <3>2 DEF Watching, WatchOK
      <4>2. Source(g) = g  BY <2>1, <3>2 DEF Source, WatchAt
      <4>3. Source(g)' = g  BY <4>1 DEF Source, WatchAt
      <4> QED  BY <4>2, <4>3
    <3> QED  BY <3>1, <3>2
  <2> QED  BY <1>2, <1>4, <2>1, <2>2, <2>3 DEF Coming
<1>9. CASE WatchTake(f)
  <2> DEFINE w == watching[f]
  <2>1. /\ UNCHANGED <<history, watching, watcher, eventChan>>
        /\ wpc[f] = "wait" /\ queue[w] # <<>> /\ Head(queue[w]).file = f
        /\ queue' = [queue EXCEPT ![w] = Tail(queue[w])]
        /\ hand' = [hand EXCEPT ![f] = <<Head(queue[w]).op>>]
        /\ wpc' = [wpc EXCEPT ![f] = "send"]
    BY <1>9 DEF WatchTake, WatchGoto, WatchAt
  <2>2. Told(g)' => Told(g)  BY <1>3, <2>1 DEF Told, WatchAt, history
  <2>3. CASE f = g
    <3>1. hand'[g] # <<>>  BY <2>1, <2>3 DEF TypeOK
    <3> QED  BY <1>2, <2>2, <3>1 DEF Coming
  <2>4. CASE f # g
    <3>1. wpc'[g] = wpc[g] /\ hand'[g] = hand[g]  BY <1>3, <2>1, <2>4 DEF TypeOK
    <3>2. Source(g)' = Source(g)  BY <2>1, <3>1, SourceKept
    <3>3. \A v \in Files : queue'[v] = queue[v]
                           \/ (queue[v] # <<>> /\ queue'[v] = Tail(queue[v]) /\ Head(queue[v]).file # g)
      <4> HIDE DEF w
      <4> SUFFICES ASSUME NEW v \in Files
                   PROVE  queue'[v] = queue[v]
                          \/ (queue[v] # <<>> /\ queue'[v] = Tail(queue[v]) /\ Head(queue[v]).file # g)
        OBVIOUS
      <4>1. DOMAIN queue = Files  BY DEF TypeOK
      <4>2. CASE v = w  BY <2>1, <2>4, <4>1, <4>2
      <4>3. CASE v # w
        <5>1. queue' = [queue EXCEPT ![w] = Tail(queue[w])]  BY <2>1
        <5>2. queue'[v] = queue[v]  BY <4>1, <4>3, <5>1, Zenon
        <5> QED  BY <5>2
      <4> QED  BY <4>2, <4>3
    <3>4. Queued(g) => Queued(g)'  BY <3>2, <3>3, QueuedKept
    <3> QED  BY <1>2, <2>1, <2>2, <3>1, <3>4 DEF Coming
  <2> QED  BY <2>3, <2>4
<1>10. CASE WatchDrop(f)
  <2> DEFINE w == watching[f]
             h == Head(queue[w]).file
  <2>1. /\ UNCHANGED <<watches, eventChan, missed>>
        /\ wpc[f] = "wait" /\ queue[w] # <<>>
        /\ queue' = [queue EXCEPT ![w] = Tail(queue[w])]
        /\ stolen' = [stolen EXCEPT ![h] = stolen[h] \/ Source(h) = w]
    BY <1>10 DEF WatchDrop, WatchAt
  <2>2. UNCHANGED <<wpc, watching, watcher, hand>>  BY <2>1 DEF watches
  <2> HIDE DEF w, h
  <2>3. ~stolen'[g] => ~stolen[g] /\ (h = g => Source(g) # w)
    BY <1>3, <2>1
  <2>4. Told(g)' => Told(g)  BY <2>1, <2>2, <2>3 DEF Told, WatchAt
  <2>5. Source(g)' = Source(g)  BY <2>2, SourceKept
  <2>6. ASSUME ~stolen'[g], NEW v \in Files
        PROVE  queue'[v] = queue[v]
               \/ (queue[v] # <<>> /\ queue'[v] = Tail(queue[v])
                  /\ (v = Source(g) => Head(queue[v]).file # g))
    <3>1. DOMAIN queue = Files  BY DEF TypeOK
    <3>2. CASE v = w
      <4>1. queue'[v] = Tail(queue[v]) /\ queue[v] # <<>>  BY <2>1, <3>1, <3>2
      <4>2. v = Source(g) => h # g  BY <2>3, <2>6, <3>2
      <4> QED  BY <3>2, <4>1, <4>2 DEF h
    <3>3. CASE v # w
      <4>1. queue' = [queue EXCEPT ![w] = Tail(queue[w])]  BY <2>1
      <4>2. queue'[v] = queue[v]  BY <3>1, <3>3, <4>1, Zenon
      <4> QED  BY <4>2
    <3> QED  BY <3>2, <3>3
  <2>7. Told(g)' /\ Queued(g) => Queued(g)'
    <3> SUFFICES ASSUME Told(g)', Queued(g) PROVE Queued(g)'
      OBVIOUS
    <3>1. ~stolen'[g]  BY DEF Told
    <3> QED  BY <2>5, <2>6, <3>1, QueuedKept
  <2> QED  BY <1>2, <2>1, <2>2, <2>4, <2>7 DEF Coming
<1>11. CASE WatchPass(f)
  <2>1. /\ UNCHANGED <<history, watching, watcher, queue>>
        /\ wpc[f] = "send" /\ wpc' = [wpc EXCEPT ![f] = "lookup"]
        /\ eventChan' = [eventChan EXCEPT ![f] = @ \o hand[f]]
        /\ hand' = [hand EXCEPT ![f] = <<>>]
    BY <1>11 DEF WatchPass, WatchGoto, WatchAt
  <2>2. Told(g)' => Told(g)  BY <1>3, <2>1 DEF Told, WatchAt, history
  <2>3. CASE f = g
    <3>1. hand[g] # <<>>  BY <2>1, <2>3 DEF Watching, WatchOK
    <3>2. eventChan[g] \in Seq({"Create", "Write"}) /\ hand[g] \in Seq({"Create", "Write"})
      BY DEF TypeOK
    <3>3. Len(hand[g]) # 0 /\ Len(hand[g]) \in Nat /\ Len(eventChan[g]) \in Nat
      BY <3>1, <3>2, EmptySeq, LenProperties
    <3>4. Len(eventChan[g] \o hand[g]) = Len(eventChan[g]) + Len(hand[g])
      BY <3>2, ConcatProperties
    <3>5. eventChan'[g] = eventChan[g] \o hand[g]  BY <2>1, <2>3 DEF TypeOK
    <3>6. eventChan'[g] # <<>>
      <4>3. Len(eventChan'[g]) = Len(eventChan[g]) + Len(hand[g])  BY <3>4, <3>5
      <4>4. \A a, b \in Nat : b # 0 => a + b # 0  OBVIOUS
      <4>1. Len(eventChan'[g]) # 0  BY <3>3, <4>3, <4>4, Zenon
      <4>2. Len(<<>>) = 0  BY EmptySeq
      <4> QED  BY <4>1, <4>2
    <3> QED  BY <1>2, <2>2, <3>6 DEF Coming
  <2>4. CASE f # g
    <3>1. wpc'[g] = wpc[g] /\ hand'[g] = hand[g] /\ eventChan'[g] = eventChan[g]
      BY <1>3, <2>1, <2>4 DEF TypeOK
    <3>2. Source(g)' = Source(g)  BY <2>1, <3>1, SourceKept
    <3> QED  BY <1>2, <1>4, <2>1, <2>2, <3>1, <3>2 DEF Coming
  <2> QED  BY <2>3, <2>4
<1> QED  BY <1>5, <1>6, <1>7, <1>8, <1>9, <1>10, <1>11 DEF WatcherNext

\* A change of a watched file is queued for its watcher.
LEMMA NotifyQueues ==
    ASSUME TypeOK, NEW f \in Files, NEW op \in {"Create", "Write"}, Notify(f, op), UNCHANGED watches
    PROVE  /\ ~missed'[f] => Queued(f)'
           /\ \A g \in Files : Queued(g) => Queued(g)'
           /\ \A g \in Files \ {f} : missed'[g] = missed[g] /\ stolen'[g] = stolen[g]
<1> DEFINE e == [file |-> f, op |-> op]
           Merged(q) == q # <<>> /\ Last(q) = e
<1>1. PICK M \in SUBSET {w \in active : Merged(queue[w])} :
          queue' = [w \in Files |-> IF w \in active \ M THEN Append(queue[w], e) ELSE queue[w]]
  BY DEF Notify
<1>2. e \in Event /\ e.file = f  BY DEF Event
<1>3. missed' = [missed EXCEPT ![f] = ~Watched(f)] /\ stolen' = [stolen EXCEPT ![f] = FALSE]
  BY DEF Notify
<1>4. UNCHANGED <<wpc, watching, watcher>>  BY DEF watches
<1>5. \A g \in Files : Source(g)' = Source(g)  BY <1>4, SourceKept
<1>6. ASSUME NEW g \in Files, Queued(g) PROVE Queued(g)'
  <2>1. \A w \in Files : queue'[w] = queue[w] \/ \E d \in Event : queue'[w] = Append(queue[w], d)
    BY <1>1, <1>2
  <2> QED  BY <1>5, <1>6, <2>1, QueuedKept
<1>7. ASSUME ~missed'[f] PROVE Queued(f)'
  <2>1. Watched(f)  BY <1>3, <1>7 DEF TypeOK
  <2> DEFINE w == Source(f)
  <2>2. w \in active /\ w \in Files /\ w # NoWatcher
    BY <2>1, FilesAssumption DEF Watched, TypeOK
  <2>3. queue[w] \in Seq(Event) /\ Len(queue[w]) \in Nat  BY <2>2, LenProperties DEF TypeOK, Event
  <2> HIDE DEF w, e
  <2>4. ASSUME NEW q \in Seq(Event), queue'[w] = q, NEW k \in Nat \ {0}, Len(q) = k, q[k] = e
        PROVE  Queued(f)'
    <3>1. k \in DOMAIN q  BY <2>4, LenProperties
    <3>2. e \in Range(q)  BY <2>4, <3>1 DEF Range
    <3>3. Source(f)' = w  BY <1>5 DEF w
    <3> QED  BY <1>2, <2>2, <2>4, <3>2, <3>3 DEF Queued
  <2>5. CASE w \in M
    <3>1. queue'[w] = queue[w]  BY <1>1, <2>2, <2>5
    <3>2. queue[w] # <<>> /\ queue[w][Len(queue[w])] = e  BY <1>1, <2>5 DEF Last, e
    <3>3. Len(queue[w]) \in Nat \ {0}  BY <2>3, <3>2, EmptySeq
    <3> QED  BY <2>3, <2>4, <3>1, <3>2, <3>3
  <2>6. CASE w \notin M
    <3>1. queue'[w] = Append(queue[w], e)  BY <1>1, <2>2, <2>6
    <3>2. Append(queue[w], e) \in Seq(Event) /\ Len(Append(queue[w], e)) = Len(queue[w]) + 1
          /\ Append(queue[w], e)[Len(queue[w]) + 1] = e
      BY <1>2, <2>3, AppendProperties
    <3>3. Len(queue[w]) + 1 \in Nat \ {0}  BY <2>3
    <3> QED  BY <2>4, <3>1, <3>2, <3>3
  <2> QED  BY <2>5, <2>6
<1>8. \A g \in Files \ {f} : missed'[g] = missed[g] /\ stolen'[g] = stolen[g]
  BY <1>3 DEF TypeOK
<1> QED  BY <1>6, <1>7, <1>8

\* What happens to a file is noticed, or counted as missed.
LEMMA DiskWakes ==
    ASSUME TypeOK, Watching, NEW f \in Files, NEW g \in Files, WakeOK(g), DiskNext(f)
    PROVE  WakeOK(g)'
<1>1. UNCHANGED <<reader, watches, eventChan>>
  BY DEF DiskNext, AppendBytes, Truncate, Unlink, Create, EventIgnored, notWatched
<1>2. UNCHANGED <<rpc, since, pos, buf, wpc, watching, watcher, hand>>  BY <1>1 DEF reader, watches
<1>3. CASE Unlink(f)
  <2>1. UNCHANGED <<history, queue>>  BY <1>3 DEF Unlink
  <2>2. Told(g)' = Told(g)  BY <1>2, <2>1 DEF Told, WatchAt, history
  <2>3. Coming(g)' = Coming(g)
    <3>1. Source(g)' = Source(g)  BY <1>2, SourceKept
    <3> QED  BY <1>1, <1>2, <2>1, <3>1 DEF Coming, Queued
  <2>4. UpToDate(g)' = UpToDate(g)
    <3>1. CASE f # g
      <4>1. UNCHANGED Own(g)  BY <3>1, OthersKeep
      <4> QED  BY <4>1, ReaderSame DEF Own
    <3>2. CASE f = g /\ rpc[g] \in {"open", "done"}
      BY <1>2, <3>2 DEF UpToDate
    <3>3. CASE f = g /\ rpc[g] \notin {"open", "done"}
      <4>1. Content(g)' = Content(g)
        <5>1. CASE detached[g]
          <6>1. UNCHANGED <<detached, old>>  BY <1>3, <3>3, <5>1 DEF Unlink
          <6> QED  BY <5>1, <6>1 DEF Content
        <5>2. CASE ~detached[g]
          <6>1. detached'[g] = TRUE /\ old'[g] = file[g]
            BY <1>3, <3>3, <5>2 DEF Unlink, TypeOK
          <6> QED  BY <5>2, <6>1 DEF Content
        <5> QED  BY <5>1, <5>2
      <4> QED  BY <1>2, <4>1 DEF UpToDate
    <3> QED  BY <3>1, <3>2, <3>3
  <2> QED  BY <2>2, <2>3, <2>4 DEF WakeOK
<1>4. ASSUME NEW op \in {"Create", "Write"}, Notify(f, op) PROVE WakeOK(g)'
  <2>1. /\ ~missed'[f] => Queued(f)'
        /\ \A h \in Files : Queued(h) => Queued(h)'
        /\ \A h \in Files \ {f} : missed'[h] = missed[h] /\ stolen'[h] = stolen[h]
    BY <1>1, <1>4, NotifyQueues
  <2>2. CASE f = g
    <3>1. Told(g)' => ~missed'[g]  BY DEF Told
    <3> QED  BY <2>1, <2>2, <3>1 DEF Coming, WakeOK
  <2>3. CASE f # g
    <3>1. UNCHANGED Own(g)  BY <2>3, OthersKeep
    <3>2. UpToDate(g)' = UpToDate(g)  BY <3>1, ReaderSame DEF Own
    <3>3. Told(g)' = Told(g)  BY <1>2, <2>1, <2>3 DEF Told, WatchAt
    <3>4. Coming(g) => Coming(g)'  BY <1>1, <1>2, <2>1 DEF Coming
    <3> QED  BY <3>2, <3>3, <3>4 DEF WakeOK
  <2> QED  BY <2>2, <2>3
<1>5. CASE EventIgnored(f)
  <2> DEFINE h == Head(queue[f]).file
  <2>1. /\ queue[f] # <<>> /\ queue' = [queue EXCEPT ![f] = Tail(queue[f])]
        /\ missed' = [missed EXCEPT ![h] = missed[h] \/ Source(h) = f] /\ UNCHANGED stolen
    BY <1>5 DEF EventIgnored
  <2>2. UpToDate(g)' = UpToDate(g)
    <3>1. UNCHANGED <<disk, reader, detached, old>>  BY <1>5, IgnoredTypes
    <3> QED  BY <3>1, ReaderSame DEF disk, reader
  <2> HIDE DEF h
  <2>3. ~missed'[g] => ~missed[g] /\ (h = g => Source(g) # f)
    <3>1. missed \in [Files -> BOOLEAN]  BY DEF TypeOK
    <3> QED  BY <2>1, <3>1
  <2>4. Told(g)' => Told(g)  BY <1>2, <2>1, <2>3 DEF Told, WatchAt
  <2>5. Source(g)' = Source(g)  BY <1>2, SourceKept
  <2>6. ASSUME ~missed'[g], NEW v \in Files
        PROVE  queue'[v] = queue[v]
               \/ (queue[v] # <<>> /\ queue'[v] = Tail(queue[v])
                  /\ (v = Source(g) => Head(queue[v]).file # g))
    <3>1. DOMAIN queue = Files  BY DEF TypeOK
    <3>2. CASE v = f
      <4>1. queue'[v] = Tail(queue[v]) /\ queue[v] # <<>>  BY <2>1, <3>1, <3>2
      <4>2. v = Source(g) => h # g  BY <2>3, <2>6, <3>2
      <4> QED  BY <3>2, <4>1, <4>2 DEF h
    <3>3. CASE v # f
      <4>1. queue' = [queue EXCEPT ![f] = Tail(queue[f])]  BY <2>1
      <4>2. queue'[v] = queue[v]  BY <3>1, <3>3, <4>1, Zenon
      <4> QED  BY <4>2
    <3> QED  BY <3>2, <3>3
  <2>7. Told(g)' /\ Queued(g) => Queued(g)'
    <3> SUFFICES ASSUME Told(g)', Queued(g) PROVE Queued(g)'
      OBVIOUS
    <3>1. ~missed'[g]  BY DEF Told
    <3> QED  BY <2>5, <2>6, <3>1, QueuedKept
  <2> QED  BY <1>1, <1>2, <2>2, <2>4, <2>7 DEF WakeOK, Coming
<1> QED  BY <1>3, <1>4, <1>5 DEF DiskNext, AppendBytes, Truncate, Create

LEMMA WakesOKStep ==
    ASSUME TypeOK, Watching, NEW g \in Files, ReaderOK(g), WakeOK(g),
           NEW f \in Files, ReaderNext(f) \/ WatcherNext(f) \/ DiskNext(f)
    PROVE  WakeOK(g)'
<1>1. CASE f = g /\ ReaderNext(f)  BY <1>1, ReaderWakes
<1>2. CASE f # g /\ ReaderNext(f)
  <2>1. UNCHANGED Own(g)  BY <1>2, OthersKeep
  <2>2. UpToDate(g)' = UpToDate(g)  BY <2>1, ReaderSame DEF Own
  <2>3. UNCHANGED others
    BY <1>2 DEF ReaderNext, Open, OpenFails, Fill, TakeLine, Send, Eof, ReadFails, Reopen, Wake, NextEvent
  <2>4. UNCHANGED <<wpc, watching, watcher, hand, queue, missed, stolen>>
    BY <2>3 DEF others, watches, history
  <2>5. Source(g)' = Source(g)  BY <2>4, SourceKept
  <2>6. Coming(g)' = Coming(g)  BY <2>1, <2>4, <2>5 DEF Own, Coming, Queued
  <2> QED  BY <2>2, <2>4, <2>6 DEF WakeOK, Told, WatchAt
<1>3. CASE WatcherNext(f)  BY <1>3, WatcherWakes
<1>4. CASE DiskNext(f)  BY <1>4, DiskWakes
<1> QED  BY <1>1, <1>2, <1>3, <1>4

-----------------------------------------------------------------------------
ReaderInv(f) == ReaderOK(f) /\ Grown(f) /\ ReadOK(f) /\ SentOK(f) /\ WakeOK(f)
IInv == TypeOK /\ Watching /\ \A f \in Files : ReaderInv(f)

\* The readers, watchers and files keep the invariant.
THEOREM Invariance == Spec => []IInv
<1>1. Init => IInv
  <2>1. Init => \A f \in Files : ReaderOK(f)  BY DEF Init, ReaderOK
  <2>2. Init => \A f \in Files : WakeOK(f)  BY DEF Init, WakeOK, UpToDate
  <2> QED  BY <2>1, <2>2, InitTypes, InitWatching, InitGrown DEF IInv, ReaderInv
<1>2. IInv /\ [Next]_vars => IInv'
  <2> SUFFICES ASSUME IInv, [Next]_vars PROVE IInv'
    OBVIOUS
  <2>0. TypeOK /\ Watching /\ \A g \in Files : ReaderOK(g) /\ Grown(g) /\ ReadOK(g) /\ SentOK(g)
                                                  /\ WakeOK(g)
    BY DEF IInv, ReaderInv
  <2>1. CASE UNCHANGED vars
    <3> USE <2>0, <2>1 DEF vars, disk, reader, output, watches, history
    <3>1. TypeOK'  BY DEF TypeOK
    <3>2. Watching'  BY DEF Watching, WatchOK
    <3>3. ASSUME NEW g \in Files PROVE ReaderInv(g)'
      <4>1. ReaderOK(g)'  BY DEF ReaderOK
      <4>2. Grown(g)'  BY DEF Grown
      <4>3. ReadOK(g)'  BY DEF ReadOK, Taken
      <4>4. SentOK(g)'  BY DEF SentOK
      <4>5. WakeOK(g)'  BY DEF WakeOK, Told, WatchAt, Coming, Queued, Source, UpToDate, Content
      <4> QED  BY <4>1, <4>2, <4>3, <4>4, <4>5 DEF ReaderInv
    <3> QED  BY <3>1, <3>2, <3>3 DEF IInv
  <2>2. ASSUME NEW f \in Files, ReaderNext(f) \/ WatcherNext(f) \/ DiskNext(f)
        PROVE  IInv'
    <3>1. TypeOK' /\ Watching'
      BY <2>0, <2>2, ReaderTypes, WatcherTypes, DiskTypes, WatchingStep
    <3>2. ASSUME NEW g \in Files PROVE ReaderInv(g)'
      <4>1. ReaderOK(g)'  BY <2>0, <2>2, ReadersOKStep
      <4>2. Grown(g)'  BY <2>0, <2>2, GrownStep
      <4>3. ReadOK(g)'  BY <2>0, <2>2, <3>1, <4>2, ReadsOKStep
      <4>4. SentOK(g)'  BY <2>0, <2>2, SentOKStep
      <4>5. WakeOK(g)'  BY <2>0, <2>2, WakesOKStep
      <4> QED  BY <4>1, <4>2, <4>3, <4>4, <4>5 DEF ReaderInv
    <3> QED  BY <3>1, <3>2 DEF IInv
  <2> QED  BY <2>1, <2>2 DEF Next
<1> QED  BY <1>1, <1>2, PTL DEF Spec

\* Every variable of the readers, watchers and files keeps its type.
THEOREM TypeCorrect == Spec => []TypeOK
<1>1. IInv => TypeOK  BY DEF IInv
<1> QED  BY <1>1, Invariance, PTL

\* The offset a restart continues from is never ahead of the reader, however the
\* file is truncated, replaced or written in pieces (flie_input.go:196).
THEOREM OffsetStaysBehind == Spec => []OffsetBehind
<1>1. IInv => OffsetBehind  BY DEF IInv, ReaderInv, ReaderOK, OffsetBehind
<1> QED  BY <1>1, Invariance, PTL

\* Of a file that is only appended to, whole lines at a time, every byte from
\* where the reader began is taken once and in order.
THEOREM EveryByteIsRead == Spec => []ReadsAll
<1>1. IInv => ReadsAll
  <2> SUFFICES ASSUME IInv, NEW f \in Files, turns[f] = 0, ~torn[f]
               PROVE  Taken(f) = SubSeq(file[f], pos[f] - Len(Taken(f)) + 1, pos[f])
    BY DEF ReadsAll
  <2> DEFINE t == Taken(f)
             s == file[f]
             p == pos[f]
  <2>1. Ordered(t, p) /\ Whole(t, p)  BY DEF IInv, ReaderInv, ReadOK
  <2>2. p \in Nat /\ p <= Len(s) /\ (\A i \in 1..Len(s) : s[i] = i)
    <3>1. Grown(f) /\ TypeOK  BY DEF IInv, ReaderInv
    <3>2. pos[f] \in Nat  BY <3>1 DEF TypeOK
    <3>3. Len(file[f]) = appended[f] /\ pos[f] <= appended[f] /\ \A i \in 1..appended[f] : file[f][i] = i
      BY <3>1 DEF Grown
    <3> QED  BY <3>2, <3>3
  <2>3. s \in Seq(Nat) /\ Len(s) \in Nat /\ t \in Seq(Nat) /\ Len(t) \in Nat
    BY ConcatProperties, LenProperties DEF IInv, TypeOK, Taken
  <2> HIDE DEF t, s, p
  <2> DEFINE k == p - Len(t)
  <2>4. k \in Nat
    <3>1. CASE Len(t) = 0  BY <2>2, <3>1
    <3>2. CASE Len(t) # 0
      <4>1. 1 \in 1..Len(t)  BY <2>3, <3>2
      <4>2. t[1] \in 1..p /\ t[1] = p - Len(t) + 1  BY <2>1, <4>1 DEF Ordered, Whole
      <4> QED  BY <2>2, <2>3, <4>2
    <3> QED  BY <3>1, <3>2
  <2>5. /\ SubSeq(s, k + 1, p) \in Seq(Nat) /\ Len(SubSeq(s, k + 1, p)) = Len(t)
        /\ \A i \in 1..Len(t) : SubSeq(s, k + 1, p)[i] = s[k + i]
    <3>1. \A i \in k + 1..p : s[i] \in Nat  BY <2>2, <2>3, <2>4
    <3>2. k + 1 \in Int /\ p \in Int /\ Len(t) = p - k  BY <2>2, <2>3, <2>4
    <3>3. /\ SubSeq(s, k + 1, p) \in Seq(Nat)
          /\ Len(SubSeq(s, k + 1, p)) = IF k + 1 <= p THEN p - (k + 1) + 1 ELSE 0
          /\ \A i \in 1..p - (k + 1) + 1 : SubSeq(s, k + 1, p)[i] = s[k + 1 + i - 1]
      BY <3>1, <3>2, SubSeqProperties
    <3> HIDE DEF k
    <3>4. Len(SubSeq(s, k + 1, p)) = Len(t)  BY <2>2, <2>3, <2>4, <3>2, <3>3
    <3>5. \A i \in 1..Len(t) : i \in 1..p - (k + 1) + 1 /\ k + 1 + i - 1 = k + i
      BY <2>2, <2>3, <2>4, <3>2
    <3>6. \A i \in 1..Len(t) : SubSeq(s, k + 1, p)[i] = s[k + i]  BY <3>3, <3>5, Zenon
    <3> QED  BY <3>3, <3>4, <3>6
  <2>6. \A i \in 1..Len(t) : t[i] = SubSeq(s, k + 1, p)[i]
    <3> SUFFICES ASSUME NEW i \in 1..Len(t) PROVE t[i] = SubSeq(s, k + 1, p)[i]
      OBVIOUS
    <3>1. t[i] = k + i  BY <2>1 DEF Whole
    <3>2. k + i \in 1..Len(s)  BY <2>2, <2>3, <2>4
    <3>3. SubSeq(s, k + 1, p)[i] = s[k + i]  BY <2>5
    <3>4. s[k + i] = k + i  BY <2>2, <3>2
    <3> QED  BY <3>1, <3>3, <3>4
  <2> HIDE DEF k
  <2>7. t = SubSeq(s, k + 1, p)  BY <2>3, <2>5, <2>6, SeqEqual
  <2> QED  BY <2>7 DEF t, s, p, k
<1> QED  BY <1>1, Invariance, PTL

\* Of a file that is written in pieces too, no line is sent twice, out of order, or
\* joined with another (readline, flie_input.go:248-278).
THEOREM LinesAreSentOnce == Spec => []SentLines
<1>1. IInv => SentLines
  <2> SUFFICES ASSUME IInv, NEW f \in Files, turns[f] = 0
               PROVE  /\ \A i \in 1..Len(Taken(f)) - 1 : Taken(f)[i] < Taken(f)[i + 1]
                      /\ \A i \in DOMAIN sent[f] :
                            {b \in Range(sent[f][i]) : IsNewline(b)} = {Last(sent[f][i])}
    BY DEF SentLines
  <2>1. \A i \in 1..Len(Taken(f)) - 1 : Taken(f)[i] < Taken(f)[i + 1]
    <3>1. Len(Taken(f)) \in Nat
      BY ConcatProperties, LenProperties DEF IInv, TypeOK, Taken
    <3>2. \A i, j \in 1..Len(Taken(f)) : i < j => Taken(f)[i] < Taken(f)[j]
      BY DEF IInv, ReaderInv, ReadOK, Ordered
    <3> SUFFICES ASSUME NEW i \in 1..Len(Taken(f)) - 1 PROVE Taken(f)[i] < Taken(f)[i + 1]
      OBVIOUS
    <3>3. i \in 1..Len(Taken(f)) /\ i + 1 \in 1..Len(Taken(f)) /\ i < i + 1  BY <3>1
    <3> QED  BY <3>2, <3>3
  <2>2. \A i \in DOMAIN sent[f] : OneLine(sent[f][i])
    <3>1. DOMAIN sent[f] = 1..Len(sent[f])  BY LenProperties DEF IInv, TypeOK
    <3> QED  BY <3>1 DEF IInv, ReaderInv, SentOK
  <2> QED  BY <2>1, <2>2 DEF OneLine
<1> QED  BY <1>1, Invariance, PTL

\* A reader that waits while its file has something new has an event coming, if a
\* watch was there in time, the file was there when fsnotify read the event, no
\* other loop took it, and its own was not ended by a removal or an error.
THEOREM EventIsComing == Spec => []WakeupComing
<1>1. IInv => WakeupComing
  <2> SUFFICES ASSUME IInv, NEW f \in Files, Unread(f), Told(f) PROVE Coming(f)
    BY DEF WakeupComing, Told
  <2>1. WakeOK(f) /\ since[f] \in Nat /\ pos[f] \in Nat /\ buf[f] \in Seq(Nat)
        /\ Content(f) \in Seq(Nat)
    BY DEF IInv, ReaderInv, TypeOK, Content
  <2>2. Len(buf[f]) \in Nat /\ Len(Content(f)) \in Nat  BY <2>1, LenProperties
  <2>3. ~UpToDate(f)  BY <2>1, <2>2 DEF Unread, ReadAt, UpToDate
  <2> QED  BY <2>1, <2>3 DEF WakeOK
<1> QED  BY <1>1, Invariance, PTL

=============================================================================

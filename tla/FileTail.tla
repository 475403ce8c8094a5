------------------------------ MODULE FileTail ------------------------------
(***************************************************************************)
(* The file input (input/file/flie_input.go): for each file a reader,      *)
(* fileReadLoop, and a watcher, fileWatchLoop, which share the inotify     *)
(* watchers of mapWatcher; and the files, which others append to, truncate *)
(* and replace meanwhile.  All files are in one directory.                 *)
(*                                                                         *)
(* The bytes appended to a file are numbered; a line has two of them, the  *)
(* even one is its '\n'.  A line that was sent is the sequence of the      *)
(* bytes it had.  The save of the offsets is in SinceDB.                   *)
(***************************************************************************)
EXTENDS Naturals, SequencesExt, FiniteSetsExt, Functions

CONSTANTS
    Files,          \* the files that match stdFilePath
    Sizes,          \* how many bytes a file may have when the process starts
    Offsets,        \* the offsets LoadSinceDBInfos may have restored
    ReadEventSize,  \* capacity of readEventChan, 10 in the code
    Chunks,         \* how many bytes an append may write
    MayFail,        \* the calls that may fail, of "read" and "watch"
    MaxBytes,       \* bound: bytes appended to a file
    MaxTurns        \* bound: times a file is truncated or replaced

ASSUME SizesAssumption  == Sizes \subseteq Nat /\ Offsets \subseteq Nat
ASSUME EventsAssumption == ReadEventSize \in Nat \ {0}
ASSUME ChunksAssumption == Chunks \subseteq Nat \ {0}
ASSUME FailAssumption   == MayFail \subseteq {"read", "watch"}

NoWatcher == "none"

ASSUME FilesAssumption == NoWatcher \notin Files

VARIABLES
    file,       \* the bytes of the file that has the path
    exists,     \* there is one
    appended,   \* the number of the last byte appended
    torn,       \* an append ended in the middle of a line
    turns,      \* how many truncations and removals there were
    rpc,        \* where fileReadLoop is
    since,      \* SinceDBInfos[fpath].Offset
    pos,        \* position of fp
    buf,        \* bytes in the bufio.Reader
    detached,   \* fp is a file that does not have the path any more,
    old,        \*   and its bytes
    line,       \* the line being sent
    sent,       \* the lines Inchan took, in order
    out,        \* history: the bytes of these lines
    wpc,        \* where fileWatchLoop is
    watching,   \* the watcher it waits on
    watcher,    \* mapWatcher[fdir]; a watcher has the name of the file for which
                \* it was made
    active,     \* the watchers to which the directory was added
    queue,      \* the events each watcher still has to give
    hand,       \* the event fileWatchLoop is passing on
    eventChan,  \* readEventChan
    missed,     \* the last change of the file came when nobody watched it, or an
                \* event of it since was ignored
    stolen      \* the last event of the file went to the watcher of another

disk    == <<file, exists, appended, torn, turns>>
output  == <<sent, out>>
reader  == <<rpc, since, pos, buf, line, output>>
watches == <<wpc, watching, watcher, active, hand>>
history == <<missed, stolen>>
vars    == <<disk, reader, detached, old, watches, queue, eventChan, history>>
\* What the steps of fileReadLoop, and of fileWatchLoop, leave alone.
others  == <<disk, watches, queue, history>>
notWatched == <<disk, reader, detached, old>>

IsNewline(b) == b % 2 = 0
\* What fp reads from.
Content(f) == IF detached[f] THEN old[f] ELSE file[f]

Init ==
    /\ \E size \in [Files -> Sizes] :
          /\ file = [f \in Files |-> [i \in 1..size[f] |-> i]]
          /\ appended = size
          /\ torn = [f \in Files |-> ~IsNewline(size[f])]
    /\ exists = [f \in Files |-> TRUE]
    /\ turns = [f \in Files |-> 0]
    /\ rpc = [f \in Files |-> "open"]
    /\ since \in [Files -> Offsets]
    /\ pos = [f \in Files |-> 0]
    /\ buf = [f \in Files |-> <<>>]
    /\ detached = [f \in Files |-> FALSE]
    /\ old = [f \in Files |-> <<>>]
    /\ line = [f \in Files |-> <<>>]
    /\ sent = [f \in Files |-> <<>>]
    /\ out = [f \in Files |-> <<>>]
    /\ wpc = [f \in Files |-> "lookup"]
    /\ watching = [f \in Files |-> NoWatcher]
    /\ watcher = NoWatcher
    /\ active = {}
    /\ queue = [w \in Files |-> <<>>]
    /\ hand = [f \in Files |-> <<>>]
    /\ eventChan = [f \in Files |-> <<>>]
    /\ missed = [f \in Files |-> FALSE]
    /\ stolen = [f \in Files |-> FALSE]

-----------------------------------------------------------------------------
\* fileReadLoop.

ReadAt(f, l) == rpc[f] = l
ReadGoto(f, l) == rpc' = [rpc EXCEPT ![f] = l]

\* StartPos is "end" and nothing configures it: a file without an offset is
\* read from where it ends now, one with an offset from there, a file that is
\* shorter than its offset from its beginning.
OpenAt(f) ==
    CASE since[f] = 0              -> [offset |-> 0, position |-> Len(file[f])]
      [] since[f] > Len(file[f])   -> [offset |-> 0, position |-> 0]
      [] since[f] \in 1..Len(file[f]) -> [offset |-> since[f], position |-> since[f]]

Open(f) ==
    /\ ReadAt(f, "open")
    /\ exists[f]
    /\ since' = [since EXCEPT ![f] = OpenAt(f).offset]
    /\ pos' = [pos EXCEPT ![f] = OpenAt(f).position]
    /\ ReadGoto(f, "read")
    /\ UNCHANGED <<others, buf, line, output, detached, old, eventChan>>

\* The path leads nowhere: the reader ends.
OpenFails(f) ==
    /\ ReadAt(f, "open")
    /\ ~exists[f]
    /\ ReadGoto(f, "done")
    /\ UNCHANGED <<others, since, pos, buf, line, output, detached, old, eventChan>>

\* ReadBytes gives a line if the buffer has one, and fills the buffer if not.
HasLine(f) == \E i \in DOMAIN buf[f] : IsNewline(buf[f][i])
LineEnd(f) == Min({i \in DOMAIN buf[f] : IsNewline(buf[f][i])})

\* Mutant: fp is moved to the offset before each read.
FillFromOffset(f) ==
    /\ ReadAt(f, "read")
    /\ ~HasLine(f)
    /\ pos[f] < Len(Content(f))
    /\ buf' = [buf EXCEPT ![f] = @ \o SubSeq(Content(f), since[f] + 1, Len(Content(f)))]
    /\ pos' = [pos EXCEPT ![f] = Len(Content(f))]
    /\ UNCHANGED <<others, rpc, since, line, output, detached, old, eventChan>>

Fill(f) ==
    /\ ReadAt(f, "read")
    /\ ~HasLine(f)
    /\ pos[f] < Len(Content(f))
    /\ buf' = [buf EXCEPT ![f] = @ \o SubSeq(Content(f), pos[f] + 1, Len(Content(f)))]
    /\ pos' = [pos EXCEPT ![f] = Len(Content(f))]
    /\ UNCHANGED <<others, rpc, since, line, output, detached, old, eventChan>>

\* Mutant: the offset counts everything fp has read.
TakeLineToPos(f) ==
    /\ ReadAt(f, "read")
    /\ HasLine(f)
    /\ line' = [line EXCEPT ![f] = SubSeq(buf[f], 1, LineEnd(f))]
    /\ buf' = [buf EXCEPT ![f] = SubSeq(@, LineEnd(f) + 1, Len(@))]
    /\ since' = [since EXCEPT ![f] = @ + Len(buf[f])]
    /\ ReadGoto(f, "send")
    /\ UNCHANGED <<others, pos, output, detached, old, eventChan>>

\* Mutant: what the buffer holds behind the line is lost.
TakeLineOnly(f) ==
    /\ ReadAt(f, "read")
    /\ HasLine(f)
    /\ line' = [line EXCEPT ![f] = SubSeq(buf[f], 1, LineEnd(f))]
    /\ buf' = [buf EXCEPT ![f] = <<>>]
    /\ since' = [since EXCEPT ![f] = @ + LineEnd(f)]
    /\ ReadGoto(f, "send")
    /\ UNCHANGED <<others, pos, output, detached, old, eventChan>>

\* The offset moves behind the line before the line is sent.
TakeLine(f) ==
    /\ ReadAt(f, "read")
    /\ HasLine(f)
    /\ line' = [line EXCEPT ![f] = SubSeq(buf[f], 1, LineEnd(f))]
    /\ buf' = [buf EXCEPT ![f] = SubSeq(@, LineEnd(f) + 1, Len(@))]
    /\ since' = [since EXCEPT ![f] = @ + LineEnd(f)]
    /\ ReadGoto(f, "send")
    /\ UNCHANGED <<others, pos, output, detached, old, eventChan>>

Send(f) ==
    /\ ReadAt(f, "send")
    /\ sent' = [sent EXCEPT ![f] = Append(@, line[f])]
    /\ out' = [out EXCEPT ![f] = @ \o line[f]]
    /\ line' = [line EXCEPT ![f] = <<>>]
    /\ ReadGoto(f, "read")
    /\ UNCHANGED <<others, since, pos, buf, detached, old, eventChan>>

\* At the end of the file ReadBytes takes the rest that is no line out of its
\* buffer and readline drops it.
Eof(f) ==
    /\ ReadAt(f, "read")
    /\ ~HasLine(f)
    /\ pos[f] >= Len(Content(f))
    /\ buf' = [buf EXCEPT ![f] = <<>>]
    /\ ReadGoto(f, "event")
    /\ UNCHANGED <<others, since, pos, line, output, detached, old, eventChan>>

ReadFails(f) ==
    /\ "read" \in MayFail
    /\ ReadAt(f, "read") /\ ~HasLine(f)
    /\ ReadGoto(f, "done")
    /\ UNCHANGED <<others, since, pos, buf, line, output, detached, old, eventChan>>

NextEvent(f) ==
    /\ ReadAt(f, "event")
    /\ eventChan[f] # <<>>
    /\ eventChan' = [eventChan EXCEPT ![f] = Tail(@)]
    /\ UNCHANGED <<others, buf, line, output>>

\* Mutant: the offset goes back by the way fp goes back.
RewindBack(f) == since' = [since EXCEPT ![f] = @ - pos[f]] /\ pos' = [pos EXCEPT ![f] = 0]

\* fp is at position 0 of its file, and so is the offset.
Rewind(f) == since' = [since EXCEPT ![f] = 0] /\ pos' = [pos EXCEPT ![f] = 0]

\* A Create event: the file that has the path now is opened.
Reopen(f) ==
    /\ NextEvent(f) /\ Head(eventChan[f]) = "Create"
    /\ IF exists[f]
       THEN /\ Rewind(f) /\ ReadGoto(f, "read")
            /\ detached' = [detached EXCEPT ![f] = FALSE]
            /\ old' = [old EXCEPT ![f] = <<>>]
       ELSE /\ since' = [since EXCEPT ![f] = 0] /\ ReadGoto(f, "done")
            /\ UNCHANGED <<pos, detached, old>>

\* Mutant: the size is not looked at.
WakeUnchecked(f) ==
    /\ NextEvent(f) /\ Head(eventChan[f]) # "Create"
    /\ UNCHANGED <<since, pos>>
    /\ ReadGoto(f, "read")
    /\ UNCHANGED <<detached, old>>

\* Any other event: only the size tells whether the file was truncated.
Wake(f) ==
    /\ NextEvent(f) /\ Head(eventChan[f]) # "Create"
    /\ IF Len(Content(f)) < since[f] THEN Rewind(f) ELSE UNCHANGED <<since, pos>>
    /\ ReadGoto(f, "read")
    /\ UNCHANGED <<detached, old>>

-----------------------------------------------------------------------------
\* fileWatchLoop and waitWatchEvent.

WatchAt(f, l) == wpc[f] = l
WatchGoto(f, l) == wpc' = [wpc EXCEPT ![f] = l]

\* The watcher from which the loop of f takes its next event, and whether it has one.
Source(f) == CASE WatchAt(f, "wait") -> watching[f]
               [] wpc[f] \in {"create", "add"} -> f
               [] wpc[f] \in {"lookup", "send", "done"} -> watcher
Queued(f) == Source(f) # NoWatcher /\ \E e \in Range(queue[Source(f)]) : e.file = f

\* The path is resolved at every call: when it leads nowhere, for instance
\* between the two steps of a log rotation, the loop ends.
WatchEnds(f) ==
    /\ WatchAt(f, "lookup") /\ ~exists[f]
    /\ WatchGoto(f, "done")
    /\ UNCHANGED <<notWatched, history, watching, watcher, active, hand, queue, eventChan>>

\* mapWatcher is read and written without a lock: two loops may both find it empty.
WatchLookup(f) ==
    /\ WatchAt(f, "lookup") /\ exists[f]
    /\ watching' = [watching EXCEPT ![f] = watcher]
    /\ WatchGoto(f, IF watcher = NoWatcher THEN "create" ELSE "wait")
    /\ UNCHANGED <<notWatched, history, watcher, active, hand, queue, eventChan>>

\* The second of them replaces the watcher of the first; an event that waits
\* there for a loop that has not looked it up is left behind.
WatchCreate(f) ==
    /\ WatchAt(f, "create")
    /\ watcher' = f
    /\ watching' = [watching EXCEPT ![f] = f]
    /\ WatchGoto(f, "add")
    /\ stolen' = [g \in Files |-> stolen[g] \/ (WatchAt(g, "lookup") /\ Queued(g))]
    /\ UNCHANGED <<notWatched, active, hand, queue, eventChan, missed>>

WatchAdd(f) ==
    /\ WatchAt(f, "add")
    /\ active' = active \cup {f}
    /\ WatchGoto(f, "wait")
    /\ UNCHANGED <<notWatched, history, watching, watcher, hand, queue, eventChan>>

\* NewWatcher or Add fails, or the watcher gives an error instead of an event: the
\* loop ends. A watcher that was stored stays in mapWatcher.
WatchFails(f) ==
    /\ "watch" \in MayFail
    /\ wpc[f] \in {"create", "add", "wait"}
    /\ WatchGoto(f, "done")
    /\ UNCHANGED <<notWatched, history, watching, watcher, active, hand, queue, eventChan>>

\* Mutant: the name of the event is not looked at.
WatchTakeAny(f) ==
    LET w == watching[f] IN
    /\ WatchAt(f, "wait")
    /\ queue[w] # <<>>
    /\ queue' = [queue EXCEPT ![w] = Tail(@)]
    /\ hand' = [hand EXCEPT ![f] = <<Head(queue[w]).op>>]
    /\ WatchGoto(f, "send")
    /\ UNCHANGED <<notWatched, history, watching, watcher, active, eventChan>>

WatchTake(f) ==
    LET w == watching[f] IN
    /\ WatchAt(f, "wait")
    /\ queue[w] # <<>> /\ Head(queue[w]).file = f
    /\ queue' = [queue EXCEPT ![w] = Tail(@)]
    /\ hand' = [hand EXCEPT ![f] = <<Head(queue[w]).op>>]
    /\ WatchGoto(f, "send")
    /\ UNCHANGED <<notWatched, history, watching, watcher, active, eventChan>>

\* An event of another file is dropped, also when that file's loop takes its
\* events from the same watcher.
WatchDrop(f) ==
    LET w == watching[f] IN
    /\ WatchAt(f, "wait")
    /\ queue[w] # <<>> /\ Head(queue[w]).file # f
    /\ queue' = [queue EXCEPT ![w] = Tail(@)]
    /\ stolen' = [stolen EXCEPT ![Head(queue[w]).file] = @ \/ Source(Head(queue[w]).file) = w]
    /\ UNCHANGED <<notWatched, watches, eventChan, missed>>

WatchPass(f) ==
    /\ WatchAt(f, "send")
    /\ Len(eventChan[f]) < ReadEventSize
    /\ eventChan' = [eventChan EXCEPT ![f] = @ \o hand[f]]
    /\ hand' = [hand EXCEPT ![f] = <<>>]
    /\ WatchGoto(f, "lookup")
    /\ UNCHANGED <<notWatched, history, watching, watcher, active, queue>>

-----------------------------------------------------------------------------
\* The files and inotify.

Watched(f) == ~WatchAt(f, "done") /\ Source(f) \in active

\* Every active watcher gets the event; the kernel may merge it with an equal
\* one before it. (Its queue of 16384 events does not overflow.)
Notify(f, op) ==
    LET e == [file |-> f, op |-> op]
        Merged(q) == q # <<>> /\ Last(q) = e IN
    /\ \E M \in SUBSET {w \in active : Merged(queue[w])} :
          queue' = [w \in Files |-> IF w \in active \ M THEN Append(queue[w], e) ELSE queue[w]]
    /\ missed' = [missed EXCEPT ![f] = ~Watched(f)]
    /\ stolen' = [stolen EXCEPT ![f] = FALSE]

\* fsnotify asks whether the file is there when it reads its Write or Create
\* event, and ignores the event if it is not. (The one it offers at that moment
\* was asked for before.)
EventIgnored(w) ==
    /\ queue[w] # <<>> /\ ~exists[Head(queue[w]).file]
    /\ queue' = [queue EXCEPT ![w] = Tail(@)]
    /\ missed' = [missed EXCEPT ![Head(queue[w]).file] = @ \/ Source(Head(queue[w]).file) = w]
    /\ UNCHANGED <<notWatched, watches, eventChan, stolen>>

AppendBytes(f) ==
    /\ exists[f]
    /\ \E n \in Chunks :
          /\ appended[f] + n <= MaxBytes
          /\ file' = [file EXCEPT ![f] = @ \o [i \in 1..n |-> appended[f] + i]]
          /\ appended' = [appended EXCEPT ![f] = @ + n]
          /\ torn' = [torn EXCEPT ![f] = @ \/ ~IsNewline(appended[f] + n)]
    /\ Notify(f, "Write")
    /\ UNCHANGED <<exists, turns, reader, detached, old, watches, eventChan>>

Truncate(f) ==
    /\ exists[f] /\ file[f] # <<>>
    /\ turns[f] < MaxTurns
    /\ file' = [file EXCEPT ![f] = <<>>]
    /\ turns' = [turns EXCEPT ![f] = @ + 1]
    /\ Notify(f, "Write")
    /\ UNCHANGED <<exists, appended, torn, reader, detached, old, watches, eventChan>>

\* The file loses its path; a reader that has it open keeps it. (The event is
\* neither a Create nor a Write, so waitWatchEvent passes over it.)
Unlink(f) ==
    /\ exists[f]
    /\ turns[f] < MaxTurns
    /\ exists' = [exists EXCEPT ![f] = FALSE]
    /\ file' = [file EXCEPT ![f] = <<>>]
    /\ turns' = [turns EXCEPT ![f] = @ + 1]
    /\ IF detached[f] \/ rpc[f] \in {"open", "done"}
       THEN UNCHANGED <<detached, old>>
       ELSE /\ detached' = [detached EXCEPT ![f] = TRUE]
            /\ old' = [old EXCEPT ![f] = file[f]]
    /\ UNCHANGED <<history, appended, torn, reader, watches, queue, eventChan>>

Create(f) ==
    /\ ~exists[f]
    /\ exists' = [exists EXCEPT ![f] = TRUE]
    /\ Notify(f, "Create")
    /\ UNCHANGED <<file, appended, torn, turns, reader, detached, old, watches, eventChan>>

-----------------------------------------------------------------------------

ReaderNext(f) == \/ Open(f) \/ OpenFails(f) \/ Fill(f) \/ TakeLine(f) \/ Send(f)
                 \/ Eof(f) \/ ReadFails(f) \/ Reopen(f) \/ Wake(f)
WatcherNext(f) == \/ WatchEnds(f) \/ WatchLookup(f) \/ WatchCreate(f) \/ WatchAdd(f)
                  \/ WatchFails(f) \/ WatchTake(f) \/ WatchDrop(f) \/ WatchPass(f)
DiskNext(f) == AppendBytes(f) \/ Truncate(f) \/ Unlink(f) \/ Create(f) \/ EventIgnored(f)

Next == \E f \in Files : ReaderNext(f) \/ WatcherNext(f) \/ DiskNext(f)

Spec == Init /\ [][Next]_vars

\* Both goroutines of a file are scheduled; Inchan takes what the reader sends
\* as long as the process runs, which is SenderServed of Pipeline. Nothing
\* obliges a file to change, or a watcher to fail.
FairSpec ==
    /\ Spec
    /\ \A f \in Files : WF_vars(ReaderNext(f)) /\ WF_vars(WatcherNext(f) /\ ~WatchFails(f))

-----------------------------------------------------------------------------

TypeOK ==
    /\ file \in [Files -> Seq(Nat)] /\ old \in [Files -> Seq(Nat)]
    /\ exists \in [Files -> BOOLEAN] /\ detached \in [Files -> BOOLEAN]
    /\ appended \in [Files -> Nat] /\ torn \in [Files -> BOOLEAN] /\ turns \in [Files -> Nat]
    /\ rpc \in [Files -> {"open", "read", "send", "event", "done"}]
    /\ since \in [Files -> Nat] /\ pos \in [Files -> Nat]
    /\ buf \in [Files -> Seq(Nat)] /\ line \in [Files -> Seq(Nat)]
    /\ sent \in [Files -> Seq(Seq(Nat))] /\ out \in [Files -> Seq(Nat)]
    /\ wpc \in [Files -> {"lookup", "create", "add", "wait", "send", "done"}]
    /\ watching \in [Files -> Files \cup {NoWatcher}] /\ watcher \in Files \cup {NoWatcher}
    /\ active \subseteq Files
    /\ queue \in [Files -> Seq([file : Files, op : {"Create", "Write"}])]
    /\ hand \in [Files -> Seq({"Create", "Write"})]
    /\ eventChan \in [Files -> Seq({"Create", "Write"})]
    /\ missed \in [Files -> BOOLEAN] /\ stolen \in [Files -> BOOLEAN]

\* The offset never counts a byte that fp has not read and the buffer has not
\* given: what a restart continues from is never ahead of the reader, however
\* the file is truncated, replaced or written in pieces (flie_input.go:196).
OffsetBehind ==
    \A f \in Files : rpc[f] \notin {"open", "done"} => since[f] + Len(buf[f]) <= pos[f]

\* All a reader took from its file: sent, being sent, and in its buffer.
Taken(f) == out[f] \o line[f] \o buf[f]

\* Of a file that is only appended to, whole lines at a time, every byte from
\* where the reader began is sent once and in order, none is passed over.
ReadsAll ==
    \A f \in Files : turns[f] = 0 /\ ~torn[f] /\ rpc[f] \notin {"open", "done"} =>
        Taken(f) = SubSeq(file[f], pos[f] - Len(Taken(f)) + 1, pos[f])

\* Of a file that is written in pieces too, a line may lose its head, but no line
\* is sent twice, out of order, or joined with another (readline, 248-278).
SentLines ==
    \A f \in Files : turns[f] = 0 =>
        /\ \A i \in 1..Len(Taken(f)) - 1 : Taken(f)[i] < Taken(f)[i + 1]
        /\ \A i \in DOMAIN sent[f] :
              {b \in Range(sent[f][i]) : IsNewline(b)} = {Last(sent[f][i])}

\* Something for which the reader, waiting for an event, should be woken.
Unread(f) == ReadAt(f, "event") /\ (Len(Content(f)) > pos[f] \/ Len(Content(f)) < since[f])

\* An event of the file is on its way to the reader.
Coming(f) ==
    \/ eventChan[f] # <<>> \/ hand[f] # <<>> \/ Queued(f)

\* A reader that waits while its file has something new has an event coming, if
\* a watch was there in time, the file was there when fsnotify read the event, no
\* other loop took it, and its own was not ended by a removal or an error.
WakeupComing ==
    \A f \in Files : Unread(f) /\ ~WatchAt(f, "done") /\ ~missed[f] /\ ~stolen[f] => Coming(f)

\* A line that was appended behind the reader's position is sent some time, if
\* its file was only appended to and watched, and no call failed.
Excused(f) == turns[f] > 0 \/ missed[f] \/ stolen[f] \/ "done" \in {rpc[f], wpc[f]}
EventuallySent ==
    \A f \in Files : \A b \in {n \in 1..MaxBytes : IsNewline(n)} :
        (rpc[f] # "open" /\ pos[f] < b /\ b \in Range(file[f]))
            ~> (b \in Range(out[f]) \/ Excused(f))

-----------------------------------------------------------------------------
\* What comments say and the code does not do.

\* flie_input.go:104: the events of a file are watched. A reader whose loop waits
\* at its watcher and that was told of no change has none to be told of.
FileIsWatched ==
    \A f \in Files : Unread(f) /\ WatchAt(f, "wait") /\ ~missed[f] => Coming(f)

\* sincedb.go:11-12: the database says from where in a file to go on. When the
\* reader has read all of its file, an offset it recorded is where it is.
OffsetIsPosition ==
    \A f \in Files : ReadAt(f, "event") /\ since[f] > 0 => since[f] = pos[f]

=============================================================================

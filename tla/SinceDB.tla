------------------------------- MODULE SinceDB -------------------------------
(***************************************************************************)
(* The offsets of the file input (input/file/sincedb.go and the parts of   *)
(* flie_input.go that use them): SinceDBInfos in memory, its copy on disk, *)
(* the goroutines that save it without a lock -- every reader after a line *)
(* and CheckSaveSinceDBInfosLoop -- and what a restarted process makes of  *)
(* it.  Lines are counted, not bytes, and files only grow; what a reader   *)
(* sees of a file is in FileTail.                                          *)
(***************************************************************************)
EXTENDS Naturals, SequencesExt, FiniteSetsExt, Functions

CONSTANTS
    Files,        \* the files that match stdFilePath
    Sizes,        \* how many lines a file may have at first
    MayFail,      \* {"write"} if ioutil.WriteFile may fail, {} if not
    MaxLines,     \* bound: lines of each file
    MaxRestarts   \* bound: restarts of the process

ASSUME SizesAssumption  == Sizes \subseteq Nat
ASSUME BoundsAssumption == MaxLines \in [Files -> Nat] /\ MaxRestarts \in Nat

\* The goroutine CheckSaveSinceDBInfosLoop; the readers are named by their files.
Loop   == "loop"
Savers == Files \cup {Loop}

VARIABLES
    size,       \* lines of each file
    run,        \* "up"; "down"; "idle": up, but StartInput returned at once
    restarts,   \* how often the process was started again
    infos,      \* SinceDBInfos: the offset of each file that has an entry
    lastRaw,    \* sinceDBLastInfosRaw: <<>>, or <<offsets>>
    elapsed,    \* SinceDBWriteInterval is over since SinceDBLastSaveTime
    disk,       \* the file of SinceDBPath: the offsets it has, if it is readable
    rpc,        \* where each reader is
    pos,        \* how many lines of the file lie before its position
    spc,        \* where each saver is in CheckSaveSinceDBInfos
    raw,        \* what the saver marshalled, while it saves
    overwritten, \* another saver wrote since this one truncated the file
    sent,       \* the lines of each file Inchan took
    passed,     \* the lines that a reader began behind, because it had no offset
    alone       \* in this run no two savers were active at a time, no write failed

memory  == <<infos, lastRaw, elapsed>>
reader  == <<rpc, pos>>
saver   == <<spc, raw, overwritten, alone>>
history == <<sent, passed>>
vars    == <<size, run, restarts, memory, disk, reader, saver, history>>

NoOffsets == [f \in {} |-> 0]
OffsetsOf(r, f) == IF f \in DOMAIN r THEN r[f] ELSE 0
Highest(f) == Max(sent[f] \cup {0})

\* What the start of the process and StartInput set, but for the offsets.
Fresh ==
    /\ lastRaw' = <<>> /\ elapsed' = TRUE
    /\ pos' = [f \in Files |-> 0]
    /\ spc' = [g \in Savers |-> "off"]
    /\ raw' = [g \in Savers |-> NoOffsets]
    /\ overwritten' = [g \in Savers |-> FALSE]
    /\ alone' = TRUE

Init ==
    /\ size \in [Files -> Sizes]
    /\ run = "up" /\ restarts = 0
    /\ infos = NoOffsets /\ lastRaw = <<>> /\ elapsed = TRUE
    /\ disk = [readable |-> TRUE, offsets |-> NoOffsets]
    /\ rpc = [f \in Files |-> "open"] /\ pos = [f \in Files |-> 0]
    /\ spc = [g \in Savers |-> "off"]
    /\ raw = [g \in Savers |-> NoOffsets]
    /\ overwritten = [g \in Savers |-> FALSE]
    /\ alone = TRUE
    /\ sent = [f \in Files |-> {}] /\ passed = [f \in Files |-> {}]

-----------------------------------------------------------------------------
\* fileReadLoop.

ReadAt(f, l) == run = "up" /\ rpc[f] = l
ReadGoto(f, l) == rpc' = [rpc EXCEPT ![f] = l]
SetOffset(f, n) == infos' = [g \in DOMAIN infos \cup {f} |-> IF g = f THEN n ELSE infos[g]]

\* Mutant: a file without an offset is read from its last line.
OpenLastLine(f) ==
    LET n == OffsetsOf(infos, f) IN
    /\ ReadAt(f, "open")
    /\ SetOffset(f, n)
    /\ pos' = [pos EXCEPT ![f] = IF n = 0 THEN size[f] - 1 ELSE n]
    /\ ReadGoto(f, "read")
    /\ UNCHANGED <<size, run, restarts, lastRaw, elapsed, disk, saver, history>>

\* Mutant: the line at the offset is taken for one that was read.
OpenBehindLine(f) ==
    LET n == OffsetsOf(infos, f) IN
    /\ ReadAt(f, "open")
    /\ SetOffset(f, n)
    /\ pos' = [pos EXCEPT ![f] = IF n = 0 THEN size[f] ELSE n + 1]
    /\ passed' = [passed EXCEPT ![f] = IF n = 0 THEN (@ \cup 1..size[f]) \ sent[f] ELSE @]
    /\ ReadGoto(f, "read")
    /\ UNCHANGED <<size, run, restarts, lastRaw, elapsed, disk, saver, sent>>

\* A file without an offset is read from its end, another from its offset.
Open(f) ==
    LET n == OffsetsOf(infos, f) IN
    /\ ReadAt(f, "open")
    /\ SetOffset(f, n)
    /\ pos' = [pos EXCEPT ![f] = IF n = 0 THEN size[f] ELSE n]
    /\ passed' = [passed EXCEPT ![f] = IF n = 0 THEN (@ \cup 1..size[f]) \ sent[f] ELSE @]
    /\ ReadGoto(f, "read")
    /\ UNCHANGED <<size, run, restarts, lastRaw, elapsed, disk, saver, sent>>

\* Mutant: the offset is that of the line after the next.
ReadTwo(f) ==
    /\ ReadAt(f, "read")
    /\ pos[f] < size[f]
    /\ pos' = [pos EXCEPT ![f] = @ + 1]
    /\ SetOffset(f, infos[f] + 2)
    /\ ReadGoto(f, "send")
    /\ UNCHANGED <<size, run, restarts, lastRaw, elapsed, disk, saver, history>>

\* The offset counts a line before it is sent.
Read(f) ==
    /\ ReadAt(f, "read")
    /\ pos[f] < size[f]
    /\ pos' = [pos EXCEPT ![f] = @ + 1]
    /\ SetOffset(f, infos[f] + 1)
    /\ ReadGoto(f, "send")
    /\ UNCHANGED <<size, run, restarts, lastRaw, elapsed, disk, saver, history>>

Send(f) ==
    /\ ReadAt(f, "send")
    /\ sent' = [sent EXCEPT ![f] = @ \cup {pos[f]}]
    /\ ReadGoto(f, "check")
    /\ UNCHANGED <<size, run, restarts, memory, disk, pos, saver, passed>>

-----------------------------------------------------------------------------
\* CheckSaveSinceDBInfos, called by every reader and by the loop.

Saving(g) == spc[g] \in {"save", "write", "fill"}
SaveAt(g, l) == run = "up" /\ spc[g] = l
SaveGoto(g, l) == spc' = [spc EXCEPT ![g] = l]

\* The offsets r take fewer characters than d only if d has an entry or an offset
\* that is greater.
More(d, r) == \E f \in DOMAIN d : f \notin DOMAIN r \/ d[f] > OffsetsOf(r, f)

\* The caller goes on: a reader reads, the loop sleeps.
Return(g) == rpc' = [f \in Files |-> IF f = g THEN "read" ELSE rpc[f]]
Calls(g) == run = "up" /\ spc[g] = "off" /\ (g \in Files => rpc[g] = "check")
\* The interval is over and the offsets are not those that were saved last.
Due == elapsed /\ lastRaw # <<infos>>

CheckNothing(g) ==
    /\ Calls(g) /\ ~Due
    /\ Return(g)
    /\ UNCHANGED <<size, run, restarts, memory, disk, pos, saver, history>>

Check(g) ==
    /\ Calls(g) /\ Due
    /\ SaveGoto(g, "save")
    /\ alone' = (alone /\ \A h \in Savers : ~Saving(h))
    /\ UNCHANGED <<size, run, restarts, memory, disk, reader, raw, overwritten, history>>

\* SaveSinceDBInfos sets the time, marshals the offsets and remembers what it will
\* have saved, then it writes. The three are one step here: only a saver that overlaps
\* this one could see them apart, and SavedWhenAlone excuses savers that overlap.
Save(g) ==
    /\ SaveAt(g, "save")
    /\ elapsed' = FALSE
    /\ raw' = [raw EXCEPT ![g] = infos]
    /\ lastRaw' = <<infos>>
    /\ SaveGoto(g, "write")
    /\ UNCHANGED <<size, run, restarts, infos, disk, reader, overwritten, alone, history>>

\* ioutil.WriteFile opens the file, which truncates it, and then fills it.
WriteOpen(g) ==
    /\ SaveAt(g, "write")
    /\ disk' = [disk EXCEPT !.readable = FALSE]
    /\ overwritten' = [h \in Savers |-> FALSE]
    /\ SaveGoto(g, "fill")
    /\ UNCHANGED <<size, run, restarts, memory, reader, raw, alone, history>>

\* Mutant: what is written is not what lastRaw has but what there is now.
FillNewest(g) ==
    /\ SaveAt(g, "fill")
    /\ disk' = [readable |-> TRUE, offsets |-> infos]
    /\ overwritten' = [h \in Savers |-> h # g /\ spc[h] = "fill"]
    /\ raw' = [raw EXCEPT ![g] = NoOffsets]
    /\ SaveGoto(g, "off") /\ Return(g)
    /\ UNCHANGED <<size, run, restarts, memory, pos, alone, history>>

\* If another saver has written meanwhile, and more, the end of what it wrote may
\* remain behind what this one writes.
WriteFill(g) ==
    /\ SaveAt(g, "fill")
    /\ \E clean \in BOOLEAN :
          /\ clean \/ (overwritten[g] /\ (disk.readable => More(disk.offsets, raw[g])))
          /\ disk' = [readable |-> clean, offsets |-> raw[g]]
    /\ overwritten' = [h \in Savers |-> h # g /\ spc[h] = "fill"]
    /\ raw' = [raw EXCEPT ![g] = NoOffsets]
    /\ SaveGoto(g, "off") /\ Return(g)
    /\ UNCHANGED <<size, run, restarts, memory, pos, alone, history>>

\* WriteFile fails, before it truncated the file or with a part written. A reader
\* goes on, the loop ends for good.
WriteFails(g) ==
    /\ "write" \in MayFail
    /\ \/ SaveAt(g, "write") /\ UNCHANGED disk
       \/ SaveAt(g, "fill") /\ \E intact \in BOOLEAN : disk' = [disk EXCEPT !.readable = @ /\ intact]
    /\ SaveGoto(g, IF g = Loop THEN "done" ELSE "off") /\ Return(g)
    /\ raw' = [raw EXCEPT ![g] = NoOffsets] /\ overwritten' = [overwritten EXCEPT ![g] = FALSE]
    /\ alone' = FALSE
    /\ UNCHANGED <<size, run, restarts, memory, pos, history>>

-----------------------------------------------------------------------------
\* Time, the files, the end of the process and its next start.

IntervalOver ==
    /\ run = "up" /\ ~elapsed
    /\ elapsed' = TRUE
    /\ UNCHANGED <<size, run, restarts, infos, lastRaw, disk, reader, saver, history>>

Grow(f) ==
    /\ size[f] < MaxLines[f]
    /\ size' = [size EXCEPT ![f] = @ + 1]
    /\ UNCHANGED <<run, restarts, memory, disk, reader, saver, history>>

\* However the process ends (see Pipeline), it saves nothing.
End ==
    /\ run # "down"
    /\ run' = "down"
    /\ infos' = NoOffsets /\ rpc' = [f \in Files |-> "open"]
    /\ Fresh
    /\ UNCHANGED <<size, restarts, disk, history>>

\* LoadSinceDBInfos: if the file cannot be read, StartInput returns.
Restart ==
    /\ run = "down" /\ restarts < MaxRestarts
    /\ restarts' = restarts + 1
    /\ IF disk.readable THEN run' = "up" /\ infos' = disk.offsets
                        ELSE run' = "idle" /\ UNCHANGED infos
    /\ UNCHANGED <<size, lastRaw, elapsed, disk, reader, saver, history>>

-----------------------------------------------------------------------------

ReaderNext(f) == Open(f) \/ Read(f) \/ Send(f)
SaverNext(g)  == \/ CheckNothing(g) \/ Check(g) \/ Save(g) \/ WriteOpen(g)
                 \/ WriteFill(g) \/ WriteFails(g)
Next == \/ \E f \in Files : ReaderNext(f) \/ Grow(f)
        \/ \E g \in Savers : SaverNext(g)
        \/ IntervalOver \/ End \/ Restart

Spec == Init /\ [][Next]_vars

\* The goroutines are scheduled and time goes on; no process has to end and no
\* file to grow.
FairSpec ==
    /\ Spec /\ WF_vars(IntervalOver)
    /\ \A f \in Files : WF_vars(ReaderNext(f))
    /\ \A g \in Savers : WF_vars(SaverNext(g))

-----------------------------------------------------------------------------

IsOffsets(r) == DOMAIN r \subseteq Files /\ \A f \in DOMAIN r : r[f] \in Nat

TypeOK ==
    /\ size \in [Files -> Nat] /\ run \in {"up", "down", "idle"} /\ restarts \in Nat
    /\ IsOffsets(infos) /\ elapsed \in BOOLEAN
    /\ lastRaw = <<>> \/ (Len(lastRaw) = 1 /\ IsOffsets(lastRaw[1]))
    /\ disk.readable \in BOOLEAN /\ IsOffsets(disk.offsets)
    /\ rpc \in [Files -> {"open", "read", "send", "check"}] /\ pos \in [Files -> Nat]
    /\ spc \in [Savers -> {"off", "save", "write", "fill", "done"}]
    /\ \A g \in Savers : IsOffsets(raw[g])
    /\ overwritten \in [Savers -> BOOLEAN] /\ alone \in BOOLEAN
    /\ sent \in [Files -> SUBSET Nat] /\ passed \in [Files -> SUBSET Nat]

\* The lines up to the n-th that are neither sent nor from before the first start.
Missing(f, n) == (1..n) \ (sent[f] \cup passed[f])

\* An offset, on disk or about to be, is never ahead of what was sent by more
\* than one line for each start of the process: the one its reader waits with,
\* already counted (flie_input.go:196-198).
SavedNotAhead ==
    \A f \in Files : \A r \in {disk.offsets, infos} \cup Range(raw) :
        Cardinality(Missing(f, OffsetsOf(r, f))) <= restarts + 1

\* Of the lines before one that was sent, each end of the process costs at most
\* one, whatever the savers did. That counts only what a reader with an offset loses:
\* an end before the first save makes the reader begin at the end of the file again,
\* and the lines it passes over so, however many, are in passed (flie_input.go:137-147).
LossBounded ==
    \A f \in Files : Cardinality(Missing(f, Highest(f))) <= restarts

\* What lastRaw says was saved is on disk, unless a saver still writes, two of
\* them were active together or a write failed (sincedb.go:65-67).
SavedWhenAlone ==
    run = "up" /\ alone /\ lastRaw # <<>> /\ (\A g \in Savers : ~Saving(g)) =>
        disk.readable /\ lastRaw = <<disk.offsets>>

-----------------------------------------------------------------------------
\* sincedb.go:48: the positions are periodically saved to the database on disk;
\* an offset that does not change any more is there some time.
EventuallySaved ==
    \A f \in Files : \A n \in 1..MaxLines[f] :
        (run = "up" /\ OffsetsOf(infos, f) = n) ~>
            \/ run # "up" \/ OffsetsOf(infos, f) # n
            \/ disk.readable /\ OffsetsOf(disk.offsets, f) = n

=============================================================================

------------------------------ MODULE LogRotator ------------------------------
(***************************************************************************)
(* The logr output (output/logrotator): DoWrite appends the packets of a   *)
(* batch to one file and empties the file when it has MaximumSize bytes;   *)
(* meanwhile others move, create or cut the file, calls fail, and the      *)
(* process ends and is started again.  Packets are numbered in the order   *)
(* in which DoWrite is given them, which is `written' of Pipeline.         *)
(*                                                                         *)
(* SetContext fixes RotateDaily to FALSE and nothing calls rotate, so      *)
(* emptying the file is the only rotation there is.                        *)
(***************************************************************************)
EXTENDS Integers, SequencesExt, Functions

CONSTANTS
    MaximumSize,   \* Options.MaximumSize, 1 GB in the code
    Largest,       \* how many bytes a packet has at most
    MayFail,       \* the calls that may fail, of "open", "truncate", "write"
    MaxPackets,    \* bound: packets
    MaxRestarts,   \* bound: restarts of the process
    MaxTurns       \* bound: times others move or cut the file

ASSUME SizeAssumption    == MaximumSize \in Nat \ {0}
ASSUME LargestAssumption == Largest \in Nat \ {0}
ASSUME FailAssumption    == MayFail \subseteq {"open", "truncate", "write"}
ASSUME BoundsAssumption  == {MaxPackets, MaxRestarts, MaxTurns} \subseteq Nat

VARIABLES
    exists,       \* there is a file with the path
    file,         \* it: its size and the packets in it, in order
    detached,     \* the file of the writer is not the one with the path any more,
    old,          \*   and it
    proc,         \* "off", "up", "panic"
    writer,       \* NewWriter returned one; if not it is nil
    currentSize,  \* RotatingWriter.currentSize
    wpc,          \* where Write is
    packet,       \* the packet Write was given
    given,        \* how many packets there were
    dropped,      \* the packets for which Write returned an error, or that the
                  \* end of the process met in Write
    fails,        \* clears that failed since the last one that did not
    restarts, turns

disk    == <<exists, file>>
output  == <<proc, writer, currentSize, wpc, packet>>
history == <<given, dropped, fails>>
vars    == <<disk, detached, old, output, history, restarts, turns>>

Empty == [size |-> 0, packets |-> <<>>]
NoPacket == [n |-> 0, length |-> 0]

\* The file the writer appends to.
Target == IF detached THEN old ELSE file
TargetBecomes(f) ==
    IF detached THEN old' = f /\ UNCHANGED file ELSE file' = f /\ UNCHANGED old

Init ==
    /\ exists = FALSE /\ file = Empty
    /\ detached = FALSE /\ old = Empty
    /\ proc = "off" /\ writer = FALSE /\ currentSize = 0
    /\ wpc = "ready" /\ packet = NoPacket
    /\ given = 0 /\ dropped = {} /\ fails = 0
    /\ restarts = 0 /\ turns = 0

-----------------------------------------------------------------------------
\* SetContext and NewWriter: the file is made if there is none, and opened to
\* append to it; the error is not looked at. A logr_path that is no string panics
\* before anything of this is there: that is SetContextPanics of Pipeline.

OpenWriter ==
    /\ proc = "off"
    /\ proc' = "up" /\ writer' = TRUE
    /\ exists' = TRUE
    /\ currentSize' = file.size
    /\ detached' = FALSE /\ old' = Empty
    /\ UNCHANGED <<file, wpc, packet, history, restarts, turns>>

OpenFails ==
    /\ "open" \in MayFail
    /\ proc = "off"
    /\ proc' = "up" /\ writer' = FALSE
    /\ exists' \in {exists, TRUE}
    /\ UNCHANGED <<file, currentSize, detached, old, wpc, packet, history, restarts, turns>>

-----------------------------------------------------------------------------
\* Write, called by DoWrite for each packet of the batch. DoWrite does not look
\* at what it returns.

WriteAt(l) == proc = "up" /\ writer /\ wpc = l

Take(n, due) ==
    /\ WriteAt("ready") /\ given < MaxPackets
    /\ given' = given + 1
    /\ packet' = [n |-> given + 1, length |-> n]
    /\ wpc' = IF due THEN "clear" ELSE "append"
    /\ UNCHANGED <<disk, detached, old, proc, writer, currentSize, dropped, fails, restarts, turns>>

\* Mutant: the file is cleared only when it is larger than MaximumSize.
TakeWhenLarger(n) == Take(n, currentSize > MaximumSize)

TakePacket(n) == Take(n, currentSize >= MaximumSize)

\* A nil writer has no lock to take.
NilPanic ==
    /\ proc = "up" /\ ~writer /\ given < MaxPackets
    /\ given' = given + 1 /\ dropped' = dropped \cup {given + 1}
    /\ proc' = "panic"
    /\ UNCHANGED <<disk, detached, old, writer, currentSize, wpc, packet, fails, restarts, turns>>

\* Write returns, with an error if the packet was not written.
Returns == wpc' = "ready" /\ packet' = NoPacket
Written == UNCHANGED dropped
NotWritten == dropped' = dropped \cup {packet.n}

\* Mutant: what the file has is subtracted.
ClearSubtracts ==
    /\ WriteAt("clear") /\ exists
    /\ currentSize' = currentSize - file.size
    /\ file' = Empty /\ fails' = 0 /\ wpc' = "append"
    /\ UNCHANGED <<exists, detached, old, proc, writer, packet, given, dropped, restarts, turns>>

\* The file that has the path is emptied, be it the writer's or not.
Clear ==
    /\ WriteAt("clear") /\ exists
    /\ currentSize' = 0
    /\ file' = Empty /\ fails' = 0 /\ wpc' = "append"
    /\ UNCHANGED <<exists, detached, old, proc, writer, packet, given, dropped, restarts, turns>>

\* currentSize is 0 already when os.Truncate fails.
ClearFails ==
    /\ WriteAt("clear") /\ (~exists \/ "truncate" \in MayFail)
    /\ currentSize' = 0
    /\ fails' = fails + 1
    /\ NotWritten /\ Returns
    /\ UNCHANGED <<disk, detached, old, proc, writer, given, restarts, turns>>

AppendPacket ==
    /\ WriteAt("append")
    /\ TargetBecomes([size |-> Target.size + packet.length,
                      packets |-> Append(Target.packets, packet.n)])
    /\ currentSize' = currentSize + packet.length
    /\ Written /\ Returns
    /\ UNCHANGED <<exists, detached, proc, writer, given, fails, restarts, turns>>

\* Mutant: the bytes of a packet that was not written to its end are not counted.
AppendUncounted ==
    /\ "write" \in MayFail
    /\ WriteAt("append")
    /\ \E k \in 0..packet.length - 1 : TargetBecomes([size |-> Target.size + k, packets |-> Target.packets])
    /\ NotWritten /\ Returns
    /\ UNCHANGED <<exists, detached, proc, writer, currentSize, given, fails, restarts, turns>>

\* Mutant: Write returns no error for a packet that it could not write.
AppendSilent ==
    /\ "write" \in MayFail
    /\ WriteAt("append")
    /\ \E k \in 0..packet.length - 1 :
          /\ TargetBecomes([size |-> Target.size + k, packets |-> Target.packets])
          /\ currentSize' = currentSize + k
    /\ Written /\ Returns
    /\ UNCHANGED <<exists, detached, proc, writer, given, fails, restarts, turns>>

\* The disk is full, for one: k bytes of the packet are written.
AppendFails ==
    /\ "write" \in MayFail
    /\ WriteAt("append")
    /\ \E k \in 0..packet.length - 1 :
          /\ TargetBecomes([size |-> Target.size + k, packets |-> Target.packets])
          /\ currentSize' = currentSize + k
    /\ NotWritten /\ Returns
    /\ UNCHANGED <<exists, detached, proc, writer, given, fails, restarts, turns>>

-----------------------------------------------------------------------------
\* The process ends, others change the file.

End ==
    /\ proc # "off" /\ restarts < MaxRestarts
    /\ restarts' = restarts + 1
    /\ proc' = "off" /\ writer' = FALSE /\ currentSize' = 0
    /\ dropped' = IF wpc = "ready" THEN dropped ELSE dropped \cup {packet.n}
    /\ Returns
    /\ detached' = FALSE /\ old' = Empty
    /\ UNCHANGED <<disk, given, fails, turns>>

Turn == turns < MaxTurns /\ turns' = turns + 1

Move ==
    /\ exists /\ Turn
    /\ exists' = FALSE /\ file' = Empty
    /\ IF writer /\ ~detached THEN detached' = TRUE /\ old' = file
                              ELSE UNCHANGED <<detached, old>>
    /\ UNCHANGED <<output, history, restarts>>

Cut ==
    /\ exists /\ file # Empty /\ Turn
    /\ file' = Empty
    /\ UNCHANGED <<exists, detached, old, output, history, restarts>>

Create ==
    /\ ~exists
    /\ exists' = TRUE
    /\ UNCHANGED <<file, detached, old, output, history, restarts, turns>>

-----------------------------------------------------------------------------

WriteNext == \/ \E n \in 1..Largest : TakePacket(n)
             \/ NilPanic \/ Clear \/ ClearFails \/ AppendPacket \/ AppendFails
Next == \/ OpenWriter \/ OpenFails \/ WriteNext
        \/ End \/ Move \/ Cut \/ Create

Spec == Init /\ [][Next]_vars

-----------------------------------------------------------------------------

Contents == [size : Nat, packets : Seq(Nat \ {0})]

TypeOK ==
    /\ exists \in BOOLEAN /\ file \in Contents
    /\ detached \in BOOLEAN /\ old \in Contents
    /\ proc \in {"off", "up", "panic"} /\ writer \in BOOLEAN /\ currentSize \in Nat
    /\ wpc \in {"ready", "clear", "append"} /\ packet \in [n : Nat, length : Nat]
    /\ given \in Nat /\ dropped \subseteq Nat \ {0} /\ fails \in Nat
    /\ restarts \in Nat /\ turns \in Nat

\* What currentSize may reach before the file is cleared.
Limit == MaximumSize + Largest - 1

\* As long as no clear failed, the writer never takes its file for smaller than
\* it is, whatever others do to it and however many writes fail (rotator.go:110):
\* so it is cleared in time.
SizeKnown == writer /\ ~detached /\ fails = 0 => file.size <= currentSize

\* The file stays bounded over restarts and failed writes: by one limit, and one
\* more for each clear in a row that failed, because rotateClear has forgotten
\* the size by then (rotator.go:118-119).
FileBounded == file.size <= (fails + 1) * Limit

\* The inductive invariant behind the two: what currentSize may have forgotten of
\* the file, and that a write follows only when it is below MaximumSize.
IInv ==
    /\ TypeOK
    /\ wpc # "ready" => proc = "up" /\ writer /\ packet \in [n : Nat \ {0}, length : 1..Largest]
    /\ wpc = "append" => currentSize < MaximumSize
    /\ writer /\ ~detached => file.size <= currentSize + fails * Limit
    /\ FileBounded

\* The file has the newest packets, in their order: behind the oldest one it has,
\* none is missing but those that Write reported or that the end of the process met in it.
NewestKept ==
    LET p == Target.packets IN
    /\ \A i \in 1..Len(p) - 1 : p[i] < p[i + 1]
    /\ p # <<>> => (Head(p)..given) \ {packet.n} \subseteq Range(p) \cup dropped

=============================================================================

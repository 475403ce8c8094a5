------------------------------ MODULE Command ------------------------------
(***************************************************************************)
(* The command output: DoWrite starts "sh <data>" for each packet of a      *)
(* batch and waits for none of them.  Their output goes to a buffer nobody  *)
(* reads, through a pipe that takes a descriptor of mafio while anyone has  *)
(* its other end; a child that ended stays in the process table, since      *)
(* nobody asks for its status.                                              *)
(***************************************************************************)
EXTENDS Process

CONSTANTS
    MaxPackets,  \* bound: packets DoWrite is given
    MaxBatch,    \* packets of one DoWrite, MaxWriteBulkSize + 1
    MaxProcs,    \* children the system lets mafio have, the ended ones included
    StartFiles   \* descriptors os/exec needs at one time while it starts a child

ASSUME PacketsAssumption == MaxPackets \in Nat
ASSUME BatchAssumption   == MaxBatch \in Nat \ {0}
ASSUME ProcsAssumption   == MaxProcs \in Nat
ASSUME StartAssumption   == StartFiles \in Nat \ {0}

VARIABLES
    given,  \* packets DoWrite was given so far
    todo,   \* how many of its batch it has not started yet
    child   \* for each packet: not started, or what became of its command

commandVars == <<given, todo, child>>

Packets  == 1..MaxPackets
Statuses == {"none", "failed", "running", "exited", "zombie"}

CommandInit == given = 0 /\ todo = 0 /\ child = [p \in Packets |-> "none"]

Current == given - todo + 1
InTable == {p \in Packets : child[p] \in {"running", "exited", "zombie"}}
Full    == Cardinality(InTable) >= MaxProcs
Becomes(p, status) == child' = [child EXCEPT ![p] = status]
Writing == proc = "up" /\ todo > 0

-----------------------------------------------------------------------------
\* Mutant: the batch is not bounded by what Outchan holds.
BatchUnchecked(n) ==
    /\ proc = "up" /\ todo = 0 /\ given + n <= MaxPackets
    /\ given' = given + n /\ todo' = n /\ queue' = queue - n
    /\ UNCHANGED <<child, proc, closed, files>>

\* messagesPush calls DoWrite with a batch of what is in Outchan by then.
Batch(n) ==
    /\ proc = "up" /\ todo = 0 /\ n <= queue /\ given + n <= MaxPackets
    /\ given' = given + n /\ todo' = n /\ queue' = queue - n
    /\ UNCHANGED <<child, proc, closed, files>>

StartChild ==
    /\ Writing
    /\ ~Full /\ files + StartFiles <= MaxFiles
    /\ Take(1)
    /\ Becomes(Current, "running") /\ todo' = todo - 1
    /\ UNCHANGED <<given, proc, closed, queue>>

\* Mutant: DoWrite tries until there is a slot and descriptors.
StartRetries ==
    /\ Writing
    /\ Full \/ files + StartFiles > MaxFiles
    /\ UNCHANGED <<commandVars, processVars>>

\* For want of a slot in the process table or of descriptors, of a sh, or because
\* the data has a NUL or is too long for an argument: the error is logged, the
\* packet is lost, DoWrite goes on.
StartFails ==
    /\ Writing
    /\ Becomes(Current, "failed") /\ todo' = todo - 1
    /\ UNCHANGED <<given, processVars>>

\* A packet that is a single quotation mark is both the prefix and the suffix the
\* code looks for: cmd[1 : len(cmd)-1] is cmd[1 : 0].
QuotePanic == Writing /\ Die("panic") /\ UNCHANGED commandVars

\* The command ends; a process it started itself may still hold the pipe.
ChildExits(p) ==
    /\ proc = "up" /\ child[p] = "running"
    /\ Becomes(p, "exited")
    /\ UNCHANGED <<given, todo, processVars>>

\* Mutant: the read end of the pipe stays open.
PipeLeaks(p) ==
    /\ proc = "up" /\ child[p] = "exited"
    /\ Becomes(p, "zombie")
    /\ UNCHANGED <<given, todo, processVars>>

\* The copying goroutine of os/exec meets the end of the pipe and closes it.
PipeCloses(p) ==
    /\ proc = "up" /\ child[p] = "exited"
    /\ Becomes(p, "zombie") /\ Give(1)
    /\ UNCHANGED <<given, todo, proc, closed, queue>>

WriteNext == StartChild \/ StartFails

CommandNext ==
    \/ \E n \in 1..MaxBatch : Batch(n)
    \/ WriteNext \/ QuotePanic
    \/ \E p \in Packets : ChildExits(p) \/ PipeCloses(p)

-----------------------------------------------------------------------------
\* What DoWrite has gone through was started or is lost, what is to come is not.
ChildrenOK == \A p \in Packets : child[p] = "none" <=> p >= Current

CommandTypeOK ==
    /\ given \in 0..MaxPackets /\ todo \in 0..MaxBatch /\ todo <= given
    /\ child \in [Packets -> Statuses] /\ ChildrenOK

\* The commands that hold a descriptor.
Piping == {p \in Packets : child[p] \in {"running", "exited"}}

=============================================================================

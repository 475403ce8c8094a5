------------------------------ MODULE Process ------------------------------
(***************************************************************************)
(* What the HTTP service and the command output of one mafio process share: *)
(* the process, its table of file descriptors, and the messages that wait   *)
(* in Inchan and Outchan.  How they move there is Pipeline's business.      *)
(***************************************************************************)
EXTENDS Naturals, FiniteSetsExt

CONSTANTS
    MaxFiles,   \* file descriptors the process may have open, beside those
                \* it opens when it starts and keeps
    QueueSize   \* messages that Inchan and Outchan hold together

ASSUME FilesAssumption == MaxFiles \in Nat
ASSUME QueueAssumption == QueueSize \in Nat \ {0}

VARIABLES
    proc,     \* "up", or how it ended: "fatal", "panic", "stopped"
    closed,   \* Exit has closed the listener and the channels
    files,    \* descriptors in use
    queue     \* how many messages Inchan and Outchan hold

processVars == <<proc, closed, files, queue>>

ProcessInit ==
    /\ proc = "up" /\ closed = FALSE
    /\ files = 0
    /\ queue = 0

Die(how) == proc' = how /\ UNCHANGED <<closed, files, queue>>

Take(n) == files + n <= MaxFiles /\ files' = files + n
Give(n) == files' = files - n

-----------------------------------------------------------------------------
\* An input sends a message to Inchan; however many have come, more may.
Feed ==
    /\ proc = "up" /\ ~closed /\ queue < QueueSize
    /\ queue' = queue + 1
    /\ UNCHANGED <<proc, closed, files>>

\* A signal: Exit closes the listener, exitChan, Inchan and Outchan.
Shutdown ==
    /\ proc = "up" /\ ~closed
    /\ closed' = TRUE
    /\ UNCHANGED <<proc, files, queue>>

=============================================================================

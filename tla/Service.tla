------------------------------ MODULE Service ------------------------------
(***************************************************************************)
(* One process with the HTTP service and the command output: what they do   *)
(* to each other through the queue and the table of descriptors.            *)
(***************************************************************************)
EXTENDS Api, Command

vars == <<processVars, apiVars, commandVars>>

Init == ProcessInit /\ ApiInit /\ CommandInit

\* The process ends when messagesPush is back from DoWrite; Exit waits for no
\* request and for no command.
Stopped ==
    /\ proc = "up" /\ closed /\ todo = 0
    /\ Die("stopped")

Ended == proc # "up" /\ UNCHANGED vars

Next ==
    \/ (Feed \/ Shutdown \/ Stopped) /\ UNCHANGED <<apiVars, commandVars>>
    \/ \E r \in Requests : ApiNext(r) /\ UNCHANGED commandVars
    \/ CommandNext /\ UNCHANGED apiVars
    \/ Ended

Spec == Init /\ [][Next]_vars

\* Goroutines that can run are scheduled, a profile's time passes, the runtime
\* lets requests that wait for the lock have it. Nothing obliges a message (or one
\* that is a quotation mark), a request, a signal, the end of a command or of a
\* connection, or the collector to come.
Fairness ==
    /\ \A r \in Requests : WF_vars((Step(r) \/ CreateHasTo(r)) /\ UNCHANGED commandVars)
    /\ WF_vars(WriteNext /\ UNCHANGED apiVars)
    /\ \A p \in Packets : WF_vars(PipeCloses(p) /\ UNCHANGED apiVars)

FairSpec == Spec /\ Fairness

-----------------------------------------------------------------------------
TypeOK ==
    /\ proc \in {"up", "fatal", "panic", "stopped"} /\ closed \in BOOLEAN
    /\ files \in Nat /\ queue \in 0..QueueSize
    /\ ApiTypeOK /\ CommandTypeOK

\* Each descriptor in use is that of a connection, of a profile file that the
\* collector has not closed yet, or of the pipe of a command, and they are never
\* more than the process may have (shell.go:56-61, pprof.go:66).
FilesCounted ==
    /\ files = Cardinality(Connected) + Cardinality(handles) + Cardinality(Piping)
    /\ files <= MaxFiles

\* What a request has to be answered with.
Due(k) ==
    CASE k = "unknown" -> {404} [] k = "method" -> {405} [] k = "unreadable" -> {500}
      [] k = "profile" -> {200, 500} [] OTHER -> {200}

\* Through handler, decorators and the recovered panic each request gets one
\* answer, with the code its outcome calls for (response.go:50-82, 147-154).
AnsweredOnce ==
    \A r \in Requests :
        IF at[r] \in {"answered", "gone"}
        THEN \E code \in Due(kind[r]) : answers[r] = <<code>>
        ELSE answers[r] = <<>>

\* The profiler never runs on behind the requests that use it, however they
\* overlap: the one that started it sleeps (pprof.go:71-73).
ProfilerOwned == \A r \in profiler : at[r] = "sleeping"

\* A request that met no other user of the profiler reports a file that has its
\* whole profile and nothing else (pprof.go:66-75). One that did may report an
\* empty, a cut or another one's profile.
WholeWhenAlone ==
    \A r \in Requests :
        /\ kind[r] = "cpuprof" /\ at[r] \in {"data", "answered", "gone"}
        /\ r \notin disturbed
        => r \in whole

\* DoWrite gets through its batch, however long its commands run.
WriteReturns == todo > 0 ~> todo = 0 \/ proc # "up"

\* Every request that was accepted is answered, whatever the others do, or the
\* process ends or is being stopped (an Empty may then hold the lock for ever). An
\* Empty, and those that wait for its lock, are answered if messages stop coming:
\* as long as they come, it may go on (agentd.go:94-101).
Answered(r)  == at[r] \in {"answered", "gone"} \/ closed \/ proc # "up"
MessagesStop == <>[][queue' < queue]_queue
RequestAnswered ==
    /\ \A r \in Requests : (at[r] # "new" /\ kind[r] # "empty") ~> Answered(r)
    /\ MessagesStop => \A r \in Requests : at[r] # "new" ~> Answered(r)

=============================================================================

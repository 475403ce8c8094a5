-------------------------------- MODULE Api --------------------------------
(***************************************************************************)
(* The HTTP service: net/http runs each request in a goroutine of its own,  *)
(* through the router, the decorators of response.go and a handler of       *)
(* router.go.  What the requests share is the lock of the agent and its     *)
(* channels (/empty), the one CPU profiler of the runtime and the one file  *)
(* its profiles go to (/debug?cmd=cpuprof), and the table of descriptors.   *)
(***************************************************************************)
EXTENDS Process, Sequences

CONSTANTS
    Requests,  \* the requests that may come, each on a connection of its own
    Mixes      \* what they may ask for, a kind for each

\* /version, /ping, /debug with a command that only looks something up, /debug
\* with a query or a body that cannot be read, its two profiles, /empty, the
\* pages of net/http/pprof and its profile, a path or a method that is not there.
Kinds == {"version", "ping", "lookup", "unreadable", "cpuprof", "memprof", "empty",
             "pages", "profile", "unknown", "method"}

ASSUME RequestsAssumption == IsFiniteSet(Requests)
ASSUME MixesAssumption    == Mixes \subseteq [Requests -> Kinds]

VARIABLES
    at,         \* where the goroutine of each request is
    kind,       \* what it asks for
    answers,    \* the codes it was answered with, in order
    lock,       \* the request whose Empty holds the lock of the agent, if any
    profiler,   \* the request whose StartCPUProfile succeeded, if any
    content,    \* the requests whose profiles are in the profile file
    cut,        \* those whose profile was stopped by another before its time
    handles,    \* those whose os.File of the profile file was not closed yet
    disturbed,  \* history: those that met another user of the profiler
    whole       \* history: those that found their whole profile in the file

apiVars == <<at, kind, answers, lock, profiler, content, cut, handles, disturbed, whole>>

Places == {"new", "handler", "created", "sleeping", "stopped", "locked",
           "data", "notfound", "notallowed", "error", "panic", "answered", "gone"}

ApiInit ==
    /\ at = [r \in Requests |-> "new"]
    /\ kind \in Mixes
    /\ answers = [r \in Requests |-> <<>>]
    /\ lock = {}
    /\ profiler = {} /\ content = {} /\ cut = {}
    /\ handles = {} /\ disturbed = {} /\ whole = {}

-----------------------------------------------------------------------------
Is(r, place, kinds) == proc = "up" /\ at[r] = place /\ kind[r] \in kinds
Goto(r, place) == at' = [at EXCEPT ![r] = place]

\* Request r goes on to place and leaves the rest alone.
Pass(r, place) ==
    /\ Goto(r, place)
    /\ UNCHANGED <<kind, answers, lock, profiler, content, cut, handles, disturbed, whole>>

Exits(how) == Die(how) /\ UNCHANGED apiVars

\* net/http accepts the connection of r and runs the router.
Accept(r) ==
    /\ Is(r, "new", Kinds) /\ ~closed
    /\ Take(1)
    /\ Pass(r, "handler")
    /\ UNCHANGED <<proc, closed, queue>>

\* Accept fails for want of a descriptor; net/http logs that through logWriter{},
\* whose Logger is nil.
AcceptPanic(r) == Is(r, "new", Kinds) /\ ~closed /\ files = MaxFiles /\ Exits("panic")

-----------------------------------------------------------------------------
\* The handlers that do nothing but return: data, a Result with a code, or an
\* error that is none.
Looked(r, kinds, place) == Is(r, "handler", kinds) /\ Pass(r, place) /\ UNCHANGED processVars

Handle(r) ==
    \/ Looked(r, {"version", "ping", "lookup", "pages"}, "data")
    \/ Looked(r, {"unreadable"}, "error")
    \/ Looked(r, {"unknown"}, "notfound")
    \/ Looked(r, {"method"}, "notallowed")

\* MemProf creates, writes and closes its file.
MemProf(r) ==
    /\ Is(r, "handler", {"memprof"}) /\ files < MaxFiles
    /\ Pass(r, "data") /\ UNCHANGED processVars

\* os.Create fails, for want of a descriptor or because the directory does not
\* let it: log.Fatal ends the process.
CreateFails(r) == Is(r, "handler", {"memprof", "cpuprof"}) /\ Exits("fatal")
CreateHasTo(r) == files = MaxFiles /\ CreateFails(r)

-----------------------------------------------------------------------------
\* GetCPUProfile: create the file, start the profiler, sleep, stop it, report.

\* The other requests that still may start or stop the profiler.
OtherUsers(r) == {q \in Requests \ {r} : at[q] \in {"created", "sleeping"}}

\* Those whose report is still to come.
OtherReports(r) == {q \in Requests \ {r} : kind[q] = "cpuprof" /\ at[q] \in {"created", "sleeping", "stopped"}}

\* Mutant: the file is opened, not created: what is in it stays.
CpuOpen(r) ==
    /\ Is(r, "handler", {"cpuprof"})
    /\ Take(1)
    /\ Goto(r, "created")
    /\ handles' = handles \cup {r}
    /\ disturbed' = disturbed \cup OtherReports(r)
                        \cup (IF OtherUsers(r) = {} THEN {} ELSE {r})
    /\ UNCHANGED <<kind, answers, lock, profiler, content, cut, whole, proc, closed, queue>>

CpuCreate(r) ==
    /\ Is(r, "handler", {"cpuprof"})
    /\ Take(1)
    /\ Goto(r, "created")
    /\ content' = {}
    /\ handles' = handles \cup {r}
    /\ disturbed' = disturbed \cup OtherReports(r)
                        \cup (IF OtherUsers(r) = {} THEN {} ELSE {r})
    /\ UNCHANGED <<kind, answers, lock, profiler, cut, whole, proc, closed, queue>>

\* What StartCPUProfile returns is not looked at.
CpuStart(r) ==
    /\ Is(r, "created", {"cpuprof"})
    /\ profiler' = IF profiler = {} THEN {r} ELSE profiler
    /\ Goto(r, "sleeping")
    /\ UNCHANGED <<kind, answers, lock, content, cut, handles, disturbed, whole, processVars>>

\* The profiler stops, whoever started it, and writes what it has from the
\* beginning of the file; what is behind that in the file stays.
StopProfiler(r) ==
    /\ profiler' = {}
    /\ LET new == {q \in profiler : kind[q] = "cpuprof"}
       IN  content' \in IF new = {} THEN {content} ELSE {new, content \cup new}
    /\ cut' = cut \cup (profiler \ {r})

\* Mutant: the profiler is left on.
CpuLeave(r) ==
    /\ Is(r, "sleeping", {"cpuprof"})
    /\ Goto(r, "stopped")
    /\ UNCHANGED <<kind, answers, lock, profiler, content, cut, handles, disturbed, whole,
                   processVars>>

CpuStop(r) ==
    /\ Is(r, "sleeping", {"cpuprof"})
    /\ StopProfiler(r)
    /\ Goto(r, "stopped")
    /\ UNCHANGED <<kind, answers, lock, handles, disturbed, whole, processVars>>

\* "create cpu profile" is reported in any case.
CpuReport(r) ==
    /\ Is(r, "stopped", {"cpuprof"})
    /\ Goto(r, "data")
    /\ whole' = IF content = {r} /\ r \notin cut THEN whole \cup {r} ELSE whole
    /\ UNCHANGED <<kind, answers, lock, profiler, content, cut, handles, disturbed, processVars>>

\* The file is closed by the garbage collector only.
Collect(r) ==
    /\ proc = "up" /\ r \in handles
    /\ at[r] # "created" /\ r \notin profiler
    /\ handles' = handles \ {r} /\ Give(1)
    /\ UNCHANGED <<at, kind, answers, lock, profiler, content, cut, disturbed, whole,
                   proc, closed, queue>>

\* The profile of net/http/pprof looks at the error, and stops what it started -
\* or what another request started since.
ProfileStart(r) ==
    /\ Is(r, "handler", {"profile"})
    /\ profiler = {}
    /\ profiler' = {r}
    /\ Goto(r, "sleeping")
    /\ disturbed' = disturbed \cup {q \in Requests : at[q] = "created"}
    /\ UNCHANGED <<kind, answers, lock, content, cut, handles, whole, processVars>>

ProfileBusy(r) ==
    /\ Is(r, "handler", {"profile"})
    /\ profiler # {}
    /\ Pass(r, "error") /\ UNCHANGED processVars

ProfileStop(r) ==
    /\ Is(r, "sleeping", {"profile"})
    /\ StopProfiler(r)
    /\ Goto(r, "data")
    /\ UNCHANGED <<kind, answers, lock, handles, disturbed, whole, processVars>>

-----------------------------------------------------------------------------
\* Agentd.Empty.
EmptyLock(r) ==
    /\ Is(r, "handler", {"empty"})
    /\ lock = {}
    /\ lock' = {r}
    /\ Goto(r, "locked")
    /\ UNCHANGED <<kind, answers, profiler, content, cut, handles, disturbed, whole, processVars>>

\* The select takes from either channel, and others fill them meanwhile: as long as
\* messages come, Empty may go on, and it has the lock.
EmptyTake(r) ==
    /\ Is(r, "locked", {"empty"})
    /\ queue > 0
    /\ queue' = queue - 1
    /\ UNCHANGED <<apiVars, proc, closed, files>>

\* Mutant: Empty returns without unlocking.
EmptyKeepsLock(r) ==
    /\ Is(r, "locked", {"empty"})
    /\ queue = 0 /\ ~closed
    /\ Pass(r, "data") /\ UNCHANGED processVars

\* A closed channel always gives something: the loop goes on for ever then, and
\* changes nothing.
EmptyEnd(r) ==
    /\ Is(r, "locked", {"empty"})
    /\ queue = 0 /\ ~closed
    /\ lock' = {}
    /\ Goto(r, "data")
    /\ UNCHANGED <<kind, answers, profiler, content, cut, handles, disturbed, whole, processVars>>

-----------------------------------------------------------------------------
\* The decorators. The answer of r is written with this code.
Answer(r, code) ==
    /\ answers' = [answers EXCEPT ![r] = Append(@, code)]
    /\ Goto(r, "answered")
    /\ UNCHANGED <<kind, lock, profiler, content, cut, handles, disturbed, whole, processVars>>

\* Data is written with code 200, by Default, PlainText or net/http.
Respond(r) == Is(r, "data", Kinds) /\ Answer(r, 200)

\* Default writes the code of a Result.
RespondResult(r) ==
    \/ Is(r, "notfound", Kinds) /\ Answer(r, 404)
    \/ Is(r, "notallowed", Kinds) /\ Answer(r, 405)

\* Mutant: the answer is written before the type of the error is looked at.
AnswerFirst(r) ==
    /\ Is(r, "error", {"unreadable"})
    /\ answers' = [answers EXCEPT ![r] = Append(@, 200)]
    /\ Goto(r, "panic")
    /\ UNCHANGED <<kind, lock, profiler, content, cut, handles, disturbed, whole, processVars>>

\* err.(Result) of an error that is none panics before anything is written.
ErrorPanics(r) == Is(r, "error", {"unreadable"}) /\ Pass(r, "panic") /\ UNCHANGED processVars

\* The PanicHandler of the router, or net/http/pprof, answers 500.
RespondFailure(r) ==
    (Is(r, "panic", Kinds) \/ Is(r, "error", {"profile"})) /\ Answer(r, 500)

\* The client or the server closes the connection.
Hangup(r) ==
    /\ Is(r, "answered", Kinds)
    /\ Pass(r, "gone") /\ Give(1)
    /\ UNCHANGED <<proc, closed, queue>>

-----------------------------------------------------------------------------
\* What a request does once it was accepted, but for what others have to allow.
Step(r) ==
    \/ Handle(r) \/ MemProf(r)
    \/ CpuCreate(r) \/ CpuStart(r) \/ CpuStop(r) \/ CpuReport(r)
    \/ ProfileStart(r) \/ ProfileBusy(r) \/ ProfileStop(r)
    \/ EmptyLock(r) \/ EmptyTake(r) \/ EmptyEnd(r)
    \/ Respond(r) \/ RespondResult(r) \/ ErrorPanics(r) \/ RespondFailure(r)

ApiNext(r) == Accept(r) \/ AcceptPanic(r) \/ CreateFails(r) \/ Step(r) \/ Collect(r) \/ Hangup(r)

-----------------------------------------------------------------------------
ApiTypeOK ==
    /\ at \in [Requests -> Places] /\ kind \in [Requests -> Kinds]
    /\ answers \in [Requests -> Seq(Nat)]
    /\ UNION {lock, profiler, content, cut, handles, disturbed, whole} \subseteq Requests

\* The requests that have a connection.
Connected == {r \in Requests : at[r] \notin {"new", "gone"}}

=============================================================================

--------------------------- MODULE ServiceProofs ---------------------------
(***************************************************************************)
(* Proofs about Service, for any number of requests, of descriptors and of *)
(* packets: how a request goes from its connection to its answer, what     *)
(* becomes of the profiler on the way, which packets the commands stand    *)
(* for, and who has the descriptors.                                       *)
(***************************************************************************)
EXTENDS Service, FiniteSetTheorems, TLAPS

\* A request of kind k may be at l.
MayBe(k, l) ==
    \/ l \in {"new", "handler", "answered", "gone"}
    \/ l = "notfound" /\ k = "unknown"
    \/ l = "notallowed" /\ k = "method"
    \/ l = "panic" /\ k = "unreadable"
    \/ l = "error" /\ k \in {"unreadable", "profile"}
    \/ l = "sleeping" /\ k \in {"cpuprof", "profile"}
    \/ l \in {"created", "stopped"} /\ k = "cpuprof"
    \/ l = "locked" /\ k = "empty"
    \/ l = "data" /\ k \notin {"unknown", "method", "unreadable"}

\* The inductive invariant: what a request was answered with depends on where it
\* may be, which depends on its kind.
Control ==
    /\ at \in [Requests -> Places]
    /\ kind \in [Requests -> Kinds]
    /\ answers \in [Requests -> Seq(Nat)]
    /\ profiler \subseteq Requests
    /\ \A r \in Requests : MayBe(kind[r], at[r])
    /\ AnsweredOnce
    /\ ProfilerOwned

LEMMA InitControl == Init => Control
<1> SUFFICES ASSUME Init PROVE Control
  OBVIOUS
<1>1. /\ at = [r \in Requests |-> "new"] /\ answers = [r \in Requests |-> <<>>]
      /\ profiler = {} /\ kind \in [Requests -> Kinds]
  BY MixesAssumption DEF Init, ApiInit
<1>2. \A r \in Requests : MayBe(kind[r], at[r])  BY <1>1 DEF MayBe
<1>3. AnsweredOnce  BY <1>1 DEF AnsweredOnce
<1>4. ProfilerOwned  BY <1>1 DEF ProfilerOwned
<1> QED  BY <1>1, <1>2, <1>3, <1>4 DEF Control, Places

-----------------------------------------------------------------------------
\* A request that goes on without being answered, whatever happens to the
\* profiler as long as it leaves it behind with none of its users gone.
LEMMA Walk ==
    ASSUME Control, NEW r \in Requests, NEW l \in Places,
           Goto(r, l), UNCHANGED <<kind, answers>>,
           MayBe(kind[r], l),
           l \in {"answered", "gone"} <=> at[r] \in {"answered", "gone"},
           \/ UNCHANGED profiler /\ at[r] # "sleeping"
           \/ profiler' = {}
           \/ profiler' \subseteq profiler \cup {r} /\ l = "sleeping"
    PROVE  Control'
<1>1. /\ at' = [at EXCEPT ![r] = l] /\ at \in [Requests -> Places]
      /\ kind' = kind /\ answers' = answers
      /\ profiler \subseteq Requests /\ AnsweredOnce /\ ProfilerOwned
      /\ \A q \in Requests : MayBe(kind[q], at[q])
      /\ kind \in [Requests -> Kinds] /\ answers \in [Requests -> Seq(Nat)]
  BY DEF Goto, Control
<1>2. at' \in [Requests -> Places] /\ \A q \in Requests : at'[q] = IF q = r THEN l ELSE at[q]
  BY <1>1
<1>3. \A q \in Requests : MayBe(kind'[q], at'[q])
  BY <1>1, <1>2
<1>4. AnsweredOnce'
  BY <1>1, <1>2 DEF AnsweredOnce
<1>5. profiler' \subseteq Requests /\ ProfilerOwned'
  BY <1>1, <1>2 DEF ProfilerOwned
<1> QED  BY <1>1, <1>2, <1>3, <1>4, <1>5 DEF Control

\* A request that is answered, with a code its kind calls for.
LEMMA AnswerStep ==
    ASSUME Control, NEW r \in Requests, NEW code \in Nat, Answer(r, code),
           code \in Due(kind[r]), at[r] \notin {"answered", "gone", "sleeping"}
    PROVE  Control'
<1>1. /\ at' = [at EXCEPT ![r] = "answered"] /\ at \in [Requests -> Places]
      /\ answers' = [answers EXCEPT ![r] = Append(@, code)]
      /\ answers \in [Requests -> Seq(Nat)] /\ answers[r] = <<>>
      /\ kind' = kind /\ profiler' = profiler
      /\ profiler \subseteq Requests /\ AnsweredOnce /\ ProfilerOwned
      /\ \A q \in Requests : MayBe(kind[q], at[q])
      /\ kind \in [Requests -> Kinds]
  BY DEF Answer, Goto, Control, AnsweredOnce
<1>2. /\ at' \in [Requests -> Places]
      /\ \A q \in Requests : at'[q] = IF q = r THEN "answered" ELSE at[q]
  BY <1>1 DEF Places
<1>3. Append(<<>>, code) = <<code>> /\ <<code>> \in Seq(Nat)
  OBVIOUS
<1>4. /\ answers' \in [Requests -> Seq(Nat)]
      /\ \A q \in Requests : answers'[q] = IF q = r THEN <<code>> ELSE answers[q]
  BY <1>1, <1>3
<1>5. \A q \in Requests : MayBe(kind'[q], at'[q])
  BY <1>1, <1>2 DEF MayBe
<1>6. AnsweredOnce'
  <2> SUFFICES ASSUME NEW q \in Requests
               PROVE  IF at'[q] \in {"answered", "gone"}
                      THEN \E c \in Due(kind'[q]) : answers'[q] = <<c>>
                      ELSE answers'[q] = <<>>
    BY DEF AnsweredOnce
  <2>1. CASE q = r  BY <2>1, <1>1, <1>2, <1>4
  <2>2. CASE q # r  BY <2>2, <1>1, <1>2, <1>4 DEF AnsweredOnce
  <2> QED  BY <2>1, <2>2
<1>7. ProfilerOwned'  BY <1>1, <1>2 DEF ProfilerOwned
<1> QED  BY <1>1, <1>2, <1>4, <1>5, <1>6, <1>7 DEF Control

LEMMA DueCodes ==
    /\ Due("unknown") = {404} /\ Due("method") = {405} /\ Due("unreadable") = {500}
    /\ 200 \in Due("profile") /\ 500 \in Due("profile")
    /\ \A k \in Kinds \ {"unknown", "method", "unreadable"} : 200 \in Due(k)
  BY DEF Due, Kinds

-----------------------------------------------------------------------------
\* The actions of request r.

LEMMA HandlerStep ==
    ASSUME Control, NEW r \in Requests,
           Accept(r) \/ Handle(r) \/ MemProf(r) \/ ErrorPanics(r) \/ ProfileBusy(r)
    PROVE  Control'
<1>0. Control  OBVIOUS
<1>1. \A l \in Places : Pass(r, l) => Goto(r, l) /\ UNCHANGED <<kind, answers, profiler>>
  BY DEF Pass
<1> USE DEF Is, MayBe, Places
<1>2. CASE Accept(r)  BY <1>0, <1>1, <1>2, Walk, Zenon DEF Accept
<1>3. CASE Handle(r)
  <2>1. CASE Looked(r, {"version", "ping", "lookup", "pages"}, "data")
    BY <1>0, <1>1, <2>1, Walk, Zenon DEF Looked
  <2>2. CASE Looked(r, {"unreadable"}, "error")  BY <1>0, <1>1, <2>2, Walk, Zenon DEF Looked
  <2>3. CASE Looked(r, {"unknown"}, "notfound")  BY <1>0, <1>1, <2>3, Walk, Zenon DEF Looked
  <2>4. CASE Looked(r, {"method"}, "notallowed")  BY <1>0, <1>1, <2>4, Walk, Zenon DEF Looked
  <2> QED  BY <1>3, <2>1, <2>2, <2>3, <2>4 DEF Handle
<1>4. CASE MemProf(r)  BY <1>0, <1>1, <1>4, Walk, Zenon DEF MemProf
<1>5. CASE ErrorPanics(r)  BY <1>0, <1>1, <1>5, Walk, Zenon DEF ErrorPanics
<1>6. CASE ProfileBusy(r)  BY <1>0, <1>1, <1>6, Walk, Zenon DEF ProfileBusy
<1> QED  BY <1>2, <1>3, <1>4, <1>5, <1>6

LEMMA ProfilerStep ==
    ASSUME Control, NEW r \in Requests,
           \/ CpuCreate(r) \/ CpuStart(r) \/ CpuStop(r) \/ CpuReport(r)
           \/ ProfileStart(r) \/ ProfileStop(r)
    PROVE  Control'
<1>0. Control  OBVIOUS
<1> USE DEF Is, MayBe, Places
<1>1. CASE CpuCreate(r)  BY <1>0, <1>1, Walk, Zenon DEF CpuCreate
<1>2. CASE CpuStart(r)
  <2>1. profiler' \subseteq profiler \cup {r}  BY <1>2 DEF CpuStart
  <2> QED  BY <1>0, <1>2, <2>1, Walk, Zenon DEF CpuStart
<1>3. CASE CpuStop(r)  BY <1>0, <1>3, Walk, Zenon DEF CpuStop, StopProfiler
<1>4. CASE CpuReport(r)  BY <1>0, <1>4, Walk, Zenon DEF CpuReport
<1>5. CASE ProfileStart(r)
  <2>1. profiler' \subseteq profiler \cup {r}  BY <1>5 DEF ProfileStart
  <2> QED  BY <1>0, <1>5, <2>1, Walk, Zenon DEF ProfileStart
<1>6. CASE ProfileStop(r)  BY <1>0, <1>6, Walk, Zenon DEF ProfileStop, StopProfiler
<1> QED  BY <1>1, <1>2, <1>3, <1>4, <1>5, <1>6

LEMMA EmptyStep ==
    ASSUME Control, NEW r \in Requests, EmptyLock(r) \/ EmptyEnd(r) \/ Hangup(r)
    PROVE  Control'
<1>0. Control  OBVIOUS
<1> USE DEF Is, MayBe, Places
<1>1. CASE EmptyLock(r)  BY <1>0, <1>1, Walk, Zenon DEF EmptyLock
<1>2. CASE EmptyEnd(r)  BY <1>0, <1>2, Walk, Zenon DEF EmptyEnd
<1>3. CASE Hangup(r)  BY <1>0, <1>3, Walk, Zenon DEF Hangup, Pass
<1> QED  BY <1>1, <1>2, <1>3

LEMMA RespondStep ==
    ASSUME Control, NEW r \in Requests, Respond(r) \/ RespondResult(r) \/ RespondFailure(r)
    PROVE  Control'
<1>0. Control /\ MayBe(kind[r], at[r]) /\ kind[r] \in Kinds  BY DEF Control
<1>1. 200 \in Nat /\ 404 \in Nat /\ 405 \in Nat /\ 500 \in Nat  OBVIOUS
<1>2. CASE Respond(r)
  <2>1. at[r] = "data" /\ Answer(r, 200)  BY <1>2 DEF Respond, Is
  <2>2. 200 \in Due(kind[r])  BY <1>0, <2>1, DueCodes DEF MayBe
  <2> QED  BY <1>0, <1>1, <2>1, <2>2, AnswerStep
<1>3. CASE RespondResult(r)
  <2>1. CASE at[r] = "notfound" /\ Answer(r, 404)
    <3>1. kind[r] = "unknown"  BY <1>0, <2>1 DEF MayBe
    <3> QED  BY <1>0, <1>1, <2>1, <3>1, DueCodes, AnswerStep
  <2>2. CASE at[r] = "notallowed" /\ Answer(r, 405)
    <3>1. kind[r] = "method"  BY <1>0, <2>2 DEF MayBe
    <3> QED  BY <1>0, <1>1, <2>2, <3>1, DueCodes, AnswerStep
  <2> QED  BY <1>3, <2>1, <2>2 DEF RespondResult, Is
<1>4. CASE RespondFailure(r)
  <2>1. at[r] \in {"panic", "error"} /\ Answer(r, 500) /\ (at[r] = "error" => kind[r] = "profile")
    BY <1>4 DEF RespondFailure, Is
  <2>2. kind[r] \in {"unreadable", "profile"}  BY <1>0, <2>1 DEF MayBe
  <2>3. 500 \in Due(kind[r])  BY <2>2, DueCodes
  <2> QED  BY <1>0, <1>1, <2>1, <2>3, AnswerStep
<1> QED  BY <1>2, <1>3, <1>4

\* Nothing that Control speaks of.
LEMMA Elsewhere ==
    ASSUME Control, UNCHANGED <<at, kind, answers, profiler>>
    PROVE  Control'
  BY DEF Control, AnsweredOnce, ProfilerOwned

-----------------------------------------------------------------------------
\* Control is an invariant: each request is where its kind leads it, and answered
\* accordingly.
THEOREM ControlInvariance == Spec => []Control
<1>1. Control /\ [Next]_vars => Control'
  <2> SUFFICES ASSUME Control, [Next]_vars PROVE Control'
    OBVIOUS
  <2>1. CASE UNCHANGED apiVars
    BY <2>1, Elsewhere DEF apiVars
  <2>2. ASSUME NEW r \in Requests, ApiNext(r) PROVE Control'
    <3>1. CASE Step(r)
      <4>1. CASE EmptyTake(r)  BY <4>1, Elsewhere DEF EmptyTake, apiVars
      <4> QED  BY <3>1, <4>1, HandlerStep, ProfilerStep, EmptyStep, RespondStep DEF Step
    <3>2. CASE AcceptPanic(r) \/ CreateFails(r)
      BY <3>2, Elsewhere DEF AcceptPanic, CreateFails, Exits, apiVars
    <3>3. CASE Collect(r)  BY <3>3, Elsewhere DEF Collect
    <3> QED  BY <2>2, <3>1, <3>2, <3>3, HandlerStep, EmptyStep DEF ApiNext
  <2>3. CASE UNCHANGED vars  BY <2>3, <2>1 DEF vars
  <2> QED  BY <2>1, <2>2, <2>3 DEF Next, Ended
<1> QED  BY <1>1, InitControl, PTL DEF Spec

\* Every request gets exactly one answer, with the code its outcome calls for.
THEOREM AnswersOnce == Spec => []AnsweredOnce
<1>1. Control => AnsweredOnce  BY DEF Control
<1> QED  BY <1>1, ControlInvariance, PTL

\* The profiler never runs on when the request that started it has gone on.
THEOREM ProfilerIsOwned == Spec => []ProfilerOwned
<1>1. Control => ProfilerOwned  BY DEF Control
<1> QED  BY <1>1, ControlInvariance, PTL

-----------------------------------------------------------------------------
\* What DoWrite has still to do of what it was given it has not started yet; so
\* every packet it goes to is one of Packets, and has no command.
Commands ==
    /\ proc \in {"up", "fatal", "panic", "stopped"} /\ closed \in BOOLEAN
    /\ queue \in 0..QueueSize
    /\ CommandTypeOK

LEMMA CommandNumbers ==
    ASSUME Commands
    PROVE  /\ given \in Nat /\ todo \in Nat /\ queue \in Nat /\ QueueSize \in Nat
           /\ todo <= given /\ given <= MaxPackets /\ queue <= QueueSize
           /\ MaxPackets \in Nat /\ MaxBatch \in Nat /\ Current \in Nat
           /\ todo > 0 => Current \in Packets /\ child[Current] = "none"
  BY PacketsAssumption, BatchAssumption, QueueAssumption
     DEF Commands, CommandTypeOK, ChildrenOK, Current, Packets

LEMMA InitCommands == Init => Commands
<1> SUFFICES ASSUME Init PROVE Commands
  OBVIOUS
<1>1. \A p \in Packets : child[p] = "none" /\ p >= Current
  BY PacketsAssumption DEF Init, CommandInit, Packets, Current
<1>2. child \in [Packets -> Statuses]  BY DEF Init, CommandInit, Statuses
<1>3. ChildrenOK  BY <1>1 DEF ChildrenOK
<1>4. given \in 0..MaxPackets /\ todo \in 0..MaxBatch /\ todo <= given
  BY PacketsAssumption, BatchAssumption DEF Init, CommandInit
<1>5. /\ proc \in {"up", "fatal", "panic", "stopped"} /\ closed \in BOOLEAN
      /\ queue = 0
  BY DEF Init, ProcessInit
<1>6. queue \in 0..QueueSize
  BY <1>5, QueueAssumption
<1> QED  BY <1>2, <1>3, <1>4, <1>5, <1>6 DEF Commands, CommandTypeOK

LEMMA BecomesType ==
    ASSUME Commands, NEW p \in Packets, NEW status \in Statuses, Becomes(p, status)
    PROVE  /\ child' \in [Packets -> Statuses]
           /\ \A q \in Packets : child'[q] = IF q = p THEN status ELSE child[q]
  BY DEF Commands, CommandTypeOK, Becomes

\* DoWrite goes to its next packet.
LEMMA NextPacket ==
    ASSUME Commands, todo > 0, NEW status \in Statuses \ {"none"}, Becomes(Current, status),
           todo' = todo - 1, UNCHANGED <<given, proc, closed, queue>>
    PROVE  Commands'
<1>1. /\ Current \in Packets /\ Current \in Nat /\ todo \in Nat /\ given \in Nat
      /\ todo <= given /\ MaxBatch \in Nat /\ todo \in 0..MaxBatch
  BY CommandNumbers DEF Commands, CommandTypeOK
<1>2. /\ child' \in [Packets -> Statuses]
      /\ \A q \in Packets : child'[q] = IF q = Current THEN status ELSE child[q]
  BY <1>1, BecomesType
<1>3. Current' = Current + 1  BY <1>1 DEF Current
<1>4. todo' \in 0..MaxBatch /\ todo' <= given'  BY <1>1
<1>5. ChildrenOK'
  <2> SUFFICES ASSUME NEW q \in Packets PROVE child'[q] = "none" <=> q >= Current'
    BY DEF ChildrenOK
  <2>1. child[q] = "none" <=> q >= Current  BY DEF Commands, CommandTypeOK, ChildrenOK
  <2>2. q \in Nat  BY DEF Packets
  <2> QED  BY <1>1, <1>2, <1>3, <2>1, <2>2
<1> QED  BY <1>2, <1>4, <1>5 DEF Commands, CommandTypeOK

LEMMA CommandStep ==
    ASSUME Commands, CommandNext
    PROVE  Commands'
<1>1. ASSUME NEW n \in 1..MaxBatch, Batch(n) PROVE Commands'
  <2>1. /\ todo = 0 /\ n <= queue /\ given + n <= MaxPackets /\ given' = given + n /\ todo' = n /\ queue' = queue - n
        /\ child' = child /\ UNCHANGED <<proc, closed>>
    BY <1>1 DEF Batch
  <2>2. /\ given \in Nat /\ queue \in Nat /\ queue <= QueueSize /\ QueueSize \in Nat
        /\ MaxBatch \in Nat /\ n \in Nat /\ MaxPackets \in Nat
    BY CommandNumbers
  <2>3. /\ given' \in 0..MaxPackets /\ todo' \in 0..MaxBatch /\ todo' <= given'
        /\ queue' \in 0..QueueSize
    BY <2>1, <2>2
  <2>4. Current' = Current  BY <2>1, <2>2 DEF Current
  <2> QED  BY <2>1, <2>3, <2>4 DEF Commands, CommandTypeOK, ChildrenOK
<1>2. CASE StartChild
  BY <1>2, NextPacket DEF StartChild, Writing, Statuses
<1>3. CASE StartFails
  BY <1>3, NextPacket DEF StartFails, Writing, Statuses, processVars
<1>4. CASE QuotePanic
  <2>1. /\ proc' = "panic" /\ UNCHANGED <<closed, queue, given, todo, child>>
    BY <1>4 DEF QuotePanic, Die, commandVars
  <2>2. ChildrenOK'  BY <2>1 DEF Commands, CommandTypeOK, ChildrenOK, Current
  <2> QED  BY <2>1, <2>2 DEF Commands, CommandTypeOK
<1>5. ASSUME NEW p \in Packets, ChildExits(p) \/ PipeCloses(p) PROVE Commands'
  <2>1. PICK status \in {"exited", "zombie"} : Becomes(p, status)
    BY <1>5 DEF ChildExits, PipeCloses
  <2>2. /\ child[p] \in {"running", "exited"}
        /\ UNCHANGED <<given, todo, proc, closed, queue>>
    BY <1>5 DEF ChildExits, PipeCloses, processVars
  <2>3. /\ child' \in [Packets -> Statuses]
        /\ \A q \in Packets : child'[q] = IF q = p THEN status ELSE child[q]
    BY <2>1, BecomesType DEF Statuses
  <2>4. ChildrenOK'
    BY <2>2, <2>3 DEF Commands, CommandTypeOK, ChildrenOK, Current
  <2> QED  BY <2>2, <2>3, <2>4 DEF Commands, CommandTypeOK
<1> QED  BY <1>1, <1>2, <1>3, <1>4, <1>5 DEF CommandNext, WriteNext

\* What the rest of the process does to these variables.
LEMMA CommandsElsewhere ==
    ASSUME Commands, UNCHANGED commandVars,
           \/ UNCHANGED <<proc, closed, queue>>
           \/ \E how \in {"fatal", "panic", "stopped"} : Die(how)
           \/ Feed \/ Shutdown
           \/ queue > 0 /\ queue' = queue - 1 /\ UNCHANGED <<proc, closed>>
    PROVE  Commands'
<1>1. CommandTypeOK'  BY DEF Commands, CommandTypeOK, ChildrenOK, Current, commandVars
<1>2. queue \in Nat /\ queue <= QueueSize /\ QueueSize \in Nat
  BY CommandNumbers
<1>3. proc' \in {"up", "fatal", "panic", "stopped"} /\ closed' \in BOOLEAN
  BY DEF Commands, Die, Feed, Shutdown
<1>4. \/ queue' = queue
      \/ queue < QueueSize /\ queue' = queue + 1
      \/ queue > 0 /\ queue' = queue - 1
  BY DEF Die, Feed, Shutdown
<1>5. queue' \in 0..QueueSize  BY <1>2, <1>4
<1> QED  BY <1>1, <1>3, <1>5 DEF Commands

\* What a request does to the process.
LEMMA RequestEffect ==
    ASSUME NEW r \in Requests, ApiNext(r)
    PROVE  \/ UNCHANGED <<proc, closed, queue>>
           \/ Die("fatal") \/ Die("panic")
           \/ queue > 0 /\ queue' = queue - 1 /\ UNCHANGED <<proc, closed>>
<1>1. CASE Step(r)
  <2>1. CASE EmptyTake(r)  BY <2>1 DEF EmptyTake
  <2>2. CASE CpuCreate(r)  BY <2>2 DEF CpuCreate
  <2>3. CASE UNCHANGED processVars  BY <2>3 DEF processVars
  <2>4. CASE Respond(r) \/ RespondResult(r) \/ RespondFailure(r)
    BY <2>4 DEF Respond, RespondResult, RespondFailure, Answer, processVars
  <2>5. CASE Handle(r)  BY <2>5, <2>3 DEF Handle, Looked
  <2>6. CASE MemProf(r) \/ CpuStart(r) \/ CpuStop(r) \/ CpuReport(r)
    BY <2>6, <2>3 DEF MemProf, CpuStart, CpuStop, CpuReport, processVars
  <2>7. CASE ProfileStart(r) \/ ProfileBusy(r) \/ ProfileStop(r)
    BY <2>7, <2>3 DEF ProfileStart, ProfileBusy, ProfileStop, processVars
  <2>8. CASE EmptyLock(r) \/ EmptyEnd(r) \/ ErrorPanics(r)
    BY <2>8, <2>3 DEF EmptyLock, EmptyEnd, ErrorPanics, processVars
  <2> QED  BY <1>1, <2>1, <2>2, <2>4, <2>5, <2>6, <2>7, <2>8 DEF Step
<1>2. CASE AcceptPanic(r) \/ CreateFails(r)
  BY <1>2 DEF AcceptPanic, CreateFails, Exits
<1>3. CASE Accept(r) \/ Collect(r) \/ Hangup(r)
  BY <1>3 DEF Accept, Collect, Hangup
<1> QED  BY <1>1, <1>2, <1>3 DEF ApiNext

\* Commands is an invariant: the packets DoWrite was given are those that were
\* started or lost, up to the one it is at.
THEOREM CommandInvariance == Spec => []Commands
<1>1. Commands /\ [Next]_vars => Commands'
  <2> SUFFICES ASSUME Commands, [Next]_vars PROVE Commands'
    OBVIOUS
  <2>1. CASE (Feed \/ Shutdown \/ Stopped) /\ UNCHANGED <<apiVars, commandVars>>
    BY <2>1, CommandsElsewhere DEF Stopped
  <2>2. ASSUME NEW r \in Requests, ApiNext(r), UNCHANGED commandVars PROVE Commands'
    BY <2>2, RequestEffect, CommandsElsewhere
  <2>3. CASE CommandNext  BY <2>3, CommandStep
  <2>4. CASE UNCHANGED vars  BY <2>4, CommandsElsewhere DEF vars, processVars
  <2> QED  BY <2>1, <2>2, <2>3, <2>4 DEF Next, Ended
<1> QED  BY <1>1, InitCommands, PTL DEF Spec

-----------------------------------------------------------------------------
\* The commands that hold a descriptor are finitely many.
LEMMA PipingFinite == IsFiniteSet(Piping)
<1>1. IsFiniteSet(Packets)  BY PacketsAssumption, FS_Interval DEF Packets
<1> QED  BY <1>1, FS_Subset DEF Piping

\* Who has a file of the profiler open has come to it, and every descriptor is
\* accounted for.
Counted ==
    /\ handles \subseteq {r \in Requests : at[r] \notin {"new", "handler"}}
    /\ FilesCounted

LEMMA InitCounted == Init => Counted
<1> SUFFICES ASSUME Init PROVE Counted
  OBVIOUS
<1>1. files = 0 /\ Connected = {} /\ handles = {} /\ Piping = {}
  BY DEF Init, ProcessInit, ApiInit, CommandInit, Connected, Piping
<1> QED  BY <1>1, FS_EmptySet, FilesAssumption DEF Counted, FilesCounted

LEMMA CountsFinite ==
    ASSUME Counted
    PROVE  /\ IsFiniteSet(Connected) /\ IsFiniteSet(handles) /\ IsFiniteSet(Piping)
           /\ Cardinality(Connected) \in Nat /\ Cardinality(handles) \in Nat
           /\ Cardinality(Piping) \in Nat /\ files \in Nat /\ MaxFiles \in Nat
<1>1. IsFiniteSet(Connected) /\ IsFiniteSet(handles) /\ IsFiniteSet(Piping)
  BY RequestsAssumption, PipingFinite, FS_Subset DEF Counted, Connected
<1>2. /\ Cardinality(Connected) \in Nat /\ Cardinality(handles) \in Nat
      /\ Cardinality(Piping) \in Nat
  BY <1>1, FS_CardinalityType
<1> QED  BY <1>1, <1>2, FilesAssumption DEF Counted, FilesCounted

\* A step of a request takes or gives a descriptor, or it leaves who has one as
\* it is.
LEMMA RequestCounts ==
    ASSUME Control, NEW r \in Requests, ApiNext(r)
    PROVE  \/ Accept(r) \/ Hangup(r) \/ CpuCreate(r) \/ Collect(r)
           \/ /\ UNCHANGED <<files, handles>>
              /\ \/ UNCHANGED at
                 \/ /\ at[r] \notin {"new", "gone"}
                    /\ \E l \in Places \ {"new", "handler", "gone"} : Goto(r, l)
<1>1. CASE Step(r)
  <2>1. CASE CpuCreate(r)  BY <2>1
  <2>2. CASE Handle(r)
    BY <2>2 DEF Handle, Looked, Is, Pass, processVars, Places
  <2>3. CASE MemProf(r) \/ CpuStart(r) \/ CpuStop(r) \/ CpuReport(r)
    BY <2>3 DEF MemProf, CpuStart, CpuStop, CpuReport, Is, Pass, processVars, Places
  <2>4. CASE ProfileStart(r) \/ ProfileBusy(r) \/ ProfileStop(r)
    BY <2>4 DEF ProfileStart, ProfileBusy, ProfileStop, Is, Pass, processVars, Places
  <2>5. CASE EmptyLock(r) \/ EmptyTake(r) \/ EmptyEnd(r) \/ ErrorPanics(r)
    BY <2>5 DEF EmptyLock, EmptyTake, EmptyEnd, ErrorPanics, Is, Pass, processVars, apiVars, Places
  <2>6. CASE Respond(r) \/ RespondResult(r) \/ RespondFailure(r)
    BY <2>6 DEF Respond, RespondResult, RespondFailure, Answer, Is, processVars, Places
  <2> QED  BY <1>1, <2>1, <2>2, <2>3, <2>4, <2>5, <2>6 DEF Step
<1>2. CASE AcceptPanic(r) \/ CreateFails(r)
  BY <1>2 DEF AcceptPanic, CreateFails, Exits, Die, apiVars
<1>3. CASE Accept(r) \/ Collect(r) \/ Hangup(r)  BY <1>3
<1> QED  BY <1>1, <1>2, <1>3 DEF ApiNext

LEMMA RequestCounted ==
    ASSUME Control, Counted, NEW r \in Requests, ApiNext(r), UNCHANGED commandVars
    PROVE  Counted'
<1>1. Piping' = Piping  BY DEF Piping, commandVars
<1>2. at \in [Requests -> Places]  BY DEF Control
<1>3. ASSUME NEW l \in Places, Goto(r, l)
      PROVE  \A q \in Requests : at'[q] = IF q = r THEN l ELSE at[q]
  BY <1>2, <1>3 DEF Goto
<1>4. CASE Accept(r)
  <2>1. /\ at[r] = "new" /\ Goto(r, "handler") /\ handles' = handles
        /\ files' = files + 1 /\ files + 1 <= MaxFiles
    BY <1>4 DEF Accept, Is, Pass, Take
  <2>2. Connected' = Connected \cup {r} /\ r \notin Connected /\ r \notin handles
    BY <1>3, <2>1 DEF Connected, Places, Counted
  <2>3. Cardinality(Connected') = Cardinality(Connected) + 1
    BY <2>2, CountsFinite, FS_AddElement
  <2>4. handles' \subseteq {q \in Requests : at'[q] \notin {"new", "handler"}}
    BY <1>3, <2>1, <2>2 DEF Counted, Places
  <2> QED  BY <1>1, <2>1, <2>3, <2>4, CountsFinite DEF Counted, FilesCounted
<1>5. CASE Hangup(r)
  <2>1. at[r] = "answered" /\ Goto(r, "gone") /\ handles' = handles /\ files' = files - 1
    BY <1>5 DEF Hangup, Is, Pass, Give
  <2>2. Connected' = Connected \ {r} /\ r \in Connected
    BY <1>3, <2>1 DEF Connected, Places
  <2>3. Cardinality(Connected') = Cardinality(Connected) - 1
    BY <2>2, CountsFinite, FS_RemoveElement
  <2>4. handles' \subseteq {q \in Requests : at'[q] \notin {"new", "handler"}}
    BY <1>3, <2>1 DEF Counted, Places
  <2> QED  BY <1>1, <2>1, <2>3, <2>4, CountsFinite DEF Counted, FilesCounted
<1>6. CASE CpuCreate(r)
  <2>1. /\ at[r] = "handler" /\ Goto(r, "created") /\ handles' = handles \cup {r}
        /\ files' = files + 1 /\ files + 1 <= MaxFiles
    BY <1>6 DEF CpuCreate, Is, Take
  <2>2. r \notin handles  BY <2>1 DEF Counted
  <2>3. Connected' = Connected  BY <1>3, <2>1 DEF Connected, Places
  <2>4. Cardinality(handles') = Cardinality(handles) + 1
    BY <2>1, <2>2, CountsFinite, FS_AddElement
  <2>5. handles' \subseteq {q \in Requests : at'[q] \notin {"new", "handler"}}
    BY <1>3, <2>1 DEF Counted, Places
  <2> QED  BY <1>1, <2>1, <2>3, <2>4, <2>5, CountsFinite DEF Counted, FilesCounted
<1>7. CASE Collect(r)
  <2>1. at' = at /\ r \in handles /\ handles' = handles \ {r} /\ files' = files - 1
    BY <1>7 DEF Collect, Give
  <2>2. Connected' = Connected  BY <2>1 DEF Connected
  <2>3. Cardinality(handles') = Cardinality(handles) - 1
    BY <2>1, CountsFinite, FS_RemoveElement
  <2>4. handles' \subseteq {q \in Requests : at'[q] \notin {"new", "handler"}}
    BY <2>1 DEF Counted
  <2> QED  BY <1>1, <2>1, <2>2, <2>3, <2>4, CountsFinite DEF Counted, FilesCounted
<1>8. CASE /\ UNCHANGED <<files, handles>>
           /\ \/ UNCHANGED at
              \/ /\ at[r] \notin {"new", "gone"}
                 /\ \E l \in Places \ {"new", "handler", "gone"} : Goto(r, l)
  <2>1. CASE UNCHANGED at
    BY <1>1, <1>8, <2>1 DEF Counted, FilesCounted, Connected
  <2>2. ASSUME at[r] \notin {"new", "gone"},
               NEW l \in Places \ {"new", "handler", "gone"}, Goto(r, l)
        PROVE  Counted'
    <3>1. \A q \in Requests : at'[q] = IF q = r THEN l ELSE at[q]  BY <1>3, <2>2
    <3>2. Connected' = Connected  BY <2>2, <3>1 DEF Connected
    <3>3. handles' \subseteq {q \in Requests : at'[q] \notin {"new", "handler"}}
      BY <1>8, <2>2, <3>1 DEF Counted
    <3> QED  BY <1>1, <1>8, <3>2, <3>3 DEF Counted, FilesCounted
  <2> QED  BY <1>8, <2>1, <2>2
<1> QED  BY <1>4, <1>5, <1>6, <1>7, <1>8, RequestCounts

LEMMA CommandCounted ==
    ASSUME Commands, Counted, CommandNext, UNCHANGED apiVars
    PROVE  Counted'
<1>1. /\ handles' = handles /\ Connected' = Connected
      /\ handles' \subseteq {q \in Requests : at'[q] \notin {"new", "handler"}}
  BY DEF apiVars, Connected, Counted
<1>2. CASE files' = files /\ Piping' = Piping
  BY <1>1, <1>2 DEF Counted, FilesCounted
<1>3. CASE \E n \in 1..MaxBatch : Batch(n)
  BY <1>2, <1>3 DEF Batch, Piping
<1>4. CASE QuotePanic  BY <1>2, <1>4 DEF QuotePanic, Die, commandVars, Piping
<1>5. CASE StartChild
  <2>1. /\ Current \in Packets /\ child[Current] = "none" /\ Becomes(Current, "running")
        /\ files' = files + 1 /\ files + 1 <= MaxFiles
    BY <1>5, CommandNumbers DEF StartChild, Writing, Take
  <2>2. Piping' = Piping \cup {Current} /\ Current \notin Piping
    BY <2>1, BecomesType DEF Piping, Statuses
  <2>3. Cardinality(Piping') = Cardinality(Piping) + 1
    BY <2>2, CountsFinite, FS_AddElement
  <2> QED  BY <1>1, <2>1, <2>3, CountsFinite DEF Counted, FilesCounted
<1>6. CASE StartFails
  <2>1. /\ Current \in Packets /\ child[Current] = "none" /\ Becomes(Current, "failed")
        /\ files' = files
    BY <1>6, CommandNumbers DEF StartFails, Writing, processVars
  <2>2. Piping' = Piping  BY <2>1, BecomesType DEF Piping, Statuses
  <2> QED  BY <1>2, <2>1, <2>2
<1>7. ASSUME NEW p \in Packets, ChildExits(p) PROVE Counted'
  <2>1. child[p] = "running" /\ Becomes(p, "exited") /\ files' = files
    BY <1>7 DEF ChildExits, processVars
  <2>2. Piping' = Piping  BY <2>1, BecomesType DEF Piping, Statuses
  <2> QED  BY <1>2, <2>1, <2>2
<1>8. ASSUME NEW p \in Packets, PipeCloses(p) PROVE Counted'
  <2>1. child[p] = "exited" /\ Becomes(p, "zombie") /\ files' = files - 1
    BY <1>8 DEF PipeCloses, Give
  <2>2. Piping' = Piping \ {p} /\ p \in Piping
    BY <2>1, BecomesType DEF Piping, Statuses
  <2>3. Cardinality(Piping') = Cardinality(Piping) - 1
    BY <2>2, CountsFinite, FS_RemoveElement
  <2> QED  BY <1>1, <2>1, <2>3, CountsFinite DEF Counted, FilesCounted
<1> QED  BY <1>3, <1>4, <1>5, <1>6, <1>7, <1>8 DEF CommandNext, WriteNext

\* Counted is an invariant, beside what is known of requests and commands.
THEOREM CountInvariance == Spec => []Counted
<1>1. Control /\ Commands /\ Counted /\ [Next]_vars => Counted'
  <2> SUFFICES ASSUME Control, Commands, Counted, [Next]_vars PROVE Counted'
    OBVIOUS
  <2>1. CASE UNCHANGED <<apiVars, commandVars, files>>
    BY <2>1 DEF apiVars, commandVars, Counted, FilesCounted, Connected, Piping
  <2>2. CASE (Feed \/ Shutdown \/ Stopped) /\ UNCHANGED <<apiVars, commandVars>>
    BY <2>1, <2>2 DEF Feed, Shutdown, Stopped, Die
  <2>3. CASE \E r \in Requests : ApiNext(r) /\ UNCHANGED commandVars
    BY <2>3, RequestCounted
  <2>4. CASE CommandNext /\ UNCHANGED apiVars  BY <2>4, CommandCounted
  <2>5. CASE UNCHANGED vars  BY <2>1, <2>5 DEF vars, processVars
  <2> QED  BY <2>2, <2>3, <2>4, <2>5 DEF Next, Ended
<1> QED  BY <1>1, InitCounted, ControlInvariance, CommandInvariance, PTL DEF Spec

\* Every descriptor is that of a connection, of a profile file or of the pipe of
\* a command, and there are never more than the process may have.
THEOREM DescriptorsCounted == Spec => []FilesCounted
<1>1. Counted => FilesCounted  BY DEF Counted
<1> QED  BY <1>1, CountInvariance, PTL

-----------------------------------------------------------------------------
\* What the requests share, they have from requests.
Shared == UNION {lock, profiler, content, cut, handles, disturbed, whole} \subseteq Requests

LEMMA ProfilerShared ==
    ASSUME Shared, NEW r \in Requests, StopProfiler(r), UNCHANGED <<lock, handles, disturbed, whole>>
    PROVE  Shared'
<1>1. content' \subseteq content \cup profiler /\ cut' \subseteq cut \cup profiler /\ profiler' = {}
  BY DEF StopProfiler
<1> QED  BY <1>1 DEF Shared

LEMMA RequestShared ==
    ASSUME Shared, NEW r \in Requests, ApiNext(r)
    PROVE  Shared'
<1>1. CASE UNCHANGED <<lock, profiler, content, cut, handles, disturbed, whole>>
  BY <1>1 DEF Shared
<1>2. CASE Step(r)
  <2>1. CASE Handle(r) \/ MemProf(r) \/ ProfileBusy(r) \/ ErrorPanics(r)
    BY <1>1, <2>1 DEF Handle, Looked, MemProf, ProfileBusy, ErrorPanics, Pass
  <2>2. CASE Respond(r) \/ RespondResult(r) \/ RespondFailure(r) \/ EmptyTake(r)
    BY <1>1, <2>2 DEF Respond, RespondResult, RespondFailure, Answer, EmptyTake, apiVars
  <2>3. CASE CpuCreate(r)
    <3>1. OtherReports(r) \subseteq Requests  BY DEF OtherReports
    <3> QED  BY <2>3, <3>1 DEF CpuCreate, Shared
  <2>4. CASE CpuStart(r)  BY <2>4 DEF CpuStart, Shared
  <2>5. CASE CpuStop(r)  BY <2>5, ProfilerShared DEF CpuStop
  <2>6. CASE CpuReport(r)  BY <2>6 DEF CpuReport, Shared
  <2>7. CASE ProfileStart(r)  BY <2>7 DEF ProfileStart, Shared
  <2>8. CASE ProfileStop(r)  BY <2>8, ProfilerShared DEF ProfileStop
  <2>9. CASE EmptyLock(r) \/ EmptyEnd(r)  BY <2>9 DEF EmptyLock, EmptyEnd, Shared
  <2> QED  BY <1>2, <2>1, <2>2, <2>3, <2>4, <2>5, <2>6, <2>7, <2>8, <2>9 DEF Step
<1>3. CASE AcceptPanic(r) \/ CreateFails(r)
  BY <1>1, <1>3 DEF AcceptPanic, CreateFails, Exits, apiVars
<1>4. CASE Accept(r) \/ Hangup(r)  BY <1>1, <1>4 DEF Accept, Hangup, Pass
<1>5. CASE Collect(r)  BY <1>5 DEF Collect, Shared
<1> QED  BY <1>2, <1>3, <1>4, <1>5 DEF ApiNext

\* TypeOK, from the three invariants and Shared.
THEOREM TypeCorrect == Spec => []TypeOK
<1>1. Init => Shared  BY DEF Init, ApiInit, Shared
<1>2. Shared /\ [Next]_vars => Shared'
  <2> SUFFICES ASSUME Shared, [Next]_vars PROVE Shared'
    OBVIOUS
  <2>1. CASE UNCHANGED apiVars  BY <2>1 DEF apiVars, Shared
  <2>2. CASE \E r \in Requests : ApiNext(r) /\ UNCHANGED commandVars
    BY <2>2, RequestShared
  <2> QED  BY <2>1, <2>2 DEF Next, Ended, vars
<1>3. Shared /\ Control /\ Commands /\ Counted => TypeOK
  BY CountsFinite DEF Shared, Control, Commands, TypeOK, ApiTypeOK
<1> QED
  BY <1>1, <1>2, <1>3, ControlInvariance, CommandInvariance, CountInvariance, PTL DEF Spec

-----------------------------------------------------------------------------
\* A profile that is taken alone.

\* Request q still uses the profiler, or is about to.
Uses(q) == at[q] \in {"created", "sleeping"}

\* A request of GetCPUProfile that met no other: nobody else is at the profiler as
\* long as it needs it, no one empties the file behind it before it has reported,
\* and nobody stopped it.
Undisturbed(r) ==
    /\ Uses(r) => content = {} /\ \A q \in Requests \ {r} : ~ Uses(q)
    /\ at[r] = "sleeping" => profiler = {r}
    /\ at[r] = "stopped" =>
          content = {r} /\ \A q \in Requests \ {r} : kind[q] = "cpuprof" => ~ Uses(q)
    /\ at[r] \in {"data", "answered", "gone"} => r \in whole
    /\ r \notin cut

Alone ==
    \A r \in Requests :
        /\ at[r] \in {"new", "handler"} => r \notin cut
        /\ kind[r] = "cpuprof" /\ r \notin disturbed => Undisturbed(r)

\* The steps of a request that have nothing to do with the profiler.
LEMMA CalmStep ==
    ASSUME Control, NEW q \in Requests, ApiNext(q)
    PROVE  \/ CpuCreate(q) \/ CpuStart(q) \/ CpuStop(q) \/ CpuReport(q)
           \/ ProfileStart(q) \/ ProfileStop(q)
           \/ /\ UNCHANGED <<kind, profiler, content, cut, disturbed, whole>>
              /\ \/ UNCHANGED at
                 \/ \E l \in Places \ {"new", "created", "sleeping", "stopped"} :
                       /\ Goto(q, l)
                       /\ l = "handler" => at[q] = "new"
                       /\ kind[q] = "cpuprof" =>
                             \/ l = "handler"
                             \/ at[q] \in {"data", "answered", "gone"}
<1>0. MayBe(kind[q], at[q])  BY DEF Control
<1> USE DEF Is, Pass, Places
<1>1. CASE Step(q)
  <2>1. CASE Handle(q) \/ MemProf(q) \/ ProfileBusy(q)
    BY <2>1 DEF Handle, Looked, MemProf, ProfileBusy
  <2>2. CASE EmptyLock(q) \/ EmptyTake(q) \/ EmptyEnd(q)
    BY <2>2 DEF EmptyLock, EmptyTake, EmptyEnd, apiVars
  <2>3. CASE Respond(q)  BY <2>3 DEF Respond, Answer
  <2>4. CASE RespondResult(q)  BY <1>0, <2>4 DEF RespondResult, Answer, MayBe
  <2>5. CASE RespondFailure(q)  BY <1>0, <2>5 DEF RespondFailure, Answer, MayBe
  <2>6. CASE ErrorPanics(q)  BY <2>6 DEF ErrorPanics
  <2> QED  BY <1>1, <2>1, <2>2, <2>3, <2>4, <2>5, <2>6 DEF Step
<1>2. CASE AcceptPanic(q) \/ CreateFails(q)
  BY <1>2 DEF AcceptPanic, CreateFails, Exits, apiVars
<1>3. CASE Accept(q)  BY <1>3 DEF Accept
<1>4. CASE Hangup(q)  BY <1>4 DEF Hangup
<1>5. CASE Collect(q)  BY <1>5 DEF Collect
<1> QED  BY <1>1, <1>2, <1>3, <1>4, <1>5 DEF ApiNext

\* What others do leaves an undisturbed request alone.
LEMMA OthersStep ==
    ASSUME Control, Alone, NEW q \in Requests, ApiNext(q),
           NEW r \in Requests, r # q, kind'[r] = "cpuprof", r \notin disturbed'
    PROVE  Undisturbed(r)'
<1>1. /\ at \in [Requests -> Places] /\ profiler \subseteq Requests
      /\ \A x \in profiler : at[x] = "sleeping"
  BY DEF Control, ProfilerOwned
<1>2. ASSUME NEW l, Goto(q, l)
      PROVE  \A x \in Requests : at'[x] = IF x = q THEN l ELSE at[x]
  BY <1>1, <1>2 DEF Goto
<1>3. CASE CpuCreate(q)
  <2>1. /\ Goto(q, "created") /\ content' = {} /\ UNCHANGED <<kind, profiler, cut, whole>>
        /\ disturbed' = disturbed \cup OtherReports(q)
                          \cup (IF OtherUsers(q) = {} THEN {} ELSE {q})
    BY <1>3 DEF CpuCreate
  <2>2. r \notin OtherReports(q) /\ r \notin disturbed /\ kind[r] = "cpuprof"  BY <2>1
  <2>3. at[r] \notin {"created", "sleeping", "stopped"}  BY <2>2 DEF OtherReports
  <2>4. at'[r] = at[r]  BY <1>2, <2>1
  <2> QED  BY <2>1, <2>2, <2>3, <2>4 DEF Alone, Undisturbed, Uses
<1>4. CASE CpuStart(q) \/ CpuStop(q)
  <2>1. Uses(q) /\ kind[q] = "cpuprof" /\ UNCHANGED <<kind, disturbed, whole>>
    BY <1>4 DEF CpuStart, CpuStop, Is, Uses
  <2>2. Undisturbed(r)  BY <2>1 DEF Alone
  <2>3. at[r] \notin {"created", "sleeping", "stopped"}  BY <2>1, <2>2 DEF Undisturbed, Uses
  <2>4. at'[r] = at[r]  BY <1>2, <1>4 DEF CpuStart, CpuStop
  <2>5. r \notin cut'
    <3>1. r \notin profiler  BY <1>1, <2>3
    <3> QED  BY <1>4, <2>2, <3>1 DEF CpuStart, CpuStop, StopProfiler, Undisturbed
  <2> QED  BY <2>1, <2>2, <2>3, <2>4, <2>5 DEF Undisturbed, Uses
<1>5. CASE CpuReport(q)
  <2>1. /\ Goto(q, "data") /\ whole \subseteq whole'
        /\ UNCHANGED <<kind, profiler, content, cut, disturbed>>
    BY <1>5 DEF CpuReport
  <2>2. Undisturbed(r)  BY <2>1 DEF Alone
  <2>3. at'[r] = at[r] /\ \A x \in Requests \ {r} : Uses(x)' => Uses(x)
    BY <1>2, <2>1 DEF Uses
  <2> QED  BY <2>1, <2>2, <2>3 DEF Undisturbed, Uses
<1>6. CASE ProfileStart(q)
  <2>1. /\ Goto(q, "sleeping") /\ profiler = {} /\ kind[q] = "profile"
        /\ UNCHANGED <<kind, content, cut, whole>>
        /\ disturbed' = disturbed \cup {x \in Requests : at[x] = "created"}
    BY <1>6 DEF ProfileStart, Is
  <2>2. Undisturbed(r) /\ at[r] # "created"  BY <2>1 DEF Alone
  <2>3. at[r] # "sleeping"  BY <2>1, <2>2 DEF Undisturbed
  <2>4. at'[r] = at[r] /\ \A x \in Requests \ {q} : Uses(x)' <=> Uses(x)
    BY <1>2, <2>1 DEF Uses
  <2> QED  BY <2>1, <2>2, <2>3, <2>4 DEF Undisturbed, Uses
<1>7. CASE ProfileStop(q)
  <2>1. /\ at[q] = "sleeping" /\ Goto(q, "data") /\ StopProfiler(q)
        /\ UNCHANGED <<kind, disturbed, whole>>
    BY <1>7 DEF ProfileStop, Is
  <2>2. Undisturbed(r) /\ kind[r] = "cpuprof"  BY <2>1 DEF Alone
  <2>3. ~ Uses(r)  BY <2>1, <2>2 DEF Undisturbed, Uses
  <2>4. at'[r] = at[r] /\ \A x \in Requests \ {r} : Uses(x)' => Uses(x)
    BY <1>2, <2>1 DEF Uses
  <2>5. r \notin cut'
    <3>1. r \notin profiler  BY <1>1, <2>3 DEF Uses
    <3> QED  BY <2>1, <2>2, <3>1 DEF StopProfiler, Undisturbed
  <2>6. at[r] = "stopped" => content' = content
    <3>1. SUFFICES ASSUME at[r] = "stopped" PROVE content' = content
      OBVIOUS
    <3>2. {x \in profiler : kind[x] = "cpuprof"} = {}
      BY <1>1, <2>2, <3>1 DEF Undisturbed, Uses
    <3> QED  BY <2>1, <3>2 DEF StopProfiler
  <2> QED  BY <2>1, <2>2, <2>3, <2>4, <2>5, <2>6 DEF Undisturbed, Uses
<1>8. ASSUME UNCHANGED <<kind, profiler, content, cut, disturbed, whole>>,
             at'[r] = at[r], \A x \in Requests : Uses(x)' => Uses(x)
      PROVE  Undisturbed(r)'
  <2>1. Undisturbed(r)  BY <1>8 DEF Alone
  <2> QED  BY <1>8, <2>1 DEF Undisturbed, Uses
<1>9. ASSUME NEW l \in Places \ {"new", "created", "sleeping", "stopped"}, Goto(q, l)
      PROVE  at'[r] = at[r] /\ \A x \in Requests : Uses(x)' => Uses(x)
  BY <1>2, <1>9 DEF Uses
<1>10. at' = at => at'[r] = at[r] /\ \A x \in Requests : Uses(x)' => Uses(x)
  BY DEF Uses
<1> QED  BY <1>3, <1>4, <1>5, <1>6, <1>7, <1>8, <1>9, <1>10, CalmStep

\* What it does itself.
LEMMA OwnStep ==
    ASSUME Control, Alone, NEW r \in Requests, ApiNext(r),
           kind'[r] = "cpuprof", r \notin disturbed'
    PROVE  Undisturbed(r)'
<1>1. /\ at \in [Requests -> Places] /\ profiler \subseteq Requests
      /\ \A x \in profiler : at[x] = "sleeping"
  BY DEF Control, ProfilerOwned
<1>2. ASSUME NEW l, Goto(r, l)
      PROVE  \A x \in Requests : at'[x] = IF x = r THEN l ELSE at[x]
  BY <1>1, <1>2 DEF Goto
<1>3. CASE CpuCreate(r)
  <2>1. /\ at[r] = "handler" /\ Goto(r, "created") /\ content' = {}
        /\ UNCHANGED <<kind, profiler, cut, whole>>
        /\ disturbed' = disturbed \cup OtherReports(r)
                          \cup (IF OtherUsers(r) = {} THEN {} ELSE {r})
    BY <1>3 DEF CpuCreate, Is
  <2>2. OtherUsers(r) = {}  BY <2>1
  <2>3. r \notin cut  BY <2>1 DEF Alone
  <2>4. \A q \in Requests \ {r} : ~ Uses(q)'  BY <1>2, <2>1, <2>2 DEF OtherUsers, Uses
  <2>5. at'[r] = "created"  BY <1>2, <2>1
  <2> QED  BY <2>1, <2>3, <2>4, <2>5 DEF Undisturbed, Uses
<1>4. CASE CpuStart(r)
  <2>1. /\ at[r] = "created" /\ Goto(r, "sleeping")
        /\ profiler' = IF profiler = {} THEN {r} ELSE profiler
        /\ UNCHANGED <<kind, content, cut, disturbed, whole>>
    BY <1>4 DEF CpuStart, Is
  <2>2. Undisturbed(r)  BY <2>1 DEF Alone
  <2>3. content = {} /\ \A q \in Requests \ {r} : ~ Uses(q)
    BY <2>1, <2>2 DEF Undisturbed, Uses
  <2>4. profiler = {}  BY <1>1, <2>1, <2>3 DEF Uses
  <2>5. at'[r] = "sleeping" /\ \A q \in Requests \ {r} : ~ Uses(q)'
    BY <1>2, <2>1, <2>3 DEF Uses
  <2> QED  BY <2>1, <2>2, <2>3, <2>4, <2>5 DEF Undisturbed, Uses
<1>5. CASE CpuStop(r)
  <2>1. /\ at[r] = "sleeping" /\ kind[r] = "cpuprof" /\ Goto(r, "stopped") /\ StopProfiler(r)
        /\ UNCHANGED <<kind, disturbed, whole>>
    BY <1>5 DEF CpuStop, Is
  <2>2. Undisturbed(r)  BY <2>1 DEF Alone
  <2>3. /\ content = {} /\ profiler = {r} /\ r \notin cut
        /\ \A q \in Requests \ {r} : ~ Uses(q)
    BY <2>1, <2>2 DEF Undisturbed, Uses
  <2>4. {q \in profiler : kind[q] = "cpuprof"} = {r}  BY <2>1, <2>3
  <2>5. content' = {r} /\ r \notin cut'  BY <2>1, <2>3, <2>4 DEF StopProfiler
  <2>6. at'[r] = "stopped" /\ \A q \in Requests \ {r} : ~ Uses(q)'
    BY <1>2, <2>1, <2>3 DEF Uses
  <2> QED  BY <2>5, <2>6 DEF Undisturbed, Uses
<1>6. CASE CpuReport(r)
  <2>1. /\ at[r] = "stopped" /\ Goto(r, "data") /\ UNCHANGED <<kind, content, cut, disturbed>>
        /\ whole' = IF content = {r} /\ r \notin cut THEN whole \cup {r} ELSE whole
    BY <1>6 DEF CpuReport, Is
  <2>2. Undisturbed(r)  BY <2>1 DEF Alone
  <2>3. r \in whole' /\ r \notin cut' /\ at'[r] = "data"
    BY <1>2, <2>1, <2>2 DEF Undisturbed
  <2> QED  BY <2>3 DEF Undisturbed, Uses
<1>7. CASE ProfileStart(r) \/ ProfileStop(r)
  BY <1>7 DEF ProfileStart, ProfileStop, Is
<1>8. ASSUME UNCHANGED <<kind, profiler, content, cut, disturbed, whole>>
      PROVE  Undisturbed(r)
  BY <1>8 DEF Alone
<1>9. CASE UNCHANGED <<at, kind, profiler, content, cut, disturbed, whole>>
  BY <1>8, <1>9 DEF Undisturbed, Uses
<1>10. ASSUME UNCHANGED <<kind, profiler, content, cut, disturbed, whole>>,
              NEW l \in Places \ {"new", "created", "sleeping", "stopped"}, Goto(r, l),
              l = "handler" \/ at[r] \in {"data", "answered", "gone"}
       PROVE  Undisturbed(r)'
  <2>1. at'[r] = l  BY <1>2, <1>10
  <2> QED  BY <1>8, <1>10, <2>1 DEF Undisturbed, Uses
<1> QED  BY <1>3, <1>4, <1>5, <1>6, <1>7, <1>9, <1>10, CalmStep

\* Who has not come to the profiler yet was not stopped by another.
LEMMA NotCutYet ==
    ASSUME Control, Alone, NEW q \in Requests, ApiNext(q),
           NEW r \in Requests, at'[r] \in {"new", "handler"}
    PROVE  r \notin cut'
<1>1. /\ at \in [Requests -> Places] /\ profiler \subseteq Requests
      /\ \A x \in profiler : at[x] = "sleeping"
  BY DEF Control, ProfilerOwned
<1>2. ASSUME NEW l, Goto(q, l)
      PROVE  \A x \in Requests : at'[x] = IF x = q THEN l ELSE at[x]
  BY <1>1, <1>2 DEF Goto
<1>3. CASE CpuCreate(q) \/ CpuStart(q) \/ CpuReport(q) \/ ProfileStart(q)
  BY <1>2, <1>3 DEF CpuCreate, CpuStart, CpuReport, ProfileStart, Alone
<1>4. CASE CpuStop(q) \/ ProfileStop(q)
  <2>1. StopProfiler(q) /\ (Goto(q, "stopped") \/ Goto(q, "data"))
    BY <1>4 DEF CpuStop, ProfileStop
  <2>2. at'[r] = at[r]  BY <1>2, <2>1
  <2>3. r \notin profiler /\ r \notin cut  BY <1>1, <2>2 DEF Alone
  <2> QED  BY <2>1, <2>3 DEF StopProfiler
<1>5. ASSUME cut' = cut, NEW l, Goto(q, l), l # "new", l = "handler" => at[q] = "new"
      PROVE  r \notin cut'
  BY <1>2, <1>5 DEF Alone
<1>6. CASE UNCHANGED <<at, cut>>  BY <1>6 DEF Alone
<1> QED  BY <1>3, <1>4, <1>5, <1>6, CalmStep

\* A request that met no other user of the profiler finds its whole profile in the
\* file, and nothing else, whatever requests came before and come after
\* (pprof.go:57-76).
THEOREM AloneIsWhole == Spec => []WholeWhenAlone
<1>1. Init => Alone
  BY DEF Init, ApiInit, Alone, Undisturbed, Uses
<1>2. ASSUME Control, Alone, [Next]_vars PROVE Alone'
  <2>1. CASE UNCHANGED apiVars
    BY <1>2, <2>1 DEF apiVars, Alone, Undisturbed, Uses
  <2>2. ASSUME NEW q \in Requests, ApiNext(q) PROVE Alone'
    <3>1. SUFFICES ASSUME NEW r \in Requests
                   PROVE  /\ at'[r] \in {"new", "handler"} => r \notin cut'
                          /\ kind'[r] = "cpuprof" /\ r \notin disturbed' => Undisturbed(r)'
      BY DEF Alone
    <3> QED  BY <1>2, <2>2, OthersStep, OwnStep, NotCutYet
  <2> QED  BY <1>2, <2>1, <2>2 DEF Next, Ended, vars
<1>3. Alone => WholeWhenAlone  BY DEF Alone, Undisturbed, WholeWhenAlone
<1> QED  BY <1>1, <1>2, <1>3, ControlInvariance, PTL DEF Spec

=============================================================================

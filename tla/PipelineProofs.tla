--------------------------- MODULE PipelineProofs ---------------------------
(***************************************************************************)
(* Proofs about Pipeline, for every size of its channels and batches, any  *)
(* senders and any number of messages: IInv is inductive, the safety       *)
(* properties follow from it, and the pipeline implements Delivery.        *)
(***************************************************************************)
EXTENDS Pipeline, SequenceFacts, TLAPS

-----------------------------------------------------------------------------
\* The conjuncts of IInv that speak of labels, channels and senders.
Control ==
    /\ opts \in Configs
    /\ proc \in {"up", "fatal", "panic", "crash", "stopped", "forced"}
    /\ pc \in [Goroutines -> Labels]
    /\ sender \in [Senders -> {"off", "idle", "send"}]
    /\ closed \subseteq Channels
    /\ emptying \in BOOLEAN /\ empties \in Nat /\ (emptying => empties > 0)
    /\ LabelsOK /\ StartOK /\ CloseOK /\ EndOK

\* Those that speak of what the sequences hold.
Data ==
    /\ inchan \in Seq(Msg) /\ held \in Seq(Msg) /\ outchan \in Seq(Msg)
    /\ packets \in Seq(Msg) /\ left \in Nat
    /\ accepted \in Nat /\ written \in Seq(Msg) /\ discarded \subseteq Msg
    /\ BatchOK /\ CapacityOK /\ BulkBacked /\ RejectedNeverWritten

LEMMA IInvParts == IInv <=> Control /\ Data
  BY Zenon DEF IInv, TypeOK, MsgSeq, Msg, Control, Data

LEMMA IInvPartsNext == IInv' <=> Control' /\ Data'
  BY Zenon DEF IInv, TypeOK, MsgSeq, Msg, Control, Data

LEMMA InitIInv == Init => IInv
<1> SUFFICES ASSUME Init PROVE Control /\ Data
  BY IInvParts
<1>1. Control
  <2>1. /\ opts \in Configs /\ proc = "up" /\ closed = {} /\ accepted = 0
        /\ pc \in [Goroutines -> Labels]
        /\ pc["main"] = "init" /\ pc["serve"] = "off" /\ pc["output"] = "off"
        /\ pc["filter"] = "off" /\ pc["input"] = "off"
        /\ sender \in [Senders -> {"off", "idle", "send"}]
        /\ \A s \in Senders : sender[s] = "off"
    BY SMT DEF Init, Goroutines, Labels
  <2>2. emptying \in BOOLEAN /\ empties \in Nat /\ (emptying => empties > 0)
    BY DEF Init
  <2>3. LabelsOK /\ StartOK /\ CloseOK /\ EndOK
    BY <2>1, SMT DEF LabelsOK, StartOK, CloseOK, EndOK, PanicCauses, Closing
  <2> QED  BY <2>1, <2>2, <2>3, SMT DEF Control
<1>2. Data
  <2>1. /\ inchan = <<>> /\ held = <<>> /\ outchan = <<>> /\ packets = <<>>
        /\ left = 0 /\ accepted = 0 /\ written = <<>> /\ discarded = {}
        /\ pc["output"] = "off" /\ pc["filter"] = "off"
    BY DEF Init, Goroutines
  <2>2. BatchOK /\ CapacityOK /\ BulkBacked
    BY <2>1, SeqEmpty, ReadSizeAssumption, WriteSizeAssumption, SMT
       DEF BatchOK, CapacityOK, BulkBacked
  <2>3. RejectedNeverWritten  BY <2>1, SeqEmpty, Zenon DEF RejectedNeverWritten
  <2> QED  BY <2>1, <2>2, <2>3, SeqEmpty, SMT DEF Data
<1> QED  BY <1>1, <1>2

-----------------------------------------------------------------------------
\* A step that leaves the flow of messages alone keeps Data if it leaves the
\* filter and the output where they are, or starts or ends them.

Quiet == UNCHANGED <<flow, empties>> /\ pc'["output"] = pc["output"] /\ pc'["filter"] = pc["filter"]

LEMMA QuietData == Data /\ Quiet => Data'
  BY Zenon DEF Data, Quiet, flow, BatchOK, CapacityOK, BulkBacked, RejectedNeverWritten

\* Nor does it disturb where the goroutines are.
LEMMA KeepsPlaces ==
    ASSUME Control, UNCHANGED <<pc, sender, closed, accepted>>
    PROVE  LabelsOK' /\ StartOK' /\ CloseOK'
<1>1. LabelsOK /\ StartOK /\ CloseOK  BY DEF Control
<1>2. LabelsOK'  BY <1>1, Zenon DEF LabelsOK
<1>3. StartOK'  BY <1>1, Zenon DEF StartOK
<1>4. CloseOK'  BY <1>1, Zenon DEF CloseOK
<1> QED  BY <1>2, <1>3, <1>4

LEMMA DieStep ==
    ASSUME NEW how \in {"fatal", "panic", "crash", "stopped", "forced"}, IInv, Die(how),
           how = "panic" => "exitChan" \in closed,
           how = "crash" =>
              \/ /\ accepted = 0
                 /\ SetContextPanics \/ "inputValue" \in opts.missing
              \/ pc["output"] = "write" /\ packets # <<>> /\ ~CanWrite
              \/ pc["serve"] = "serving" /\ "descriptor" \in opts.missing,
           how = "stopped" => {pc["output"], pc["filter"]} \subseteq {"off", "done"}
    PROVE  IInv'
<1>1. Control /\ Data  BY IInvParts
<1>2. Data'  BY <1>1, QuietData DEF Die, Quiet
<1>3. Control'
  <2>1. Die(how) /\ UNCHANGED <<opts, pc, sender, closed, flow, emptying, empties>> /\ proc' = how
    BY DEF Die
  <2>2. PanicCauses'
    BY <2>1, Zenon DEF PanicCauses, SetContextPanics, CanWrite, OutputWorks, flow
  <2>3. LabelsOK' /\ StartOK' /\ CloseOK'
    BY <1>1, <2>1, KeepsPlaces, Zenon DEF flow
  <2>4. EndOK'  BY <1>1, <2>1, <2>2, Zenon DEF Control, EndOK
  <2> QED  BY <1>1, <2>1, <2>3, <2>4, Zenon DEF Control
<1> QED  BY <1>2, <1>3, IInvPartsNext

LEMMA MainStep == IInv /\ MainNext => IInv'
<1> SUFFICES ASSUME Control, Data, MainNext PROVE Control' /\ Data'
  BY IInvParts, IInvPartsNext
<1> USE DEF Control, LabelsOK, StartOK, CloseOK, EndOK, PanicCauses, At, Goto,
        Closing, Goroutines, Labels
<1>1. CASE PortTaken
  BY <1>1, DieStep, IInvParts, IInvPartsNext, SMT DEF PortTaken
<1>2. CASE Launch
  <2>1. Control'  BY <1>2, SMT DEF Launch, flow
  <2>2. Data'  BY <1>2, SMT DEF Launch, Data, flow, BatchOK, CapacityOK, BulkBacked, RejectedNeverWritten
  <2> QED  BY <2>1, <2>2
<1>3. CASE Collect
  <2>1. Control'  BY <1>3, SMT DEF Collect, flow
  <2>2. Data'  BY <1>3, SMT DEF Collect, Data, flow, BatchOK, CapacityOK, BulkBacked, RejectedNeverWritten
  <2> QED  BY <2>1, <2>2
<1> QED  BY <1>1, <1>2, <1>3, Zenon DEF MainNext

LEMMA PluginStep ==
    ASSUME NEW g \in {"output", "filter", "input"}, IInv, PluginMissing(g)
    PROVE  IInv'
  BY DieStep, SMT DEF PluginMissing

\* The start of the input plugins, and stdin, which sends by itself.
LEMMA InputStep == IInv /\ InputNext => IInv'
<1> SUFFICES ASSUME Control, Data, InputNext PROVE Control' /\ Data'
  BY IInvParts, IInvPartsNext
<1> USE DEF Control, LabelsOK, StartOK, CloseOK, EndOK, PanicCauses, At, Goto,
        Closing, Goroutines, Labels, Starting
<1>1. CASE ConfigMissing
  BY <1>1, DieStep, IInvParts, IInvPartsNext, SMT DEF ConfigMissing
<1>9. CASE ValuePanic
  BY <1>9, DieStep, IInvParts, IInvPartsNext, SMT DEF ValuePanic
<1>2. ASSUME NEW S \in SUBSET Senders, NEW l \in {"done", "wait", "ttl"},
             At("input", "init"), StartSenders(S, l)
      PROVE  Control' /\ Data'
  <2>1. Control'  BY <1>2, SMT DEF StartSenders, flow
  <2>2. Quiet  BY <1>2, SMT DEF StartSenders, Quiet
  <2> QED  BY <2>1, <2>2, QuietData
<1>3. CASE StartFile  BY <1>2, <1>3 DEF StartFile
<1>4. CASE StartCron  BY <1>2, <1>4 DEF StartCron
<1>5. CASE StartTcpDump  BY <1>2, <1>5 DEF StartTcpDump
<1>6. CASE StdinSend
  <2>1. Control'  BY <1>6, SMT DEF StdinSend, Accept, Data
  <2>2. Data'
    <3>1. /\ inchan' \in Seq(Msg) /\ Len(inchan') = Len(inchan) + 1
          /\ accepted' \in Nat
      BY <1>6, SeqAppend, SMT DEF StdinSend, Accept, Data, Msg
    <3>2. Len(inchan') <= MaxReadChannelSize
      BY <1>6, <3>1, SeqNonEmpty, ReadSizeAssumption, SMT DEF StdinSend, Room, Data
    <3> QED  BY <1>6, <3>1, <3>2, SMT
             DEF StdinSend, Accept, Data, BatchOK, CapacityOK, BulkBacked, RejectedNeverWritten
  <2> QED  BY <2>1, <2>2
<1>7. CASE StdinPanic
  BY <1>7, DieStep, IInvParts, IInvPartsNext, SMT DEF StdinPanic
<1>8. CASE InputExit
  <2>1. Control'  BY <1>8, SMT DEF InputExit, flow
  <2>2. Quiet  BY <1>8, SMT DEF InputExit, Quiet
  <2> QED  BY <2>1, <2>2, QuietData
<1> QED  BY <1>1, <1>3, <1>4, <1>5, <1>6, <1>7, <1>8, <1>9, Zenon DEF InputNext

\* The senders of the inputs move by themselves; Send and Capture give a
\* message to Inchan, for which there is room.
LEMMA SenderStep ==
    ASSUME IInv, NEW s \in Senders, SenderNext(s)
    PROVE  IInv'
<1> SUFFICES Control' /\ Data'
  BY IInvPartsNext
<1>0. Control /\ Data  BY IInvParts
<1> USE DEF Control, LabelsOK, StartOK, CloseOK, EndOK, PanicCauses, Ready, Move,
        Closing, Goroutines, Labels
<1>1. CASE Offer(s) \/ JobRecover(s) \/ StreamNew(s) \/ StreamEnd(s)
  <2>1. CASE Offer(s)
    <3>1. Control'  BY <1>0, <2>1, SMT DEF Offer, flow
    <3>2. Quiet  BY <2>1, SMT DEF Offer, Quiet
    <3> QED  BY <1>0, <3>1, <3>2, QuietData
  <2>2. CASE JobRecover(s)
    <3>1. Control'  BY <1>0, <2>2, SMT DEF JobRecover, flow
    <3>2. Quiet  BY <2>2, SMT DEF JobRecover, Quiet
    <3> QED  BY <1>0, <3>1, <3>2, QuietData
  <2>3. CASE StreamNew(s)
    <3>1. pc["input"] \notin {"off", "init"}
      BY <1>0, <2>3, StreamsAssumption, SMT DEF StreamNew
    <3>2. Control'  BY <1>0, <2>3, <3>1, SMT DEF StreamNew, flow
    <3>3. Quiet  BY <2>3, SMT DEF StreamNew, Quiet
    <3> QED  BY <1>0, <3>2, <3>3, QuietData
  <2>4. CASE StreamEnd(s)
    <3>1. Control'  BY <1>0, <2>4, SMT DEF StreamEnd, flow
    <3>2. Quiet  BY <2>4, SMT DEF StreamEnd, Quiet
    <3> QED  BY <1>0, <3>1, <3>2, QuietData
  <2> QED  BY <1>1, <2>1, <2>2, <2>3, <2>4
<1>2. CASE FilePanic(s)
  BY <1>0, <1>2, DieStep, IInvParts, IInvPartsNext, SMT DEF FilePanic
<1>3. CASE CapturePanic(s)
  BY <1>0, <1>3, DieStep, IInvParts, IInvPartsNext, SMT DEF CapturePanic
<1>5. CASE ListenFatal(s)
  BY <1>0, <1>5, DieStep, IInvParts, IInvPartsNext, SMT DEF ListenFatal
<1>4. CASE Send(s) \/ Capture(s)
  <2>1. /\ Room /\ Accept /\ sender[s] # "off" /\ proc = "up"
        /\ UNCHANGED <<opts, proc, pc, closed, emptying, empties>>
        /\ sender' = sender \/ sender' = [sender EXCEPT ![s] = "idle"]
    <3>1. CASE Send(s)  BY <3>1, SMT DEF Send
    <3>2. CASE Capture(s)  BY <3>2, SMT DEF Capture
    <3> QED  BY <1>4, <3>1, <3>2
  <2>2. Control'
    <3>1. /\ sender' \in [Senders -> {"off", "idle", "send"}]
          /\ pc["input"] \notin {"off", "init"}
      BY <1>0, <2>1, SMT
    <3>2. StartOK'  BY <1>0, <2>1, <3>1, Zenon
    <3>3. LabelsOK' /\ CloseOK' /\ EndOK'  BY <1>0, <2>1, SMT
    <3>4. UNCHANGED <<opts, proc, pc, closed, emptying, empties>>  BY <2>1
    <3> HIDE DEF LabelsOK, StartOK, CloseOK, EndOK, PanicCauses, Goroutines, Labels
    <3> QED  BY <1>0, <3>1, <3>2, <3>3, <3>4
  <2>3. Data'
    <3>1. /\ inchan' \in Seq(Msg) /\ Len(inchan') = Len(inchan) + 1
          /\ accepted' \in Nat
      BY <1>0, <2>1, SeqAppend, SMT DEF Accept, Data, Msg
    <3>2. Len(inchan') <= MaxReadChannelSize
      BY <1>0, <2>1, <3>1, SeqNonEmpty, ReadSizeAssumption, SMT DEF Room, Data
    <3> QED  BY <1>0, <2>1, <3>1, <3>2, SMT
             DEF Accept, Data, BatchOK, CapacityOK, BulkBacked, RejectedNeverWritten
  <2> QED  BY <2>2, <2>3
<1> QED  BY <1>1, <1>2, <1>3, <1>4, <1>5, Zenon DEF SenderNext

\* The filter takes a message it may hold, refuse, or be unable to send any more.
LEMMA FilterStep == IInv /\ FilterNext => IInv'
<1> SUFFICES ASSUME Control, Data, FilterNext PROVE Control' /\ Data'
  BY IInvParts, IInvPartsNext
<1> USE DEF Control, LabelsOK, StartOK, CloseOK, EndOK, PanicCauses, At, Goto,
        Closing, Goroutines, Labels
<1>1. CASE FilterInit
  <2>1. Control'  BY <1>1, SMT DEF FilterInit, flow
  <2>2. Data'  BY <1>1, SMT DEF FilterInit, Data, flow, BatchOK, CapacityOK, BulkBacked, RejectedNeverWritten
  <2> QED  BY <2>1, <2>2
<1>2. CASE FilterRecv
  <2>1. Control'  BY <1>2, SMT DEF FilterRecv, Data
  <2>2. /\ Head(inchan) \in Msg
        /\ inchan' \in Seq(Msg) /\ Len(inchan') <= MaxReadChannelSize
    BY <1>2, SeqTail, ReadSizeAssumption, SMT DEF FilterRecv, Data, CapacityOK
  <2>3. /\ held' \in Seq(Msg) /\ discarded' \subseteq Msg
        /\ Len(held') = IF pc'["filter"] = "send" THEN 1 ELSE 0
    <3>1. CASE Head(inchan) \in Rejected
      BY <1>2, <2>2, <3>1, SMT DEF FilterRecv, Data, BatchOK
    <3>2. CASE Head(inchan) \notin Rejected
      <4>1. held' = <<Head(inchan)>> /\ discarded' = discarded /\ pc'["filter"] = "send"
        BY <1>2, <3>2, SMT DEF FilterRecv
      <4> QED  BY <2>2, <4>1, SeqOne DEF Data
    <3> QED  BY <3>1, <3>2
  <2>4. Range(held') \cap Rejected = {}
    <3>1. CASE Head(inchan) \in Rejected
      BY <1>2, <3>1, Zenon DEF FilterRecv, Data, RejectedNeverWritten
    <3>2. CASE Head(inchan) \notin Rejected
      BY <1>2, <2>2, <3>2, SeqOne, ZenonT(30) DEF FilterRecv
    <3> QED  BY <3>1, <3>2
  <2>5. RejectedNeverWritten'
    BY <1>2, <2>4, Zenon DEF FilterRecv, Data, RejectedNeverWritten
  <2>6. Data'
    BY <1>2, <2>2, <2>3, <2>5, SMT DEF FilterRecv, Data, BatchOK, CapacityOK, BulkBacked
  <2> QED  BY <2>1, <2>6
<1>3. CASE FilterSend
  <2>1. Control'  BY <1>3, SMT DEF FilterSend, Data
  <2>2. /\ outchan' \in Seq(Msg) /\ Len(outchan') = Len(outchan) + 1
        /\ Range(outchan') \subseteq Range(outchan) \cup Range(held)
    <3>1. outchan \in Seq(Msg) /\ held \in Seq(Msg) /\ Len(held) = 1 /\ outchan' = outchan \o held
      BY <1>3 DEF FilterSend, Data, BatchOK
    <3> QED  BY <3>1, SeqConcat
  <2>3. Len(outchan') <= MaxWriteChannelSize
    BY <1>3, <2>2, SeqNonEmpty, WriteSizeAssumption, SMT DEF FilterSend, Data
  <2>4. held' = <<>> /\ pc'["filter"] = "select"  BY <1>3, SMT DEF FilterSend
  <2>5. RejectedNeverWritten'
    BY <1>3, <2>2, <2>4, SeqEmpty, Zenon DEF FilterSend, Data, RejectedNeverWritten
  <2>6. BatchOK' /\ CapacityOK' /\ BulkBacked'
    BY <1>3, <2>2, <2>3, <2>4, SeqEmpty, SeqNonEmpty, SMT
       DEF FilterSend, Data, BatchOK, CapacityOK, BulkBacked
  <2> QED  BY <1>3, <2>1, <2>2, <2>4, <2>5, <2>6, SeqEmpty, SMT DEF FilterSend, Data
<1>4. CASE FilterPanic
  BY <1>4, DieStep, IInvParts, IInvPartsNext, SMT DEF FilterPanic
<1>5. CASE FilterExit
  <2>1. Control'  BY <1>5, SMT DEF FilterExit, flow
  <2>2. Data'  BY <1>5, SMT DEF FilterExit, Data, flow, BatchOK, CapacityOK, BulkBacked, RejectedNeverWritten
  <2> QED  BY <2>1, <2>2
<1> QED  BY <1>1, <1>2, <1>3, <1>4, <1>5, Zenon DEF FilterNext

\* Receiving the head of Outchan into the batch, in the select and in the loop.
LEMMA Receive ==
    ASSUME Data, outchan # <<>>,
           packets' = Append(packets, Head(outchan)), outchan' = Tail(outchan),
           UNCHANGED <<held, written>>
    PROVE  /\ packets' \in Seq(Msg) /\ Len(packets') = Len(packets) + 1
           /\ outchan' \in Seq(Msg) /\ Len(outchan') = Len(outchan) - 1
           /\ RejectedNeverWritten'
<1>1. packets \in Seq(Msg) /\ outchan \in Seq(Msg)  BY DEF Data
<1>2. /\ Head(outchan) \in Msg /\ Head(outchan) \in Range(outchan)
      /\ Range(Tail(outchan)) \subseteq Range(outchan)
  BY <1>1, SeqTail
<1>3. Range(packets') = Range(packets) \cup {Head(outchan)}  BY <1>1, <1>2, SeqAppend
<1>4. RejectedNeverWritten'  BY <1>2, <1>3, Zenon DEF Data, RejectedNeverWritten
<1> QED  BY <1>1, <1>2, <1>4, SeqTail, SeqAppend

\* The output's rounds: the batch grows to at most one more than the bulk size,
\* and the loop counts on messages only the output itself removes.
LEMMA PushStep == IInv /\ PushNext => IInv'
<1> SUFFICES ASSUME Control, Data, PushNext PROVE Control' /\ Data'
  BY IInvParts, IInvPartsNext
<1> USE DEF Control, LabelsOK, StartOK, CloseOK, EndOK, PanicCauses, At, Goto,
        Closing, Goroutines, Labels, Channels
<1>1. CASE OutputInit
  <2>1. Control'  BY <1>1, SMT DEF OutputInit, flow
  <2>2. Data'  BY <1>1, SMT DEF OutputInit, Data, flow, BatchOK, CapacityOK, BulkBacked, RejectedNeverWritten
  <2> QED  BY <2>1, <2>2
<1>2. CASE PushRecv
  <2>1. Control'  BY <1>2, SMT DEF PushRecv
  <2>2. /\ packets' \in Seq(Msg) /\ Len(packets') = Len(packets) + 1
        /\ outchan' \in Seq(Msg) /\ Len(outchan') = Len(outchan) - 1
        /\ RejectedNeverWritten'
    BY <1>2, Receive DEF PushRecv
  <2>3. Len(packets) = 0  BY <1>2, SeqEmpty DEF PushRecv, Data, BatchOK
  <2>4. BatchOK' /\ CapacityOK' /\ BulkBacked'
    BY <1>2, <2>2, <2>3, SeqNonEmpty, WriteSizeAssumption, SMT
       DEF PushRecv, Data, BatchOK, CapacityOK, BulkBacked
  <2> QED  BY <1>2, <2>1, <2>2, <2>4 DEF PushRecv, Data
<1>3. CASE PushCount
  <2>1. Control'  BY <1>3, SMT DEF PushCount, Count
  <2>2. Len(outchan) \in Nat /\ Len(packets) = 1
    BY <1>3, SeqNonEmpty DEF PushCount, Count, Data, BatchOK
  <2>3. PICK n \in Nat : /\ n <= Len(outchan) /\ n <= MaxWriteBulkSize
                         /\ left' = n
                         /\ pc' = [pc EXCEPT !["output"] = IF n = 0 THEN "write" ELSE "bulk"]
    <3> DEFINE n == Smaller(Len(outchan), MaxWriteBulkSize)
    <3>1. n \in Nat /\ n <= Len(outchan) /\ n <= MaxWriteBulkSize
      BY <2>2, BulkSizeAssumption, SMT DEF Smaller
    <3>2. left' = n /\ pc' = [pc EXCEPT !["output"] = IF n = 0 THEN "write" ELSE "bulk"]
      BY <1>3 DEF PushCount, Count
    <3> QED  BY <3>1, <3>2
  <2>4. BatchOK' /\ BulkBacked'
    BY <1>3, <2>2, <2>3, BulkSizeAssumption, SMT
       DEF PushCount, Count, Data, BatchOK, BulkBacked
  <2>5. CapacityOK' /\ RejectedNeverWritten'
    BY <1>3, Zenon DEF PushCount, Count, Data, CapacityOK, RejectedNeverWritten
  <2> QED  BY <1>3, <2>1, <2>3, <2>4, <2>5 DEF PushCount, Count, Data
<1>4. CASE BulkRecv
  <2>1. Control'  BY <1>4, SMT DEF BulkRecv, BulkNext
  <2>2. /\ packets' \in Seq(Msg) /\ Len(packets') = Len(packets) + 1
        /\ outchan' \in Seq(Msg) /\ Len(outchan') = Len(outchan) - 1
        /\ RejectedNeverWritten'
    BY <1>4, Receive DEF BulkRecv
  <2>3. Len(packets) \in Nat /\ Len(outchan) \in Nat /\ left \in Nat /\ left >= 1
    BY <1>4, SeqNonEmpty DEF BulkRecv, Data, BatchOK
  <2>4. left' = left - 1 /\ left' \in Nat
        /\ pc' = [pc EXCEPT !["output"] = IF left = 1 THEN "write" ELSE "bulk"]
    BY <1>4, <2>3, SMT DEF BulkRecv, BulkNext
  <2>5. BatchOK' /\ CapacityOK' /\ BulkBacked'
    BY <1>4, <2>2, <2>3, <2>4, BulkSizeAssumption, WriteSizeAssumption, SMT
       DEF BulkRecv, Data, BatchOK, CapacityOK, BulkBacked
  <2> QED  BY <1>4, <2>1, <2>2, <2>4, <2>5 DEF BulkRecv, Data
<1>5. CASE BulkNil
  <2>1. Control'  BY <1>5, SMT DEF BulkNil, BulkNext
  <2>2. Len(packets) \in Nat /\ Len(outchan) = 0 /\ left \in Nat /\ left >= 1
    BY <1>5, SeqNonEmpty DEF BulkNil, Data, BatchOK
  <2>3. left' = left - 1 /\ left' \in Nat
        /\ pc' = [pc EXCEPT !["output"] = IF left = 1 THEN "write" ELSE "bulk"]
    BY <1>5, <2>2, SMT DEF BulkNil, BulkNext
  <2>4. BatchOK' /\ BulkBacked'
    BY <1>5, <2>2, <2>3, BulkSizeAssumption, SMT DEF BulkNil, Data, BatchOK, BulkBacked
  <2>5. CapacityOK' /\ RejectedNeverWritten'
    BY <1>5, Zenon DEF BulkNil, Data, CapacityOK, RejectedNeverWritten
  <2> QED  BY <1>5, <2>1, <2>3, <2>4, <2>5 DEF BulkNil, Data
<1>6. CASE WriteOne
  <2>1. Control'  BY <1>6, SMT DEF WriteOne, Data
  <2>2. /\ packets \in Seq(Msg) /\ packets # <<>> /\ Len(packets) \in Nat
        /\ Len(packets) >= 1 /\ Len(packets) <= MaxWriteBulkSize + 1
    BY <1>6, SeqNonEmpty, BulkSizeAssumption, SMT DEF WriteOne, Data, BatchOK
  <2>3. /\ Head(packets) \in Msg /\ Head(packets) \in Range(packets)
        /\ packets' \in Seq(Msg) /\ Len(packets') = Len(packets) - 1
        /\ Range(packets') \subseteq Range(packets)
    BY <1>6, <2>2, SeqTail DEF WriteOne
  <2>4. written' \in Seq(Msg) /\ Range(written') = Range(written) \cup {Head(packets)}
    BY <1>6, <2>3, SeqAppend DEF WriteOne, Data
  <2>5. RejectedNeverWritten'
    BY <1>6, <2>3, <2>4, Zenon DEF WriteOne, Data, RejectedNeverWritten
  <2>6. packets' = <<>> <=> Len(packets) = 1  BY <2>2, <2>3, SeqNonEmpty, SMT
  <2>7. BatchOK'
    <3>1. CASE Len(packets) = 1
      <4>1. pc' = [pc EXCEPT !["output"] = "select"]  BY <1>6, <3>1 DEF WriteOne
      <4> QED  BY <1>6, <2>6, <3>1, <4>1, SMT DEF WriteOne, Data, BatchOK
    <3>2. CASE Len(packets) # 1
      <4>1. pc' = pc /\ Len(packets') \in 1..MaxWriteBulkSize + 1
        BY <1>6, <2>2, <2>3, <3>2, BulkSizeAssumption, SMT DEF WriteOne
      <4> QED  BY <1>6, <4>1, SMT DEF WriteOne, Data, BatchOK
    <3> QED  BY <3>1, <3>2
  <2>8. CapacityOK' /\ BulkBacked'
    BY <1>6, SMT DEF WriteOne, Data, CapacityOK, BulkBacked
  <2> QED  BY <1>6, <2>1, <2>3, <2>4, <2>5, <2>7, <2>8 DEF WriteOne, Data
<1>7. CASE PushExit
  <2>1. Control'  BY <1>7, SMT DEF PushExit, flow
  <2>2. Data'  BY <1>7, SMT DEF PushExit, Data, flow, BatchOK, CapacityOK, BulkBacked, RejectedNeverWritten
  <2> QED  BY <2>1, <2>2
<1> QED  BY <1>1, <1>2, <1>3, <1>4, <1>5, <1>6, <1>7, Zenon DEF PushNext

\* Exit and SafeExit close channels and end the process, and move no message.
LEMMA StopStep == IInv /\ StopNext => IInv'
<1> SUFFICES ASSUME Control, Data, StopNext PROVE Control' /\ Data'
  BY IInvParts, IInvPartsNext
<1> USE DEF Control, LabelsOK, StartOK, CloseOK, EndOK, PanicCauses, At, Goto,
        Closing, Goroutines, Labels, Channels
<1>1. CASE Signal \/ TtlExpires
  <2>1. PICK t \in {"main", "input"} : \E l \in {"running", "ttl"} : Stop(t, l)
    BY <1>1, Zenon DEF Signal, TtlExpires
  <2>2. Control'  BY <1>1, <2>1, SMT DEF Signal, TtlExpires, Stop, flow
  <2>3. Quiet  BY <2>1, SMT DEF Stop, Quiet
  <2> QED  BY <2>2, <2>3, QuietData
<1>2. ASSUME NEW t \in {"main", "input"}, CloseNext(t)
      PROVE  Control' /\ Data'
  <2>1. PICK c \in {"exitChan", "Inchan", "Outchan"} : CloseOne(t, c) \/ ClosePanic(t, c)
    BY <1>2 DEF CloseNext
  <2>2. CASE CloseOne(t, c)
    <3>1. Control'  BY <2>2, SMT DEF CloseOne, NextClose, flow
    <3>2. Quiet  BY <2>2, SMT DEF CloseOne, NextClose, Quiet
    <3> QED  BY <3>1, <3>2, QuietData
  <2>3. CASE ClosePanic(t, c)
    BY <2>3, DieStep, IInvParts, IInvPartsNext, SMT DEF ClosePanic
  <2> QED  BY <2>1, <2>2, <2>3
<1>3. CASE ServeEnd
  <2>1. Control'  BY <1>3, SMT DEF ServeEnd, flow
  <2>2. Quiet  BY <1>3, SMT DEF ServeEnd, Quiet
  <2> QED  BY <2>1, <2>2, QuietData
<1>4. CASE ExitReturn
  <2>1. Die("stopped") /\ {pc["output"], pc["filter"]} \subseteq {"off", "done"}
    BY <1>4, SMT DEF ExitReturn
  <2> QED  BY <2>1, DieStep, IInvParts, IInvPartsNext
<1>5. CASE SafeExitReturn
  BY <1>5, DieStep, IInvParts, IInvPartsNext, SMT DEF SafeExitReturn
<1> QED  BY <1>1, <1>2, <1>3, <1>4, <1>5, Zenon DEF StopNext

\* An output that cannot write, and a server without descriptors, end the process.
LEMMA PanicStep == IInv /\ PanicNext => IInv'
<1> SUFFICES ASSUME IInv, PanicNext PROVE IInv'
  OBVIOUS
<1>0. Control /\ Data  BY IInvParts
<1>1. CASE InitPanic
  <2>1. accepted = 0  BY <1>0, <1>1, SMT DEF InitPanic, At, Control, StartOK
  <2> QED  BY <1>1, <2>1, DieStep, SMT DEF InitPanic
<1>2. CASE WritePanic
  <2>1. pc["output"] = "write" /\ packets # <<>>
    BY <1>0, <1>2, SeqEmpty, SMT DEF WritePanic, At, Data, BatchOK
  <2> QED  BY <1>2, <2>1, DieStep, SMT DEF WritePanic
<1>3. CASE AcceptPanic  BY <1>3, DieStep, SMT DEF AcceptPanic, At
<1> QED  BY <1>1, <1>2, <1>3 DEF PanicNext

\* /empty takes messages out of the channels; from the first call on, BulkBacked
\* says nothing.
LEMMA EmptyStep == IInv /\ EmptyNext => IInv'
<1> SUFFICES ASSUME Control, Data, EmptyNext PROVE Control' /\ Data'
  BY IInvParts, IInvPartsNext
<1> USE DEF Control
<1>1. CASE EmptyStart
  <2>1. Control'
    BY <1>1, SMT DEF EmptyStart, flow, LabelsOK, StartOK, CloseOK, EndOK, PanicCauses
  <2>2. BulkBacked'  BY <1>1, SMT DEF EmptyStart, BulkBacked
  <2> QED
    BY <1>1, <2>1, <2>2, Zenon DEF EmptyStart, Data, flow, BatchOK, CapacityOK, RejectedNeverWritten
<1>2. CASE EmptyOut
  <2>1. Control'
    BY <1>2, SMT DEF EmptyOut, LabelsOK, StartOK, CloseOK, EndOK, PanicCauses
  <2>2. /\ Head(outchan) \in Msg /\ outchan' \in Seq(Msg)
        /\ Len(outchan') = Len(outchan) - 1 /\ Range(outchan') \subseteq Range(outchan)
    BY <1>2, SeqTail DEF EmptyOut, Data
  <2>3. RejectedNeverWritten'
    BY <1>2, <2>2, Zenon DEF EmptyOut, Data, RejectedNeverWritten
  <2>4. CapacityOK'
    BY <1>2, <2>2, SeqNonEmpty, WriteSizeAssumption, SMT DEF EmptyOut, Data, CapacityOK
  <2>5. BatchOK' /\ BulkBacked'
    BY <1>2, SMT DEF EmptyOut, Data, BatchOK, BulkBacked
  <2> QED  BY <1>2, <2>1, <2>2, <2>3, <2>4, <2>5, SMT DEF EmptyOut, Data
<1>3. CASE EmptyIn
  <2>1. Control'
    BY <1>3, SMT DEF EmptyIn, LabelsOK, StartOK, CloseOK, EndOK, PanicCauses
  <2>2. /\ Head(inchan) \in Msg /\ inchan' \in Seq(Msg)
        /\ Len(inchan') = Len(inchan) - 1
    BY <1>3, SeqTail DEF EmptyIn, Data
  <2>3. CapacityOK'
    BY <1>3, <2>2, SeqNonEmpty, ReadSizeAssumption, SMT DEF EmptyIn, Data, CapacityOK
  <2>4. RejectedNeverWritten' /\ BatchOK' /\ BulkBacked'
    BY <1>3, SMT DEF EmptyIn, Data, BatchOK, BulkBacked, RejectedNeverWritten
  <2> QED  BY <1>3, <2>1, <2>2, <2>3, <2>4, SMT DEF EmptyIn, Data
<1>4. CASE EmptyDone
  <2>1. Control'
    <3>1. emptying' = FALSE /\ empties' = empties
      BY <1>4, Zenon DEF EmptyDone
    <3>2. proc = "up" /\ UNCHANGED <<opts, proc, pc, sender, closed, accepted>>
      BY <1>4 DEF EmptyDone, flow
    <3>3. LabelsOK' /\ StartOK' /\ CloseOK' /\ EndOK'
      BY <3>2 DEF LabelsOK, StartOK, CloseOK, EndOK, PanicCauses
    <3>4. empties \in Nat /\ (FALSE => empties > 0)  OBVIOUS
    <3> QED  BY <3>1, <3>2, <3>3, <3>4
  <2>2. Quiet  BY <1>4, SMT DEF EmptyDone, Quiet
  <2> QED  BY <2>1, <2>2, QuietData
<1> QED  BY <1>1, <1>2, <1>3, <1>4, Zenon DEF EmptyNext

LEMMA StutterStep == IInv /\ UNCHANGED vars => IInv'
<1> SUFFICES ASSUME Control, Data, UNCHANGED vars PROVE Control' /\ Data'
  BY IInvParts, IInvPartsNext
<1>1. Control'
  <2>1. PanicCauses'
    BY Zenon DEF vars, flow, Control, EndOK, PanicCauses, SetContextPanics, CanWrite, OutputWorks
  <2>2. LabelsOK' /\ StartOK' /\ CloseOK'
    BY KeepsPlaces, Zenon DEF vars, flow
  <2>3. EndOK'  BY <2>1, Zenon DEF vars, Control, EndOK
  <2> QED  BY <2>2, <2>3, Zenon DEF vars, Control
<1>2. Quiet  BY DEF vars, Quiet
<1> QED  BY <1>1, <1>2, QuietData

-----------------------------------------------------------------------------
\* IInv holds in every state the agent reaches.
THEOREM Invariance == Spec => []IInv
<1>1. IInv /\ [Next]_vars => IInv'
  <2> SUFFICES ASSUME IInv, [Next]_vars PROVE IInv'
    OBVIOUS
  <2>1. CASE MainNext  BY <2>1, MainStep
  <2>2. CASE InputNext  BY <2>2, InputStep
  <2>3. CASE \E g \in {"output", "filter", "input"} : PluginMissing(g)
    BY <2>3, PluginStep
  <2>4. CASE \E s \in Senders : SenderNext(s)  BY <2>4, SenderStep
  <2>5. CASE FilterNext  BY <2>5, FilterStep
  <2>6. CASE PushNext  BY <2>6, PushStep
  <2>7. CASE StopNext  BY <2>7, StopStep
  <2>10. CASE PanicNext  BY <2>10, PanicStep
  <2>8. CASE EmptyNext  BY <2>8, EmptyStep
  <2>9. CASE UNCHANGED vars  BY <2>9, StutterStep
  <2> QED
    BY <2>1, <2>2, <2>3, <2>4, <2>5, <2>6, <2>7, <2>8, <2>9, <2>10, Zenon DEF Next, Ended
<1> QED  BY InitIInv, <1>1, PTL DEF Spec

-----------------------------------------------------------------------------
\* The safety properties, each a consequence of IInv.

LEMMA BatchWithin ==
    ASSUME Control, Data
    PROVE  Len(packets) <= MaxWriteBulkSize + 1
<1>1. Len(packets) \in Nat /\ left \in Nat /\ MaxWriteBulkSize \in Nat
  BY SeqNonEmpty, BulkSizeAssumption DEF Data
<1>2. CASE pc["output"] \in {"off", "init", "select", "done"}
  <2>1. packets = <<>>  BY <1>2 DEF Data, BatchOK
  <2>2. Len(packets) = 0  BY <2>1, SeqEmpty
  <2>3. 0 <= MaxWriteBulkSize + 1  BY <1>1, SMT
  <2> QED  BY <2>2, <2>3, Zenon
<1>3. CASE pc["output"] = "count"
  <2>1. Len(packets) = 1  BY <1>3 DEF Data, BatchOK
  <2> QED  BY <1>1, <2>1, SMT
<1>4. CASE pc["output"] = "bulk"  BY <1>1, <1>4, SMT DEF Data, BatchOK
<1>5. CASE pc["output"] = "write"  BY <1>1, <1>5, SMT DEF Data, BatchOK
<1> QED  BY <1>2, <1>3, <1>4, <1>5 DEF Control, LabelsOK

\* The type invariant of the pipeline.
THEOREM TypeCorrect == Spec => []TypeOK
<1>1. IInv => TypeOK  BY DEF IInv
<1> QED  BY <1>1, Invariance, PTL

\* What DoWrite gets exceeds the MaxWriteBulkSize of the documents by one packet at
\* most, whatever the inputs, the sizes of the channels and the calls of /empty.
THEOREM BatchIsBounded == Spec => [](Len(packets) <= MaxWriteBulkSize + 1)
<1>1. IInv => Len(packets) <= MaxWriteBulkSize + 1
  <2> SUFFICES ASSUME Control, Data PROVE Len(packets) <= MaxWriteBulkSize + 1
    BY IInvParts
  <2> QED  BY BatchWithin
<1> QED  BY <1>1, Invariance, PTL

\* Between Inchan and the output there are never more messages than the options
\* allow; what the inputs hold before Inchan takes it is not counted.
THEOREM TakenIsBounded == Spec => []TakenBounded
<1>1. IInv => TakenBounded
  <2> SUFFICES ASSUME Control, Data PROVE TakenBounded
    BY IInvParts
  <2>1. /\ packets \in Seq(Msg) /\ outchan \in Seq(Msg) /\ held \in Seq(Msg) /\ inchan \in Seq(Msg)
        /\ Len(packets) \in Nat /\ Len(outchan) \in Nat /\ Len(held) \in Nat /\ Len(inchan) \in Nat
    BY SeqNonEmpty DEF Data
  <2>2. Len(packets) <= MaxWriteBulkSize + 1
    BY BatchWithin
  <2>3. Len(held) <= 1  BY SMT DEF Data, BatchOK
  <2>4. Len(outchan) <= MaxWriteChannelSize /\ Len(inchan) <= MaxReadChannelSize
    BY DEF Data, CapacityOK
  <2>5. Len(packets \o outchan \o held \o inchan)
          = Len(packets) + Len(outchan) + Len(held) + Len(inchan)
    BY <2>1, SeqConcat
  <2> QED
    BY <2>1, <2>2, <2>3, <2>4, <2>5, BulkSizeAssumption, ReadSizeAssumption,
       WriteSizeAssumption, SMT DEF TakenBounded
<1> QED  BY <1>1, Invariance, PTL

\* Nothing is collected before the output plugin has been set up.
THEOREM OutputIsReadyFirst == Spec => []OutputReadyFirst
<1>1. IInv => OutputReadyFirst
  <2> SUFFICES ASSUME Control, Data PROVE OutputReadyFirst
    BY IInvParts
  <2> QED  BY SMT DEF Control, LabelsOK, StartOK, Data, OutputReadyFirst
<1> QED  BY <1>1, Invariance, PTL

\* The loop over Outchan only waits for messages that are there.
THEOREM BulkIsBacked == Spec => []BulkBacked
<1>1. IInv => BulkBacked  BY DEF IInv
<1> QED  BY <1>1, Invariance, PTL

\* What the filter refuses never comes near the output.
THEOREM RejectedIsDropped == Spec => []RejectedNeverWritten
<1>1. IInv => RejectedNeverWritten  BY DEF IInv
<1> QED  BY <1>1, Invariance, PTL

\* No goroutine meets a closed channel before the agent is being stopped, and any
\* other panic has one of the causes PanicCauses names, with what it costs.
THEOREM PanicsHaveCauses == Spec => []PanicCauses
<1>1. IInv => PanicCauses  BY DEF IInv, EndOK
<1> QED  BY <1>1, Invariance, PTL

\* main returns from Exit only with the batch written and the filter's message
\* passed on.
THEOREM ExitKeepsTheBatch == Spec => []ExitKeepsBatch
<1>1. IInv => ExitKeepsBatch
  <2> SUFFICES ASSUME Control, Data, proc = "stopped" PROVE packets = <<>> /\ held = <<>>
    BY IInvParts DEF ExitKeepsBatch
  <2>1. pc["output"] \in {"off", "done"} /\ pc["filter"] \in {"off", "done"}
    BY DEF Control, EndOK
  <2>2. held \in Seq(Msg) /\ Len(held) = 0 /\ packets = <<>>
    BY <2>1, SMT DEF Data, BatchOK
  <2> QED  BY <2>2, SeqNonEmpty
<1> QED  BY <1>1, Invariance, PTL

-----------------------------------------------------------------------------
\* The refinement. Pending messages are, oldest first, those of the batch, of
\* Outchan, of the filter and of Inchan; moving a message from one of these to
\* the one before it is a stutter of Delivery.

Pending == packets \o outchan \o held \o inchan

LEMMA SeqsOfMsg ==
    ASSUME NEW a \in Seq(Msg), NEW b \in Seq(Msg), NEW c \in Seq(Msg), NEW d \in Seq(Msg)
    PROVE  /\ a \o b \in Seq(Msg) /\ a \o b \o c \in Seq(Msg)
           /\ b \o (c \o d) \in Seq(Msg) /\ c \o d \in Seq(Msg)
  BY ConcatProperties

\* The four places may be bracketed from the right, whatever p and q stand where
\* the batch and Outchan do.
LEMMA Rebracket ==
    ASSUME NEW p, NEW q, p \in Seq(Msg), q \in Seq(Msg), held \in Seq(Msg), inchan \in Seq(Msg)
    PROVE  p \o q \o held \o inchan = p \o (q \o (held \o inchan))
  BY SMTT(30)

\* The head and the tail of a concatenation whose first part is not empty.
LEMMA HeadOfConcat ==
    ASSUME NEW s \in Seq(Msg), NEW t \in Seq(Msg), s # <<>>
    PROVE  s \o t # <<>> /\ Head(s \o t) = Head(s) /\ Tail(s \o t) = Tail(s) \o t
<1>1. <<>> \in Seq(Msg) /\ Len(<<>>) = 0  BY SeqEmpty
<1>2. /\ s \o t # <<>> /\ Head(s \o t) = Head(s)
  BY SMT
<1>3. Tail(s) \o t \in Seq(Msg) /\ Tail(s \o t) \in Seq(Msg)
  BY <1>2, HeadTailProperties, ConcatProperties
<1>4. Len(Tail(s) \o t) = Len(Tail(s \o t))  BY SMT
<1>5. \A k \in 1..Len(Tail(s) \o t) : (Tail(s) \o t)[k] = Tail(s \o t)[k]  BY SMT
<1> QED  BY <1>2, <1>3, <1>4, <1>5, SeqEqual

\* A message that Inchan takes is taken in.
LEMMA Accepted ==
    ASSUME Data, Accept
    PROVE  Promise!TakeIn
<1> DEFINE front == packets \o outchan \o held
           m == accepted + 1
<1>1. /\ front \in Seq(Msg) /\ inchan \in Seq(Msg) /\ m \in Msg
  BY SeqsOfMsg, SMT DEF Data, Msg
<1> HIDE DEF front, m
<1>2. front \o Append(inchan, m) = Append(front \o inchan, m)
  BY <1>1, SMT
<1> QED  BY <1>2 DEF front, m, Accept, Promise!TakeIn

\* A message leaves the head of a channel to be discarded.
LEMMA DiscardedIn ==
    ASSUME Data, inchan # <<>>, inchan' = Tail(inchan),
           discarded' = discarded \cup {Head(inchan)},
           UNCHANGED <<packets, outchan, held, accepted, written>>
    PROVE  Promise!Discard
<1> DEFINE front == packets \o outchan \o held
<1>1. front \in Seq(Msg) /\ inchan \in Seq(Msg)  BY SeqsOfMsg DEF Data
<1> HIDE DEF front
<1>2. /\ front \o Tail(inchan) = RemoveAt(front \o inchan, Len(front) + 1)
      /\ Len(front) + 1 \in DOMAIN (front \o inchan)
      /\ (front \o inchan)[Len(front) + 1] = Head(inchan)
  BY <1>1, RemoveHeadBehind
<1>3. Pending = front \o inchan /\ Pending' = front \o Tail(inchan)
  BY DEF front, Pending
<1>4. \E i \in DOMAIN Pending : /\ Pending' = RemoveAt(Pending, i)
                                /\ discarded' = discarded \cup {Pending[i]}
  BY <1>2, <1>3
<1> QED  BY <1>4 DEF Pending, Promise!Discard, Promise!RemoveAt, RemoveAt

LEMMA DiscardedOut ==
    ASSUME Data, outchan # <<>>, outchan' = Tail(outchan),
           discarded' = discarded \cup {Head(outchan)},
           UNCHANGED <<packets, held, inchan, accepted, written>>
    PROVE  Promise!Discard
<1> DEFINE back == held \o inchan
           rest == outchan \o back
<1>1. /\ packets \in Seq(Msg) /\ outchan \in Seq(Msg) /\ held \in Seq(Msg) /\ inchan \in Seq(Msg)
      /\ back \in Seq(Msg) /\ rest \in Seq(Msg) /\ Tail(outchan) \in Seq(Msg)
  BY SeqsOfMsg, SeqTail DEF Data
<1>2. Pending = packets \o rest /\ Pending' = packets \o (Tail(outchan) \o back)
  <2>1. packets \o outchan \o held \o inchan = packets \o (outchan \o (held \o inchan))
    BY <1>1, Rebracket, Zenon
  <2>2. packets \o Tail(outchan) \o held \o inchan = packets \o (Tail(outchan) \o (held \o inchan))
    BY <1>1, Rebracket, Zenon
  <2> QED  BY <2>1, <2>2, Zenon DEF Pending
<1> HIDE DEF back
<1>3. rest # <<>> /\ Head(rest) = Head(outchan) /\ Tail(rest) = Tail(outchan) \o back
  BY <1>1, HeadOfConcat
<1> HIDE DEF rest
<1>4. /\ packets \o Tail(rest) = RemoveAt(packets \o rest, Len(packets) + 1)
      /\ Len(packets) + 1 \in DOMAIN (packets \o rest)
      /\ (packets \o rest)[Len(packets) + 1] = Head(rest)
  BY <1>1, <1>3, RemoveHeadBehind
<1>5. \E i \in DOMAIN Pending : /\ Pending' = RemoveAt(Pending, i)
                                /\ discarded' = discarded \cup {Pending[i]}
  BY <1>2, <1>3, <1>4
<1> QED  BY <1>5 DEF Pending, Promise!Discard, Promise!RemoveAt, RemoveAt

\* A message moves from one place to the one before it: Delivery stutters.
LEMMA Moved ==
    ASSUME Pending' = Pending, UNCHANGED <<accepted, written, discarded>>
    PROVE  UNCHANGED Promise!deliveryVars
  BY DEF Pending, Promise!deliveryVars

LEMMA ReceiveMoves ==
    ASSUME Data, outchan # <<>>,
           packets' = Append(packets, Head(outchan)), outchan' = Tail(outchan),
           UNCHANGED <<held, inchan>>
    PROVE  Pending' = Pending
<1>1. packets' \o outchan' = packets \o outchan  BY MoveHead DEF Data
<1> QED  BY <1>1 DEF Pending

LEMMA FilterRecvMaps ==
    ASSUME Data, FilterRecv
    PROVE  Promise!Discard \/ UNCHANGED Promise!deliveryVars
<1>1. inchan # <<>> /\ inchan' = Tail(inchan) /\ UNCHANGED <<packets, outchan, accepted, written>>
  BY DEF FilterRecv
<1>2. CASE Head(inchan) \in Rejected
  <2>1. discarded' = discarded \cup {Head(inchan)} /\ held' = held
    BY <1>2 DEF FilterRecv
  <2> QED  BY <1>1, <2>1, DiscardedIn
<1>3. CASE Head(inchan) \notin Rejected
  <2>1. held' = <<Head(inchan)>> /\ discarded' = discarded  BY <1>3 DEF FilterRecv
  <2>2. held = <<>>  BY SeqNonEmpty DEF FilterRecv, At, Data, BatchOK
  <2>3. /\ packets \o outchan \in Seq(Msg) /\ inchan \in Seq(Msg) /\ Head(inchan) \in Msg
        /\ Tail(inchan) \in Seq(Msg) /\ <<Head(inchan)>> \in Seq(Msg)
    BY <1>1, ConcatProperties, SeqTail, SeqOne DEF Data
  <2>4. <<Head(inchan)>> \o Tail(inchan) = inchan  BY <1>1, <2>3, SMT
  <2>5. (packets \o outchan \o <<Head(inchan)>>) \o Tail(inchan)
          = (packets \o outchan) \o (<<Head(inchan)>> \o Tail(inchan))
    BY <2>3, ConcatAssociative
  <2>6. packets \o outchan \o <<>> = packets \o outchan  BY <2>3, ConcatEmptySeq
  <2>7. Pending' = Pending  BY <1>1, <2>1, <2>2, <2>4, <2>5, <2>6 DEF Pending
  <2> QED  BY <1>1, <2>1, <2>7, Moved
<1> QED  BY <1>2, <1>3

LEMMA FilterSendMaps ==
    ASSUME Data, FilterSend
    PROVE  UNCHANGED Promise!deliveryVars
<1>1. /\ outchan' = outchan \o held /\ held' = <<>>
      /\ UNCHANGED <<packets, inchan, accepted, written, discarded>>
  BY DEF FilterSend
<1>2. /\ packets \in Seq(Msg) /\ outchan \in Seq(Msg) /\ held \in Seq(Msg)
      /\ packets \o outchan \o held \in Seq(Msg)
  BY SeqsOfMsg DEF Data
<1>3. packets \o (outchan \o held) \o <<>> = packets \o outchan \o held
  BY <1>2, ConcatAssociative, ConcatEmptySeq
<1>4. Pending' = Pending  BY <1>1, <1>3 DEF Pending
<1> QED  BY <1>1, <1>4, Moved

LEMMA WriteOneMaps ==
    ASSUME Data, WriteOne
    PROVE  Promise!Deliver
<1> DEFINE rest == outchan \o (held \o inchan)
<1>1. /\ written' = Append(written, Head(packets)) /\ packets' = Tail(packets)
      /\ UNCHANGED <<outchan, held, inchan, accepted, discarded>>
  BY DEF WriteOne
<1>2. packets # <<>>  BY SeqEmpty, SMT DEF WriteOne, At, Data, BatchOK
<1>3. /\ packets \in Seq(Msg) /\ rest \in Seq(Msg) /\ Tail(packets) \in Seq(Msg)
      /\ outchan \in Seq(Msg) /\ held \in Seq(Msg) /\ inchan \in Seq(Msg)
  BY <1>2, SeqsOfMsg, SeqTail DEF Data
<1>4. /\ Pending = packets \o rest
      /\ Tail(packets) \o outchan \o held \o inchan = Tail(packets) \o rest
  <2>1. packets \o outchan \o held \o inchan = packets \o (outchan \o (held \o inchan))
    BY <1>3, Rebracket, Zenon
  <2>2. Tail(packets) \o outchan \o held \o inchan = Tail(packets) \o (outchan \o (held \o inchan))
    BY <1>3, Rebracket, Zenon
  <2> QED  BY <2>1, <2>2, Zenon DEF Pending
<1> HIDE DEF rest
<1>5. /\ packets \o rest # <<>> /\ Head(packets \o rest) = Head(packets)
      /\ Tail(packets \o rest) = Tail(packets) \o rest
  BY <1>2, <1>3, HeadOfConcat
<1> QED  BY <1>1, <1>4, <1>5 DEF Pending, Promise!Deliver

\* A step that moves no message is a stutter of Delivery.
LEMMA FlowMaps == UNCHANGED flow => UNCHANGED Promise!deliveryVars
  BY DEF flow, Promise!deliveryVars

\* Every step of the agent is a step of Delivery, or none.
LEMMA StepMaps ==
    ASSUME IInv, [Next]_vars
    PROVE  [Promise!DeliveryNext]_(Promise!deliveryVars)
<1> USE DEF Promise!DeliveryNext
<1>0. Control /\ Data  BY IInvParts
<1>1. CASE MainNext
  <2>1. UNCHANGED flow  BY <1>1, Zenon DEF MainNext, PortTaken, Launch, Collect, Die
  <2> QED  BY <2>1, FlowMaps
<1>2. CASE InputNext
  <2>1. CASE StdinSend  BY <1>0, <2>1, Accepted DEF StdinSend
  <2>2. CASE ~StdinSend
    <3>1. UNCHANGED flow
      BY <1>2, <2>2, Zenon DEF InputNext, ConfigMissing, ValuePanic, StartFile, StartCron,
         StartTcpDump, StartSenders, StdinPanic, InputExit, Die
    <3> QED  BY <3>1, FlowMaps
  <2> QED  BY <2>1, <2>2
<1>3. CASE \E g \in {"output", "filter", "input"} : PluginMissing(g)
  <2>1. UNCHANGED flow  BY <1>3, Zenon DEF PluginMissing, Die
  <2> QED  BY <2>1, FlowMaps
<1>4. CASE \E s \in Senders : SenderNext(s)
  <2> PICK s \in Senders : SenderNext(s)  BY <1>4
  <2>1. CASE Send(s) \/ Capture(s)  BY <1>0, <2>1, Accepted DEF Send, Capture
  <2>2. CASE ~(Send(s) \/ Capture(s))
    <3>1. UNCHANGED flow
      BY <2>2, Zenon DEF SenderNext, Offer, FilePanic, JobRecover, StreamNew,
         ListenFatal, CapturePanic, StreamEnd, Die
    <3> QED  BY <3>1, FlowMaps
  <2> QED  BY <2>1, <2>2
<1>5. CASE FilterNext
  <2>1. CASE FilterRecv  BY <1>0, <2>1, FilterRecvMaps
  <2>2. CASE FilterSend  BY <1>0, <2>2, FilterSendMaps
  <2>3. CASE FilterInit \/ FilterPanic \/ FilterExit
    <3>1. UNCHANGED flow  BY <2>3, Zenon DEF FilterInit, FilterPanic, FilterExit, Die
    <3> QED  BY <3>1, FlowMaps
  <2> QED  BY <1>5, <2>1, <2>2, <2>3 DEF FilterNext
<1>6. CASE PushNext
  <2>1. CASE PushRecv  BY <1>0, <2>1, ReceiveMoves, Moved DEF PushRecv
  <2>2. CASE BulkRecv  BY <1>0, <2>2, ReceiveMoves, Moved DEF BulkRecv
  <2>3. CASE WriteOne  BY <1>0, <2>3, WriteOneMaps
  <2>4. CASE PushCount \/ BulkNil
    <3>1. Pending' = Pending /\ UNCHANGED <<accepted, written, discarded>>
      BY <2>4, Zenon DEF PushCount, Count, BulkNil, Pending
    <3> QED  BY <3>1, Moved
  <2>5. CASE OutputInit \/ PushExit
    <3>1. UNCHANGED flow  BY <2>5, Zenon DEF OutputInit, PushExit
    <3> QED  BY <3>1, FlowMaps
  <2> QED  BY <1>6, <2>1, <2>2, <2>3, <2>4, <2>5 DEF PushNext
<1>7. CASE StopNext
  <2>1. UNCHANGED flow
    BY <1>7, Zenon DEF StopNext, Signal, TtlExpires, Stop, CloseNext, CloseOne,
       ClosePanic, ServeEnd, ExitReturn, SafeExitReturn, Die
  <2> QED  BY <2>1, FlowMaps
<1>8. CASE EmptyNext
  <2>1. CASE EmptyOut  BY <1>0, <2>1, DiscardedOut DEF EmptyOut
  <2>2. CASE EmptyIn  BY <1>0, <2>2, DiscardedIn DEF EmptyIn
  <2>3. CASE EmptyStart \/ EmptyDone
    <3>1. UNCHANGED flow  BY <2>3, Zenon DEF EmptyStart, EmptyDone
    <3> QED  BY <3>1, FlowMaps
  <2> QED  BY <1>8, <2>1, <2>2, <2>3 DEF EmptyNext
<1>9. CASE UNCHANGED vars  BY <1>9, FlowMaps DEF vars
<1>10. CASE PanicNext
  <2>1. UNCHANGED flow
    BY <1>10, Zenon DEF PanicNext, InitPanic, WritePanic, AcceptPanic, Die
  <2> QED  BY <2>1, FlowMaps
<1> QED
  BY <1>1, <1>2, <1>3, <1>4, <1>5, <1>6, <1>7, <1>8, <1>9, <1>10, Zenon DEF Next, Ended

\* Whatever its inputs, its configuration and the way it is stopped, what flows
\* through the agent keeps the promises of Delivery.
THEOREM Refinement == Spec => Delivers
<1>1. Init => Promise!DeliveryInit
  <2> SUFFICES ASSUME Init PROVE Promise!DeliveryInit
    OBVIOUS
  <2>1. <<>> \o <<>> \o <<>> \o <<>> = <<>>  BY SMT
  <2> QED  BY <2>1, Zenon DEF Init, Promise!DeliveryInit
<1>2. IInv /\ [Next]_vars => [Promise!DeliveryNext]_(Promise!deliveryVars)
  BY StepMaps
<1> QED  BY <1>1, <1>2, Invariance, PTL DEF Spec, Delivers, Promise!DeliverySpec

\* So the output writes the messages in the order Inchan took them, none twice,
\* and none is lost from sight.
Laws == INSTANCE DeliveryProofs WITH pending <- Pending

THEOREM OrderedAndAccounted == Spec => [](InOrder /\ Accounted)
<1>1. Laws!DeliverySpec => [](Laws!InOrder /\ Laws!Accounted)
  BY Laws!DeliveryCorrect
<1>2. Laws!InOrder /\ Laws!Accounted <=> InOrder /\ Accounted
  BY Zenon DEF Laws!InOrder, Laws!Increasing, Laws!Accounted, Laws!Range, Pending,
     InOrder, Accounted, Promise!InOrder, Promise!Increasing, Promise!Accounted, Promise!Range
<1>3. Laws!DeliveryInit <=> Promise!DeliveryInit
  BY Zenon DEF Laws!DeliveryInit, Promise!DeliveryInit, Pending
<1>4. [Laws!DeliveryNext]_(Laws!deliveryVars) <=> [Promise!DeliveryNext]_(Promise!deliveryVars)
  BY Zenon DEF Laws!DeliveryNext, Laws!TakeIn, Laws!Deliver, Laws!Discard, Laws!RemoveAt,
     Laws!deliveryVars, Promise!DeliveryNext, Promise!TakeIn, Promise!Deliver,
     Promise!Discard, Promise!RemoveAt, Promise!deliveryVars, Pending
<1> QED
  BY <1>1, <1>2, <1>3, <1>4, Refinement, PTL
     DEF Delivers, Laws!DeliverySpec, Promise!DeliverySpec

\* The second half by itself: each message is pending, written or discarded.
THEOREM MessagesAccounted == Spec => []Accounted
  BY OrderedAndAccounted, PTL

=============================================================================

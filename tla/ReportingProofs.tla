--------------------------- MODULE ReportingProofs ---------------------------
(* Theorems about Reporting, for every set of threads, every bound and every  *)
(* set of configurations.  Of ChromeTrace: type correctness, that the trace   *)
(* file with the record buffer behaves as a TraceLog, and what a reader of    *)
(* the trace relies on: named tracks, flows that meet, and blocking calls     *)
(* that flush.  Of EnqueueReports, from the second half on: the limit of the  *)
(* counter, and what the reports show.                                        *)
EXTENDS Reporting, SequenceTheorems, FiniteSetTheorems, TLAPS

-----------------------------------------------------------------------------
(* Each of the two parts behaves as it does alone. *)
LEMMA EachReport == ReportingSpec => Spec /\ Rep!Spec
  <1>1. ReportingInit => Init /\ Rep!Init
    BY DEF ReportingInit
  <1>2. [ReportingNext]_<<vars, reportVars>> => [Next]_vars /\ [Rep!Next]_(Rep!vars)
    BY DEF ReportingNext, reportVars, Rep!vars
  <1> QED BY <1>1, <1>2, PTL DEF ReportingSpec, Spec, Rep!Spec

-----------------------------------------------------------------------------
(* Two facts about sequences. *)

\* Appending to the second part of a concatenation appends to the whole.
LEMMA AppendAtTheEnd ==
  ASSUME NEW S, NEW s \in Seq(S), NEW u \in Seq(S), NEW r \in S
  PROVE  s \o Append(u, r) = Append(s \o u, r)
  <1>1. s \o u \in Seq(S) /\ <<r>> \in Seq(S)
    BY ConcatProperties
  <1>2. Append(s \o u, r) = (s \o u) \o <<r>>
    BY <1>1, AppendIsConcat
  <1>3. Append(u, r) = u \o <<r>>
    BY AppendIsConcat
  <1> QED BY <1>1, <1>2, <1>3, ConcatAssociative

\* Appending to the first part inserts between the two.
LEMMA AppendInBetween ==
  ASSUME NEW S, NEW s \in Seq(S), NEW u \in Seq(S), NEW d \in S
  PROVE  Append(s, d) \o u =
           SubSeq(s \o u, 1, Len(s)) \o <<d>> \o SubSeq(s \o u, Len(s) + 1, Len(s \o u))
  <1> DEFINE w == s \o u
             first == SubSeq(w, 1, Len(s))
             second == SubSeq(w, Len(s) + 1, Len(w))
  <1>1. /\ w \in Seq(S) /\ Len(w) = Len(s) + Len(u) /\ Len(s) \in Nat /\ Len(u) \in Nat
        /\ \A i \in 1 .. Len(s) + Len(u) : w[i] = IF i <= Len(s) THEN s[i] ELSE u[i - Len(s)]
    BY ConcatProperties, LenProperties
  <1>2. \A i \in 1 .. Len(w) : w[i] \in S
    BY <1>1, ElementOfSeq
  <1> HIDE DEF w
  <1>3. first = s
    <2>0. \A i \in 1 .. Len(s) : w[i] \in S
      BY <1>1, <1>2
    <2>1. /\ first \in Seq(S) /\ Len(first) = Len(s)
          /\ \A i \in 1 .. (Len(s) - 1) + 1 : first[i] = w[(1 + i) - 1]
      BY <1>1, <2>0, SubSeqProperties
    <2>2. \A i \in 1 .. Len(s) : first[i] = s[i]
      BY <1>1, <2>1
    <2> HIDE DEF first
    <2> QED BY <1>1, <2>1, <2>2, SeqEqual
  <1>4. second = u
    <2>0. /\ Len(s) + 1 \in Int /\ Len(w) \in Int
          /\ \A i \in Len(s) + 1 .. Len(w) : w[i] \in S
      BY <1>1, <1>2
    <2>1. /\ second \in Seq(S)
          /\ Len(second) = IF Len(s) + 1 <= Len(w) THEN Len(w) - (Len(s) + 1) + 1 ELSE 0
          /\ \A i \in 1 .. Len(w) - (Len(s) + 1) + 1 : second[i] = w[Len(s) + 1 + i - 1]
      BY <2>0, SubSeqProperties
    <2> HIDE DEF second
    <2>2. Len(second) = Len(u)
      BY <1>1, <2>1
    <2>3. \A i \in 1 .. Len(u) : second[i] = u[i]
      <3> TAKE i \in 1 .. Len(u)
      <3>1. i \in 1 .. Len(w) - (Len(s) + 1) + 1 /\ Len(s) + 1 + i - 1 = Len(s) + i
        BY <1>1
      <3>2. second[i] = w[Len(s) + i]
        BY <2>1, <3>1
      <3>3. Len(s) + i \in 1 .. Len(s) + Len(u) /\ ~(Len(s) + i <= Len(s))
            /\ (Len(s) + i) - Len(s) = i
        BY <1>1
      <3> QED BY <1>1, <3>2, <3>3
    <2> QED BY <1>1, <2>1, <2>2, <2>3, SeqEqual
  <1>5. Append(s, d) = s \o <<d>>
    BY AppendIsConcat
  <1> QED BY <1>3, <1>4, <1>5 DEF w

-----------------------------------------------------------------------------
(* The inductive invariant. *)

\* A thread within a call has a number, and the trace is not closed under it.
CallsAreNumbered == \A t \in Threads : ~Idle(t) => call[t].number \in 1 .. MaxCalls /\ open

Inv == TypeOK /\ CallsAreNumbered

\* The part of TypeOK that is about the tracer.
TracerTypes ==
    /\ file \in Seq(Blocks)
    /\ buffer \in Seq(Records)
    /\ Len(buffer) < config.BufferSize \/ buffer = <<>>
    /\ durable \in 0 .. Len(file)
    /\ open \in BOOLEAN

\* The rest of it, but for the calls in progress.
LayerTypes ==
    /\ config \in Configs
    /\ calls \in 0 .. MaxCalls
    /\ mutex \in Threads \cup {NoThread}
    /\ numbered \subseteq Threads
    /\ queues \subseteq 1 .. MaxCalls
    /\ nodes \subseteq [call : 1 .. MaxCalls, queue : 1 .. MaxCalls]

CallTypes == call \in [Threads -> Calls] /\ CallsAreNumbered

LEMMA InvParts ==
  /\ Inv <=> TracerTypes /\ LayerTypes /\ CallTypes
  /\ Inv' <=> TracerTypes' /\ LayerTypes' /\ CallTypes'
  BY DEF Inv, TypeOK, TracerTypes, LayerTypes, CallTypes

-----------------------------------------------------------------------------
(* The functions of CChromeTracer, as steps of the log. *)

LogStep == TheLog!Next \/ UNCHANGED TheLog!vars

\* Facts about the file and the buffer that every step starts from.
LEMMA FileAndBuffer ==
  ASSUME TracerTypes
  PROVE  /\ buffer \in Seq(Blocks) /\ log \in Seq(Blocks)
         /\ Len(log) = Len(file) + Len(buffer) /\ Len(file) \in Nat /\ Len(buffer) \in Nat
         /\ log \o <<>> = log /\ file \o <<>> = file
  <1>1. Records \subseteq Blocks
    BY DEF Blocks
  <1>2. buffer \in Seq(Blocks)
    BY <1>1, SeqMonotonic DEF TracerTypes
  <1> QED BY <1>2, ConcatProperties, ConcatEmptySeq, LenProperties DEF TracerTypes, log

\* A record joins the log, whether it is buffered, written, or written with all
\* that was buffered before it.
LEMMA AddRecordAdds ==
  ASSUME TracerTypes, LayerTypes, open, NEW r \in Records, addRecord(r), UNCHANGED config
  PROVE  TracerTypes' /\ LogStep /\ log' = Append(log, r)
  <1> DEFINE w == Append(buffer, r)
  <1>1. r \in Blocks
    BY DEF Blocks
  <1>2. /\ config.BufferSize \in Nat /\ durable' = durable /\ open' = open
        /\ file \in Seq(Blocks) /\ buffer \in Seq(Records)
    BY TraceConfigsAssumption DEF LayerTypes, TracerTypes, addRecord
  <1>3. /\ w \in Seq(Records) /\ Len(w) = Len(buffer) + 1
        /\ w \in Seq(Blocks) /\ file \o w = Append(log, r)
    <2>1. Records \subseteq Blocks
      BY DEF Blocks
    <2>2. w \in Seq(Records) /\ Len(w) = Len(buffer) + 1
      BY <1>2, AppendProperties
    <2>3. w \in Seq(Blocks)
      BY <2>1, <2>2, SeqMonotonic
    <2>4. file \o w = Append(log, r)
      BY <1>1, <1>2, FileAndBuffer, AppendAtTheEnd DEF log
    <2> QED BY <2>2, <2>3, <2>4
  <1>4. Len(Append(log, r)) = Len(log) + 1 /\ Append(log, r) \in Seq(Blocks)
    BY <1>1, FileAndBuffer, AppendProperties
  <1>5. /\ TracerTypes' /\ log' = Append(log, r)
        /\ Len(file') \in Len(file) .. Len(log')
    <2>1. CASE config.BufferSize = 0
      <3>1. buffer = <<>> /\ file' = Append(file, r) /\ buffer' = <<>>
        BY <1>2, <2>1, FileAndBuffer DEF TracerTypes, addRecord
      <3>2. log = file /\ file' = Append(log, r)
        BY <3>1, FileAndBuffer DEF log
      <3>3. file' \in Seq(Blocks) /\ Len(file') = Len(file) + 1 /\ file' \o <<>> = file'
        BY <1>4, <3>2, FileAndBuffer, ConcatEmptySeq
      <3>4. log' = file'
        BY <3>1, <3>3 DEF log
      <3>5. buffer' \in Seq(Records)
        BY <3>1, EmptySeq
      <3> QED BY <1>2, <3>1, <3>2, <3>3, <3>4, <3>5, FileAndBuffer DEF TracerTypes
    <2>2. CASE config.BufferSize # 0 /\ Len(w) >= config.BufferSize
      <3>1. file' = file \o w /\ buffer' = <<>>
        BY <2>2 DEF addRecord, checkFlushRecords, flushRecords
      <3>2. file' = Append(log, r)
        BY <1>3, <3>1
      <3>3. file' \in Seq(Blocks) /\ Len(file') = Len(log) + 1 /\ file' \o <<>> = file'
        BY <1>4, <3>2, ConcatEmptySeq
      <3>4. log' = file'
        BY <3>1, <3>3 DEF log
      <3>5. buffer' \in Seq(Records)
        BY <3>1, EmptySeq
      <3> QED BY <1>2, <3>1, <3>2, <3>3, <3>4, <3>5, FileAndBuffer DEF TracerTypes
    <2>3. CASE config.BufferSize # 0 /\ ~(Len(w) >= config.BufferSize)
      <3>1. file' = file /\ buffer' = w
        BY <2>3 DEF addRecord, checkFlushRecords
      <3>2. log' = Append(log, r)
        BY <1>3, <3>1 DEF log
      <3>3. Len(buffer') < config.BufferSize
        BY <1>2, <1>3, <2>3, <3>1, FileAndBuffer
      <3> QED BY <1>2, <1>3, <1>4, <3>1, <3>2, <3>3, FileAndBuffer DEF TracerTypes
    <2> QED BY <2>1, <2>2, <2>3
  <1>6. TheLog!Add
    BY <1>2, <1>5 DEF TheLog!Add
  <1> QED BY <1>5, <1>6 DEF LogStep, TheLog!Next

\* A description goes to the file at once, before what is buffered.
LEMMA AddMetadataDescribes ==
  ASSUME TracerTypes, open, NEW d \in Descriptions, addMetadata(d), UNCHANGED config
  PROVE  TracerTypes' /\ LogStep
  <1>1. d \in Blocks
    BY DEF Blocks
  <1>2. /\ file' = Append(file, d) /\ buffer' = buffer /\ durable' = durable /\ open' = open
        /\ file \in Seq(Blocks)
    BY DEF addMetadata, TracerTypes
  <1>3. file' \in Seq(Blocks) /\ Len(file') = Len(file) + 1
    BY <1>1, <1>2, AppendProperties
  <1>4. TracerTypes'
    BY <1>2, <1>3, FileAndBuffer DEF TracerTypes
  <1>5. log' = SubSeq(log, 1, Len(file)) \o <<d>> \o SubSeq(log, Len(file) + 1, Len(log))
    BY <1>1, <1>2, FileAndBuffer, AppendInBetween DEF log
  <1>6. TheLog!Describe
    BY <1>2, <1>3, <1>5 DEF TheLog!Describe
  <1> QED BY <1>4, <1>6 DEF LogStep, TheLog!Next

\* A flush writes what is buffered and changes nothing else.
LEMMA FlushWrites ==
  ASSUME TracerTypes, open, flush, UNCHANGED config
  PROVE  TracerTypes' /\ LogStep /\ log' = log /\ durable' = Len(log)
  <1>1. file' = log /\ buffer' = <<>> /\ durable' = Len(file') /\ open' = open
    BY DEF flush, flushRecords, log
  <1>2. log' = log
    BY <1>1, FileAndBuffer DEF log
  <1>3. buffer' \in Seq(Records)
    BY <1>1, EmptySeq
  <1>4. TracerTypes'
    BY <1>1, <1>3, FileAndBuffer DEF TracerTypes
  <1>5. TheLog!Write
    BY <1>1, <1>2 DEF TheLog!Write
  <1> QED BY <1>1, <1>2, <1>4, <1>5 DEF LogStep, TheLog!Next

\* The destructor writes what is buffered and the end of the file.
LEMMA UnloadCloses ==
  ASSUME TracerTypes, Unload
  PROVE  TracerTypes' /\ LogStep /\ log' = Append(log, Eof) /\ durable' = Len(log')
  <1>1. /\ file' = log \o <<Eof>> /\ buffer' = <<>> /\ durable' = Len(file')
        /\ open /\ open' = FALSE /\ config' = config
    BY DEF Unload, log
  <1>2. Eof \in Blocks
    BY DEF Blocks
  <1>3. file' = Append(log, Eof)
    BY <1>1, <1>2, FileAndBuffer, AppendIsConcat
  <1>4. file' \in Seq(Blocks) /\ Len(file') \in Nat /\ file' \o <<>> = file'
    BY <1>2, <1>3, FileAndBuffer, AppendProperties, LenProperties, ConcatEmptySeq
  <1>5. log' = file'
    BY <1>1, <1>4 DEF log
  <1>6. buffer' \in Seq(Records)
    BY <1>1, EmptySeq
  <1>7. TracerTypes'
    <2>1. durable' \in 0 .. Len(file')
      BY <1>1, <1>4
    <2>2. open' \in BOOLEAN
      BY <1>1
    <2> QED BY <1>1, <1>4, <1>6, <2>1, <2>2 DEF TracerTypes
  <1>8. TheLog!Close
    BY <1>1, <1>3, <1>5 DEF TheLog!Close
  <1> QED BY <1>1, <1>3, <1>5, <1>7, <1>8 DEF LogStep, TheLog!Next

\* What does not touch the tracer is invisible.
LEMMA OthersStutter ==
  ASSUME TracerTypes, UNCHANGED <<tracer, config>>
  PROVE  TracerTypes' /\ LogStep
  BY DEF TracerTypes, LogStep, tracer, TheLog!vars, log

-----------------------------------------------------------------------------
(* The calls in progress. *)

LEMMA OnlyTypes ==
  ASSUME NEW condition \in BOOLEAN, NEW steps \in Seq(Steps)
  PROVE  Only(condition, steps) \in Seq(Steps)
  BY EmptySeq DEF Only

LEMMA ExitTypes ==
  ASSUME NEW c \in Configs, NEW record \in RecordKinds
  PROVE  /\ chromeCallLoggingExit(c, record) \in Seq(Steps)
         /\ ToolOverhead(c, record) \in Seq(Steps)
  <1>1. /\ c.CallLogging \in BOOLEAN /\ c.FlushFiles \in BOOLEAN /\ c.ToolOverhead \in BOOLEAN
    BY TraceConfigsAssumption
  <1>2. /\ <<"getThreadNumber", record>> \in Seq(Steps) /\ <<"flushFile">> \in Seq(Steps)
    BY DEF Steps
  <1>3. <<"getThreadNumber", record>> \o Only(c.FlushFiles, <<"flushFile">>) \in Seq(Steps)
    BY <1>1, <1>2, OnlyTypes, ConcatProperties
  <1>4. chromeCallLoggingExit(c, record) \in Seq(Steps)
    BY <1>1, <1>3, OnlyTypes DEF chromeCallLoggingExit
  <1> QED BY <1>1, <1>4, OnlyTypes DEF ToolOverhead

\* A handler is a sequence of steps.
LEMMA HandlerTypes ==
  ASSUME NEW c \in Configs, NEW kind \in Kinds
  PROVE  Handler(c, kind) \in Seq(Steps)
  <1>1. /\ c.DeviceTiming \in BOOLEAN /\ c.BlockingFlush \in BOOLEAN /\ c.CallLogging \in BOOLEAN
    BY TraceConfigsAssumption
  <1>2. CallKind(kind) \in RecordKinds
        /\ "scanOverhead" \in RecordKinds /\ "flushOverhead" \in RecordKinds
    BY DEF CallKind, RecordKinds
  <1>3. /\ <<"addTimingEvent">> \in Seq(Steps) /\ <<"checkTimingEvents">> \in Seq(Steps)
        /\ <<"flushBuffering">> \in Seq(Steps)
        /\ <<"chromeRegisterCommandQueue">> \in Seq(Steps)
    BY DEF Steps
  <1>4. Scan(c, kind) \in Seq(Steps)
    <2>1. <<"checkTimingEvents">> \o ToolOverhead(c, "scanOverhead") \in Seq(Steps)
      BY <1>2, <1>3, ExitTypes, ConcatProperties
    <2> QED BY <1>1, <2>1, OnlyTypes DEF Scan
  <1>5. Flush(c, kind) \in Seq(Steps)
    <2>1. <<"flushBuffering">> \o ToolOverhead(c, "flushOverhead") \in Seq(Steps)
      BY <1>2, <1>3, ExitTypes, ConcatProperties
    <2> QED BY <1>1, <2>1, OnlyTypes DEF Flush
  <1> DEFINE first == Only(c.DeviceTiming /\ kind \in Enqueues, <<"addTimingEvent">>)
             second == chromeCallLoggingExit(c, CallKind(kind))
             last == Only(c.DeviceTiming /\ kind = "createQueue", <<"chromeRegisterCommandQueue">>)
  <1>6. first \in Seq(Steps) /\ second \in Seq(Steps) /\ last \in Seq(Steps)
    BY <1>1, <1>2, <1>3, OnlyTypes, ExitTypes
  <1>7. Handler(c, kind) = first \o second \o Scan(c, kind) \o Flush(c, kind) \o last
    BY DEF Handler
  <1> HIDE DEF first, second, last
  <1>8. first \o second \in Seq(Steps)
    BY <1>6, ConcatProperties
  <1>9. first \o second \o Scan(c, kind) \in Seq(Steps)
    BY <1>4, <1>8, ConcatProperties
  <1>10. first \o second \o Scan(c, kind) \o Flush(c, kind) \in Seq(Steps)
    BY <1>5, <1>9, ConcatProperties
  <1> QED BY <1>6, <1>7, <1>10, ConcatProperties

\* A thread that has done a step of its call.
LEMMA DoneTypes ==
  ASSUME CallTypes, NEW t \in Threads, ~Idle(t), Done(t), UNCHANGED open
  PROVE  CallTypes'
  <1>1. /\ call \in [Threads -> Calls] /\ call[t].todo \in Seq(Steps) /\ call[t].todo # <<>>
    BY DEF CallTypes, Calls, Idle
  <1> DEFINE rest == Tail(call[t].todo)
             next == [call[t] EXCEPT !.todo = rest]
  <1>2. rest \in Seq(Steps)
    BY <1>1, HeadTailProperties
  <1>3. call' = [call EXCEPT ![t] = next]
    BY DEF Done
  <1> HIDE DEF rest
  <1>4. next \in Calls /\ next.number = call[t].number
    BY <1>1, <1>2 DEF Calls
  <1> HIDE DEF next
  <1>5. /\ call' \in [Threads -> Calls] /\ call'[t] = next
        /\ \A u \in Threads \ {t} : call'[u] = call[u]
    BY <1>1, <1>3, <1>4
  <1>6. CallsAreNumbered'
    BY <1>4, <1>5 DEF CallTypes, CallsAreNumbered, Idle
  <1> QED BY <1>5, <1>6 DEF CallTypes

\* What a step of a call may use.
LEMMA InACall ==
  ASSUME CallTypes, NEW t \in Threads, NEW step, At(t, step)
  PROVE  ~Idle(t) /\ open /\ call[t].number \in 1 .. MaxCalls
  BY DEF At, CallTypes, CallsAreNumbered

-----------------------------------------------------------------------------
(* Every step keeps the invariant and is a step of the log. *)

LEMMA BeginSteps ==
  ASSUME Inv, NEW t \in Threads, Begin(t)
  PROVE  Inv' /\ LogStep
  <1>1. /\ TracerTypes /\ LayerTypes /\ CallTypes
        /\ open /\ UNCHANGED <<config, layer, tracer>>
        /\ calls < MaxCalls /\ calls' = calls + 1
    BY InvParts DEF Begin
  <1>2. TracerTypes' /\ LogStep
    BY <1>1, OthersStutter
  <1>3. LayerTypes'
    BY <1>1, TraceBoundsAssumption DEF LayerTypes, layer
  <1>4. CallTypes'
    <2>1. PICK kind \in Kinds : call' = [call EXCEPT ![t] = [todo |-> Handler(config, kind),
                                            number |-> calls + 1, kind |-> kind]]
      BY DEF Begin
    <2> DEFINE next == [todo |-> Handler(config, kind), number |-> calls + 1, kind |-> kind]
    <2>2. calls + 1 \in 1 .. MaxCalls
      BY <1>1, TraceBoundsAssumption DEF LayerTypes
    <2>3. next \in Calls /\ next.number \in 1 .. MaxCalls
      <3>1. Handler(config, kind) \in Seq(Steps)
        BY <1>1, HandlerTypes DEF LayerTypes
      <3> QED BY <2>2, <3>1 DEF Calls
    <2>4. call' = [call EXCEPT ![t] = next]
      BY <2>1
    <2> HIDE DEF next
    <2>5. /\ call' \in [Threads -> Calls] /\ call'[t] = next
          /\ \A u \in Threads \ {t} : call'[u] = call[u]
      BY <1>1, <2>3, <2>4 DEF CallTypes
    <2>6. open' = open
      BY <1>1 DEF tracer
    <2> QED BY <1>1, <2>3, <2>5, <2>6 DEF CallTypes, CallsAreNumbered, Idle
  <1> QED BY <1>2, <1>3, <1>4, InvParts

\* A step of a call that leaves the tracer alone.
LEMMA QuietSteps ==
  ASSUME Inv, UNCHANGED <<config, tracer>>, LayerTypes', CallTypes'
  PROVE  Inv' /\ LogStep
  BY OthersStutter, InvParts

LEMMA AddTimingEventSteps ==
  ASSUME Inv, NEW t \in Threads, AddTimingEvent(t) \/ CommandFailed(t)
  PROVE  Inv' /\ LogStep
  <1>1. /\ TracerTypes /\ LayerTypes /\ CallTypes /\ At(t, "addTimingEvent")
        /\ Done(t) /\ UNCHANGED <<config, calls, mutex, numbered, queues, tracer>>
    BY InvParts DEF AddTimingEvent, CommandFailed, layer
  <1>2. ~Idle(t) /\ call[t].number \in 1 .. MaxCalls
    BY <1>1, InACall
  <1>3. CallTypes'
    BY <1>1, <1>2, DoneTypes DEF tracer
  <1>4. nodes' \subseteq [call : 1 .. MaxCalls, queue : 1 .. MaxCalls]
    BY <1>1, <1>2 DEF AddTimingEvent, CommandFailed, layer, LayerTypes
  <1>5. LayerTypes'
    BY <1>1, <1>4 DEF LayerTypes
  <1> QED BY <1>1, <1>3, <1>5, QuietSteps

LEMMA GetThreadNumberSteps ==
  ASSUME Inv, NEW t \in Threads, GetThreadNumber(t)
  PROVE  Inv' /\ LogStep
  <1>1. /\ TracerTypes /\ LayerTypes /\ CallTypes /\ At(t, "getThreadNumber")
        /\ Done(t) /\ UNCHANGED <<config, calls, queues, nodes>>
        /\ numbered' = numbered \cup {t} /\ mutex' = t
    BY InvParts DEF GetThreadNumber
  <1>2. ~Idle(t) /\ open
    BY <1>1, InACall
  <1>3. TracerTypes' /\ LogStep /\ UNCHANGED open
    <2>1. CASE t \in numbered
      BY <1>1, <2>1, OthersStutter DEF GetThreadNumber, tracer
    <2>2. CASE t \notin numbered
      <3>1. addMetadata(ThreadName(t)) /\ ThreadName(t) \in Descriptions
        BY <2>2 DEF GetThreadNumber, Descriptions
      <3> QED BY <1>1, <1>2, <3>1, AddMetadataDescribes DEF addMetadata
    <2> QED BY <2>1, <2>2
  <1>4. CallTypes'
    BY <1>1, <1>2, <1>3, DoneTypes
  <1>5. LayerTypes'
    BY <1>1 DEF LayerTypes
  <1> QED BY <1>3, <1>4, <1>5, InvParts

LEMMA AddCallLoggingSteps ==
  ASSUME Inv, NEW t \in Threads, AddCallLogging(t)
  PROVE  Inv' /\ LogStep
  <1>1. /\ TracerTypes /\ LayerTypes /\ CallTypes
        /\ Done(t) /\ UNCHANGED <<config, calls, numbered, queues, nodes>>
        /\ addRecord(CallRecord(t)) /\ mutex' \in {mutex, NoThread}
    BY InvParts DEF AddCallLogging, Unlocked
  <1>2. PICK kind \in RecordKinds : At(t, kind)
    BY DEF AddCallLogging
  <1>3. ~Idle(t) /\ open /\ call[t].number \in 1 .. MaxCalls
    BY <1>1, <1>2, InACall
  <1>4. CallRecord(t) \in Records
    BY <1>2, <1>3 DEF At, CallRecord, Records
  <1>5. TracerTypes' /\ LogStep
    BY <1>1, <1>3, <1>4, AddRecordAdds
  <1>6. CallTypes'
    <2>1. UNCHANGED open
      BY <1>1 DEF addRecord
    <2> QED BY <1>1, <1>3, <2>1, DoneTypes
  <1>7. LayerTypes'
    BY <1>1 DEF LayerTypes
  <1> QED BY <1>5, <1>6, <1>7, InvParts

LEMMA FlushSteps ==
  ASSUME Inv, NEW t \in Threads, FlushFile(t) \/ FlushBuffering(t)
  PROVE  Inv' /\ LogStep
  <1>1. /\ TracerTypes /\ LayerTypes /\ CallTypes /\ flush
        /\ Done(t) /\ UNCHANGED <<config, calls, numbered, queues, nodes>>
        /\ mutex' \in {mutex, NoThread}
    BY InvParts DEF FlushFile, FlushBuffering, layer
  <1>2. ~Idle(t) /\ open
    BY <1>1, InACall DEF FlushFile, FlushBuffering
  <1>3. TracerTypes' /\ LogStep
    BY <1>1, <1>2, FlushWrites
  <1>4. CallTypes'
    <2>1. UNCHANGED open
      BY <1>1 DEF flush
    <2> QED BY <1>1, <1>2, <2>1, DoneTypes
  <1>5. LayerTypes'
    BY <1>1 DEF LayerTypes
  <1> QED BY <1>3, <1>4, <1>5, InvParts

LEMMA ScanSteps ==
  ASSUME Inv, NEW t \in Threads, ScanBegin(t) \/ ScanEnd(t)
  PROVE  Inv' /\ LogStep
  <1>1. /\ TracerTypes /\ LayerTypes /\ CallTypes /\ At(t, "checkTimingEvents")
        /\ UNCHANGED <<config, calls, numbered, queues, nodes, tracer>>
        /\ mutex' \in Threads \cup {NoThread}
    BY InvParts DEF ScanBegin, ScanEnd
  <1>2. CallTypes'
    <2>1. CASE UNCHANGED call
      BY <1>1, <2>1 DEF CallTypes, CallsAreNumbered, Idle, tracer
    <2>2. CASE Done(t)
      BY <1>1, <2>2, InACall, DoneTypes DEF tracer
    <2> QED BY <2>1, <2>2 DEF ScanBegin, ScanEnd
  <1>3. LayerTypes'
    BY <1>1 DEF LayerTypes
  <1> QED BY <1>1, <1>2, <1>3, QuietSteps

LEMMA ChromeTraceEventSteps ==
  ASSUME Inv, NEW t \in Threads, ChromeTraceEvent(t)
  PROVE  Inv' /\ LogStep
  <1>1. /\ TracerTypes /\ LayerTypes /\ CallTypes /\ At(t, "checkTimingEvents")
        /\ UNCHANGED <<config, calls, call, mutex, numbered, queues>>
    BY InvParts DEF ChromeTraceEvent
  <1>2. PICK node \in nodes : addRecord(DeviceRecord(t, node)) /\ nodes' = nodes \ {node}
    BY DEF ChromeTraceEvent
  <1>3. open
    BY <1>1, InACall
  <1>4. DeviceRecord(t, node) \in Records
    <2>1. node \in [call : 1 .. MaxCalls, queue : 1 .. MaxCalls]
      BY <1>1 DEF LayerTypes
    <2> QED BY <2>1 DEF DeviceRecord, Records, RecordKinds
  <1>5. TracerTypes' /\ LogStep
    BY <1>1, <1>2, <1>3, <1>4, AddRecordAdds
  <1>6. CallTypes'
    <2>1. UNCHANGED open
      BY <1>2 DEF addRecord
    <2> QED BY <1>1, <2>1 DEF CallTypes, CallsAreNumbered, Idle
  <1>7. LayerTypes'
    BY <1>1, <1>2 DEF LayerTypes
  <1> QED BY <1>5, <1>6, <1>7, InvParts

LEMMA RegisterQueueSteps ==
  ASSUME Inv, NEW t \in Threads, ChromeRegisterCommandQueue(t)
  PROVE  Inv' /\ LogStep
  <1>1. /\ TracerTypes /\ LayerTypes /\ CallTypes /\ At(t, "chromeRegisterCommandQueue")
        /\ Done(t) /\ UNCHANGED <<config, calls, mutex, numbered, nodes>>
        /\ queues' = queues \cup {call[t].number}
        /\ addMetadata(QueueName(call[t].number))
    BY InvParts DEF ChromeRegisterCommandQueue
  <1>2. ~Idle(t) /\ open /\ call[t].number \in 1 .. MaxCalls
    BY <1>1, InACall
  <1>3. QueueName(call[t].number) \in Descriptions
    BY <1>2 DEF Descriptions
  <1>4. TracerTypes' /\ LogStep
    BY <1>1, <1>2, <1>3, AddMetadataDescribes
  <1>5. CallTypes'
    <2>1. UNCHANGED open
      BY <1>1 DEF addMetadata
    <2> QED BY <1>1, <1>2, <2>1, DoneTypes
  <1>6. LayerTypes'
    BY <1>1, <1>2 DEF LayerTypes
  <1> QED BY <1>4, <1>5, <1>6, InvParts

LEMMA UnloadSteps ==
  ASSUME Inv, Unload
  PROVE  Inv' /\ LogStep
  <1>1. /\ TracerTypes /\ LayerTypes /\ CallTypes /\ Quiescent
        /\ UNCHANGED <<config, calls, call, layer>>
    BY InvParts DEF Unload
  <1>2. TracerTypes' /\ LogStep
    BY <1>1, UnloadCloses
  <1>3. CallTypes'
    BY <1>1 DEF CallTypes, CallsAreNumbered, Idle, Quiescent
  <1>4. LayerTypes'
    BY <1>1 DEF LayerTypes, layer
  <1> QED BY <1>2, <1>3, <1>4, InvParts

LEMMA InitInv ==
  ASSUME Init
  PROVE  Inv /\ TheLog!Init
  <1>1. ProcessName \in Blocks /\ StartTime \in Blocks
    BY DEF Blocks
  <1>2. file \in Seq(Blocks) /\ Len(file) = 2 /\ buffer = <<>> /\ buffer \in Seq(Records)
    BY <1>1, EmptySeq DEF Init
  <1>3. TracerTypes
    BY <1>2 DEF Init, TracerTypes
  <1>4. LayerTypes
    BY TraceBoundsAssumption DEF Init, LayerTypes
  <1>5. CallTypes
    <2>1. NoCall \in Calls /\ NoCall.todo = <<>>
      BY TraceBoundsAssumption, EmptySeq DEF NoCall, Calls
    <2> QED BY <2>1 DEF Init, CallTypes, CallsAreNumbered, Idle
  <1>6. log = file
    BY <1>2, <1>3, FileAndBuffer DEF log
  <1> QED BY <1>2, <1>3, <1>4, <1>5, <1>6, InvParts DEF Init, TheLog!Init

LEMMA NextSteps ==
  ASSUME Inv, [Next]_vars
  PROVE  Inv' /\ LogStep
  <1>1. CASE UNCHANGED vars
    <2>1. UNCHANGED <<config, tracer>>
      BY <1>1 DEF vars
    <2>2. LayerTypes'
      BY <1>1, InvParts DEF vars, layer, LayerTypes
    <2>3. CallTypes'
      BY <1>1, InvParts DEF vars, tracer, CallTypes, CallsAreNumbered, Idle
    <2> QED BY <2>1, <2>2, <2>3, QuietSteps
  <1>2. CASE Unload
    BY <1>2, UnloadSteps
  <1>3. ASSUME NEW t \in Threads, Begin(t) \/ Step(t)
        PROVE  Inv' /\ LogStep
    BY <1>3, BeginSteps, AddTimingEventSteps, GetThreadNumberSteps, AddCallLoggingSteps,
       FlushSteps, ScanSteps, ChromeTraceEventSteps, RegisterQueueSteps DEF Step
  <1> QED BY <1>1, <1>2, <1>3 DEF Next

-----------------------------------------------------------------------------
(* Types, and the log. *)

\* Type correctness: in particular the buffer never holds as many records as it
\* may, and none without buffering (checkFlushRecords).
LEMMA TraceTypesCorrect == Spec => []TypeOK
  <1>1. Spec => []Inv
    BY InitInv, NextSteps, PTL DEF Spec
  <1> QED BY <1>1, PTL DEF Inv

\* CChromeTracer implements the log: with any number of threads, any size of the
\* buffer and any flushes, no record is lost, repeated or out of order, and no
\* description waits in the buffer.
THEOREM TraceIsALog == ReportingSpec => ImplementsTraceLog
  <1>1. Init => Inv /\ TheLog!Init
    BY InitInv
  <1>2. Inv /\ [Next]_vars => Inv' /\ [TheLog!Next]_TheLog!vars
    BY NextSteps DEF LogStep
  <1> QED BY EachReport, <1>1, <1>2, PTL DEF Spec, ImplementsTraceLog, TheLog!Spec

-----------------------------------------------------------------------------
(* The names, the flows and what is flushed: the rest of the invariant.       *)

\* Somewhere, and at one place at most.
Has(l, V)  == \E i \in DOMAIN l : l[i] \in V
Once(l, V) == \A i, j \in DOMAIN l : l[i] \in V /\ l[j] \in V => i = j

\* The steps that add a record before the flush of a blocking call.
Recording == {"callLogging", "callLoggingId", "scanOverhead", "checkTimingEvents"}

\* The calls BlockingCallsAreDurable is about.
Flushes(c, kind) == kind \in Blocking /\ c.BufferSize # 0 /\ c.BlockingFlush

Ordered(s, c, kind) ==
    /\ \A i \in DOMAIN s \ {1} : s[i] \in RecordKinds => s[i - 1] = "getThreadNumber"
    /\ \A i \in DOMAIN s : s[i] = "chromeRegisterCommandQueue" => i = Len(s)
    /\ \A i \in DOMAIN s :
          s[i] = "addTimingEvent" => i = 1 /\ (c.CallLogging => Has(s, {"callLoggingId"}))
    /\ Once(s, {"callLoggingId"})
    /\ \A i \in DOMAIN s : s[i] \in RecordKinds => c.CallLogging /\ s[i] # "deviceTiming"
    /\ \A i \in DOMAIN s : s[i] = "checkTimingEvents" => c.DeviceTiming
    /\ Flushes(c, kind) =>
          \A i \in DOMAIN s : s[i] \in Recording =>
              \E j \in DOMAIN s : i < j /\ s[j] = "flushBuffering"

\* A thread is numbered before its records.
CallsAreOrdered ==
    \A t \in Threads :
        /\ Ordered(call[t].todo, config, call[t].kind)
        /\ ~Idle(t) /\ Head(call[t].todo) \in RecordKinds => t \in numbered

\* The number of a call is its own.
NumbersAreUsed ==
    /\ \A t \in Threads : call[t].number <= calls
    /\ \A t, u \in Threads : call[t].number = call[u].number => t = u \/ call[t].number = 0
    /\ \A i \in DOMAIN log : log[i] \in Records => log[i].call <= calls
    /\ \A node \in nodes : node.call <= calls
    /\ \A q \in queues : q <= calls

NameOf(r) == IF r.track \in Threads THEN ThreadName(r.track) ELSE QueueName(r.track)

\* Descriptions are in the file once, and the layer knows which are.
NamesAreWritten ==
    /\ \A t \in Threads : t \in numbered <=> Has(log, {ThreadName(t)})
    /\ \A q \in 1 .. MaxCalls : q \in queues <=> Has(log, {QueueName(q)})
    /\ \A d \in Descriptions : Once(log, {d})
    /\ \A t \in Threads : call[t].number \in queues => Idle(t)
    /\ \A node \in nodes : node.queue \in queues
    /\ \A i \in DOMAIN log : log[i] \in Records =>
          \E j \in DOMAIN log : j < i /\ log[j] = NameOf(log[i])

\* The records of a call, and a step of it that is still to come.
Of(kind, n) == {r \in Records : r.kind = kind /\ r.call = n}
Pending(step, n) == \E t \in Threads : call[t].number = n /\ Has(call[t].todo, {step})
HasNode(n) == \E node \in nodes : node.call = n

RecordsAreApart ==
    \A n \in 1 .. MaxCalls :
        /\ Once(log, Of("callLoggingId", n)) /\ Once(log, Of("deviceTiming", n))
        /\ Pending("callLoggingId", n) => ~Has(log, Of("callLoggingId", n))
        /\ Pending("addTimingEvent", n) => ~HasNode(n) /\ ~Has(log, Of("deviceTiming", n))
        /\ HasNode(n) => ~Has(log, Of("deviceTiming", n))
        /\ \A node, other \in nodes : node.call = n /\ other.call = n => node = other
        /\ config.CallLogging /\ (HasNode(n) \/ Has(log, Of("deviceTiming", n))) =>
              Has(log, Of("callLoggingId", n)) \/ Pending("callLoggingId", n)

\* What a blocking call of t has flushed.
Secured(t) ==
    \A i \in DOMAIN log : log[i] \in Records /\ log[i].by = t =>
        i <= durable \/ log[i].kind = "flushOverhead"

FlushedAreSecured ==
    /\ \A t \in Threads :
          Flushes(config, call[t].kind) /\ ~Has(call[t].todo, {"flushBuffering"}) => Secured(t)
    /\ ~config.CallLogging /\ ~config.DeviceTiming => ~Has(log, Records)

-----------------------------------------------------------------------------
(* The handlers.                                                             *)

LEMMA Indices ==
  ASSUME NEW S, NEW s \in Seq(S), NEW u \in Seq(S)
  PROVE  /\ s \o u \in Seq(S) /\ Len(s \o u) = Len(s) + Len(u)
         /\ Len(s) \in Nat /\ Len(u) \in Nat
         /\ DOMAIN s = 1 .. Len(s) /\ DOMAIN u = 1 .. Len(u)
         /\ DOMAIN (s \o u) = 1 .. Len(s) + Len(u)
         /\ \A i \in DOMAIN s : i \in DOMAIN (s \o u) /\ (s \o u)[i] = s[i]
         /\ \A i \in DOMAIN u : Len(s) + i \in DOMAIN (s \o u) /\ (s \o u)[Len(s) + i] = u[i]
         /\ \A i \in DOMAIN (s \o u) :
               i \in DOMAIN s \/ (~(i \in DOMAIN s) /\ i - Len(s) \in DOMAIN u
                                  /\ (s \o u)[i] = u[i - Len(s)])
  <1> DEFINE w == s \o u
  <1>1. /\ w \in Seq(S) /\ Len(w) = Len(s) + Len(u) /\ Len(s) \in Nat /\ Len(u) \in Nat
        /\ DOMAIN s = 1 .. Len(s) /\ DOMAIN u = 1 .. Len(u)
        /\ \A i \in 1 .. Len(s) + Len(u) : w[i] = IF i <= Len(s) THEN s[i] ELSE u[i - Len(s)]
    BY ConcatProperties, LenProperties
  <1>2. DOMAIN w = 1 .. Len(w)
    BY <1>1, LenProperties
  <1> HIDE DEF w
  <1>3. \A i \in DOMAIN s : i \in DOMAIN w /\ w[i] = s[i]
    BY <1>1, <1>2
  <1>4. \A i \in DOMAIN u : Len(s) + i \in DOMAIN w /\ w[Len(s) + i] = u[i]
    <2> TAKE i \in DOMAIN u
    <2>1. /\ Len(s) + i \in 1 .. Len(s) + Len(u) /\ ~(Len(s) + i <= Len(s))
          /\ (Len(s) + i) - Len(s) = i
      BY <1>1
    <2> QED BY <1>1, <1>2, <2>1
  <1>5. \A i \in DOMAIN w :
            i \in DOMAIN s \/ (~(i \in DOMAIN s) /\ i - Len(s) \in DOMAIN u
                               /\ w[i] = u[i - Len(s)])
    <2> TAKE i \in DOMAIN w
    <2>1. CASE i <= Len(s)
      BY <1>1, <1>2, <2>1
    <2>2. CASE ~(i <= Len(s))
      <3>1. i \in 1 .. Len(s) + Len(u) /\ i \notin 1 .. Len(s) /\ i - Len(s) \in 1 .. Len(u)
        BY <1>1, <1>2, <2>2
      <3> QED BY <1>1, <2>2, <3>1
    <2> QED BY <2>1, <2>2
  <1> QED BY <1>1, <1>2, <1>3, <1>4, <1>5 DEF w

\* What is in the parts is in the whole, and no more.
LEMMA HasConcat ==
  ASSUME NEW S, NEW s \in Seq(S), NEW u \in Seq(S), NEW V
  PROVE  /\ Has(s \o u, V) <=> Has(s, V) \/ Has(u, V)
         /\ Once(s, V) /\ ~Has(u, V) => Once(s \o u, V)
         /\ ~Has(s, V) /\ Once(u, V) => Once(s \o u, V)
  <1>0. PICK w : w = s \o u
    OBVIOUS
  <1>1. /\ \A i \in DOMAIN s : i \in DOMAIN w /\ w[i] = s[i]
        /\ \A i \in DOMAIN u : Len(s) + i \in DOMAIN w /\ w[Len(s) + i] = u[i]
        /\ \A i \in DOMAIN w :
               i \in DOMAIN s \/ (~(i \in DOMAIN s) /\ i - Len(s) \in DOMAIN u
                                  /\ w[i] = u[i - Len(s)])
        /\ DOMAIN w \subseteq Nat /\ Len(s) \in Nat
    BY <1>0, Indices
  <1>2. Has(w, V) <=> Has(s, V) \/ Has(u, V)
    BY <1>1 DEF Has
  <1>3. Once(s, V) /\ ~Has(u, V) => Once(w, V)
    BY <1>1 DEF Has, Once
  <1>4. ~Has(s, V) /\ Once(u, V) => Once(w, V)
    <2> SUFFICES ASSUME ~Has(s, V), Once(u, V), NEW i \in DOMAIN w, NEW j \in DOMAIN w,
                        w[i] \in V, w[j] \in V
                 PROVE  i = j
      BY DEF Once
    <2>1. i \notin DOMAIN s /\ j \notin DOMAIN s
      BY <1>1 DEF Has
    <2>2. i - Len(s) = j - Len(s)
      BY <1>1, <2>1 DEF Once
    <2> QED BY <1>1, <2>2
  <1> QED BY <1>0, <1>2, <1>3, <1>4

\* The same for one step.
LEMMA HasJoined ==
  ASSUME NEW s \in Seq(Steps), NEW u \in Seq(Steps), NEW x
  PROVE  /\ Has(s \o u, {x}) <=> Has(s, {x}) \/ Has(u, {x})
         /\ Once(s, {x}) /\ ~Has(u, {x}) => Once(s \o u, {x})
         /\ ~Has(s, {x}) /\ Once(u, {x}) => Once(s \o u, {x})
  <1> DEFINE V == {x}
  <1>1. /\ Has(s \o u, V) <=> Has(s, V) \/ Has(u, V)
        /\ Once(s, V) /\ ~Has(u, V) => Once(s \o u, V)
        /\ ~Has(s, V) /\ Once(u, V) => Once(s \o u, V)
    <2> HIDE DEF V
    <2> QED BY HasConcat
  <1> QED BY <1>1

\* The parts of Ordered.
Introduced(s) ==
    \A i \in DOMAIN s : s[i] \in RecordKinds =>
        i - 1 \in DOMAIN s /\ s[i - 1] = "getThreadNumber"
AtTheEnd(s)   == \A i \in DOMAIN s : s[i] = "chromeRegisterCommandQueue" => i = Len(s)
AtTheStart(s) == \A i \in DOMAIN s : s[i] = "addTimingEvent" => i = 1
Allowed(s, c) ==
    \A i \in DOMAIN s : /\ s[i] \in RecordKinds => c.CallLogging /\ s[i] # "deviceTiming"
                        /\ s[i] = "checkTimingEvents" => c.DeviceTiming

LEMMA PartsConcat ==
  ASSUME NEW S, NEW s \in Seq(S), NEW u \in Seq(S), NEW c
  PROVE  /\ Introduced(s) /\ Introduced(u) => Introduced(s \o u)
         /\ ~Has(s, {"chromeRegisterCommandQueue"}) /\ AtTheEnd(u) => AtTheEnd(s \o u)
         /\ AtTheStart(s) /\ ~Has(u, {"addTimingEvent"}) => AtTheStart(s \o u)
         /\ Allowed(s, c) /\ Allowed(u, c) => Allowed(s \o u, c)
  <1>0. PICK w : w = s \o u
    OBVIOUS
  <1>1. /\ \A i \in DOMAIN s : i \in DOMAIN w /\ w[i] = s[i]
        /\ \A i \in DOMAIN u : Len(s) + i \in DOMAIN w /\ w[Len(s) + i] = u[i]
        /\ \A i \in DOMAIN w :
               i \in DOMAIN s \/ (~(i \in DOMAIN s) /\ i - Len(s) \in DOMAIN u
                                  /\ w[i] = u[i - Len(s)])
        /\ DOMAIN w \subseteq Nat /\ Len(s) \in Nat /\ Len(w) = Len(s) + Len(u)
        /\ Len(u) \in Nat
    BY <1>0, Indices
  <1>2. Introduced(s) /\ Introduced(u) => Introduced(w)
    <2> SUFFICES ASSUME Introduced(s), Introduced(u), NEW i \in DOMAIN w, w[i] \in RecordKinds
                 PROVE  i - 1 \in DOMAIN w /\ w[i - 1] = "getThreadNumber"
      BY DEF Introduced
    <2>1. CASE i \in DOMAIN s
      BY <1>1, <2>1 DEF Introduced
    <2>2. CASE i \notin DOMAIN s
      <3>1. i - Len(s) \in DOMAIN u /\ u[i - Len(s)] \in RecordKinds
        BY <1>1, <2>2
      <3>2. (i - Len(s)) - 1 \in DOMAIN u /\ u[(i - Len(s)) - 1] = "getThreadNumber"
        BY <3>1 DEF Introduced
      <3>3. Len(s) + ((i - Len(s)) - 1) = i - 1
        BY <1>1
      <3> QED BY <1>1, <3>2, <3>3
    <2> QED BY <2>1, <2>2
  <1>3. ~Has(s, {"chromeRegisterCommandQueue"}) /\ AtTheEnd(u) => AtTheEnd(w)
    <2> SUFFICES ASSUME ~Has(s, {"chromeRegisterCommandQueue"}), AtTheEnd(u),
                        NEW i \in DOMAIN w, w[i] = "chromeRegisterCommandQueue"
                 PROVE  i = Len(w)
      BY DEF AtTheEnd
    <2>1. i \notin DOMAIN s
      BY <1>1 DEF Has
    <2>2. i - Len(s) = Len(u)
      BY <1>1, <2>1 DEF AtTheEnd
    <2> QED BY <1>1, <2>2
  <1>4. AtTheStart(s) /\ ~Has(u, {"addTimingEvent"}) => AtTheStart(w)
    BY <1>1 DEF AtTheStart, Has
  <1>5. Allowed(s, c) /\ Allowed(u, c) => Allowed(w, c)
    BY <1>1 DEF Allowed
  <1> QED BY <1>0, <1>2, <1>3, <1>4, <1>5

\* chromeCallLoggingExit for a kind of record.
Exits(s, c, r) ==
    /\ s \in Seq(Steps)
    /\ \A i \in DOMAIN s : s[i] \in {"getThreadNumber", r, "flushFile"} /\ c.CallLogging
    /\ Introduced(s)
    /\ Once(s, {r})
    /\ c.CallLogging => Has(s, {r})

LEMMA LiteralExits ==
  ASSUME NEW c, NEW r \in RecordKinds
  PROVE  /\ ~c.CallLogging => Exits(<<>>, c, r)
         /\ c.CallLogging => /\ Exits(<<"getThreadNumber", r>>, c, r)
                             /\ Exits(<<"getThreadNumber", r, "flushFile">>, c, r)
  <1>1. r # "getThreadNumber" /\ r # "flushFile" /\ "getThreadNumber" \notin RecordKinds
        /\ "flushFile" \notin RecordKinds
        /\ r \in Steps /\ "getThreadNumber" \in Steps /\ "flushFile" \in Steps
    BY DEF RecordKinds, Steps
  <1>2. ~c.CallLogging => Exits(<<>>, c, r)
    <2>1. <<>> \in Seq(Steps) /\ DOMAIN <<>> = {}
      OBVIOUS
    <2> QED BY <2>1 DEF Exits, Introduced, Once
  <1>3. ASSUME c.CallLogging PROVE Exits(<<"getThreadNumber", r>>, c, r)
    <2> DEFINE s == <<"getThreadNumber", r>>
    <2>1. /\ s \in Seq(Steps) /\ DOMAIN s = {1, 2} /\ s[1] = "getThreadNumber" /\ s[2] = r
      BY <1>1
    <2> HIDE DEF s
    <2>2. Introduced(s) /\ Once(s, {r}) /\ Has(s, {r})
      BY <1>1, <2>1 DEF Introduced, Once, Has
    <2> QED BY <1>3, <2>1, <2>2 DEF Exits, s
  <1>4. ASSUME c.CallLogging PROVE Exits(<<"getThreadNumber", r, "flushFile">>, c, r)
    <2> DEFINE s == <<"getThreadNumber", r, "flushFile">>
    <2>1. /\ s \in Seq(Steps) /\ DOMAIN s = {1, 2, 3} /\ s[1] = "getThreadNumber" /\ s[2] = r
          /\ s[3] = "flushFile"
      BY <1>1
    <2> HIDE DEF s
    <2>2. Introduced(s) /\ Once(s, {r}) /\ Has(s, {r})
      BY <1>1, <2>1 DEF Introduced, Once, Has
    <2> QED BY <1>4, <2>1, <2>2 DEF Exits, s
  <1> QED BY <1>2, <1>3, <1>4

LEMMA ExitExits ==
  ASSUME NEW c \in Configs, NEW r \in RecordKinds
  PROVE  Exits(chromeCallLoggingExit(c, r), c, r)
  <1>1. /\ <<"getThreadNumber", r>> \o <<>> = <<"getThreadNumber", r>>
        /\ <<"getThreadNumber", r>> \o <<"flushFile">> = <<"getThreadNumber", r, "flushFile">>
    <2> DEFINE s == <<"getThreadNumber", r>>
    <2>1. s \in Seq(Steps) /\ "flushFile" \in Steps
      BY DEF Steps
    <2>2. Append(s, "flushFile") = <<"getThreadNumber", r, "flushFile">>
      <3> DEFINE w == <<"getThreadNumber", r, "flushFile">>
      <3>1. /\ w \in Seq(Steps) /\ Len(w) = 3 /\ w[1] = "getThreadNumber" /\ w[2] = r
            /\ w[3] = "flushFile"
        BY DEF Steps
      <3>2. Len(s) = 2 /\ s[1] = "getThreadNumber" /\ s[2] = r
        OBVIOUS
      <3> HIDE DEF s, w
      <3>3. /\ Append(s, "flushFile") \in Seq(Steps)
            /\ Len(Append(s, "flushFile")) = Len(s) + 1
            /\ \A i \in 1 .. Len(s) : Append(s, "flushFile")[i] = s[i]
            /\ Append(s, "flushFile")[Len(s) + 1] = "flushFile"
        BY <2>1, AppendProperties
      <3>4. \A i \in 1 .. 3 : Append(s, "flushFile")[i] = w[i]
        <4> TAKE i \in 1 .. 3
        <4>1. i = 1 \/ i = 2 \/ i = 3
          OBVIOUS
        <4>2. 1 \in 1 .. Len(s) /\ 2 \in 1 .. Len(s) /\ Len(s) + 1 = 3
          BY <3>2
        <4> QED BY <3>1, <3>2, <3>3, <4>1, <4>2
      <3>5. Append(s, "flushFile") = w
        BY <3>1, <3>2, <3>3, <3>4, SeqEqual
      <3> QED BY <3>5 DEF w
    <2> HIDE DEF s
    <2>3. s \o <<>> = s /\ s \o <<"flushFile">> = Append(s, "flushFile")
      BY <2>1, ConcatEmptySeq, AppendIsConcat
    <2> QED BY <2>2, <2>3 DEF s
  <1>2. CASE ~c.CallLogging
    BY <1>2, LiteralExits DEF chromeCallLoggingExit, Only
  <1>3. CASE c.CallLogging /\ c.FlushFiles
    BY <1>1, <1>3, LiteralExits DEF chromeCallLoggingExit, Only
  <1>4. CASE c.CallLogging /\ ~c.FlushFiles
    BY <1>1, <1>4, LiteralExits DEF chromeCallLoggingExit, Only
  <1> QED BY <1>2, <1>3, <1>4

\* A part of a handler: its steps, and what precedes what in it.
Part(s, V, c) ==
    /\ s \in Seq(Steps) /\ \A i \in DOMAIN s : s[i] \in V
    /\ Introduced(s) /\ Allowed(s, c)

LEMMA PartConcat ==
  ASSUME NEW c, NEW s, NEW u, NEW V, NEW W, Part(s, V, c), Part(u, W, c)
  PROVE  Part(s \o u, V \cup W, c)
  <1>1. s \in Seq(Steps) /\ u \in Seq(Steps)
    BY DEF Part
  <1>2. s \o u \in Seq(Steps) /\ Introduced(s \o u) /\ Allowed(s \o u, c)
    BY <1>1, Indices, PartsConcat DEF Part
  <1>3. \A i \in DOMAIN (s \o u) : (s \o u)[i] \in V \cup W
    <2> TAKE i \in DOMAIN (s \o u)
    <2>1. CASE i \in DOMAIN s
      BY <1>1, <2>1, Indices DEF Part
    <2>2. CASE i \notin DOMAIN s
      <3>1. i - Len(s) \in DOMAIN u /\ (s \o u)[i] = u[i - Len(s)]
        BY <1>1, <2>2, Indices
      <3> QED BY <3>1 DEF Part
    <2> QED BY <2>1, <2>2
  <1> QED BY <1>2, <1>3 DEF Part

LEMMA ExitPart ==
  ASSUME NEW c \in Configs, NEW r \in RecordKinds, r # "deviceTiming"
  PROVE  /\ Part(chromeCallLoggingExit(c, r), {"getThreadNumber", r, "flushFile"}, c)
         /\ Part(ToolOverhead(c, r), {"getThreadNumber", r, "flushFile"}, c)
  <1> DEFINE V == {"getThreadNumber", r, "flushFile"}
  <1>1. Part(chromeCallLoggingExit(c, r), V, c)
    BY ExitExits DEF Exits, Part, Allowed, RecordKinds
  <1>2. Part(<<>>, V, c)
    <2>1. <<>> \in Seq(Steps) /\ DOMAIN <<>> = {}
      OBVIOUS
    <2> QED BY <2>1 DEF Part, Introduced, Allowed
  <1> QED BY <1>1, <1>2 DEF ToolOverhead, Only

LEMMA OneStepPart ==
  ASSUME NEW c, NEW step \in Steps, step \notin RecordKinds,
         step = "checkTimingEvents" => c.DeviceTiming
  PROVE  /\ Part(<<step>>, {step}, c) /\ Part(<<>>, {step}, c)
         /\ Has(<<step>>, {step}) /\ DOMAIN <<step>> = {1} /\ <<step>>[1] = step
         /\ Len(<<step>>) = 1 /\ DOMAIN <<>> = {} /\ <<step>> \in Seq(Steps)
  <1>1. <<>> \in Seq(Steps) /\ DOMAIN <<>> = {}
    OBVIOUS
  <1>2. /\ <<step>> \in Seq(Steps) /\ DOMAIN <<step>> = {1} /\ <<step>>[1] = step
        /\ Len(<<step>>) = 1
    OBVIOUS
  <1>3. Part(<<>>, {step}, c)
    BY <1>1 DEF Part, Introduced, Allowed
  <1>4. Part(<<step>>, {step}, c)
    BY <1>2 DEF Part, Introduced, Allowed
  <1> QED BY <1>1, <1>2, <1>3, <1>4 DEF Has

LEMMA PartHasNot ==
  ASSUME NEW c, NEW s, NEW V, NEW x, Part(s, V, c), x \notin V
  PROVE  ~Has(s, {x}) /\ Once(s, {x})
  BY DEF Part, Has, Once

LEMMA HandlerOrdered ==
  ASSUME NEW c \in Configs, NEW kind \in Kinds
  PROVE  /\ Ordered(Handler(c, kind), c, kind)
         /\ Handler(c, kind) # <<>> => Head(Handler(c, kind)) \notin RecordKinds
         /\ Flushes(c, kind) /\ (c.CallLogging \/ c.DeviceTiming) =>
                Has(Handler(c, kind), {"flushBuffering"})
  <1> DEFINE V1 == {"addTimingEvent"}
             V2 == {"getThreadNumber", CallKind(kind), "flushFile"}
             V3 == {"checkTimingEvents"} \cup {"getThreadNumber", "scanOverhead", "flushFile"}
             V4 == {"flushBuffering"} \cup {"getThreadNumber", "flushOverhead", "flushFile"}
             V5 == {"chromeRegisterCommandQueue"}
  <1>0. PICK p1, p2, p3, p4, p5 :
            /\ p1 = Only(c.DeviceTiming /\ kind \in Enqueues, <<"addTimingEvent">>)
            /\ p2 = chromeCallLoggingExit(c, CallKind(kind))
            /\ p3 = Scan(c, kind) /\ p4 = Flush(c, kind)
            /\ p5 = Only(c.DeviceTiming /\ kind = "createQueue",
                         <<"chromeRegisterCommandQueue">>)
    OBVIOUS
  <1>1. CallKind(kind) \in RecordKinds /\ CallKind(kind) # "deviceTiming"
        /\ CallKind(kind) \in {"callLogging", "callLoggingId"}
        /\ (CallKind(kind) = "callLoggingId" <=> kind \in Enqueues)
    BY DEF CallKind, RecordKinds
  <1>2. Part(p1, V1, c)
    BY <1>0, OneStepPart DEF Only, Steps, RecordKinds
  <1>3. Part(p2, V2, c)
    BY <1>0, <1>1, ExitPart
  <1>4. Part(p3, V3, c)
    <2>1. CASE c.DeviceTiming /\ kind \in Blocking
      <3>1. p3 = <<"checkTimingEvents">> \o ToolOverhead(c, "scanOverhead")
        BY <1>0, <2>1 DEF Scan, Only
      <3>2. Part(ToolOverhead(c, "scanOverhead"),
                 {"getThreadNumber", "scanOverhead", "flushFile"}, c)
        BY ExitPart DEF RecordKinds
      <3>3. Part(<<"checkTimingEvents">>, {"checkTimingEvents"}, c)
        BY <2>1, OneStepPart DEF Steps, RecordKinds
      <3> QED BY <3>1, <3>2, <3>3, PartConcat
    <2>2. CASE ~(c.DeviceTiming /\ kind \in Blocking)
      <3>1. p3 = <<>>
        BY <1>0, <2>2 DEF Scan, Only
      <3> QED BY <3>1, OneStepPart DEF Part, Introduced, Allowed, Steps, RecordKinds
    <2> QED BY <2>1, <2>2
  <1>5. /\ Part(p4, V4, c)
        /\ p4 # <<>> => /\ Has(p4, {"flushBuffering"})
                        /\ 1 \in DOMAIN p4 /\ p4[1] = "flushBuffering"
    <2> DEFINE o == ToolOverhead(c, "flushOverhead")
    <2>1. CASE p4 # <<>>
      <3>1. p4 = <<"flushBuffering">> \o o
        BY <1>0, <2>1 DEF Flush, Only
      <3>2. Part(o, {"getThreadNumber", "flushOverhead", "flushFile"}, c)
        BY ExitPart DEF RecordKinds
      <3> HIDE DEF o
      <3>3. /\ Part(<<"flushBuffering">>, {"flushBuffering"}, c)
            /\ <<"flushBuffering">> \in Seq(Steps)
            /\ DOMAIN <<"flushBuffering">> = {1} /\ <<"flushBuffering">>[1] = "flushBuffering"
        BY OneStepPart DEF Steps, RecordKinds
      <3>4. Part(p4, V4, c)
        BY <3>1, <3>2, <3>3, PartConcat
      <3>5. 1 \in DOMAIN p4 /\ p4[1] = "flushBuffering"
        BY <3>1, <3>2, <3>3, Indices DEF Part
      <3> QED BY <3>4, <3>5 DEF Has
    <2>2. CASE p4 = <<>>
      BY <2>2, OneStepPart DEF Part, Introduced, Allowed, Steps, RecordKinds
    <2> QED BY <2>1, <2>2
  <1>6. /\ p4 = <<>> /\ Flushes(c, kind) => ~c.CallLogging /\ ~c.DeviceTiming
        /\ Flushes(c, kind) => p5 = <<>>
    <2>1. <<"flushBuffering">> \o ToolOverhead(c, "flushOverhead") # <<>>
      <3>1. ToolOverhead(c, "flushOverhead") \in Seq(Steps)
        BY ExitPart DEF RecordKinds, Part
      <3>2. <<"flushBuffering">> \in Seq(Steps) /\ DOMAIN <<"flushBuffering">> = {1}
        BY OneStepPart DEF Steps, RecordKinds
      <3>3. 1 \in DOMAIN (<<"flushBuffering">> \o ToolOverhead(c, "flushOverhead"))
        BY <3>1, <3>2, Indices
      <3> QED BY <3>3
    <2> QED BY <1>0, <2>1 DEF Flushes, Flush, Only, Blocking
  <1>7. Part(p5, V5, c) /\ AtTheEnd(p5)
    <2>1. CASE p5 = <<>>
      BY <2>1, OneStepPart DEF AtTheEnd, Steps, RecordKinds
    <2>2. CASE p5 = <<"chromeRegisterCommandQueue">>
      BY <2>2, OneStepPart DEF AtTheEnd, Steps, RecordKinds
    <2> QED BY <1>0, <2>1, <2>2 DEF Only
  <1>8. PICK w2, w3, w4, g :
            w2 = p1 \o p2 /\ w3 = w2 \o p3 /\ w4 = w3 \o p4 /\ g = w4 \o p5 /\ g = Handler(c, kind)
    BY <1>0 DEF Handler
  <1>9. /\ Part(w2, V1 \cup V2, c)
        /\ Part(w3, (V1 \cup V2) \cup V3, c)
        /\ Part(w4, ((V1 \cup V2) \cup V3) \cup V4, c)
        /\ Part(g, (((V1 \cup V2) \cup V3) \cup V4) \cup V5, c)
    <2> HIDE DEF V1, V2, V3, V4, V5
    <2>1. Part(w2, V1 \cup V2, c)
      BY <1>2, <1>3, <1>8, PartConcat
    <2>2. Part(w3, (V1 \cup V2) \cup V3, c)
      BY <1>4, <1>8, <2>1, PartConcat
    <2>3. Part(w4, ((V1 \cup V2) \cup V3) \cup V4, c)
      BY <1>5, <1>8, <2>2, PartConcat
    <2> QED BY <1>7, <1>8, <2>1, <2>2, <2>3, PartConcat
  <1>10. /\ p1 \in Seq(Steps) /\ p2 \in Seq(Steps) /\ p3 \in Seq(Steps)
         /\ p4 \in Seq(Steps) /\ p5 \in Seq(Steps)
         /\ w2 \in Seq(Steps) /\ w3 \in Seq(Steps) /\ w4 \in Seq(Steps)
    BY <1>2, <1>3, <1>4, <1>5, <1>7, <1>9 DEF Part
  <1>10a. g = w4 \o p5 /\ w4 \in Seq(Steps) /\ p5 \in Seq(Steps)
    BY <1>8, <1>10
  <1>11. AtTheEnd(g)
    <2>1. "chromeRegisterCommandQueue" \notin ((V1 \cup V2) \cup V3) \cup V4
      BY <1>1
    <2>2. ~Has(w4, {"chromeRegisterCommandQueue"})
      BY <1>9, <2>1, PartHasNot
    <2> QED BY <1>7, <1>8, <1>10, <2>2, PartsConcat
  <1>12. AtTheStart(g) /\ (Has(g, {"addTimingEvent"}) => kind \in Enqueues)
    <2>1. AtTheStart(p1) /\ (Has(p1, {"addTimingEvent"}) => kind \in Enqueues)
      BY <1>0, OneStepPart DEF Only, AtTheStart, Has, Steps, RecordKinds
    <2>2. /\ "addTimingEvent" \notin V2 /\ "addTimingEvent" \notin V3
          /\ "addTimingEvent" \notin V4 /\ "addTimingEvent" \notin V5
      BY <1>1
    <2>3. /\ ~Has(p2, {"addTimingEvent"}) /\ ~Has(p3, {"addTimingEvent"})
          /\ ~Has(p4, {"addTimingEvent"}) /\ ~Has(p5, {"addTimingEvent"})
      BY <1>3, <1>4, <1>5, <1>7, <2>2, PartHasNot
    <2>4. AtTheStart(w2) /\ AtTheStart(w3) /\ AtTheStart(w4) /\ AtTheStart(g)
      <3>1. AtTheStart(w2)
        BY <1>8, <1>10, <2>1, <2>3, PartsConcat
      <3>2. AtTheStart(w3)
        BY <1>8, <1>10, <2>3, <3>1, PartsConcat
      <3>3. AtTheStart(w4)
        BY <1>8, <1>10, <2>3, <3>2, PartsConcat
      <3> QED BY <1>8, <1>10, <2>3, <3>1, <3>2, <3>3, PartsConcat
    <2>5. Has(g, {"addTimingEvent"}) => Has(p1, {"addTimingEvent"})
      <3>1. Has(w2, {"addTimingEvent"}) => Has(p1, {"addTimingEvent"})
        BY <1>8, <1>10, <2>3, HasJoined
      <3>2. Has(w3, {"addTimingEvent"}) => Has(w2, {"addTimingEvent"})
        BY <1>8, <1>10, <2>3, HasJoined
      <3>3. Has(w4, {"addTimingEvent"}) => Has(w3, {"addTimingEvent"})
        BY <1>8, <1>10, <2>3, HasJoined
      <3>4. Has(g, {"addTimingEvent"}) => Has(w4, {"addTimingEvent"})
        BY <1>10a, <2>3, HasJoined
      <3> QED BY <3>1, <3>2, <3>3, <3>4
    <2> QED BY <2>1, <2>4, <2>5
  <1>13. /\ Once(g, {"callLoggingId"})
         /\ c.CallLogging /\ kind \in Enqueues => Has(g, {"callLoggingId"})
    <2>1. Once(p2, {"callLoggingId"})
      <3>1. CASE kind \in Enqueues
        BY <1>0, <1>1, <3>1, ExitExits DEF Exits
      <3>2. CASE kind \notin Enqueues
        BY <1>1, <1>3, <3>2, PartHasNot
      <3> QED BY <3>1, <3>2
    <2>2. c.CallLogging /\ kind \in Enqueues => Has(p2, {"callLoggingId"})
      BY <1>0, <1>1, ExitExits DEF Exits
    <2>3. /\ ~Has(p1, {"callLoggingId"}) /\ ~Has(p3, {"callLoggingId"})
          /\ ~Has(p4, {"callLoggingId"}) /\ ~Has(p5, {"callLoggingId"})
      BY <1>2, <1>4, <1>5, <1>7, PartHasNot
    <2>4. /\ Once(w2, {"callLoggingId"})
          /\ Has(p2, {"callLoggingId"}) => Has(w2, {"callLoggingId"})
      BY <1>8, <1>10, <2>1, <2>3, HasJoined
    <2>5. /\ Once(w3, {"callLoggingId"})
          /\ Has(w2, {"callLoggingId"}) => Has(w3, {"callLoggingId"})
      BY <1>8, <1>10, <2>3, <2>4, HasJoined
    <2>6. /\ Once(w4, {"callLoggingId"})
          /\ Has(w3, {"callLoggingId"}) => Has(w4, {"callLoggingId"})
      BY <1>8, <1>10, <2>3, <2>5, HasJoined
    <2>7. Once(g, {"callLoggingId"})
      BY <1>10a, <2>3, <2>6, HasJoined
    <2>8. Has(w4, {"callLoggingId"}) => Has(g, {"callLoggingId"})
      BY <1>10a, HasJoined
    <2> QED BY <2>2, <2>4, <2>5, <2>6, <2>7, <2>8
  <1>14. ASSUME Flushes(c, kind), p4 # <<>>
         PROVE  /\ Has(g, {"flushBuffering"})
                /\ \A i \in DOMAIN g : g[i] \in Recording =>
                       \E j \in DOMAIN g : i < j /\ g[j] = "flushBuffering"
    <2>2. g = w3 \o p4
      BY <1>6, <1>8, <1>10, <1>14, ConcatEmptySeq
    <2>4. Len(w3) + 1 \in DOMAIN g /\ g[Len(w3) + 1] = "flushBuffering"
      BY <1>5, <1>14, <2>2, <1>10, Indices
    <2>5. ASSUME NEW i \in DOMAIN g, g[i] \in Recording
          PROVE  i < Len(w3) + 1
      <3>1. CASE i \in DOMAIN w3
        BY <1>10, <3>1, Indices
      <3>2. CASE i \notin DOMAIN w3
        <4>1. g[i] \in V4
          BY <1>5, <2>2, <1>10, <3>2, Indices DEF Part
        <4> QED BY <2>5, <4>1 DEF Recording
      <3> QED BY <3>1, <3>2
    <2> QED BY <2>4, <2>5 DEF Has
  <1>15. Flushes(c, kind) =>
            \A i \in DOMAIN g : g[i] \in Recording =>
                \E j \in DOMAIN g : i < j /\ g[j] = "flushBuffering"
    <2>1. CASE p4 # <<>>
      BY <1>14, <2>1
    <2>2. CASE p4 = <<>>
      BY <1>6, <1>9, <2>2 DEF Part, Allowed, Recording, RecordKinds
    <2> QED BY <2>1, <2>2
  <1>16. /\ \A i \in DOMAIN g \ {1} : g[i] \in RecordKinds => g[i - 1] = "getThreadNumber"
         /\ g # <<>> => Head(g) \notin RecordKinds
    <2>1. Introduced(g) /\ g \in Seq(Steps)
      BY <1>9 DEF Part
    <2>2. g # <<>> => Head(g) = g[1] /\ 1 \in DOMAIN g /\ 0 \notin DOMAIN g
      BY <2>1, LenProperties, EmptySeq
    <2> QED BY <2>1, <2>2 DEF Introduced
  <1>17. Ordered(g, c, kind)
    BY <1>9, <1>11, <1>12, <1>13, <1>15, <1>16
       DEF Ordered, AtTheEnd, AtTheStart, Part, Allowed, Has
  <1> QED BY <1>6, <1>8, <1>14, <1>16, <1>17

-----------------------------------------------------------------------------
(* What a step leaves of a handler. *)

LEMMA TailIndices ==
  ASSUME NEW S, NEW s \in Seq(S), s # <<>>
  PROVE  /\ Tail(s) \in Seq(S) /\ Len(Tail(s)) = Len(s) - 1 /\ Len(s) \in Nat \ {0}
         /\ DOMAIN s = 1 .. Len(s) /\ DOMAIN Tail(s) = 1 .. Len(s) - 1
         /\ 1 \in DOMAIN s /\ Head(s) = s[1]
         /\ \A i \in DOMAIN Tail(s) : i + 1 \in DOMAIN s /\ Tail(s)[i] = s[i + 1]
         /\ \A i \in DOMAIN s \ {1} : i - 1 \in DOMAIN Tail(s) /\ Tail(s)[i - 1] = s[i]
  <1>0. PICK u : u = Tail(s)
    OBVIOUS
  <1>1. /\ u \in Seq(S) /\ Len(u) = Len(s) - 1 /\ Len(s) \in Nat \ {0}
        /\ \A i \in 1 .. Len(u) : u[i] = s[i + 1]
    BY <1>0, HeadTailProperties, LenProperties, EmptySeq
  <1>2. DOMAIN s = 1 .. Len(s) /\ DOMAIN u = 1 .. Len(s) - 1
    BY <1>1, LenProperties
  <1>3. \A i \in DOMAIN u : i + 1 \in DOMAIN s /\ u[i] = s[i + 1]
    BY <1>1, <1>2
  <1>4. \A i \in DOMAIN s \ {1} : i - 1 \in DOMAIN u /\ u[i - 1] = s[i]
    <2> TAKE i \in DOMAIN s \ {1}
    <2>1. i - 1 \in 1 .. Len(u) /\ (i - 1) + 1 = i
      BY <1>1, <1>2
    <2> QED BY <1>1, <1>2, <2>1
  <1>5. 1 \in DOMAIN s /\ Head(s) = s[1]
    BY <1>1, <1>2, HeadTailProperties
  <1> QED BY <1>0, <1>1, <1>2, <1>3, <1>4, <1>5

LEMMA HasTail ==
  ASSUME NEW s \in Seq(Steps), s # <<>>, NEW x
  PROVE  /\ Has(Tail(s), {x}) => Has(s, {x})
         /\ Has(s, {x}) /\ Head(s) # x => Has(Tail(s), {x})
         /\ Once(s, {x}) /\ Head(s) = x => ~Has(Tail(s), {x})
         /\ Head(s) = x => Has(s, {x})
  <1>0. PICK u : u = Tail(s)
    OBVIOUS
  <1>1. /\ 1 \in DOMAIN s /\ Head(s) = s[1] /\ DOMAIN u \subseteq Nat \ {0}
        /\ \A i \in DOMAIN u : i + 1 \in DOMAIN s /\ u[i] = s[i + 1]
        /\ \A i \in DOMAIN s \ {1} : i - 1 \in DOMAIN u /\ u[i - 1] = s[i]
    BY <1>0, TailIndices
  <1>2. Has(u, {x}) => Has(s, {x})
    BY <1>1 DEF Has
  <1>3. Has(s, {x}) /\ Head(s) # x => Has(u, {x})
    BY <1>1 DEF Has
  <1>4. Once(s, {x}) /\ Head(s) = x => ~Has(u, {x})
    <2> SUFFICES ASSUME Once(s, {x}), Head(s) = x, NEW i \in DOMAIN u, u[i] = x
                 PROVE  FALSE
      BY DEF Has
    <2>1. i + 1 = 1
      BY <1>1 DEF Once
    <2> QED BY <1>1, <2>1
  <1>5. Head(s) = x => Has(s, {x})
    BY <1>1 DEF Has
  <1> QED BY <1>0, <1>2, <1>3, <1>4, <1>5

LEMMA TailOrdered ==
  ASSUME NEW s \in Seq(Steps), s # <<>>, NEW c, NEW kind, Ordered(s, c, kind)
  PROVE  /\ Ordered(Tail(s), c, kind)
         /\ Tail(s) # <<>> /\ Head(Tail(s)) \in RecordKinds => Head(s) = "getThreadNumber"
         /\ Head(s) = "chromeRegisterCommandQueue" => Tail(s) = <<>>
         /\ ~Has(Tail(s), {"addTimingEvent"})
  <1>0. PICK u : u = Tail(s)
    OBVIOUS
  <1>1. /\ u \in Seq(Steps) /\ Len(u) = Len(s) - 1 /\ Len(s) \in Nat \ {0}
        /\ DOMAIN s = 1 .. Len(s) /\ DOMAIN u = 1 .. Len(s) - 1
        /\ 1 \in DOMAIN s /\ Head(s) = s[1]
        /\ \A i \in DOMAIN u : i + 1 \in DOMAIN s /\ u[i] = s[i + 1]
        /\ \A i \in DOMAIN s \ {1} : i - 1 \in DOMAIN u /\ u[i - 1] = s[i]
    BY <1>0, TailIndices
  <1>2. \A i \in DOMAIN u \ {1} : u[i] \in RecordKinds => u[i - 1] = "getThreadNumber"
    <2> SUFFICES ASSUME NEW i \in DOMAIN u \ {1}, u[i] \in RecordKinds
                 PROVE  u[i - 1] = "getThreadNumber"
      OBVIOUS
    <2>1. i + 1 \in DOMAIN s \ {1} /\ (i + 1) - 1 = i /\ i \in DOMAIN s \ {1}
      BY <1>1
    <2>2. s[i] = "getThreadNumber"
      BY <1>1, <2>1 DEF Ordered
    <2> QED BY <1>1, <2>1, <2>2
  <1>3. \A i \in DOMAIN u : u[i] = "chromeRegisterCommandQueue" => i = Len(u)
    <2> SUFFICES ASSUME NEW i \in DOMAIN u, u[i] = "chromeRegisterCommandQueue"
                 PROVE  i = Len(u)
      OBVIOUS
    <2>1. i + 1 = Len(s)
      BY <1>1 DEF Ordered
    <2> QED BY <1>1, <2>1
  <1>4. \A i \in DOMAIN u : u[i] # "addTimingEvent"
    <2> SUFFICES ASSUME NEW i \in DOMAIN u, u[i] = "addTimingEvent"
                 PROVE  FALSE
      OBVIOUS
    <2>1. i + 1 = 1
      BY <1>1 DEF Ordered
    <2> QED BY <1>1, <2>1
  <1>5. Once(u, {"callLoggingId"})
    <2>0. Once(s, {"callLoggingId"})
      BY DEF Ordered
    <2> SUFFICES ASSUME NEW i \in DOMAIN u, NEW j \in DOMAIN u,
                        u[i] = "callLoggingId", u[j] = "callLoggingId"
                 PROVE  i = j
      BY DEF Once
    <2>1. i + 1 = j + 1
      BY <1>1, <2>0 DEF Once
    <2> QED BY <1>1, <2>1
  <1>6. \A i \in DOMAIN u : /\ u[i] \in RecordKinds => c.CallLogging /\ u[i] # "deviceTiming"
                            /\ u[i] = "checkTimingEvents" => c.DeviceTiming
    BY <1>1 DEF Ordered
  <1>7. Flushes(c, kind) =>
            \A i \in DOMAIN u : u[i] \in Recording =>
                \E j \in DOMAIN u : i < j /\ u[j] = "flushBuffering"
    <2> SUFFICES ASSUME Flushes(c, kind), NEW i \in DOMAIN u, u[i] \in Recording
                 PROVE  \E j \in DOMAIN u : i < j /\ u[j] = "flushBuffering"
      OBVIOUS
    <2>1. PICK j \in DOMAIN s : i + 1 < j /\ s[j] = "flushBuffering"
      BY <1>1 DEF Ordered
    <2>2. j - 1 \in DOMAIN u /\ i < j - 1 /\ u[j - 1] = "flushBuffering"
      BY <1>1, <2>1
    <2> QED BY <2>2
  <1>8. Ordered(u, c, kind)
    BY <1>2, <1>3, <1>4, <1>5, <1>6, <1>7 DEF Ordered
  <1>9. u # <<>> /\ Head(u) \in RecordKinds => Head(s) = "getThreadNumber"
    <2> SUFFICES ASSUME u # <<>>, Head(u) \in RecordKinds
                 PROVE  s[1] = "getThreadNumber"
      BY <1>1
    <2>1. 1 \in DOMAIN u /\ Head(u) = u[1]
      BY <1>1, TailIndices
    <2>2. 1 + 1 \in DOMAIN s \ {1} /\ s[1 + 1] \in RecordKinds /\ (1 + 1) - 1 = 1
      BY <1>1, <2>1
    <2> QED BY <2>2 DEF Ordered
  <1>10. Head(s) = "chromeRegisterCommandQueue" => u = <<>>
    <2> SUFFICES ASSUME s[1] = "chromeRegisterCommandQueue"
                 PROVE  u = <<>>
      BY <1>1
    <2>1. Len(u) = 0
      BY <1>1 DEF Ordered
    <2> QED BY <1>1, <2>1, EmptySeq
  <1> QED BY <1>0, <1>4, <1>8, <1>9, <1>10 DEF Has

-----------------------------------------------------------------------------
(* The log grows, at its end or in front of what is buffered. *)

Grown(l, m, k, x) ==
    /\ Len(l) \in Nat /\ k \in 1 .. Len(l) + 1
    /\ DOMAIN l = 1 .. Len(l) /\ DOMAIN m = 1 .. Len(l) + 1
    /\ m[k] = x
    /\ \A i \in DOMAIN l : IF i < k THEN m[i] = l[i] ELSE m[i + 1] = l[i]

LEMMA AppendGrows ==
  ASSUME NEW S, NEW l \in Seq(S), NEW x \in S
  PROVE  Grown(l, Append(l, x), Len(l) + 1, x)
  <1>1. PICK m : m = Append(l, x)
    OBVIOUS
  <1>2. /\ m \in Seq(S) /\ Len(m) = Len(l) + 1 /\ m[Len(l) + 1] = x
        /\ \A i \in 1 .. Len(l) : m[i] = l[i]
    BY <1>1, AppendProperties
  <1>3. DOMAIN l = 1 .. Len(l) /\ Len(l) \in Nat /\ DOMAIN m = 1 .. Len(m)
    BY <1>2, LenProperties
  <1> QED BY <1>1, <1>2, <1>3 DEF Grown

LEMMA InsertGrows ==
  ASSUME NEW S, NEW s \in Seq(S), NEW u \in Seq(S), NEW x \in S
  PROVE  Grown(s \o u, Append(s, x) \o u, Len(s) + 1, x)
  <1>1. PICK l, v, m : l = s \o u /\ v = Append(s, x) /\ m = v \o u
    OBVIOUS
  <1>2. /\ v \in Seq(S) /\ Len(v) = Len(s) + 1 /\ v[Len(s) + 1] = x
        /\ \A i \in 1 .. Len(s) : v[i] = s[i]
    BY <1>1, AppendProperties
  <1>3. /\ l \in Seq(S) /\ Len(l) = Len(s) + Len(u) /\ Len(s) \in Nat /\ Len(u) \in Nat
        /\ \A i \in 1 .. Len(s) + Len(u) : l[i] = IF i <= Len(s) THEN s[i] ELSE u[i - Len(s)]
    BY <1>1, ConcatProperties, LenProperties
  <1>4. /\ m \in Seq(S) /\ Len(m) = Len(v) + Len(u)
        /\ \A i \in 1 .. Len(v) + Len(u) : m[i] = IF i <= Len(v) THEN v[i] ELSE u[i - Len(v)]
    BY <1>1, <1>2, ConcatProperties, LenProperties
  <1>5. DOMAIN l = 1 .. Len(l) /\ DOMAIN m = 1 .. Len(l) + 1
    <2>1. DOMAIN l = 1 .. Len(l) /\ DOMAIN m = 1 .. Len(m)
      BY <1>3, <1>4, LenProperties
    <2>2. Len(m) = Len(l) + 1
      BY <1>2, <1>3, <1>4
    <2> QED BY <2>1, <2>2
  <1>6. m[Len(s) + 1] = x
    BY <1>2, <1>3, <1>4
  <1>7. ASSUME NEW i \in 1 .. Len(l)
        PROVE  IF i < Len(s) + 1 THEN m[i] = l[i] ELSE m[i + 1] = l[i]
    <2>1. CASE i < Len(s) + 1
      <3>1. i \in 1 .. Len(s) /\ i <= Len(v) /\ i \in 1 .. Len(v) + Len(u)
            /\ i \in 1 .. Len(s) + Len(u) /\ i <= Len(s)
        BY <1>2, <1>3, <2>1
      <3>2. m[i] = v[i] /\ l[i] = s[i]
        BY <1>3, <1>4, <3>1
      <3> QED BY <1>2, <2>1, <3>1, <3>2
    <2>2. CASE ~(i < Len(s) + 1)
      <3>1. /\ ~(i + 1 <= Len(v)) /\ i + 1 \in 1 .. Len(v) + Len(u) /\ ~(i <= Len(s))
            /\ i \in 1 .. Len(s) + Len(u) /\ (i + 1) - Len(v) = i - Len(s)
        BY <1>2, <1>3, <2>2
      <3>2. m[i + 1] = u[i - Len(s)] /\ l[i] = u[i - Len(s)]
        BY <1>3, <1>4, <3>1
      <3> QED BY <2>2, <3>2
    <2> QED BY <2>1, <2>2
  <1>8. Len(l) \in Nat /\ Len(s) + 1 \in 1 .. Len(l) + 1
    BY <1>3
  <1>9. Grown(l, m, Len(s) + 1, x)
    BY <1>5, <1>6, <1>7, <1>8 DEF Grown
  <1> QED BY <1>1, <1>9

\* Where what was there is now, and where what is there was.
LEMMA GrownPlaces ==
  ASSUME NEW l, NEW m, NEW k, NEW x, Grown(l, m, k, x)
  PROVE  /\ k \in DOMAIN m /\ m[k] = x
         /\ DOMAIN l \subseteq Nat \ {0} /\ DOMAIN m \subseteq Nat \ {0}
         /\ \A i \in DOMAIN l : IF i < k THEN i \in DOMAIN m /\ m[i] = l[i]
                                ELSE i + 1 \in DOMAIN m /\ m[i + 1] = l[i]
         /\ \A i \in DOMAIN m : \/ i = k
                                \/ i < k /\ i \in DOMAIN l /\ m[i] = l[i]
                                \/ i > k /\ i - 1 \in DOMAIN l /\ i - 1 >= k /\ m[i] = l[i - 1]
  <1>1. /\ Len(l) \in Nat /\ k \in 1 .. Len(l) + 1
        /\ DOMAIN l = 1 .. Len(l) /\ DOMAIN m = 1 .. Len(l) + 1 /\ m[k] = x
        /\ \A i \in 1 .. Len(l) : IF i < k THEN m[i] = l[i] ELSE m[i + 1] = l[i]
    BY DEF Grown
  <1>2. ASSUME NEW i \in DOMAIN m, i # k
        PROVE  \/ i < k /\ i \in DOMAIN l /\ m[i] = l[i]
               \/ i > k /\ i - 1 \in DOMAIN l /\ i - 1 >= k /\ m[i] = l[i - 1]
    <2>1. CASE i < k
      BY <1>1, <2>1
    <2>2. CASE i > k
      <3>1. i - 1 \in 1 .. Len(l) /\ i - 1 >= k /\ ~(i - 1 < k) /\ (i - 1) + 1 = i
        BY <1>1, <2>2
      <3> QED BY <1>1, <2>2, <3>1
    <2> QED BY <1>1, <1>2, <2>1, <2>2
  <1>3. \A i \in DOMAIN l : IF i < k THEN i \in DOMAIN m /\ m[i] = l[i]
                            ELSE i + 1 \in DOMAIN m /\ m[i + 1] = l[i]
    BY <1>1
  <1> QED BY <1>1, <1>2, <1>3

LEMMA GrownHas ==
  ASSUME NEW l, NEW m, NEW k, NEW x, Grown(l, m, k, x), NEW V
  PROVE  /\ Has(m, V) <=> Has(l, V) \/ x \in V
         /\ Once(l, V) /\ (x \in V => ~Has(l, V)) => Once(m, V)
  <1>1. /\ k \in DOMAIN m /\ m[k] = x
        /\ DOMAIN l \subseteq Nat \ {0} /\ DOMAIN m \subseteq Nat \ {0}
        /\ \A i \in DOMAIN l : IF i < k THEN i \in DOMAIN m /\ m[i] = l[i]
                               ELSE i + 1 \in DOMAIN m /\ m[i + 1] = l[i]
        /\ \A i \in DOMAIN m : \/ i = k
                               \/ i < k /\ i \in DOMAIN l /\ m[i] = l[i]
                               \/ i > k /\ i - 1 \in DOMAIN l /\ i - 1 >= k /\ m[i] = l[i - 1]
    BY GrownPlaces
  <1>2. Has(m, V) <=> Has(l, V) \/ x \in V
    BY <1>1 DEF Has
  <1>3. Once(l, V) /\ (x \in V => ~Has(l, V)) => Once(m, V)
    <2> SUFFICES ASSUME Once(l, V), x \in V => ~Has(l, V), NEW i \in DOMAIN m, NEW j \in DOMAIN m,
                        m[i] \in V, m[j] \in V
                 PROVE  i = j
      BY DEF Once
    <2>1. CASE x \in V
      <3>1. ASSUME NEW h \in DOMAIN m, m[h] \in V PROVE h = k
        BY <1>1, <2>1, <3>1 DEF Has
      <3> QED BY <3>1
    <2>2. CASE x \notin V
      <3>1. i # k /\ j # k
        BY <1>1, <2>2
      <3>2. /\ \/ i < k /\ i \in DOMAIN l /\ m[i] = l[i]
               \/ i > k /\ i - 1 \in DOMAIN l /\ i - 1 >= k /\ m[i] = l[i - 1]
            /\ \/ j < k /\ j \in DOMAIN l /\ m[j] = l[j]
               \/ j > k /\ j - 1 \in DOMAIN l /\ j - 1 >= k /\ m[j] = l[j - 1]
        BY <1>1, <3>1
      <3> DEFINE p == IF i < k THEN i ELSE i - 1
                 q == IF j < k THEN j ELSE j - 1
      <3>3. p \in DOMAIN l /\ q \in DOMAIN l /\ l[p] \in V /\ l[q] \in V
        BY <1>1, <3>2
      <3>4. p = q
        BY <3>3 DEF Once
      <3> QED BY <1>1, <3>1, <3>2, <3>4
    <2> QED BY <2>1, <2>2
  <1> QED BY <1>2, <1>3

-----------------------------------------------------------------------------
(* What the growth of the log does to what is said of it. *)

\* A record comes after the name of its track.
Named(l) ==
    \A i \in DOMAIN l : l[i] \in Records => \E j \in DOMAIN l : j < i /\ l[j] = NameOf(l[i])

\* What t has recorded is in the first d places.
SecuredIn(l, d, t) ==
    \A i \in DOMAIN l : l[i] \in Records /\ l[i].by = t => i <= d \/ l[i].kind = "flushOverhead"

LEMMA GrownNamed ==
  ASSUME NEW l, NEW m, NEW k, NEW x, Grown(l, m, k, x), Named(l),
         x \in Records => k = Len(l) + 1 /\ Has(l, {NameOf(x)})
  PROVE  Named(m)
  <1>1. /\ k \in DOMAIN m /\ m[k] = x
        /\ DOMAIN l \subseteq Nat \ {0} /\ DOMAIN m \subseteq Nat \ {0}
        /\ \A i \in DOMAIN l : IF i < k THEN i \in DOMAIN m /\ m[i] = l[i]
                               ELSE i + 1 \in DOMAIN m /\ m[i + 1] = l[i]
        /\ \A i \in DOMAIN m : \/ i = k
                               \/ i < k /\ i \in DOMAIN l /\ m[i] = l[i]
                               \/ i > k /\ i - 1 \in DOMAIN l /\ i - 1 >= k /\ m[i] = l[i - 1]
    BY GrownPlaces
  <1> SUFFICES ASSUME NEW i \in DOMAIN m, m[i] \in Records
               PROVE  \E j \in DOMAIN m : j < i /\ m[j] = NameOf(m[i])
    BY DEF Named
  <1>2. CASE i = k
    <2>1. PICK j \in DOMAIN l : l[j] = NameOf(x)
      BY <1>1, <1>2 DEF Has
    <2>2. j < k
      BY <1>1, <1>2, <2>1 DEF Grown
    <2> QED BY <1>1, <1>2, <2>1, <2>2
  <1>3. CASE i < k /\ i \in DOMAIN l /\ m[i] = l[i]
    <2>1. PICK j \in DOMAIN l : j < i /\ l[j] = NameOf(l[i])
      BY <1>3 DEF Named
    <2>2. j < k
      BY <1>1, <1>3, <2>1
    <2> QED BY <1>1, <1>3, <2>1, <2>2
  <1>4. CASE i > k /\ i - 1 \in DOMAIN l /\ i - 1 >= k /\ m[i] = l[i - 1]
    <2>1. PICK j \in DOMAIN l : j < i - 1 /\ l[j] = NameOf(l[i - 1])
      BY <1>4 DEF Named
    <2>2. CASE j < k
      BY <1>1, <1>4, <2>1, <2>2
    <2>3. CASE ~(j < k)
      <3>1. j + 1 \in DOMAIN m /\ m[j + 1] = l[j] /\ j + 1 < i
        BY <1>1, <1>4, <2>1, <2>3
      <3> QED BY <1>4, <2>1, <3>1
    <2> QED BY <2>2, <2>3
  <1> QED BY <1>1, <1>2, <1>3, <1>4

LEMMA GrownSecured ==
  ASSUME NEW l, NEW m, NEW k, NEW x, Grown(l, m, k, x), NEW d \in Nat, d < k, NEW t,
         SecuredIn(l, d, t), x \in Records /\ x.by = t => x.kind = "flushOverhead"
  PROVE  SecuredIn(m, d, t)
  <1>1. /\ k \in DOMAIN m /\ m[k] = x
        /\ DOMAIN l \subseteq Nat \ {0} /\ DOMAIN m \subseteq Nat \ {0}
        /\ \A i \in DOMAIN m : \/ i = k
                               \/ i < k /\ i \in DOMAIN l /\ m[i] = l[i]
                               \/ i > k /\ i - 1 \in DOMAIN l /\ i - 1 >= k /\ m[i] = l[i - 1]
    BY GrownPlaces
  <1> SUFFICES ASSUME NEW i \in DOMAIN m, m[i] \in Records, m[i].by = t
               PROVE  i <= d \/ m[i].kind = "flushOverhead"
    BY DEF SecuredIn
  <1>2. CASE i = k
    BY <1>1, <1>2
  <1>3. CASE i < k /\ i \in DOMAIN l /\ m[i] = l[i]
    BY <1>3 DEF SecuredIn
  <1>4. CASE i > k /\ i - 1 \in DOMAIN l /\ i - 1 >= k /\ m[i] = l[i - 1]
    <2>1. i - 1 <= d \/ m[i].kind = "flushOverhead"
      BY <1>4 DEF SecuredIn
    <2> QED BY <1>1, <1>4, <2>1
  <1> QED BY <1>1, <1>2, <1>3, <1>4

\* Records, descriptions and the end of the file are told apart.
LEMMA BlocksDiffer ==
  /\ Eof \notin Records /\ Eof \notin Descriptions
  /\ ProcessName \notin Records /\ StartTime \notin Records
  /\ ProcessName \notin Descriptions /\ StartTime \notin Descriptions
  /\ \A d \in Descriptions : d \notin Records
  /\ \A t, q : ThreadName(t) # QueueName(q) /\ ThreadName(t) \notin Records
               /\ QueueName(q) \notin Records
  /\ \A t, u : ThreadName(t) = ThreadName(u) => t = u
  /\ \A q, p : QueueName(q) = QueueName(p) => q = p
  <1>1. \A r \in Records : r.kind \in RecordKinds
    BY DEF Records
  <1>2. \A d \in Descriptions : d.kind \in {"thread", "queue"}
    BY DEF Descriptions, ThreadName, QueueName
  <1>3. \A t, q : /\ ThreadName(t).kind = "thread" /\ QueueName(q).kind = "queue"
                  /\ ThreadName(t).track = t /\ QueueName(q).track = q
    BY DEF ThreadName, QueueName
  <1>4. /\ Eof.kind = "eof" /\ ProcessName.kind = "process" /\ StartTime.kind = "startTime"
    BY DEF Eof, ProcessName, StartTime
  <1> QED BY <1>1, <1>2, <1>3, <1>4 DEF RecordKinds

\* A step that records nothing: it may describe a track, flush or close the file.
Plain ==
    /\ \/ log' = log
       \/ \E k, x : Grown(log, log', k, x) /\ x \notin Records /\ durable < k
    /\ durable' = durable \/ durable' = Len(log')

LEMMA LogTypes ==
  ASSUME Inv
  PROVE  /\ log \in Seq(Blocks) /\ Len(log) \in Nat /\ DOMAIN log = 1 .. Len(log)
         /\ durable \in Nat /\ durable <= Len(file) /\ Len(file) <= Len(log) /\ Len(file) \in Nat
  <1>1. /\ TracerTypes
    BY InvParts
  <1> QED BY <1>1, FileAndBuffer, LenProperties DEF TracerTypes

LEMMA PlainHas ==
  ASSUME Plain, NEW V, V \subseteq Records
  PROVE  /\ Has(log', V) <=> Has(log, V)
         /\ Once(log, V) => Once(log', V)
  <1>1. CASE log' = log
    BY <1>1
  <1>2. CASE \E k, x : Grown(log, log', k, x) /\ x \notin Records /\ durable < k
    <2>1. PICK k, x : Grown(log, log', k, x) /\ x \notin Records
      BY <1>2
    <2> QED BY <2>1, GrownHas
  <1> QED BY <1>1, <1>2 DEF Plain

LEMMA PlainNamed ==
  ASSUME Plain, Named(log)
  PROVE  Named(log')
  <1>1. CASE \E k, x : Grown(log, log', k, x) /\ x \notin Records /\ durable < k
    <2>1. PICK k, x : Grown(log, log', k, x) /\ x \notin Records
      BY <1>1
    <2> QED BY <2>1, GrownNamed
  <1> QED BY <1>1 DEF Plain

LEMMA PlainSecured ==
  ASSUME Inv, Inv', Plain, NEW t, SecuredIn(log, durable, t)
  PROVE  SecuredIn(log', durable', t)
  <1>1. CASE durable' = Len(log')
    <2>1. DOMAIN log' = 1 .. Len(log') /\ Len(log') \in Nat
      <3>1. log' \in Seq(Blocks)
        <4>1. TracerTypes'
          BY InvParts
        <4>2. Records \subseteq Blocks
          BY DEF Blocks
        <4>3. file' \in Seq(Blocks) /\ buffer' \in Seq(Blocks)
          BY <4>1, <4>2, SeqMonotonic DEF TracerTypes
        <4> QED BY <4>3, ConcatProperties DEF log
      <3> QED BY <3>1, LenProperties
    <2> QED BY <1>1, <2>1 DEF SecuredIn
  <1>2. CASE durable' = durable /\ log' = log
    BY <1>2
  <1>3. CASE durable' = durable /\
             \E k, x : Grown(log, log', k, x) /\ x \notin Records /\ durable < k
    <2>1. PICK k, x : Grown(log, log', k, x) /\ x \notin Records /\ durable < k
      BY <1>3
    <2>2. SecuredIn(log', durable, t)
      BY <2>1, LogTypes, GrownSecured
    <2> QED BY <1>3, <2>2
  <1> QED BY <1>1, <1>2, <1>3 DEF Plain

\* The records of the log after a plain step were there.
LEMMA PlainRecords ==
  ASSUME Plain, NEW i \in DOMAIN log', log'[i] \in Records
  PROVE  \E j \in DOMAIN log : log[j] = log'[i]
  <1> DEFINE V == {log'[i]}
  <1>1. Has(log', V) <=> Has(log, V)
    <2>1. V \subseteq Records
      OBVIOUS
    <2> HIDE DEF V
    <2> QED BY <2>1, PlainHas
  <1>2. Has(log', V)
    BY DEF Has
  <1> QED BY <1>1, <1>2 DEF Has

LEMMA MetadataGrows ==
  ASSUME Inv, NEW d \in Descriptions, addMetadata(d)
  PROVE  /\ Grown(log, log', Len(file) + 1, d) /\ Plain
         /\ \A V : Has(log', V) <=> Has(log, V) \/ d \in V
         /\ \A V : Once(log, V) /\ (d \in V => ~Has(log, V)) => Once(log', V)
  <1>1. /\ file' = Append(file, d) /\ buffer' = buffer /\ durable' = durable
        /\ file \in Seq(Blocks) /\ buffer \in Seq(Blocks) /\ d \in Blocks
    BY InvParts, FileAndBuffer DEF addMetadata, TracerTypes, Blocks
  <1>2. Grown(log, log', Len(file) + 1, d)
    BY <1>1, InsertGrows DEF log
  <1>3. durable < Len(file) + 1 /\ d \notin Records
    BY LogTypes, BlocksDiffer
  <1> QED BY <1>1, <1>2, <1>3, GrownHas DEF Plain

LEMMA RecordGrows ==
  ASSUME Inv, open, NEW r \in Records, addRecord(r), UNCHANGED config
  PROVE  /\ Grown(log, log', Len(log) + 1, r) /\ durable' = durable /\ durable < Len(log) + 1
         /\ \A V : Has(log', V) <=> Has(log, V) \/ r \in V
         /\ \A V : Once(log, V) /\ (r \in V => ~Has(log, V)) => Once(log', V)
  <1>1. log' = Append(log, r) /\ r \in Blocks /\ log \in Seq(Blocks)
    BY InvParts, AddRecordAdds, FileAndBuffer DEF Blocks
  <1>2. Grown(log, log', Len(log) + 1, r)
    BY <1>1, AppendGrows
  <1>3. durable' = durable
    BY DEF addRecord
  <1>4. durable < Len(log) + 1
    BY LogTypes
  <1> QED BY <1>2, <1>3, <1>4, GrownHas

LEMMA FlushIsPlain ==
  ASSUME Inv, open, flush, UNCHANGED config
  PROVE  log' = log /\ durable' = Len(log') /\ Plain
  BY InvParts, FlushWrites DEF Plain

LEMMA UnloadIsPlain ==
  ASSUME Inv, Unload
  PROVE  /\ durable' = Len(log') /\ Plain
         /\ \A V : Has(log', V) <=> Has(log, V) \/ Eof \in V
         /\ \A V : Once(log, V) /\ (Eof \in V => ~Has(log, V)) => Once(log', V)
  <1>1. log' = Append(log, Eof) /\ durable' = Len(log') /\ Eof \in Blocks /\ log \in Seq(Blocks)
    BY InvParts, UnloadCloses, FileAndBuffer DEF Blocks
  <1>2. Grown(log, log', Len(log) + 1, Eof)
    BY <1>1, AppendGrows
  <1>3. durable < Len(log) + 1 /\ Eof \notin Records
    BY LogTypes, BlocksDiffer
  <1> QED BY <1>1, <1>2, <1>3, GrownHas DEF Plain

LEMMA QuietIsPlain ==
  ASSUME UNCHANGED tracer
  PROVE  log' = log /\ durable' = durable /\ Plain
  BY DEF tracer, log, Plain

-----------------------------------------------------------------------------
(* A thread does a step of its call. *)

\* Threads keep their calls, but for the step that t has done.
AfterDone(t) ==
    /\ call[t].todo \in Seq(Steps) /\ call[t].todo # <<>>
    /\ call'[t].todo = Tail(call[t].todo)
    /\ \A u \in Threads : call'[u].number = call[u].number /\ call'[u].kind = call[u].kind
    /\ \A u \in Threads \ {t} : call'[u].todo = call[u].todo

LEMMA DoneLeaves ==
  ASSUME Inv, NEW t \in Threads, ~Idle(t), Done(t)
  PROVE  AfterDone(t)
  <1>1. /\ call \in [Threads -> Calls] /\ call[t].todo \in Seq(Steps) /\ call[t].todo # <<>>
    BY DEF Inv, TypeOK, Calls, Idle
  <1> DEFINE rest == Tail(call[t].todo)
             next == [call[t] EXCEPT !.todo = rest]
  <1>2. call' = [call EXCEPT ![t] = next]
    BY DEF Done
  <1>3. rest \in Seq(Steps)
    BY <1>1, HeadTailProperties
  <1> HIDE DEF rest
  <1>4. next.todo = rest /\ next.number = call[t].number /\ next.kind = call[t].kind
    BY <1>1, <1>3 DEF Calls
  <1> HIDE DEF next
  <1>5. call'[t] = next /\ \A u \in Threads \ {t} : call'[u] = call[u]
    BY <1>1, <1>2
  <1> QED BY <1>1, <1>4, <1>5 DEF AfterDone, rest

LEMMA OrderedAfterDone ==
  ASSUME Inv, CallsAreOrdered, NEW t \in Threads, AfterDone(t), UNCHANGED config,
         numbered \subseteq numbered',
         Head(call[t].todo) = "getThreadNumber" => t \in numbered'
  PROVE  CallsAreOrdered'
  <1> SUFFICES ASSUME NEW u \in Threads
               PROVE  /\ Ordered(call'[u].todo, config', call'[u].kind)
                      /\ call'[u].todo # <<>> /\ Head(call'[u].todo) \in RecordKinds
                            => u \in numbered'
    BY DEF CallsAreOrdered, Idle
  <1>1. Ordered(call[u].todo, config, call[u].kind)
    BY DEF CallsAreOrdered
  <1>2. CASE u = t
    BY <1>1, <1>2, TailOrdered DEF AfterDone
  <1>3. CASE u # t
    BY <1>1, <1>3 DEF AfterDone, CallsAreOrdered, Idle
  <1> QED BY <1>2, <1>3

\* The steps that are still to come after one step of t.
LEMMA PendingAfterDone ==
  ASSUME Inv, CallsAreOrdered, NumbersAreUsed, NEW t \in Threads, AfterDone(t),
         NEW step, NEW n \in 1 .. MaxCalls
  PROVE  /\ Pending(step, n)' => Pending(step, n)
         /\ Pending(step, n) /\ (call[t].number = n => Head(call[t].todo) # step)
               => Pending(step, n)'
         /\ Head(call[t].todo) = step => Pending(step, call[t].number)
         /\ Has(call[t].todo, {step}) => Pending(step, call[t].number)
         /\ Once(call[t].todo, {step}) /\ Head(call[t].todo) = step /\ call[t].number = n
               => ~Pending(step, n)'
         /\ call[t].number = n => ~Pending("addTimingEvent", n)'
  <1> DEFINE s == call[t].todo
  <1>1. /\ s \in Seq(Steps) /\ s # <<>> /\ call'[t].todo = Tail(s)
        /\ \A u \in Threads : call'[u].number = call[u].number
        /\ \A u \in Threads \ {t} : call'[u].todo = call[u].todo
    BY DEF AfterDone
  <1>2. /\ Has(Tail(s), {step}) => Has(s, {step})
        /\ Has(s, {step}) /\ Head(s) # step => Has(Tail(s), {step})
        /\ Once(s, {step}) /\ Head(s) = step => ~Has(Tail(s), {step})
        /\ Head(s) = step => Has(s, {step})
    BY <1>1, HasTail
  <1>3. ~Has(Tail(s), {"addTimingEvent"})
    <2>1. Ordered(s, config, call[t].kind)
      BY DEF CallsAreOrdered
    <2> QED BY <1>1, <2>1, TailOrdered
  <1>4. call[t].number = n => \A u \in Threads \ {t} : call[u].number # n
    BY DEF NumbersAreUsed
  <1> HIDE DEF s
  <1>5. \A y : Pending(y, n)' <=>
                  \E u \in Threads : call[u].number = n
                      /\ (IF u = t THEN Has(Tail(s), {y}) ELSE Has(call[u].todo, {y}))
    BY <1>1 DEF Pending
  <1>6. \A y, m : Pending(y, m) <=>
                  \E u \in Threads : call[u].number = m
                      /\ (IF u = t THEN Has(s, {y}) ELSE Has(call[u].todo, {y}))
    BY DEF Pending, s
  <1>7. Pending(step, n)' => Pending(step, n)
    BY <1>2, <1>5, <1>6
  <1>8. Pending(step, n) /\ (call[t].number = n => Head(s) # step) => Pending(step, n)'
    BY <1>2, <1>5, <1>6
  <1>9. Has(s, {step}) => Pending(step, call[t].number)
    BY <1>6
  <1>10. Once(s, {step}) /\ Head(s) = step /\ call[t].number = n => ~Pending(step, n)'
    BY <1>2, <1>4, <1>5
  <1>11. call[t].number = n => ~Pending("addTimingEvent", n)'
    BY <1>3, <1>4, <1>5
  <1> QED BY <1>2, <1>7, <1>8, <1>9, <1>10, <1>11 DEF s

-----------------------------------------------------------------------------
(* What a step that records nothing keeps. *)

LEMMA PlainNumbers ==
  ASSUME Inv, NumbersAreUsed, Plain, UNCHANGED <<calls, nodes>>,
         \A t \in Threads : call'[t].number = call[t].number,
         \A q \in queues' : q \in queues \/ \E t \in Threads : q = call[t].number
  PROVE  NumbersAreUsed'
  <1>1. ASSUME NEW i \in DOMAIN log', log'[i] \in Records
        PROVE  log'[i].call <= calls
    <2>1. PICK j \in DOMAIN log : log[j] = log'[i]
      BY <1>1, PlainRecords
    <2> QED BY <1>1, <2>1 DEF NumbersAreUsed
  <1>2. \A q \in queues' : q <= calls
    BY DEF NumbersAreUsed
  <1> QED BY <1>1, <1>2 DEF NumbersAreUsed

LEMMA PlainApart ==
  ASSUME Inv, RecordsAreApart, Plain, UNCHANGED <<config, nodes>>,
         \A n \in 1 .. MaxCalls :
             /\ Pending("callLoggingId", n)' <=> Pending("callLoggingId", n)
             /\ Pending("addTimingEvent", n)' => Pending("addTimingEvent", n)
  PROVE  RecordsAreApart'
  <1>1. \A kind, n : /\ Has(log', Of(kind, n)) <=> Has(log, Of(kind, n))
                     /\ Once(log, Of(kind, n)) => Once(log', Of(kind, n))
    <2> TAKE kind, n
    <2>1. Of(kind, n) \subseteq Records
      BY DEF Of
    <2> QED BY <2>1, PlainHas
  <1>2. \A n : HasNode(n)' <=> HasNode(n)
    BY DEF HasNode
  <1> SUFFICES ASSUME NEW n \in 1 .. MaxCalls
               PROVE  /\ Once(log', Of("callLoggingId", n)) /\ Once(log', Of("deviceTiming", n))
                      /\ Pending("callLoggingId", n)' => ~Has(log', Of("callLoggingId", n))
                      /\ Pending("addTimingEvent", n)' =>
                            ~HasNode(n)' /\ ~Has(log', Of("deviceTiming", n))
                      /\ HasNode(n)' => ~Has(log', Of("deviceTiming", n))
                      /\ \A node, other \in nodes' :
                            node.call = n /\ other.call = n => node = other
                      /\ config'.CallLogging /\ (HasNode(n)' \/ Has(log', Of("deviceTiming", n))) =>
                            Has(log', Of("callLoggingId", n)) \/ Pending("callLoggingId", n)'
    BY DEF RecordsAreApart, Of
  <1>3. /\ Once(log, Of("callLoggingId", n)) /\ Once(log, Of("deviceTiming", n))
        /\ Pending("callLoggingId", n) => ~Has(log, Of("callLoggingId", n))
        /\ Pending("addTimingEvent", n) => ~HasNode(n) /\ ~Has(log, Of("deviceTiming", n))
        /\ HasNode(n) => ~Has(log, Of("deviceTiming", n))
        /\ \A node, other \in nodes : node.call = n /\ other.call = n => node = other
        /\ config.CallLogging /\ (HasNode(n) \/ Has(log, Of("deviceTiming", n))) =>
              Has(log, Of("callLoggingId", n)) \/ Pending("callLoggingId", n)
    BY DEF RecordsAreApart
  <1> QED BY <1>1, <1>2, <1>3

LEMMA SecuredAs ==
  /\ \A t : Secured(t) <=> SecuredIn(log, durable, t)
  /\ \A t : Secured(t)' <=> SecuredIn(log', durable', t)
  BY DEF Secured, SecuredIn

LEMMA PlainSecures ==
  ASSUME Inv, Inv', FlushedAreSecured, Plain, UNCHANGED config,
         \A t \in Threads : call'[t].kind = call[t].kind,
         \/ durable' = Len(log')
         \/ \A t \in Threads :
               Has(call[t].todo, {"flushBuffering"}) => Has(call'[t].todo, {"flushBuffering"})
  PROVE  FlushedAreSecured'
  <1>1. ASSUME NEW t \in Threads, Flushes(config, call'[t].kind),
               ~Has(call'[t].todo, {"flushBuffering"})
        PROVE  SecuredIn(log', durable', t)
    <2>1. CASE durable' = Len(log')
      <3>1. log' \in Seq(Blocks)
        <4>1. TracerTypes'
          BY InvParts
        <4>2. Records \subseteq Blocks
          BY DEF Blocks
        <4>3. file' \in Seq(Blocks) /\ buffer' \in Seq(Blocks)
          BY <4>1, <4>2, SeqMonotonic DEF TracerTypes
        <4> QED BY <4>3, ConcatProperties DEF log
      <3>2. DOMAIN log' = 1 .. Len(log') /\ Len(log') \in Nat
        BY <3>1, LenProperties
      <3> QED BY <2>1, <3>2 DEF SecuredIn
    <2>2. CASE \A u \in Threads :
               Has(call[u].todo, {"flushBuffering"}) => Has(call'[u].todo, {"flushBuffering"})
      <3>1. SecuredIn(log, durable, t)
        BY <1>1, <2>2, SecuredAs DEF FlushedAreSecured
      <3> QED BY <3>1, PlainSecured
    <2> QED BY <2>1, <2>2
  <1>2. ~config.CallLogging /\ ~config.DeviceTiming => ~Has(log', Records)
    BY PlainHas DEF FlushedAreSecured
  <1>3. config' = config
    OBVIOUS
  <1>4. \A t \in Threads :
            Flushes(config', call'[t].kind) /\ ~Has(call'[t].todo, {"flushBuffering"}) =>
                Secured(t)'
    BY <1>1, <1>3, SecuredAs
  <1> QED BY <1>2, <1>3, <1>4 DEF FlushedAreSecured

\* The conjuncts of NamesAreWritten, for a step that describes no track.
LEMMA NamesKept ==
  ASSUME NamesAreWritten, UNCHANGED <<numbered, queues>>,
         \A d \in Descriptions : /\ Has(log', {d}) <=> Has(log, {d})
                                 /\ Once(log, {d}) => Once(log', {d}),
         Named(log) => Named(log'),
         \A t \in Threads : call'[t].number \in queues => call'[t].todo = <<>>,
         \A node \in nodes' : node.queue \in queues
  PROVE  NamesAreWritten'
  <1>1. /\ \A t \in Threads : ThreadName(t) \in Descriptions
        /\ \A q \in 1 .. MaxCalls : QueueName(q) \in Descriptions
    BY DEF Descriptions
  <1>2. \A t \in Threads : t \in numbered' <=> Has(log', {ThreadName(t)})
    BY <1>1 DEF NamesAreWritten
  <1>3. \A q \in 1 .. MaxCalls : q \in queues' <=> Has(log', {QueueName(q)})
    BY <1>1 DEF NamesAreWritten
  <1>4. \A d \in Descriptions : Once(log', {d})
    BY DEF NamesAreWritten
  <1>5. Named(log')
    BY DEF NamesAreWritten, Named
  <1> QED BY <1>2, <1>3, <1>4, <1>5 DEF NamesAreWritten, Named, Idle, ThreadName, QueueName,
                                        NameOf, Descriptions

LEMMA NamedLog == NamesAreWritten => Named(log)
  BY DEF NamesAreWritten, Named

-----------------------------------------------------------------------------
(* Every step keeps the rest of the invariant. *)

Rest ==
    /\ CallsAreOrdered
    /\ NumbersAreUsed
    /\ NamesAreWritten
    /\ RecordsAreApart
    /\ FlushedAreSecured

\* A step of a call that records nothing, the names apart.
LEMMA DoneKeeps ==
  ASSUME Inv, Inv', Rest, NEW t \in Threads, AfterDone(t), Plain,
         UNCHANGED <<config, calls, nodes>>,
         numbered \subseteq numbered',
         Head(call[t].todo) = "getThreadNumber" => t \in numbered',
         queues' \subseteq queues \cup {call[t].number},
         Head(call[t].todo) # "callLoggingId",
         Head(call[t].todo) = "flushBuffering" => durable' = Len(log')
  PROVE  CallsAreOrdered' /\ NumbersAreUsed' /\ RecordsAreApart' /\ FlushedAreSecured'
  <1>1. CallsAreOrdered'
    BY OrderedAfterDone DEF Rest
  <1>2. NumbersAreUsed'
    <2>1. \A q \in queues' : q \in queues \/ \E u \in Threads : q = call[u].number
      OBVIOUS
    <2> QED BY <2>1, PlainNumbers DEF Rest, AfterDone
  <1>3. RecordsAreApart'
    <2>1. \A n \in 1 .. MaxCalls :
             /\ Pending("callLoggingId", n)' <=> Pending("callLoggingId", n)
             /\ Pending("addTimingEvent", n)' => Pending("addTimingEvent", n)
      BY PendingAfterDone DEF Rest
    <2> QED BY <2>1, PlainApart DEF Rest
  <1>4. FlushedAreSecured'
    <2>1. ASSUME Head(call[t].todo) # "flushBuffering", NEW u \in Threads,
                 Has(call[u].todo, {"flushBuffering"})
          PROVE  Has(call'[u].todo, {"flushBuffering"})
      <3>1. CASE u = t
        <4>1. Has(call[t].todo, {"flushBuffering"}) /\ Head(call[t].todo) # "flushBuffering" =>
                  Has(Tail(call[t].todo), {"flushBuffering"})
          BY HasTail DEF AfterDone
        <4> QED BY <2>1, <3>1, <4>1 DEF AfterDone
      <3>2. CASE u # t
        BY <2>1, <3>2 DEF AfterDone
      <3> QED BY <3>1, <3>2
    <2> QED BY <2>1, PlainSecures DEF Rest, AfterDone
  <1> QED BY <1>1, <1>2, <1>3, <1>4

\* The same, for a step that does not describe a track either.
LEMMA DoneQuietly ==
  ASSUME Inv, Inv', Rest, NEW t \in Threads, ~Idle(t), Done(t), log' = log, Plain,
         UNCHANGED <<config, calls, numbered, queues, nodes>>,
         Head(call[t].todo) \notin {"getThreadNumber", "callLoggingId"},
         Head(call[t].todo) = "flushBuffering" => durable' = Len(log')
  PROVE  Rest'
  <1>1. AfterDone(t)
    BY DoneLeaves
  <1>2. CallsAreOrdered' /\ NumbersAreUsed' /\ RecordsAreApart' /\ FlushedAreSecured'
    <2>1. /\ numbered \subseteq numbered'
          /\ queues' \subseteq queues \cup {call[t].number}
          /\ UNCHANGED <<config, calls, nodes>>
      OBVIOUS
    <2> QED BY <1>1, <2>1, DoneKeeps
  <1>3. NamesAreWritten'
    <2>1. ASSUME NEW u \in Threads, call'[u].number \in queues PROVE call'[u].todo = <<>>
      <3>1. call[u].number \in queues
        BY <1>1, <2>1 DEF AfterDone
      <3>2. call[u].todo = <<>> /\ u # t
        BY <3>1 DEF Rest, NamesAreWritten, Idle
      <3> QED BY <1>1, <3>2 DEF AfterDone
    <2>2. \A node \in nodes' : node.queue \in queues
      BY DEF Rest, NamesAreWritten
    <2>3. NamesAreWritten /\ UNCHANGED <<numbered, queues>>
      BY DEF Rest
    <2> QED BY <2>1, <2>2, <2>3, NamesKept
  <1> QED BY <1>2, <1>3 DEF Rest

\* A step that leaves the calls alone and records nothing.
LEMMA OtherKeeps ==
  ASSUME Inv, Inv', Rest, Plain, UNCHANGED <<config, calls, call, numbered, queues, nodes>>,
         \A d \in Descriptions : /\ Has(log', {d}) <=> Has(log, {d})
                                 /\ Once(log, {d}) => Once(log', {d})
  PROVE  Rest'
  <1>1. CallsAreOrdered'
    BY DEF Rest, CallsAreOrdered, Idle
  <1>2. NumbersAreUsed'
    BY PlainNumbers DEF Rest
  <1>3. RecordsAreApart'
    <2>1. \A n \in 1 .. MaxCalls :
             /\ Pending("callLoggingId", n)' <=> Pending("callLoggingId", n)
             /\ Pending("addTimingEvent", n)' => Pending("addTimingEvent", n)
      BY DEF Pending
    <2> QED BY <2>1, PlainApart DEF Rest
  <1>4. FlushedAreSecured'
    <2>1. \A u \in Threads :
             Has(call[u].todo, {"flushBuffering"}) => Has(call'[u].todo, {"flushBuffering"})
      OBVIOUS
    <2>2. \A u \in Threads : call'[u].kind = call[u].kind
      OBVIOUS
    <2> QED BY <2>1, <2>2, PlainSecures DEF Rest
  <1>5. NamesAreWritten'
    <2>1. NamesAreWritten /\ UNCHANGED <<numbered, queues>>
      BY DEF Rest
    <2>2. Named(log) => Named(log')
      BY PlainNamed
    <2>3. \A u \in Threads : call'[u].number \in queues => call'[u].todo = <<>>
      BY DEF Rest, NamesAreWritten, Idle
    <2>4. \A node \in nodes' : node.queue \in queues
      BY DEF Rest, NamesAreWritten
    <2> QED BY <2>1, <2>2, <2>3, <2>4, NamesKept
  <1> QED BY <1>1, <1>2, <1>3, <1>4, <1>5 DEF Rest

LEMMA QuietStepsKeep ==
  ASSUME Inv, Inv', Rest, NEW t \in Threads,
         CommandFailed(t) \/ FlushFile(t) \/ FlushBuffering(t) \/ ScanBegin(t) \/ ScanEnd(t)
  PROVE  Rest'
  <1>1. CASE CommandFailed(t) \/ ScanEnd(t)
    <2>1. /\ Done(t) /\ UNCHANGED tracer /\ UNCHANGED <<config, calls, numbered, queues, nodes>>
          /\ ~Idle(t) /\ Head(call[t].todo) \in {"addTimingEvent", "checkTimingEvents"}
      BY <1>1 DEF CommandFailed, ScanEnd, At, layer
    <2>2. log' = log /\ Plain
      BY <2>1, QuietIsPlain
    <2> QED BY <2>1, <2>2, DoneQuietly
  <1>2. CASE FlushFile(t) \/ FlushBuffering(t)
    <2>1. /\ Done(t) /\ flush /\ UNCHANGED <<config, calls, numbered, queues, nodes>>
          /\ ~Idle(t) /\ Head(call[t].todo) \in {"flushFile", "flushBuffering"}
      BY <1>2 DEF FlushFile, FlushBuffering, At, layer
    <2>2. open
      BY <2>1 DEF Inv, CallsAreNumbered
    <2>3. log' = log /\ Plain /\ durable' = Len(log')
      BY <2>1, <2>2, FlushIsPlain
    <2> QED BY <2>1, <2>3, DoneQuietly
  <1>3. CASE ScanBegin(t)
    <2>1. UNCHANGED <<config, calls, call, numbered, queues, nodes>> /\ UNCHANGED tracer
      BY <1>3 DEF ScanBegin
    <2>2. log' = log /\ Plain
      BY <2>1, QuietIsPlain
    <2> QED BY <2>1, <2>2, OtherKeeps
  <1> QED BY <1>1, <1>2, <1>3

LEMMA UnloadKeeps ==
  ASSUME Inv, Inv', Rest, Unload
  PROVE  Rest'
  <1>1. UNCHANGED <<config, calls, call, numbered, queues, nodes>>
    BY DEF Unload, layer
  <1>2. /\ Plain
        /\ \A V : Has(log', V) <=> Has(log, V) \/ Eof \in V
        /\ \A V : Once(log, V) /\ (Eof \in V => ~Has(log, V)) => Once(log', V)
    BY UnloadIsPlain
  <1>3. \A d \in Descriptions : /\ Has(log', {d}) <=> Has(log, {d})
                                /\ Once(log, {d}) => Once(log', {d})
    BY <1>2, BlocksDiffer
  <1> QED BY <1>1, <1>2, <1>3, OtherKeeps

LEMMA GetThreadNumberKeeps ==
  ASSUME Inv, Inv', Rest, NEW t \in Threads, GetThreadNumber(t)
  PROVE  Rest'
  <1>1. /\ ~Idle(t) /\ Head(call[t].todo) = "getThreadNumber" /\ Done(t)
        /\ numbered' = numbered \cup {t} /\ UNCHANGED <<config, calls, queues, nodes>>
        /\ IF t \in numbered THEN UNCHANGED tracer ELSE addMetadata(ThreadName(t))
    BY DEF GetThreadNumber, At
  <1>2. AfterDone(t)
    BY <1>1, DoneLeaves
  <1>3. ASSUME NEW u \in Threads, call'[u].number \in queues PROVE call'[u].todo = <<>>
    <2>1. call[u].number \in queues
      BY <1>2, <1>3 DEF AfterDone
    <2>2. call[u].todo = <<>> /\ u # t
      BY <1>1, <2>1 DEF Rest, NamesAreWritten, Idle
    <2> QED BY <1>2, <2>2 DEF AfterDone
  <1>4. CASE t \in numbered
    <2>1. log' = log /\ Plain
      BY <1>1, <1>4, QuietIsPlain
    <2>2. CallsAreOrdered' /\ NumbersAreUsed' /\ RecordsAreApart' /\ FlushedAreSecured'
      BY <1>1, <1>2, <2>1, DoneKeeps
    <2>3. NamesAreWritten'
      <3>1. numbered' = numbered /\ NamesAreWritten
        BY <1>1, <1>4 DEF Rest
      <3>2. \A node \in nodes' : node.queue \in queues
        BY <1>1 DEF Rest, NamesAreWritten
      <3> QED BY <1>1, <1>3, <2>1, <3>1, <3>2, NamesKept
    <2> QED BY <2>2, <2>3 DEF Rest
  <1>5. CASE t \notin numbered
    <2>1. ThreadName(t) \in Descriptions /\ addMetadata(ThreadName(t))
      BY <1>1, <1>5 DEF Descriptions
    <2>2. /\ Plain
          /\ \A V : Has(log', V) <=> Has(log, V) \/ ThreadName(t) \in V
          /\ \A V : Once(log, V) /\ (ThreadName(t) \in V => ~Has(log, V)) => Once(log', V)
      BY <2>1, MetadataGrows
    <2>3. CallsAreOrdered' /\ NumbersAreUsed' /\ RecordsAreApart' /\ FlushedAreSecured'
      BY <1>1, <1>2, <2>2, DoneKeeps
    <2>4. NamesAreWritten'
      <3>1. NamesAreWritten /\ ~Has(log, {ThreadName(t)})
        BY <1>5 DEF Rest, NamesAreWritten
      <3>2. \A u \in Threads : u \in numbered' <=> Has(log', {ThreadName(u)})
        BY <1>1, <2>2, <3>1, BlocksDiffer DEF NamesAreWritten
      <3>3. \A q \in 1 .. MaxCalls : q \in queues' <=> Has(log', {QueueName(q)})
        BY <1>1, <2>2, <3>1, BlocksDiffer DEF NamesAreWritten
      <3>4. \A d \in Descriptions : Once(log', {d})
        BY <2>2, <3>1 DEF NamesAreWritten
      <3>5. Named(log')
        BY <2>2, <3>1, NamedLog, PlainNamed
      <3>6. \A node \in nodes' : node.queue \in queues'
        BY <1>1, <3>1 DEF NamesAreWritten
      <3>7. \A u \in Threads : call'[u].number \in queues' => Idle(u)'
        BY <1>1, <1>3 DEF Idle
      <3>8. \A i \in DOMAIN log' : log'[i] \in Records =>
                \E j \in DOMAIN log' : j < i /\ log'[j] = NameOf(log'[i])
        BY <3>5 DEF Named
      <3> QED BY <3>2, <3>3, <3>4, <3>6, <3>7, <3>8
                 DEF NamesAreWritten, NameOf, ThreadName, QueueName, Descriptions
    <2> QED BY <2>3, <2>4 DEF Rest
  <1> QED BY <1>4, <1>5

LEMMA RegisterKeeps ==
  ASSUME Inv, Inv', Rest, NEW t \in Threads, ChromeRegisterCommandQueue(t)
  PROVE  Rest'
  <1> DEFINE q0 == call[t].number
  <1>1. /\ ~Idle(t) /\ Head(call[t].todo) = "chromeRegisterCommandQueue" /\ Done(t)
        /\ queues' = queues \cup {q0} /\ UNCHANGED <<config, calls, numbered, nodes>>
        /\ addMetadata(QueueName(q0))
    BY DEF ChromeRegisterCommandQueue, At
  <1>2. AfterDone(t)
    BY <1>1, DoneLeaves
  <1>3. q0 \in 1 .. MaxCalls /\ QueueName(q0) \in Descriptions
    BY <1>1 DEF Inv, CallsAreNumbered, Descriptions
  <1>4. /\ Plain
        /\ \A V : Has(log', V) <=> Has(log, V) \/ QueueName(q0) \in V
        /\ \A V : Once(log, V) /\ (QueueName(q0) \in V => ~Has(log, V)) => Once(log', V)
    BY <1>1, <1>3, MetadataGrows
  <1>5. CallsAreOrdered' /\ NumbersAreUsed' /\ RecordsAreApart' /\ FlushedAreSecured'
    BY <1>1, <1>2, <1>4, DoneKeeps
  <1>6. NamesAreWritten /\ q0 \notin queues /\ ~Has(log, {QueueName(q0)})
    BY <1>1, <1>3 DEF Rest, NamesAreWritten
  <1>7. call'[t].todo = <<>>
    <2>1. Ordered(call[t].todo, config, call[t].kind)
      BY DEF Rest, CallsAreOrdered
    <2> QED BY <1>1, <1>2, <2>1, TailOrdered DEF AfterDone
  <1>8. ASSUME NEW u \in Threads, call'[u].number \in queues' PROVE Idle(u)'
    <2>1. CASE u = t
      BY <1>7, <2>1 DEF Idle
    <2>2. CASE u # t
      <3>1. call'[u].number = call[u].number /\ call'[u].todo = call[u].todo
        BY <1>2, <2>2 DEF AfterDone
      <3>2. call[u].number # q0
        BY <1>3, <2>2 DEF Rest, NumbersAreUsed
      <3>3. call[u].number \in queues
        BY <1>1, <1>8, <3>1, <3>2
      <3> QED BY <1>6, <3>1, <3>3 DEF NamesAreWritten, Idle
    <2> QED BY <2>1, <2>2
  <1> HIDE DEF q0
  <1>9. NamesAreWritten'
    <2>1. \A u \in Threads : u \in numbered' <=> Has(log', {ThreadName(u)})
      BY <1>1, <1>4, <1>6, BlocksDiffer DEF NamesAreWritten
    <2>2. \A q \in 1 .. MaxCalls : q \in queues' <=> Has(log', {QueueName(q)})
      BY <1>1, <1>4, <1>6, BlocksDiffer DEF NamesAreWritten
    <2>3. \A d \in Descriptions : Once(log', {d})
      BY <1>4, <1>6 DEF NamesAreWritten
    <2>4. Named(log')
      BY <1>4, <1>6, NamedLog, PlainNamed
    <2>5. \A node \in nodes' : node.queue \in queues'
      BY <1>1, <1>6 DEF NamesAreWritten
    <2>6. \A i \in DOMAIN log' : log'[i] \in Records =>
              \E j \in DOMAIN log' : j < i /\ log'[j] = NameOf(log'[i])
      BY <2>4 DEF Named
    <2> QED BY <1>8, <2>1, <2>2, <2>3, <2>5, <2>6
               DEF NamesAreWritten, NameOf, ThreadName, QueueName, Descriptions
  <1> QED BY <1>5, <1>9 DEF Rest

\* A command gets a node: the record of its call is still to come.
LEMMA AddTimingEventKeeps ==
  ASSUME Inv, Inv', Rest, NEW t \in Threads, AddTimingEvent(t)
  PROVE  Rest'
  <1> DEFINE m == call[t].number
  <1>1. /\ ~Idle(t) /\ Head(call[t].todo) = "addTimingEvent" /\ Done(t)
        /\ UNCHANGED <<config, calls, numbered, queues>> /\ UNCHANGED tracer
    BY DEF AddTimingEvent, At
  <1>2. PICK q \in queues : nodes' = nodes \cup {[call |-> m, queue |-> q]}
    BY DEF AddTimingEvent
  <1>3. AfterDone(t)
    BY <1>1, DoneLeaves
  <1>4. log' = log /\ durable' = durable /\ Plain
    BY <1>1, QuietIsPlain
  <1>5. m \in 1 .. MaxCalls /\ m <= calls
    BY <1>1 DEF Inv, CallsAreNumbered, Rest, NumbersAreUsed
  <1>6. CallsAreOrdered'
    BY <1>1, <1>3, OrderedAfterDone DEF Rest
  <1>7. NumbersAreUsed'
    BY <1>1, <1>2, <1>3, <1>4, <1>5 DEF Rest, NumbersAreUsed, AfterDone
  <1>8. NamesAreWritten'
    <2>1. ASSUME NEW u \in Threads, call'[u].number \in queues PROVE call'[u].todo = <<>>
      <3>1. call[u].number \in queues
        BY <1>3, <2>1 DEF AfterDone
      <3>2. call[u].todo = <<>> /\ u # t
        BY <1>1, <3>1 DEF Rest, NamesAreWritten, Idle
      <3> QED BY <1>3, <3>2 DEF AfterDone
    <2>2. \A node \in nodes' : node.queue \in queues
      BY <1>2 DEF Rest, NamesAreWritten
    <2>3. NamesAreWritten /\ UNCHANGED <<numbered, queues>>
      BY <1>1 DEF Rest
    <2> QED BY <1>4, <2>1, <2>2, <2>3, NamesKept
  <1>9. FlushedAreSecured'
    <2>1. ASSUME NEW u \in Threads, Has(call[u].todo, {"flushBuffering"})
          PROVE  Has(call'[u].todo, {"flushBuffering"})
      <3>1. CASE u = t
        <4>1. Has(call[t].todo, {"flushBuffering"}) /\ Head(call[t].todo) # "flushBuffering" =>
                  Has(Tail(call[t].todo), {"flushBuffering"})
          BY <1>3, HasTail DEF AfterDone
        <4> QED BY <1>1, <1>3, <2>1, <3>1, <4>1 DEF AfterDone
      <3>2. CASE u # t
        BY <1>3, <2>1, <3>2 DEF AfterDone
      <3> QED BY <3>1, <3>2
    <2> QED BY <1>1, <1>3, <1>4, <2>1, PlainSecures DEF Rest, AfterDone
  <1>10. RecordsAreApart'
    <2>1. 1 \in DOMAIN call[t].todo /\ call[t].todo[1] = "addTimingEvent"
      BY <1>1, <1>3, TailIndices DEF AfterDone
    <2>2. config.CallLogging => Has(call[t].todo, {"callLoggingId"})
      BY <2>1 DEF Rest, CallsAreOrdered, Ordered
    <2>3. ASSUME NEW n \in 1 .. MaxCalls
          PROVE  /\ Pending("callLoggingId", n)' => Pending("callLoggingId", n)
                 /\ Pending("callLoggingId", n) => Pending("callLoggingId", n)'
                 /\ Pending("addTimingEvent", n)' => Pending("addTimingEvent", n)
                 /\ n = m => ~Pending("addTimingEvent", n)'
      BY <1>1, <1>3, PendingAfterDone DEF Rest
    <2>4. Pending("addTimingEvent", m) /\ (config.CallLogging => Pending("callLoggingId", m))
      BY <1>1, <1>3, <1>5, <2>2, PendingAfterDone DEF Rest
    <2> HIDE DEF m
    <2> SUFFICES ASSUME NEW n \in 1 .. MaxCalls
                 PROVE  /\ Once(log', Of("callLoggingId", n)) /\ Once(log', Of("deviceTiming", n))
                        /\ Pending("callLoggingId", n)' => ~Has(log', Of("callLoggingId", n))
                        /\ Pending("addTimingEvent", n)' =>
                              ~HasNode(n)' /\ ~Has(log', Of("deviceTiming", n))
                        /\ HasNode(n)' => ~Has(log', Of("deviceTiming", n))
                        /\ \A node, other \in nodes' :
                              node.call = n /\ other.call = n => node = other
                        /\ config'.CallLogging
                               /\ (HasNode(n)' \/ Has(log', Of("deviceTiming", n))) =>
                              Has(log', Of("callLoggingId", n)) \/ Pending("callLoggingId", n)'
      BY DEF RecordsAreApart, Of
    <2>5. /\ Once(log, Of("callLoggingId", n)) /\ Once(log, Of("deviceTiming", n))
          /\ Pending("callLoggingId", n) => ~Has(log, Of("callLoggingId", n))
          /\ Pending("addTimingEvent", n) => ~HasNode(n) /\ ~Has(log, Of("deviceTiming", n))
          /\ HasNode(n) => ~Has(log, Of("deviceTiming", n))
          /\ \A node, other \in nodes : node.call = n /\ other.call = n => node = other
          /\ config.CallLogging /\ (HasNode(n) \/ Has(log, Of("deviceTiming", n))) =>
                Has(log, Of("callLoggingId", n)) \/ Pending("callLoggingId", n)
      BY DEF Rest, RecordsAreApart
    <2>6. HasNode(n)' <=> HasNode(n) \/ n = m
      <3> DEFINE new == [call |-> m, queue |-> q]
      <3>1. new.call = m
        OBVIOUS
      <3>2. nodes' = nodes \cup {new}
        BY <1>2
      <3> HIDE DEF new
      <3> QED BY <3>1, <3>2 DEF HasNode
    <2>7. \A node, other \in nodes' : node.call = n /\ other.call = n => node = other
      <3>1. CASE n = m
        BY <1>2, <2>4, <2>5, <3>1 DEF HasNode
      <3>2. CASE n # m
        BY <1>2, <2>5, <3>2
      <3> QED BY <3>1, <3>2
    <2>8. config' = config
      BY <1>1
    <2> QED BY <1>4, <2>3, <2>4, <2>5, <2>6, <2>7, <2>8
  <1> QED BY <1>6, <1>7, <1>8, <1>9, <1>10 DEF Rest

\* A new call: its number is new, and nothing is recorded for it.
LEMMA BeginKeeps ==
  ASSUME Inv, Inv', Rest, NEW t \in Threads, Begin(t)
  PROVE  Rest'
  <1> DEFINE m == calls + 1
  <1>1. /\ Idle(t) /\ UNCHANGED <<config, numbered, queues, nodes>> /\ UNCHANGED tracer
        /\ calls' = m /\ calls < MaxCalls
    BY DEF Begin, layer
  <1>2. PICK kind \in Kinds : call' = [call EXCEPT ![t] = [todo |-> Handler(config, kind),
                                          number |-> m, kind |-> kind]]
    BY DEF Begin
  <1>3. /\ call'[t].todo = Handler(config, kind) /\ call'[t].number = m /\ call'[t].kind = kind
        /\ \A u \in Threads \ {t} : call'[u] = call[u]
    BY <1>2 DEF Inv, TypeOK
  <1>4. log' = log /\ durable' = durable /\ Plain
    BY <1>1, QuietIsPlain
  <1>5. calls \in Nat /\ m \in 1 .. MaxCalls /\ config \in Configs
    BY <1>1, TraceBoundsAssumption DEF Inv, TypeOK
  <1>6. /\ Ordered(Handler(config, kind), config, kind)
        /\ Handler(config, kind) # <<>> => Head(Handler(config, kind)) \notin RecordKinds
        /\ Flushes(config, kind) /\ (config.CallLogging \/ config.DeviceTiming) =>
              Has(Handler(config, kind), {"flushBuffering"})
    BY <1>5, HandlerOrdered
  <1>7. CallsAreOrdered'
    BY <1>1, <1>3, <1>6 DEF Rest, CallsAreOrdered, Idle
  <1>8. /\ \A u \in Threads : call[u].number <= calls /\ call[u].number \in Nat
        /\ \A i \in DOMAIN log : log[i] \in Records => log[i].call <= calls
        /\ \A node \in nodes : node.call <= calls
        /\ \A q \in queues : q <= calls
        /\ \A r \in Records : r.call \in Nat
        /\ \A node \in nodes : node.call \in Nat
        /\ queues \subseteq Nat
    <2>1. /\ call \in [Threads -> Calls] /\ queues \subseteq 1 .. MaxCalls
          /\ nodes \subseteq [call : 1 .. MaxCalls, queue : 1 .. MaxCalls]
      BY DEF Inv, TypeOK
    <2>2. \A u \in Threads : call[u].number \in Nat
      BY <2>1 DEF Calls
    <2>3. \A node \in nodes : node.call \in Nat
      BY <2>1
    <2>4. \A r \in Records : r.call \in Nat
      BY DEF Records
    <2>5. /\ \A u \in Threads : call[u].number <= calls
          /\ \A i \in DOMAIN log : log[i] \in Records => log[i].call <= calls
          /\ \A node \in nodes : node.call <= calls
          /\ \A q \in queues : q <= calls
      BY DEF Rest, NumbersAreUsed
    <2>6. queues \subseteq Nat
      BY <2>1
    <2> QED BY <2>2, <2>3, <2>4, <2>5, <2>6
  <1>9. NumbersAreUsed'
    <2>1. \A u \in Threads : call'[u].number <= calls'
      BY <1>1, <1>3, <1>5, <1>8
    <2>2. \A u, v \in Threads : call'[u].number = call'[v].number => u = v \/ call'[u].number = 0
      BY <1>3, <1>5, <1>8 DEF Rest, NumbersAreUsed
    <2>3. /\ \A i \in DOMAIN log' : log'[i] \in Records => log'[i].call <= calls'
          /\ \A node \in nodes' : node.call <= calls'
          /\ \A q \in queues' : q <= calls'
      BY <1>1, <1>4, <1>5, <1>8
    <2> QED BY <2>1, <2>2, <2>3 DEF NumbersAreUsed
  <1>10. NamesAreWritten'
    <2>1. ASSUME NEW u \in Threads, call'[u].number \in queues PROVE call'[u].todo = <<>>
      BY <1>3, <1>5, <1>8, <2>1 DEF Rest, NamesAreWritten, Idle
    <2>2. \A node \in nodes' : node.queue \in queues
      BY <1>1 DEF Rest, NamesAreWritten
    <2>3. NamesAreWritten /\ UNCHANGED <<numbered, queues>>
      BY <1>1 DEF Rest
    <2> QED BY <1>4, <2>1, <2>2, <2>3, NamesKept
  <1>11. FlushedAreSecured'
    <2>1. ASSUME NEW u \in Threads, Flushes(config, call'[u].kind),
                 ~Has(call'[u].todo, {"flushBuffering"})
          PROVE  Secured(u)
      <3>1. CASE u = t
        <4>1. ~Has(log, Records)
          BY <1>3, <1>6, <2>1, <3>1 DEF Rest, FlushedAreSecured
        <4> QED BY <4>1 DEF Secured, Has
      <3>2. CASE u # t
        BY <1>3, <2>1, <3>2 DEF Rest, FlushedAreSecured
      <3> QED BY <3>1, <3>2
    <2>2. Has(log', Records) <=> Has(log, Records)
      BY <1>4
    <2>3. \A u \in Threads : Secured(u)' <=> Secured(u)
      BY <1>4, SecuredAs
    <2>4. config' = config
      BY <1>1
    <2> QED BY <2>1, <2>2, <2>3, <2>4 DEF Rest, FlushedAreSecured
  <1>12. RecordsAreApart'
    <2> SUFFICES ASSUME NEW n \in 1 .. MaxCalls
                 PROVE  /\ Once(log', Of("callLoggingId", n)) /\ Once(log', Of("deviceTiming", n))
                        /\ Pending("callLoggingId", n)' => ~Has(log', Of("callLoggingId", n))
                        /\ Pending("addTimingEvent", n)' =>
                              ~HasNode(n)' /\ ~Has(log', Of("deviceTiming", n))
                        /\ HasNode(n)' => ~Has(log', Of("deviceTiming", n))
                        /\ \A node, other \in nodes' :
                              node.call = n /\ other.call = n => node = other
                        /\ config'.CallLogging
                               /\ (HasNode(n)' \/ Has(log', Of("deviceTiming", n))) =>
                              Has(log', Of("callLoggingId", n)) \/ Pending("callLoggingId", n)'
      BY DEF RecordsAreApart, Of
    <2>1. /\ Once(log, Of("callLoggingId", n)) /\ Once(log, Of("deviceTiming", n))
          /\ Pending("callLoggingId", n) => ~Has(log, Of("callLoggingId", n))
          /\ Pending("addTimingEvent", n) => ~HasNode(n) /\ ~Has(log, Of("deviceTiming", n))
          /\ HasNode(n) => ~Has(log, Of("deviceTiming", n))
          /\ \A node, other \in nodes : node.call = n /\ other.call = n => node = other
          /\ config.CallLogging /\ (HasNode(n) \/ Has(log, Of("deviceTiming", n))) =>
                Has(log, Of("callLoggingId", n)) \/ Pending("callLoggingId", n)
      BY DEF Rest, RecordsAreApart
    <2>2. /\ nodes' = nodes /\ config' = config /\ (HasNode(n)' <=> HasNode(n))
      BY <1>1 DEF HasNode
    <2>3. CASE n = m
      <3>1. ~HasNode(n)
        BY <1>5, <1>8, <2>3 DEF HasNode
      <3>2. \A k : ~Has(log, Of(k, n))
        BY <1>5, <1>8, <2>3 DEF Has, Of
      <3> QED BY <1>4, <2>1, <2>2, <3>1, <3>2
    <2>4. CASE n # m
      <3>1. \A step : Pending(step, n)' => Pending(step, n)
        BY <1>3, <2>4 DEF Pending
      <3>2. Pending("callLoggingId", n) => Pending("callLoggingId", n)'
        <4>1. ~Has(call[t].todo, {"callLoggingId"})
          BY <1>1 DEF Idle, Has
        <4> QED BY <1>3, <4>1 DEF Pending
      <3> QED BY <1>4, <2>1, <2>2, <3>1, <3>2
    <2> QED BY <2>3, <2>4
  <1> QED BY <1>7, <1>9, <1>10, <1>11, <1>12 DEF Rest

\* The record of a call: its thread has a name, it is the only one of the call,
\* and the thread flushes after it.
LEMMA AddCallLoggingKeeps ==
  ASSUME Inv, Inv', Rest, NEW t \in Threads, AddCallLogging(t)
  PROVE  Rest'
  <1> DEFINE m == call[t].number
             r == CallRecord(t)
             step == Head(call[t].todo)
  <1>1. /\ ~Idle(t) /\ step \in RecordKinds /\ Done(t) /\ addRecord(r)
        /\ UNCHANGED <<config, calls, numbered, queues, nodes>>
    BY DEF AddCallLogging, At
  <1>2. AfterDone(t)
    BY <1>1, DoneLeaves
  <1>3. open /\ m \in 1 .. MaxCalls
    BY <1>1 DEF Inv, CallsAreNumbered
  <1>4. /\ r \in Records /\ r.kind = step /\ r.call = m /\ r.by = t /\ r.track = t
    BY <1>1, <1>3 DEF CallRecord, Records
  <1> HIDE DEF r
  <1>5. /\ Grown(log, log', Len(log) + 1, r) /\ durable' = durable /\ durable < Len(log) + 1
        /\ \A V : Has(log', V) <=> Has(log, V) \/ r \in V
        /\ \A V : Once(log, V) /\ (r \in V => ~Has(log, V)) => Once(log', V)
    BY <1>1, <1>3, <1>4, RecordGrows
  <1>6. step # "getThreadNumber" /\ step # "flushBuffering" /\ step # "addTimingEvent"
    BY <1>1 DEF RecordKinds
  <1>7. /\ Ordered(call[t].todo, config, call[t].kind) /\ t \in numbered
        /\ 1 \in DOMAIN call[t].todo /\ call[t].todo[1] = step
    BY <1>1, <1>2, TailIndices DEF Rest, CallsAreOrdered, AfterDone
  <1>8. config.CallLogging /\ step # "deviceTiming" /\ Once(call[t].todo, {"callLoggingId"})
    BY <1>1, <1>7 DEF Ordered
  <1>9. CallsAreOrdered'
    BY <1>1, <1>2, <1>6, OrderedAfterDone DEF Rest
  <1>10. NumbersAreUsed'
    <2>1. ASSUME NEW i \in DOMAIN log', log'[i] \in Records
          PROVE  log'[i].call <= calls
      <3>1. Has(log', {log'[i]})
        BY DEF Has
      <3>2. Has(log, {log'[i]}) \/ r = log'[i]
        BY <1>5, <3>1
      <3>3. m <= calls
        BY DEF Rest, NumbersAreUsed
      <3>4. \A j \in DOMAIN log : log[j] \in Records => log[j].call <= calls
        BY DEF Rest, NumbersAreUsed
      <3> QED BY <1>4, <2>1, <3>2, <3>3, <3>4 DEF Has
    <2> QED BY <1>1, <1>2, <2>1 DEF Rest, NumbersAreUsed, AfterDone
  <1>11. NamesAreWritten'
    <2>1. ASSUME NEW u \in Threads, call'[u].number \in queues PROVE call'[u].todo = <<>>
      <3>1. call[u].number \in queues
        BY <1>2, <2>1 DEF AfterDone
      <3>2. call[u].todo = <<>> /\ u # t
        BY <1>1, <3>1 DEF Rest, NamesAreWritten, Idle
      <3> QED BY <1>2, <3>2 DEF AfterDone
    <2>2. \A node \in nodes' : node.queue \in queues
      BY <1>1 DEF Rest, NamesAreWritten
    <2>3. NamesAreWritten /\ UNCHANGED <<numbered, queues>>
      BY <1>1 DEF Rest
    <2>4. \A d \in Descriptions : r \notin {d}
      BY <1>4, BlocksDiffer
    <2>5. Named(log')
      <3>1. NameOf(r) = ThreadName(t)
        BY <1>4 DEF NameOf
      <3>2. Has(log, {NameOf(r)})
        BY <1>7, <2>3, <3>1 DEF NamesAreWritten
      <3> QED BY <1>5, <2>3, <3>2, NamedLog, GrownNamed
    <2> QED BY <1>5, <2>1, <2>2, <2>3, <2>4, <2>5, NamesKept
  <1>12. FlushedAreSecured'
    <2>1. ASSUME NEW u \in Threads, Flushes(config, call'[u].kind),
                 ~Has(call'[u].todo, {"flushBuffering"})
          PROVE  Secured(u)'
      <3>1. call'[u].kind = call[u].kind
        BY <1>2 DEF AfterDone
      <3>2. CASE u = t
        <4>1. Has(call[t].todo, {"flushBuffering"}) => Has(Tail(call[t].todo), {"flushBuffering"})
          BY <1>2, <1>6, HasTail DEF AfterDone
        <4>2. ~Has(call[t].todo, {"flushBuffering"})
          BY <1>2, <2>1, <3>2, <4>1 DEF AfterDone
        <4>3. step \notin Recording
          BY <1>7, <2>1, <3>1, <3>2, <4>2 DEF Ordered, Has
        <4>4. step = "flushOverhead"
          BY <1>1, <1>8, <4>3 DEF RecordKinds, Recording
        <4>5. SecuredIn(log, durable, t)
          BY <2>1, <3>1, <3>2, <4>2, SecuredAs DEF Rest, FlushedAreSecured
        <4>6. SecuredIn(log', durable, t)
          BY <1>4, <1>5, <4>4, <4>5, LogTypes, GrownSecured
        <4> QED BY <1>5, <3>2, <4>6, SecuredAs
      <3>3. CASE u # t
        <4>1. call'[u].todo = call[u].todo
          BY <1>2, <3>3 DEF AfterDone
        <4>2. SecuredIn(log, durable, u)
          BY <2>1, <3>1, <4>1, SecuredAs DEF Rest, FlushedAreSecured
        <4>3. SecuredIn(log', durable, u)
          BY <1>4, <1>5, <3>3, <4>2, LogTypes, GrownSecured
        <4> QED BY <1>5, <4>3, SecuredAs
      <3> QED BY <3>2, <3>3
    <2>2. config' = config
      BY <1>1
    <2> QED BY <1>8, <2>1, <2>2 DEF FlushedAreSecured
  <1>13. RecordsAreApart'
    <2>1. ASSUME NEW n \in 1 .. MaxCalls
          PROVE  /\ Pending("callLoggingId", n)' => Pending("callLoggingId", n)
                 /\ Pending("callLoggingId", n) /\ (n = m => step # "callLoggingId") =>
                       Pending("callLoggingId", n)'
                 /\ Pending("addTimingEvent", n)' => Pending("addTimingEvent", n)
                 /\ n = m /\ step = "callLoggingId" =>
                       Pending("callLoggingId", n) /\ ~Pending("callLoggingId", n)'
      BY <1>2, <1>8, PendingAfterDone DEF Rest
    <2>2. \A k, n : r \in Of(k, n) <=> step = k /\ m = n
      BY <1>4 DEF Of
    <2> HIDE DEF m, step
    <2> SUFFICES ASSUME NEW n \in 1 .. MaxCalls
                 PROVE  /\ Once(log', Of("callLoggingId", n)) /\ Once(log', Of("deviceTiming", n))
                        /\ Pending("callLoggingId", n)' => ~Has(log', Of("callLoggingId", n))
                        /\ Pending("addTimingEvent", n)' =>
                              ~HasNode(n)' /\ ~Has(log', Of("deviceTiming", n))
                        /\ HasNode(n)' => ~Has(log', Of("deviceTiming", n))
                        /\ \A node, other \in nodes' :
                              node.call = n /\ other.call = n => node = other
                        /\ config'.CallLogging
                               /\ (HasNode(n)' \/ Has(log', Of("deviceTiming", n))) =>
                              Has(log', Of("callLoggingId", n)) \/ Pending("callLoggingId", n)'
      BY DEF RecordsAreApart, Of
    <2>3. /\ Once(log, Of("callLoggingId", n)) /\ Once(log, Of("deviceTiming", n))
          /\ Pending("callLoggingId", n) => ~Has(log, Of("callLoggingId", n))
          /\ Pending("addTimingEvent", n) => ~HasNode(n) /\ ~Has(log, Of("deviceTiming", n))
          /\ HasNode(n) => ~Has(log, Of("deviceTiming", n))
          /\ \A node, other \in nodes : node.call = n /\ other.call = n => node = other
          /\ config.CallLogging /\ (HasNode(n) \/ Has(log, Of("deviceTiming", n))) =>
                Has(log, Of("callLoggingId", n)) \/ Pending("callLoggingId", n)
      BY DEF Rest, RecordsAreApart
    <2>4. nodes' = nodes /\ config' = config /\ (HasNode(n)' <=> HasNode(n))
      BY <1>1 DEF HasNode
    <2>5. /\ Has(log', Of("deviceTiming", n)) <=> Has(log, Of("deviceTiming", n))
          /\ Once(log', Of("deviceTiming", n))
      BY <1>5, <1>8, <2>2, <2>3 DEF step
    <2>6. /\ Has(log', Of("callLoggingId", n)) <=>
                Has(log, Of("callLoggingId", n)) \/ (step = "callLoggingId" /\ m = n)
          /\ Once(log', Of("callLoggingId", n))
      BY <1>5, <2>1, <2>2, <2>3
    <2> QED BY <2>1, <2>3, <2>4, <2>5, <2>6
  <1> QED BY <1>9, <1>10, <1>11, <1>12, <1>13 DEF Rest

\* The record of a command: its queue has a name, it is the only one of the
\* command, and the thread that scans flushes afterwards.
LEMMA ChromeTraceEventKeeps ==
  ASSUME Inv, Inv', Rest, NEW t \in Threads, ChromeTraceEvent(t)
  PROVE  Rest'
  <1>1. /\ ~Idle(t) /\ Head(call[t].todo) = "checkTimingEvents"
        /\ UNCHANGED <<config, calls, call, numbered, queues>>
    BY DEF ChromeTraceEvent, At
  <1>2. PICK node \in nodes : addRecord(DeviceRecord(t, node)) /\ nodes' = nodes \ {node}
    BY DEF ChromeTraceEvent
  <1> DEFINE r == DeviceRecord(t, node)
  <1>3. node \in [call : 1 .. MaxCalls, queue : 1 .. MaxCalls] /\ open
    BY <1>1 DEF Inv, TypeOK, CallsAreNumbered
  <1>4. /\ r \in Records /\ r.kind = "deviceTiming" /\ r.call = node.call /\ r.by = t
        /\ r.track = node.queue
    BY <1>3 DEF DeviceRecord, Records, RecordKinds
  <1> HIDE DEF r
  <1>5. /\ Grown(log, log', Len(log) + 1, r) /\ durable' = durable /\ durable < Len(log) + 1
        /\ \A V : Has(log', V) <=> Has(log, V) \/ r \in V
        /\ \A V : Once(log, V) /\ (r \in V => ~Has(log, V)) => Once(log', V)
    BY <1>1, <1>2, <1>3, <1>4, RecordGrows DEF r
  <1>6. /\ Ordered(call[t].todo, config, call[t].kind)
        /\ 1 \in DOMAIN call[t].todo /\ call[t].todo[1] = "checkTimingEvents"
    <2>1. call[t].todo \in Seq(Steps)
      BY DEF Inv, TypeOK, Calls
    <2> QED BY <1>1, <2>1, TailIndices DEF Rest, CallsAreOrdered, Idle
  <1>7. CallsAreOrdered'
    BY <1>1 DEF Rest, CallsAreOrdered, Idle
  <1>8. NumbersAreUsed'
    <2>1. ASSUME NEW i \in DOMAIN log', log'[i] \in Records
          PROVE  log'[i].call <= calls
      <3>1. Has(log', {log'[i]})
        BY DEF Has
      <3>2. Has(log, {log'[i]}) \/ r = log'[i]
        BY <1>5, <3>1
      <3>3. /\ node.call <= calls
            /\ \A j \in DOMAIN log : log[j] \in Records => log[j].call <= calls
        BY DEF Rest, NumbersAreUsed
      <3> QED BY <1>4, <2>1, <3>2, <3>3 DEF Has
    <2> QED BY <1>1, <1>2, <2>1 DEF Rest, NumbersAreUsed
  <1>9. NamesAreWritten'
    <2>1. NamesAreWritten /\ UNCHANGED <<numbered, queues>>
      BY <1>1 DEF Rest
    <2>2. \A u \in Threads : call'[u].number \in queues => call'[u].todo = <<>>
      BY <1>1, <2>1 DEF NamesAreWritten, Idle
    <2>3. \A other \in nodes' : other.queue \in queues
      BY <1>2, <2>1 DEF NamesAreWritten
    <2>4. \A d \in Descriptions : r \notin {d}
      BY <1>4, BlocksDiffer
    <2>5. Named(log')
      <3>1. NameOf(r) = QueueName(node.queue)
        <4>1. node.queue \notin Threads
          BY <1>3, TraceThreadsAssumption, TraceBoundsAssumption
        <4> QED BY <1>4, <4>1 DEF NameOf
      <3>2. Has(log, {NameOf(r)})
        BY <1>3, <2>1, <3>1 DEF NamesAreWritten
      <3> QED BY <1>5, <2>1, <3>2, NamedLog, GrownNamed
    <2> QED BY <1>5, <2>1, <2>2, <2>3, <2>4, <2>5, NamesKept
  <1>10. FlushedAreSecured'
    <2>1. ASSUME NEW u \in Threads, Flushes(config, call'[u].kind),
                 ~Has(call'[u].todo, {"flushBuffering"})
          PROVE  Secured(u)'
      <3>1. Flushes(config, call[u].kind) /\ ~Has(call[u].todo, {"flushBuffering"})
        BY <1>1, <2>1
      <3>2. u # t
        BY <1>6, <3>1 DEF Ordered, Has, Recording
      <3>3. SecuredIn(log, durable, u)
        BY <3>1, SecuredAs DEF Rest, FlushedAreSecured
      <3>4. SecuredIn(log', durable, u)
        BY <1>4, <1>5, <3>2, <3>3, LogTypes, GrownSecured
      <3> QED BY <1>5, <3>4, SecuredAs
    <2>2. config.DeviceTiming
      BY <1>6 DEF Ordered
    <2>3. config' = config
      BY <1>1
    <2> QED BY <2>1, <2>2, <2>3 DEF FlushedAreSecured
  <1>11. RecordsAreApart'
    <2>1. \A n \in 1 .. MaxCalls :
             /\ Pending("callLoggingId", n)' <=> Pending("callLoggingId", n)
             /\ Pending("addTimingEvent", n)' <=> Pending("addTimingEvent", n)
      BY <1>1 DEF Pending
    <2>2. \A k, n : r \in Of(k, n) <=> k = "deviceTiming" /\ node.call = n
      BY <1>4 DEF Of
    <2> SUFFICES ASSUME NEW n \in 1 .. MaxCalls
                 PROVE  /\ Once(log', Of("callLoggingId", n)) /\ Once(log', Of("deviceTiming", n))
                        /\ Pending("callLoggingId", n)' => ~Has(log', Of("callLoggingId", n))
                        /\ Pending("addTimingEvent", n)' =>
                              ~HasNode(n)' /\ ~Has(log', Of("deviceTiming", n))
                        /\ HasNode(n)' => ~Has(log', Of("deviceTiming", n))
                        /\ \A one, other \in nodes' :
                              one.call = n /\ other.call = n => one = other
                        /\ config'.CallLogging
                               /\ (HasNode(n)' \/ Has(log', Of("deviceTiming", n))) =>
                              Has(log', Of("callLoggingId", n)) \/ Pending("callLoggingId", n)'
      BY DEF RecordsAreApart, Of
    <2>3. /\ Once(log, Of("callLoggingId", n)) /\ Once(log, Of("deviceTiming", n))
          /\ Pending("callLoggingId", n) => ~Has(log, Of("callLoggingId", n))
          /\ Pending("addTimingEvent", n) => ~HasNode(n) /\ ~Has(log, Of("deviceTiming", n))
          /\ HasNode(n) => ~Has(log, Of("deviceTiming", n))
          /\ \A one, other \in nodes : one.call = n /\ other.call = n => one = other
          /\ config.CallLogging /\ (HasNode(n) \/ Has(log, Of("deviceTiming", n))) =>
                Has(log, Of("callLoggingId", n)) \/ Pending("callLoggingId", n)
      BY DEF Rest, RecordsAreApart
    <2>4. /\ \A one, other \in nodes' : one.call = n /\ other.call = n => one = other
          /\ HasNode(n)' => HasNode(n)
          /\ node.call = n => HasNode(n) /\ ~HasNode(n)'
      BY <1>2, <2>3 DEF HasNode
    <2>5. /\ Has(log', Of("callLoggingId", n)) <=> Has(log, Of("callLoggingId", n))
          /\ Once(log', Of("callLoggingId", n))
      BY <1>5, <2>2, <2>3
    <2>6. /\ Has(log', Of("deviceTiming", n)) <=>
                Has(log, Of("deviceTiming", n)) \/ node.call = n
          /\ Once(log', Of("deviceTiming", n))
      BY <1>5, <2>2, <2>3, <2>4
    <2>7. config' = config
      BY <1>1
    <2> QED BY <2>1, <2>3, <2>4, <2>5, <2>6, <2>7
  <1> QED BY <1>7, <1>8, <1>9, <1>10, <1>11 DEF Rest

LEMMA InitRest ==
  ASSUME Init, Inv
  PROVE  Rest
  <1>1. /\ file = <<ProcessName, StartTime>> /\ buffer = <<>> /\ nodes = {} /\ queues = {}
        /\ numbered = {} /\ calls = 0 /\ \A t \in Threads : call[t] = NoCall
    BY DEF Init
  <1>2. log = file
    BY <1>1, InvParts, FileAndBuffer DEF log
  <1>3. DOMAIN log = {1, 2} /\ log[1] = ProcessName /\ log[2] = StartTime
    <2>1. DOMAIN <<ProcessName, StartTime>> = {1, 2}
      OBVIOUS
    <2> QED BY <1>1, <1>2, <2>1
  <1>4. \A V : ProcessName \notin V /\ StartTime \notin V => ~Has(log, V) /\ Once(log, V)
    BY <1>3 DEF Has, Once
  <1>5. ~Has(log, Records) /\ \A d \in Descriptions : ~Has(log, {d}) /\ Once(log, {d})
    BY <1>4, BlocksDiffer
  <1>6. \A t \in Threads : /\ call[t].todo = <<>> /\ call[t].number = 0 /\ call[t].kind = "none"
                           /\ Idle(t)
    BY <1>1 DEF NoCall, Idle
  <1>7. \A t \in Threads : \A x : ~Has(call[t].todo, {x})
    BY <1>6 DEF Has
  <1>8. CallsAreOrdered
    <2>1. \A c : Ordered(<<>>, c, "none")
      BY DEF Ordered, Once, Flushes
    <2> QED BY <1>6, <2>1 DEF CallsAreOrdered
  <1>9. NumbersAreUsed
    BY <1>1, <1>5, <1>6 DEF NumbersAreUsed, Has
  <1>10. NamesAreWritten
    <2>1. /\ \A t \in Threads : ThreadName(t) \in Descriptions
          /\ \A q \in 1 .. MaxCalls : QueueName(q) \in Descriptions
      BY DEF Descriptions
    <2> QED BY <1>1, <1>5, <1>6, <2>1 DEF NamesAreWritten, Has
  <1>11. RecordsAreApart
    <2>1. \A k, n : ~Has(log, Of(k, n)) /\ Once(log, Of(k, n))
      BY <1>5 DEF Has, Once, Of
    <2>2. \A n : ~HasNode(n)
      BY <1>1 DEF HasNode
    <2>3. \A step, n : ~Pending(step, n)
      BY <1>7 DEF Pending
    <2> QED BY <1>1, <2>1, <2>2, <2>3 DEF RecordsAreApart
  <1>12. FlushedAreSecured
    BY <1>5 DEF FlushedAreSecured, Secured, Has
  <1> QED BY <1>8, <1>9, <1>10, <1>11, <1>12 DEF Rest

LEMMA NextKeepsRest ==
  ASSUME Inv, Rest, [Next]_vars
  PROVE  Rest'
  <1>1. Inv'
    BY NextSteps
  <1>2. CASE UNCHANGED vars
    <2>1. UNCHANGED <<config, calls, call, numbered, queues, nodes>> /\ UNCHANGED tracer
      BY <1>2 DEF vars, layer
    <2>2. log' = log /\ Plain
      BY <2>1, QuietIsPlain
    <2> QED BY <1>1, <2>1, <2>2, OtherKeeps
  <1>3. CASE Unload
    BY <1>1, <1>3, UnloadKeeps
  <1>4. ASSUME NEW t \in Threads, Begin(t) \/ Step(t)
        PROVE  Rest'
    BY <1>1, <1>4, BeginKeeps, AddTimingEventKeeps, QuietStepsKeep, GetThreadNumberKeeps,
       AddCallLoggingKeeps, ChromeTraceEventKeeps, RegisterKeeps DEF Step
  <1> QED BY <1>2, <1>3, <1>4 DEF Next

LEMMA TraceInvariant == Spec => [](Inv /\ Rest)
  <1>1. Init => Inv /\ Rest
    BY InitInv, InitRest
  <1>2. Inv /\ Rest /\ [Next]_vars => (Inv /\ Rest)'
    BY NextSteps, NextKeepsRest
  <1> QED BY <1>1, <1>2, PTL DEF Spec

\* What is somewhere in the log and at one place at most is at one place.
LEMMA OnePlace ==
  ASSUME NEW l, NEW V, Has(l, V), Once(l, V)
  PROVE  Cardinality({i \in DOMAIN l : l[i] \in V}) = 1
  <1>1. PICK i \in DOMAIN l : l[i] \in V
    BY DEF Has
  <1>2. {j \in DOMAIN l : l[j] \in V} = {i}
    BY <1>1 DEF Once
  <1> QED BY <1>2, FS_Singleton

\* Every record's track is named before the record, and once, for any number of
\* threads and queues: getThreadNumber and chromeRegisterCommandQueue write the
\* name past the buffer, and every record of a call comes after the former.
THEOREM TracksAlwaysNamed == ReportingSpec => []TracksAreNamed
  <1>1. Inv /\ Rest => TracksAreNamed
    <2> SUFFICES ASSUME Inv, Rest, NEW i \in DOMAIN log, log[i] \in Records
                 PROVE  /\ \E j \in 1 .. i - 1 : log[j] = NameOf(log[i])
                        /\ Cardinality({j \in DOMAIN log : log[j] = NameOf(log[i])}) = 1
      BY DEF TracksAreNamed, NameOf
    <2>1. PICK j \in DOMAIN log : j < i /\ log[j] = NameOf(log[i])
      BY DEF Rest, NamesAreWritten
    <2>2. j \in 1 .. i - 1
      BY <2>1, LogTypes
    <2>3. NameOf(log[i]) \in Descriptions
      <3>1. log[i].track \in Threads \cup 1 .. MaxCalls
        BY DEF Records
      <3> QED BY <3>1 DEF NameOf, Descriptions
    <2> DEFINE V == {NameOf(log[i])}
    <2>4. Has(log, V) /\ Once(log, V)
      BY <2>1, <2>3 DEF Has, Rest, NamesAreWritten
    <2>5. {k \in DOMAIN log : log[k] \in V} = {k \in DOMAIN log : log[k] = NameOf(log[i])}
      OBVIOUS
    <2> HIDE DEF V
    <2>6. Cardinality({k \in DOMAIN log : log[k] \in V}) = 1
      BY <2>4, OnePlace
    <2> QED BY <2>1, <2>2, <2>5, <2>6
  <1> QED BY EachReport, <1>1, TraceInvariant, PTL

\* The phases of the lines of a record.
LEMMA Phases ==
  ASSUME config.FlowEvents, ~config.InStages, NEW r \in Records
  PROVE  /\ (\E k \in DOMAIN Lines(r) : Lines(r)[k] = "s") <=> r.kind = "callLoggingId"
         /\ (\E k \in DOMAIN Lines(r) : Lines(r)[k] = "f") <=> r.kind = "deviceTiming"
  <1>1. /\ DOMAIN <<"X">> = {1} /\ <<"X">>[1] = "X"
        /\ DOMAIN <<"X", "s">> = {1, 2} /\ <<"X", "s">>[1] = "X" /\ <<"X", "s">>[2] = "s"
        /\ DOMAIN <<"f", "X">> = {1, 2} /\ <<"f", "X">>[1] = "f" /\ <<"f", "X">>[2] = "X"
    OBVIOUS
  <1>2. CASE r.kind = "deviceTiming"
    <2>1. Lines(r) = <<"f", "X">>
      BY <1>2 DEF Lines, DeviceLines
    <2> QED BY <1>1, <1>2, <2>1
  <1>3. CASE r.kind = "callLoggingId"
    <2>1. Lines(r) = <<"X", "s">>
      BY <1>3 DEF Lines, CallLines
    <2> QED BY <1>1, <1>3, <2>1
  <1>4. CASE r.kind # "deviceTiming" /\ r.kind # "callLoggingId"
    <2>1. Lines(r) = <<"X">>
      BY <1>4 DEF Lines, CallLines
    <2> QED BY <1>1, <1>4, <2>1
  <1> QED BY <1>2, <1>3, <1>4

\* Every flow of a command that the file shows has one start and one end, for
\* any number of threads, commands and queues and any buffer.
THEOREM FlowsAlwaysMeet == ReportingSpec => []FlowsMeet
  <1>1. Inv /\ Rest => FlowsMeet
    <2> SUFFICES ASSUME Inv, Rest, config.FlowEvents, config.CallLogging, ~config.InStages,
                        Quiescent, NEW r \in Recorded, r.kind = "deviceTiming"
                 PROVE  FlowMeets(r.call)
      BY DEF FlowsMeet
    <2> DEFINE n == r.call
               S == Of("callLoggingId", n)
               F == Of("deviceTiming", n)
    <2>1. r \in Records /\ n \in 1 .. MaxCalls /\ \E i \in DOMAIN log : log[i] = r
      BY DEF Recorded, Records
    <2>2. Has(log, F)
      BY <2>1 DEF Has, Of
    <2>3. ~Pending("callLoggingId", n)
      BY DEF Pending, Quiescent, Idle, Has
    <2>4. Has(log, S) /\ Once(log, S) /\ Once(log, F)
      BY <2>1, <2>2, <2>3 DEF Rest, RecordsAreApart
    <2>5. Flow("s", n) = {i \in DOMAIN log : log[i] \in S}
      BY Phases DEF Flow, Of
    <2>6. Flow("f", n) = {i \in DOMAIN log : log[i] \in F}
      BY Phases DEF Flow, Of
    <2> HIDE DEF n, S, F
    <2>7. Cardinality({i \in DOMAIN log : log[i] \in S}) = 1
          /\ Cardinality({i \in DOMAIN log : log[i] \in F}) = 1
      BY <2>2, <2>4, OnePlace
    <2> QED BY <2>5, <2>6, <2>7 DEF FlowMeets, n
  <1> QED BY EachReport, <1>1, TraceInvariant, PTL

\* After a blocking call that flushes, all that its thread recorded is with the
\* operating system, for any number of threads and any size of the buffer.
THEOREM BlockingCallsAlwaysDurable == ReportingSpec => []BlockingCallsAreDurable
  <1>1. Inv /\ Rest => BlockingCallsAreDurable
    <2> SUFFICES ASSUME Rest, NEW t \in Threads, Idle(t), Flushes(config, call[t].kind)
                 PROVE  Secured(t)
      BY DEF BlockingCallsAreDurable, Flushes, Secured
    <2>1. ~Has(call[t].todo, {"flushBuffering"})
      BY DEF Idle, Has
    <2> QED BY <2>1 DEF Rest, FlushedAreSecured
  <1> QED BY EachReport, <1>1, TraceInvariant, PTL

-----------------------------------------------------------------------------
(* EnqueueReports: what is assumed of the constants, and the inductive        *)
(* invariant.                                                                 *)

\* The library's operators that EnqueueReports uses are those of the theorems.
LEMMA SameCardinality ==
  /\ \A X : Rep!IsFiniteSet(X) = IsFiniteSet(X)
  /\ \A X : Rep!Cardinality(X) = Cardinality(X)
  BY DEF Rep!IsFiniteSet, IsFiniteSet, Rep!Cardinality, Cardinality

LEMMA ReportsAssumption ==
  /\ IsFiniteSet(Callers) /\ MaxCommands \in Nat
  /\ ReportConfigs \subseteq [ExitOnEnqueueCount : Nat, ReportInterval : Nat, Min : Nat, Max : Nat]
  BY ReportsAssumed, SameCardinality DEF Rep!ReportAssumption

ReportTypes ==
    /\ controls \in ReportConfigs
    /\ begun \in 0 .. MaxCommands
    /\ enqueueCounter \in Nat
    /\ callers \in [Callers -> [at : Rep!Locations, number : Nat]]
    /\ \A t \in Callers : /\ callers[t].number <= enqueueCounter
                          /\ Rep!At(t, "driver") => callers[t].number < enqueueCounter
    /\ numberOfCalls \in Nat
    /\ reports \in Seq([enqueues : Nat, calls : Nat])
    /\ process \in {"running", "exiting", "over"}

Where(locations) == {t \in Callers : callers[t].at \in locations}
Uncounted == {"exitCheck", "exit", "intervalCheck", "report", "increment", "unload"}
Passed    == {"intervalCheck", "report", "increment"}
InFlight  == {t \in Callers : Rep!At(t, "driver") /\ Rep!InWindow(callers[t].number)}

\* Every command that began is counted or on its way to the counter.
Counted == Cardinality(Where(Uncounted)) + enqueueCounter = begun

\* Every command in the window is in the statistics or in the driver.
Timed == numberOfCalls + Cardinality(InFlight) = Cardinality(Rep!Window(enqueueCounter))

\* A thread that passed the exit check will count one more command.
Limited ==
    controls.ExitOnEnqueueCount # 0 =>
        enqueueCounter + Cardinality(Where(Passed))
            < controls.ExitOnEnqueueCount + Cardinality(Callers)

\* No report is ahead of the counter or of the statistics.
ReportsArePast ==
    \A i \in DOMAIN reports :
        reports[i].enqueues <= enqueueCounter /\ reports[i].calls <= numberOfCalls

\* No report is behind or ahead of what was enqueued: ReportsAgree.
Agreed ==
    \A i \in DOMAIN reports :
        LET enqueues == Cardinality(Rep!Window(reports[i].enqueues)) IN
        /\ reports[i].calls <= enqueues
        /\ enqueues <= reports[i].calls + Cardinality(Callers)

LEMMA AgreedIsAgree == Agreed <=> ReportsAgree
  BY SameCardinality DEF Agreed, ReportsAgree, Rep!ReportsAgree

ReportInv ==
    /\ ReportTypes /\ Counted /\ Timed /\ Limited
    /\ ReportsArePast /\ Rep!ReportsGrow /\ Agreed

-----------------------------------------------------------------------------
(* The sets of threads that the invariant counts, and the window. *)

LEMMA WhereFinite ==
  ASSUME NEW locations
  PROVE  /\ IsFiniteSet(Where(locations))
         /\ Cardinality(Where(locations)) \in Nat
         /\ Cardinality(Where(locations)) <= Cardinality(Callers)
         /\ Cardinality(Callers) \in Nat
  <1>1. Where(locations) \subseteq Callers
    BY DEF Where
  <1> QED BY <1>1, ReportsAssumption, FS_Subset, FS_CardinalityType

\* A thread that moves joins or leaves a set of locations, and no other does.
LEMMA WhereMoves ==
  ASSUME NEW t \in Callers, \A u \in Callers \ {t} : callers'[u] = callers[u], NEW locations
  PROVE  /\ (callers[t].at \in locations <=> callers'[t].at \in locations) =>
               Where(locations)' = Where(locations)
         /\ callers[t].at \in locations /\ callers'[t].at \notin locations =>
               Cardinality(Where(locations)') = Cardinality(Where(locations)) - 1
         /\ callers[t].at \notin locations /\ callers'[t].at \in locations =>
               Cardinality(Where(locations)') = Cardinality(Where(locations)) + 1
  <1>1. CASE callers[t].at \in locations <=> callers'[t].at \in locations
    BY <1>1 DEF Where
  <1>2. CASE callers[t].at \in locations /\ callers'[t].at \notin locations
    <2>1. Where(locations)' = Where(locations) \ {t} /\ t \in Where(locations)
      BY <1>2 DEF Where
    <2> QED BY <1>2, <2>1, WhereFinite, FS_RemoveElement
  <1>3. CASE callers[t].at \notin locations /\ callers'[t].at \in locations
    <2>1. Where(locations)' = Where(locations) \cup {t} /\ t \notin Where(locations)
      BY <1>3 DEF Where
    <2> QED BY <1>3, <2>1, WhereFinite, FS_AddElement
  <1> QED BY <1>1, <1>2, <1>3

LEMMA InFlightFinite ==
  /\ IsFiniteSet(InFlight) /\ Cardinality(InFlight) \in Nat
  /\ Cardinality(InFlight) <= Cardinality(Callers) /\ Cardinality(Callers) \in Nat
  <1>1. InFlight \subseteq Callers
    BY DEF InFlight
  <1> QED BY <1>1, ReportsAssumption, FS_Subset, FS_CardinalityType

LEMMA WindowFinite ==
  ASSUME NEW n \in Nat
  PROVE  /\ IsFiniteSet(Rep!Window(n)) /\ Cardinality(Rep!Window(n)) \in Nat
         /\ Cardinality(Rep!Window(n)) <= n
  <1>1. Rep!Window(n) \subseteq 0 .. n - 1 /\ IsFiniteSet(0 .. n - 1)
        /\ Cardinality(0 .. n - 1) = n
    BY FS_Interval DEF Rep!Window
  <1> QED BY <1>1, FS_Subset, FS_CardinalityType

\* Counting one more command adds its number to the window, if it belongs there.
LEMMA WindowGrows ==
  ASSUME NEW n \in Nat
  PROVE  /\ Rep!InWindow(n) => Cardinality(Rep!Window(n + 1)) = Cardinality(Rep!Window(n)) + 1
         /\ ~Rep!InWindow(n) => Rep!Window(n + 1) = Rep!Window(n)
  <1>1. 0 .. (n + 1) - 1 = (0 .. n - 1) \cup {n} /\ n \notin 0 .. n - 1
    OBVIOUS
  <1>2. CASE Rep!InWindow(n)
    <2>1. Rep!Window(n + 1) = Rep!Window(n) \cup {n} /\ n \notin Rep!Window(n)
      BY <1>1, <1>2 DEF Rep!Window
    <2> QED BY <1>2, <2>1, WindowFinite, FS_AddElement
  <1>3. CASE ~Rep!InWindow(n)
    BY <1>1, <1>3 DEF Rep!Window
  <1> QED BY <1>2, <1>3

-----------------------------------------------------------------------------
(* Reports. *)

\* A report written now keeps what is said of reports.
LEMMA ReportKeepsReports ==
  ASSUME ReportInv, Rep!WriteReport, UNCHANGED <<controls, enqueueCounter, numberOfCalls>>
  PROVE  /\ reports' \in Seq([enqueues : Nat, calls : Nat])
         /\ ReportsArePast' /\ Rep!ReportsGrow' /\ Agreed'
  <1> DEFINE n == Len(reports)
  <1>1. /\ n \in Nat /\ Rep!Report \in [enqueues : Nat, calls : Nat]
        /\ Rep!Report.enqueues = enqueueCounter /\ Rep!Report.calls = numberOfCalls
    BY DEF ReportInv, ReportTypes, Rep!Report
  <1>2. /\ reports' \in Seq([enqueues : Nat, calls : Nat])
        /\ DOMAIN reports = 1 .. n /\ DOMAIN reports' = 1 .. n + 1
        /\ reports'[n + 1] = Rep!Report
        /\ \A i \in 1 .. n : reports'[i] = reports[i]
    BY <1>1 DEF ReportInv, ReportTypes, Rep!WriteReport
  <1>3. Rep!Window(enqueueCounter)' = Rep!Window(enqueueCounter)
        /\ \A m : Rep!Window(m)' = Rep!Window(m)
    BY DEF Rep!Window, Rep!InWindow
  <1>4. ReportsArePast'
    <2> SUFFICES ASSUME NEW i \in 1 .. n + 1
                 PROVE  /\ reports'[i].enqueues <= enqueueCounter
                        /\ reports'[i].calls <= numberOfCalls
      BY <1>2 DEF ReportsArePast
    <2>1. CASE i = n + 1
      BY <2>1, <1>1, <1>2 DEF ReportInv, ReportTypes
    <2>2. CASE i \in 1 .. n
      BY <2>2, <1>2 DEF ReportInv, ReportsArePast
    <2> QED BY <1>1, <2>1, <2>2
  <1>5. Rep!ReportsGrow'
    <2> SUFFICES ASSUME NEW j \in 1 .. n + 1, NEW i \in 1 .. j
                 PROVE  /\ reports'[i].enqueues <= reports'[j].enqueues
                        /\ reports'[i].calls <= reports'[j].calls
      BY <1>2 DEF Rep!ReportsGrow
    <2>1. CASE j = n + 1
      BY <2>1, <1>1, <1>2, <1>4 DEF ReportsArePast, ReportInv, ReportTypes
    <2>2. CASE j \in 1 .. n
      <3>1. i \in 1 .. n
        BY <1>1, <2>2
      <3> QED BY <2>2, <3>1, <1>2 DEF ReportInv, Rep!ReportsGrow
    <2> QED BY <1>1, <2>1, <2>2
  <1>6. Agreed'
    <2> DEFINE Agrees(r) == /\ r.calls <= Cardinality(Rep!Window(r.enqueues))
                            /\ Cardinality(Rep!Window(r.enqueues))
                                  <= r.calls + Cardinality(Callers)
    <2>1. Agrees(Rep!Report)
      <3>1. numberOfCalls \in Nat /\ enqueueCounter \in Nat
            /\ numberOfCalls + Cardinality(InFlight) = Cardinality(Rep!Window(enqueueCounter))
        BY DEF ReportInv, ReportTypes, Timed
      <3>2. /\ numberOfCalls <= Cardinality(Rep!Window(enqueueCounter))
            /\ Cardinality(Rep!Window(enqueueCounter)) <= numberOfCalls + Cardinality(Callers)
        BY <3>1, InFlightFinite, WindowFinite
      <3> QED BY <1>1, <3>2
    <2>2. \A i \in 1 .. n : Agrees(reports[i])
      BY <1>2 DEF ReportInv, Agreed
    <2>3. \A i \in 1 .. n + 1 : Agrees(reports'[i])
      BY <1>1, <1>2, <2>1, <2>2
    <2> QED BY <1>2, <1>3, <2>3 DEF Agreed
  <1> QED BY <1>2, <1>4, <1>5, <1>6

\* Types of the reports after any step.
LEMMA ReportKeepsType ==
  ASSUME ReportTypes, Rep!WriteReport \/ UNCHANGED reports
  PROVE  reports' \in Seq([enqueues : Nat, calls : Nat])
  <1>1. Rep!Report \in [enqueues : Nat, calls : Nat]
    BY DEF ReportTypes, Rep!Report
  <1>2. CASE Rep!WriteReport
    BY <1>1, <1>2, AppendProperties DEF ReportTypes, Rep!WriteReport
  <1>3. CASE UNCHANGED reports
    BY <1>3 DEF ReportTypes
  <1> QED BY <1>2, <1>3

\* Counting on keeps what is said of the reports there are.
LEMMA CountingKeepsReports ==
  ASSUME ReportInv, UNCHANGED <<controls, reports>>,
         enqueueCounter' \in Nat, enqueueCounter <= enqueueCounter',
         numberOfCalls' \in Nat, numberOfCalls <= numberOfCalls'
  PROVE  /\ reports' \in Seq([enqueues : Nat, calls : Nat])
         /\ ReportsArePast' /\ Rep!ReportsGrow' /\ Agreed'
  <1>1. \A m : Rep!Window(m)' = Rep!Window(m)
    BY DEF Rep!Window, Rep!InWindow
  <1>2. \A i \in DOMAIN reports : reports[i].enqueues \in Nat /\ reports[i].calls \in Nat
    <2>1. reports \in Seq([enqueues : Nat, calls : Nat])
      BY DEF ReportInv, ReportTypes
    <2>2. \A i \in DOMAIN reports : reports[i] \in [enqueues : Nat, calls : Nat]
      BY <2>1, ElementOfSeq, LenProperties
    <2> QED BY <2>2
  <1>3. ReportsArePast'
    BY <1>2 DEF ReportInv, ReportTypes, ReportsArePast
  <1>4. Agreed'
    BY <1>1 DEF ReportInv, Agreed
  <1> QED BY <1>3, <1>4 DEF ReportInv, ReportTypes, Rep!ReportsGrow

-----------------------------------------------------------------------------
(* One step. *)

\* A thread that goes elsewhere.
LEMMA GotoMoves ==
  ASSUME ReportTypes, NEW t \in Callers, NEW l \in Rep!Locations, Rep!Goto(t, l)
  PROVE  /\ callers' \in [Callers -> [at : Rep!Locations, number : Nat]]
         /\ callers'[t].number = callers[t].number /\ callers'[t].at = l
         /\ \A u \in Callers \ {t} : callers'[u] = callers[u]
  BY DEF ReportTypes, Rep!Goto

\* A step to any location but the driver changes no command in flight.
LEMMA GotoKeepsInFlight ==
  ASSUME ReportTypes, NEW t \in Callers, NEW l \in Rep!Locations \ {"driver"}, Rep!Goto(t, l),
         ~Rep!At(t, "driver"), UNCHANGED controls
  PROVE  InFlight' = InFlight
  <1>1. /\ callers'[t].at = l /\ \A u \in Callers \ {t} : callers'[u] = callers[u]
    BY GotoMoves
  <1> QED BY <1>1 DEF InFlight, Rep!At, Rep!InWindow

\* A step that only moves a thread, before its command is counted.
LEMMA MoveKeepsInv ==
  ASSUME ReportInv, NEW t \in Callers, NEW l \in Uncounted, Rep!Goto(t, l),
         callers[t].at \in Uncounted,
         l \in Passed => \/ callers[t].at \in Passed
                         \/ controls.ExitOnEnqueueCount = 0
                         \/ enqueueCounter < controls.ExitOnEnqueueCount,
         UNCHANGED <<controls, begun, enqueueCounter, numberOfCalls>>,
         process' \in {"running", "exiting", "over"},
         Rep!WriteReport \/ UNCHANGED reports
  PROVE  ReportInv'
  <1> USE DEF ReportInv
  <1>1. /\ callers' \in [Callers -> [at : Rep!Locations, number : Nat]]
        /\ callers'[t].at = l
        /\ \A u \in Callers \ {t} : callers'[u] = callers[u]
    BY GotoMoves DEF Uncounted, Rep!Locations
  <1>2. InFlight' = InFlight
    BY GotoKeepsInFlight DEF Uncounted, Rep!Locations, Rep!At
  <1>3. \A m : Rep!Window(m)' = Rep!Window(m)
    BY DEF Rep!Window, Rep!InWindow
  <1>4. /\ reports' \in Seq([enqueues : Nat, calls : Nat])
        /\ ReportsArePast' /\ Rep!ReportsGrow' /\ Agreed'
    <2>1. CASE Rep!WriteReport
      BY <2>1, ReportKeepsReports
    <2>2. CASE UNCHANGED reports
      BY <2>2, CountingKeepsReports DEF ReportTypes
    <2> QED BY <2>1, <2>2
  <1>5. ReportTypes'
    <2>1. callers'[t].number = callers[t].number /\ l # "driver"
      BY GotoMoves DEF Uncounted, Rep!Locations
    <2>2. \A u \in Callers : callers'[u].number <= enqueueCounter
      BY <1>1, <2>1 DEF ReportTypes
    <2>3. \A u \in Callers : callers'[u].at = "driver" => callers'[u].number < enqueueCounter
      BY <1>1, <2>1 DEF ReportTypes, Rep!At
    <2> QED BY <1>1, <1>4, <2>2, <2>3 DEF ReportTypes, Rep!At
  <1>6. Counted'
    <2>1. Where(Uncounted)' = Where(Uncounted)
      BY <1>1, WhereMoves
    <2> QED BY <2>1 DEF Counted
  <1>7. Timed'
    BY <1>2, <1>3 DEF Timed
  <1>8. Limited'
    <2> SUFFICES ASSUME controls.ExitOnEnqueueCount # 0
                 PROVE  enqueueCounter + Cardinality(Where(Passed)')
                          < controls.ExitOnEnqueueCount + Cardinality(Callers)
      BY DEF Limited
    <2>1. /\ Cardinality(Where(Passed)) \in Nat /\ Cardinality(Callers) \in Nat
          /\ controls.ExitOnEnqueueCount \in Nat /\ enqueueCounter \in Nat
      BY WhereFinite, ReportsAssumption DEF ReportTypes
    <2>2. CASE callers[t].at \in Passed <=> l \in Passed
      <3>1. Where(Passed)' = Where(Passed)
        BY <1>1, <2>2, WhereMoves
      <3> QED BY <3>1 DEF Limited
    <2>3. CASE callers[t].at \in Passed /\ l \notin Passed
      <3>1. Cardinality(Where(Passed)') = Cardinality(Where(Passed)) - 1
        BY <1>1, <2>3, WhereMoves
      <3> QED BY <2>1, <3>1 DEF Limited
    <2>4. CASE callers[t].at \notin Passed /\ l \in Passed
      <3>1. enqueueCounter < controls.ExitOnEnqueueCount
        BY <2>4
      <3>2. Where(Passed)' \subseteq Callers
        BY DEF Where
      <3>3. /\ Cardinality(Where(Passed)') <= Cardinality(Callers)
            /\ Cardinality(Where(Passed)') \in Nat
        BY <3>2, ReportsAssumption, FS_Subset, FS_CardinalityType
      <3> QED BY <2>1, <3>1, <3>3
    <2> QED BY <2>2, <2>3, <2>4
  <1> QED BY <1>4, <1>5, <1>6, <1>7, <1>8

LEMMA BeginKeepsInv ==
  ASSUME ReportInv, NEW t \in Callers, Rep!Begin(t)
  PROVE  ReportInv'
  <1> USE DEF ReportInv
  <1>0. /\ "exitCheck" \in Rep!Locations \ {"driver"}
        /\ ~Rep!At(t, "driver") /\ Rep!Goto(t, "exitCheck")
    BY DEF Rep!Locations, Rep!Begin, Rep!At
  <1>1. /\ callers' \in [Callers -> [at : Rep!Locations, number : Nat]]
        /\ callers'[t].at = "exitCheck"
        /\ \A u \in Callers \ {t} : callers'[u] = callers[u]
    BY <1>0, GotoMoves
  <1>2. InFlight' = InFlight
    BY <1>0, GotoKeepsInFlight DEF Rep!Begin
  <1>3. \A m : Rep!Window(m)' = Rep!Window(m)
    BY DEF Rep!Window, Rep!InWindow, Rep!Begin
  <1>4. /\ reports' \in Seq([enqueues : Nat, calls : Nat])
        /\ ReportsArePast' /\ Rep!ReportsGrow' /\ Agreed'
    <2>1. /\ UNCHANGED <<controls, reports, enqueueCounter, numberOfCalls>>
          /\ enqueueCounter \in Nat /\ numberOfCalls \in Nat
      BY DEF Rep!Begin, ReportTypes
    <2> QED BY <2>1, CountingKeepsReports
  <1>5. ReportTypes'
    <2>1. callers'[t].number = callers[t].number
      BY <1>0, GotoMoves
    <2>2. begun' \in 0 .. MaxCommands
      BY ReportsAssumption DEF Rep!Begin, ReportTypes
    <2> QED BY <1>1, <1>4, <2>1, <2>2 DEF ReportTypes, Rep!At, Rep!Begin
  <1>6. Counted'
    <2>1. Cardinality(Where(Uncounted)') = Cardinality(Where(Uncounted)) + 1
      <3>1. callers[t].at \notin Uncounted /\ callers'[t].at \in Uncounted
        BY <1>1 DEF Rep!Begin, Rep!At, Uncounted
      <3> QED BY <1>1, <3>1, WhereMoves
    <2>2. begun' = begun + 1 /\ enqueueCounter' = enqueueCounter
      BY DEF Rep!Begin
    <2>3. enqueueCounter \in Nat /\ Cardinality(Where(Uncounted)) \in Nat
      BY WhereFinite DEF ReportTypes
    <2>4. (Cardinality(Where(Uncounted)) + 1) + enqueueCounter = begun + 1
      BY <2>3 DEF Counted
    <2> QED BY <2>1, <2>2, <2>4 DEF Counted
  <1>7. Timed'
    BY <1>2, <1>3 DEF Timed, Rep!Begin
  <1>8. Limited'
    <2>1. Where(Passed)' = Where(Passed)
      BY <1>1, WhereMoves DEF Rep!Begin, Rep!At, Passed
    <2> QED BY <2>1 DEF Limited, Rep!Begin
  <1> QED BY <1>4, <1>5, <1>6, <1>7, <1>8

LEMMA IncrementKeepsInv ==
  ASSUME ReportInv, NEW t \in Callers, Rep!Increment(t)
  PROVE  ReportInv'
  <1> USE DEF ReportInv
  <1>1. /\ callers' \in [Callers -> [at : Rep!Locations, number : Nat]]
        /\ callers'[t].at = "driver" /\ callers'[t].number = enqueueCounter
        /\ \A u \in Callers \ {t} : callers'[u] = callers[u]
    BY DEF Rep!Increment, ReportTypes, Rep!Locations
  <1>2. /\ callers[t].at = "increment" /\ enqueueCounter' = enqueueCounter + 1
        /\ enqueueCounter \in Nat /\ UNCHANGED <<controls, begun, numberOfCalls, process>>
    BY DEF Rep!Increment, Rep!At, ReportTypes
  <1>3. \A m : Rep!Window(m)' = Rep!Window(m)
    BY <1>2 DEF Rep!Window, Rep!InWindow
  <1>4. /\ reports' \in Seq([enqueues : Nat, calls : Nat])
        /\ ReportsArePast' /\ Rep!ReportsGrow' /\ Agreed'
    <2>1. /\ UNCHANGED reports /\ enqueueCounter' \in Nat
          /\ enqueueCounter <= enqueueCounter' /\ numberOfCalls \in Nat
      BY <1>2 DEF Rep!Increment, ReportTypes
    <2> QED BY <1>2, <2>1, CountingKeepsReports
  <1>5. ReportTypes'
    <2>1. \A u \in Callers : callers'[u].number < enqueueCounter'
      <3>1. \A u \in Callers : callers[u].number \in Nat /\ callers[u].number <= enqueueCounter
        BY DEF ReportTypes
      <3> QED BY <1>1, <1>2, <3>1
    <2>2. \A u \in Callers : callers'[u].number \in Nat
      BY <1>1
    <2> QED BY <1>1, <1>2, <1>4, <2>1, <2>2 DEF ReportTypes
  <1>6. Counted'
    <2>1. Cardinality(Where(Uncounted)') = Cardinality(Where(Uncounted)) - 1
      BY <1>1, <1>2, WhereMoves DEF Uncounted
    <2> QED BY <1>2, <2>1, WhereFinite DEF Counted, ReportTypes
  <1>7. Timed'
    <2>1. CASE Rep!InWindow(enqueueCounter)
      <3>1. InFlight' = InFlight \cup {t} /\ t \notin InFlight
        BY <1>1, <1>2, <2>1 DEF InFlight, Rep!At, Rep!InWindow
      <3>2. Cardinality(InFlight') = Cardinality(InFlight) + 1
        BY <3>1, InFlightFinite, FS_AddElement
      <3>3. Cardinality(Rep!Window(enqueueCounter + 1))
              = Cardinality(Rep!Window(enqueueCounter)) + 1
        BY <1>2, <2>1, WindowGrows
      <3> QED BY <1>2, <1>3, <3>2, <3>3, InFlightFinite, WindowFinite DEF Timed, ReportTypes
    <2>2. CASE ~Rep!InWindow(enqueueCounter)
      <3>1. InFlight' = InFlight
        BY <1>1, <1>2, <2>2 DEF InFlight, Rep!At, Rep!InWindow
      <3>2. Rep!Window(enqueueCounter + 1) = Rep!Window(enqueueCounter)
        BY <1>2, <2>2, WindowGrows
      <3> QED BY <1>2, <1>3, <3>1, <3>2 DEF Timed
    <2> QED BY <2>1, <2>2
  <1>8. Limited'
    <2>1. Cardinality(Where(Passed)') = Cardinality(Where(Passed)) - 1
      BY <1>1, <1>2, WhereMoves DEF Passed
    <2> QED BY <1>2, <2>1, WhereFinite DEF Limited
  <1> QED BY <1>4, <1>5, <1>6, <1>7, <1>8

LEMMA UpdateKeepsInv ==
  ASSUME ReportInv, NEW t \in Callers, Rep!UpdateHostTimingStats(t)
  PROVE  ReportInv'
  <1> USE DEF ReportInv
  <1>0. "idle" \in Rep!Locations /\ Rep!Goto(t, "idle") /\ callers[t].at = "driver"
        /\ UNCHANGED <<controls, begun, enqueueCounter, reports, process>>
    BY DEF Rep!Locations, Rep!UpdateHostTimingStats, Rep!At
  <1>1. /\ callers' \in [Callers -> [at : Rep!Locations, number : Nat]]
        /\ callers'[t].at = "idle"
        /\ \A u \in Callers \ {t} : callers'[u] = callers[u]
    BY <1>0, GotoMoves
  <1>2. numberOfCalls' \in Nat /\ numberOfCalls <= numberOfCalls'
    BY DEF Rep!UpdateHostTimingStats, ReportTypes
  <1>3. \A m : Rep!Window(m)' = Rep!Window(m)
    BY <1>0 DEF Rep!Window, Rep!InWindow
  <1>4. /\ reports' \in Seq([enqueues : Nat, calls : Nat])
        /\ ReportsArePast' /\ Rep!ReportsGrow' /\ Agreed'
    BY <1>0, <1>2, CountingKeepsReports DEF ReportTypes
  <1>5. ReportTypes'
    <2>1. callers'[t].number = callers[t].number
      BY <1>0, GotoMoves
    <2>2. \A u \in Callers : callers'[u].number <= enqueueCounter
      BY <1>1, <2>1 DEF ReportTypes
    <2>3. \A u \in Callers : callers'[u].at = "driver" => callers'[u].number < enqueueCounter
      BY <1>1, <2>1 DEF ReportTypes, Rep!At
    <2> QED BY <1>0, <1>1, <1>2, <1>4, <2>2, <2>3 DEF ReportTypes, Rep!At
  <1>6. Counted'
    <2>1. Where(Uncounted)' = Where(Uncounted)
      BY <1>0, <1>1, WhereMoves DEF Uncounted
    <2> QED BY <1>0, <2>1 DEF Counted
  <1>7. Timed'
    <2>1. CASE Rep!InWindow(callers[t].number)
      <3>1. InFlight' = InFlight \ {t} /\ t \in InFlight
        BY <1>0, <1>1, <2>1 DEF InFlight, Rep!At, Rep!InWindow
      <3>2. Cardinality(InFlight') = Cardinality(InFlight) - 1
        BY <3>1, InFlightFinite, FS_RemoveElement
      <3>3. numberOfCalls' = numberOfCalls + 1
        BY <2>1 DEF Rep!UpdateHostTimingStats
      <3> QED BY <1>0, <1>3, <3>2, <3>3, InFlightFinite, WindowFinite DEF Timed, ReportTypes
    <2>2. CASE ~Rep!InWindow(callers[t].number)
      <3>1. InFlight' = InFlight
        BY <1>0, <1>1, <2>2 DEF InFlight, Rep!At, Rep!InWindow
      <3>2. numberOfCalls' = numberOfCalls
        BY <2>2 DEF Rep!UpdateHostTimingStats
      <3> QED BY <1>0, <1>3, <3>1, <3>2 DEF Timed
    <2> QED BY <2>1, <2>2
  <1>8. Limited'
    <2>1. Where(Passed)' = Where(Passed)
      BY <1>0, <1>1, WhereMoves DEF Passed
    <2> QED BY <1>0, <2>1 DEF Limited
  <1> QED BY <1>4, <1>5, <1>6, <1>7, <1>8

\* A step that moves no thread: the end of the process.
LEMMA EndKeepsInv ==
  ASSUME ReportInv, UNCHANGED <<controls, begun, enqueueCounter, callers, numberOfCalls>>,
         process' \in {"running", "exiting", "over"},
         Rep!WriteReport \/ UNCHANGED reports
  PROVE  ReportInv'
  <1> USE DEF ReportInv
  <1>1. /\ reports' \in Seq([enqueues : Nat, calls : Nat])
        /\ ReportsArePast' /\ Rep!ReportsGrow' /\ Agreed'
    <2>1. CASE Rep!WriteReport
      BY <2>1, ReportKeepsReports
    <2>2. CASE UNCHANGED reports
      BY <2>2, CountingKeepsReports DEF ReportTypes
    <2> QED BY <2>1, <2>2
  <1>2. ReportTypes'
    BY <1>1 DEF ReportTypes, Rep!At
  <1>3. Counted' /\ Limited'
    BY DEF Counted, Limited, Where
  <1>4. Timed'
    BY DEF Timed, InFlight, Rep!Window, Rep!InWindow, Rep!At
  <1> QED BY <1>1, <1>2, <1>3, <1>4

LEMMA InitReportInv ==
  ASSUME Rep!Init
  PROVE  ReportInv
  <1>1. ReportTypes
    BY ReportsAssumption DEF Rep!Init, ReportTypes, Rep!NoCall, Rep!Locations, Rep!At
  <1>2. Where(Uncounted) = {} /\ Where(Passed) = {} /\ InFlight = {} /\ Rep!Window(0) = {}
    <2>1. \A t \in Callers : callers[t].at = "idle"
      BY DEF Rep!Init, Rep!NoCall
    <2>2. Where(Uncounted) = {} /\ Where(Passed) = {}
      BY <2>1 DEF Where, Uncounted, Passed
    <2>3. InFlight = {}
      BY <2>1 DEF InFlight, Rep!At
    <2>4. Rep!Window(0) = {}
      BY DEF Rep!Window
    <2> QED BY <2>2, <2>3, <2>4
  <1>3. Cardinality({}) = 0
    BY FS_EmptySet
  <1>4. Counted /\ Timed
    <2>1. enqueueCounter = 0 /\ begun = 0 /\ numberOfCalls = 0
      BY DEF Rep!Init
    <2>2. /\ Cardinality(Where(Uncounted)) = 0
          /\ Cardinality(InFlight) = 0 /\ Cardinality(Rep!Window(enqueueCounter)) = 0
      BY <1>2, <1>3, <2>1
    <2>3. Counted
      BY <2>1, <2>2 DEF Counted
    <2>4. Timed
      BY <2>1, <2>2 DEF Timed
    <2> QED BY <2>3, <2>4
  <1>5. Limited
    <2>1. Cardinality(Callers) \in Nat /\ controls.ExitOnEnqueueCount \in Nat
      BY ReportsAssumption, FS_CardinalityType, ReportsAssumption DEF Rep!Init
    <2> QED BY <1>2, <1>3, <2>1 DEF Limited, Rep!Init
  <1>6. ReportsArePast /\ Rep!ReportsGrow /\ Agreed
    BY DEF Rep!Init, ReportsArePast, Rep!ReportsGrow, Agreed
  <1> QED BY <1>1, <1>4, <1>5, <1>6 DEF ReportInv

LEMMA NextReportInv ==
  ASSUME ReportInv, [Rep!Next]_(Rep!vars)
  PROVE  ReportInv'
  <1>0. CASE UNCHANGED Rep!vars
    BY <1>0, EndKeepsInv DEF Rep!vars, ReportInv, ReportTypes
  <1>1. CASE Rep!Return
    BY <1>1, EndKeepsInv DEF Rep!Return
  <1>2. ASSUME NEW t \in Callers, Rep!Step(t)
        PROVE  ReportInv'
    <2>1. CASE Rep!Begin(t)
      BY <2>1, BeginKeepsInv
    <2>2. CASE Rep!ExitCheck(t)
      <3>1. controls.ExitOnEnqueueCount \in Nat /\ enqueueCounter \in Nat
        BY ReportsAssumption DEF ReportInv, ReportTypes
      <3>2. CASE controls.ExitOnEnqueueCount # 0 /\ enqueueCounter >= controls.ExitOnEnqueueCount
        <4>1. Rep!Goto(t, "exit") /\ "exit" \in Uncounted /\ callers[t].at \in Uncounted
              /\ "exit" \notin Passed
          BY <2>2, <3>2 DEF Rep!ExitCheck, Rep!At, Uncounted, Passed
        <4> QED BY <2>2, <4>1, MoveKeepsInv DEF Rep!ExitCheck, ReportInv, ReportTypes
      <3>3. CASE controls.ExitOnEnqueueCount = 0 \/ enqueueCounter < controls.ExitOnEnqueueCount
        <4>1. /\ Rep!Goto(t, "intervalCheck") /\ "intervalCheck" \in Uncounted
              /\ callers[t].at \in Uncounted
          BY <2>2, <3>1, <3>3 DEF Rep!ExitCheck, Rep!At, Uncounted
        <4> QED BY <2>2, <3>3, <4>1, MoveKeepsInv DEF Rep!ExitCheck, ReportInv, ReportTypes
      <3> QED BY <3>1, <3>2, <3>3
    <2>3. CASE Rep!IntervalCheck(t)
      <3>1. PICK l \in {"report", "increment"} : Rep!Goto(t, l)
        BY <2>3 DEF Rep!IntervalCheck
      <3>2. l \in Uncounted /\ callers[t].at \in Uncounted /\ callers[t].at \in Passed
        BY <2>3 DEF Rep!IntervalCheck, Rep!At, Uncounted, Passed
      <3> QED BY <2>3, <3>1, <3>2, MoveKeepsInv DEF Rep!IntervalCheck, ReportInv, ReportTypes
    <2>4. CASE Rep!IntervalReport(t)
      <3>1. /\ "increment" \in Uncounted
            /\ callers[t].at \in Uncounted /\ callers[t].at \in Passed
        BY <2>4 DEF Rep!IntervalReport, Rep!At, Uncounted, Passed
      <3> QED BY <2>4, <3>1, MoveKeepsInv DEF Rep!IntervalReport, ReportInv, ReportTypes
    <2>5. CASE Rep!Increment(t)
      BY <2>5, IncrementKeepsInv
    <2>6. CASE Rep!UpdateHostTimingStats(t)
      BY <2>6, UpdateKeepsInv
    <2>7. CASE Rep!Exit(t)
      <3>1. "unload" \in Uncounted /\ callers[t].at \in Uncounted /\ "unload" \notin Passed
        BY <2>7 DEF Rep!Exit, Rep!At, Uncounted, Passed
      <3> QED BY <2>7, <3>1, MoveKeepsInv DEF Rep!Exit
    <2>8. CASE Rep!Unload(t)
      BY <2>8, EndKeepsInv DEF Rep!Unload
    <2> QED BY <1>2, <2>1, <2>2, <2>3, <2>4, <2>5, <2>6, <2>7, <2>8 DEF Rep!Step
  <1> QED BY <1>0, <1>1, <1>2 DEF Rep!Next

LEMMA AlwaysReportInv == Rep!Spec => []ReportInv
  BY InitReportInv, NextReportInv, PTL DEF Rep!Spec

-----------------------------------------------------------------------------
(* The last report. *)

\* What the last report has, by how the process ends.
ExitIsDue == \A t \in Callers : Rep!At(t, "exit") => enqueueCounter >= controls.ExitOnEnqueueCount

ExitIsReported ==
    \A t \in Callers : Rep!At(t, "unload") =>
        reports # <<>> /\ reports[Len(reports)].enqueues >= controls.ExitOnEnqueueCount

Complete ==
    /\ reports # <<>>
    /\ reports[Len(reports)] =
          [enqueues |-> enqueueCounter, calls |-> Cardinality(Rep!Window(enqueueCounter))]

Final ==
    /\ ExitIsDue /\ ExitIsReported
    /\ process = "over" => Complete \/ \E t \in Callers : Rep!At(t, "unload")

\* The last report is that of now, or that of before, which says no more.
LEMMA LastReport ==
  ASSUME ReportInv, Rep!WriteReport \/ UNCHANGED reports, reports # <<>> \/ Rep!WriteReport
  PROVE  /\ reports' # <<>>
         /\ Rep!WriteReport => reports'[Len(reports')] = Rep!Report
         /\ reports # <<>> => reports'[Len(reports')].enqueues >= reports[Len(reports)].enqueues
  <1>1. /\ reports \in Seq([enqueues : Nat, calls : Nat]) /\ enqueueCounter \in Nat
        /\ numberOfCalls \in Nat
    BY DEF ReportInv, ReportTypes
  <1>2. Rep!Report \in [enqueues : Nat, calls : Nat] /\ Rep!Report.enqueues = enqueueCounter
    BY <1>1 DEF Rep!Report
  <1>3. Rep!WriteReport => reports' # <<>> /\ reports'[Len(reports')] = Rep!Report
    BY <1>1, <1>2, AppendProperties DEF Rep!WriteReport
  <1>4. ASSUME reports # <<>>
        PROVE  /\ reports[Len(reports)] \in [enqueues : Nat, calls : Nat]
               /\ reports[Len(reports)].enqueues <= enqueueCounter
    <2>1. Len(reports) \in 1 .. Len(reports) /\ DOMAIN reports = 1 .. Len(reports)
      BY <1>1, <1>4, EmptySeq, LenProperties
    <2> QED BY <1>1, <2>1, ElementOfSeq DEF ReportInv, ReportsArePast
  <1>5. CASE Rep!WriteReport
    BY <1>1, <1>2, <1>3, <1>4, <1>5
  <1>6. CASE UNCHANGED reports /\ ~Rep!WriteReport
    BY <1>4, <1>6
  <1> QED BY <1>5, <1>6

\* A report stays the last but for a later one, and the limit is still passed.
LEMMA ExitStaysReported ==
  ASSUME ReportInv, Final, UNCHANGED controls, Rep!WriteReport \/ UNCHANGED reports,
         NEW t \in Callers, Rep!At(t, "unload")
  PROVE  reports' # <<>> /\ reports'[Len(reports')].enqueues >= controls'.ExitOnEnqueueCount
  <1>1. reports # <<>> /\ reports[Len(reports)].enqueues >= controls.ExitOnEnqueueCount
    BY DEF Final, ExitIsReported
  <1>2. /\ reports' # <<>>
        /\ reports'[Len(reports')].enqueues >= reports[Len(reports)].enqueues
    BY <1>1, LastReport
  <1>3. /\ controls.ExitOnEnqueueCount \in Nat
        /\ reports[Len(reports)].enqueues \in Nat /\ reports'[Len(reports')].enqueues \in Nat
    <2>1. /\ reports \in Seq([enqueues : Nat, calls : Nat])
          /\ reports' \in Seq([enqueues : Nat, calls : Nat])
      BY ReportKeepsType DEF ReportInv, ReportTypes
    <2>2. controls.ExitOnEnqueueCount \in Nat
      BY ReportsAssumption DEF ReportInv, ReportTypes
    <2>3. /\ Len(reports) \in 1 .. Len(reports) /\ Len(reports') \in 1 .. Len(reports')
      BY <1>1, <1>2, <2>1, EmptySeq, LenProperties
    <2>4. /\ reports[Len(reports)] \in [enqueues : Nat, calls : Nat]
          /\ reports'[Len(reports')] \in [enqueues : Nat, calls : Nat]
      BY <2>1, <2>3, ElementOfSeq
    <2> QED BY <2>2, <2>4
  <1> QED BY <1>1, <1>2, <1>3

LEMMA InitFinal ==
  ASSUME Rep!Init
  PROVE  Final
  BY DEF Rep!Init, Rep!NoCall, Final, ExitIsDue, ExitIsReported, Rep!At

\* A step of a thread: only ExitCheck leads to the exit, only Exit to the end,
\* and only Unload ends the process.
LEMMA StepKeepsFinal ==
  ASSUME ReportInv, Final, NEW t \in Callers, Rep!Step(t)
  PROVE  Final'
  <1>1. /\ UNCHANGED controls
        /\ Rep!WriteReport \/ UNCHANGED reports
        /\ enqueueCounter \in Nat /\ enqueueCounter' \in Nat
        /\ enqueueCounter <= enqueueCounter' /\ controls.ExitOnEnqueueCount \in Nat
    <2>1. /\ UNCHANGED controls
          /\ Rep!WriteReport \/ UNCHANGED reports
          /\ enqueueCounter' = enqueueCounter \/ enqueueCounter' = enqueueCounter + 1
      BY DEF Rep!Step, Rep!Begin, Rep!ExitCheck, Rep!IntervalCheck, Rep!IntervalReport,
             Rep!Increment, Rep!UpdateHostTimingStats, Rep!Exit, Rep!Unload
    <2>2. enqueueCounter \in Nat /\ controls.ExitOnEnqueueCount \in Nat
      BY ReportsAssumption DEF ReportInv, ReportTypes
    <2> QED BY <2>1, <2>2
  <1>2. \A u \in Callers \ {t} : callers'[u] = callers[u]
    BY DEF Rep!Step, Rep!Begin, Rep!ExitCheck, Rep!IntervalCheck, Rep!IntervalReport,
           Rep!Increment, Rep!UpdateHostTimingStats, Rep!Exit, Rep!Unload, Rep!Goto, ReportInv,
           ReportTypes
  <1>3. Rep!At(t, "exit")' => enqueueCounter' >= controls'.ExitOnEnqueueCount
    <2>1. Rep!At(t, "exit")' => Rep!ExitCheck(t)
      BY DEF Rep!Step, Rep!Begin, Rep!ExitCheck, Rep!IntervalCheck, Rep!IntervalReport,
             Rep!Increment, Rep!UpdateHostTimingStats, Rep!Exit, Rep!Unload, Rep!Goto, Rep!At,
             ReportInv, ReportTypes
    <2>2. Rep!ExitCheck(t) /\ Rep!At(t, "exit")'
             => enqueueCounter' >= controls'.ExitOnEnqueueCount
      BY DEF Rep!ExitCheck, Rep!Goto, Rep!At, ReportInv, ReportTypes
    <2> QED BY <2>1, <2>2
  <1>4. Rep!At(t, "unload")' => Rep!Exit(t) \/ Rep!Unload(t)
    <2>1. ASSUME Rep!Step(t), ~Rep!Exit(t), ~Rep!Unload(t), ~Rep!Increment(t)
          PROVE  \E l \in Rep!Locations \ {"unload"} : Rep!Goto(t, l)
      BY <2>1 DEF Rep!Step, Rep!Begin, Rep!ExitCheck, Rep!IntervalCheck, Rep!IntervalReport,
                  Rep!UpdateHostTimingStats, Rep!Locations
    <2>2. ASSUME NEW l \in Rep!Locations \ {"unload"}, Rep!Goto(t, l)
          PROVE  ~Rep!At(t, "unload")'
      BY <2>2, GotoMoves DEF ReportInv, Rep!At
    <2>3. Rep!Increment(t) => ~Rep!At(t, "unload")'
      BY DEF Rep!Increment, Rep!At, ReportInv, ReportTypes
    <2> QED BY <2>1, <2>2, <2>3
  <1>5. ExitIsDue'
    BY <1>1, <1>2, <1>3 DEF Final, ExitIsDue, Rep!At
  <1>6. ExitIsReported'
    <2>1. ASSUME NEW u \in Callers, Rep!At(u, "unload")
          PROVE  /\ reports' # <<>>
                 /\ reports'[Len(reports')].enqueues >= controls'.ExitOnEnqueueCount
      BY <1>1, <2>1, ExitStaysReported
    <2>2. CASE Rep!Exit(t)
      <3>1. /\ reports' # <<>> /\ reports'[Len(reports')].enqueues = enqueueCounter
            /\ enqueueCounter >= controls.ExitOnEnqueueCount
        <4>1. Rep!WriteReport /\ Rep!At(t, "exit")
          BY <2>2 DEF Rep!Exit
        <4>2. reports' # <<>> /\ reports'[Len(reports')] = Rep!Report
          BY <4>1, LastReport
        <4> QED BY <4>1, <4>2 DEF Rep!Report, Final, ExitIsDue
      <3> QED BY <1>1, <1>2, <2>1, <3>1 DEF ExitIsReported, Rep!At
    <2>3. CASE Rep!Unload(t)
      BY <2>1, <2>3 DEF Rep!Unload, ExitIsReported, Rep!At
    <2>4. CASE ~Rep!At(t, "unload")'
      BY <1>2, <2>1, <2>4 DEF ExitIsReported, Rep!At
    <2> QED BY <1>4, <2>2, <2>3, <2>4
  <1>7. process' = "over" => \E u \in Callers : Rep!At(u, "unload")'
    <2>1. process' = "over" => Rep!Unload(t)
      BY DEF Rep!Step, Rep!Begin, Rep!ExitCheck, Rep!IntervalCheck, Rep!IntervalReport,
             Rep!Increment, Rep!UpdateHostTimingStats, Rep!Exit, Rep!Unload
    <2>2. Rep!Unload(t) => Rep!At(t, "unload")'
      BY DEF Rep!Unload, Rep!At
    <2> QED BY <2>1, <2>2
  <1> QED BY <1>5, <1>6, <1>7 DEF Final

LEMMA ReturnKeepsFinal ==
  ASSUME ReportInv, Final, Rep!Return
  PROVE  Final'
  <1>1. /\ UNCHANGED <<controls, callers, enqueueCounter, numberOfCalls>> /\ Rep!WriteReport
        /\ \A t \in Callers : Rep!At(t, "idle")
    BY DEF Rep!Return
  <1>2. ExitIsDue' /\ ExitIsReported'
    BY <1>1 DEF ExitIsDue, ExitIsReported, Rep!At
  <1>3. numberOfCalls = Cardinality(Rep!Window(enqueueCounter))
    <2>1. InFlight = {}
      BY <1>1 DEF InFlight, Rep!At
    <2>2. Cardinality(InFlight) = 0 /\ numberOfCalls \in Nat
      BY <2>1, FS_EmptySet DEF ReportInv, ReportTypes
    <2> QED BY <2>2 DEF ReportInv, Timed
  <1>4. reports' # <<>> /\ reports'[Len(reports')] = Rep!Report
    BY <1>1, LastReport
  <1>5. Rep!Window(enqueueCounter)' = Rep!Window(enqueueCounter)
    BY <1>1 DEF Rep!Window, Rep!InWindow
  <1>6. Complete'
    BY <1>1, <1>3, <1>4, <1>5 DEF Complete, Rep!Report
  <1> QED BY <1>2, <1>6 DEF Final

LEMMA NextFinal ==
  ASSUME ReportInv, Final, [Rep!Next]_(Rep!vars)
  PROVE  Final'
  <1>1. CASE UNCHANGED Rep!vars
    BY <1>1 DEF Rep!vars, Final, ExitIsDue, ExitIsReported, Complete, Rep!Window, Rep!InWindow,
                Rep!At
  <1>2. CASE Rep!Return
    BY <1>2, ReturnKeepsFinal
  <1>3. CASE \E t \in Callers : Rep!Step(t)
    BY <1>3, StepKeepsFinal
  <1> QED BY <1>1, <1>2, <1>3 DEF Rep!Next

-----------------------------------------------------------------------------
(* The theorems about the reports. *)

\* Type correctness, with the bounds that follow from the bound on calls: a
\* number is that of a command in progress, and a report counts what there was.
LEMMA ReportTypesCorrect == Rep!Spec => []Rep!TypeOK
  <1>1. ASSUME ReportInv
        PROVE  Rep!TypeOK
    <2> USE <1>1 DEF ReportInv
    <2>1. enqueueCounter \in 0 .. MaxCommands
      BY WhereFinite, ReportsAssumption DEF Counted, ReportTypes
    <2>2. numberOfCalls \in 0 .. MaxCommands
      BY <2>1, InFlightFinite, WindowFinite, ReportsAssumption DEF Timed, ReportTypes
    <2>3. callers \in [Callers -> Rep!Calls]
      BY <2>1, ReportsAssumption DEF ReportTypes, Rep!Calls
    <2>4. reports \in Seq([enqueues : 0 .. MaxCommands, calls : 0 .. MaxCommands])
      <3>1. reports \in Seq([enqueues : Nat, calls : Nat])
        BY DEF ReportTypes
      <3>2. \A i \in 1 .. Len(reports) : reports[i] \in [enqueues : Nat, calls : Nat]
        BY <3>1, ElementOfSeq
      <3>3. \A i \in 1 .. Len(reports) :
               reports[i] \in [enqueues : 0 .. MaxCommands, calls : 0 .. MaxCommands]
        <4> SUFFICES ASSUME NEW i \in 1 .. Len(reports)
                     PROVE  reports[i] \in [enqueues : 0 .. MaxCommands, calls : 0 .. MaxCommands]
          OBVIOUS
        <4>1. reports[i].enqueues <= enqueueCounter /\ reports[i].calls <= numberOfCalls
          BY <3>1, LenProperties DEF ReportsArePast
        <4>2. reports[i].enqueues \in 0 .. MaxCommands /\ reports[i].calls \in 0 .. MaxCommands
          BY <2>1, <2>2, <3>2, <4>1, ReportsAssumption
        <4> QED BY <3>2, <4>2
      <3>4. /\ Len(reports) \in Nat
            /\ reports \in [1 .. Len(reports) -> [enqueues : Nat, calls : Nat]]
        BY <3>1, LenProperties
      <3> DEFINE R == [enqueues : 0 .. MaxCommands, calls : 0 .. MaxCommands]
      <3>5. Len(reports) \in Nat /\ reports \in [1 .. Len(reports) -> R]
        BY <3>3, <3>4
      <3>6. reports \in Seq(R)
        <4> HIDE DEF R
        <4> QED BY <3>5, SeqDef
      <3> QED BY <3>6
    <2> QED BY <2>1, <2>2, <2>3, <2>4 DEF ReportTypes, Rep!TypeOK
  <1> QED BY <1>1, AlwaysReportInv, PTL

\* The types of both parts' state, with those bounds.
THEOREM ReportingTypesCorrect == ReportingSpec => []TypesOK
  BY EachReport, TraceTypesCorrect, ReportTypesCorrect, PTL DEF TypesOK

\* ExitOnEnqueueCount: with any number of threads in incrementEnqueueCounter the
\* counter passes the limit by less than their number.
THEOREM CounterAlwaysLimited == ReportingSpec => []CounterIsLimited
  <1>1. ASSUME ReportInv
        PROVE  CounterIsLimited
    BY <1>1, WhereFinite, ReportsAssumption, SameCardinality
       DEF ReportInv, ReportTypes, Limited, CounterIsLimited, Rep!CounterIsLimited
  <1> QED BY EachReport, <1>1, AlwaysReportInv, PTL

\* Whenever writeReport runs, its numbers of calls and of enqueues agree.
THEOREM ReportsAlwaysAgree == ReportingSpec => []ReportsAgree
  BY EachReport, AlwaysReportInv, AgreedIsAgree, PTL DEF ReportInv

\* No report takes back what an earlier one has shown.
THEOREM ReportsAlwaysGrow == ReportingSpec => []Rep!ReportsGrow
  BY EachReport, AlwaysReportInv, PTL DEF ReportInv

\* An application that returns leaves a complete report, and one that the layer
\* ends a report of at least the commands it was told to run.
THEOREM FinalReportIsRight == ReportingSpec => []FinalReport
  <1>1. Rep!Spec => []Final
    BY AlwaysReportInv, InitFinal, NextFinal, PTL DEF Rep!Spec
  <1>2. ASSUME Final
        PROVE  FinalReport
    <2>1. (\A t \in Callers : Rep!At(t, "idle")) => ~\E t \in Callers : Rep!At(t, "unload")
      BY DEF Rep!At
    <2> QED BY <1>2, <2>1, SameCardinality
            DEF Final, ExitIsReported, Complete, FinalReport, Rep!FinalReport
  <1> QED BY EachReport, <1>1, <1>2, PTL
=============================================================================

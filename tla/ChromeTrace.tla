----------------------------- MODULE ChromeTrace -----------------------------
(***************************************************************************)
(* The JSON trace: CChromeTracer, which keeps records in memory until its  *)
(* buffer is full, and the calls that the handlers and CLIntercept make to *)
(* it.  Every function of CChromeTracer holds its own m_Mutex throughout   *)
(* and is one step; CLIntercept calls it with the layer's m_Mutex held,    *)
(* except for flushChromeTraceBuffering.                                   *)
(*                                                                         *)
(* All calls and commands are within the timing limits, and a device track *)
(* is a queue (not ChromePerformanceTimingPerKernel).  The number of a     *)
(* call stands for the enqueueCounter of its command and for the number    *)
(* addQueue gives to the queue that it creates.                            *)
(***************************************************************************)
EXTENDS Naturals, Sequences, FiniteSets

CONSTANTS
    Threads,   \* application threads
    NoThread,  \* nobody holds m_Mutex
    MaxCalls,  \* bound: calls of the application
    Configs    \* the configurations a process may start with

ASSUME TraceThreadsAssumption == NoThread \notin Threads /\ Threads \cap Nat = {}
ASSUME TraceBoundsAssumption == MaxCalls \in Nat
ASSUME TraceConfigsAssumption ==
    Configs \subseteq [CallLogging: BOOLEAN, DeviceTiming: BOOLEAN, InStages: BOOLEAN,
                       FlowEvents: BOOLEAN, BufferSize: Nat, BlockingFlush: BOOLEAN,
                       FlushFiles: BOOLEAN, ToolOverhead: BOOLEAN]

VARIABLES
    config,    \* the Chrome controls, FlushFiles and ToolOverheadTiming
    calls,     \* calls so far
    call,      \* the call each thread is in, or its last one
    mutex,     \* who holds CLIntercept's m_Mutex
    numbered,  \* m_ThreadNumberMap
    queues,    \* m_QueueNumberMap: the queues the application has
    nodes,     \* m_EventList
    file,      \* m_TraceFile: what was written to the stream
    buffer,    \* m_RecordBuffer
    durable,   \* how much of the stream the last flush() gave to the OS
    open       \* the trace file is not closed

tracer == <<file, buffer, durable, open>>
layer  == <<mutex, numbered, queues, nodes>>
vars   == <<config, calls, call, layer, tracer>>

-----------------------------------------------------------------------------
\* Records, by what the code calls them and writes for them.
RecordKinds ==
    {"callLogging", "callLoggingId", "scanOverhead", "flushOverhead", "deviceTiming"}
Records == [kind : RecordKinds, call : 1 .. MaxCalls, by : Threads,
            track : Threads \cup 1 .. MaxCalls]

ProcessName == [kind |-> "process", track |-> 0]
StartTime   == [kind |-> "startTime", track |-> 0]
Eof         == [kind |-> "eof", track |-> 0]
ThreadName(t) == [kind |-> "thread", track |-> t]
QueueName(q)  == [kind |-> "queue", track |-> q]
Descriptions == {ThreadName(t) : t \in Threads} \cup {QueueName(q) : q \in 1 .. MaxCalls}
Blocks == Records \cup Descriptions \cup {ProcessName, StartTime, Eof}

\* The phases of the lines written for a record: writeCallLogging,
\* writeDeviceTiming.
CallLines(r) ==
    IF r.kind = "callLoggingId" /\ config.FlowEvents THEN <<"X", "s">> ELSE <<"X">>
DeviceLines ==
    IF config.InStages THEN <<"X", "X", "X">>
    ELSE IF config.FlowEvents THEN <<"f", "X">> ELSE <<"X">>
Lines(r) == IF r.kind = "deviceTiming" THEN DeviceLines ELSE CallLines(r)

-----------------------------------------------------------------------------
\* The steps of a handler.  Logging a call takes m_Mutex for two or three.
Kinds == {"enqueue", "blockingEnqueue", "wait", "createQueue"}
Enqueues == {"enqueue", "blockingEnqueue"}
Blocking == {"blockingEnqueue", "wait"}

Only(condition, steps) == IF condition THEN steps ELSE <<>>

chromeCallLoggingExit(c, record) ==
    Only(c.CallLogging, <<"getThreadNumber", record>> \o Only(c.FlushFiles, <<"flushFile">>))
ToolOverhead(c, record) == Only(c.ToolOverhead, chromeCallLoggingExit(c, record))

CallKindWithoutId(kind) == "callLogging"
CallKind(kind) == IF kind \in Enqueues THEN "callLoggingId" ELSE "callLogging"

Scan(c, kind) ==
    Only(c.DeviceTiming /\ kind \in Blocking,
         <<"checkTimingEvents">> \o ToolOverhead(c, "scanOverhead"))
Flush(c, kind) ==
    Only(/\ c.BufferSize # 0 /\ c.BlockingFlush /\ kind \in Blocking
         /\ c.CallLogging \/ c.DeviceTiming,
         <<"flushBuffering">> \o ToolOverhead(c, "flushOverhead"))

HandlerFlushesFirst(c, kind) ==
    Only(c.DeviceTiming /\ kind \in Enqueues, <<"addTimingEvent">>)
    \o chromeCallLoggingExit(c, CallKind(kind))
    \o Flush(c, kind) \o Scan(c, kind)
    \o Only(c.DeviceTiming /\ kind = "createQueue", <<"chromeRegisterCommandQueue">>)

Handler(c, kind) ==
    Only(c.DeviceTiming /\ kind \in Enqueues, <<"addTimingEvent">>)
    \o chromeCallLoggingExit(c, CallKind(kind))
    \o Scan(c, kind) \o Flush(c, kind)
    \o Only(c.DeviceTiming /\ kind = "createQueue", <<"chromeRegisterCommandQueue">>)

Steps == RecordKinds \cup {"addTimingEvent", "getThreadNumber", "flushFile", "checkTimingEvents",
                           "flushBuffering", "chromeRegisterCommandQueue"}
Calls == [todo : Seq(Steps), number : 0 .. MaxCalls, kind : Kinds \cup {"none"}]
NoCall == [todo |-> <<>>, number |-> 0, kind |-> "none"]

Idle(t) == call[t].todo = <<>>
Quiescent == \A t \in Threads : Idle(t)

Init ==
    /\ config \in Configs
    /\ calls = 0
    /\ call = [t \in Threads |-> NoCall]
    /\ mutex = NoThread
    /\ numbered = {} /\ queues = {} /\ nodes = {}
    /\ file = <<ProcessName, StartTime>>
    /\ buffer = <<>>
    /\ durable = 0
    /\ open = TRUE

-----------------------------------------------------------------------------
\* CChromeTracer.
flushRecordsKeepsThem(records) == file' = file \o records /\ buffer' = records
flushRecords(records) == file' = file \o records /\ buffer' = <<>>

checkFlushRecordsLate(records) ==
    IF Len(records) > config.BufferSize THEN flushRecords(records)
    ELSE file' = file /\ buffer' = records

checkFlushRecords(records) ==
    IF Len(records) >= config.BufferSize THEN flushRecords(records)
    ELSE file' = file /\ buffer' = records

\* addCallLogging, addDeviceTiming.
addRecord(r) ==
    /\ IF config.BufferSize = 0
       THEN file' = Append(file, r) /\ buffer' = buffer
       ELSE checkFlushRecords(Append(buffer, r))
    /\ UNCHANGED <<durable, open>>

\* addThreadMetadata, addQueueMetadata.
addMetadata(d) == file' = Append(file, d) /\ UNCHANGED <<buffer, durable, open>>

flush == flushRecords(buffer) /\ durable' = Len(file') /\ UNCHANGED open

-----------------------------------------------------------------------------
At(t, step) == ~Idle(t) /\ Head(call[t].todo) = step
Done(t) == call' = [call EXCEPT ![t] = [@ EXCEPT !.todo = Tail(call[t].todo)]]

\* The application calls a handler; it needs a queue for a command.
Begin(t) ==
    /\ Idle(t) /\ open
    /\ calls < MaxCalls
    /\ \E kind \in Kinds :
          /\ kind \in Enqueues => queues # {} \/ ~config.DeviceTiming
          /\ call' = [call EXCEPT ![t] = [todo |-> Handler(config, kind), number |-> calls + 1,
                                          kind |-> kind]]
    /\ calls' = calls + 1
    /\ UNCHANGED <<config, layer, tracer>>

\* addTimingEvent for a command that did not fail.
AddTimingEvent(t) ==
    /\ At(t, "addTimingEvent") /\ mutex = NoThread
    /\ \E q \in queues : nodes' = nodes \cup {[call |-> call[t].number, queue |-> q]}
    /\ Done(t)
    /\ UNCHANGED <<config, calls, mutex, numbered, queues, tracer>>

CommandFailed(t) ==
    /\ At(t, "addTimingEvent")
    /\ Done(t)
    /\ UNCHANGED <<config, calls, layer, tracer>>

\* The lock of chromeCallLoggingExit and getThreadNumber.
GetThreadNumberForgets(t) ==
    /\ At(t, "getThreadNumber") /\ mutex = NoThread
    /\ mutex' = t
    /\ IF t \in numbered THEN UNCHANGED tracer ELSE addMetadata(ThreadName(t))
    /\ Done(t)
    /\ UNCHANGED <<config, calls, numbered, queues, nodes>>

GetThreadNumber(t) ==
    /\ At(t, "getThreadNumber") /\ mutex = NoThread
    /\ mutex' = t
    /\ numbered' = numbered \cup {t}
    /\ IF t \in numbered THEN UNCHANGED tracer ELSE addMetadata(ThreadName(t))
    /\ Done(t)
    /\ UNCHANGED <<config, calls, queues, nodes>>

CallRecord(t) == [kind |-> Head(call[t].todo), call |-> call[t].number, by |-> t, track |-> t]

Unlocked(t) == IF At(t, "flushFile")' THEN mutex' = mutex ELSE mutex' = NoThread

\* chromeCallLoggingExit adds the record; it flushes then or returns.
AddCallLogging(t) ==
    /\ \E kind \in RecordKinds : At(t, kind)
    /\ addRecord(CallRecord(t))
    /\ Done(t)
    /\ Unlocked(t)
    /\ UNCHANGED <<config, calls, numbered, queues, nodes>>

FlushFile(t) ==
    /\ At(t, "flushFile")
    /\ flush
    /\ mutex' = NoThread
    /\ Done(t)
    /\ UNCHANGED <<config, calls, numbered, queues, nodes>>

\* checkTimingEvents: commands that ended go to the trace, one by one.
ScanBegin(t) ==
    /\ At(t, "checkTimingEvents") /\ mutex = NoThread
    /\ mutex' = t
    /\ UNCHANGED <<config, calls, call, numbered, queues, nodes, tracer>>

DeviceRecord(t, node) ==
    [kind |-> "deviceTiming", call |-> node.call, by |-> t, track |-> node.queue]

ChromeTraceEvent(t) ==
    /\ At(t, "checkTimingEvents") /\ mutex = t
    /\ \E node \in nodes : addRecord(DeviceRecord(t, node)) /\ nodes' = nodes \ {node}
    /\ UNCHANGED <<config, calls, call, mutex, numbered, queues>>

ScanEnd(t) ==
    /\ At(t, "checkTimingEvents") /\ mutex = t
    /\ mutex' = NoThread
    /\ Done(t)
    /\ UNCHANGED <<config, calls, numbered, queues, nodes, tracer>>

\* flushChromeTraceBuffering, without m_Mutex.
FlushBuffering(t) ==
    /\ At(t, "flushBuffering")
    /\ flush
    /\ Done(t)
    /\ UNCHANGED <<config, calls, layer>>

ChromeRegisterCommandQueue(t) ==
    /\ At(t, "chromeRegisterCommandQueue") /\ mutex = NoThread
    /\ queues' = queues \cup {call[t].number}
    /\ addMetadata(QueueName(call[t].number))
    /\ Done(t)
    /\ UNCHANGED <<config, calls, mutex, numbered, nodes>>

\* The process ends: the destructors of CLIntercept and of CChromeTracer.
Unload ==
    /\ Quiescent /\ open
    /\ file' = file \o buffer \o <<Eof>>
    /\ buffer' = <<>>
    /\ durable' = Len(file')
    /\ open' = FALSE
    /\ UNCHANGED <<config, calls, call, layer>>

Step(t) ==
    \/ AddTimingEvent(t) \/ CommandFailed(t)
    \/ GetThreadNumber(t) \/ AddCallLogging(t) \/ FlushFile(t)
    \/ ScanBegin(t) \/ ChromeTraceEvent(t) \/ ScanEnd(t)
    \/ FlushBuffering(t)
    \/ ChromeRegisterCommandQueue(t)

Next == Unload \/ \E t \in Threads : Begin(t) \/ Step(t)

Spec == Init /\ [][Next]_vars

-----------------------------------------------------------------------------
\* The file with what is still to come.
log == file \o buffer
Recorded == {log[i] : i \in DOMAIN log} \cap Records

TypeOK ==
    /\ config \in Configs
    /\ calls \in 0 .. MaxCalls
    /\ call \in [Threads -> Calls]
    /\ mutex \in Threads \cup {NoThread}
    /\ numbered \subseteq Threads
    /\ queues \subseteq 1 .. MaxCalls
    /\ nodes \subseteq [call : 1 .. MaxCalls, queue : 1 .. MaxCalls]
    /\ file \in Seq(Blocks)
    /\ buffer \in Seq(Records)
    /\ Len(buffer) < config.BufferSize \/ buffer = <<>>
    /\ durable \in 0 .. Len(file)
    /\ open \in BOOLEAN

\* Buffering is invisible: the file and the buffer together implement a log
\* whose records reach the file once and in the order they were made, whoever
\* flushes and whenever, and where a description comes before what is pending.
TheLog == INSTANCE TraceLog WITH
    Header <- <<ProcessName, StartTime>>, End <- Eof, written <- Len(file)

ImplementsTraceLog == TheLog!Spec

\* Whatever prefix of the file a reader gets, the track of a record, a thread
\* or a queue, has one name in it, and the name comes first: descriptions go
\* past the buffer, and a thread is numbered before its first record.
TracksAreNamed ==
    \A i \in DOMAIN log : log[i] \in Records =>
        LET name == IF log[i].track \in Threads THEN ThreadName(log[i].track)
                    ELSE QueueName(log[i].track) IN
        /\ \E j \in 1 .. i - 1 : log[j] = name
        /\ Cardinality({j \in DOMAIN log : log[j] = name}) = 1

Flow(phase, n) == {i \in DOMAIN log : /\ log[i] \in Records /\ log[i].call = n
                                      /\ \E k \in DOMAIN Lines(log[i]) : Lines(log[i])[k] = phase}

FlowMeets(n) == Cardinality(Flow("s", n)) = 1 /\ Cardinality(Flow("f", n)) = 1

\* With flow events, call logging and device timing, the record of a command is
\* the end of one flow, and when no call is in progress, that of the call that
\* enqueued it is the one start of it, whichever of them was written first.
FlowsMeet ==
    config.FlowEvents /\ config.CallLogging /\ ~config.InStages /\ Quiescent =>
        \A r \in Recorded : r.kind = "deviceTiming" => FlowMeets(r.call)

\* After a blocking call that flushes, all that the thread has recorded is in
\* the operating system's hands, however the process ends, except for the time
\* that flushing took (FLUSH_CHROME_TRACE_BUFFERING).
BlockingCallsAreDurable ==
    \A t \in Threads :
        /\ Idle(t) /\ call[t].kind \in Blocking
        /\ config.BufferSize # 0 /\ config.BlockingFlush
        => \A i \in DOMAIN log : log[i] \in Records /\ log[i].by = t =>
              i <= durable \/ log[i].kind = "flushOverhead"
=============================================================================

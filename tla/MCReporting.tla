---------------------------- MODULE MCReporting ----------------------------
(***************************************************************************)
(* The trace and the reports in one run.  They share no variable, so it is *)
(* enough that a behaviour uses one of them, whatever the configuration of *)
(* the other.  Symmetry: threads are treated alike.                        *)
(***************************************************************************)
EXTENDS Reporting, TLC

TraceConfig(logging, device, stages, flow, size, blocking, files, overhead) ==
    [CallLogging |-> logging, DeviceTiming |-> device, InStages |-> stages, FlowEvents |-> flow,
     BufferSize |-> size, BlockingFlush |-> blocking, FlushFiles |-> files,
     ToolOverhead |-> overhead]

\* A small buffer with flow events; one flushed by blocking calls, with overhead
\* records and stages; one flushed by every call; no buffer; device timing only.
DeviceOnly == TraceConfig(FALSE, TRUE, FALSE, FALSE, 3, TRUE, FALSE, FALSE)
MCConfigs ==
    {TraceConfig(TRUE, TRUE, FALSE, TRUE, 2, TRUE, FALSE, FALSE),
     TraceConfig(TRUE, TRUE, TRUE, TRUE, 3, TRUE, FALSE, TRUE),
     TraceConfig(TRUE, TRUE, FALSE, TRUE, 3, FALSE, TRUE, FALSE),
     TraceConfig(TRUE, TRUE, FALSE, TRUE, 0, TRUE, FALSE, FALSE),
     DeviceOnly}

ReportConfig(exit, interval, min, max) ==
    [ExitOnEnqueueCount |-> exit, ReportInterval |-> interval, Min |-> min, Max |-> max]

\* An exit and reports at every command; an exit, fewer reports, a timing window
\* without the first; a narrow window; neither exit nor reports.
AtTheEndOnly == ReportConfig(0, 0, 0, MaxCommands)
MCReportConfigs ==
    {ReportConfig(2, 1, 0, MaxCommands), ReportConfig(3, 2, 1, MaxCommands),
     ReportConfig(0, 2, 1, 2), AtTheEndOnly}

MCNext ==
    \/ controls = AtTheEndOnly /\ Rep!Init /\ Next /\ UNCHANGED reportVars
    \/ config = DeviceOnly /\ Init /\ Rep!Next /\ UNCHANGED vars

MCSpec == ReportingInit /\ [][MCNext]_<<vars, reportVars>>

Symmetry == Permutations(Threads) \cup Permutations(Callers)
=============================================================================

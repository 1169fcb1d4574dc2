------------------------------ MODULE Reporting ------------------------------
(***************************************************************************)
(* The layer with what it tells its user: the trace of ChromeTrace and the *)
(* reports of EnqueueReports, each switched on by controls of its own.     *)
(* They share no variable: the counter of commands in EnqueueReports is    *)
(* only a number to the trace, which counts its calls for itself.          *)
(***************************************************************************)
EXTENDS ChromeTrace

CONSTANTS
    Callers,       \* the application threads of EnqueueReports
    MaxCommands,   \* bound: commands they enqueue
    ReportConfigs  \* the controls a process may start with

VARIABLES controls, begun, enqueueCounter, callers, numberOfCalls, reports, process

Rep == INSTANCE EnqueueReports WITH
    Threads <- Callers, MaxCalls <- MaxCommands, Configs <- ReportConfigs,
    config <- controls, call <- callers

ASSUME ReportsAssumed == Rep!ReportAssumption

reportVars == <<controls, begun, enqueueCounter, callers, numberOfCalls, reports, process>>

ReportingInit == Init /\ Rep!Init

ReportingNext ==
    \/ Next /\ UNCHANGED reportVars
    \/ Rep!Next /\ UNCHANGED vars

ReportingSpec == ReportingInit /\ [][ReportingNext]_<<vars, reportVars>>

-----------------------------------------------------------------------------
(* Properties                                                              *)

\* The types of the trace's state and of the reports'.
TypesOK == TypeOK /\ Rep!TypeOK

\* Of EnqueueReports: ExitOnEnqueueCount is passed by less than the threads.
CounterIsLimited == Rep!CounterIsLimited

\* Of EnqueueReports: a report's timed calls and its enqueues agree.
ReportsAgree == Rep!ReportsAgree

\* Of EnqueueReports: the last report is complete.
FinalReport == Rep!FinalReport
=============================================================================

---------------------------- MODULE EnqueueReports ----------------------------
(***************************************************************************)
(* The enqueue counter and what hangs on it: the exit of the application,  *)
(* periodic reports, the window of host performance timing, and the report *)
(* of the destructor.  A handler of a command counts itself, calls the     *)
(* driver and updates the statistics; m_Mutex makes a report and an update *)
(* of the statistics one step each, the counter is an atomic.              *)
(***************************************************************************)
EXTENDS Integers, Sequences, FiniteSets

CONSTANTS
    Threads,   \* application threads
    MaxCalls,  \* bound: commands the application enqueues
    Configs    \* the configurations a process may start with

\* What Reporting assumes of them.
ReportAssumption ==
    /\ IsFiniteSet(Threads)
    /\ MaxCalls \in Nat
    /\ Configs \subseteq [ExitOnEnqueueCount : Nat, ReportInterval : Nat, Min : Nat, Max : Nat]

VARIABLES
    config,          \* the controls; Min and Max are HostPerformanceTiming...Enqueue
    begun,           \* history: handlers of commands called so far
    enqueueCounter,  \* m_EnqueueCounter
    call,            \* where each thread is, and its command's number
    numberOfCalls,   \* of the commands in m_HostTimingStatsMap
    reports,         \* the reports written
    process          \* running, in exit(), or over

vars == <<config, begun, enqueueCounter, call, numberOfCalls, reports, process>>

Locations == {"idle", "exitCheck", "exit", "intervalCheck", "report", "increment", "driver",
              "unload"}
Calls == [at : Locations, number : 0 .. MaxCalls]
NoCall == [at |-> "idle", number |-> 0]

At(t, location) == call[t].at = location
Goto(t, location) == call' = [call EXCEPT ![t] = [@ EXCEPT !.at = location]]

InWindow(n) == config.Min <= n /\ n <= config.Max
Window(count) == {n \in 0 .. count - 1 : InWindow(n)}

Init ==
    /\ config \in Configs
    /\ begun = 0
    /\ enqueueCounter = 0
    /\ call = [t \in Threads |-> NoCall]
    /\ numberOfCalls = 0
    /\ reports = <<>>
    /\ process = "running"

-----------------------------------------------------------------------------
\* What writeReport finds, with m_Mutex held.
Report == [enqueues |-> enqueueCounter, calls |-> numberOfCalls]
WriteReport == reports' = Append(reports, Report)

\* A thread calls the handler of a command.
Begin(t) ==
    /\ At(t, "idle") /\ process # "over"
    /\ begun < MaxCalls
    /\ begun' = begun + 1
    /\ Goto(t, "exitCheck")
    /\ UNCHANGED <<config, enqueueCounter, numberOfCalls, reports, process>>

\* incrementEnqueueCounter: the first load.
ExitCheckLate(t) ==
    /\ At(t, "exitCheck") /\ process # "over"
    /\ Goto(t, IF config.ExitOnEnqueueCount # 0 /\ enqueueCounter > config.ExitOnEnqueueCount
               THEN "exit" ELSE "intervalCheck")
    /\ UNCHANGED <<config, begun, enqueueCounter, numberOfCalls, reports, process>>

ExitCheck(t) ==
    /\ At(t, "exitCheck") /\ process # "over"
    /\ Goto(t, IF config.ExitOnEnqueueCount # 0 /\ enqueueCounter >= config.ExitOnEnqueueCount
               THEN "exit" ELSE "intervalCheck")
    /\ UNCHANGED <<config, begun, enqueueCounter, numberOfCalls, reports, process>>

\* The second load.
IntervalCheck(t) ==
    /\ At(t, "intervalCheck") /\ process # "over"
    /\ Goto(t, IF /\ config.ReportInterval # 0 /\ enqueueCounter # 0
                  /\ enqueueCounter % config.ReportInterval = 0
               THEN "report" ELSE "increment")
    /\ UNCHANGED <<config, begun, enqueueCounter, numberOfCalls, reports, process>>

IntervalReport(t) ==
    /\ At(t, "report") /\ process # "over"
    /\ WriteReport
    /\ Goto(t, "increment")
    /\ UNCHANGED <<config, begun, enqueueCounter, numberOfCalls, process>>

IncrementOnlyReads(t) ==
    /\ At(t, "increment") /\ process # "over"
    /\ call' = [call EXCEPT ![t] = [at |-> "driver", number |-> enqueueCounter]]
    /\ UNCHANGED <<config, begun, enqueueCounter, numberOfCalls, reports, process>>

\* fetch_add.
Increment(t) ==
    /\ At(t, "increment") /\ process # "over"
    /\ enqueueCounter' = enqueueCounter + 1
    /\ call' = [call EXCEPT ![t] = [at |-> "driver", number |-> enqueueCounter]]
    /\ UNCHANGED <<config, begun, numberOfCalls, reports, process>>

\* The driver returns; HOST_PERFORMANCE_TIMING_END and updateHostTimingStats.
UpdateHostTimingStats(t) ==
    /\ At(t, "driver") /\ process # "over"
    /\ numberOfCalls' = IF InWindow(call[t].number) THEN numberOfCalls + 1 ELSE numberOfCalls
    /\ Goto(t, "idle")
    /\ UNCHANGED <<config, begun, enqueueCounter, reports, process>>

\* exit() runs the library's destructor; other threads go on until it is done.
\* The layer is used by one thread's exit only (a second one waits in exit).
Exit(t) ==
    /\ At(t, "exit") /\ process = "running"
    /\ process' = "exiting"
    /\ WriteReport
    /\ Goto(t, "unload")
    /\ UNCHANGED <<config, begun, enqueueCounter, numberOfCalls>>

Unload(t) ==
    /\ At(t, "unload") /\ process = "exiting"
    /\ process' = "over"
    /\ UNCHANGED <<config, begun, enqueueCounter, call, numberOfCalls, reports>>

ReturnWithoutReport ==
    /\ process = "running"
    /\ \A t \in Threads : At(t, "idle")
    /\ process' = "over"
    /\ UNCHANGED <<config, begun, enqueueCounter, call, numberOfCalls, reports>>

\* The application returns from main when its threads are done.
Return ==
    /\ process = "running"
    /\ \A t \in Threads : At(t, "idle")
    /\ WriteReport
    /\ process' = "over"
    /\ UNCHANGED <<config, begun, enqueueCounter, call, numberOfCalls>>

Step(t) ==
    \/ Begin(t) \/ ExitCheck(t) \/ IntervalCheck(t) \/ IntervalReport(t) \/ Increment(t)
    \/ UpdateHostTimingStats(t) \/ Exit(t) \/ Unload(t)

Next == Return \/ \E t \in Threads : Step(t)

Spec == Init /\ [][Next]_vars

-----------------------------------------------------------------------------
\* The number of a call in the driver was given to it by the counter.
TypeOK ==
    /\ config \in Configs
    /\ begun \in 0 .. MaxCalls
    /\ enqueueCounter \in 0 .. MaxCalls
    /\ call \in [Threads -> Calls]
    /\ \A t \in Threads : At(t, "driver") => call[t].number < enqueueCounter
    /\ numberOfCalls \in 0 .. MaxCalls
    /\ reports \in Seq([enqueues : 0 .. MaxCalls, calls : 0 .. MaxCalls])
    /\ process \in {"running", "exiting", "over"}

\* ExitOnEnqueueCount is looked at before a command is counted, and not in the
\* same step: every other thread may count one more command, but no more.
CounterIsLimited ==
    config.ExitOnEnqueueCount # 0 =>
        enqueueCounter < config.ExitOnEnqueueCount + Cardinality(Threads)

\* In every report, also one written while other threads enqueue, the number of
\* timed calls never exceeds the enqueues within the timing window, and falls
\* short of them by at most one call per thread (writeReport).
ReportsAgree ==
    \A i \in DOMAIN reports :
        LET enqueues == Cardinality(Window(reports[i].enqueues)) IN
        /\ reports[i].calls <= enqueues
        /\ enqueues <= reports[i].calls + Cardinality(Threads)

\* A later report never shows less than an earlier one, which it may overwrite.
ReportsGrow ==
    \A j \in DOMAIN reports : \A i \in 1 .. j :
        /\ reports[i].enqueues <= reports[j].enqueues
        /\ reports[i].calls <= reports[j].calls

\* The last report of an application that returns is complete; that of one that
\* the layer ends has at least the commands it was told to run.
FinalReport ==
    /\ process = "over" /\ (\A t \in Threads : At(t, "idle")) =>
          /\ reports # <<>>
          /\ reports[Len(reports)] =
                [enqueues |-> enqueueCounter, calls |-> Cardinality(Window(enqueueCounter))]
    /\ \A t \in Threads : At(t, "unload") =>
          reports # <<>> /\ reports[Len(reports)].enqueues >= config.ExitOnEnqueueCount
=============================================================================

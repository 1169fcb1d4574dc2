# Intercept Layer for OpenCL Applications: TLA+ models and proofs

The intercept layer is a shared library between an OpenCL application and the
OpenCL driver.  Every entry point of the API has a *handler* in
`src/intercept/src/dispatch.cpp` that calls the driver's function and, around
it, the macros of `intercept.h` and the functions of the one `CLIntercept`
object (`intercept.cpp`).  The application calls handlers from any number of
threads.  The layer promises to observe without being observed: the application
must see what it would see without the layer, and what the layer reports must
be true.

This directory models the parts of the layer whose correctness depends on how
threads, the driver and the device interleave, checks them with TLC on small
instances, and proves the central ones with TLAPS for every size.

Paths below are relative to the repository's `intercept/src/` unless they start
with `docs/`.

## 1. Inventory

### How the parts interact

* A **handler** runs on the application's thread.  It takes `m_Mutex` for single
  look-ups and updates, never across the driver's call; two handlers interleave
  at every step.
* The **driver** counts references, frees objects, and may give the handle of a
  freed object to the next one.  It may refuse any call.
* The **device** completes commands at any time after they were enqueued.
* All components share the `CLIntercept` object: its configuration is read at
  start-up and constant afterwards; `m_EnqueueCounter` numbers the commands and
  decides for several components (timing, aub capture, dumping) whether a
  command is within their window.
* `ADD_EVENT`, `ADD_OBJECT_*`, `CHECK_AUBCAPTURE_*`, `DEVICE_PERFORMANCE_TIMING_*`
  appear in an order of their own in each of the handlers, by copy and paste:
  one missing or misplaced macro is a bug in one entry point only.

### Components

| Component | State | Operations | Hard behaviour | Correct means | Module |
|---|---|---|---|---|---|
| API handlers (`dispatch.cpp`) | locals of each call | about 170 handlers with object, timing or capture steps | interleaving at each step; refused calls; an odd one out among copies | the order of steps of each handler is right | `ApiSteps`, `ApiCalls`, `ApiTable` |
| Device timing | `m_EventList`, `m_EventIdMap`, the statistics, the driver's event references | `addTimingEvent`, `checkTimingEvents`, `addEvent`, `checkRemoveEvent`, the macros around a command | an event handle that outlives the application's reference; recycled handles; concurrent scans; local events | references balance, nodes name the right command, each command accounted once, waits drain the list | `DeviceTiming` |
| Leak checking (`objtracker.h`) | relaxed atomic counters per kind | `AddAllocation`, `AddRetain`, `AddRelease`, `ReportHelper` | counted in different places of handlers; the layer's own events; refused calls | the report at exit is exact | `ObjectTracking` |
| Object information maps | one map per kind of object, queue lists per context | `addX`, `checkRemoveX`, `removeSVMAllocation`, `removeUSMAllocation`, the platform look-up of `dispatchX` | check-then-act around the driver's release; recycled handles | an object has its entry while the application can use it | `ObjectTracking` |
| Aub capture | `m_AubCaptureStarted`, skip and capture counters, `m_AubCaptureSet` | `startAubCapture`, `stopAubCapture`, `checkAubCaptureKernelSignature`, the three macros | double-checked lock; one process-wide switch for all threads | the flag is true, limits hold, every capture ends | `AubCapture` |
| Enqueue counter and shutdown | `m_EnqueueCounter` | `incrementEnqueueCounter`, exit limit, periodic report, destructor | two loads and an increment, apart from each other; reports while threads enqueue; `exit` inside a handler | the limit is passed by no more than the threads allow; a report agrees with itself, never goes back, and the last is complete | `EnqueueReports` (the number itself also in `DeviceTiming`, `AubCapture`) |
| Capture and replay | skip and capture counters, kernel set, directories | `checkCaptureReplayKernelSkips`, the dump functions | counters shared by all threads; files around an asynchronous command | limits hold, no directory is written twice, the files show what the kernel worked with | `KernelLaunch` |
| Chrome trace (`chrometracer.h`) | record buffer, file stream | `addCallLogging`, `addDeviceTiming`, metadata, `flush`, destructor | a second mutex; flushes by other threads; what an unclean exit loses; a command recorded before the call that enqueued it | the buffer is invisible; tracks are named first; flows meet; blocking calls are durable | `ChromeTrace`, `TraceLog` |
| USM emulation | allocation maps and vectors per context, flags and pointers per kernel | emulated USM entry points, `setUSMKernelExecInfo`, `finishAll` | waiting on the device with `m_Mutex` held; lists made at one moment and used later | a query names the allocation, a kernel sees the memory it asked for, a blocking free waits | `UsmEmulation`, `Emulation` |
| Semaphore emulation (`emulate.cpp`) | reference count and event of each semaphore | create, retain, release, signal, wait | check, marker and update without a lock; a refused marker; references to events | binary semaphores; no event lost or released twice | `SemaphoreEmulation`, `BinarySemaphores`, `Emulation` |
| Extension dispatch | `m_DispatchX` per platform | `getExtensionFunctionAddress`, `initDispatchX` | filled lazily, read without the lock | an extension call reaches its driver | not modelled (`ObjectTracking` and `CommandBuffers` have the look-up) |
| Command buffer recorder | recordings, numbers, maps of buffers and mutable commands | create, remap, record, finalize, dump, release | dependencies of commands; recycled handles; refused calls | the drawn graph has the dependencies the driver obeys; a freed buffer leaves nothing behind | `CommandBuffers` |
| Callbacks | user data of context, event and memory callbacks | allocation, driver's call-back, free | run on the driver's threads, also during shutdown | called once with live data | not modelled |
| Statistics | number of calls, min, max, average, histograms | `updateHostTimingStats` and siblings | numeric edges | equal to the definition over the samples | the number of host calls in `EnqueueReports` |
| Programs | numbers, hashes, options, compile counts by handle | create, inject, build, link, dump | which of many controls ask for which step; recycled handles; two runs of the application | no dump is written over; what one run dumps the next one finds | `ProgramFiles` |
| Queue property overrides | none | rewriting a property list | order and duplicates | the driver sees the requested properties | not modelled |
| Kernel arguments and dumps | argument maps, numbers of memory objects | `setKernelArg*`, `dumpBuffersForKernel`, `injectBuffersForKernel` and the same for images | stale arguments after a release; arguments the driver refused | a dump shows what the kernel read and wrote | `KernelLaunch` |
| Automatic partitioning | none | splitting devices at context creation | sub-device reference counts | the context has the sub-devices it should | not modelled |
| Precompiled and builtin kernels, enum names, OS services, metrics discovery, the tools (cliloader, cliprof, cliconfig, scripts) | | | numerical kernels, tables, formatting, files, launchers | | not modelled: pure I/O, generated tables or hardware |

`PROJECT.json` lists the same components with their sources, and, under
"hazards", each place where this code can go wrong in a way a test would hardly
reach, with the property that covers it or the reason why none does yet.

## 2. Modules

| Module | What it holds |
|---|---|
| `DeviceTiming` | timing events, event ids, the scan; driver and device |
| `TraceLog` | what a trace promises to its reader: an abstract log |
| `ChromeTrace` | the record buffer, the calls that fill and flush it; implements `TraceLog` |
| `EnqueueReports` | enqueue counter, exit limit, periodic and final reports |
| `Reporting` | the layer with its trace and its reports |
| `CommandBuffers` | the recorder, its drawings, and the maps of command buffers and mutable commands |
| `UsmEmulation` | emulated USM: allocations, queries, kernels, the blocking free |
| `BinarySemaphores` | what an application relies on when it uses semaphores |
| `SemaphoreEmulation` | semaphores emulated with events; implements `BinarySemaphores` |
| `Emulation` | the layer with both emulated extensions |
| `KernelLaunch` | arguments, captures, dumps and injections around a kernel launch |
| `ProgramFiles` | the files about programs, over two runs of an application |
| `DeviceTimingProofs`, `ObjectTrackingProofs`, `AubCaptureProofs`, `ReportingProofs`, `CommandBuffersProofs`, `EmulationProofs`, `KernelLaunchProofs`, `ProgramFilesProofs` | theorems about these modules and their proofs |
| `ApiSteps` | the vocabulary of handlers: steps, roles, the shapes handlers share |
| `ApiCalls` | one definition per handler of `dispatch.cpp` |
| `ApiTable` | the orders of steps that all handlers keep, which the proofs rest on |
| `ObjectTracking` | leak counters and information maps, run by the handlers of `ApiCalls` |
| `AubCapture` | aub capture, run by the handlers of `ApiCalls` |
| `MCDeviceTiming`, `MCObjectTracking`, `MCAubCapture`, `MCReporting`, `MCCommandBuffers`, `MCEmulation`, `MCKernelLaunch`, `MCProgramFiles` | small instances for TLC |

Operators next to an action with a telling longer name (`AddTimingEventNoRetain`,
`StartAubCaptureOneMore`, `clReleaseMemObjectRemovesLate` ...) are mutants: the
action as a plausible bug would have it.  No specification uses them; putting one
in the place of the original must break the property it is listed with in
`PROJECT.json`.

### 2.1 DeviceTiming

A thread's call runs through these locations; each action is a stretch of code
between two points where other threads can interfere.

| Location | Action | Code |
|---|---|---|
| `idle` | `EnqueueBegin` | `INCREMENT_ENQUEUE_COUNTER`, `DEVICE_PERFORMANCE_TIMING_START` |
| `dispatch` | `EnqueueDispatch`, `EnqueueFails` | the driver's enqueue function |
| `addTiming` | `AddTimingEvent` | `DEVICE_PERFORMANCE_TIMING_END`, `addTimingEvent` under `m_Mutex` |
| `releaseLocal` | `ReleaseLocalEvent` | the end of `DEVICE_PERFORMANCE_TIMING_END` |
| `addEvent` | `AddEvent` | `ADD_EVENT`, `addEvent` |
| `finish` | `FinishAfterEnqueue` | the `clFinish` of `FINISH_OR_FLUSH_AFTER_ENQUEUE` |
| `lock`, `scan` | `ScanBegin`, `ScanNode`, `ScanEnd` | `checkTimingEvents` |
| `idle` | `FinishReturns` | `clFinish`, `clWaitForEvents` in the driver, then `DEVICE_PERFORMANCE_TIMING_CHECK` |
| `idle` | `RetainEvent` | `clRetainEvent` |
| `remove`, `release` | `ReleaseEventBegin`, `CheckRemoveEvent`, `ReleaseEvent` | `clReleaseEvent` |
| | `CommandEnds` | the device completes or terminates a command |

State corresponds to members of the same name; `refs`, `cmdOf` and `status` are
the driver's, `appRefs` says which of the driver's references are the
application's.  Nodes are a set, since no order of them matters to the code, and
their other fields are dropped.  A node holds the command it was made for, so
that a recycled handle is seen as what it is.  Statistics are reduced to how
often a command was counted; the driver may refuse profiling information, hence
`profiled \in {0, 1}` in `ScanNode`.  The scan is one step per node with
`m_Mutex` held throughout, as in the code, because the device completes commands
between two nodes.

### 2.2 ApiSteps, ApiCalls and the two modules that run them

`ApiCalls` gives each handler its sequence of steps and the role an object plays
in it (`create`, `retain`, `release`, `use`, `enqueue`).  `ObjectTracking` and
`AubCapture` execute these sequences: `Project(h, k)` keeps the steps about one
kind of object (or `"aub"`), and each step is an action of the component.  So one
table of handlers is the single place where an entry point's order of macros is
stated, and a wrong order in one handler shows up in every component that runs it.
Handlers whose projections agree run as one program.

A proof cannot run through every handler for every action.  `ApiTable` says what all of
them have in common, as two assumptions without a parameter that TLC evaluates over the
whole table: `CommandsAreOrdered` (a command is counted, may start a capture, reaches the
driver, and stops the capture) and `ObjectsAreOrdered` (for each kind and role, which
steps a handler takes, each once, and which of them before and which after the driver's
call).  `MCAubCapture` extends it, so that a wrong order in a new handler is found there
even when no run gets to its consequences.

`ObjectTracking` follows the objects of one kind in each behaviour: kinds share no
state.  An event that the layer asks for in order to time a command is created and
released here as in `DeviceTiming`, because it must not reach the counters.
`getRefCount` and the erasure it decides on are one step: the code holds `m_Mutex`
for both, and the driver's count may change between them only by calls that, while
the caller owns the last reference, the API forbids; a count read as two or more
erases nothing.

`AubCapture` splits `startAubCapture` and `stopAubCapture` where the code does:
the macro's condition, the read of the flag without the lock, the locked part.

### 2.3 ChromeTrace and TraceLog

`TraceLog` is the abstract view: a sequence of which a growing prefix is in the file.
A record is appended; a description (the name of a thread or a queue) is inserted
behind what is written, before what is not; closing writes the rest and an end mark.
`ChromeTrace` keeps `file` (what was handed to the stream), `buffer`
(`m_RecordBuffer`) and `durable` (how much of the file the last `flush()` gave to the
operating system).  The refinement mapping is `log <- file \o buffer`,
`written <- Len(file)`.

| Action | Code |
|---|---|
| `Begin` | the application calls a handler; its steps (`Handler`) are those of `clEnqueueReadBuffer`, `clFinish` or `clCreateCommandQueue`, as the configuration has them |
| `AddTimingEvent`, `CommandFailed` | `DEVICE_PERFORMANCE_TIMING_END` of a command that the driver took, or refused |
| `GetThreadNumber`, `AddCallLogging`, `FlushFile` | `chromeCallLoggingExit`, with `m_Mutex` held from the first to the last |
| `ScanBegin`, `ChromeTraceEvent`, `ScanEnd` | `checkTimingEvents`, which calls `chromeTraceEvent` for each command that ended |
| `FlushBuffering` | `flushChromeTraceBuffering`, which takes the tracer's mutex only |
| `ChromeRegisterCommandQueue` | `addQueue` and `chromeRegisterCommandQueue` of `ADD_QUEUE` |
| `Unload` | the last `flush` of `~CLIntercept` and `~CChromeTracer` |

Each function of `CChromeTracer` holds the tracer's mutex throughout and is a part of
one step; the steps of `chromeCallLoggingExit` are apart because `FlushBuffering` can
come between them.  One number stands for a call, for the `enqueueCounter` of its
command and for the queue it creates.  Both threads of a run may report the command
of either.  All calls are within the timing limits, conditional timing is off, and a
device track is a queue (`ChromePerformanceTimingPerKernel` has one per name, without
a description).  The scan finds any subset of the commands complete.  `Unload` waits
for the calls in progress; an unclean exit needs no action, since the properties about
`durable` hold or fail at every moment.

### 2.4 EnqueueReports and Reporting

A handler's thread goes through `exitCheck` (first load), `intervalCheck` (second
load), `report`, `increment` (`fetch_add`), `driver`, and back to `idle` with the
update of the statistics.  `report()` and `updateHostTimingStats` hold `m_Mutex` and are
one step each.  `Exit` is the `exit(0)` in `incrementEnqueueCounter`, which runs the
library's destructor while other threads go on; it ends the process with `Unload`.  A
second thread that calls `exit` waits, as it does in the C library.  `Return` is the end
of an application whose threads are done.  `numberOfCalls` sums the commands of
`m_HostTimingStatsMap`; other functions have entries there too, which no property is
about.

`Reporting` is the layer with the trace and the reports: `ReportingSpec` interleaves the
steps of `ChromeTrace` and of `EnqueueReports` (the instance `Rep`).  They share no
variable, since the number of a command is only a number to the trace, which counts its
calls for itself.  No property relates the two, so in the run, `MCReporting`, a behaviour
uses one of them only (`MCSpec`); the theorems are about `ReportingSpec`.

### 2.5 CommandBuffers

A handler is the list of its remaining steps; "create", "remap", "finalize", "command"
and "release" are the driver's functions, the others are sections of `m_Mutex`.  The
eleven `clCommand` handlers differ in one step, `recordCommand` or `recordBarrier`.

| Action | Code |
|---|---|
| `DispatchCreate`, `RecordCreate`, `AddCommandBufferInfo` | `clCreateCommandBufferKHR` |
| `DispatchRemap` | `clRemapCommandBufferKHR`, which enters the new buffer but not its mutable commands |
| `BeginCommand`, `DispatchCommand`, `RefuseCommand`, `RecordCommand`, `AddMutableCommandInfo` | the `clCommand` functions |
| `DispatchFinalize`, `RecordFinalize`, `DumpCommandBufferRecording` | `clFinalizeCommandBufferKHR` |
| `Retain` | `clRetainCommandBufferKHR` |
| `CheckRemoveCommandBufferInfo`, `DispatchRelease`, `RefuseRelease` | `clReleaseCommandBufferKHR` |

`record[b].dot` keeps the lines of the drawing as records: a node with its name and the
names its edges come from.  `content` is what the driver holds, and `DumpsAreRight`
compares the two: the paths in the drawing (`Before`) with the order the driver obeys
(`Required`).  A buffer is filled by one thread at a time, since its commands would have
no order otherwise, and the application uses each reference in one call at a time.
`Overlapping` lets two threads release references to one buffer at once; it is FALSE in
the run, see "Observed".  The histories `lost` and `misnamed` set aside what refused
calls and remapped buffers leave behind.

### 2.6 UsmEmulation, SemaphoreEmulation, BinarySemaphores, Emulation

`UsmEmulation` has the addresses 1 .. `Top` as memory.  An allocation is an interval that
the driver chooses; `AllocMap` and `AllocVector` are the members of `SUSMContextInfo`.

| Action | Code |
|---|---|
| `emulatedHostMemAlloc` and two more | the functions of the same names (`Alloc`) |
| `clMemFreeINTEL_EMU`, `emulatedMemFree` | the same |
| `BeginBlockingFree`, `finishAll`, `clMemBlockingFreeINTEL_EMU` | the blocking free: `m_Mutex` is held while the queues are waited for, given up, and taken again |
| `emulatedGetMemAllocInfoINTEL` (an operator) | the query, `lower_bound` included |
| `trackUSMKernelExecInfo` | `clSetKernelExecInfo` and the flags it leaves |
| `BeginLaunch`, `setUSMKernelExecInfo`, `clEnqueueNDRangeKernel`, `Complete` | a launch: what it needs, the pointers set for it, the driver, the device |

`needs` is what a launch relies on (all live allocations of the kinds its kernel asked
for when the call began, less what the application frees meanwhile), `sees` whether the
driver had been told of all of it when it took the kernel, and `fast` whether every
update for it took the path with one kind and no pointers.  The other path is broken
(finding 1), so `OneKindIsVisible` is about the fast one.

`SemaphoreEmulation` has a signal or wait in three steps, as in `emulate.cpp`: check
the semaphores (`Check`), enqueue a marker (`Marker`), update the semaphores
(`clEnqueueSignalSemaphoresKHR_EMU`, `clEnqueueWaitSemaphoresKHR_EMU`).  No lock covers
them.  `leaked` counts the references the code itself forgets (a deleted semaphore's
event; a semaphore named twice in a signal).  `BinarySemaphores` is the abstract
specification; under the mapping `payload <- Payloads` a semaphore without an event is
unsignaled, with one pending or signaled.

`Emulation` is the layer with both extensions: `EmulationSpec` interleaves the steps of
either, which share no state.  The theorems are about `EmulationSpec`; in the run,
`MCEmulation`, a behaviour uses one of them only (`MCSpec`), because no property relates
the two.

### 2.7 KernelLaunch

`Steps` is the order of `clEnqueueNDRangeKernel` in `dispatch.cpp`: ask for a capture,
write its files, dump buffers and images, inject, enqueue, dump again.  Each step is
one section of `m_Mutex`; `Run` is the device, which runs the kernels of a queue in order
and any time later.  `argMem`, `argData`, `argLocal` and `numberOf` are the layer's maps,
`real`, `alive` and `content` the driver's truth.  The contents of memory are numbers
that tell who wrote them: 10 + n for the kernel of launch n, 100 + i for an injected file
of argument i.  `known` is the history of the arguments that the layer recorded as the
driver took them; `DumpsShowTheKernel` is about captured launches whose arguments are
all known.

| Action | Code |
|---|---|
| `AddMemory`, `RemoveMemory` | `ADD_BUFFER`, `ADD_IMAGE`, `addSVMAllocation`, `addUSMAllocation` and their counterparts |
| `clSetKernelArg`, `clSetKernelArgPointer` | `setKernelArg`, `setKernelArgSize`, `setKernelArgSVMPointer`, `setKernelArgUSMPointer`, before the driver is asked |
| `RecreateKernel` | the maps of a kernel's arguments outlive the kernel |
| `Begin`, `checkCaptureReplay`, `startCaptureReplay` | `INCREMENT_ENQUEUE_COUNTER`, `checkCaptureReplayKernelSkips`, the dump of a capture |
| `dumpBuffersForKernel`, `dumpImagesForKernel`, `injectBuffersForKernel`, `injectImagesForKernel`, `clEnqueueNDRangeKernel` | the same |

### 2.8 ProgramFiles

One behaviour is two runs of an application: in the first the layer dumps, then the user
copies files to the Inject directory (`Restart`), in the second the layer injects.
`config` gives the controls of both runs.  A handler's steps are those in `Steps` whose
controls are on: `StepControls` and `HashControls` are the lists of controls of the
macros in `intercept.h`.  A file's name is a record of the parts that the code formats
(number, hash, number of builds, hash of the options); a part the code leaves out, or
writes as zero, is NULL.  A call holds the set of the positions in `Steps` that are still
to come (`todo`): the proofs say of a step that it is among them or is done.  `Plain`,
`Outputs`, `BuildOptions` and `Held` are the types of what a program, a file or a
driver's handle holds, and `ProgramNullAssumption` says that NULL is none of it.
`info` is `m_ProgramInfoMap` with its entry for the NULL handle,
which the code makes and uses when a link is refused.

Creations are `clCreateProgramWithSource` and its siblings, then `injectProgramSource`,
`prependProgramSource`, `createProgramWithInjectionBinaries`, ... , `Create` (the driver),
a number and a dump in one step (`TakeNumber`: the code increments `m_ProgramNumber`
in the same locked section), and `saveProgramHash`.  Builds are `saveProgramOptionsHash`,
`injectProgramOptions`, `appendBuildOptions`, `dumpProgramOptions`, `Build` (the driver),
`logBuild`, `dumpProgramBinary`, `dumpKernelISABinaries`, `autoCreateSPIRV` and
`incrementProgramCompileCount`.

## 3. Runs

| Run | Instance | Shows |
|---|---|---|
| `device_timing` | 2 threads, 2 handles, 3 commands, 2 references per event, 3 configurations | type invariant, `NodesAreAlive`, `ReferencesBalance`, `AccountedOnce`, `WaitDrains` |
| `device_timing_liveness` | 2 threads, 2 handles, 2 commands, the configuration with the longest calls | `CallsReturn` |
| `object_tracking` | 2 threads, 2 handles, all 12 kinds, all handlers, 4 counted calls | type invariant, `LeakReport`, `InfoOfLiveObjects`, `CallsAreRouted`, `QueuesAreListed` |
| `aub_capture` | 3 threads, 2 signatures, 4 commands, 5 configurations | type invariant, `FlagIsTrue`, `CapturesAreLimited`, `UniqueKernelsOnce`, `IndividualCapturesEnd` |
| `reporting` | the trace: 2 threads, 3 calls, 5 configurations with buffers of 0, 2 and 3 records; the reports: 3 threads, 5 commands, 4 configurations of limit, interval and window | type invariants, `ImplementsTraceLog`, `TracksAreNamed`, `FlowsMeet`, `BlockingCallsAreDurable`, `CounterIsLimited`, `ReportsAgree`, `FinalReport` |
| `command_buffers` | 2 threads, 2 buffers, 1 mutable handle, 2 references, 4 commands in a buffer, 5 counted calls | type invariant, `DumpsAreRight`, `FreedBuffersAreForgotten`, `MutablesAreRouted` |
| `emulation` | 2 threads; 2 queues of which one is listed, 3 addresses, 2 allocations, launches and settings; 2 semaphores, 2 events, 1 refused marker | type invariants, `QueriesFindTheAllocation`, `OneKindIsVisible`, `BlockingFreeWaits`, `EventsAreCounted`, `ImplementsSemaphores` |
| `kernel_launch` | 2 threads, queues and kernels; a buffer, an image and an SVM allocation of two addresses; 2 launches, 4 configurations | type invariant, `DumpsShowTheKernel`, `ReplaysAreLimited` |
| `program_files` | 2 threads, 2 handles, 2 creations and 2 builds in each run, 1 copied file, 7 pairs of runs | type invariant, `NothingIsOverwritten`, `DumpedFilesAreFound` |
| `usm_indirect` | one thread, one kernel | `IndirectMemoryIsVisible` is violated (finding 1) |
| `program_spirv` | `DumpProgramSPIRV`, then `InjectProgramSPIRV` alone | `DumpedSpirvIsFound` is violated (finding 2) |

**Bounds.**  Two threads give every pairwise race; the third one in `aub_capture`
lets two threads stand behind the unlocked read while another one stops.  Two
handles and three commands make the driver recycle a handle while the other is in
use.  Two references per object give releases that are and are not the last.
`MaxCounted` bounds the calls that change a leak counter: four of them create,
retain and release twice, or create, release, create again with the same handle and
release, and the bound is looked at when a call begins, so the other thread may be
one call ahead.  Three calls to the trace in `reporting` are a queue, a command and a wait, or a blocking command
in either thread; with tool overhead each writes up to four records, so buffers of 2
and 3 fill in the middle of a call, at its end and not at all.  In the
reports three threads and an exit limit below the five commands put all of them between the
load and the increment.  `MaxEnqueue` bounds commands; every bound is a guard
of the action that begins a call, so all calls that began run to their end.
Symmetry in threads, handles and signatures is used where only invariants and
action properties are checked, never for liveness.

In `command_buffers` four commands hold a barrier with commands on both sides and one
more that depends on it; five counted calls create a buffer, fill it, release it and
create another with its handle.  A single mutable handle is enough, because what can go
wrong is that it is used again.  In `emulation` three addresses hold two allocations with
or without a gap, so that the query meets the byte behind an allocation, the gap and the
neighbour; two launches and two settings let a flag be left by one launch for the next.
In `kernel_launch` two addresses of one allocation tell a pointer into an allocation
from its start.  In `program_files` two creations and two builds make a program that
follows another with its handle, or two at a time; one copied file is found or not on
its own.  Larger instances were run while the modules were written, without a violation:
five counted calls in `object_tracking`; six calls and one command in `command_buffers`
with two threads, nine with one thread; three memory objects, four settings and three
launches of one thread in `kernel_launch`.

**Deadlock.**  `DeviceTiming` is checked for deadlock: some thread can always wait
or step.  The other modules set `CHECK_DEADLOCK FALSE`: the
application may stop calling when the bound is reached, and the process ends after
`Unload` or `Return`.

**Fairness.**  `CallsReturn` is checked under `FairSpec`: strong fairness of each
thread's steps inside a handler and weak fairness of `CommandEnds`.  Weak fairness
of a thread's step says that the operating system runs it; it is strong because
`m_Mutex` is free only now and then while others scan, and the code relies on the
mutex implementation not to starve a waiting thread.  Weak fairness of `CommandEnds`
says that the device ends what was enqueued, without which no `clFinish` returns.
No fairness is assumed of the application's calls.

## 4. Proofs

`DeviceTimingProofs` proves for every set of handles, finite set of threads, bound and
set of configurations:

| Theorem | Statement |
|---|---|
| `TypeCorrect` | `Spec => []TypeOK` |
| `NodesAlwaysAlive` | `Spec => []NodesAreAlive` |
| `ReferencesAlwaysBalance` | `Spec => []ReferencesBalance` |
| `AlwaysAccountedOnce` | `Spec => []AccountedOnce` |
| `WaitsAlwaysDrain` | `Spec => WaitDrains` |

Assumptions: the four named `ASSUME`s of `DeviceTiming` (threads are finitely many,
because the application's claims on an event are counted; "no thread" and "no handle"
are not members of the sets they extend; the bounds are natural numbers; configurations
are records of the stated type).  None restricts the sizes.

None of the properties is inductive.  The invariant is built in four layers, each proved
by one step per action from itself and the layers below:

1. `Inv1`: types, and what a handler's locals hold at each location (a local event
   exists only between the driver's call and its release, the mutex is held exactly
   in the scan).  In the type of `appRefs` the sign is left open.
2. `Inv2`: every call has a command number of its own, smaller than the counter; a
   command is on the list at most once, and a command not yet listed has not been
   accounted.  With it `AccountedOnce` is inductive: the scan counts a command in
   the step that removes its node.
3. `Inv3`: the reference equation, together with what keeps it true: nodes are
   alive, a command about to be listed still stands behind its event, local events
   are private to their thread, and the application's calls in progress claim no
   more references than it owns (a cardinality; this gives `appRefs` its sign).  A
   dead event has no owner (`DeadIsUnknown`), so a recycled handle is unknown to
   everybody, which is why nodes never name the wrong command.
4. `Inv4`: what a wait has seen complete is still complete and still among the
   nodes the scan will visit.  `WaitsAlwaysDrain` follows in the step that ends the
   scan.

`AubCaptureProofs` proves for every set of threads and signatures, every bound and every
set of configurations:

| Theorem | Statement |
|---|---|
| `FlagAlwaysTrue` | `Spec => []FlagIsTrue` |
| `CapturesAlwaysLimited` | `Spec => []CapturesAreLimited` |
| `UniqueKernelsAlwaysOnce` | `Spec => []UniqueKernelsOnce` |
| `UnloadAlwaysStops` | `Spec => []UnloadStops` |
| `IndividualCapturesAlwaysEnd` | `Spec => []IndividualCapturesEnd` |
| `AubTypesCorrect` | `Spec => []TypeOK` |

Assumptions: `AubBoundsAssumption` and `AubConfigsAssumption`, the types of the bound
and of the configurations, and, for the last two theorems only, `CommandsAreOrdered` of
`ApiTable`.  The first four hold whatever the table of handlers is.  Their invariant
adds to the properties: the number of kernels that started a capture is at most the
capture counter (`Counted`; the counter alone may pass the limit, for it counts enqueues
that start nothing); a signature that was captured or that some thread may yet capture
is in `m_AubCaptureSet`, and at most one thread may capture it, from the look-up to the
locked part (`NotYetCaptured`); nobody is inside the layer once it is unloaded (`Over`).
`StepUpdate` says once for all actions how a step changes the locals, and the other
lemmas use only that.

The second invariant is about what is left of a handler.  `CommandsAreOrdered` makes
that one of seven sequences (`Places`).  A kernel that has been numbered and not counted
by `m_AubCaptureKernelEnqueueCaptureCounter` has its number to itself, so this counter
and the pending numbers together stay below the enqueue counter (`CountersBounded`),
which is what bounds the counter.  With individual captures a thread that starts a
capture still has its stop before it; so while one is running somebody will stop it
(`Stopped`), although that may be a thread that did not start it.

`ObjectTrackingProofs` proves for all finite sets of threads and handles, every set of
kinds and every bound:

| Theorem | Statement |
|---|---|
| `TrackingTypesCorrect` | `Spec => []TypeOK` |
| `LiveObjectsAlwaysKnown` | `Spec => []InfoOfLiveObjects` |
| `CallsAlwaysRouted` | `Spec => []CallsAreRouted` |
| `QueuesAlwaysListed` | `Spec => []QueuesAreListed` |
| `LeakReportAlwaysRight` | `Spec => []LeakReport` |

Assumptions: `FocusAssumption`, `TrackingBoundsAssumption`, and `ObjectsAreOrdered` of
`ApiTable`.  The sets are finite because references and calls are counted; an address
space is.  Every handler whose steps meet `ObjectsAreOrdered` could be added to the
table and the theorems would still hold.

The first invariant, `MapsInv`, is about references.  The calls in progress on an object
claim no more of them than the application has (`ClaimsAreOwned`, a cardinality), an
object has one maker, and an event the layer made for itself no other user (`MadeOnce`),
and the driver's count is that of the application, the timing list and the maker of a
local event (`RefsAreOwned`).  So a thread that reads a count of one before it releases
is alone: between its removal of the entry and the driver's release (`Doomed`) no other
call can have a claim.  `EntriesAreKept` then says that an entered object is in its map,
dead, or doomed, and `ObjectsAreAdded` that an object whose functions are found by its
handle is either entered or still in the hands of its maker.  Memory known by a pointer
is exempt from `EntriesAreKept`: its handlers remove the entry too late (section 5).

For the report, `CountsAgree` is one equation over all objects of the kind: the
counters, and what calls in progress have made but not counted, or retained and released
but not counted, equal the references of the application and the refusals.  `Orderly`
states what `ObjectsAreOrdered` means for a thread in the middle of its steps, so that
the table is looked at once, when a call begins.

`ReportingProofs` proves of the trace, for every set of threads, every number of calls,
every size of the buffer and every set of configurations:

| Theorem | Statement |
|---|---|
| `ReportingTypesCorrect` | `ReportingSpec => []TypesOK`, the types of both parts |
| `TraceIsALog` | `ReportingSpec => ImplementsTraceLog`, that is `ReportingSpec => TheLog!Spec` |
| `TracksAlwaysNamed` | `ReportingSpec => []TracksAreNamed` |
| `FlowsAlwaysMeet` | `ReportingSpec => []FlowsMeet` |
| `BlockingCallsAlwaysDurable` | `ReportingSpec => []BlockingCallsAreDurable` |

A step of one part is a stutter of the other (`EachReport`), so each has an invariant of
its own.  Assumptions about the trace are those of `ChromeTrace`: the types of the bound and of the
configurations; threads are not numbers, because tracks of threads and of queues are
told apart.  For the first two the invariant is `TypeOK` and `CallsAreNumbered` (a
thread inside a call has a number, and the trace is not closed under it).  The types
matter for the refinement: without buffering the buffer is empty, so a record that goes
straight to the file is at the end of the log.  Each function of `CChromeTracer` is
shown once to be a step of the log (`AddRecordAdds`, `AddMetadataDescribes`,
`FlushWrites`, `UnloadCloses`), from two facts about sequences: appending to the second
part of a concatenation appends to the whole, appending to the first part inserts in
between.  The actions then only have to pass a record or a description of the right
type.

The other three need `Rest`, which relates the steps a handler has left to what is in
the log.  `CallsAreOrdered`: in what is left, a record of the host comes right after
`getThreadNumber`, unless it is next and its thread has a number; the record of the call
is written once; and every recording step of a blocking call is followed by its flush.
`NumbersAreUsed`: a call's number is its own, in the log as well.  `NamesAreWritten`:
the layer counts a thread or a queue as named if and only if its name is in the log,
which has it once, before all records of its track.  `RecordsAreApart`: a call has one
record and a command one, and while the step or the node that will write it is there it
is not written yet; a command that was timed belongs to a call that has been recorded or
will be.  `FlushedAreSecured`: a blocking call that has no flush before it has nothing
of its thread behind what the operating system has.  Descriptions enter the log in its
middle, so every one of these statements would have to be moved by one position; `Grown`
says once what a log that has grown, at its end or in the middle, has kept.

Of the reports it proves, for every finite set of threads, every bound and every set of
configurations (`ReportsAssumed`):

| Theorem | Statement |
|---|---|
| `CounterAlwaysLimited` | `ReportingSpec => []CounterIsLimited` |
| `ReportsAlwaysAgree` | `ReportingSpec => []ReportsAgree` |
| `ReportsAlwaysGrow` | `ReportingSpec => []Rep!ReportsGrow` |
| `FinalReportIsRight` | `ReportingSpec => []FinalReport` |

The invariant is three equations over the number of threads at certain locations:
commands that began are counted or still on their way to the counter (`Counted`);
numbers in the timing window are in the statistics or belong to a thread in the driver
(`Timed`); the counter and the threads that passed the exit check stay below the limit
and the number of threads (`Limited`).  `ReportsAgree` is `Timed` at the moment of the
report, and `ReportsArePast` carries it on: no report is ahead of the counter or the
statistics, both of which only grow.  For `FinalReport` a second invariant, `Final`,
follows a thread from the exit check over `exit` to the end: the limit it saw stays
passed, and a later report says no less than the one it wrote.  `WhereMoves` says once
how a thread's move changes the cardinalities.

`CommandBuffersProofs` proves, for every finite set of threads and every set of buffers,
mutable commands and platforms and all bounds, under `BufferAssumption` (types of the
constants) and, but for the last theorem, under `Overlapping = FALSE`:

| Theorem | Statement |
|---|---|
| `FreedBuffersAlwaysForgotten` | `Spec => []FreedBuffersAreForgotten` |
| `MutablesAlwaysRouted` | `Spec => []MutablesAreRouted` |
| `DumpsAlwaysRight` | `Spec => []DumpsAreRight` |
| `CommandBuffersTypesCorrect` | `Spec => []TypeOK`, for either value of `Overlapping` |

Calls in progress on a buffer own a reference each (`CallsHaveReferences`, a
cardinality), and at most one of them is a release (`OneRelease`).  So a release that
finds one reference left is alone, and what it erased stays erased until the driver has
freed the buffer (`LastReleaseForgets`); a living buffer is in the map or a call is
still busy with it (`KnownOrBusy`), without which the condition `info[b] # NULL` of
`checkRemoveCommandBufferInfo` could keep the entries.  What the rest of a handler can
be is the finite set `Programs`.

A second invariant, `Routed`, ties handles, lists and entries to each other.  Buffers
share no mutable command (`HandlesAreDistinct`); what is listed for a buffer, or about
to be listed, is a mutable command of it or one the history calls misnamed
(`ListsHoldHandles`, `AddedAreHandles`), so erasing a list touches no other buffer's
commands; a buffer that is about to be freed is unknown and its list is empty but for
misnamed commands (`LastReleaseIsUnknown`, `UnknownHaveNoList`); and a mutable command
is in the map, held by the handler that will enter it, or about to go with its buffer
(`HandlesAreRouted`).  That a handler enters a command under a buffer the map knows
needs the first invariant: a buffer without an entry is being named, and then nobody
else has it yet (`NamingIsFirst`).

`DumpsAreRight` compares two recursive functions of the commands of a buffer: the paths
through what is drawn and the paths through what the driver obeys.  `Reduces` states,
without recursion, why they agree: the drawn edges are among the required ones, and what
is left out lies on a path through a drawn edge.  `ReducedPaths` concludes that the
paths are the same, by a smallest command for which they are not.  `Drawing` defines the
drawing of a sequence of commands edge by edge (what a barrier stands for, what is
outstanding since the last one, which sync points a command waits for), and one command
more extends it as `recordCommand` or `recordBarrier` extends the record (`IsDrawn`).
The invariant, `Tidy`, then is about each buffer by itself: at most one thread fills it,
its commands wait for earlier ones only, and its record is the drawing of its commands,
less the one that is about to be recorded (`RecordDraws`).  It uses
`FreedBuffersAreForgotten`: a handle that comes back starts with an empty record.

The type invariant needs no more than that each call owns a reference.  Numbers of
internal commands have no bound in it: the record of a buffer whose last release was
refused stays, with its count.

`EmulationProofs` proves, for all sets of contexts, queues, kernels and events, all
finite sets of threads and semaphores, and all bounds:

| Theorem | Statement |
|---|---|
| `EmulationTypesCorrect` | `EmulationSpec => []TypesOK` |
| `QueriesAlwaysFind` | `EmulationSpec => []QueriesFindTheAllocation` |
| `OneKindAlwaysVisible` | `EmulationSpec => []OneKindIsVisible` |
| `BlockingFreeAlwaysWaits` | `EmulationSpec => []BlockingFreeWaits` |
| `EventsAlwaysCounted` | `EmulationSpec => []EventsAreCounted` |
| `SemaphoresAreBinary` | `EmulationSpec => ImplementsSemaphores`, that is `EmulationSpec => Sem!Abstract!Spec` |

Assumptions: `UsmAssumption` (types of the constants), and `SemaphoresAssumed`: threads
and semaphores are finitely many, calls in progress do not share semaphores, and event
variables hold no old event.  The code asks the last two of its application; without
either, `EventsAreCounted` is false (section 5).

A step of one extension is a stutter of the other (`EachExtension`), so each has an
invariant of its own.  That of USM says that vectors and map list the same allocations
once each (`ListsAgree`), that a launch needs only memory that is still allocated and of
a kind its kernel asked for, all of which the driver knows once the fast path has set it
(`LaunchesNeed`), and that a free in progress names its context (`FreesName`).  For the
query, `MapsAgree` adds that the layer has the sizes the driver has and that no two
allocations overlap.  The candidate of `lower_bound` is the greatest base that is not
above the pointer, which exists because the bases are bounded (`GreatestNumber`), and an
allocation that contains the pointer can be no other.

That of semaphores, `CallsInProgress`, says that what `Check` saw still holds at the
update, and that the event an application asked for is still its own.  In the refinement
every update is one step of `BinarySemaphores` for all semaphores it names, a signal
whose marker was refused is a stutter.

`KernelLaunchProofs` proves, for every set of threads, queues, kernels and memory, every
bound and every set of configurations:

| Theorem | Statement |
|---|---|
| `ReplaysAlwaysLimited` | `Spec => []ReplaysAreLimited` |
| `KernelLaunchTypesCorrect` | `Spec => []TypeOK` |
| `DumpsAlwaysShowTheKernel` | `Spec => []DumpsShowTheKernel` |

Assumptions: `LaunchAssumption` and `ReplayAssumption`, the types of the constants and
of the settings (a kernel has finitely many arguments, memory handles are positive
numbers), and `MemoryAssumption`: allocations have a size and the driver's do not
overlap, so that the base the layer finds for a pointer into one is the right one.

For the limits: a launch asks once (`ChecksOnce`), launches in progress and captured
ones have numbers of their own (`Numbered`, `CapturesAreNumbered`), the counters bound
the captures (`Counted`), and the set has every captured kernel (`Remembered`).

For the dumps the invariant has three layers.  `Shape`: a launch goes through `Steps`
one by one, so the number of steps left tells where it is; the layer's maps are right
about every argument it knows (`RecordsAreRight`); launches in progress share no memory.
`Queueing`: a queued kernel is the one its launch has enqueued, is queued once, and,
from the moment a captured launch has waited for its queue, no other queued kernel uses
the launch's memory (`Apart`); after the second wait its own kernel is gone as well
(`Waited`).  `Shows`: what has been written so far is right, the files before the kernel
(`PreShown`), the result in memory (`ResultKept`), the files after it (`PostShown`), the
list of arguments (`ArgsShown`).  Most steps are another thread's; `UnseenShows` says
once that a step which leaves alone what a launch rests on keeps its `Shows`.  Memory in
`stray` is the exception of the property; the proof found it (section 5).

`ProgramFilesProofs` proves, for every finite set of threads, every set of programs,
sources and options, every bound and every set of pairs of runs, that is for every
choice of controls and of calls:

| Theorem | Statement |
|---|---|
| `TypesCorrect` | `Spec => []TypeOK` |
| `FilesKept` | `Spec => []NothingIsOverwritten` |
| `DumpsInjected` | `Spec => []DumpedFilesAreFound` |

Assumptions: threads are finitely many, because calls that have no number yet are
counted; the bounds are natural numbers; NULL is none of the things it stands for the
absence of (`ProgramNullAssumption`).

The difficulty is that any subset of the steps may be switched on.  `Suffixes` says that
the steps to come of a call are the last of those its controls ask for; from it `Order`
draws, once, the facts about which step precedes which.  `Change` reduces the 30 actions
to ten kinds of step, with what each does to files, to the layer's map and to the
driver, and the rest of the proof splits on those.

For `FilesKept` a name has to tell what is in the file.  There are as many numbers as
creations, no two programs share one (`NumbersTaken`, `Numbering`), and every file's
number has been given out (`FileNumbers`); the program that a call works on is nobody
else's (`Handles`).  So two files of one name are of one program, and `Latest` says that
the program's count is then above that of all its files, but for those its present call
has just written: a call counts itself after its dumps, and never writes two files by one
step.  When no control counts (`NotCounted`), the only files named by a count are those
of options, and the name tells them.

For `DumpsInjected` the invariant has the second run's side and the first's.  What the
first run writes is named by the source's own hash and by the options (`FirstRun`,
`TextRight`), and so is what the user copies (`Injected`).  In the second run the hash
that the layer looks for is the source's own, also after an injection (`Sourced`); the
hash and the count it keeps for a program are those of the source and of its builds,
whatever program had the handle before (`SourceInfo`); and the options it saved are the
application's (`OptionsSaved`), so the name it looks for first, second or third is the
one that is there (`Answered`).

In a first form neither property could be proved, although the run found no violation:
each has an exception that its pairs of runs did not meet.  The properties now state
them (section 5, "Programs"), and the pairs `AppendRuns` and `InputRuns` meet them.

**Model-checked only.** `CallsReturn`: liveness under fairness and ENABLED are out of
the prover's reach.  The two findings are counterexamples and need no theorem.  All other
properties of the runs are proved; `UnloadStops` and `ReportsGrow` are proved and need no
run.

The library's induction theorems take an operator as a parameter, which the installed
provers cannot instantiate, so nothing is proved by induction over data in its usual
form.  Where a smallest counterexample is enough, it is taken from a set: strict
inclusion of finite sets is well founded, hence a family of finite sets has a smallest
member (`SmallestSet`), a set of numbers a least one and a bounded one a greatest
(`LeastNumber`, `GreatestNumber`).  No module with a theorem reaches a RECURSIVE
operator, which would cost the prover its SMT backend; recursion is written as
functions.

## 5. Findings

1. **Indirect access to several kinds of memory** (`usm_indirect`).
   `setUSMKernelExecInfo` (`intercept.cpp:15584-15627`) makes a vector of `count` null
   pointers, inserts the pointers behind them, and passes the first `count` entries on:
   a kernel that reaches two kinds of memory indirectly, or one kind besides pointers of
   its own, is launched with none of them.
2. **SPIR-V that was dumped is not found** (`program_spirv`).  `COMPUTE_SPIRV_HASH`
   (`intercept.h:2998`) does not ask for `InjectProgramSPIRV`, so with that control alone
   the layer looks for a file with the hash zero.

### Observed

Facts of the code met while modelling.  The models have them as they are; where a
property would be false because of one, its comment or its guard says so.

Object maps and reports:

* `clMemFreeINTEL`, `clMemBlockingFreeINTEL`, `clSVMFree` and `clSVMFreeWithPropertiesKHR`
  call the driver and then remove the entry (`dispatch.cpp:10230`), all handlers of
  reference counted objects remove first: a thread that is given the freed address in
  between loses its entry.
* The load that decides on a periodic report and the increment are apart
  (`intercept.h:2021`): two threads step over a multiple together.  `docs/FAQ.md:155`
  speaks of "guaranteeing that a report file will be generated".  With `AppendFiles` the
  same gap can also write one report twice.

Aub capture:

* `clEnqueueMigrateMemObjects` (`dispatch.cpp:4836`) and `clEnqueueSVMMigrateMem` lack
  `CHECK_AUBCAPTURE_STOP`: a migration numbered above `AubCaptureMaxEnqueue` leaves the
  capture on.  Other commands are stopped after the driver's call, so the first one above
  the limit is still captured; `docs/controls.md:710` says "only enqueues less than this
  value, inclusive, will be captured".
* With `AubCaptureIndividualEnqueues` any thread's stop (`intercept.h:2795`) ends the
  capture that another thread has started for a kernel it has not dispatched yet
  (`docs/controls.md:702`).

Chrome trace:

* `FlushFiles` (`docs/controls.md:254`: "flush files after ever write") flushes the trace
  in `chromeCallLoggingExit` only (`intercept.cpp:14540`); records of commands and
  descriptions stay in the stream until a call is logged.
* With `ChromePerformanceTimingInStages` a call starts a flow that nothing ends
  (`chrometracer.cpp:218`, `docs/controls.md:210`).

Command buffers:

* `clRemapCommandBufferKHR` does not enter the mutable commands it returns into
  `m_MutableCommandInfoMap` (`dispatch.cpp:11845`).
* `ADD_MUTABLE_COMMAND` (`intercept.h:2566`) does not ask whether the command was taken
  and enters whatever the application's variable holds.
* A last release that the driver refuses has already emptied the entries.  Commands
  recorded afterwards leave a list of mutable commands under the buffer's handle, and a
  later buffer with that handle erases another buffer's entries with it.
* `getRefCount` and the driver's release are apart: with two releases at once
  (`Overlapping = TRUE`) both see two references and nothing is erased.
* The maps are read without `m_Mutex` by `getPlatform` (`intercept.h:1776`).

USM emulation:

* A `break` is missing after `CL_MEM_TYPE_SHARED_INTEL` in `emulatedMemFree`
  (`intercept.cpp:15238-15294`): freeing shared memory runs into the assertion of the
  default case.
* `emulatedGetMemAllocInfoINTEL` and the look-ups of `setUSMKernelExecInfo` read maps
  without `m_Mutex`; the maps of contexts and kernels are never erased, so a kernel
  with a recycled handle inherits flags.
* Once the last allocation of a kind is freed the driver keeps the old list, and a free
  between the listing and the enqueue leaves a dead pointer in it.
* `finishAll` (`intercept.cpp:15654`) misses queues that are not listed
  (`clCreatePerfCountersCommandQueueINTEL`, `dispatch.cpp:8877`).

Semaphore emulation:

* A wait whose marker is refused still takes the signal away; a signal whose marker is
  refused stores what its event variable held before.
* A semaphore that is deleted with an event leaks it; one that is named twice in a signal
  leaks a reference.  `RefCount` is not atomic.
* Signals or waits that share a semaphore, or an event variable that holds an old event,
  violate `EventsAreCounted` (`Overlapping = TRUE` or `StaleEvents = TRUE`, which
  `SemaphoresAssumed` rules out).

Kernel launches:

* `ADD_IMAGE` (`intercept.h:2481`) does not ask for `InjectImages`: with that control
  alone no image is known, and nothing is injected (`docs/controls.md:636`).
* An image file of the wrong size is logged as skipped, but injected once the transfer
  buffer has grown large enough for it.
* Arguments are recorded before the driver accepts them, a null buffer is recorded as
  local memory, and the maps of a kernel outlive it: a dump can hold an argument of an
  earlier kernel with the handle (`docs/controls.md:584`: "Only buffers that are kernel
  arguments for the kernel being enqueued are dumped").  `clCloneKernel`
  (`dispatch.cpp:7332`) copies none of the maps.
* The dump before the kernel precedes the injection.
* An injection writes to the memory in `m_KernelArgMemMap` (`intercept.cpp:8541`), not to
  what the driver was given.  When the two differ, that can be the memory of another
  kernel whose captured launch is between its dumps: its files then show what the kernel
  did not work with.  This takes more settings of arguments than the run has; the proof
  of `DumpsAlwaysShowTheKernel` did not go through without setting such memory aside
  (`stray`).
* A repeated kernel uses up one of the captures although it is not captured
  (`intercept.cpp:14741`).

Programs:

* `BUILD_LOGGING` (`intercept.h:2110`) asks for `BuildLogging` only, so that
  `DumpProgramBuildLogs` alone dumps nothing (`docs/controls.md:500`).
* The global options file is looked for as `.../Inject_options.txt`, not
  `.../Inject/CLI_options.txt` (`intercept.cpp:4674`, `docs/injecting_programs.md:67`).
* A build without options keeps the hash of the options of the build before
  (`intercept.cpp:4287`), also of a build of a released program that had the handle.
  With `AppendBuildOptions` the first run then dumps what it appended to nothing under
  the name of those options, and the second injects it in the place of theirs:
  `DumpedFilesAreFound` allows for options that are appended to nothing.
* The list of `INCREMENT_PROGRAM_COMPILE_COUNT` (`intercept.h:2860`) lacks
  `DumpInputProgramBinaries`.  With that control alone builds have no number, so by the
  same way options appended to nothing write over the dump of the options of another
  build; `NothingIsOverwritten` sets them aside.
* The build log of a linked program is written before the program has its number;
  refused links share the entry of the NULL handle; entries are never erased.
* `m_ProgramNumber` is read for an injection and taken later: two threads look for the
  same number.
* `COMPUTE_SPIRV_HASH` lacks `DumpProgramBinaries` too, both it and `COMPUTE_BINARY_HASH`
  lack `InjectProgramSource`, under which options are looked for by hash, and
  `CREATE_COMBINED_PROGRAM_STRING` lacks `InjectProgramSPIRV` (`docs/controls.md:484`).

## 6. Not modelled

* The texts of logs, reports and file names; times.  Only whether and how often
  something is counted matters here.
* Weak memory: counters are relaxed atomics that are read once threads are
  quiescent, everything else is under `m_Mutex`, except for `m_AubCaptureStarted`
  (its unlocked read is a step of its own) and the map read of `dispatchX` (a data
  race, listed as a hazard).
* `m_Mutex` as a resource a waiting thread can be deadlocked on by user events
  (`startAubCapture` and `finishAll` call `clFinish` with it held; listed as
  hazards).
* Objects whose release the driver refused: their entry is already gone.  The
  properties of `ObjectTracking` set them aside in `refused`, and the hazard list
  names the consequence.
* Concurrent use that the application has to order: two threads that fill one command
  buffer, build one program, or use one emulated semaphore; a launch whose memory others
  change meanwhile (the modules say so where they assume it).
* Of the modelled components: callbacks and pure queries of the API; the emulated enqueues
  that only pass arguments on (`emulate.cpp:160-340`); the files with source, options and
  ranges that a capture adds, and the script that replays them; `dumpArgument`, dumps of
  mapped buffers and hashes of dumps; the dumps for offline compilers on Windows.
* Extension dispatch, queue property overrides and automatic partitioning: answers of the
  driver or lists that are computed once and do not change later.
* Pure I/O: OS services, tools, metrics discovery; generated enum tables; the
  numerical kernels.

## 7. Plan

In order of importance; every module is written to be proved about as well as run.

1. `Callbacks`: context, event and memory destructor callbacks and their user data,
   composed with the release of a context and with shutdown (the dummy dispatch and
   threads inside a deleted layer).
2. User events, so that waiting under `m_Mutex` (`startAubCapture`, `finishAll`) can
   deadlock.
3. `ExtensionDispatch`: lazy filling of `m_DispatchX` per platform.
4. Pure algorithms against reference definitions: statistics and histograms, queue
   property rewriting, automatic partitioning.

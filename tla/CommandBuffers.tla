--------------------------- MODULE CommandBuffers ---------------------------
(***************************************************************************)
(* Command buffers: the recorder of cmdbufrecorder.h, which draws each     *)
(* buffer's commands and their dependencies as a graph and writes it to a  *)
(* file when the buffer is finalized, and the map that leads from a        *)
(* mutable command to its platform.                                        *)
(*                                                                         *)
(* Threads create, fill, finalize, remap and release command buffers; a    *)
(* buffer is filled by one thread at a time, which is what gives its       *)
(* commands an order.  The driver may refuse any call and gives the        *)
(* handles of freed buffers and commands to later ones.  m_Mutex covers    *)
(* one look-up or update.  DumpCommandBuffers is on.                       *)
(***************************************************************************)
EXTENDS Integers, Sequences, FiniteSets

CONSTANTS
    Threads, Buffers, Mutables, Platforms,
    NULL,         \* no buffer, no mutable command, the platform of what is in no map
    Overlapping,  \* threads may release their references to a buffer at once
    MaxRefs,      \* bound: references to one buffer
    MaxCommands,  \* bound: commands in one buffer
    MaxCalls      \* bound: calls that create, retain or fill a buffer, and
                  \* calls that are refused

ASSUME BufferAssumption ==
    /\ IsFiniteSet(Threads)
    /\ NULL \notin Platforms \cup Buffers \cup Mutables
    /\ Overlapping \in BOOLEAN
    /\ MaxRefs \in Nat \ {0} /\ MaxCommands \in Nat /\ MaxCalls \in Nat

VARIABLES
    call,           \* the handler each thread is in
    info,           \* m_CommandBufferInfoMap: a buffer's platform
    record,         \* m_CommandBufferRecordMap
    number,         \* m_CommandBufferNumber
    mutableInfo,    \* m_MutableCommandInfoMap: a mutable command's platform
    mutableList,    \* m_CommandBufferMutableCommandsMap
    state, refs,    \* driver: what a buffer is, and its references
    platformOf,     \* driver: the platform of a buffer's queue
    inOrder,        \* driver: that queue executes in order
    content,        \* driver: the commands of a buffer that is being filled
    handles,        \* driver: the mutable commands of a buffer
    calls,          \* history: the calls MaxCalls bounds
    lost,           \* history: buffers whose last release was refused
    misnamed        \* history: mutable commands that a refused call was passed,
                    \* that a remapped buffer got, or that a lost one was given

layer  == <<info, record, number, mutableInfo, mutableList>>
driver == <<state, refs, platformOf, inOrder, content, handles>>
history == <<calls, lost, misnamed>>
vars == <<call, layer, driver, history>>

Points == 1 .. MaxCommands
Ids    == ({"syncpoint"} \X Points) \cup ({"internal"} \X Nat)
States == {"free", "recording", "executable"}

\* A command as the driver has it; sync point 0 when none was asked for.
Commands == [barrier : BOOLEAN, waits : SUBSET Points, point : Points \cup {0}]

\* SCommandBufferRecord; what operator[] makes for a key that is not there.
NoRecord == [queueIsInOrder |-> FALSE, dot |-> <<>>, nextInternalId |-> 0,
             implicitDeps |-> {}, outstandingIds |-> {}]

NoCommand == [barrier |-> FALSE, waits |-> {}, point |-> 0]
NoCall == [todo |-> <<>>, buffer |-> NULL, command |-> NoCommand, mutable |-> NULL]

-----------------------------------------------------------------------------
(* The handlers: their steps in order.  "create", "remap", "finalize",     *)
(* "command" and "release" are the driver's functions.                     *)

clCreateCommandBufferKHR   == <<"create", "recordCreate", "addInfo">>
clRemapCommandBufferKHR    == <<"remap", "addInfo">>
clFinalizeCommandBufferKHR == <<"finalize", "recordFinalize", "dump">>
clReleaseCommandBufferKHR  == <<"remove", "release">>

\* What fills a buffer: whether it is a barrier to the driver, and the steps.
Recorded(barrier, recorder) ==
    [barrier |-> barrier, steps |-> <<"command", recorder, "addMutable">>]

clCommandBarrierWithWaitListKHR == Recorded(TRUE, "recordBarrier")
clCommandCopyBufferKHR          == Recorded(FALSE, "recordCommand")
clCommandCopyBufferRectKHR      == Recorded(FALSE, "recordCommand")
clCommandCopyBufferToImageKHR   == Recorded(FALSE, "recordCommand")
clCommandCopyImageKHR           == Recorded(FALSE, "recordCommand")
clCommandCopyImageToBufferKHR   == Recorded(FALSE, "recordCommand")
clCommandFillBufferKHR          == Recorded(FALSE, "recordCommand")
clCommandFillImageKHR           == Recorded(FALSE, "recordCommand")
clCommandSVMMemcpyKHR           == Recorded(FALSE, "recordCommand")
clCommandSVMMemFillKHR          == Recorded(FALSE, "recordCommand")
clCommandNDRangeKernelKHR       == Recorded(FALSE, "recordCommand")

CommandHandlers ==
    {clCommandBarrierWithWaitListKHR, clCommandCopyBufferKHR, clCommandCopyBufferRectKHR,
     clCommandCopyBufferToImageKHR, clCommandCopyImageKHR, clCommandCopyImageToBufferKHR,
     clCommandFillBufferKHR, clCommandFillImageKHR, clCommandSVMMemcpyKHR,
     clCommandSVMMemFillKHR, clCommandNDRangeKernelKHR}

Handlers == {clCreateCommandBufferKHR, clRemapCommandBufferKHR, clFinalizeCommandBufferKHR,
             clReleaseCommandBufferKHR}
            \cup {h.steps : h \in CommandHandlers}

\* The macros that record ask for CL_SUCCESS, ADD_MUTABLE_COMMAND does not.
Unconditional(steps) ==
    IF \E i \in DOMAIN steps : steps[i] = "addMutable" THEN <<"addMutable">> ELSE <<>>

Idle(t) == call[t].todo = <<>>
At(t, step) == ~Idle(t) /\ Head(call[t].todo) = step

\* The call of t goes on with the steps to come, if any, and changed locals c.
Continues(t, c, steps) ==
    call' = [call EXCEPT ![t] = IF steps = <<>> THEN NoCall ELSE [c EXCEPT !.todo = steps]]
After(t) == Continues(t, call[t], Tail(call[t].todo))

Counted == calls < MaxCalls /\ calls' = calls + 1
Using(b) == {t \in Threads : call[t].buffer = b}

TypeOK ==
    /\ \A t \in Threads :
          /\ DOMAIN call[t] = DOMAIN NoCall
          /\ \E h \in Handlers : \E i \in 0 .. Len(h) :
                call[t].todo \in {SubSeq(h, i + 1, Len(h)), Unconditional(SubSeq(h, i + 1, Len(h)))}
          /\ call[t].buffer \in Buffers \cup {NULL}
          /\ call[t].command \in Commands
          /\ call[t].mutable \in Mutables \cup {NULL}
    /\ info \in [Buffers -> Platforms \cup {NULL}]
    /\ \A b \in Buffers :
          /\ DOMAIN record[b] = DOMAIN NoRecord
          /\ record[b].queueIsInOrder \in BOOLEAN
          /\ record[b].implicitDeps \subseteq Ids
          /\ record[b].outstandingIds \subseteq Ids
          /\ record[b].nextInternalId \in Nat
    /\ number \in Nat
    /\ mutableInfo \in [Mutables -> Platforms \cup {NULL}]
    /\ mutableList \in [Buffers -> SUBSET Mutables]
    /\ state \in [Buffers -> States] /\ refs \in [Buffers -> 0 .. MaxRefs]
    /\ platformOf \in [Buffers -> Platforms]
    /\ inOrder \in [Buffers -> BOOLEAN]
    /\ content \in [Buffers -> Seq(Commands)]
    /\ handles \in [Buffers -> SUBSET Mutables]
    /\ calls \in Nat /\ lost \subseteq Buffers /\ misnamed \subseteq Mutables

Init ==
    /\ call = [t \in Threads |-> NoCall]
    /\ info = [b \in Buffers |-> NULL]
    /\ record = [b \in Buffers |-> NoRecord]
    /\ number = 0
    /\ mutableInfo = [m \in Mutables |-> NULL]
    /\ mutableList = [b \in Buffers |-> {}]
    /\ state = [b \in Buffers |-> "free"] /\ refs = [b \in Buffers |-> 0]
    /\ platformOf \in [Buffers -> Platforms]
    /\ inOrder = [b \in Buffers |-> FALSE]
    /\ content = [b \in Buffers |-> <<>>]
    /\ handles = [b \in Buffers |-> {}]
    /\ calls = 0 /\ lost = {} /\ misnamed = {}

-----------------------------------------------------------------------------
(* SCommandBufferRecord. *)

recordCreate(r, ordered) ==
    [r EXCEPT !.queueIsInOrder = ordered,
              !.dot = Append(@, [line |-> "digraph"])]

IsInternal(c) == c.point = 0
CommandId(r, c) == IF IsInternal(c) THEN <<"internal", r.nextInternalId>>
                   ELSE <<"syncpoint", c.point>>

\* A node and its incoming edges.
Drawn(r, c, dependencies) ==
    [r EXCEPT !.dot = Append(@, [line |-> "node", id |-> CommandId(r, c),
                                 from |-> dependencies]),
              !.nextInternalId = @ + IF IsInternal(c) THEN 1 ELSE 0]

Explicit(c) == {<<"syncpoint", s>> : s \in c.waits}

recordCommand(r, c) ==
    LET id == CommandId(r, c)
        d  == Drawn(r, c, Explicit(c) \cup r.implicitDeps)
    IN  IF r.queueIsInOrder THEN [d EXCEPT !.implicitDeps = {id}]
        ELSE [d EXCEPT !.outstandingIds = @ \cup {id}]

\* Mutant: a barrier ends the wait for commands it does not wait for.
recordBarrierForgets(r, c) ==
    LET d == Drawn(r, c, r.implicitDeps \cup
                         IF c.waits = {} THEN r.outstandingIds ELSE Explicit(c))
    IN  [d EXCEPT !.outstandingIds = {}, !.implicitDeps = {CommandId(r, c)}]

\* A barrier without a wait list waits for all outstanding commands.
recordBarrier(r, c) ==
    LET all == c.waits = {}
        d   == Drawn(r, c, r.implicitDeps \cup
                           IF all THEN r.outstandingIds ELSE Explicit(c))
    IN  [d EXCEPT !.outstandingIds = IF all THEN {} ELSE @,
                  !.implicitDeps = {CommandId(r, c)}]

recordFinalize(r) == [r EXCEPT !.dot = Append(@, [line |-> "end"])]

-----------------------------------------------------------------------------
(* clCreateCommandBufferKHR, clRemapCommandBufferKHR. *)

\* The driver makes a buffer of a queue, with the mutable commands ms.
Creates(t, b, newState, ordered, ms, steps) ==
    /\ state[b] = "free"
    /\ Counted
    /\ inOrder' = [inOrder EXCEPT ![b] = ordered]
    /\ state' = [state EXCEPT ![b] = newState]
    /\ refs' = [refs EXCEPT ![b] = 1]
    /\ handles' = [handles EXCEPT ![b] = ms]
    /\ Continues(t, [NoCall EXCEPT !.buffer = b], Tail(steps))
    /\ UNCHANGED <<platformOf, content, layer, lost>>

DispatchCreate(t, b) ==
    /\ Idle(t)
    /\ \E ordered \in BOOLEAN : Creates(t, b, "recording", ordered, {},
                                  clCreateCommandBufferKHR)
    /\ UNCHANGED misnamed

\* RECORD_COMMAND_BUFFER_CREATE asks the queue whether it is in order.
RecordCreate(t) ==
    /\ At(t, "recordCreate")
    /\ LET b == call[t].buffer IN
          record' = [record EXCEPT ![b] = recordCreate(@, inOrder[b])]
    /\ After(t)
    /\ UNCHANGED <<info, number, mutableInfo, mutableList, driver, history>>

AddCommandBufferInfo(t) ==
    /\ At(t, "addInfo")
    /\ LET b == call[t].buffer IN info' = [info EXCEPT ![b] = platformOf[b]]
    /\ After(t)
    /\ UNCHANGED <<record, number, mutableInfo, mutableList, driver, history>>

\* The application uses each of its references in one call at a time.
Spare(b) == refs[b] > Cardinality(Using(b))

UsedMutables == UNION {handles[b] : b \in {c \in Buffers : state[c] # "free"}}

\* The new buffer has the commands of the old one; its mutable commands are not
\* entered in the layer's map.
DispatchRemap(t, old, b) ==
    /\ Idle(t)
    /\ state[old] = "executable" /\ Spare(old)
    /\ \E ms \in SUBSET (Mutables \ UsedMutables) :
          /\ Cardinality(ms) = Cardinality(handles[old])
          /\ misnamed' = misnamed \cup ms
          /\ Creates(t, b, "executable", FALSE, ms, clRemapCommandBufferKHR)

-----------------------------------------------------------------------------
(* The clCommand functions. *)

Recorders(b) == {t \in Using(b) : ~At(t, "remove") /\ ~At(t, "release")}

BeginCommand(t, b) ==
    /\ Idle(t)
    /\ state[b] = "recording" /\ Spare(b) /\ Recorders(b) = {}
    /\ Len(content[b]) < MaxCommands /\ Counted
    /\ \E h \in CommandHandlers, wanted \in BOOLEAN,
          waits \in SUBSET {content[b][i].point : i \in DOMAIN content[b]} :
          Continues(t, [NoCall EXCEPT !.buffer = b,
                          !.command = [barrier |-> h.barrier, waits |-> waits \ {0},
                                       point |-> IF wanted THEN Len(content[b]) + 1 ELSE 0]],
                    h.steps)
    /\ UNCHANGED <<layer, driver, lost, misnamed>>

\* The application may ask for a handle to change the command with later.
DispatchCommand(t) ==
    /\ At(t, "command")
    /\ LET b == call[t].buffer IN
          /\ content' = [content EXCEPT ![b] = Append(@, call[t].command)]
          /\ \E m \in (Mutables \ UsedMutables) \cup {NULL} :
                /\ handles' = [handles EXCEPT ![b] = @ \cup ({m} \ {NULL})]
                /\ misnamed' = IF b \in lost THEN misnamed \cup ({m} \ {NULL}) ELSE misnamed
                /\ Continues(t, [call[t] EXCEPT !.mutable = m], Tail(call[t].todo))
    /\ UNCHANGED <<layer, state, refs, platformOf, inOrder, calls, lost>>

\* ADD_MUTABLE_COMMAND does not ask whether the command was refused: it takes
\* what the application's variable held before.
RefuseCommand(t) ==
    /\ At(t, "command")
    /\ \E m \in Mutables \cup {NULL} :
          /\ IF m = NULL THEN UNCHANGED calls ELSE Counted
          /\ Continues(t, [call[t] EXCEPT !.mutable = m], Unconditional(call[t].todo))
          /\ misnamed' = misnamed \cup ({m} \ {NULL})
    /\ UNCHANGED <<layer, driver, lost>>

\* RECORD_COMMAND_BUFFER_COMMAND and RECORD_COMMAND_BUFFER_BARRIER.
RecordCommand(t) ==
    /\ LET b == call[t].buffer
           c == call[t].command
       IN  \/ At(t, "recordCommand") /\ record' = [record EXCEPT ![b] = recordCommand(@, c)]
           \/ At(t, "recordBarrier") /\ record' = [record EXCEPT ![b] = recordBarrier(@, c)]
    /\ After(t)
    /\ UNCHANGED <<info, number, mutableInfo, mutableList, driver, history>>

\* Mutant: the null handle is entered as well.
AddMutableUnchecked(t) ==
    /\ At(t, "addMutable")
    /\ LET m == call[t].mutable
           b == call[t].buffer
       IN  /\ mutableInfo' = [mutableInfo EXCEPT ![m] = info[b]]
           /\ mutableList' = [mutableList EXCEPT ![b] = @ \cup {m}]
    /\ After(t)
    /\ UNCHANGED <<info, record, number, driver, history>>

AddMutableCommandInfo(t) ==
    /\ At(t, "addMutable")
    /\ LET m == call[t].mutable
           b == call[t].buffer
       IN  IF m = NULL THEN UNCHANGED <<mutableInfo, mutableList>>
           ELSE /\ mutableInfo' = [mutableInfo EXCEPT ![m] = info[b]]
                /\ mutableList' = [mutableList EXCEPT ![b] = @ \cup {m}]
    /\ After(t)
    /\ UNCHANGED <<info, record, number, driver, history>>

-----------------------------------------------------------------------------
(* clFinalizeCommandBufferKHR. *)

BeginFinalize(t, b) ==
    /\ Idle(t)
    /\ state[b] = "recording" /\ Spare(b) /\ Recorders(b) = {}
    /\ Continues(t, [NoCall EXCEPT !.buffer = b], clFinalizeCommandBufferKHR)
    /\ UNCHANGED <<layer, driver, history>>

DispatchFinalize(t) ==
    /\ At(t, "finalize")
    /\ \/ /\ state' = [state EXCEPT ![call[t].buffer] = "executable"]
          /\ After(t)
       \/ Continues(t, call[t], Unconditional(call[t].todo)) /\ UNCHANGED state
    /\ UNCHANGED <<layer, refs, platformOf, inOrder, content, handles, history>>

RecordFinalize(t) ==
    /\ At(t, "recordFinalize")
    /\ record' = [record EXCEPT ![call[t].buffer] = recordFinalize(@)]
    /\ After(t)
    /\ UNCHANGED <<info, number, mutableInfo, mutableList, driver, history>>

\* dumpCommandBufferRecording writes the file and forgets the recording.
DumpCommandBufferRecording(t) ==
    /\ At(t, "dump")
    /\ LET b == call[t].buffer IN
          /\ record' = [record EXCEPT ![b] = NoRecord]
          /\ content' = [content EXCEPT ![b] = <<>>]
          /\ inOrder' = [inOrder EXCEPT ![b] = FALSE]
    /\ number' = number + 1
    /\ After(t)
    /\ UNCHANGED <<info, mutableInfo, mutableList, state, refs, platformOf, handles, history>>

-----------------------------------------------------------------------------
(* clRetainCommandBufferKHR, clReleaseCommandBufferKHR. *)

Retain(t, b) ==
    /\ Idle(t)
    /\ state[b] # "free" /\ Spare(b) /\ refs[b] < MaxRefs /\ Counted
    /\ refs' = [refs EXCEPT ![b] = @ + 1]
    /\ UNCHANGED <<call, layer, state, platformOf, inOrder, content, handles, lost, misnamed>>

BeginRelease(t, b) ==
    /\ Idle(t)
    /\ state[b] # "free" /\ Spare(b)
    /\ Overlapping \/ \A u \in Using(b) : ~At(u, "remove") /\ ~At(u, "release")
    /\ Continues(t, [NoCall EXCEPT !.buffer = b], clReleaseCommandBufferKHR)
    /\ UNCHANGED <<layer, driver, history>>

\* Mutant: the list of the mutable commands stays.
CheckRemoveKeepsList(t) ==
    /\ At(t, "remove")
    /\ LET b == call[t].buffer IN
       IF info[b] # NULL /\ refs[b] = 1
       THEN /\ info' = [info EXCEPT ![b] = NULL]
            /\ record' = [record EXCEPT ![b] = NoRecord]
            /\ mutableInfo' = [m \in Mutables |-> IF m \in mutableList[b] THEN NULL
                                                  ELSE mutableInfo[m]]
       ELSE UNCHANGED <<info, record, mutableInfo>>
    /\ After(t)
    /\ UNCHANGED <<number, mutableList, driver, history>>

\* The last reference takes everything the layer knows with it.
CheckRemoveCommandBufferInfo(t) ==
    /\ At(t, "remove")
    /\ LET b == call[t].buffer IN
       IF info[b] # NULL /\ refs[b] = 1
       THEN /\ info' = [info EXCEPT ![b] = NULL]
            /\ record' = [record EXCEPT ![b] = NoRecord]
            /\ mutableInfo' = [m \in Mutables |-> IF m \in mutableList[b] THEN NULL
                                                  ELSE mutableInfo[m]]
            /\ mutableList' = [mutableList EXCEPT ![b] = {}]
       ELSE UNCHANGED <<info, record, mutableInfo, mutableList>>
    /\ After(t)
    /\ UNCHANGED <<number, driver, history>>

DispatchRelease(t) ==
    /\ At(t, "release")
    /\ LET b == call[t].buffer IN
          /\ refs' = [refs EXCEPT ![b] = @ - 1]
          /\ state' = [state EXCEPT ![b] = IF refs[b] = 1 THEN "free" ELSE @]
          /\ handles' = [handles EXCEPT ![b] = IF refs[b] = 1 THEN {} ELSE @]
          /\ content' = [content EXCEPT ![b] = IF refs[b] = 1 THEN <<>> ELSE @]
          /\ inOrder' = [inOrder EXCEPT ![b] = IF refs[b] = 1 THEN FALSE ELSE @]
    /\ After(t)
    /\ UNCHANGED <<layer, platformOf, history>>

RefuseRelease(t) ==
    /\ At(t, "release")
    /\ Counted
    /\ lost' = lost \cup {call[t].buffer}
    /\ After(t)
    /\ UNCHANGED <<layer, driver, misnamed>>

-----------------------------------------------------------------------------
Step(t) ==
    \/ \E b \in Buffers :
          \/ DispatchCreate(t, b) \/ (\E old \in Buffers : DispatchRemap(t, old, b))
          \/ BeginCommand(t, b) \/ BeginFinalize(t, b) \/ Retain(t, b) \/ BeginRelease(t, b)
    \/ RecordCreate(t) \/ AddCommandBufferInfo(t)
    \/ DispatchCommand(t) \/ RefuseCommand(t) \/ RecordCommand(t) \/ AddMutableCommandInfo(t)
    \/ DispatchFinalize(t) \/ RecordFinalize(t) \/ DumpCommandBufferRecording(t)
    \/ CheckRemoveCommandBufferInfo(t) \/ DispatchRelease(t) \/ RefuseRelease(t)

Next == \E t \in Threads : Step(t)
Spec == Init /\ [][Next]_vars

-----------------------------------------------------------------------------
(* Properties. *)

\* Everything that must have ended before the i-th of n commands starts, given
\* what each waits for itself.
Before(direct, n) ==
    LET B[i \in 1 .. n] == direct[i] \cup UNION {B[j] : j \in direct[i]} IN B

\* What the driver does: an in-order queue runs one command after the other; a
\* barrier waits for its list, or for everything; all that follows waits for it.
Required(c, ordered) ==
    [i \in 1 .. Len(c) |->
        {j \in 1 .. i - 1 : \/ ordered \/ c[j].barrier
                            \/ c[j].point \in c[i].waits
                            \/ c[i].barrier /\ c[i].waits = {}}]

NameOf(c, i) ==
    IF IsInternal(c[i]) THEN <<"internal", Cardinality({j \in 1 .. i - 1 : IsInternal(c[j])})>>
    ELSE <<"syncpoint", c[i].point>>

\* The drawing has the commands c and, followed along its edges, their order.
Draws(dot, c, ordered) ==
    LET n == Len(c)
        name == [i \in 1 .. n |-> NameOf(c, i)]
        node(i) == dot[i + 1]
        edges == [i \in 1 .. n |-> {j \in 1 .. i - 1 : name[j] \in node(i).from}]
    IN  /\ Len(dot) = n + 1 /\ dot[1].line = "digraph"
        /\ \A i \in 1 .. n :
              /\ node(i).line = "node" /\ node(i).id = name[i]
              /\ node(i).from \subseteq {name[j] : j \in 1 .. i - 1}
        /\ Before(edges, n) = Before(Required(c, ordered), n)

\* docs/controls.md, DumpCommandBuffers: the file shows the commands of its
\* command buffer and their dependencies.  What is about to be written is one
\* complete graph, whose paths are the dependencies the driver obeys, no fewer
\* and no more, whatever another buffer with the same handle held before it.
DumpsAreRight ==
    \A t \in Threads :
        LET b == call[t].buffer IN
        At(t, "dump") /\ b \notin lost =>
            LET dot == record[b].dot IN
            /\ dot # <<>> /\ dot[Len(dot)].line = "end"
            /\ Draws(SubSeq(dot, 1, Len(dot) - 1), content[b], inOrder[b])

\* When the last reference of a buffer is gone the layer knows nothing of it
\* any more, so that a buffer that gets its handle starts afresh.
FreedBuffersAreForgotten ==
    \A b \in Buffers \ lost :
        state[b] = "free" => /\ record[b] = NoRecord
                             /\ info[b] = NULL
                             /\ mutableList[b] = {}

\* Transparency: clGetMutableCommandInfoKHR finds the platform of every mutable
\* command the application has, also when the buffer another one was in, with
\* the same handle, is released.
MutablesAreRouted ==
    \A b \in Buffers \ lost : \A m \in handles[b] \ misnamed :
        (\A t \in Using(b) : call[t].mutable # m /\ ~At(t, "remove") /\ ~At(t, "release"))
            => mutableInfo[m] = platformOf[b]
=============================================================================

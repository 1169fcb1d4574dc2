------------------------ MODULE CommandBuffersProofs ------------------------
(* Theorems about CommandBuffers, for every finite set of threads, every     *)
(* set of buffers, mutable commands and platforms, and every bound.          *)
EXTENDS CommandBuffers, FiniteSetTheorems, WellFoundedInduction, SequenceTheorems, TLAPS

-----------------------------------------------------------------------------
(* What the rest of a handler can be.                                        *)

Programs ==
    {<<>>, <<"recordCreate", "addInfo">>, <<"addInfo">>,
     <<"finalize", "recordFinalize", "dump">>, <<"recordFinalize", "dump">>, <<"dump">>,
     <<"remove", "release">>, <<"release">>,
     <<"command", "recordCommand", "addMutable">>, <<"command", "recordBarrier", "addMutable">>,
     <<"recordCommand", "addMutable">>, <<"recordBarrier", "addMutable">>, <<"addMutable">>}

\* Its next step is one of clReleaseCommandBufferKHR.
ReleaseSteps == {"remove", "release"}

\* It still has to enter the buffer it made into the map.
Names(todo) == todo \in {<<"recordCreate", "addInfo">>, <<"addInfo">>}

\* A release is begun with "remove"; naming a buffer ends with "addInfo".
LEMMA TailFacts ==
  ASSUME NEW s \in Programs, s # <<>>
  PROVE  /\ Tail(s) \in Programs
         /\ Head(s) # "remove" => Tail(s) = <<>> \/ Head(Tail(s)) \notin ReleaseSteps
         /\ Head(s) = "remove" => s = <<"remove", "release">> /\ Tail(s) = <<"release">>
         /\ Head(s) = "release" => Tail(s) = <<>>
         /\ Head(s) \notin {"recordCreate", "addInfo"} => ~Names(s)
         /\ Head(s) = "recordCreate" => Names(Tail(s))
         /\ Names(Tail(s)) => Names(s)
  <1>1. CASE s = <<"recordCreate", "addInfo">>
    <2>1. Head(s) = "recordCreate" /\ Tail(s) = <<"addInfo">>
      BY <1>1
    <2> QED BY <1>1, <2>1 DEF Programs, ReleaseSteps, Names
  <1>2. CASE s = <<"addInfo">>
    <2>1. Head(s) = "addInfo" /\ Tail(s) = <<>>
      BY <1>2
    <2> QED BY <1>2, <2>1 DEF Programs, ReleaseSteps, Names
  <1>3. CASE s = <<"finalize", "recordFinalize", "dump">>
    <2>1. Head(s) = "finalize" /\ Tail(s) = <<"recordFinalize", "dump">>
      BY <1>3
    <2> QED BY <1>3, <2>1 DEF Programs, ReleaseSteps, Names
  <1>4. CASE s = <<"recordFinalize", "dump">>
    <2>1. Head(s) = "recordFinalize" /\ Tail(s) = <<"dump">>
      BY <1>4
    <2> QED BY <1>4, <2>1 DEF Programs, ReleaseSteps, Names
  <1>5. CASE s = <<"dump">>
    <2>1. Head(s) = "dump" /\ Tail(s) = <<>>
      BY <1>5
    <2> QED BY <1>5, <2>1 DEF Programs, ReleaseSteps, Names
  <1>6. CASE s = <<"remove", "release">>
    <2>1. Head(s) = "remove" /\ Tail(s) = <<"release">>
      BY <1>6
    <2> QED BY <1>6, <2>1 DEF Programs, ReleaseSteps, Names
  <1>7. CASE s = <<"release">>
    <2>1. Head(s) = "release" /\ Tail(s) = <<>>
      BY <1>7
    <2> QED BY <1>7, <2>1 DEF Programs, ReleaseSteps, Names
  <1>8. CASE s = <<"command", "recordCommand", "addMutable">>
    <2>1. Head(s) = "command" /\ Tail(s) = <<"recordCommand", "addMutable">>
      BY <1>8
    <2> QED BY <1>8, <2>1 DEF Programs, ReleaseSteps, Names
  <1>9. CASE s = <<"command", "recordBarrier", "addMutable">>
    <2>1. Head(s) = "command" /\ Tail(s) = <<"recordBarrier", "addMutable">>
      BY <1>9
    <2> QED BY <1>9, <2>1 DEF Programs, ReleaseSteps, Names
  <1>10. CASE s = <<"recordCommand", "addMutable">>
    <2>1. Head(s) = "recordCommand" /\ Tail(s) = <<"addMutable">>
      BY <1>10
    <2> QED BY <1>10, <2>1 DEF Programs, ReleaseSteps, Names
  <1>11. CASE s = <<"recordBarrier", "addMutable">>
    <2>1. Head(s) = "recordBarrier" /\ Tail(s) = <<"addMutable">>
      BY <1>11
    <2> QED BY <1>11, <2>1 DEF Programs, ReleaseSteps, Names
  <1>12. CASE s = <<"addMutable">>
    <2>1. Head(s) = "addMutable" /\ Tail(s) = <<>>
      BY <1>12
    <2> QED BY <1>12, <2>1 DEF Programs, ReleaseSteps, Names
  <1> QED BY <1>1, <1>2, <1>3, <1>4, <1>5, <1>6, <1>7, <1>8, <1>9, <1>10, <1>11, <1>12 DEF Programs

LEMMA NamesFacts ==
  ASSUME NEW s, Names(s)
  PROVE  s \in Programs /\ s # <<>> /\ Head(s) \in {"recordCreate", "addInfo"}
  <1>1. CASE s = <<"recordCreate", "addInfo">>
    BY <1>1 DEF Programs
  <1>2. CASE s = <<"addInfo">>
    BY <1>2 DEF Programs
  <1> QED BY <1>1, <1>2 DEF Names

LEMMA UnconditionalFacts ==
  ASSUME NEW s \in Programs, s # <<>>
  PROVE  /\ Head(s) = "command" => Unconditional(s) = <<"addMutable">>
         /\ Head(s) = "finalize" => Unconditional(s) = <<>>
  BY DEF Programs, Unconditional

LEMMA CommandProgram ==
  ASSUME NEW h \in CommandHandlers
  PROVE  /\ h.steps \in Programs /\ h.steps # <<>>
         /\ Head(h.steps) = "command"
  BY DEF Programs, CommandHandlers, Recorded, clCommandBarrierWithWaitListKHR,
         clCommandCopyBufferKHR, clCommandCopyBufferRectKHR, clCommandCopyBufferToImageKHR,
         clCommandCopyImageKHR, clCommandCopyImageToBufferKHR, clCommandFillBufferKHR,
         clCommandFillImageKHR, clCommandSVMMemcpyKHR, clCommandSVMMemFillKHR,
         clCommandNDRangeKernelKHR

-----------------------------------------------------------------------------
(* The invariant.                                                            *)

Locals ==
    /\ DOMAIN call = Threads
    /\ \A t \in Threads :
          /\ DOMAIN call[t] = DOMAIN NoCall
          /\ call[t].todo \in Programs
          /\ IF Idle(t) THEN call[t].buffer = NULL ELSE call[t].buffer \in Buffers

Types ==
    /\ Locals
    /\ DOMAIN info = Buffers /\ DOMAIN record = Buffers /\ DOMAIN mutableList = Buffers
    /\ DOMAIN state = Buffers /\ refs \in [Buffers -> Nat]
    /\ platformOf \in [Buffers -> Platforms]
    /\ lost \subseteq Buffers
    /\ \A b \in Buffers : state[b] = "free" <=> refs[b] = 0

Removing(t) == ~Idle(t) /\ Head(call[t].todo) \in ReleaseSteps
Naming(t) == Names(call[t].todo)

\* Every call has a reference of its own to the buffer it is passed.
CallsHaveReferences == \A b \in Buffers : Cardinality(Using(b)) <= refs[b]

\* What Overlapping = FALSE says of releases in progress.
OneRelease ==
    \A t, u \in Threads :
        Removing(t) /\ Removing(u) /\ call[t].buffer = call[u].buffer => t = u

Forgotten(b) == record[b] = NoRecord /\ info[b] = NULL /\ mutableList[b] = {}

\* The last reference takes what the layer knows with it before the driver is asked.
LastReleaseForgets ==
    \A t \in Threads :
        LET b == call[t].buffer IN
        At(t, "release") /\ b \notin lost /\ refs[b] = 1 => Forgotten(b)

\* A buffer without an entry is about to get one or about to be freed.
KnownOrBusy ==
    \A b \in Buffers \ lost :
        state[b] # "free" /\ info[b] = NULL =>
            \E t \in Using(b) : Naming(t) \/ (At(t, "release") /\ refs[b] = 1)

Inv == /\ Types /\ CallsHaveReferences /\ OneRelease
       /\ FreedBuffersAreForgotten /\ LastReleaseForgets /\ KnownOrBusy

LEMMA NoCallIsIdle ==
  /\ NoCall.todo = <<>> /\ NoCall.buffer = NULL
  /\ <<>> \in Programs /\ ~Names(<<>>)
  BY DEF NoCall, Programs, Names

LEMMA InitInv == Init => Inv
  <1> SUFFICES ASSUME Init PROVE Inv
    OBVIOUS
  <1>1. DOMAIN call = Threads /\ \A t \in Threads : call[t] = NoCall /\ Idle(t)
    BY NoCallIsIdle DEF Init, Idle
  <1>2. Types
    <2>1. Locals
      BY <1>1, NoCallIsIdle DEF Locals
    <2>2. \A b \in Buffers : state[b] = "free" /\ refs[b] = 0
      BY DEF Init
    <2> QED BY <2>1, <2>2 DEF Types, Init
  <1>3. CallsHaveReferences
    <2> SUFFICES ASSUME NEW b \in Buffers PROVE Cardinality(Using(b)) <= refs[b]
      BY DEF CallsHaveReferences
    <2>1. Using(b) = {}
      BY <1>1, NoCallIsIdle, BufferAssumption DEF Using
    <2> QED BY <2>1, FS_EmptySet DEF Init
  <1>4. OneRelease /\ LastReleaseForgets
    BY <1>1 DEF OneRelease, LastReleaseForgets, Removing, At
  <1>5. FreedBuffersAreForgotten /\ KnownOrBusy
    BY DEF FreedBuffersAreForgotten, KnownOrBusy, Init
  <1> QED BY <1>2, <1>3, <1>4, <1>5 DEF Inv

-----------------------------------------------------------------------------
(* References and the calls that use them.                                   *)

LEMMA UsingIsFinite ==
  ASSUME NEW b
  PROVE  IsFiniteSet(Using(b)) /\ Cardinality(Using(b)) \in Nat
  <1>1. Using(b) \subseteq Threads
    BY DEF Using
  <1> QED BY <1>1, BufferAssumption, FS_Subset, FS_CardinalityType

LEMMA FreeIsUnused ==
  ASSUME CallsHaveReferences, NEW b \in Buffers, refs[b] = 0
  PROVE  Using(b) = {}
  <1>1. Cardinality(Using(b)) = 0
    BY UsingIsFinite DEF CallsHaveReferences
  <1> QED BY <1>1, UsingIsFinite, FS_EmptySet

LEMMA LastReferenceHasOneUser ==
  ASSUME Inv, NEW b \in Buffers, refs[b] = 1, NEW t \in Using(b)
  PROVE  Using(b) = {t}
  <1>1. Cardinality(Using(b)) <= 1
    BY DEF Inv, CallsHaveReferences
  <1>2. IsFiniteSet(Using(b) \ {t}) /\ Cardinality(Using(b) \ {t}) = Cardinality(Using(b)) - 1
    BY UsingIsFinite, FS_RemoveElement
  <1>3. Cardinality(Using(b) \ {t}) \in Nat
    BY <1>2, FS_CardinalityType
  <1>4. Cardinality(Using(b) \ {t}) = 0
    BY <1>1, <1>2, <1>3, UsingIsFinite
  <1>5. Using(b) \ {t} = {}
    BY <1>2, <1>4, FS_EmptySet
  <1> QED BY <1>5

\* The rest of the threads go on.
Others(t) ==
    /\ DOMAIN call' = Threads
    /\ \A u \in Threads \ {t} : call'[u] = call[u]

\* t stays in its call or leaves it.
Stays(t) ==
    /\ Others(t) /\ Locals'
    /\ ~Idle(t)' => call'[t].buffer = call[t].buffer

LEMMA UsingShrinks ==
  ASSUME Types, NEW t \in Threads, Stays(t), NEW b \in Buffers
  PROVE  /\ Using(b)' \subseteq Using(b)
         /\ Cardinality(Using(b)') <= Cardinality(Using(b))
         /\ Cardinality(Using(b)') \in Nat
  <1>1. Using(b)' \subseteq Using(b)
    BY BufferAssumption DEF Using, Stays, Others, Types, Locals
  <1> QED BY <1>1, UsingIsFinite, FS_Subset, FS_CardinalityType

\* t enters a call with b.
Enters(t, b) ==
    /\ Idle(t) /\ Others(t) /\ Locals'
    /\ ~Idle(t)' /\ call'[t].buffer = b

LEMMA UsingGrows ==
  ASSUME Types, NEW t \in Threads, NEW b \in Buffers, Enters(t, b)
  PROVE  /\ Using(b)' = Using(b) \cup {t}
         /\ \A c \in Buffers \ {b} : Using(c)' = Using(c)
         /\ Cardinality(Using(b)') = Cardinality(Using(b)) + 1
  <1>1. Using(b)' = Using(b) \cup {t} /\ \A c \in Buffers \ {b} : Using(c)' = Using(c)
    BY BufferAssumption DEF Using, Enters, Others, Types, Locals
  <1>2. t \notin Using(b)
    BY BufferAssumption DEF Using, Enters, Types, Locals
  <1> QED BY <1>1, <1>2, UsingIsFinite, FS_AddElement

-----------------------------------------------------------------------------
(* How the locals change.                                                    *)

LEMMA ContinuesUpdate ==
  ASSUME Locals, NEW t \in Threads, NEW c, NEW steps \in Programs,
         DOMAIN c = DOMAIN NoCall, c.buffer \in Buffers, Continues(t, c, steps)
  PROVE  /\ Others(t) /\ Locals' /\ call'[t].todo = steps
         /\ call'[t].buffer = IF steps = <<>> THEN NULL ELSE c.buffer
         /\ call'[t].mutable = IF steps = <<>> THEN NULL ELSE c.mutable
  <1> DEFINE d == IF steps = <<>> THEN NoCall ELSE [c EXCEPT !.todo = steps]
  <1>1. /\ DOMAIN d = DOMAIN NoCall /\ d.todo = steps
        /\ d.buffer = IF steps = <<>> THEN NULL ELSE c.buffer
        /\ d.mutable = IF steps = <<>> THEN NULL ELSE c.mutable
    BY DEF NoCall
  <1>2. call' = [call EXCEPT ![t] = d]
    BY DEF Continues
  <1> HIDE DEF d
  <1>3. Others(t) /\ call'[t] = d
    BY <1>2 DEF Others, Locals
  <1>4. Locals'
    BY <1>1, <1>3 DEF Locals, Others, Idle
  <1> QED BY <1>1, <1>3, <1>4

\* The last step of a handler, or one of its steps.
LEMMA AfterUpdate ==
  ASSUME Locals, NEW t \in Threads, ~Idle(t), After(t)
  PROVE  /\ Stays(t) /\ call'[t].todo = Tail(call[t].todo)
         /\ call'[t].mutable = IF Tail(call[t].todo) = <<>> THEN NULL ELSE call[t].mutable
  <1>1. Tail(call[t].todo) \in Programs
    BY TailFacts DEF Locals, Idle, NoCall
  <1>2. DOMAIN call[t] = DOMAIN NoCall /\ call[t].buffer \in Buffers
    BY DEF Locals
  <1>3. /\ Others(t) /\ Locals' /\ call'[t].todo = Tail(call[t].todo)
        /\ call'[t].buffer = IF Tail(call[t].todo) = <<>> THEN NULL ELSE call[t].buffer
        /\ call'[t].mutable = IF Tail(call[t].todo) = <<>> THEN NULL ELSE call[t].mutable
    BY <1>1, <1>2, ContinuesUpdate DEF After
  <1> QED BY <1>3 DEF Stays, Idle

-----------------------------------------------------------------------------
(* Steps of a call that is neither the first nor one of a release.           *)

LEMMA InsideInv ==
  ASSUME Inv, NEW t \in Threads, ~Idle(t), Stays(t), ~Removing(t), ~Removing(t)',
         NEW b \in Buffers, b = call[t].buffer,
         UNCHANGED <<refs, lost, platformOf>>,
         DOMAIN info' = Buffers, DOMAIN record' = Buffers, DOMAIN mutableList' = Buffers,
         DOMAIN state' = Buffers,
         \A c \in Buffers : state'[c] = "free" <=> state[c] = "free",
         \A c \in Buffers \ {b} : /\ record'[c] = record[c] /\ info'[c] = info[c]
                                  /\ mutableList'[c] = mutableList[c],
         Naming(t) => Naming(t)' \/ info'[b] # NULL,
         info'[b] = NULL => info[b] = NULL
  PROVE  Inv'
  <1>1. t \in Using(b) /\ \A u \in Threads \ {t} : call'[u] = call[u]
    BY DEF Using, Stays, Others
  <1>2. Types'
    BY DEF Types, Inv, Stays
  <1>3. CallsHaveReferences'
    BY UsingShrinks, UsingIsFinite DEF CallsHaveReferences, Inv, Types
  <1>4. OneRelease'
    BY <1>1 DEF OneRelease, Inv, Removing, Idle
  <1>5. FreedBuffersAreForgotten'
    <2> SUFFICES ASSUME NEW c \in Buffers \ lost, state[c] = "free" PROVE Forgotten(c)'
      BY DEF FreedBuffersAreForgotten, Forgotten
    <2>1. c # b
      BY <1>1, FreeIsUnused DEF Inv, Types
    <2> QED BY <2>1 DEF FreedBuffersAreForgotten, Forgotten, Inv
  <1>6. LastReleaseForgets'
    <2> SUFFICES ASSUME NEW u \in Threads, At(u, "release")', call'[u].buffer \notin lost,
                        refs[call'[u].buffer] = 1
                 PROVE  /\ record'[call'[u].buffer] = NoRecord
                        /\ info'[call'[u].buffer] = NULL
                        /\ mutableList'[call'[u].buffer] = {}
      BY DEF LastReleaseForgets, Forgotten
    <2>1. u # t /\ call'[u] = call[u]
      BY <1>1 DEF At, Removing, ReleaseSteps, Idle
    <2>2. At(u, "release") /\ call[u].buffer \in Buffers
      BY <2>1 DEF At, Idle, Inv, Types, Locals
    <2>3. call[u].buffer # b
      <3> SUFFICES ASSUME call[u].buffer = b PROVE FALSE
        OBVIOUS
      <3>1. u \in Using(b)
        BY DEF Using
      <3> QED BY <1>1, <2>1, <3>1, LastReferenceHasOneUser
    <2>4. Forgotten(call[u].buffer)
      BY <2>1, <2>2 DEF LastReleaseForgets, Inv
    <2> QED BY <2>1, <2>2, <2>3, <2>4 DEF Forgotten
  <1>7. KnownOrBusy'
    <2> SUFFICES ASSUME NEW c \in Buffers \ lost, state[c] # "free", info'[c] = NULL
                 PROVE  \E u \in Using(c)' : Naming(u)' \/ (At(u, "release")' /\ refs[c] = 1)
      BY DEF KnownOrBusy
    <2>1. info[c] = NULL
      OBVIOUS
    <2>2. PICK u \in Using(c) : Naming(u) \/ (At(u, "release") /\ refs[c] = 1)
      BY <2>1 DEF KnownOrBusy, Inv
    <2>3. CASE u # t
      BY <1>1, <2>2, <2>3 DEF Using, Naming, At, Idle
    <2>4. CASE u = t
      <3>1. c = b /\ Naming(t)
        BY <2>2, <2>4 DEF Using, At, Removing, ReleaseSteps
      <3>2. Naming(t)'
        BY <3>1
      <3>3. ~Idle(t)'
        BY <3>2, NoCallIsIdle DEF Naming, Idle
      <3> QED BY <3>1, <3>2, <3>3 DEF Using, Stays
    <2> QED BY <2>3, <2>4
  <1> QED BY <1>2, <1>3, <1>4, <1>5, <1>6, <1>7 DEF Inv

\* The layer's part of a handler, after the driver's.
LEMMA AfterInv ==
  ASSUME Inv, NEW t \in Threads, ~Idle(t), ~Removing(t), After(t),
         NEW b, b = call[t].buffer,
         UNCHANGED <<refs, lost, platformOf>>,
         DOMAIN info' = Buffers, DOMAIN record' = Buffers, DOMAIN mutableList' = Buffers,
         DOMAIN state' = Buffers,
         \A c \in Buffers : state'[c] = "free" <=> state[c] = "free",
         \A c \in Buffers \ {b} : /\ record'[c] = record[c] /\ info'[c] = info[c]
                                  /\ mutableList'[c] = mutableList[c],
         Head(call[t].todo) # "recordCreate" => (Naming(t) => info'[b] # NULL),
         info'[b] = NULL => info[b] = NULL
  PROVE  Inv'
  <1>1. Stays(t) /\ call'[t].todo = Tail(call[t].todo) /\ b \in Buffers
    BY AfterUpdate DEF Inv, Types, Locals
  <1>2. call[t].todo \in Programs /\ call[t].todo # <<>>
    BY DEF Inv, Types, Locals, Idle
  <1>3. ~Removing(t)'
    BY <1>1, <1>2, TailFacts DEF Removing, Idle, ReleaseSteps
  <1>4. Naming(t) => Naming(t)' \/ info'[b] # NULL
    BY <1>1, <1>2, TailFacts DEF Naming
  <1> QED BY <1>1, <1>3, <1>4, InsideInv

LEMMA AtStep ==
  ASSUME NEW t \in Threads, NEW step, At(t, step), step \notin ReleaseSteps
  PROVE  ~Idle(t) /\ ~Removing(t) /\ Head(call[t].todo) = step
  BY DEF At, Removing

LEMMA NamedByFew ==
  ASSUME Inv, NEW t \in Threads, ~Idle(t), Naming(t)
  PROVE  Head(call[t].todo) \in {"recordCreate", "addInfo"}
  BY TailFacts DEF Inv, Types, Locals, Idle, Naming

LEMMA RecordCreateInv ==
  ASSUME Inv, NEW t \in Threads, RecordCreate(t)
  PROVE  Inv'
  <1>1. ~Idle(t) /\ ~Removing(t) /\ Head(call[t].todo) = "recordCreate"
    BY AtStep DEF RecordCreate, ReleaseSteps
  <1>2. /\ record' = [record EXCEPT ![call[t].buffer] = recordCreate(@, inOrder[call[t].buffer])]
        /\ After(t) /\ UNCHANGED <<info, mutableList, state, refs, platformOf, lost>>
    BY DEF RecordCreate, driver, history
  <1> QED BY <1>1, <1>2, AfterInv DEF Inv, Types

LEMMA AddCommandBufferInfoInv ==
  ASSUME Inv, NEW t \in Threads, AddCommandBufferInfo(t)
  PROVE  Inv'
  <1>1. ~Idle(t) /\ ~Removing(t) /\ Head(call[t].todo) = "addInfo"
    BY AtStep DEF AddCommandBufferInfo, ReleaseSteps
  <1>2. /\ info' = [info EXCEPT ![call[t].buffer] = platformOf[call[t].buffer]]
        /\ After(t) /\ UNCHANGED <<record, mutableList, state, refs, platformOf, lost>>
    BY DEF AddCommandBufferInfo, driver, history
  <1>3. call[t].buffer \in Buffers
    BY <1>1 DEF Inv, Types, Locals
  <1>4. info'[call[t].buffer] # NULL
    BY <1>2, <1>3, BufferAssumption DEF Inv, Types
  <1> QED BY <1>1, <1>2, <1>3, <1>4, AfterInv DEF Inv, Types

LEMMA RecordCommandInv ==
  ASSUME Inv, NEW t \in Threads, RecordCommand(t)
  PROVE  Inv'
  <1>1. At(t, "recordCommand") \/ At(t, "recordBarrier")
    BY DEF RecordCommand
  <1>2. /\ ~Idle(t) /\ ~Removing(t)
        /\ Head(call[t].todo) \in {"recordCommand", "recordBarrier"}
    BY <1>1, AtStep DEF ReleaseSteps
  <1>3. /\ \E r : record' = [record EXCEPT ![call[t].buffer] = r]
        /\ After(t) /\ UNCHANGED <<info, mutableList, state, refs, platformOf, lost>>
    BY DEF RecordCommand, driver, history
  <1> QED BY <1>2, <1>3, AfterInv, NamedByFew DEF Inv, Types

LEMMA AddMutableCommandInfoInv ==
  ASSUME Inv, NEW t \in Threads, AddMutableCommandInfo(t)
  PROVE  Inv'
  <1>1. ~Idle(t) /\ ~Removing(t) /\ Head(call[t].todo) = "addMutable"
    BY AtStep DEF AddMutableCommandInfo, ReleaseSteps
  <1>2. /\ \/ UNCHANGED mutableList
           \/ mutableList' = [mutableList EXCEPT ![call[t].buffer] = @ \cup {call[t].mutable}]
        /\ After(t) /\ UNCHANGED <<info, record, state, refs, platformOf, lost>>
    BY DEF AddMutableCommandInfo, driver, history
  <1> QED BY <1>1, <1>2, AfterInv, NamedByFew DEF Inv, Types

LEMMA RecordFinalizeInv ==
  ASSUME Inv, NEW t \in Threads, RecordFinalize(t)
  PROVE  Inv'
  <1>1. ~Idle(t) /\ ~Removing(t) /\ Head(call[t].todo) = "recordFinalize"
    BY AtStep DEF RecordFinalize, ReleaseSteps
  <1>2. /\ record' = [record EXCEPT ![call[t].buffer] = recordFinalize(@)]
        /\ After(t) /\ UNCHANGED <<info, mutableList, state, refs, platformOf, lost>>
    BY DEF RecordFinalize, driver, history
  <1> QED BY <1>1, <1>2, AfterInv, NamedByFew DEF Inv, Types

LEMMA DumpInv ==
  ASSUME Inv, NEW t \in Threads, DumpCommandBufferRecording(t)
  PROVE  Inv'
  <1>1. ~Idle(t) /\ ~Removing(t) /\ Head(call[t].todo) = "dump"
    BY AtStep DEF DumpCommandBufferRecording, ReleaseSteps
  <1>2. /\ record' = [record EXCEPT ![call[t].buffer] = NoRecord]
        /\ After(t) /\ UNCHANGED <<info, mutableList, state, refs, platformOf, lost>>
    BY DEF DumpCommandBufferRecording, history
  <1> QED BY <1>1, <1>2, AfterInv, NamedByFew DEF Inv, Types

\* The driver's part of a command and of clFinalizeCommandBufferKHR.
LEMMA DispatchInv ==
  ASSUME Inv, NEW t \in Threads, ~Idle(t), ~Removing(t),
         NEW c, DOMAIN c = DOMAIN NoCall, c.buffer = call[t].buffer,
         NEW steps, steps \in {Tail(call[t].todo), <<"addMutable">>, <<>>},
         Continues(t, c, steps), Head(call[t].todo) \notin {"recordCreate", "addInfo"},
         UNCHANGED <<info, record, mutableList, refs, lost, platformOf>>,
         DOMAIN state' = Buffers,
         \A b \in Buffers : state'[b] = "free" <=> state[b] = "free"
  PROVE  Inv'
  <1>1. call[t].todo \in Programs /\ call[t].todo # <<>> /\ call[t].buffer \in Buffers
    BY DEF Inv, Types, Locals, Idle
  <1>2. Head(call[t].todo) # "remove"
    BY DEF Removing, ReleaseSteps
  <1>3. steps \in Programs /\ (steps # <<>> => Head(steps) \notin ReleaseSteps)
    <2>1. /\ <<"addMutable">> \in Programs /\ <<>> \in Programs
          /\ Head(<<"addMutable">>) \notin ReleaseSteps
      BY DEF Programs, ReleaseSteps
    <2> QED BY <1>1, <1>2, <2>1, TailFacts
  <1>4. Others(t) /\ Locals' /\ call'[t].todo = steps /\
        call'[t].buffer = IF steps = <<>> THEN NULL ELSE c.buffer
    BY <1>1, <1>3, ContinuesUpdate DEF Inv, Types
  <1>5. Stays(t) /\ ~Removing(t)'
    BY <1>3, <1>4 DEF Stays, Removing, Idle
  <1>6. ~Naming(t)
    BY NamedByFew
  <1> QED BY <1>1, <1>5, <1>6, InsideInv DEF Inv, Types

LEMMA DispatchCommandInv ==
  ASSUME Inv, NEW t \in Threads, DispatchCommand(t)
  PROVE  Inv'
  <1>1. ~Idle(t) /\ ~Removing(t) /\ Head(call[t].todo) = "command"
    BY AtStep DEF DispatchCommand, ReleaseSteps
  <1>2. PICK m : Continues(t, [call[t] EXCEPT !.mutable = m], Tail(call[t].todo))
    BY DEF DispatchCommand
  <1>3. UNCHANGED <<info, record, mutableList, state, refs, lost, platformOf>>
    BY DEF DispatchCommand, layer
  <1> DEFINE c == [call[t] EXCEPT !.mutable = m]
  <1>4. DOMAIN c = DOMAIN NoCall /\ c.buffer = call[t].buffer
    BY DEF Inv, Types, Locals, NoCall
  <1>5. Continues(t, c, Tail(call[t].todo))
    BY <1>2
  <1> HIDE DEF c
  <1> QED BY <1>1, <1>3, <1>4, <1>5, DispatchInv DEF Inv, Types

LEMMA RefuseCommandInv ==
  ASSUME Inv, NEW t \in Threads, RefuseCommand(t)
  PROVE  Inv'
  <1>1. ~Idle(t) /\ ~Removing(t) /\ Head(call[t].todo) = "command"
    BY AtStep DEF RefuseCommand, ReleaseSteps
  <1>2. PICK m : Continues(t, [call[t] EXCEPT !.mutable = m], Unconditional(call[t].todo))
    BY DEF RefuseCommand
  <1>3. UNCHANGED <<info, record, mutableList, state, refs, lost, platformOf>>
    BY DEF RefuseCommand, layer, driver
  <1> DEFINE c == [call[t] EXCEPT !.mutable = m]
  <1>4. DOMAIN c = DOMAIN NoCall /\ c.buffer = call[t].buffer
    BY DEF Inv, Types, Locals, NoCall
  <1>5. Continues(t, c, Unconditional(call[t].todo))
    BY <1>2
  <1> HIDE DEF c
  <1>6. Unconditional(call[t].todo) = <<"addMutable">>
    BY <1>1, UnconditionalFacts DEF Inv, Types, Locals, Idle
  <1> QED BY <1>1, <1>3, <1>4, <1>5, <1>6, DispatchInv DEF Inv, Types

LEMMA DispatchFinalizeInv ==
  ASSUME Inv, NEW t \in Threads, DispatchFinalize(t)
  PROVE  Inv'
  <1>1. ~Idle(t) /\ ~Removing(t) /\ Head(call[t].todo) = "finalize"
    BY AtStep DEF DispatchFinalize, ReleaseSteps
  <1>2. /\ \/ /\ state' = [state EXCEPT ![call[t].buffer] = "executable"]
              /\ Continues(t, call[t], Tail(call[t].todo))
           \/ /\ Continues(t, call[t], Unconditional(call[t].todo))
              /\ UNCHANGED state
        /\ UNCHANGED <<info, record, mutableList, refs, lost, platformOf>>
    BY DEF DispatchFinalize, layer, history, After
  <1>3. Unconditional(call[t].todo) = <<>>
    BY <1>1, UnconditionalFacts DEF Inv, Types, Locals, Idle
  <1>4. t \in Using(call[t].buffer) /\ call[t].buffer \in Buffers
    BY <1>1 DEF Using, Inv, Types, Locals
  <1>5. state[call[t].buffer] # "free"
    BY <1>4, FreeIsUnused DEF Inv, Types
  <1>6. DOMAIN state' = Buffers /\ \A b \in Buffers : state'[b] = "free" <=> state[b] = "free"
    BY <1>2, <1>4, <1>5 DEF Inv, Types
  <1>7. DOMAIN call[t] = DOMAIN NoCall
    BY DEF Inv, Types, Locals
  <1> QED BY <1>1, <1>2, <1>3, <1>6, <1>7, DispatchInv

-----------------------------------------------------------------------------
(* Calls that begin, and clRetainCommandBufferKHR.                           *)

LEMMA EntersInv ==
  ASSUME Inv, NEW t \in Threads, NEW b \in Buffers, Enters(t, b),
         state[b] # "free", Spare(b),
         UNCHANGED <<info, record, mutableList, state, refs, lost, platformOf>>,
         ~At(t, "release")',
         Removing(t)' => \A u \in Using(b) : ~Removing(u)
  PROVE  Inv'
  <1>1. \A u \in Threads \ {t} : call'[u] = call[u]
    BY DEF Enters, Others
  <1>2. Types'
    BY DEF Types, Inv, Enters
  <1>3. CallsHaveReferences'
    <2> SUFFICES ASSUME NEW c \in Buffers PROVE Cardinality(Using(c)') <= refs[c]
      BY DEF CallsHaveReferences
    <2>1. CASE c = b
      BY <2>1, UsingGrows, UsingIsFinite DEF Spare, Inv, Types
    <2>2. CASE c # b
      BY <2>2, UsingGrows DEF CallsHaveReferences, Inv
    <2> QED BY <2>1, <2>2
  <1>4. OneRelease'
    <2> SUFFICES ASSUME NEW u \in Threads, NEW v \in Threads, Removing(u)', Removing(v)',
                        call'[u].buffer = call'[v].buffer, u # v
                 PROVE  FALSE
      BY DEF OneRelease
    <2>1. CASE u # t /\ v # t
      BY <1>1, <2>1 DEF OneRelease, Inv, Removing, Idle
    <2>2. CASE u = t
      BY <1>1, <2>2 DEF Enters, Using, Removing, Idle
    <2>3. CASE v = t
      BY <1>1, <2>3 DEF Enters, Using, Removing, Idle
    <2> QED BY <2>1, <2>2, <2>3
  <1>5. FreedBuffersAreForgotten'
    BY DEF FreedBuffersAreForgotten, Inv
  <1>6. LastReleaseForgets'
    <2> SUFFICES ASSUME NEW u \in Threads, At(u, "release")', call'[u].buffer \notin lost,
                        refs[call'[u].buffer] = 1
                 PROVE  Forgotten(call'[u].buffer)
      BY DEF LastReleaseForgets, Forgotten
    <2>1. u # t
      OBVIOUS
    <2>2. call'[u] = call[u] /\ At(u, "release")
      BY <1>1, <2>1 DEF At, Idle
    <2> QED BY <2>2 DEF LastReleaseForgets, Inv
  <1>7. KnownOrBusy'
    <2> SUFFICES ASSUME NEW c \in Buffers \ lost, state[c] # "free", info[c] = NULL
                 PROVE  \E u \in Using(c)' : Naming(u)' \/ (At(u, "release")' /\ refs[c] = 1)
      BY DEF KnownOrBusy
    <2>1. PICK u \in Using(c) : Naming(u) \/ (At(u, "release") /\ refs[c] = 1)
      BY DEF KnownOrBusy, Inv
    <2>2. u # t
      BY <2>1, BufferAssumption DEF Using, Enters, Inv, Types, Locals
    <2> QED BY <1>1, <2>1, <2>2 DEF Using, Naming, At, Idle
  <1> QED BY <1>2, <1>3, <1>4, <1>5, <1>6, <1>7 DEF Inv

\* The locals of a new call.
LEMMA BeginsUpdate ==
  ASSUME Types, NEW t \in Threads, Idle(t), NEW b \in Buffers,
         NEW c, DOMAIN c = DOMAIN NoCall, c.buffer = b,
         NEW steps \in Programs, steps # <<>>, Continues(t, c, steps)
  PROVE  Enters(t, b) /\ call'[t].todo = steps /\ call'[t].mutable = c.mutable
  BY ContinuesUpdate DEF Types, Enters, Idle

LEMMA BeginCommandInv ==
  ASSUME Inv, NEW t \in Threads, NEW b \in Buffers, BeginCommand(t, b)
  PROVE  Inv'
  <1>0. PICK h \in CommandHandlers : \E command :
            Continues(t, [NoCall EXCEPT !.buffer = b, !.command = command], h.steps)
    BY DEF BeginCommand
  <1>1. PICK command :
            Continues(t, [NoCall EXCEPT !.buffer = b, !.command = command], h.steps)
    BY <1>0
  <1> DEFINE c == [NoCall EXCEPT !.buffer = b, !.command = command]
  <1>2. DOMAIN c = DOMAIN NoCall /\ c.buffer = b
    BY DEF NoCall
  <1>3. Idle(t) /\ Continues(t, c, h.steps)
    BY <1>1 DEF BeginCommand
  <1>4. /\ state[b] # "free" /\ Spare(b)
        /\ UNCHANGED <<info, record, mutableList, state, refs, lost, platformOf>>
    BY DEF BeginCommand, layer, driver
  <1> HIDE DEF c
  <1>5. Enters(t, b) /\ call'[t].todo = h.steps
    BY <1>2, <1>3, CommandProgram, BeginsUpdate DEF Inv
  <1>6. ~At(t, "release")' /\ ~Removing(t)'
    BY <1>5, CommandProgram DEF At, Removing, Idle, ReleaseSteps
  <1> QED BY <1>4, <1>5, <1>6, EntersInv

LEMMA BeginFinalizeInv ==
  ASSUME Inv, NEW t \in Threads, NEW b \in Buffers, BeginFinalize(t, b)
  PROVE  Inv'
  <1> DEFINE c == [NoCall EXCEPT !.buffer = b]
  <1>1. DOMAIN c = DOMAIN NoCall /\ c.buffer = b
    BY DEF NoCall
  <1>2. /\ clFinalizeCommandBufferKHR \in Programs /\ clFinalizeCommandBufferKHR # <<>>
        /\ Head(clFinalizeCommandBufferKHR) = "finalize"
    BY DEF Programs, clFinalizeCommandBufferKHR
  <1>3. /\ Idle(t) /\ Continues(t, c, clFinalizeCommandBufferKHR)
        /\ state[b] # "free" /\ Spare(b)
        /\ UNCHANGED <<info, record, mutableList, state, refs, lost, platformOf>>
    BY DEF BeginFinalize, layer, driver, history
  <1> HIDE DEF c
  <1>4. Enters(t, b) /\ call'[t].todo = clFinalizeCommandBufferKHR
    BY <1>1, <1>2, <1>3, BeginsUpdate DEF Inv
  <1>5. ~At(t, "release")' /\ ~Removing(t)'
    BY <1>2, <1>4 DEF At, Removing, Idle, ReleaseSteps
  <1> QED BY <1>3, <1>4, <1>5, EntersInv

LEMMA BeginReleaseInv ==
  ASSUME Inv, Overlapping = FALSE,
         NEW t \in Threads, NEW b \in Buffers, BeginRelease(t, b)
  PROVE  Inv'
  <1> DEFINE c == [NoCall EXCEPT !.buffer = b]
  <1>1. DOMAIN c = DOMAIN NoCall /\ c.buffer = b
    BY DEF NoCall
  <1>2. /\ clReleaseCommandBufferKHR \in Programs /\ clReleaseCommandBufferKHR # <<>>
        /\ Head(clReleaseCommandBufferKHR) = "remove"
    BY DEF Programs, clReleaseCommandBufferKHR
  <1>3. /\ Idle(t) /\ Continues(t, c, clReleaseCommandBufferKHR)
        /\ state[b] # "free" /\ Spare(b)
        /\ \A u \in Using(b) : ~At(u, "remove") /\ ~At(u, "release")
        /\ UNCHANGED <<info, record, mutableList, state, refs, lost, platformOf>>
    BY DEF BeginRelease, layer, driver, history
  <1> HIDE DEF c
  <1>4. Enters(t, b) /\ call'[t].todo = clReleaseCommandBufferKHR
    BY <1>1, <1>2, <1>3, BeginsUpdate DEF Inv
  <1>5. ~At(t, "release")'
    BY <1>2, <1>4 DEF At, Idle
  <1>6. \A u \in Using(b) : ~Removing(u)
    BY <1>3 DEF Removing, At, ReleaseSteps
  <1> QED BY <1>3, <1>4, <1>5, <1>6, EntersInv

\* The driver gives a handle that nobody uses.
LEMMA CreatesInv ==
  ASSUME Inv, NEW t \in Threads, Idle(t), NEW b \in Buffers, NEW newState, newState # "free",
         NEW ordered, NEW ms, NEW steps, Names(Tail(steps)),
         Creates(t, b, newState, ordered, ms, steps)
  PROVE  Inv'
  <1> DEFINE c == [NoCall EXCEPT !.buffer = b]
  <1>1. DOMAIN c = DOMAIN NoCall /\ c.buffer = b
    BY DEF NoCall
  <1>2. /\ Continues(t, c, Tail(steps)) /\ state[b] = "free"
        /\ state' = [state EXCEPT ![b] = newState] /\ refs' = [refs EXCEPT ![b] = 1]
        /\ UNCHANGED <<info, record, mutableList, lost, platformOf>>
    BY DEF Creates, layer
  <1> HIDE DEF c
  <1>3. Tail(steps) \in Programs /\ Tail(steps) # <<>>
        /\ Head(Tail(steps)) \in {"recordCreate", "addInfo"}
    BY NamesFacts
  <1>4. Enters(t, b) /\ call'[t].todo = Tail(steps)
    BY <1>1, <1>2, <1>3, BeginsUpdate DEF Inv
  <1>5. Naming(t)' /\ ~Removing(t)' /\ ~At(t, "release")'
    BY <1>3, <1>4 DEF Naming, Removing, At, ReleaseSteps
  <1>6. Using(b) = {}
    BY <1>2, FreeIsUnused DEF Inv, Types
  <1>7. \A u \in Threads \ {t} : call'[u] = call[u]
    BY <1>4 DEF Enters, Others
  <1>8. /\ state'[b] # "free" /\ refs'[b] = 1
        /\ \A d \in Buffers \ {b} : state'[d] = state[d] /\ refs'[d] = refs[d]
    BY <1>2 DEF Inv, Types
  <1>9. Types'
    <2>1. refs' \in [Buffers -> Nat] /\ DOMAIN state' = Buffers
      BY <1>2 DEF Inv, Types
    <2> QED BY <1>2, <1>4, <1>8, <2>1 DEF Types, Inv, Enters
  <1>10. CallsHaveReferences'
    <2> SUFFICES ASSUME NEW d \in Buffers PROVE Cardinality(Using(d)') <= refs'[d]
      BY DEF CallsHaveReferences
    <2>1. CASE d = b
      <3>1. Cardinality(Using(b)) = 0
        BY <1>6, FS_EmptySet
      <3>2. Cardinality(Using(b)') = Cardinality(Using(b)) + 1
        BY <1>4, UsingGrows DEF Inv
      <3> QED BY <1>8, <2>1, <3>1, <3>2
    <2>2. CASE d # b
      BY <1>4, <1>8, <2>2, UsingGrows DEF CallsHaveReferences, Inv
    <2> QED BY <2>1, <2>2
  <1>11. OneRelease'
    BY <1>5, <1>7 DEF OneRelease, Inv, Removing, Idle
  <1>12. FreedBuffersAreForgotten'
    BY <1>2, <1>8 DEF FreedBuffersAreForgotten, Inv
  <1>13. LastReleaseForgets'
    <2> SUFFICES ASSUME NEW u \in Threads, At(u, "release")', call'[u].buffer \notin lost,
                        refs'[call'[u].buffer] = 1
                 PROVE  Forgotten(call'[u].buffer)
      BY <1>2 DEF LastReleaseForgets, Forgotten
    <2>1. u # t
      BY <1>5
    <2>2. call'[u] = call[u] /\ At(u, "release") /\ call[u].buffer \in Buffers
      BY <1>7, <2>1 DEF At, Idle, Inv, Types, Locals
    <2>3. call[u].buffer # b
      BY <1>6 DEF Using
    <2> QED BY <1>8, <2>2, <2>3 DEF LastReleaseForgets, Inv
  <1>14. KnownOrBusy'
    <2> SUFFICES ASSUME NEW d \in Buffers \ lost, state'[d] # "free", info[d] = NULL
                 PROVE  \E u \in Using(d)' : Naming(u)' \/ (At(u, "release")' /\ refs'[d] = 1)
      BY <1>2 DEF KnownOrBusy
    <2>1. CASE d = b
      BY <1>4, <1>5, <2>1 DEF Using, Enters
    <2>2. CASE d # b
      <3>1. PICK u \in Using(d) : Naming(u) \/ (At(u, "release") /\ refs[d] = 1)
        BY <1>8, <2>2 DEF KnownOrBusy, Inv
      <3>2. u # t
        BY <3>1, BufferAssumption DEF Using, Inv, Types, Locals
      <3> QED BY <1>7, <1>8, <2>2, <3>1, <3>2 DEF Using, Naming, At, Idle
    <2> QED BY <2>1, <2>2
  <1> QED BY <1>9, <1>10, <1>11, <1>12, <1>13, <1>14 DEF Inv

LEMMA DispatchCreateInv ==
  ASSUME Inv, NEW t \in Threads, NEW b \in Buffers, DispatchCreate(t, b)
  PROVE  Inv'
  <1>1. Idle(t) /\ \E ordered \in BOOLEAN : Creates(t, b, "recording", ordered, {},
                                                     clCreateCommandBufferKHR)
    BY DEF DispatchCreate
  <1>2. Names(Tail(clCreateCommandBufferKHR))
    BY DEF Names, clCreateCommandBufferKHR
  <1> QED BY <1>1, <1>2, CreatesInv

LEMMA DispatchRemapInv ==
  ASSUME Inv, NEW t \in Threads, NEW b \in Buffers, NEW old \in Buffers,
         DispatchRemap(t, old, b)
  PROVE  Inv'
  <1>1. Idle(t) /\ \E ms : Creates(t, b, "executable", FALSE, ms, clRemapCommandBufferKHR)
    BY DEF DispatchRemap
  <1>2. Names(Tail(clRemapCommandBufferKHR))
    BY DEF Names, clRemapCommandBufferKHR
  <1> QED BY <1>1, <1>2, CreatesInv

LEMMA RetainInv ==
  ASSUME Inv, NEW t \in Threads, NEW b \in Buffers, Retain(t, b)
  PROVE  Inv'
  <1>1. /\ state[b] # "free" /\ Spare(b) /\ refs' = [refs EXCEPT ![b] = @ + 1]
        /\ UNCHANGED <<call, info, record, mutableList, state, lost, platformOf>>
    BY DEF Retain, layer
  <1>2. refs[b] \in Nat \ {0} /\ Cardinality(Using(b)) \in Nat
    BY <1>1, UsingIsFinite DEF Inv, Types
  <1>3. refs'[b] = refs[b] + 1 /\ \A c \in Buffers \ {b} : refs'[c] = refs[c]
    BY <1>1 DEF Inv, Types
  <1>4. Types'
    <2>1. refs' \in [Buffers -> Nat]
      BY <1>1, <1>2 DEF Inv, Types
    <2>2. Locals'
      BY <1>1 DEF Inv, Types, Locals, Idle
    <2> QED BY <1>1, <1>2, <1>3, <2>1, <2>2 DEF Types, Inv
  <1>5. \A c \in Buffers : Using(c)' = Using(c)
    BY <1>1 DEF Using
  <1>6. CallsHaveReferences'
    BY <1>2, <1>3, <1>5 DEF CallsHaveReferences, Inv
  <1>7. OneRelease' /\ FreedBuffersAreForgotten'
    BY <1>1 DEF OneRelease, FreedBuffersAreForgotten, Removing, Idle, Inv
  <1>8. LastReleaseForgets'
    <2> SUFFICES ASSUME NEW u \in Threads, At(u, "release"), call[u].buffer \notin lost,
                        refs'[call[u].buffer] = 1
                 PROVE  Forgotten(call[u].buffer)
      BY <1>1 DEF LastReleaseForgets, Forgotten, At, Idle
    <2>1. call[u].buffer \in Buffers \ {b}
      BY <1>2, <1>3 DEF At, Inv, Types, Locals
    <2> QED BY <1>3, <2>1 DEF LastReleaseForgets, Inv
  <1>9. KnownOrBusy'
    <2> SUFFICES ASSUME NEW c \in Buffers \ lost, state[c] # "free", info[c] = NULL
                 PROVE  \E u \in Using(c) : Naming(u) \/ (At(u, "release") /\ refs'[c] = 1)
      BY <1>1, <1>5 DEF KnownOrBusy, Naming, At, Idle
    <2>1. PICK u \in Using(c) : Naming(u) \/ (At(u, "release") /\ refs[c] = 1)
      BY DEF KnownOrBusy, Inv
    <2>2. CASE c = b /\ ~Naming(u)
      <3>1. Using(b) = {u} /\ refs[b] = 1
        BY <2>1, <2>2, LastReferenceHasOneUser
      <3> QED BY <1>1, <3>1, FS_Singleton DEF Spare
    <2> QED BY <1>3, <2>1, <2>2
  <1> QED BY <1>4, <1>6, <1>7, <1>8, <1>9 DEF Inv

-----------------------------------------------------------------------------
(* clReleaseCommandBufferKHR.                                                *)

LEMMA RemoveInv ==
  ASSUME Inv, NEW t \in Threads, CheckRemoveCommandBufferInfo(t)
  PROVE  Inv'
  <1>0. PICK b : b = call[t].buffer
    OBVIOUS
  <1> DEFINE last == info[b] # NULL /\ refs[b] = 1
  <1>1. At(t, "remove") /\ ~Idle(t) /\ Removing(t) /\ Head(call[t].todo) = "remove"
    BY DEF CheckRemoveCommandBufferInfo, At, Removing, ReleaseSteps
  <1>2. /\ IF last
           THEN /\ info' = [info EXCEPT ![b] = NULL]
                /\ record' = [record EXCEPT ![b] = NoRecord]
                /\ mutableList' = [mutableList EXCEPT ![b] = {}]
           ELSE UNCHANGED <<info, record, mutableList>>
        /\ After(t)
        /\ UNCHANGED <<state, refs, platformOf, lost>>
    BY <1>0 DEF CheckRemoveCommandBufferInfo, driver, history
  <1>3. /\ b \in Buffers /\ t \in Using(b)
        /\ call[t].todo \in Programs /\ call[t].todo # <<>>
    BY <1>0, <1>1 DEF Inv, Types, Locals, Using, Idle
  <1>4. /\ last => record'[b] = NoRecord /\ info'[b] = NULL /\ mutableList'[b] = {}
        /\ ~last => UNCHANGED <<info, record, mutableList>>
        /\ \A c \in Buffers \ {b} : /\ record'[c] = record[c] /\ info'[c] = info[c]
                                    /\ mutableList'[c] = mutableList[c]
        /\ DOMAIN info' = Buffers /\ DOMAIN record' = Buffers /\ DOMAIN mutableList' = Buffers
    BY <1>2, <1>3 DEF Inv, Types
  <1>5. ~Naming(t) /\ Tail(call[t].todo) = <<"release">>
    BY <1>1, <1>3, TailFacts DEF Naming
  <1>6. /\ Stays(t) /\ call'[t].todo = <<"release">>
        /\ \A u \in Threads \ {t} : call'[u] = call[u]
    BY <1>1, <1>2, <1>5, AfterUpdate DEF Inv, Types, Stays, Others
  <1>7. At(t, "release")' /\ ~Idle(t)' /\ call'[t].buffer = b
    BY <1>0, <1>6 DEF At, Idle, Stays
  <1>8. Types'
    BY <1>2, <1>4, <1>6 DEF Types, Inv, Stays
  <1>9. CallsHaveReferences'
    BY <1>2, <1>6, UsingShrinks, UsingIsFinite DEF CallsHaveReferences, Inv, Types
  <1>10. OneRelease'
    <2>1. \A u \in Threads : Removing(u)' => Removing(u) /\ call'[u].buffer = call[u].buffer
      BY <1>0, <1>1, <1>6, <1>7 DEF Removing, Idle
    <2> QED BY <2>1 DEF OneRelease, Inv
  <1>11. FreedBuffersAreForgotten'
    <2> SUFFICES ASSUME NEW c \in Buffers \ lost, state[c] = "free"
                 PROVE  record'[c] = NoRecord /\ info'[c] = NULL /\ mutableList'[c] = {}
      BY <1>2 DEF FreedBuffersAreForgotten
    <2>1. c # b
      BY <1>3, FreeIsUnused DEF Inv, Types
    <2> QED BY <1>4, <2>1 DEF FreedBuffersAreForgotten, Inv
  <1>12. LastReleaseForgets'
    <2> SUFFICES ASSUME NEW u \in Threads, At(u, "release")', call'[u].buffer \notin lost,
                        refs[call'[u].buffer] = 1
                 PROVE  /\ record'[call'[u].buffer] = NoRecord
                        /\ info'[call'[u].buffer] = NULL
                        /\ mutableList'[call'[u].buffer] = {}
      BY <1>2 DEF LastReleaseForgets, Forgotten
    <2>1. CASE u = t
      <3> SUFFICES last
        BY <1>4, <1>7, <2>1
      <3>1. refs[b] = 1 /\ b \notin lost
        BY <1>7, <2>1
      <3>2. Using(b) = {t}
        BY <1>3, <3>1, LastReferenceHasOneUser
      <3>3. state[b] # "free"
        BY <1>3, <3>1 DEF Inv, Types
      <3>4. ~At(t, "release")
        BY <1>1 DEF At
      <3> QED BY <1>3, <1>5, <3>1, <3>2, <3>3, <3>4 DEF KnownOrBusy, Inv
    <2>2. CASE u # t
      <3>1. call'[u] = call[u] /\ At(u, "release") /\ Removing(u) /\ call[u].buffer \in Buffers
        BY <1>6, <2>2 DEF At, Removing, ReleaseSteps, Idle, Inv, Types, Locals
      <3>2. call[u].buffer # b
        BY <1>0, <1>1, <2>2, <3>1 DEF OneRelease, Inv
      <3> QED BY <1>4, <3>1, <3>2 DEF LastReleaseForgets, Forgotten, Inv
    <2> QED BY <2>1, <2>2
  <1>13. KnownOrBusy'
    <2> SUFFICES ASSUME NEW c \in Buffers \ lost, state[c] # "free", info'[c] = NULL
                 PROVE  \E u \in Using(c)' : Naming(u)' \/ (At(u, "release")' /\ refs[c] = 1)
      BY <1>2 DEF KnownOrBusy
    <2>1. CASE c = b /\ last
      BY <1>7, <2>1 DEF Using
    <2>2. CASE info[c] = NULL
      <3>1. PICK u \in Using(c) : Naming(u) \/ (At(u, "release") /\ refs[c] = 1)
        BY <2>2 DEF KnownOrBusy, Inv
      <3>2. u # t
        BY <1>1, <1>5, <3>1 DEF At
      <3> QED BY <1>6, <3>1, <3>2 DEF Using, Naming, At, Idle
    <2> QED BY <1>4, <2>1, <2>2
  <1> QED BY <1>8, <1>9, <1>10, <1>11, <1>12, <1>13 DEF Inv

\* The end of a release: the call returns.
LEMMA ReleaseReturns ==
  ASSUME Inv, NEW t \in Threads, At(t, "release"), After(t)
  PROVE  /\ Stays(t) /\ Idle(t)' /\ ~Naming(t) /\ Removing(t) /\ ~Idle(t)
         /\ \A u \in Threads \ {t} : call'[u] = call[u]
         /\ call[t].buffer \in Buffers
         /\ \A u \in Threads \ {t} : Removing(u) => call[u].buffer # call[t].buffer
  <1>1. ~Idle(t) /\ Removing(t) /\ Head(call[t].todo) = "release"
    BY DEF At, Removing, ReleaseSteps
  <1>2. call[t].todo \in Programs /\ call[t].todo # <<>> /\ call[t].buffer \in Buffers
    BY <1>1 DEF Inv, Types, Locals, Idle
  <1>3. Tail(call[t].todo) = <<>> /\ ~Naming(t)
    BY <1>1, <1>2, TailFacts DEF Naming
  <1>4. Stays(t) /\ Idle(t)'
    BY <1>1, <1>3, AfterUpdate DEF Inv, Types, Idle
  <1> QED BY <1>1, <1>2, <1>3, <1>4 DEF Stays, Others, OneRelease, Inv

LEMMA DispatchReleaseInv ==
  ASSUME Inv, NEW t \in Threads, DispatchRelease(t)
  PROVE  Inv'
  <1>0. PICK b : b = call[t].buffer
    OBVIOUS
  <1>1. /\ refs' = [refs EXCEPT ![b] = @ - 1]
        /\ state' = [state EXCEPT ![b] = IF refs[b] = 1 THEN "free" ELSE @]
        /\ UNCHANGED <<info, record, mutableList, platformOf, lost>>
    BY <1>0 DEF DispatchRelease, layer, history
  <1>2. /\ Stays(t) /\ Idle(t)' /\ ~Naming(t) /\ Removing(t) /\ ~Idle(t)
        /\ \A u \in Threads \ {t} : call'[u] = call[u]
        /\ b \in Buffers /\ t \in Using(b) /\ At(t, "release")
        /\ \A u \in Threads \ {t} : Removing(u) => call[u].buffer # b
    BY <1>0, ReleaseReturns DEF DispatchRelease, Using
  <1>3. b \notin lost /\ refs[b] = 1 => Forgotten(b)
    BY <1>0, <1>2 DEF LastReleaseForgets, Inv
  <1>4. refs[b] \in Nat \ {0} /\ state[b] # "free"
    BY <1>2, FreeIsUnused DEF Inv, Types
  <1>5. /\ refs'[b] = refs[b] - 1 /\ state'[b] = IF refs[b] = 1 THEN "free" ELSE state[b]
        /\ \A c \in Buffers \ {b} : refs'[c] = refs[c] /\ state'[c] = state[c]
    BY <1>1, <1>2 DEF Inv, Types
  <1>6. Types'
    <2>1. refs' \in [Buffers -> Nat] /\ DOMAIN state' = Buffers
      BY <1>1, <1>2, <1>4 DEF Inv, Types
    <2>2. \A c \in Buffers : state'[c] = "free" <=> refs'[c] = 0
      BY <1>4, <1>5 DEF Inv, Types
    <2> QED BY <1>1, <1>2, <2>1, <2>2 DEF Types, Inv, Stays
  <1>7. CallsHaveReferences'
    <2> SUFFICES ASSUME NEW c \in Buffers PROVE Cardinality(Using(c)') <= refs'[c]
      BY DEF CallsHaveReferences
    <2>1. CASE c = b
      <3>1. Using(b)' \subseteq Using(b) \ {t}
        BY <1>2, UsingShrinks, BufferAssumption DEF Using, Stays, Locals
      <3>2. IsFiniteSet(Using(b) \ {t})
            /\ Cardinality(Using(b) \ {t}) = Cardinality(Using(b)) - 1
        BY <1>2, UsingIsFinite, FS_RemoveElement
      <3>3. Cardinality(Using(b)') <= Cardinality(Using(b) \ {t})
        BY <3>1, <3>2, FS_Subset
      <3>4. Cardinality(Using(b)') \in Nat /\ Cardinality(Using(b)) \in Nat
        BY <1>2, UsingShrinks, UsingIsFinite DEF Inv
      <3> QED BY <1>2, <1>4, <1>5, <2>1, <3>2, <3>3, <3>4 DEF CallsHaveReferences, Inv
    <2>2. CASE c # b
      BY <1>2, <1>5, <2>2, UsingShrinks, UsingIsFinite DEF CallsHaveReferences, Inv, Types
    <2> QED BY <2>1, <2>2
  <1>8. OneRelease'
    BY <1>2 DEF OneRelease, Inv, Removing, Idle
  <1>9. FreedBuffersAreForgotten'
    <2> SUFFICES ASSUME NEW c \in Buffers \ lost, state'[c] = "free" PROVE Forgotten(c)
      BY <1>1 DEF FreedBuffersAreForgotten, Forgotten
    <2> QED BY <1>3, <1>4, <1>5 DEF FreedBuffersAreForgotten, Forgotten, Inv
  <1>10. LastReleaseForgets'
    <2> SUFFICES ASSUME NEW u \in Threads, At(u, "release")', call'[u].buffer \notin lost,
                        refs'[call'[u].buffer] = 1
                 PROVE  Forgotten(call'[u].buffer)
      BY <1>1 DEF LastReleaseForgets, Forgotten
    <2>1. u # t
      BY <1>2 DEF At
    <2>2. call'[u] = call[u] /\ At(u, "release") /\ Removing(u) /\ call[u].buffer \in Buffers
      BY <1>2, <2>1 DEF At, Removing, ReleaseSteps, Idle, Inv, Types, Locals
    <2>3. call[u].buffer # b
      BY <1>2, <2>1, <2>2
    <2> QED BY <1>5, <2>2, <2>3 DEF LastReleaseForgets, Inv
  <1>11. KnownOrBusy'
    <2> SUFFICES ASSUME NEW c \in Buffers \ lost, state'[c] # "free", info[c] = NULL
                 PROVE  \E u \in Using(c)' : Naming(u)' \/ (At(u, "release")' /\ refs'[c] = 1)
      BY <1>1 DEF KnownOrBusy
    <2>1. PICK u \in Using(c) : Naming(u) \/ (At(u, "release") /\ refs[c] = 1)
      BY <1>4, <1>5 DEF KnownOrBusy, Inv
    <2>2. c = b => refs[c] # 1
      BY <1>5
    <2>3. u # t
      <3>1. u = t => c = b
        BY <1>0 DEF Using
      <3> QED BY <1>2, <2>1, <2>2, <3>1
    <2> QED BY <1>2, <1>5, <2>1, <2>2, <2>3 DEF Using, Naming, At, Idle
  <1> QED BY <1>6, <1>7, <1>8, <1>9, <1>10, <1>11 DEF Inv

LEMMA RefuseReleaseInv ==
  ASSUME Inv, NEW t \in Threads, RefuseRelease(t)
  PROVE  Inv'
  <1>0. PICK b : b = call[t].buffer
    OBVIOUS
  <1>1. /\ lost' = lost \cup {b}
        /\ UNCHANGED <<info, record, mutableList, platformOf, refs, state>>
    BY <1>0 DEF RefuseRelease, layer, driver
  <1>2. /\ Stays(t) /\ Idle(t)' /\ ~Naming(t) /\ Removing(t) /\ ~Idle(t)
        /\ \A u \in Threads \ {t} : call'[u] = call[u]
        /\ b \in Buffers
    BY <1>0, ReleaseReturns DEF RefuseRelease
  <1>3. Types'
    BY <1>1, <1>2 DEF Types, Inv, Stays
  <1>4. CallsHaveReferences'
    BY <1>1, <1>2, UsingShrinks, UsingIsFinite DEF CallsHaveReferences, Inv, Types
  <1>5. OneRelease'
    BY <1>2 DEF OneRelease, Inv, Removing, Idle
  <1>6. FreedBuffersAreForgotten'
    BY <1>1 DEF FreedBuffersAreForgotten, Inv
  <1>7. LastReleaseForgets'
    BY <1>1, <1>2 DEF LastReleaseForgets, Forgotten, Inv, At, Idle
  <1>8. KnownOrBusy'
    <2> SUFFICES ASSUME NEW c \in Buffers \ lost, c # b, state[c] # "free", info[c] = NULL
                 PROVE  \E u \in Using(c)' : Naming(u)' \/ (At(u, "release")' /\ refs[c] = 1)
      BY <1>1 DEF KnownOrBusy
    <2>1. PICK u \in Using(c) : Naming(u) \/ (At(u, "release") /\ refs[c] = 1)
      BY DEF KnownOrBusy, Inv
    <2>2. u # t
      BY <1>0, <2>1 DEF Using
    <2> QED BY <1>2, <2>1, <2>2 DEF Using, Naming, At, Idle
  <1> QED BY <1>3, <1>4, <1>5, <1>6, <1>7, <1>8 DEF Inv

-----------------------------------------------------------------------------
(* The theorem.                                                              *)

LEMMA NextInv ==
  ASSUME Overlapping = FALSE, Inv, [Next]_vars
  PROVE  Inv'
  <1>1. CASE UNCHANGED vars
    <2>1. UNCHANGED <<call, info, record, mutableList, state, refs, platformOf, lost>>
      BY <1>1 DEF vars, layer, driver, history
    <2> QED BY <2>1 DEF Inv, Types, Locals, CallsHaveReferences, OneRelease, Using, Idle, At,
               FreedBuffersAreForgotten, LastReleaseForgets, Forgotten, KnownOrBusy, Removing,
               Naming
  <1>2. CASE Next
    <2>1. PICK t \in Threads : Step(t)
      BY <1>2 DEF Next
    <2> QED BY <2>1, RecordCreateInv, AddCommandBufferInfoInv, DispatchCommandInv,
               RefuseCommandInv, RecordCommandInv, AddMutableCommandInfoInv,
               DispatchFinalizeInv, RecordFinalizeInv, DumpInv, RemoveInv, DispatchReleaseInv,
               RefuseReleaseInv, DispatchCreateInv, DispatchRemapInv, BeginCommandInv,
               BeginFinalizeInv, RetainInv, BeginReleaseInv
            DEF Step
  <1> QED BY <1>1, <1>2

\* checkRemoveCommandBufferInfo: a command buffer that is gone has left nothing
\* in the layer's maps for the next one with its handle, as long as no two
\* threads release their references to it at once.
THEOREM FreedBuffersAlwaysForgotten ==
  ASSUME Overlapping = FALSE
  PROVE  Spec => []FreedBuffersAreForgotten
  <1>1. Inv /\ [Next]_vars => Inv'
    BY NextInv
  <1>2. Inv => FreedBuffersAreForgotten
    BY DEF Inv
  <1> QED BY <1>1, <1>2, InitInv, PTL DEF Spec

-----------------------------------------------------------------------------
(* The mutable commands.                                                     *)

\* The rest of a call whose command the driver has been asked for.
Adding(todo) == todo \in {<<"recordCommand", "addMutable">>, <<"recordBarrier", "addMutable">>,
                          <<"addMutable">>}

MutableTypes ==
    /\ \A t \in Threads : /\ call[t].mutable \in Mutables \cup {NULL}
                          /\ call[t].mutable # NULL => Adding(call[t].todo)
    /\ DOMAIN mutableInfo = Mutables
    /\ mutableList \in [Buffers -> SUBSET Mutables]
    /\ handles \in [Buffers -> SUBSET Mutables]

HandlesAreDistinct ==
    /\ \A b, c \in Buffers : b # c => handles[b] \cap handles[c] = {}
    /\ \A b \in Buffers : state[b] = "free" => handles[b] = {}

\* What the layer lists are mutable commands of the buffer, or misnamed.
ListsHoldHandles == \A b \in Buffers : mutableList[b] \subseteq handles[b] \cup misnamed

\* So is what it is about to list, and it knows the buffer.
AddedAreHandles ==
    \A t \in Threads :
        call[t].mutable # NULL /\ call[t].mutable \notin misnamed =>
            call[t].mutable \in handles[call[t].buffer] /\ info[call[t].buffer] # NULL

UnknownHaveNoList == \A b \in Buffers : info[b] = NULL => mutableList[b] \subseteq misnamed
InfoIsPlatform == \A b \in Buffers : info[b] \in {NULL, platformOf[b]}

\* A buffer is about to be freed when the layer does not know it any more.
LastReleaseIsUnknown ==
    \A t \in Threads :
        At(t, "release") /\ refs[call[t].buffer] = 1 => info[call[t].buffer] = NULL

\* Until its handler has returned nobody else has a new buffer.
NamingIsFirst == \A t \in Threads : Naming(t) => refs[call[t].buffer] = 1

\* A mutable command is known, about to be known, or about to be gone.
HandlesAreRouted ==
    \A b \in Buffers \ lost : \A m \in handles[b] \ misnamed :
        \/ mutableInfo[m] = platformOf[b]
        \/ \E t \in Using(b) : call[t].mutable = m \/ (At(t, "release") /\ refs[b] = 1)

Routed == /\ MutableTypes /\ HandlesAreDistinct /\ ListsHoldHandles /\ AddedAreHandles
          /\ UnknownHaveNoList /\ InfoIsPlatform /\ LastReleaseIsUnknown /\ NamingIsFirst
          /\ HandlesAreRouted

LEMMA AddingFacts ==
  ASSUME NEW s, Adding(s)
  PROVE  /\ s # <<>> /\ ~Names(s) /\ s \in Programs
         /\ Head(s) \in {"recordCommand", "recordBarrier", "addMutable"}
         /\ Head(s) # "addMutable" => Adding(Tail(s))
         /\ Head(s) = "addMutable" => Tail(s) = <<>>
  <1>1. CASE s = <<"recordCommand", "addMutable">>
    <2>1. Head(s) = "recordCommand" /\ Tail(s) = <<"addMutable">>
      BY <1>1
    <2> QED BY <1>1, <2>1 DEF Adding, Names, Programs
  <1>2. CASE s = <<"recordBarrier", "addMutable">>
    <2>1. Head(s) = "recordBarrier" /\ Tail(s) = <<"addMutable">>
      BY <1>2
    <2> QED BY <1>2, <2>1 DEF Adding, Names, Programs
  <1>3. CASE s = <<"addMutable">>
    <2>1. Head(s) = "addMutable" /\ Tail(s) = <<>>
      BY <1>3
    <2> QED BY <1>3, <2>1 DEF Adding, Names, Programs
  <1> QED BY <1>1, <1>2, <1>3 DEF Adding

LEMMA CommandIsAdded ==
  ASSUME NEW s \in Programs, s # <<>>
  PROVE  /\ Head(s) = "command" => Adding(Tail(s))
         /\ Head(s) = "addMutable" => Tail(s) = <<>>
  <1>1. CASE s = <<"command", "recordCommand", "addMutable">>
    <2>1. Head(s) = "command" /\ Tail(s) = <<"recordCommand", "addMutable">>
      BY <1>1
    <2> QED BY <2>1 DEF Adding
  <1>2. CASE s = <<"command", "recordBarrier", "addMutable">>
    <2>1. Head(s) = "command" /\ Tail(s) = <<"recordBarrier", "addMutable">>
      BY <1>2
    <2> QED BY <2>1 DEF Adding
  <1>3. CASE s = <<"addMutable">>
    <2>1. Head(s) = "addMutable" /\ Tail(s) = <<>>
      BY <1>3
    <2> QED BY <2>1
  <1>4. Head(s) \in {"command", "addMutable"} =>
            s \in {<<"command", "recordCommand", "addMutable">>,
                   <<"command", "recordBarrier", "addMutable">>, <<"addMutable">>}
    BY DEF Programs
  <1> QED BY <1>1, <1>2, <1>3, <1>4

LEMMA InitRouted == Init => Routed
  <1> SUFFICES ASSUME Init PROVE Routed
    OBVIOUS
  <1>1. \A t \in Threads : call[t].mutable = NULL /\ call[t].todo = <<>> /\ Idle(t)
    BY DEF Init, Idle, NoCall
  <1>2. MutableTypes
    BY <1>1 DEF MutableTypes, Init
  <1>3. AddedAreHandles /\ LastReleaseIsUnknown /\ NamingIsFirst
    BY <1>1, NoCallIsIdle DEF AddedAreHandles, LastReleaseIsUnknown, NamingIsFirst, At, Naming
  <1>4. /\ HandlesAreDistinct /\ ListsHoldHandles /\ UnknownHaveNoList /\ InfoIsPlatform
        /\ HandlesAreRouted
    BY DEF HandlesAreDistinct, ListsHoldHandles, UnknownHaveNoList, InfoIsPlatform,
           HandlesAreRouted, Init
  <1> QED BY <1>2, <1>3, <1>4 DEF Routed

\* What t does to the handle it is about to enter, if any: nothing.
Holds(t) ==
    call[t].mutable # NULL =>
        /\ call'[t].mutable = call[t].mutable
        /\ call'[t].buffer = call[t].buffer
        /\ Adding(call'[t].todo)

\* Steps that leave the mutable commands alone.
LEMMA PassiveRouted ==
  ASSUME Inv, Routed, NEW t \in Threads, Locals',
         \A u \in Threads \ {t} : call'[u] = call[u],
         Holds(t), call[t].mutable = NULL => call'[t].mutable = NULL,
         ~At(t, "release"), ~At(t, "release")',
         Naming(t)' => Naming(t) /\ call'[t].buffer = call[t].buffer,
         UNCHANGED <<handles, mutableInfo, mutableList, misnamed, refs, lost, platformOf>>,
         \A c \in Buffers : state'[c] = "free" <=> state[c] = "free",
         \A c \in Buffers : info'[c] = info[c] \/ (info'[c] = platformOf[c] /\ t \in Using(c))
  PROVE  Routed'
  <1>1. MutableTypes'
    BY DEF MutableTypes, Routed, Holds
  <1>2. HandlesAreDistinct' /\ ListsHoldHandles'
    BY DEF HandlesAreDistinct, ListsHoldHandles, Routed
  <1>3. \A c \in Buffers : info'[c] = NULL => info[c] = NULL
    BY BufferAssumption DEF Inv, Types
  <1>4. \A u \in Threads : call[u].mutable # NULL => call[u].buffer \in Buffers
    BY AddingFacts DEF MutableTypes, Routed, Inv, Types, Locals, Idle
  <1>5. AddedAreHandles'
    <2> SUFFICES ASSUME NEW u \in Threads, call'[u].mutable # NULL,
                        call'[u].mutable \notin misnamed
                 PROVE  /\ call'[u].mutable \in handles[call'[u].buffer]
                        /\ info'[call'[u].buffer] # NULL
      BY DEF AddedAreHandles
    <2>1. call'[u].mutable = call[u].mutable /\ call'[u].buffer = call[u].buffer
      BY DEF Holds
    <2>2. call[u].mutable \in handles[call[u].buffer] /\ info[call[u].buffer] # NULL
      BY <2>1 DEF AddedAreHandles, Routed
    <2> QED BY <1>3, <1>4, <2>1, <2>2
  <1>6. UnknownHaveNoList' /\ InfoIsPlatform'
    BY <1>3 DEF UnknownHaveNoList, InfoIsPlatform, Routed
  <1>7. LastReleaseIsUnknown'
    <2> SUFFICES ASSUME NEW u \in Threads, At(u, "release")', refs[call'[u].buffer] = 1
                 PROVE  info'[call'[u].buffer] = NULL
      BY DEF LastReleaseIsUnknown
    <2>1. u # t /\ call'[u] = call[u] /\ At(u, "release")
      BY DEF At, Idle
    <2>2. call[u].buffer \in Buffers /\ u \in Using(call[u].buffer)
      BY <2>1 DEF At, Inv, Types, Locals, Using
    <2>3. Using(call[u].buffer) = {u}
      BY <2>1, <2>2, LastReferenceHasOneUser
    <2> QED BY <2>1, <2>2, <2>3 DEF LastReleaseIsUnknown, Routed
  <1>8. NamingIsFirst'
    BY DEF NamingIsFirst, Naming, Routed
  <1>9. HandlesAreRouted'
    <2> SUFFICES ASSUME NEW c \in Buffers \ lost, NEW m \in handles[c] \ misnamed,
                        mutableInfo[m] # platformOf[c]
                 PROVE  \E u \in Using(c)' :
                            call'[u].mutable = m \/ (At(u, "release")' /\ refs[c] = 1)
      BY DEF HandlesAreRouted
    <2>1. PICK u \in Using(c) : call[u].mutable = m \/ (At(u, "release") /\ refs[c] = 1)
      BY DEF HandlesAreRouted, Routed
    <2>2. CASE u # t
      BY <2>1, <2>2 DEF Using, At, Idle
    <2>3. CASE u = t
      <3>1. m # NULL
        BY BufferAssumption DEF Routed, MutableTypes
      <3>2. call[t].mutable = m
        BY <2>1, <2>3
      <3> QED BY <2>3, <3>1, <3>2 DEF Holds, Using
    <2> QED BY <2>2, <2>3
  <1> QED BY <1>1, <1>2, <1>5, <1>6, <1>7, <1>8, <1>9 DEF Routed

\* Only a handler about to enter a mutable command holds one.
LEMMA NoHandle ==
  ASSUME Inv, Routed, NEW t \in Threads,
         Idle(t) \/ Head(call[t].todo) \notin {"recordCommand", "recordBarrier", "addMutable"}
  PROVE  call[t].mutable = NULL
  <1>1. call[t].mutable # NULL => Adding(call[t].todo)
    BY DEF Routed, MutableTypes
  <1> QED BY <1>1, AddingFacts DEF Idle

\* Nobody else uses a buffer with one reference.
LEMMA NobodyElse ==
  ASSUME Inv, NEW t \in Threads, NEW b \in Buffers, call[t].buffer = b, refs[b] = 1,
         NEW u \in Threads \ {t}
  PROVE  call[u].buffer # b
  <1> SUFFICES ASSUME call[u].buffer = b PROVE FALSE
    OBVIOUS
  <1>1. t \in Using(b) /\ u \in Using(b)
    BY DEF Using
  <1> QED BY <1>1, LastReferenceHasOneUser

\* A handler after its first step and before its last.
LEMMA AfterRouted ==
  ASSUME Inv, Routed, NEW t \in Threads, ~Idle(t), ~Removing(t), After(t),
         Head(call[t].todo) # "addMutable",
         UNCHANGED <<handles, mutableInfo, mutableList, misnamed, refs, lost, platformOf>>,
         \A c \in Buffers : state'[c] = "free" <=> state[c] = "free",
         \A c \in Buffers : info'[c] = info[c] \/ (info'[c] = platformOf[c] /\ t \in Using(c))
  PROVE  Routed'
  <1>1. /\ Stays(t) /\ call'[t].todo = Tail(call[t].todo)
        /\ call'[t].mutable = IF Tail(call[t].todo) = <<>> THEN NULL ELSE call[t].mutable
    BY AfterUpdate DEF Inv, Types
  <1>2. call[t].todo \in Programs /\ call[t].todo # <<>>
    BY DEF Inv, Types, Locals, Idle
  <1>3. ~At(t, "release") /\ Head(call[t].todo) # "remove"
    BY DEF At, Removing, ReleaseSteps
  <1>4. ~At(t, "release")'
    BY <1>1, <1>2, <1>3, TailFacts DEF At, Idle, ReleaseSteps
  <1>5. Holds(t)
    <2> SUFFICES ASSUME call[t].mutable # NULL
                 PROVE  /\ call'[t].mutable = call[t].mutable
                        /\ call'[t].buffer = call[t].buffer /\ Adding(call'[t].todo)
      BY DEF Holds
    <2>1. Adding(call[t].todo)
      BY DEF Routed, MutableTypes
    <2>2. Adding(call'[t].todo) /\ call'[t].todo # <<>>
      BY <1>1, <2>1, AddingFacts
    <2> QED BY <1>1, <2>2 DEF Stays, Idle
  <1>6. Naming(t)' => Naming(t) /\ call'[t].buffer = call[t].buffer
    <2> SUFFICES ASSUME Naming(t)' PROVE Naming(t) /\ call'[t].buffer = call[t].buffer
      OBVIOUS
    <2>1. Naming(t)
      BY <1>1, <1>2, TailFacts DEF Naming
    <2>2. call'[t].todo # <<>>
      BY NamesFacts DEF Naming
    <2> QED BY <1>1, <2>1, <2>2 DEF Stays, Idle
  <1>7. call[t].mutable = NULL => call'[t].mutable = NULL
    BY <1>1
  <1>8. Locals' /\ \A u \in Threads \ {t} : call'[u] = call[u]
    BY <1>1 DEF Stays, Others
  <1> QED BY <1>3, <1>4, <1>5, <1>6, <1>7, <1>8, PassiveRouted

LEMMA RecordCreateRouted ==
  ASSUME Inv, Routed, NEW t \in Threads, RecordCreate(t)
  PROVE  Routed'
  <1>1. ~Idle(t) /\ ~Removing(t) /\ Head(call[t].todo) = "recordCreate"
    BY AtStep DEF RecordCreate, ReleaseSteps
  <1> QED BY <1>1, AfterRouted DEF RecordCreate, driver, history

LEMMA AddCommandBufferInfoRouted ==
  ASSUME Inv, Routed, NEW t \in Threads, AddCommandBufferInfo(t)
  PROVE  Routed'
  <1>1. ~Idle(t) /\ ~Removing(t) /\ Head(call[t].todo) = "addInfo"
    BY AtStep DEF AddCommandBufferInfo, ReleaseSteps
  <1>2. /\ info' = [info EXCEPT ![call[t].buffer] = platformOf[call[t].buffer]]
        /\ After(t)
        /\ UNCHANGED <<state, handles, mutableInfo, mutableList, misnamed, refs, lost, platformOf>>
    BY DEF AddCommandBufferInfo, driver, history
  <1>3. \A c \in Buffers : info'[c] = info[c] \/ (info'[c] = platformOf[c] /\ t \in Using(c))
    BY <1>2 DEF Using, Inv, Types
  <1> QED BY <1>1, <1>2, <1>3, AfterRouted

LEMMA RecordCommandRouted ==
  ASSUME Inv, Routed, NEW t \in Threads, RecordCommand(t)
  PROVE  Routed'
  <1>1. At(t, "recordCommand") \/ At(t, "recordBarrier")
    BY DEF RecordCommand
  <1>2. /\ ~Idle(t) /\ ~Removing(t)
        /\ Head(call[t].todo) \in {"recordCommand", "recordBarrier"}
    BY <1>1, AtStep DEF ReleaseSteps
  <1> QED BY <1>2, AfterRouted DEF RecordCommand, driver, history

LEMMA RecordFinalizeRouted ==
  ASSUME Inv, Routed, NEW t \in Threads, RecordFinalize(t)
  PROVE  Routed'
  <1>1. ~Idle(t) /\ ~Removing(t) /\ Head(call[t].todo) = "recordFinalize"
    BY AtStep DEF RecordFinalize, ReleaseSteps
  <1> QED BY <1>1, AfterRouted DEF RecordFinalize, driver, history

LEMMA DumpRouted ==
  ASSUME Inv, Routed, NEW t \in Threads, DumpCommandBufferRecording(t)
  PROVE  Routed'
  <1>1. ~Idle(t) /\ ~Removing(t) /\ Head(call[t].todo) = "dump"
    BY AtStep DEF DumpCommandBufferRecording, ReleaseSteps
  <1> QED BY <1>1, AfterRouted DEF DumpCommandBufferRecording, history

LEMMA DispatchFinalizeRouted ==
  ASSUME Inv, Routed, NEW t \in Threads, DispatchFinalize(t)
  PROVE  Routed'
  <1>1. ~Idle(t) /\ ~Removing(t) /\ Head(call[t].todo) = "finalize"
    BY AtStep DEF DispatchFinalize, ReleaseSteps
  <1>2. /\ call[t].todo \in Programs /\ call[t].todo # <<>> /\ DOMAIN call[t] = DOMAIN NoCall
        /\ call[t].buffer \in Buffers
    BY <1>1 DEF Inv, Types, Locals, Idle
  <1>3. PICK steps \in {Tail(call[t].todo), <<>>} : Continues(t, call[t], steps)
    BY <1>1, <1>2, UnconditionalFacts DEF DispatchFinalize, After
  <1>4. /\ steps \in Programs /\ ~Names(steps)
        /\ steps = <<>> \/ Head(steps) \notin ReleaseSteps
    <2>1. CASE steps = <<>>
      BY <2>1, NoCallIsIdle
    <2>2. CASE steps = Tail(call[t].todo)
      BY <1>1, <1>2, <2>2, TailFacts
    <2> QED BY <2>1, <2>2
  <1>5. call[t].mutable = NULL
    BY <1>1, NoHandle
  <1>6. /\ Others(t) /\ Locals' /\ call'[t].todo = steps /\ call'[t].mutable = NULL
    <2>1. /\ Others(t) /\ Locals' /\ call'[t].todo = steps
          /\ call'[t].mutable = IF steps = <<>> THEN NULL ELSE call[t].mutable
      BY <1>2, <1>3, <1>4, ContinuesUpdate DEF Inv, Types
    <2> QED BY <1>5, <2>1
  <1>7. ~At(t, "release") /\ ~At(t, "release")' /\ ~Naming(t)'
    BY <1>1, <1>4, <1>6 DEF At, Idle, ReleaseSteps, Naming
  <1>8. state[call[t].buffer] # "free"
    <2>1. t \in Using(call[t].buffer)
      BY DEF Using
    <2> QED BY <1>2, <2>1, FreeIsUnused DEF Inv, Types
  <1>9. \A c \in Buffers : state'[c] = "free" <=> state[c] = "free"
    BY <1>2, <1>8 DEF DispatchFinalize, Inv, Types
  <1>10. UNCHANGED <<info, handles, mutableInfo, mutableList, misnamed, refs, lost, platformOf>>
    BY DEF DispatchFinalize, layer, history
  <1> QED BY <1>5, <1>6, <1>7, <1>9, <1>10, PassiveRouted DEF Holds, Others

\* Calls that begin.
LEMMA EntersRouted ==
  ASSUME Inv, Routed, NEW t \in Threads, NEW b \in Buffers, Enters(t, b),
         call'[t].mutable = NULL,
         Head(call'[t].todo) \notin {"release", "recordCreate", "addInfo"},
         UNCHANGED <<handles, mutableInfo, mutableList, misnamed, refs, lost, platformOf, info,
                     state>>
  PROVE  Routed'
  <1>1. call[t].mutable = NULL
    BY NoHandle DEF Enters
  <1>2. ~At(t, "release") /\ ~At(t, "release")' /\ ~Naming(t)'
    BY NamesFacts DEF At, Enters, Naming, Idle
  <1> QED BY <1>1, <1>2, PassiveRouted DEF Enters, Others, Holds

LEMMA BeginCommandRouted ==
  ASSUME Inv, Routed, NEW t \in Threads, NEW b \in Buffers, BeginCommand(t, b)
  PROVE  Routed'
  <1>0. PICK h \in CommandHandlers : \E command :
            Continues(t, [NoCall EXCEPT !.buffer = b, !.command = command], h.steps)
    BY DEF BeginCommand
  <1>1. PICK command :
            Continues(t, [NoCall EXCEPT !.buffer = b, !.command = command], h.steps)
    BY <1>0
  <1> DEFINE c == [NoCall EXCEPT !.buffer = b, !.command = command]
  <1>2. DOMAIN c = DOMAIN NoCall /\ c.buffer = b /\ c.mutable = NULL
    BY DEF NoCall
  <1>3. Idle(t) /\ Continues(t, c, h.steps)
    BY <1>1 DEF BeginCommand
  <1>4. UNCHANGED <<handles, mutableInfo, mutableList, misnamed, refs, lost, platformOf, info,
                    state>>
    BY DEF BeginCommand, layer, driver
  <1> HIDE DEF c
  <1>5. Enters(t, b) /\ call'[t].todo = h.steps /\ call'[t].mutable = NULL
    BY <1>2, <1>3, CommandProgram, BeginsUpdate DEF Inv
  <1> QED BY <1>4, <1>5, CommandProgram, EntersRouted

LEMMA BeginFinalizeRouted ==
  ASSUME Inv, Routed, NEW t \in Threads, NEW b \in Buffers, BeginFinalize(t, b)
  PROVE  Routed'
  <1> DEFINE c == [NoCall EXCEPT !.buffer = b]
  <1>1. DOMAIN c = DOMAIN NoCall /\ c.buffer = b /\ c.mutable = NULL
    BY DEF NoCall
  <1>2. /\ clFinalizeCommandBufferKHR \in Programs /\ clFinalizeCommandBufferKHR # <<>>
        /\ Head(clFinalizeCommandBufferKHR) = "finalize"
    BY DEF Programs, clFinalizeCommandBufferKHR
  <1>3. /\ Idle(t) /\ Continues(t, c, clFinalizeCommandBufferKHR)
        /\ UNCHANGED <<handles, mutableInfo, mutableList, misnamed, refs, lost, platformOf, info,
                       state>>
    BY DEF BeginFinalize, layer, driver, history
  <1> HIDE DEF c
  <1>4. /\ Enters(t, b) /\ call'[t].todo = clFinalizeCommandBufferKHR
        /\ call'[t].mutable = NULL
    BY <1>1, <1>2, <1>3, BeginsUpdate DEF Inv
  <1> QED BY <1>2, <1>3, <1>4, EntersRouted

LEMMA BeginReleaseRouted ==
  ASSUME Inv, Routed, NEW t \in Threads, NEW b \in Buffers, BeginRelease(t, b)
  PROVE  Routed'
  <1> DEFINE c == [NoCall EXCEPT !.buffer = b]
  <1>1. DOMAIN c = DOMAIN NoCall /\ c.buffer = b /\ c.mutable = NULL
    BY DEF NoCall
  <1>2. /\ clReleaseCommandBufferKHR \in Programs /\ clReleaseCommandBufferKHR # <<>>
        /\ Head(clReleaseCommandBufferKHR) = "remove"
    BY DEF Programs, clReleaseCommandBufferKHR
  <1>3. /\ Idle(t) /\ Continues(t, c, clReleaseCommandBufferKHR)
        /\ UNCHANGED <<handles, mutableInfo, mutableList, misnamed, refs, lost, platformOf, info,
                       state>>
    BY DEF BeginRelease, layer, driver, history
  <1> HIDE DEF c
  <1>4. /\ Enters(t, b) /\ call'[t].todo = clReleaseCommandBufferKHR
        /\ call'[t].mutable = NULL
    BY <1>1, <1>2, <1>3, BeginsUpdate DEF Inv
  <1> QED BY <1>2, <1>3, <1>4, EntersRouted

\* The driver's part of a command, refused or not: t goes on with the handle m.
LEMMA CommandUpdate ==
  ASSUME Inv, Routed, NEW t \in Threads, At(t, "command"), NEW m,
         NEW steps, steps \in {Tail(call[t].todo), Unconditional(call[t].todo)},
         Continues(t, [call[t] EXCEPT !.mutable = m], steps)
  PROVE  /\ \A u \in Threads \ {t} : call'[u] = call[u]
         /\ call[t].mutable = NULL /\ call'[t].mutable = m
         /\ Adding(call'[t].todo)
         /\ call'[t].buffer = call[t].buffer /\ call[t].buffer \in Buffers
         /\ ~At(t, "release") /\ ~At(t, "release")' /\ ~Naming(t) /\ ~Naming(t)'
  <1> DEFINE c == [call[t] EXCEPT !.mutable = m]
  <1>1. ~Idle(t) /\ Head(call[t].todo) = "command"
    BY AtStep DEF ReleaseSteps
  <1>2. /\ call[t].todo \in Programs /\ call[t].todo # <<>> /\ DOMAIN call[t] = DOMAIN NoCall
        /\ call[t].buffer \in Buffers
    BY <1>1 DEF Inv, Types, Locals, Idle
  <1>3. Adding(steps)
    BY <1>1, <1>2, CommandIsAdded, UnconditionalFacts DEF Adding
  <1>4. steps \in Programs /\ steps # <<>> /\ ~Names(steps) /\ Head(steps) # "release"
    BY <1>3, AddingFacts
  <1>5. DOMAIN c = DOMAIN NoCall /\ c.buffer = call[t].buffer /\ c.mutable = m
    BY <1>2 DEF NoCall
  <1>6. Continues(t, c, steps)
    OBVIOUS
  <1> HIDE DEF c
  <1>7. /\ Others(t) /\ call'[t].todo = steps
        /\ call'[t].buffer = IF steps = <<>> THEN NULL ELSE c.buffer
        /\ call'[t].mutable = IF steps = <<>> THEN NULL ELSE c.mutable
    BY <1>2, <1>4, <1>5, <1>6, ContinuesUpdate DEF Inv, Types
  <1>8. call[t].mutable = NULL
    BY <1>1, NoHandle
  <1>9. ~Naming(t)
    BY <1>1, <1>2, TailFacts DEF Naming
  <1>10. ~At(t, "release") /\ ~At(t, "release")' /\ ~Naming(t)'
    BY <1>1, <1>4, <1>7 DEF At, Naming
  <1> QED BY <1>2, <1>3, <1>4, <1>5, <1>7, <1>8, <1>9, <1>10 DEF Others

LEMMA RefuseCommandRouted ==
  ASSUME Inv, Routed, NEW t \in Threads, RefuseCommand(t)
  PROVE  Routed'
  <1>1. At(t, "command")
    BY DEF RefuseCommand
  <1>2. PICK m \in Mutables \cup {NULL} :
            /\ Continues(t, [call[t] EXCEPT !.mutable = m], Unconditional(call[t].todo))
            /\ misnamed' = misnamed \cup ({m} \ {NULL})
    BY DEF RefuseCommand
  <1>3. /\ UNCHANGED <<info, mutableInfo, mutableList, state, refs, platformOf, handles, lost>>
        /\ misnamed \subseteq misnamed'
    BY <1>2 DEF RefuseCommand, layer, driver
  <1>4. /\ \A u \in Threads \ {t} : call'[u] = call[u]
        /\ call[t].mutable = NULL /\ call'[t].mutable = m
        /\ Adding(call'[t].todo)
        /\ call'[t].buffer = call[t].buffer /\ call[t].buffer \in Buffers
        /\ ~At(t, "release") /\ ~At(t, "release")' /\ ~Naming(t) /\ ~Naming(t)'
    BY <1>1, <1>2, CommandUpdate
  <1>5. MutableTypes'
    BY <1>3, <1>4 DEF MutableTypes, Routed
  <1>6. HandlesAreDistinct' /\ ListsHoldHandles' /\ UnknownHaveNoList' /\ InfoIsPlatform'
    BY <1>3 DEF HandlesAreDistinct, ListsHoldHandles, UnknownHaveNoList, InfoIsPlatform, Routed
  <1>7. AddedAreHandles'
    BY <1>2, <1>3, <1>4 DEF AddedAreHandles, Routed
  <1>8. LastReleaseIsUnknown' /\ NamingIsFirst'
    BY <1>3, <1>4 DEF LastReleaseIsUnknown, NamingIsFirst, At, Idle, Naming, Routed
  <1>9. HandlesAreRouted'
    <2> SUFFICES ASSUME NEW c \in Buffers \ lost, NEW n \in handles[c] \ misnamed,
                        mutableInfo[n] # platformOf[c]
                 PROVE  \E u \in Using(c)' :
                            call'[u].mutable = n \/ (At(u, "release")' /\ refs[c] = 1)
      BY <1>3 DEF HandlesAreRouted
    <2>1. PICK u \in Using(c) : call[u].mutable = n \/ (At(u, "release") /\ refs[c] = 1)
      BY DEF HandlesAreRouted, Routed
    <2>2. u # t
      BY <1>4, <2>1, BufferAssumption DEF Routed, MutableTypes
    <2> QED BY <1>4, <2>1, <2>2 DEF Using, At, Idle
  <1> QED BY <1>5, <1>6, <1>7, <1>8, <1>9 DEF Routed

LEMMA DispatchCommandRouted ==
  ASSUME Inv, Routed, NEW t \in Threads, DispatchCommand(t)
  PROVE  Routed'
  <1>0. PICK b : b = call[t].buffer
    OBVIOUS
  <1>1. At(t, "command")
    BY DEF DispatchCommand
  <1>2. PICK m \in (Mutables \ UsedMutables) \cup {NULL} :
            /\ handles' = [handles EXCEPT ![b] = @ \cup ({m} \ {NULL})]
            /\ misnamed' = IF b \in lost THEN misnamed \cup ({m} \ {NULL}) ELSE misnamed
            /\ Continues(t, [call[t] EXCEPT !.mutable = m], Tail(call[t].todo))
    BY <1>0 DEF DispatchCommand
  <1>3. /\ UNCHANGED <<info, mutableInfo, mutableList, state, refs, platformOf, lost>>
        /\ misnamed \subseteq misnamed'
    BY <1>2 DEF DispatchCommand, layer
  <1>4. /\ \A u \in Threads \ {t} : call'[u] = call[u]
        /\ call[t].mutable = NULL /\ call'[t].mutable = m
        /\ Adding(call'[t].todo)
        /\ call'[t].buffer = b /\ b \in Buffers
        /\ ~At(t, "release") /\ ~At(t, "release")' /\ ~Naming(t) /\ ~Naming(t)'
    BY <1>0, <1>1, <1>2, CommandUpdate
  <1>5. t \in Using(b) /\ state[b] # "free"
    <2>1. t \in Using(b)
      BY <1>0 DEF Using
    <2> QED BY <1>4, <2>1, FreeIsUnused DEF Inv, Types
  <1>6. /\ handles'[b] = handles[b] \cup ({m} \ {NULL})
        /\ \A c \in Buffers \ {b} : handles'[c] = handles[c]
        /\ handles' \in [Buffers -> SUBSET Mutables]
    BY <1>2, <1>4 DEF Routed, MutableTypes
  <1>7. \A c \in Buffers : m \notin handles[c]
    BY <1>2, BufferAssumption DEF UsedMutables, Routed, HandlesAreDistinct, MutableTypes
  <1>8. MutableTypes'
    BY <1>3, <1>4, <1>6 DEF MutableTypes, Routed
  <1>9. HandlesAreDistinct'
    <2>1. \A c, d \in Buffers : c # d => handles'[c] \cap handles'[d] = {}
      BY <1>6, <1>7 DEF HandlesAreDistinct, Routed
    <2> QED BY <1>3, <1>5, <1>6, <2>1 DEF HandlesAreDistinct, Routed
  <1>10. ListsHoldHandles' /\ UnknownHaveNoList' /\ InfoIsPlatform'
    BY <1>3, <1>6 DEF ListsHoldHandles, UnknownHaveNoList, InfoIsPlatform, Routed
  <1>11. b \notin lost => info[b] # NULL
    <2> SUFFICES ASSUME b \notin lost, info[b] = NULL PROVE FALSE
      OBVIOUS
    <2>1. PICK u \in Using(b) : Naming(u) \/ (At(u, "release") /\ refs[b] = 1)
      BY <1>4, <1>5 DEF KnownOrBusy, Inv
    <2>2. refs[b] = 1 /\ u # t
      BY <1>4, <2>1 DEF Routed, NamingIsFirst, Using
    <2> QED BY <1>0, <1>4, <2>1, <2>2, NobodyElse DEF Using
  <1>12. AddedAreHandles'
    <2> SUFFICES ASSUME NEW u \in Threads, call'[u].mutable # NULL,
                        call'[u].mutable \notin misnamed'
                 PROVE  /\ call'[u].mutable \in handles'[call'[u].buffer]
                        /\ info[call'[u].buffer] # NULL
      BY <1>3 DEF AddedAreHandles
    <2>1. CASE u = t
      <3>1. b \notin lost
        BY <1>2, <1>4, <2>1
      <3> QED BY <1>4, <1>6, <1>11, <2>1, <3>1
    <2>2. CASE u # t
      <3>1. call[u].mutable \in handles[call[u].buffer] /\ info[call[u].buffer] # NULL
        BY <1>3, <1>4, <2>2 DEF AddedAreHandles, Routed
      <3>2. call[u].buffer \in Buffers
        BY <1>4, <2>2, AddingFacts DEF MutableTypes, Routed, Inv, Types, Locals, Idle
      <3> QED BY <1>4, <1>6, <2>2, <3>1, <3>2
    <2> QED BY <2>1, <2>2
  <1>13. LastReleaseIsUnknown' /\ NamingIsFirst'
    BY <1>3, <1>4 DEF LastReleaseIsUnknown, NamingIsFirst, At, Idle, Naming, Routed
  <1>14. HandlesAreRouted'
    <2> SUFFICES ASSUME NEW c \in Buffers \ lost, NEW n \in handles'[c] \ misnamed',
                        mutableInfo[n] # platformOf[c]
                 PROVE  \E u \in Using(c)' :
                            call'[u].mutable = n \/ (At(u, "release")' /\ refs[c] = 1)
      BY <1>3 DEF HandlesAreRouted
    <2>1. CASE n \in handles[c]
      <3>1. PICK u \in Using(c) : call[u].mutable = n \/ (At(u, "release") /\ refs[c] = 1)
        BY <1>3, <2>1 DEF HandlesAreRouted, Routed
      <3>2. u # t
        BY <1>4, <2>1, <3>1, BufferAssumption DEF Routed, MutableTypes
      <3> QED BY <1>4, <3>1, <3>2 DEF Using, At, Idle
    <2>2. CASE n \notin handles[c]
      BY <1>4, <1>6, <2>2 DEF Using
    <2> QED BY <2>1, <2>2
  <1> QED BY <1>8, <1>9, <1>10, <1>12, <1>13, <1>14 DEF Routed

LEMMA AddMutableCommandInfoRouted ==
  ASSUME Inv, Routed, NEW t \in Threads, AddMutableCommandInfo(t)
  PROVE  Routed'
  <1>0. PICK b, m : b = call[t].buffer /\ m = call[t].mutable
    OBVIOUS
  <1>1. /\ IF m = NULL THEN UNCHANGED <<mutableInfo, mutableList>>
           ELSE /\ mutableInfo' = [mutableInfo EXCEPT ![m] = info[b]]
                /\ mutableList' = [mutableList EXCEPT ![b] = @ \cup {m}]
        /\ At(t, "addMutable") /\ After(t)
        /\ UNCHANGED <<info, state, refs, platformOf, handles, lost, misnamed>>
    BY <1>0 DEF AddMutableCommandInfo, driver, history
  <1>2. ~Idle(t) /\ Head(call[t].todo) = "addMutable" /\ ~At(t, "release")
    BY <1>1, AtStep DEF ReleaseSteps, At
  <1>3. call[t].todo \in Programs /\ call[t].todo # <<>> /\ b \in Buffers
    BY <1>0, <1>2 DEF Inv, Types, Locals, Idle
  <1>4. Tail(call[t].todo) = <<>>
    BY <1>2, <1>3, CommandIsAdded
  <1>5. /\ \A u \in Threads \ {t} : call'[u] = call[u]
        /\ call'[t].todo = <<>> /\ call'[t].mutable = NULL
    BY <1>1, <1>2, <1>4, AfterUpdate DEF Inv, Types, Stays, Others
  <1>6. ~At(t, "release")' /\ ~Naming(t)'
    BY <1>5, NoCallIsIdle DEF At, Idle, Naming
  <1>7. m \in Mutables \cup {NULL}
    BY <1>0 DEF Routed, MutableTypes
  <1>8. /\ DOMAIN mutableInfo' = Mutables /\ mutableList' \in [Buffers -> SUBSET Mutables]
        /\ m # NULL => mutableInfo'[m] = info[b] /\ mutableList'[b] = mutableList[b] \cup {m}
        /\ \A n \in Mutables \ {m} : mutableInfo'[n] = mutableInfo[n]
        /\ m = NULL => mutableList'[b] = mutableList[b]
        /\ \A c \in Buffers \ {b} : mutableList'[c] = mutableList[c]
    BY <1>1, <1>3, <1>7 DEF Routed, MutableTypes
  <1>9. MutableTypes'
    BY <1>1, <1>5, <1>8 DEF MutableTypes, Routed
  <1>10. m # NULL /\ m \notin misnamed => m \in handles[b] /\ info[b] # NULL
    BY <1>0 DEF Routed, AddedAreHandles
  <1>11. HandlesAreDistinct' /\ InfoIsPlatform'
    BY <1>1 DEF HandlesAreDistinct, InfoIsPlatform, Routed
  <1>12. ListsHoldHandles'
    BY <1>1, <1>8, <1>10 DEF ListsHoldHandles, Routed
  <1>13. UnknownHaveNoList'
    BY <1>1, <1>8, <1>10 DEF UnknownHaveNoList, Routed
  <1>14. AddedAreHandles'
    BY <1>1, <1>5 DEF AddedAreHandles, Routed
  <1>15. LastReleaseIsUnknown' /\ NamingIsFirst'
    BY <1>1, <1>5, <1>6 DEF LastReleaseIsUnknown, NamingIsFirst, At, Idle, Naming, Routed
  <1>16. HandlesAreRouted'
    <2> SUFFICES ASSUME NEW c \in Buffers \ lost, NEW n \in handles[c] \ misnamed,
                        mutableInfo'[n] # platformOf[c]
                 PROVE  \E u \in Using(c)' :
                            call'[u].mutable = n \/ (At(u, "release")' /\ refs[c] = 1)
      BY <1>1 DEF HandlesAreRouted
    <2>1. n \in Mutables
      BY DEF Routed, MutableTypes
    <2>2. CASE n = m
      <3>1. n # NULL
        BY <2>1, BufferAssumption
      <3>2. c = b /\ info[b] # NULL
        BY <1>3, <1>10, <2>2, <3>1 DEF Routed, HandlesAreDistinct
      <3> QED BY <1>8, <2>2, <3>1, <3>2 DEF Routed, InfoIsPlatform
    <2>3. CASE n # m
      <3>1. PICK u \in Using(c) : call[u].mutable = n \/ (At(u, "release") /\ refs[c] = 1)
        BY <1>8, <2>1, <2>3 DEF HandlesAreRouted, Routed
      <3>2. u # t
        BY <1>0, <1>2, <2>3, <3>1
      <3> QED BY <1>5, <3>1, <3>2 DEF Using, At, Idle
    <2> QED BY <2>2, <2>3
  <1> QED BY <1>9, <1>11, <1>12, <1>13, <1>14, <1>15, <1>16 DEF Routed

LEMMA RemoveRouted ==
  ASSUME Inv, Routed, NEW t \in Threads, CheckRemoveCommandBufferInfo(t)
  PROVE  Routed'
  <1>0. PICK b : b = call[t].buffer
    OBVIOUS
  <1> DEFINE last == info[b] # NULL /\ refs[b] = 1
  <1>1. At(t, "remove") /\ ~Idle(t) /\ Removing(t) /\ Head(call[t].todo) = "remove"
    BY DEF CheckRemoveCommandBufferInfo, At, Removing, ReleaseSteps
  <1>2. /\ IF last
           THEN /\ info' = [info EXCEPT ![b] = NULL]
                /\ mutableInfo' = [m \in Mutables |-> IF m \in mutableList[b] THEN NULL
                                                      ELSE mutableInfo[m]]
                /\ mutableList' = [mutableList EXCEPT ![b] = {}]
           ELSE UNCHANGED <<info, mutableInfo, mutableList>>
        /\ After(t)
        /\ UNCHANGED <<state, refs, platformOf, handles, lost, misnamed>>
    BY <1>0 DEF CheckRemoveCommandBufferInfo, driver, history
  <1>3. /\ b \in Buffers /\ t \in Using(b)
        /\ call[t].todo \in Programs /\ call[t].todo # <<>>
    BY <1>0, <1>1 DEF Inv, Types, Locals, Using, Idle
  <1>4. Tail(call[t].todo) = <<"release">>
    BY <1>1, <1>3, TailFacts
  <1>5. /\ \A u \in Threads \ {t} : call'[u] = call[u]
        /\ call'[t].todo = <<"release">> /\ call'[t].mutable = call[t].mutable
        /\ Stays(t)
    <2>1. /\ Stays(t) /\ call'[t].todo = Tail(call[t].todo)
          /\ call'[t].mutable = IF Tail(call[t].todo) = <<>> THEN NULL ELSE call[t].mutable
      BY <1>1, <1>2, AfterUpdate DEF Inv, Types
    <2>2. <<"release">> # <<>>
      OBVIOUS
    <2> QED BY <1>4, <2>1, <2>2 DEF Stays, Others
  <1>6. call[t].mutable = NULL /\ ~At(t, "release")
    BY <1>1, NoHandle DEF At
  <1>7. At(t, "release")' /\ ~Naming(t)' /\ call'[t].buffer = b
    BY <1>0, <1>5 DEF At, Idle, Naming, Names, Stays
  <1>8. /\ last => info'[b] = NULL /\ mutableList'[b] = {}
        /\ last => \A m \in Mutables \ mutableList[b] : mutableInfo'[m] = mutableInfo[m]
        /\ ~last => UNCHANGED <<info, mutableInfo, mutableList>>
        /\ \A c \in Buffers \ {b} : info'[c] = info[c] /\ mutableList'[c] = mutableList[c]
        /\ DOMAIN mutableInfo' = Mutables /\ mutableList' \in [Buffers -> SUBSET Mutables]
    BY <1>2, <1>3 DEF Inv, Types, Routed, MutableTypes
  <1>9. last => \A u \in Threads \ {t} : call[u].buffer # b
    BY <1>0, <1>3, NobodyElse
  <1> HIDE DEF last
  <1>10. MutableTypes'
    BY <1>2, <1>5, <1>6, <1>8 DEF MutableTypes, Routed
  <1>11. HandlesAreDistinct'
    BY <1>2 DEF HandlesAreDistinct, Routed
  <1>12. ListsHoldHandles' /\ UnknownHaveNoList' /\ InfoIsPlatform'
    BY <1>2, <1>8 DEF ListsHoldHandles, UnknownHaveNoList, InfoIsPlatform, Routed
  <1>13. AddedAreHandles'
    <2> SUFFICES ASSUME NEW u \in Threads, call'[u].mutable # NULL,
                        call'[u].mutable \notin misnamed
                 PROVE  /\ call'[u].mutable \in handles[call'[u].buffer]
                        /\ info'[call'[u].buffer] # NULL
      BY <1>2 DEF AddedAreHandles
    <2>1. u # t /\ call'[u] = call[u]
      BY <1>5, <1>6
    <2>2. call[u].mutable \in handles[call[u].buffer] /\ info[call[u].buffer] # NULL
      BY <2>1 DEF AddedAreHandles, Routed
    <2>3. call[u].buffer \in Buffers
      BY <2>1, AddingFacts DEF MutableTypes, Routed, Inv, Types, Locals, Idle
    <2> QED BY <1>8, <1>9, <2>1, <2>2, <2>3
  <1>14. LastReleaseIsUnknown'
    <2> SUFFICES ASSUME NEW u \in Threads, At(u, "release")', refs[call'[u].buffer] = 1
                 PROVE  info'[call'[u].buffer] = NULL
      BY <1>2 DEF LastReleaseIsUnknown
    <2>1. CASE u = t
      BY <1>7, <1>8, <2>1 DEF last
    <2>2. CASE u # t
      <3>1. call'[u] = call[u] /\ At(u, "release") /\ Removing(u) /\ call[u].buffer \in Buffers
        BY <1>5, <2>2 DEF At, Removing, ReleaseSteps, Idle, Inv, Types, Locals
      <3>2. call[u].buffer # b
        BY <1>0, <1>1, <2>2, <3>1 DEF OneRelease, Inv
      <3> QED BY <1>8, <3>1, <3>2 DEF LastReleaseIsUnknown, Routed
    <2> QED BY <2>1, <2>2
  <1>15. NamingIsFirst'
    BY <1>2, <1>5, <1>7 DEF NamingIsFirst, Naming, Routed
  <1>16. HandlesAreRouted'
    <2> SUFFICES ASSUME NEW c \in Buffers \ lost, NEW n \in handles[c] \ misnamed,
                        mutableInfo'[n] # platformOf[c]
                 PROVE  \E u \in Using(c)' :
                            call'[u].mutable = n \/ (At(u, "release")' /\ refs[c] = 1)
      BY <1>2 DEF HandlesAreRouted
    <2>1. CASE c = b /\ last
      BY <1>7, <2>1 DEF last, Using
    <2>2. CASE c # b \/ ~last
      <3>1. n \in Mutables
        BY DEF Routed, MutableTypes
      <3>2. last => n \notin mutableList[b]
        BY <1>3, <2>2 DEF Routed, ListsHoldHandles, HandlesAreDistinct
      <3>3. mutableInfo'[n] = mutableInfo[n]
        BY <1>8, <3>1, <3>2
      <3>4. PICK u \in Using(c) : call[u].mutable = n \/ (At(u, "release") /\ refs[c] = 1)
        BY <3>3 DEF HandlesAreRouted, Routed
      <3>5. u # t
        BY <1>6, <3>1, <3>4, BufferAssumption
      <3> QED BY <1>5, <3>4, <3>5 DEF Using, At, Idle
    <2> QED BY <2>1, <2>2
  <1> QED BY <1>10, <1>11, <1>12, <1>13, <1>14, <1>15, <1>16 DEF Routed

\* The end of a release.
LEMMA ReturnsUpdate ==
  ASSUME Inv, Routed, NEW t \in Threads, At(t, "release"), After(t)
  PROVE  /\ \A u \in Threads \ {t} : call'[u] = call[u]
         /\ call[t].mutable = NULL /\ call'[t].mutable = NULL
         /\ ~At(t, "release")' /\ ~Naming(t)'
         /\ \A u \in Threads \ {t} : At(u, "release") => call[u].buffer # call[t].buffer
  <1>1. /\ Stays(t) /\ Idle(t)' /\ Removing(t) /\ ~Idle(t)
        /\ \A u \in Threads \ {t} : call'[u] = call[u]
        /\ \A u \in Threads \ {t} : Removing(u) => call[u].buffer # call[t].buffer
    BY ReleaseReturns
  <1>2. call[t].mutable = NULL
    BY NoHandle DEF At
  <1>3. call'[t].mutable = NULL
    BY <1>1, <1>2, AfterUpdate DEF Inv, Types
  <1>4. ~At(t, "release")' /\ ~Naming(t)'
    BY <1>1, NoCallIsIdle DEF At, Naming, Idle
  <1>5. \A u \in Threads : At(u, "release") => Removing(u)
    BY DEF At, Removing, ReleaseSteps
  <1> QED BY <1>1, <1>2, <1>3, <1>4, <1>5

LEMMA DispatchReleaseRouted ==
  ASSUME Inv, Routed, NEW t \in Threads, DispatchRelease(t)
  PROVE  Routed'
  <1>0. PICK b : b = call[t].buffer
    OBVIOUS
  <1>1. /\ refs' = [refs EXCEPT ![b] = @ - 1]
        /\ state' = [state EXCEPT ![b] = IF refs[b] = 1 THEN "free" ELSE @]
        /\ handles' = [handles EXCEPT ![b] = IF refs[b] = 1 THEN {} ELSE @]
        /\ UNCHANGED <<info, mutableInfo, mutableList, platformOf, lost, misnamed>>
        /\ At(t, "release") /\ After(t)
    BY <1>0 DEF DispatchRelease, layer, history
  <1>2. /\ \A u \in Threads \ {t} : call'[u] = call[u]
        /\ call[t].mutable = NULL /\ call'[t].mutable = NULL
        /\ ~At(t, "release")' /\ ~Naming(t)'
        /\ \A u \in Threads \ {t} : At(u, "release") => call[u].buffer # b
    BY <1>0, <1>1, ReturnsUpdate
  <1>3. b \in Buffers /\ t \in Using(b)
    BY <1>0, <1>1 DEF At, Using, Inv, Types, Locals
  <1>4. state[b] # "free"
    BY <1>3, FreeIsUnused DEF Inv, Types
  <1>5. refs[b] = 1 => \A u \in Threads \ {t} : call[u].buffer # b
    BY <1>0, <1>3, NobodyElse
  <1>6. /\ handles'[b] = IF refs[b] = 1 THEN {} ELSE handles[b]
        /\ state'[b] = IF refs[b] = 1 THEN "free" ELSE state[b]
        /\ \A c \in Buffers \ {b} : /\ handles'[c] = handles[c] /\ state'[c] = state[c]
                                    /\ refs'[c] = refs[c]
        /\ handles' \in [Buffers -> SUBSET Mutables]
    BY <1>1, <1>3 DEF Inv, Types, Routed, MutableTypes
  <1>7. refs[b] = 1 => mutableList[b] \subseteq misnamed
    BY <1>0, <1>1, <1>3 DEF Routed, LastReleaseIsUnknown, UnknownHaveNoList
  <1>8. \A u \in Threads : call[u].mutable # NULL => call[u].buffer \in Buffers
    BY AddingFacts DEF MutableTypes, Routed, Inv, Types, Locals, Idle
  <1>9. MutableTypes'
    BY <1>1, <1>2, <1>6 DEF MutableTypes, Routed
  <1>10. HandlesAreDistinct'
    <2>1. \A c, d \in Buffers : c # d => handles'[c] \cap handles'[d] = {}
      BY <1>6 DEF HandlesAreDistinct, Routed
    <2>2. \A c \in Buffers : state'[c] = "free" => handles'[c] = {}
      BY <1>4, <1>6 DEF HandlesAreDistinct, Routed
    <2> QED BY <2>1, <2>2 DEF HandlesAreDistinct
  <1>11. ListsHoldHandles'
    BY <1>1, <1>6, <1>7 DEF ListsHoldHandles, Routed
  <1>12. UnknownHaveNoList' /\ InfoIsPlatform'
    BY <1>1 DEF UnknownHaveNoList, InfoIsPlatform, Routed
  <1>13. AddedAreHandles'
    <2> SUFFICES ASSUME NEW u \in Threads, call'[u].mutable # NULL,
                        call'[u].mutable \notin misnamed
                 PROVE  /\ call'[u].mutable \in handles'[call'[u].buffer]
                        /\ info[call'[u].buffer] # NULL
      BY <1>1 DEF AddedAreHandles
    <2>1. u # t /\ call'[u] = call[u]
      BY <1>2
    <2>2. call[u].mutable \in handles[call[u].buffer] /\ info[call[u].buffer] # NULL
      BY <2>1 DEF AddedAreHandles, Routed
    <2>3. handles'[call[u].buffer] = handles[call[u].buffer]
      BY <1>5, <1>6, <1>8, <2>1
    <2> QED BY <2>1, <2>2, <2>3
  <1>14. LastReleaseIsUnknown'
    <2> SUFFICES ASSUME NEW u \in Threads, At(u, "release")', refs'[call'[u].buffer] = 1
                 PROVE  info[call'[u].buffer] = NULL
      BY <1>1 DEF LastReleaseIsUnknown
    <2>1. u # t
      BY <1>2
    <2>2. call'[u] = call[u] /\ At(u, "release") /\ call[u].buffer \in Buffers \ {b}
      BY <1>2, <2>1 DEF At, Idle, Inv, Types, Locals
    <2> QED BY <1>6, <2>2 DEF LastReleaseIsUnknown, Routed
  <1>15. NamingIsFirst'
    <2> SUFFICES ASSUME NEW u \in Threads, Naming(u)' PROVE refs'[call'[u].buffer] = 1
      BY DEF NamingIsFirst
    <2>1. u # t /\ call'[u] = call[u] /\ Naming(u)
      BY <1>2 DEF Naming
    <2>2. refs[call[u].buffer] = 1 /\ call[u].buffer \in Buffers
      BY <2>1, NoCallIsIdle DEF Routed, NamingIsFirst, Inv, Types, Locals, Idle, Naming
    <2>3. call[u].buffer # b
      BY <1>5, <2>1, <2>2
    <2> QED BY <1>6, <2>1, <2>2, <2>3
  <1>16. HandlesAreRouted'
    <2> SUFFICES ASSUME NEW c \in Buffers \ lost, NEW n \in handles'[c] \ misnamed,
                        mutableInfo[n] # platformOf[c]
                 PROVE  \E u \in Using(c)' :
                            call'[u].mutable = n \/ (At(u, "release")' /\ refs'[c] = 1)
      BY <1>1 DEF HandlesAreRouted
    <2>1. n \in handles[c] /\ (c = b => refs[b] # 1) /\ n \in Mutables
      BY <1>6 DEF Routed, MutableTypes
    <2>2. PICK u \in Using(c) : call[u].mutable = n \/ (At(u, "release") /\ refs[c] = 1)
      BY <2>1 DEF HandlesAreRouted, Routed
    <2>3. u # t
      <3>1. u = t => c = b
        BY <1>0, <2>2 DEF Using
      <3> QED BY <1>2, <2>1, <2>2, <3>1, BufferAssumption
    <2> QED BY <1>2, <1>6, <2>1, <2>2, <2>3 DEF Using, At, Idle
  <1> QED BY <1>9, <1>10, <1>11, <1>12, <1>13, <1>14, <1>15, <1>16 DEF Routed

LEMMA RefuseReleaseRouted ==
  ASSUME Inv, Routed, NEW t \in Threads, RefuseRelease(t)
  PROVE  Routed'
  <1>0. PICK b : b = call[t].buffer
    OBVIOUS
  <1>1. /\ lost' = lost \cup {b}
        /\ UNCHANGED <<info, mutableInfo, mutableList, state, refs, platformOf, handles, misnamed>>
        /\ At(t, "release") /\ After(t)
    BY <1>0 DEF RefuseRelease, layer, driver
  <1>2. /\ \A u \in Threads \ {t} : call'[u] = call[u]
        /\ call[t].mutable = NULL /\ call'[t].mutable = NULL
        /\ ~At(t, "release")' /\ ~Naming(t)'
    BY <1>1, ReturnsUpdate
  <1>3. MutableTypes'
    BY <1>1, <1>2 DEF MutableTypes, Routed
  <1>4. HandlesAreDistinct' /\ ListsHoldHandles' /\ UnknownHaveNoList' /\ InfoIsPlatform'
    BY <1>1 DEF HandlesAreDistinct, ListsHoldHandles, UnknownHaveNoList, InfoIsPlatform, Routed
  <1>5. AddedAreHandles'
    BY <1>1, <1>2 DEF AddedAreHandles, Routed
  <1>6. LastReleaseIsUnknown' /\ NamingIsFirst'
    BY <1>1, <1>2 DEF LastReleaseIsUnknown, NamingIsFirst, At, Idle, Naming, Routed
  <1>7. HandlesAreRouted'
    <2> SUFFICES ASSUME NEW c \in Buffers \ lost, c # b, NEW n \in handles[c] \ misnamed,
                        mutableInfo[n] # platformOf[c]
                 PROVE  \E u \in Using(c)' :
                            call'[u].mutable = n \/ (At(u, "release")' /\ refs[c] = 1)
      BY <1>1 DEF HandlesAreRouted
    <2>1. PICK u \in Using(c) : call[u].mutable = n \/ (At(u, "release") /\ refs[c] = 1)
      BY DEF HandlesAreRouted, Routed
    <2>2. u # t
      BY <1>0, <2>1 DEF Using
    <2> QED BY <1>2, <2>1, <2>2 DEF Using, At, Idle
  <1> QED BY <1>3, <1>4, <1>5, <1>6, <1>7 DEF Routed

\* A new buffer with the mutable commands ms, none of which is in the map.
LEMMA CreatesRouted ==
  ASSUME Inv, Routed, NEW t \in Threads, Idle(t), NEW b \in Buffers,
         NEW newState, newState # "free", NEW ordered, NEW steps, Names(Tail(steps)),
         NEW ms \in SUBSET Mutables, \A d \in Buffers : ms \cap handles[d] = {},
         misnamed \subseteq misnamed', ms \subseteq misnamed',
         Creates(t, b, newState, ordered, ms, steps)
  PROVE  Routed'
  <1> DEFINE c == [NoCall EXCEPT !.buffer = b]
  <1>1. DOMAIN c = DOMAIN NoCall /\ c.buffer = b /\ c.mutable = NULL
    BY DEF NoCall
  <1>2. /\ Continues(t, c, Tail(steps)) /\ state[b] = "free"
        /\ state' = [state EXCEPT ![b] = newState] /\ refs' = [refs EXCEPT ![b] = 1]
        /\ handles' = [handles EXCEPT ![b] = ms]
        /\ UNCHANGED <<info, mutableInfo, mutableList, lost, platformOf>>
    BY DEF Creates, layer
  <1> HIDE DEF c
  <1>3. Tail(steps) \in Programs /\ Tail(steps) # <<>>
        /\ Head(Tail(steps)) \in {"recordCreate", "addInfo"}
    BY NamesFacts
  <1>4. Enters(t, b) /\ call'[t].todo = Tail(steps) /\ call'[t].mutable = NULL
    <2> DEFINE s == Tail(steps)
    <2>1. s \in Programs /\ s # <<>> /\ Continues(t, c, s)
      BY <1>2, <1>3
    <2> HIDE DEF s
    <2>2. Enters(t, b) /\ call'[t].todo = s /\ call'[t].mutable = c.mutable
      BY <1>1, <2>1, BeginsUpdate DEF Inv
    <2> QED BY <1>1, <2>2 DEF s
  <1>5. /\ \A u \in Threads \ {t} : call'[u] = call[u]
        /\ call'[t].buffer = b /\ ~At(t, "release")' /\ ~At(t, "release")
    BY <1>3, <1>4 DEF Enters, Others, At
  <1>6. call[t].mutable = NULL
    BY NoHandle
  <1>7. \A u \in Threads : call[u].buffer # b
    <2>1. Using(b) = {}
      BY <1>2, FreeIsUnused DEF Inv, Types
    <2> QED BY <2>1 DEF Using
  <1>8. /\ state'[b] # "free" /\ refs'[b] = 1 /\ handles'[b] = ms
        /\ \A d \in Buffers \ {b} : /\ state'[d] = state[d] /\ refs'[d] = refs[d]
                                    /\ handles'[d] = handles[d]
        /\ handles' \in [Buffers -> SUBSET Mutables]
    BY <1>2 DEF Inv, Types, Routed, MutableTypes
  <1>9. handles[b] = {}
    BY <1>2 DEF Routed, HandlesAreDistinct
  <1>10. MutableTypes'
    BY <1>2, <1>4, <1>5, <1>8 DEF MutableTypes, Routed
  <1>11. HandlesAreDistinct'
    <2>1. \A d, e \in Buffers : d # e => handles'[d] \cap handles'[e] = {}
      BY <1>8 DEF HandlesAreDistinct, Routed
    <2>2. \A d \in Buffers : state'[d] = "free" => handles'[d] = {}
      BY <1>8 DEF HandlesAreDistinct, Routed
    <2> QED BY <2>1, <2>2 DEF HandlesAreDistinct
  <1>12. ListsHoldHandles' /\ UnknownHaveNoList' /\ InfoIsPlatform'
    BY <1>2, <1>8, <1>9 DEF ListsHoldHandles, UnknownHaveNoList, InfoIsPlatform, Routed
  <1>13. AddedAreHandles'
    <2> SUFFICES ASSUME NEW u \in Threads, call'[u].mutable # NULL,
                        call'[u].mutable \notin misnamed'
                 PROVE  /\ call'[u].mutable \in handles'[call'[u].buffer]
                        /\ info[call'[u].buffer] # NULL
      BY <1>2 DEF AddedAreHandles
    <2>1. u # t /\ call'[u] = call[u]
      BY <1>4, <1>5
    <2>2. call[u].mutable \in handles[call[u].buffer] /\ info[call[u].buffer] # NULL
      BY <2>1 DEF AddedAreHandles, Routed
    <2>3. call[u].buffer \in Buffers \ {b}
      BY <1>7, <2>1, AddingFacts DEF MutableTypes, Routed, Inv, Types, Locals, Idle
    <2> QED BY <1>8, <2>1, <2>2, <2>3
  <1>14. LastReleaseIsUnknown'
    <2> SUFFICES ASSUME NEW u \in Threads, At(u, "release")', refs'[call'[u].buffer] = 1
                 PROVE  info[call'[u].buffer] = NULL
      BY <1>2 DEF LastReleaseIsUnknown
    <2>1. u # t
      BY <1>5
    <2>2. call'[u] = call[u] /\ At(u, "release") /\ call[u].buffer \in Buffers \ {b}
      BY <1>5, <1>7, <2>1 DEF At, Idle, Inv, Types, Locals
    <2> QED BY <1>8, <2>2 DEF LastReleaseIsUnknown, Routed
  <1>15. NamingIsFirst'
    <2> SUFFICES ASSUME NEW u \in Threads, u # t, Naming(u)' PROVE refs'[call'[u].buffer] = 1
      BY <1>5, <1>8 DEF NamingIsFirst
    <2>1. call'[u] = call[u] /\ Naming(u)
      BY <1>5 DEF Naming
    <2>2. refs[call[u].buffer] = 1 /\ call[u].buffer \in Buffers \ {b}
      BY <1>7, <2>1, NoCallIsIdle DEF Routed, NamingIsFirst, Inv, Types, Locals, Idle, Naming
    <2> QED BY <1>8, <2>1, <2>2
  <1>16. HandlesAreRouted'
    <2> SUFFICES ASSUME NEW d \in Buffers \ lost, NEW n \in handles'[d] \ misnamed',
                        mutableInfo[n] # platformOf[d]
                 PROVE  \E u \in Using(d)' :
                            call'[u].mutable = n \/ (At(u, "release")' /\ refs'[d] = 1)
      BY <1>2 DEF HandlesAreRouted
    <2>1. d # b /\ n \in handles[d] \ misnamed /\ n \in Mutables
      BY <1>8 DEF Routed, MutableTypes
    <2>2. PICK u \in Using(d) : call[u].mutable = n \/ (At(u, "release") /\ refs[d] = 1)
      BY <2>1 DEF HandlesAreRouted, Routed
    <2>3. u # t
      BY <1>5, <1>6, <2>1, <2>2, BufferAssumption
    <2> QED BY <1>5, <1>8, <2>1, <2>2, <2>3 DEF Using, At, Idle
  <1> QED BY <1>10, <1>11, <1>12, <1>13, <1>14, <1>15, <1>16 DEF Routed

LEMMA DispatchCreateRouted ==
  ASSUME Inv, Routed, NEW t \in Threads, NEW b \in Buffers, DispatchCreate(t, b)
  PROVE  Routed'
  <1>1. Names(Tail(clCreateCommandBufferKHR))
    BY DEF Names, clCreateCommandBufferKHR
  <1>2. {} \in SUBSET Mutables /\ misnamed' = misnamed /\ Idle(t)
    BY DEF DispatchCreate
  <1>3. PICK ordered \in BOOLEAN :
            Creates(t, b, "recording", ordered, {}, clCreateCommandBufferKHR)
    BY DEF DispatchCreate
  <1> QED BY <1>1, <1>2, <1>3, CreatesRouted

LEMMA DispatchRemapRouted ==
  ASSUME Inv, Routed, NEW t \in Threads, NEW b \in Buffers, NEW old \in Buffers,
         DispatchRemap(t, old, b)
  PROVE  Routed'
  <1>1. Names(Tail(clRemapCommandBufferKHR))
    BY DEF Names, clRemapCommandBufferKHR
  <1>2. PICK ms \in SUBSET (Mutables \ UsedMutables) :
            /\ misnamed' = misnamed \cup ms
            /\ Creates(t, b, "executable", FALSE, ms, clRemapCommandBufferKHR)
    BY DEF DispatchRemap
  <1>3. ms \in SUBSET Mutables /\ \A d \in Buffers : ms \cap handles[d] = {}
    BY DEF UsedMutables, Routed, HandlesAreDistinct
  <1>4. Idle(t) /\ misnamed \subseteq misnamed' /\ ms \subseteq misnamed'
    BY <1>2 DEF DispatchRemap
  <1> QED BY <1>1, <1>2, <1>3, <1>4, CreatesRouted

LEMMA RetainRouted ==
  ASSUME Inv, Routed, NEW t \in Threads, NEW b \in Buffers, Retain(t, b)
  PROVE  Routed'
  <1>1. /\ state[b] # "free" /\ Spare(b) /\ refs' = [refs EXCEPT ![b] = @ + 1]
        /\ UNCHANGED <<call, info, mutableInfo, mutableList, state, lost, platformOf, handles,
                       misnamed>>
    BY DEF Retain, layer
  <1>2. /\ refs[b] \in Nat \ {0} /\ refs'[b] = refs[b] + 1
        /\ \A c \in Buffers \ {b} : refs'[c] = refs[c]
    BY <1>1 DEF Inv, Types
  <1>3. refs[b] = 1 => Using(b) = {}
    <2> SUFFICES ASSUME refs[b] = 1, NEW u \in Using(b) PROVE FALSE
      OBVIOUS
    <2>1. Using(b) = {u}
      BY LastReferenceHasOneUser
    <2>2. Cardinality(Using(b)) = 1
      BY <2>1, FS_Singleton
    <2> QED BY <1>1, <2>2 DEF Spare
  <1>4. MutableTypes' /\ HandlesAreDistinct' /\ ListsHoldHandles' /\ AddedAreHandles'
        /\ UnknownHaveNoList' /\ InfoIsPlatform'
    BY <1>1 DEF Routed, MutableTypes, HandlesAreDistinct, ListsHoldHandles, AddedAreHandles,
                UnknownHaveNoList, InfoIsPlatform
  <1>5. LastReleaseIsUnknown'
    <2> SUFFICES ASSUME NEW u \in Threads, At(u, "release"), refs'[call[u].buffer] = 1
                 PROVE  info[call[u].buffer] = NULL
      BY <1>1 DEF LastReleaseIsUnknown, At, Idle
    <2>1. call[u].buffer \in Buffers \ {b}
      BY <1>2 DEF At, Inv, Types, Locals
    <2> QED BY <1>2, <2>1 DEF LastReleaseIsUnknown, Routed
  <1>6. NamingIsFirst'
    <2> SUFFICES ASSUME NEW u \in Threads, Naming(u) PROVE refs'[call[u].buffer] = 1
      BY <1>1 DEF NamingIsFirst, Naming
    <2>1. refs[call[u].buffer] = 1 /\ call[u].buffer \in Buffers
      BY NoCallIsIdle DEF Routed, NamingIsFirst, Inv, Types, Locals, Idle, Naming
    <2>2. call[u].buffer # b
      BY <1>3, <2>1 DEF Using
    <2> QED BY <1>2, <2>1, <2>2
  <1>7. HandlesAreRouted'
    <2> SUFFICES ASSUME NEW c \in Buffers \ lost, NEW n \in handles[c] \ misnamed,
                        mutableInfo[n] # platformOf[c]
                 PROVE  \E u \in Using(c) :
                            call[u].mutable = n \/ (At(u, "release") /\ refs'[c] = 1)
      BY <1>1 DEF HandlesAreRouted, Using, At, Idle
    <2>1. PICK u \in Using(c) : call[u].mutable = n \/ (At(u, "release") /\ refs[c] = 1)
      BY DEF HandlesAreRouted, Routed
    <2>2. c = b => refs[b] # 1
      BY <1>3, <2>1
    <2> QED BY <1>2, <2>1, <2>2
  <1> QED BY <1>4, <1>5, <1>6, <1>7 DEF Routed

LEMMA NextRouted ==
  ASSUME Inv, Routed, [Next]_vars
  PROVE  Routed'
  <1>1. CASE UNCHANGED vars
    <2>1. UNCHANGED <<call, info, mutableInfo, mutableList, state, refs, platformOf, handles,
                      lost, misnamed>>
      BY <1>1 DEF vars, layer, driver, history
    <2> QED BY <2>1 DEF Routed, MutableTypes, HandlesAreDistinct, ListsHoldHandles,
               AddedAreHandles, UnknownHaveNoList, InfoIsPlatform, LastReleaseIsUnknown,
               NamingIsFirst, HandlesAreRouted, Using, At, Idle, Naming
  <1>2. CASE Next
    <2>1. PICK t \in Threads : Step(t)
      BY <1>2 DEF Next
    <2> QED BY <2>1, RecordCreateRouted, AddCommandBufferInfoRouted, DispatchCommandRouted,
               RefuseCommandRouted, RecordCommandRouted, AddMutableCommandInfoRouted,
               DispatchFinalizeRouted, RecordFinalizeRouted, DumpRouted, RemoveRouted,
               DispatchReleaseRouted, RefuseReleaseRouted, DispatchCreateRouted,
               DispatchRemapRouted, BeginCommandRouted, BeginFinalizeRouted, RetainRouted,
               BeginReleaseRouted
            DEF Step
  <1> QED BY <1>1, <1>2

LEMMA RoutedFinds == Routed => MutablesAreRouted
  <1> SUFFICES ASSUME Routed, NEW b \in Buffers \ lost, NEW m \in handles[b] \ misnamed,
                      \A t \in Using(b) :
                         call[t].mutable # m /\ ~At(t, "remove") /\ ~At(t, "release")
               PROVE  mutableInfo[m] = platformOf[b]
    BY DEF MutablesAreRouted
  <1> QED BY DEF Routed, HandlesAreRouted

\* addMutableCommandInfo and checkRemoveCommandBufferInfo: between the calls of
\* the application the layer finds the platform of every mutable command, whatever
\* became of other buffers and commands with the same handles, as long as no two
\* threads release their references to a buffer at once.
THEOREM MutablesAlwaysRouted ==
  ASSUME Overlapping = FALSE
  PROVE  Spec => []MutablesAreRouted
  <1> DEFINE I == Inv /\ Routed
  <1>1. Init => I
    BY InitInv, InitRouted
  <1>2. I /\ [Next]_vars => I'
    BY NextInv, NextRouted
  <1>3. I => MutablesAreRouted
    BY RoutedFinds
  <1> QED BY <1>1, <1>2, <1>3, PTL DEF Spec
-----------------------------------------------------------------------------
(* Drawings.  A command's node has edges from the commands that the recorder *)
(* names directly, and the paths along them are what the driver obeys.       *)

\* A set of finite sets has a smallest one, a set of numbers a least one.
LEMMA SmallestSet ==
  ASSUME NEW F, F # {}, \A X \in F : IsFiniteSet(X)
  PROVE  \E X \in F : \A Y \in F : Y \subseteq X => Y = X
  <1> DEFINE R == StrictSubsetOrdering(UNION F)
             D == FiniteSubsetsOf(UNION F)
  <1>1. IsWellFoundedOn(R, D)
    BY FS_StrictSubsetOrderingWellFounded
  <1>2. F \subseteq D
    BY DEF FiniteSubsetsOf
  <1>3. \A X, Y \in F : Y \subseteq X /\ Y # X => <<Y, X>> \in R
    BY <1>2 DEF StrictSubsetOrdering, FiniteSubsetsOf
  <1> HIDE DEF R, D
  <1>4. \E X \in F : \A Y \in F : ~(<<Y, X>> \in R)
    BY <1>1, <1>2, WFMin
  <1> QED BY <1>3, <1>4

LEMMA LeastNumber ==
  ASSUME NEW T \in SUBSET Nat, T # {}
  PROVE  \E x \in T : \A y \in T : x <= y
  <1> DEFINE F == {1 .. n : n \in T}
  <1>1. ASSUME NEW n \in T PROVE IsFiniteSet(1 .. n)
    <2>1. n \in Int /\ 1 \in Int
      OBVIOUS
    <2> QED BY <2>1, FS_Interval
  <1>2. F # {} /\ \A X \in F : IsFiniteSet(X)
    BY <1>1
  <1> HIDE DEF F
  <1>3. PICK X \in F : \A Y \in F : Y \subseteq X => Y = X
    BY <1>2, SmallestSet
  <1>4. PICK x \in T : X = 1 .. x
    BY <1>3 DEF F
  <1>5. ASSUME NEW y \in T, y < x PROVE FALSE
    <2>1. 1 .. y \in F /\ 1 .. y \subseteq X
      BY <1>4, <1>5 DEF F
    <2>2. x \in X /\ x \notin 1 .. y
      BY <1>4, <1>5
    <2> QED BY <1>3, <2>1, <2>2
  <1> QED BY <1>5

LEMMA GreatestNumber ==
  ASSUME NEW S \in SUBSET Nat, S # {}, NEW n \in Nat, \A s \in S : s <= n
  PROVE  \E x \in S : \A y \in S : y <= x
  <1> DEFINE T == {n - s : s \in S}
  <1>1. T # {} /\ T \in SUBSET Nat
    <2>1. ASSUME NEW s \in S PROVE n - s \in Nat
      <3>1. s \in Nat /\ s <= n
        OBVIOUS
      <3> QED BY <3>1
    <2> QED BY <2>1
  <1>2. PICK x \in T : \A y \in T : x <= y
    BY <1>1, LeastNumber
  <1>3. PICK s \in S : x = n - s
    BY <1>2
  <1>4. ASSUME NEW y \in S PROVE y <= s
    <2>1. n - y \in T
      OBVIOUS
    <2>2. n - s <= n - y /\ s \in Nat /\ y \in Nat
      BY <1>2, <1>3, <2>1
    <2> QED BY <2>2
  <1> QED BY <1>4

\* Two drawings of n commands have the same paths when one has edges of the
\* other only, and what it leaves out lies on a path through one of its own.
Reduces(E, R, n) ==
    /\ \A i \in 1 .. n : E[i] \subseteq R[i] /\ R[i] \subseteq 1 .. i - 1
    /\ \A i \in 1 .. n : \A j \in R[i] \ E[i] :
          \E k \in E[i] : \E f \in 1 .. i - 1 : j \in R[f] /\ (f = k \/ f \in R[k])

LEMMA ReducedPaths ==
  ASSUME NEW n \in Nat, NEW E, NEW R, Reduces(E, R, n), NEW B,
         \A i \in 1 .. n : B[i] = E[i] \cup UNION {B[j] : j \in E[i]}
  PROVE  \A i \in 1 .. n : \A j \in R[i] : j \in B[i] /\ B[j] \subseteq B[i]
  <1> DEFINE Good(i) == \A j \in R[i] : j \in B[i] /\ B[j] \subseteq B[i]
             Bad == {i \in 1 .. n : ~Good(i)}
  <1> SUFFICES ASSUME Bad # {} PROVE FALSE
    OBVIOUS
  <1>1. PICK i \in Bad : \A k \in Bad : i <= k
    <2>1. Bad \in SUBSET Nat
      OBVIOUS
    <2> QED BY <2>1, LeastNumber
  <1>2. i \in 1 .. n /\ ~Good(i)
    BY <1>1
  <1>3. PICK j \in R[i] : ~(j \in B[i] /\ B[j] \subseteq B[i])
    BY <1>2
  <1>4. \A k \in E[i] : k \in B[i] /\ B[k] \subseteq B[i]
    BY <1>2
  <1>5. j \in R[i] \ E[i]
    BY <1>3, <1>4
  <1>6. PICK k \in E[i], f \in 1 .. i - 1 : j \in R[f] /\ (f = k \/ f \in R[k])
    BY <1>2, <1>5 DEF Reduces
  <1>7. k \in 1 .. i - 1
    BY <1>2, <1>6 DEF Reduces
  <1>8. Good(k) /\ Good(f)
    BY <1>1, <1>2, <1>6, <1>7
  <1>9. j \in B[f] /\ B[j] \subseteq B[f]
    BY <1>6, <1>8
  <1>10. B[f] \subseteq B[k]
    BY <1>6, <1>8
  <1> QED BY <1>3, <1>4, <1>6, <1>9, <1>10

LEMMA SamePaths ==
  ASSUME NEW n \in Nat, NEW E, NEW R, Reduces(E, R, n)
  PROVE  Before(E, n) = Before(R, n)
  <1> DEFINE Along(D, B) == [i \in 1 .. n |-> D[i] \cup UNION {B[j] : j \in D[i]}]
  <1>1. ASSUME NEW B, B = Along(E, B) PROVE B = Along(R, B)
    <2>1. \A i \in 1 .. n : B[i] = E[i] \cup UNION {B[j] : j \in E[i]}
      BY <1>1
    <2>2. \A i \in 1 .. n : \A j \in R[i] : j \in B[i] /\ B[j] \subseteq B[i]
      BY <2>1, ReducedPaths
    <2>3. ASSUME NEW i \in 1 .. n PROVE B[i] = R[i] \cup UNION {B[j] : j \in R[i]}
      <3>1. E[i] \subseteq R[i]
        BY DEF Reduces
      <3> QED BY <2>1, <2>2, <3>1
    <2>4. DOMAIN B = 1 .. n /\ B = [i \in 1 .. n |-> B[i]]
      BY <1>1
    <2> QED BY <2>3, <2>4
  <1>2. ASSUME NEW B, B = Along(R, B) PROVE B = Along(E, B)
    <2>1. \A i \in 1 .. n : B[i] = R[i] \cup UNION {B[j] : j \in R[i]}
      BY <1>2
    <2>2. ASSUME NEW i \in 1 .. n, NEW j \in R[i] \ E[i]
          PROVE  \E k \in E[i] : j \in B[k] /\ B[j] \subseteq B[k]
      <3>1. PICK k \in E[i], f \in 1 .. i - 1 : j \in R[f] /\ (f = k \/ f \in R[k])
        BY DEF Reduces
      <3>2. k \in 1 .. n /\ f \in 1 .. n
        BY <3>1 DEF Reduces
      <3>3. j \in B[f] /\ B[j] \subseteq B[f]
        BY <2>1, <3>1, <3>2
      <3>4. B[f] \subseteq B[k]
        BY <2>1, <3>1, <3>2
      <3> QED BY <3>1, <3>3, <3>4
    <2>3. ASSUME NEW i \in 1 .. n PROVE B[i] = E[i] \cup UNION {B[j] : j \in E[i]}
      <3>1. E[i] \subseteq R[i]
        BY DEF Reduces
      <3> QED BY <2>1, <2>2, <3>1
    <2>4. DOMAIN B = 1 .. n /\ B = [i \in 1 .. n |-> B[i]]
      BY <1>2
    <2> QED BY <2>3, <2>4
  <1>3. \A B : B = Along(E, B) <=> B = Along(R, B)
    BY <1>1, <1>2
  <1>4. (CHOOSE B : B = Along(E, B)) = (CHOOSE B : B = Along(R, B))
    BY <1>3
  <1> QED BY <1>4 DEF Before
-----------------------------------------------------------------------------
(* What the recorder draws an edge from, as commands.                        *)

AwaitsAll(x) == x.barrier /\ x.waits = {}

\* All commands that come later wait for x.
Stops(x, ordered) == ordered \/ x.barrier

\* The command before i, in a queue that executes in order, or the last barrier.
Last(c, ordered, i) ==
    {j \in 1 .. i - 1 : /\ Stops(c[j], ordered)
                        /\ \A k \in j + 1 .. i - 1 : ~Stops(c[k], ordered)}

\* The commands that a barrier without a wait list is the first to wait for.
Outstanding(c, ordered, i) ==
    {j \in 1 .. i - 1 : /\ ~Stops(c[j], ordered)
                        /\ \A k \in j + 1 .. i - 1 : ~AwaitsAll(c[k])}

Awaited(c, i) == {j \in 1 .. i - 1 : c[j].point \in c[i].waits}

Direct(c, ordered, i) ==
    Last(c, ordered, i) \cup
        IF AwaitsAll(c[i]) THEN Outstanding(c, ordered, i) ELSE Awaited(c, i)

LEMMA DirectReduces ==
  ASSUME NEW c \in Seq(Commands), NEW ordered
  PROVE  Reduces([i \in 1 .. Len(c) |-> Direct(c, ordered, i)], Required(c, ordered), Len(c))
  <1> DEFINE n == Len(c)
             E == [i \in 1 .. n |-> Direct(c, ordered, i)]
             R == Required(c, ordered)
  <1>0. n \in Nat
    OBVIOUS
  <1>1. \A i \in 1 .. n : E[i] = Direct(c, ordered, i)
    OBVIOUS
  <1>2. \A i \in 1 .. n : R[i] = {j \in 1 .. i - 1 : \/ Stops(c[j], ordered)
                                                      \/ c[j].point \in c[i].waits
                                                      \/ AwaitsAll(c[i])}
    BY DEF Required, AwaitsAll, Stops
  <1> HIDE DEF E, R
  <1>3. ASSUME NEW i \in 1 .. n PROVE E[i] \subseteq R[i] /\ R[i] \subseteq 1 .. i - 1
    BY <1>1, <1>2 DEF Direct, Last, Outstanding, Awaited, Stops
  <1>4. ASSUME NEW i \in 1 .. n, NEW j \in R[i] \ E[i]
        PROVE  \E k \in E[i] : \E f \in 1 .. i - 1 : j \in R[f] /\ (f = k \/ f \in R[k])
    <2>1. j \in 1 .. i - 1 /\ j \notin Direct(c, ordered, i)
      BY <1>1, <1>2, <1>4
    \* A command that all later ones wait for.
    <2>2. ASSUME NEW f \in j + 1 .. i - 1, j \in R[f], Stops(c[f], ordered)
          PROVE  \E k \in E[i] : \E g \in 1 .. i - 1 : j \in R[g] /\ (g = k \/ g \in R[k])
      <3> DEFINE S == {k \in 1 .. i - 1 : Stops(c[k], ordered)}
      <3>0. i \in Nat /\ f \in 1 .. i - 1
        BY <2>1, <2>2
      <3>1. f \in S /\ S \in SUBSET Nat /\ \A s \in S : s <= i
        <4>1. \A k \in 1 .. i - 1 : k \in Nat /\ k <= i
          BY <3>0
        <4>2. f \in S
          BY <2>2, <3>0
        <4> QED BY <4>1, <4>2
      <3> HIDE DEF S
      <3>2. PICK k \in S : \A s \in S : s <= k
        <4>1. S # {}
          BY <3>1
        <4> QED BY <3>0, <3>1, <4>1, GreatestNumber
      <3>3. k \in Last(c, ordered, i)
        BY <3>2 DEF Last, S
      <3>4. k \in E[i] /\ k \in 1 .. n /\ f \in 1 .. i - 1 /\ f <= k
        BY <1>1, <2>1, <2>2, <3>1, <3>2, <3>3 DEF Direct, S
      <3>5. f = k \/ f \in R[k]
        <4>1. f = k \/ f \in 1 .. k - 1
          BY <3>4
        <4> QED BY <1>2, <2>2, <3>4, <4>1
      <3> QED BY <2>2, <3>4, <3>5
    <2>3. CASE Stops(c[j], ordered)
      <3>1. j \notin Last(c, ordered, i)
        BY <2>1 DEF Direct
      <3>2. PICK f \in j + 1 .. i - 1 : Stops(c[f], ordered)
        BY <2>1, <2>3, <3>1 DEF Last
      <3>3. f \in 1 .. n /\ j \in 1 .. f - 1
        BY <2>1, <3>2
      <3>4. j \in R[f]
        BY <1>2, <2>3, <3>3
      <3> QED BY <2>2, <3>2, <3>4
    <2>4. CASE ~Stops(c[j], ordered) /\ AwaitsAll(c[i])
      <3>1. j \notin Outstanding(c, ordered, i)
        BY <2>1, <2>4 DEF Direct
      <3>2. PICK f \in j + 1 .. i - 1 : AwaitsAll(c[f])
        BY <2>1, <2>4, <3>1 DEF Outstanding
      <3>3. f \in 1 .. n /\ j \in 1 .. f - 1 /\ Stops(c[f], ordered)
        BY <2>1, <3>2 DEF AwaitsAll, Stops
      <3>4. j \in R[f]
        BY <1>2, <3>2, <3>3
      <3> QED BY <2>2, <3>2, <3>3, <3>4
    <2>5. CASE ~Stops(c[j], ordered) /\ ~AwaitsAll(c[i])
      <3>1. c[j].point \in c[i].waits
        BY <1>2, <1>4, <2>5
      <3> QED BY <2>1, <2>5, <3>1 DEF Direct, Awaited
    <2> QED BY <2>3, <2>4, <2>5
  <1>5. Reduces(E, R, n)
    BY <1>3, <1>4 DEF Reduces
  <1> QED BY <1>5 DEF E, R

-----------------------------------------------------------------------------
(* Names.                                                                    *)

\* A command's sync point is its place among the commands of its buffer; it
\* waits for sync points of commands before it.
Fits(c, x, i) == /\ x.point \in {0, i}
                 /\ \A p \in x.waits : p # 0 /\ \E j \in 1 .. i - 1 : c[j].point = p

AllFit(c) == \A i \in 1 .. Len(c) : Fits(c, c[i], i)

Internals(c, i) == {j \in 1 .. i - 1 : IsInternal(c[j])}

LEMMA InternalsAreFinite ==
  ASSUME NEW c, NEW i \in Nat
  PROVE  IsFiniteSet(Internals(c, i)) /\ Cardinality(Internals(c, i)) \in Nat
  <1>1. i - 1 \in Int /\ 1 \in Int
    OBVIOUS
  <1>2. IsFiniteSet(1 .. i - 1)
    BY <1>1, FS_Interval
  <1> QED BY <1>2, FS_Subset, FS_CardinalityType DEF Internals

LEMMA NamesDiffer ==
  ASSUME NEW c \in Seq(Commands), AllFit(c),
         NEW i \in 1 .. Len(c), NEW j \in 1 .. Len(c), NameOf(c, i) = NameOf(c, j)
  PROVE  i = j
  <1>1. ASSUME NEW k \in 1 .. Len(c), NEW l \in 1 .. Len(c), k < l,
               NameOf(c, k) = NameOf(c, l)
        PROVE  FALSE
    <2>1. CASE IsInternal(c[k]) /\ IsInternal(c[l])
      <3>1. Cardinality(Internals(c, k)) = Cardinality(Internals(c, l))
        BY <1>1, <2>1 DEF NameOf, Internals
      <3>2. Internals(c, k) \subseteq Internals(c, l)
        BY <1>1 DEF Internals
      <3>3. k \in Internals(c, l) /\ k \notin Internals(c, k)
        BY <1>1, <2>1 DEF Internals
      <3> QED BY <3>1, <3>2, <3>3, InternalsAreFinite, FS_Subset
    <2>2. CASE ~IsInternal(c[k]) /\ ~IsInternal(c[l])
      <3>1. c[k].point = k /\ c[l].point = l
        BY <2>2 DEF AllFit, Fits, IsInternal
      <3> QED BY <1>1, <2>2, <3>1 DEF NameOf
    <2>3. CASE IsInternal(c[k]) <=> ~IsInternal(c[l])
      BY <1>1, <2>3 DEF NameOf
    <2> QED BY <2>1, <2>2, <2>3
  <1>2. i < j \/ j < i \/ i = j
    OBVIOUS
  <1> QED BY <1>1, <1>2

\* Edges depend on nothing that comes later.
LEMMA PrefixSame ==
  ASSUME NEW c, NEW d, NEW ordered, NEW i \in Nat \ {0}, \A k \in 1 .. i - 1 : c[k] = d[k]
  PROVE  /\ Last(c, ordered, i) = Last(d, ordered, i)
         /\ Outstanding(c, ordered, i) = Outstanding(d, ordered, i)
         /\ Internals(c, i) = Internals(d, i)
         /\ c[i] = d[i] => /\ NameOf(c, i) = NameOf(d, i)
                           /\ Direct(c, ordered, i) = Direct(d, ordered, i)
  <1>1. Internals(c, i) = Internals(d, i)
    BY DEF Internals
  <1>2. Last(c, ordered, i) = Last(d, ordered, i)
    BY DEF Last
  <1>3. Outstanding(c, ordered, i) = Outstanding(d, ordered, i)
    BY DEF Outstanding
  <1>4. ASSUME c[i] = d[i]
        PROVE  NameOf(c, i) = NameOf(d, i) /\ Direct(c, ordered, i) = Direct(d, ordered, i)
    <2>1. NameOf(c, i) = NameOf(d, i)
      BY <1>1, <1>4 DEF NameOf, Internals
    <2>2. Awaited(c, i) = Awaited(d, i)
      BY <1>4 DEF Awaited
    <2> QED BY <1>2, <1>3, <1>4, <2>1, <2>2 DEF Direct
  <1> QED BY <1>1, <1>2, <1>3, <1>4

-----------------------------------------------------------------------------
(* The record that draws commands.                                           *)

Named(c, S) == {NameOf(c, j) : j \in S}

Node(c, ordered, i) ==
    [line |-> "node", id |-> NameOf(c, i), from |-> Named(c, Direct(c, ordered, i))]

Drawing(c, ordered) ==
    [k \in 1 .. Len(c) + 1 |-> IF k = 1 THEN [line |-> "digraph"] ELSE Node(c, ordered, k - 1)]

IsDrawn(r, c, ordered) ==
    /\ DOMAIN r = DOMAIN NoRecord
    /\ r.queueIsInOrder = ordered
    /\ r.dot = Drawing(c, ordered)
    /\ r.nextInternalId = Cardinality(Internals(c, Len(c) + 1))
    /\ r.implicitDeps = Named(c, Last(c, ordered, Len(c) + 1))
    /\ r.outstandingIds = Named(c, Outstanding(c, ordered, Len(c) + 1))

LEMMA CreatedIsDrawn ==
  ASSUME NEW ordered
  PROVE  IsDrawn(recordCreate(NoRecord, ordered), <<>>, ordered)
  <1> DEFINE c == <<>>
             r == recordCreate(NoRecord, ordered)
  <1>1. Len(c) + 1 = 1
    OBVIOUS
  <1>2. Internals(c, 1) = {} /\ Last(c, ordered, 1) = {} /\ Outstanding(c, ordered, 1) = {}
    BY DEF Internals, Last, Outstanding
  <1>3. Drawing(c, ordered) = <<[line |-> "digraph"]>>
    <2>1. \A k \in 1 .. 1 : k = 1
      OBVIOUS
    <2> QED BY <1>1, <2>1 DEF Drawing
  <1>4. /\ DOMAIN r = DOMAIN NoRecord /\ r.queueIsInOrder = ordered
        /\ r.dot = <<[line |-> "digraph"]>> /\ r.nextInternalId = 0
        /\ r.implicitDeps = {} /\ r.outstandingIds = {}
    BY DEF recordCreate, NoRecord
  <1>5. Cardinality(Internals(c, 1)) = 0
    BY <1>2, FS_EmptySet
  <1> HIDE DEF c, r
  <1>6. IsDrawn(r, c, ordered)
    BY <1>1, <1>2, <1>3, <1>4, <1>5 DEF IsDrawn, Named
  <1> QED BY <1>6 DEF c, r

LEMMA DrawingNodes ==
  ASSUME NEW c \in Seq(Commands), NEW ordered, NEW i \in 1 .. Len(c)
  PROVE  Drawing(c, ordered)[i + 1] = Node(c, ordered, i)
  <1>1. i + 1 \in 1 .. Len(c) + 1 /\ i + 1 # 1 /\ i + 1 - 1 = i
    OBVIOUS
  <1> QED BY <1>1 DEF Drawing

\* One more command: d is c and its n-th command.
Lengthens(c, d, n) ==
    /\ c \in Seq(Commands) /\ d \in Seq(Commands)
    /\ n \in Nat \ {0} /\ Len(c) = n - 1 /\ Len(d) = n
    /\ \A k \in 1 .. n - 1 : d[k] = c[k]

LEMMA LengthensLast ==
  ASSUME NEW c, NEW d, NEW n, NEW ordered, Lengthens(c, d, n)
  PROVE  /\ Stops(d[n], ordered) => Last(d, ordered, n + 1) = {n}
         /\ ~Stops(d[n], ordered) => Last(d, ordered, n + 1) = Last(c, ordered, n)
  <1>1. n \in Nat \ {0} /\ n - 1 = Len(c) /\ Len(d) = n /\ \A k \in 1 .. n - 1 : d[k] = c[k]
    BY DEF Lengthens
  <1>2. PICK x : x = d[n]
    OBVIOUS
  <1>3. 1 .. n + 1 - 1 = (1 .. n - 1) \cup {n}
    BY <1>1
  <1>4. /\ Stops(x, ordered) => Last(d, ordered, n + 1) = {n}
        /\ ~Stops(x, ordered) => Last(d, ordered, n + 1) = Last(c, ordered, n)
    <2>1. CASE Stops(x, ordered)
      <3>1. ASSUME NEW j PROVE j \in Last(d, ordered, n + 1) <=> j = n
        <4>1. CASE j \in 1 .. n - 1
          <5>1. n \in j + 1 .. n + 1 - 1
            BY <1>1, <4>1
          <5> QED BY <1>1, <1>2, <2>1, <4>1, <5>1 DEF Last
        <4>2. CASE j = n
          <5>1. n + 1 .. n + 1 - 1 = {}
            BY <1>1
          <5> QED BY <1>2, <1>3, <2>1, <4>2, <5>1 DEF Last
        <4> QED BY <1>3, <4>1, <4>2 DEF Last
      <3> QED BY <2>1, <3>1
    <2>2. CASE ~Stops(x, ordered)
      <3>1. ASSUME NEW j
            PROVE  j \in Last(d, ordered, n + 1) <=> j \in Last(c, ordered, n)
        <4>1. CASE j \in 1 .. n - 1
          <5>1. \A k : k \in j + 1 .. n + 1 - 1 <=> k \in j + 1 .. n - 1 \/ k = n
            BY <1>1, <4>1
          <5>2. \A k \in j + 1 .. n - 1 : k \in 1 .. n - 1
            BY <1>1, <4>1
          <5> QED BY <1>1, <1>2, <1>3, <2>2, <4>1, <5>1, <5>2 DEF Last
        <4>2. CASE j \notin 1 .. n - 1
          BY <1>2, <1>3, <2>2, <4>2 DEF Last
        <4> QED BY <4>1, <4>2
      <3> QED BY <2>2, <3>1
    <2> QED BY <2>1, <2>2
  <1> QED BY <1>2, <1>4

LEMMA LengthensOutstanding ==
  ASSUME NEW c, NEW d, NEW n, NEW ordered, Lengthens(c, d, n)
  PROVE  /\ AwaitsAll(d[n]) => Outstanding(d, ordered, n + 1) = {}
         /\ ~AwaitsAll(d[n]) /\ Stops(d[n], ordered) =>
               Outstanding(d, ordered, n + 1) = Outstanding(c, ordered, n)
         /\ ~AwaitsAll(d[n]) /\ ~Stops(d[n], ordered) =>
               Outstanding(d, ordered, n + 1) = Outstanding(c, ordered, n) \cup {n}
  <1>1. n \in Nat \ {0} /\ n - 1 = Len(c) /\ Len(d) = n /\ \A k \in 1 .. n - 1 : d[k] = c[k]
    BY DEF Lengthens
  <1>2. PICK x : x = d[n]
    OBVIOUS
  <1>3. 1 .. n + 1 - 1 = (1 .. n - 1) \cup {n}
    BY <1>1
  <1>4. AwaitsAll(x) => Outstanding(d, ordered, n + 1) = {}
    <2> SUFFICES ASSUME AwaitsAll(x), NEW j \in Outstanding(d, ordered, n + 1) PROVE FALSE
      OBVIOUS
    <2>1. CASE j \in 1 .. n - 1
      <3>1. n \in j + 1 .. n + 1 - 1
        BY <1>1, <2>1
      <3> QED BY <1>2, <3>1 DEF Outstanding
    <2>2. CASE j = n
      BY <1>2, <2>2 DEF Outstanding, AwaitsAll, Stops
    <2> QED BY <1>3, <2>1, <2>2 DEF Outstanding
  <1>5. ASSUME ~AwaitsAll(x), NEW j
        PROVE  j \in Outstanding(d, ordered, n + 1)
                   <=> \/ j \in Outstanding(c, ordered, n)
                       \/ j = n /\ ~Stops(x, ordered)
    <2>1. CASE j \in 1 .. n - 1
      <3>1. \A k : k \in j + 1 .. n + 1 - 1 <=> k \in j + 1 .. n - 1 \/ k = n
        BY <1>1, <2>1
      <3>2. \A k \in j + 1 .. n - 1 : k \in 1 .. n - 1
        BY <1>1, <2>1
      <3>3. j # n
        BY <1>1, <2>1
      <3> QED BY <1>1, <1>2, <1>3, <1>5, <2>1, <3>1, <3>2, <3>3 DEF Outstanding
    <2>2. CASE j = n
      <3>1. n + 1 .. n + 1 - 1 = {} /\ n \notin 1 .. n - 1
        BY <1>1
      <3> QED BY <1>2, <1>3, <2>2, <3>1 DEF Outstanding
    <2>3. CASE j \notin 1 .. n - 1 /\ j # n
      BY <1>3, <2>3 DEF Outstanding
    <2> QED BY <2>1, <2>2, <2>3
  <1> QED BY <1>2, <1>4, <1>5

LEMMA LengthensInternals ==
  ASSUME NEW c, NEW d, NEW n, Lengthens(c, d, n)
  PROVE  Cardinality(Internals(d, n + 1)) =
            Cardinality(Internals(c, n)) + IF IsInternal(d[n]) THEN 1 ELSE 0
  <1>1. n \in Nat \ {0} /\ n - 1 = Len(c) /\ Len(d) = n /\ \A k \in 1 .. n - 1 : d[k] = c[k]
    BY DEF Lengthens
  <1>2. PICK x : x = d[n]
    OBVIOUS
  <1>3. 1 .. n + 1 - 1 = (1 .. n - 1) \cup {n}
    BY <1>1
  <1>4. Cardinality(Internals(d, n + 1)) =
            Cardinality(Internals(c, n)) + IF IsInternal(x) THEN 1 ELSE 0
    <2>1. n \notin Internals(c, n)
      BY <1>1 DEF Internals
    <2>2. Internals(d, n + 1) =
             IF IsInternal(x) THEN Internals(c, n) \cup {n} ELSE Internals(c, n)
      BY <1>1, <1>2, <1>3 DEF Internals
    <2>3. /\ IsFiniteSet(Internals(c, n)) /\ Cardinality(Internals(c, n)) \in Nat
          /\ Cardinality(Internals(c, n) \cup {n}) = Cardinality(Internals(c, n)) + 1
      BY <1>1, <2>1, InternalsAreFinite, FS_AddElement
    <2> QED BY <2>2, <2>3
  <1> QED BY <1>2, <1>4

LEMMA LengthensNames ==
  ASSUME NEW c, NEW d, NEW n, NEW ordered, Lengthens(c, d, n), NEW k \in 1 .. n - 1
  PROVE  NameOf(d, k) = NameOf(c, k) /\ Direct(d, ordered, k) = Direct(c, ordered, k)
  <1>1. k \in Nat \ {0} /\ d[k] = c[k] /\ \A l \in 1 .. k - 1 : d[l] = c[l]
    BY DEF Lengthens
  <1> QED BY <1>1, PrefixSame

LEMMA LengthensNamed ==
  ASSUME NEW c, NEW d, NEW n, Lengthens(c, d, n), NEW S \in SUBSET (1 .. n - 1)
  PROVE  Named(d, S) = Named(c, S)
  <1>1. \A k \in S : NameOf(d, k) = NameOf(c, k)
    BY LengthensNames
  <1> QED BY <1>1 DEF Named

LEMMA LengthensSame ==
  ASSUME NEW c, NEW d, NEW n, NEW ordered, Lengthens(c, d, n)
  PROVE  /\ Last(d, ordered, n) = Last(c, ordered, n)
         /\ Outstanding(d, ordered, n) = Outstanding(c, ordered, n)
         /\ Internals(d, n) = Internals(c, n)
  <1>1. n \in Nat \ {0} /\ \A k \in 1 .. n - 1 : d[k] = c[k]
    BY DEF Lengthens
  <1> QED BY <1>1, PrefixSame, Zenon

LEMMA LengthensDrawing ==
  ASSUME NEW c, NEW d, NEW n, NEW ordered, Lengthens(c, d, n)
  PROVE  Drawing(d, ordered) = Append(Drawing(c, ordered), Node(d, ordered, n))
  <1>1. n \in Nat \ {0} /\ n - 1 = Len(c) /\ Len(d) = n /\ \A k \in 1 .. n - 1 : d[k] = c[k]
    BY DEF Lengthens
  <1>2. PICK x : x = d[n]
    OBVIOUS
  <1>3. 1 .. n + 1 - 1 = (1 .. n - 1) \cup {n}
    BY <1>1
  <1>4. Drawing(d, ordered) = Append(Drawing(c, ordered), Node(d, ordered, n))
    <2> DEFINE f == Drawing(c, ordered)
               g == Drawing(d, ordered)
               y == Node(d, ordered, n)
               T == {f[k] : k \in 1 .. n} \cup {y}
    <2>1. DOMAIN f = 1 .. n /\ f = [k \in 1 .. n |-> f[k]] /\ DOMAIN g = 1 .. n + 1
          /\ g = [k \in 1 .. n + 1 |-> g[k]]
      BY <1>1 DEF Drawing
    <2>2. g[n + 1] = y
      BY <1>1, DrawingNodes DEF Lengthens
    <2>3. ASSUME NEW k \in 1 .. n PROVE g[k] = f[k]
      <3>1. k \in 1 .. Len(c) + 1 /\ k \in 1 .. Len(d) + 1
        BY <1>1, <1>2
      <3>2. CASE k = 1
        BY <3>1, <3>2 DEF Drawing
      <3>3. CASE k # 1
        <4>1. k - 1 \in 1 .. n - 1
          BY <1>1, <3>3
        <4>2. Direct(c, ordered, k - 1) \subseteq 1 .. n - 1
          BY <1>1, <4>1 DEF Direct, Last, Outstanding, Awaited
        <4>3. Node(d, ordered, k - 1) = Node(c, ordered, k - 1)
          BY <4>1, <4>2, LengthensNames, LengthensNamed DEF Node
        <4> QED BY <3>1, <3>3, <4>3 DEF Drawing
      <3> QED BY <3>2, <3>3
    <2> HIDE DEF f, g, y
    <2>4. f \in Seq(T) /\ Len(f) = n
      BY <1>1, <2>1
    <2>5. g \in Seq(T) /\ Len(g) = n + 1
      <3>1. ASSUME NEW k \in 1 .. n + 1 PROVE g[k] \in T
        <4>1. k \in 1 .. n \/ k = n + 1
          BY <1>1
        <4> QED BY <2>2, <2>3, <4>1
      <3> QED BY <1>1, <2>1, <3>1
    <2>6. /\ Append(f, y) \in Seq(T) /\ Len(Append(f, y)) = n + 1 /\ Append(f, y)[n + 1] = y
          /\ \A k \in 1 .. n : Append(f, y)[k] = f[k]
      BY <1>1, <2>4, AppendProperties
    <2>7. ASSUME NEW k \in 1 .. n + 1 PROVE g[k] = Append(f, y)[k]
      <3>1. k \in 1 .. n \/ k = n + 1
        BY <1>1
      <3> QED BY <2>2, <2>3, <2>6, <3>1
    <2>8. g = Append(f, y)
      BY <2>5, <2>6, <2>7, SeqEqual
    <2> QED BY <2>8 DEF f, g, y
  <1> QED BY <1>4

LEMMA CommandIdIsName ==
  ASSUME NEW c, NEW d, NEW n, NEW ordered, Lengthens(c, d, n),
         NEW r, IsDrawn(r, c, ordered), AllFit(d)
  PROVE  /\ CommandId(r, d[n]) = NameOf(d, n)
         /\ Explicit(d[n]) = Named(d, Awaited(d, n))
         /\ r.implicitDeps = Named(d, Last(d, ordered, n))
         /\ r.outstandingIds = Named(d, Outstanding(d, ordered, n))
  <1>1. n \in Nat \ {0} /\ Len(c) + 1 = n /\ Len(d) = n
    BY DEF Lengthens
  <1>2. Last(d, ordered, n) = Last(c, ordered, n)
    BY LengthensSame
  <1>3. Outstanding(d, ordered, n) = Outstanding(c, ordered, n)
    BY LengthensSame
  <1>4. Internals(d, n) = Internals(c, n)
    BY LengthensSame
  <1>5. CommandId(r, d[n]) = NameOf(d, n)
    <2>1. r.nextInternalId = Cardinality({j \in 1 .. n - 1 : IsInternal(d[j])})
      BY <1>1, <1>4 DEF IsDrawn, Internals
    <2> QED BY <2>1 DEF CommandId, NameOf
  <1>6. Explicit(d[n]) = Named(d, Awaited(d, n))
    <2> DEFINE W == Awaited(d, n)
    <2>1. \A p \in d[n].waits : p # 0 /\ \E j \in 1 .. n - 1 : d[j].point = p
      BY <1>1 DEF AllFit, Fits
    <2>2. ASSUME NEW j \in W PROVE NameOf(d, j) = <<"syncpoint", d[j].point>>
      BY <2>1, <2>2 DEF NameOf, IsInternal, Awaited
    <2>3. \A p \in d[n].waits : \E j \in W : d[j].point = p
      BY <2>1 DEF Awaited
    <2>4. \A j \in W : d[j].point \in d[n].waits
      BY DEF Awaited
    <2> HIDE DEF W
    <2>5. Explicit(d[n]) = Named(d, W)
      BY <2>2, <2>3, <2>4 DEF Explicit, Named
    <2> QED BY <2>5 DEF W
  <1>7. /\ Last(d, ordered, n) \in SUBSET (1 .. n - 1)
        /\ Outstanding(d, ordered, n) \in SUBSET (1 .. n - 1)
    BY DEF Last, Outstanding
  <1>8. r.implicitDeps = Named(d, Last(d, ordered, n))
    <2>1. r.implicitDeps = Named(c, Last(c, ordered, n))
      BY <1>1 DEF IsDrawn
    <2> QED BY <1>2, <1>7, <2>1, LengthensNamed
  <1>9. r.outstandingIds = Named(d, Outstanding(d, ordered, n))
    <2>1. r.outstandingIds = Named(c, Outstanding(c, ordered, n))
      BY <1>1 DEF IsDrawn
    <2> QED BY <1>3, <1>7, <2>1, LengthensNamed
  <1> QED BY <1>5, <1>6, <1>8, <1>9

\* recordCommand and recordBarrier draw the edges and remember what the next
\* ones need.
Recording(r, x) == IF x.barrier THEN recordBarrier(r, x) ELSE recordCommand(r, x)

Sources(r, x) == r.implicitDeps \cup IF AwaitsAll(x) THEN r.outstandingIds ELSE Explicit(x)

LEMMA RecordingFacts ==
  ASSUME NEW x, NEW r, DOMAIN r = DOMAIN NoRecord
  PROVE  /\ DOMAIN Recording(r, x) = DOMAIN NoRecord
         /\ Recording(r, x).queueIsInOrder = r.queueIsInOrder
         /\ Recording(r, x).dot =
               Append(r.dot, [line |-> "node", id |-> CommandId(r, x), from |-> Sources(r, x)])
         /\ Recording(r, x).nextInternalId = r.nextInternalId + IF IsInternal(x) THEN 1 ELSE 0
         /\ Stops(x, r.queueIsInOrder) => Recording(r, x).implicitDeps = {CommandId(r, x)}
         /\ ~Stops(x, r.queueIsInOrder) => Recording(r, x).implicitDeps = r.implicitDeps
         /\ AwaitsAll(x) => Recording(r, x).outstandingIds = {}
         /\ ~AwaitsAll(x) /\ Stops(x, r.queueIsInOrder) =>
               Recording(r, x).outstandingIds = r.outstandingIds
         /\ ~AwaitsAll(x) /\ ~Stops(x, r.queueIsInOrder) =>
               Recording(r, x).outstandingIds = r.outstandingIds \cup {CommandId(r, x)}
  <1>1. CASE x.barrier
    BY <1>1 DEF Recording, recordBarrier, Drawn, NoRecord, AwaitsAll, Stops, Sources
  <1>2. CASE ~x.barrier
    <2>1. Explicit(x) \cup r.implicitDeps = Sources(r, x)
      BY <1>2 DEF AwaitsAll, Sources
    <2>2. CASE r.queueIsInOrder
      BY <1>2, <2>1, <2>2 DEF Recording, recordCommand, Drawn, NoRecord, AwaitsAll, Stops
    <2>3. CASE ~r.queueIsInOrder
      BY <1>2, <2>1, <2>3 DEF Recording, recordCommand, Drawn, NoRecord, AwaitsAll, Stops
    <2> QED BY <2>2, <2>3
  <1> QED BY <1>1, <1>2

LEMMA RecordedIsDrawn ==
  ASSUME NEW c, NEW d, NEW n, NEW ordered, Lengthens(c, d, n),
         NEW r, IsDrawn(r, c, ordered), AllFit(d)
  PROVE  IsDrawn(Recording(r, d[n]), d, ordered)
  <1> DEFINE x == d[n]
             id == CommandId(r, x)
             new == Recording(r, x)
  <1>1. n \in Nat \ {0} /\ Len(c) + 1 = n /\ Len(d) = n
    BY DEF Lengthens
  <1>2. /\ id = NameOf(d, n)
        /\ Explicit(x) = Named(d, Awaited(d, n))
        /\ r.implicitDeps = Named(d, Last(d, ordered, n))
        /\ r.outstandingIds = Named(d, Outstanding(d, ordered, n))
    BY CommandIdIsName
  <1>3. /\ Last(d, ordered, n) = Last(c, ordered, n)
        /\ Outstanding(d, ordered, n) = Outstanding(c, ordered, n)
    BY LengthensSame
  <1>4. /\ Stops(x, ordered) => Last(d, ordered, n + 1) = {n}
        /\ ~Stops(x, ordered) => Last(d, ordered, n + 1) = Last(c, ordered, n)
    BY LengthensLast
  <1>5. /\ DOMAIN r = DOMAIN NoRecord /\ r.queueIsInOrder = ordered
        /\ r.dot = Drawing(c, ordered)
        /\ r.nextInternalId = Cardinality(Internals(c, n))
    BY <1>1 DEF IsDrawn
  <1>6. Sources(r, x) = Named(d, Direct(d, ordered, n))
    <2>1. CASE AwaitsAll(x)
      BY <1>2, <2>1 DEF Direct, Named, Sources
    <2>2. CASE ~AwaitsAll(x)
      BY <1>2, <2>2 DEF Direct, Named, Sources
    <2> QED BY <2>1, <2>2
  <1>7. /\ DOMAIN new = DOMAIN NoRecord /\ new.queueIsInOrder = ordered
        /\ new.dot = Append(r.dot, [line |-> "node", id |-> id, from |-> Sources(r, x)])
        /\ new.nextInternalId = r.nextInternalId + IF IsInternal(x) THEN 1 ELSE 0
        /\ Stops(x, ordered) => new.implicitDeps = {id}
        /\ ~Stops(x, ordered) => new.implicitDeps = r.implicitDeps
        /\ AwaitsAll(x) => new.outstandingIds = {}
        /\ ~AwaitsAll(x) /\ Stops(x, ordered) => new.outstandingIds = r.outstandingIds
        /\ ~AwaitsAll(x) /\ ~Stops(x, ordered) =>
              new.outstandingIds = r.outstandingIds \cup {id}
    BY <1>5, RecordingFacts
  <1> HIDE DEF new, id
  <1>8. new.dot = Drawing(d, ordered)
    <2>1. Drawing(d, ordered) = Append(Drawing(c, ordered), Node(d, ordered, n))
      BY LengthensDrawing
    <2>2. Node(d, ordered, n) = [line |-> "node", id |-> id, from |-> Sources(r, x)]
      BY <1>2, <1>6 DEF Node
    <2> QED BY <1>5, <1>7, <2>1, <2>2
  <1>9. new.nextInternalId = Cardinality(Internals(d, n + 1))
    BY <1>5, <1>7, LengthensInternals
  <1>10. new.implicitDeps = Named(d, Last(d, ordered, n + 1))
    <2>1. CASE Stops(x, ordered)
      <3>1. Last(d, ordered, n + 1) = {n}
        BY <1>4, <2>1
      <3> QED BY <1>2, <1>7, <2>1, <3>1 DEF Named
    <2>2. CASE ~Stops(x, ordered)
      <3>1. Last(d, ordered, n + 1) = Last(d, ordered, n)
        BY <1>4, <1>3, <2>2
      <3> QED BY <1>2, <1>7, <2>2, <3>1
    <2> QED BY <2>1, <2>2
  <1>11. new.outstandingIds = Named(d, Outstanding(d, ordered, n + 1))
    <2>1. CASE AwaitsAll(x)
      <3>1. Outstanding(d, ordered, n + 1) = {}
        BY <2>1, LengthensOutstanding
      <3> QED BY <1>7, <2>1, <3>1 DEF Named
    <2>2. CASE ~AwaitsAll(x) /\ Stops(x, ordered)
      <3>1. Outstanding(d, ordered, n + 1) = Outstanding(d, ordered, n)
        BY <1>3, <2>2, LengthensOutstanding
      <3> QED BY <1>2, <1>7, <2>2, <3>1
    <2>3. CASE ~AwaitsAll(x) /\ ~Stops(x, ordered)
      <3>1. Outstanding(d, ordered, n + 1) = Outstanding(d, ordered, n) \cup {n}
        BY <1>3, <2>3, LengthensOutstanding
      <3> QED BY <1>2, <1>7, <2>3, <3>1 DEF Named
    <2> QED BY <2>1, <2>2, <2>3
  <1>12. IsDrawn(new, d, ordered)
    BY <1>1, <1>7, <1>8, <1>9, <1>10, <1>11 DEF IsDrawn
  <1> QED BY <1>12 DEF new

\* A drawing of well-formed commands is what the file has to show.
LEMMA DrawingIsRight ==
  ASSUME NEW c \in Seq(Commands), NEW ordered, AllFit(c),
         NEW dot, dot = Drawing(c, ordered)
  PROVE  Draws(dot, c, ordered)
  <1> DEFINE n == Len(c)
             name == [i \in 1 .. n |-> NameOf(c, i)]
             edges == [i \in 1 .. n |-> {j \in 1 .. i - 1 : name[j] \in dot[i + 1].from}]
             direct == [i \in 1 .. n |-> Direct(c, ordered, i)]
  <1>0. n \in Nat
    OBVIOUS
  <1>1. Len(dot) = n + 1 /\ dot[1].line = "digraph"
    <2>1. DOMAIN dot = 1 .. n + 1 /\ dot[1] = [line |-> "digraph"]
      BY DEF Drawing
    <2> QED BY <1>0, <2>1
  <1>2. ASSUME NEW i \in 1 .. n PROVE dot[i + 1] = Node(c, ordered, i)
    BY DrawingNodes
  <1>3. ASSUME NEW i \in 1 .. n PROVE Direct(c, ordered, i) \subseteq 1 .. i - 1
    BY DEF Direct, Last, Outstanding, Awaited
  <1>4. ASSUME NEW i \in 1 .. n
        PROVE  /\ dot[i + 1].line = "node" /\ dot[i + 1].id = name[i]
               /\ dot[i + 1].from \subseteq {name[j] : j \in 1 .. i - 1}
    <2>0. dot[i + 1] = Node(c, ordered, i)
      BY <1>2
    <2>1. dot[i + 1].from = Named(c, Direct(c, ordered, i))
      BY <2>0 DEF Node
    <2>2. \A j \in 1 .. i - 1 : name[j] = NameOf(c, j)
      OBVIOUS
    <2>3. dot[i + 1].line = "node" /\ dot[i + 1].id = name[i]
      BY <2>0 DEF Node
    <2> QED BY <1>3, <2>1, <2>2, <2>3 DEF Named
  <1>5. edges = direct
    <2>1. ASSUME NEW i \in 1 .. n
          PROVE  {j \in 1 .. i - 1 : name[j] \in dot[i + 1].from} = Direct(c, ordered, i)
      <3>0. dot[i + 1] = Node(c, ordered, i)
        BY <1>2
      <3>1. dot[i + 1].from = Named(c, Direct(c, ordered, i))
        BY <3>0 DEF Node
      <3>2. \A j \in 1 .. i - 1 : j \in 1 .. n /\ name[j] = NameOf(c, j)
        OBVIOUS
      <3>3. ASSUME NEW j \in 1 .. i - 1, NameOf(c, j) \in Named(c, Direct(c, ordered, i))
            PROVE  j \in Direct(c, ordered, i)
        <4>1. PICK k \in Direct(c, ordered, i) : NameOf(c, j) = NameOf(c, k)
          BY <3>3 DEF Named
        <4>2. k \in 1 .. n /\ j \in 1 .. n
          BY <1>3, <3>2
        <4>3. j = k
          BY <4>1, <4>2, NamesDiffer
        <4> QED BY <4>3
      <3> QED BY <1>3, <3>1, <3>2, <3>3 DEF Named
    <2> QED BY <2>1
  <1>6. Before(direct, n) = Before(Required(c, ordered), n)
    BY <1>0, DirectReduces, SamePaths
  <1> QED BY <1>1, <1>4, <1>5, <1>6 DEF Draws
-----------------------------------------------------------------------------
(* Records and what the driver has.  A buffer is filled by one thread at a   *)
(* time, so that the record draws the commands the driver has, but for the   *)
(* one that thread is about to enter.                                        *)

Records(t) == At(t, "recordCommand") \/ At(t, "recordBarrier")
Entering(t) == At(t, "recordCreate") \/ Records(t)

\* What the steps of a handler find.
Prepared(t, b) ==
    /\ At(t, "recordCreate") => state[b] = "recording" /\ content[b] = <<>>
    /\ At(t, "command") =>
          /\ state[b] = "recording"
          /\ call[t].command \in Commands
          /\ Fits(content[b], call[t].command, Len(content[b]) + 1)
          /\ call[t].todo = IF call[t].command.barrier
                            THEN <<"command", "recordBarrier", "addMutable">>
                            ELSE <<"command", "recordCommand", "addMutable">>
    /\ Records(t) => /\ state[b] = "recording" /\ Len(content[b]) # 0
                     /\ call[t].command = content[b][Len(content[b])]
                     /\ At(t, "recordBarrier") <=> call[t].command.barrier
    /\ At(t, "finalize") => state[b] = "recording"
    /\ At(t, "recordFinalize") \/ At(t, "dump") => state[b] # "recording"

\* Its record is up to date between the steps that enter something into it.
Current(b) ==
    /\ state[b] = "recording"
    /\ \A t \in Using(b) : ~Entering(t) /\ ~(At(t, "release") /\ refs[b] = 1)

RecordDraws(b) ==
    /\ Current(b) => IsDrawn(record[b], content[b], inOrder[b])
    /\ \A t \in Using(b) :
          /\ At(t, "recordCreate") => record[b] = NoRecord
          /\ Records(t) => \E c : /\ Lengthens(c, content[b], Len(content[b]))
                                  /\ IsDrawn(record[b], c, inOrder[b])
          /\ At(t, "recordFinalize") => IsDrawn(record[b], content[b], inOrder[b])
          /\ At(t, "dump") => \E r : /\ IsDrawn(r, content[b], inOrder[b])
                                     /\ record[b].dot = Append(r.dot, [line |-> "end"])

Tidy(b) ==
    /\ \A t, u \in Recorders(b) : t = u
    /\ content[b] \in Seq(Commands) /\ AllFit(content[b])
    /\ state[b] = "free" => content[b] = <<>>
    /\ \A t \in Using(b) : Prepared(t, b)
    /\ b \notin lost => RecordDraws(b)

Drawings ==
    /\ DOMAIN content = Buffers /\ DOMAIN inOrder = Buffers
    /\ \A b \in Buffers : Tidy(b)

LEMMA NoCommands == <<>> \in Seq(Commands) /\ Len(<<>>) = 0 /\ AllFit(<<>>)
  BY DEF AllFit

LEMMA InitDrawings == Init => Drawings
  <1> SUFFICES ASSUME Init PROVE Drawings
    OBVIOUS
  <1>1. \A t \in Threads : call[t].buffer = NULL
    BY NoCallIsIdle DEF Init
  <1>2. ASSUME NEW b \in Buffers PROVE Tidy(b)
    <2>1. Using(b) = {} /\ Recorders(b) = {}
      BY <1>1, BufferAssumption DEF Using, Recorders
    <2>2. content[b] = <<>> /\ state[b] = "free"
      BY DEF Init
    <2> QED BY <2>1, <2>2, NoCommands DEF Tidy, RecordDraws, Current
  <1>3. DOMAIN content = Buffers /\ DOMAIN inOrder = Buffers
    BY DEF Init
  <1> QED BY <1>2, <1>3 DEF Drawings

\* What a buffer's state depends on.
Same(b) ==
    /\ Using(b)' = Using(b) /\ \A t \in Using(b) : call'[t] = call[t]
    /\ record'[b] = record[b] /\ content'[b] = content[b] /\ inOrder'[b] = inOrder[b]
    /\ state'[b] = state[b] /\ refs'[b] = refs[b] /\ (b \in lost' <=> b \in lost)

LEMMA SameTidy ==
  ASSUME NEW b, Same(b), Tidy(b)
  PROVE  Tidy(b)'
  <1>1. ASSUME NEW t \in Using(b), NEW s PROVE At(t, s)' <=> At(t, s)
    BY DEF Same, At, Idle
  <1>2. Recorders(b)' = Recorders(b)
    BY <1>1 DEF Same, Recorders
  <1>3. ASSUME NEW t \in Using(b) PROVE Prepared(t, b)'
    <2>1. Prepared(t, b)
      BY DEF Tidy
    <2>2. call'[t] = call[t] /\ content'[b] = content[b] /\ state'[b] = state[b]
      BY DEF Same
    <2> QED BY <1>1, <2>1, <2>2 DEF Prepared, Records
  <1>4. ASSUME b \notin lost PROVE RecordDraws(b)'
    <2>1. RecordDraws(b)
      BY <1>4 DEF Tidy
    <2>2. /\ record'[b] = record[b] /\ content'[b] = content[b] /\ inOrder'[b] = inOrder[b]
          /\ state'[b] = state[b] /\ refs'[b] = refs[b] /\ Using(b)' = Using(b)
      BY DEF Same
    <2>3. Current(b)' <=> Current(b)
      BY <1>1, <2>2 DEF Current, Entering, Records
    <2> QED BY <1>1, <2>1, <2>2, <2>3 DEF RecordDraws, Records
  <1> QED BY <1>2, <1>3, <1>4 DEF Tidy, Same

\* A step of t on b: nothing changes for the other buffers.
Only(t, b) ==
    /\ \A u \in Threads \ {t} : call'[u] = call[u]
    /\ call[t].buffer \in {b, NULL} /\ call'[t].buffer \in {b, NULL}
    /\ DOMAIN content' = Buffers /\ DOMAIN inOrder' = Buffers
    /\ \A c \in Buffers \ {b} :
          /\ record'[c] = record[c] /\ content'[c] = content[c] /\ inOrder'[c] = inOrder[c]
          /\ state'[c] = state[c] /\ refs'[c] = refs[c] /\ (c \in lost' <=> c \in lost)

LEMMA OnlyDrawings ==
  ASSUME Drawings, NEW t \in Threads, NEW b \in Buffers, Only(t, b), Tidy(b)'
  PROVE  Drawings'
  <1>1. ASSUME NEW c \in Buffers \ {b} PROVE Tidy(c)'
    <2>1. c # NULL
      BY BufferAssumption
    <2>2. Using(c)' = Using(c) /\ \A u \in Using(c) : call'[u] = call[u]
      BY <2>1 DEF Using, Only
    <2>3. Same(c)
      BY <2>2 DEF Same, Only
    <2> QED BY <2>3, SameTidy DEF Drawings
  <1> QED BY <1>1 DEF Drawings, Only

-----------------------------------------------------------------------------
(* The locals of a step.                                                     *)

LEMMA CommandUpdates ==
  ASSUME Locals, NEW t \in Threads, NEW c, NEW steps, steps # <<>>,
         DOMAIN c = DOMAIN NoCall, Continues(t, c, steps)
  PROVE  call'[t].command = c.command
  <1>1. call'[t] = [c EXCEPT !.todo = steps]
    BY DEF Continues, Locals
  <1> QED BY <1>1 DEF NoCall

\* t goes on with its handler, or returns.
LEMMA AfterFacts ==
  ASSUME Inv, NEW t \in Threads, ~Idle(t), After(t), NEW b, b = call[t].buffer
  PROVE  /\ b \in Buffers /\ t \in Using(b)
         /\ \A u \in Threads \ {t} : call'[u] = call[u]
         /\ call'[t].buffer \in {b, NULL} /\ call'[t].todo = Tail(call[t].todo)
         /\ IF Tail(call[t].todo) = <<>> THEN call'[t].buffer = NULL ELSE call'[t].buffer = b
         /\ Tail(call[t].todo) # <<>> => call'[t].command = call[t].command
  <1>1. b \in Buffers /\ t \in Using(b) /\ DOMAIN call[t] = DOMAIN NoCall
    BY DEF Inv, Types, Locals, Using
  <1>2. /\ Others(t) /\ Locals' /\ call'[t].todo = Tail(call[t].todo)
        /\ ~Idle(t)' => call'[t].buffer = b
    BY AfterUpdate DEF Inv, Types, Stays
  <1>3. Tail(call[t].todo) # <<>> => call'[t].command = call[t].command
    BY <1>1, CommandUpdates DEF After, Inv, Types
  <1> QED BY <1>1, <1>2, <1>3 DEF Others, Locals, Idle

\* The steps that come next.
LEMMA NextSteps ==
  ASSUME Inv, NEW t \in Threads, ~Idle(t)
  PROVE  LET s == Head(call[t].todo)
             r == Tail(call[t].todo)
         IN  /\ s = "recordCreate" => r # <<>> /\ Head(r) = "addInfo"
             /\ s \in {"addInfo", "addMutable", "dump", "release"} => r = <<>>
             /\ s \in {"recordCommand", "recordBarrier"} => r # <<>> /\ Head(r) = "addMutable"
             /\ s = "finalize" => r # <<>> /\ Head(r) = "recordFinalize"
             /\ s = "recordFinalize" => r # <<>> /\ Head(r) = "dump"
             /\ s = "remove" => r # <<>> /\ Head(r) = "release"
  <1>1. call[t].todo \in Programs /\ call[t].todo # <<>>
    BY DEF Inv, Types, Locals, Idle
  <1>2. PICK s : s = call[t].todo
    OBVIOUS
  <1>3. s \in Programs
    BY <1>1, <1>2
  <1>4. \/ s = <<"recordCreate", "addInfo">> \/ s = <<"addInfo">>
        \/ s = <<"finalize", "recordFinalize", "dump">>
        \/ s = <<"recordFinalize", "dump">> \/ s = <<"dump">>
        \/ s = <<"remove", "release">> \/ s = <<"release">>
        \/ s = <<"command", "recordCommand", "addMutable">>
        \/ s = <<"command", "recordBarrier", "addMutable">>
        \/ s = <<"recordCommand", "addMutable">> \/ s = <<"recordBarrier", "addMutable">>
        \/ s = <<"addMutable">>
    BY <1>1, <1>2, <1>3 DEF Programs
  <1>5. CASE s = <<"recordCreate", "addInfo">>
    BY <1>2, <1>5
  <1>6. CASE s = <<"addInfo">>
    BY <1>2, <1>6
  <1>7. CASE s = <<"finalize", "recordFinalize", "dump">>
    BY <1>2, <1>7
  <1>8. CASE s = <<"recordFinalize", "dump">>
    BY <1>2, <1>8
  <1>9. CASE s = <<"dump">>
    BY <1>2, <1>9
  <1>10. CASE s = <<"remove", "release">>
    BY <1>2, <1>10
  <1>11. CASE s = <<"release">>
    BY <1>2, <1>11
  <1>12. CASE s = <<"command", "recordCommand", "addMutable">>
    BY <1>2, <1>12
  <1>13. CASE s = <<"command", "recordBarrier", "addMutable">>
    BY <1>2, <1>13
  <1>14. CASE s = <<"recordCommand", "addMutable">>
    BY <1>2, <1>14
  <1>15. CASE s = <<"recordBarrier", "addMutable">>
    BY <1>2, <1>15
  <1>16. CASE s = <<"addMutable">>
    BY <1>2, <1>16
  <1> QED BY <1>4, <1>5, <1>6, <1>7, <1>8, <1>9, <1>10, <1>11, <1>12, <1>13, <1>14, <1>15, <1>16

\* A thread that fills a buffer is the only one, and the buffer stays.
LEMMA OnlyRecorder ==
  ASSUME Inv, Drawings, NEW b \in Buffers, NEW t \in Recorders(b), NEW u \in Using(b), u # t
  PROVE  /\ At(u, "remove") \/ At(u, "release")
         /\ refs[b] # 1
  <1>1. t \in Using(b) /\ (u \in Recorders(b) => u = t)
    BY DEF Drawings, Tidy, Recorders
  <1>2. refs[b] # 1
    BY <1>1, LastReferenceHasOneUser
  <1> QED BY <1>1, <1>2 DEF Recorders
-----------------------------------------------------------------------------
(* The steps that fill a record.                                             *)

\* t, which fills b, makes one of its layer's steps.
LEMMA Filling ==
  ASSUME Inv, Drawings, NEW t \in Threads, NEW s, At(t, s), s \notin ReleaseSteps,
         NEW b, b = call[t].buffer
  PROVE  /\ b \in Buffers /\ t \in Using(b) /\ t \in Recorders(b)
         /\ Prepared(t, b) /\ Tidy(b) /\ state[b] # "free"
         /\ \A u \in Using(b) \ {t} : (At(u, "remove") \/ At(u, "release")) /\ refs[b] # 1
  <1>1. b \in Buffers /\ t \in Using(b)
    BY DEF At, Inv, Types, Locals, Using
  <1>2. t \in Recorders(b)
    BY <1>1 DEF Recorders, At, ReleaseSteps
  <1>3. state[b] # "free"
    BY <1>1, FreeIsUnused DEF Inv, Types
  <1> QED BY <1>1, <1>2, <1>3, OnlyRecorder DEF Drawings, Tidy

\* Before t makes its step a record is current, unless t is to enter something.
LEMMA FillingCurrent ==
  ASSUME Inv, Drawings, NEW t \in Threads, NEW s, At(t, s), s \in {"command", "finalize"},
         NEW b, b = call[t].buffer, b \notin lost
  PROVE  IsDrawn(record[b], content[b], inOrder[b])
  <1>1. /\ b \in Buffers /\ t \in Using(b) /\ Prepared(t, b) /\ Tidy(b)
        /\ \A u \in Using(b) \ {t} : (At(u, "remove") \/ At(u, "release")) /\ refs[b] # 1
    BY Filling DEF ReleaseSteps
  <1>2. state[b] = "recording"
    BY <1>1 DEF Prepared
  <1>3. Current(b)
    BY <1>1, <1>2 DEF Current, Entering, Records, At
  <1> QED BY <1>1, <1>3 DEF Tidy, RecordDraws

\* What t's step leaves to the other users of b.
LEMMA FillingTidy ==
  ASSUME Inv, Drawings, NEW t \in Threads, NEW s, At(t, s), s \notin ReleaseSteps,
         NEW b, b = call[t].buffer,
         \A u \in Threads \ {t} : call'[u] = call[u],
         call'[t].buffer \in {b, NULL}, call'[t].buffer = NULL => Idle(t)',
         UNCHANGED <<refs, lost>>,
         state'[b] # "free", content'[b] \in Seq(Commands), AllFit(content'[b]),
         ~At(t, "remove")' /\ ~At(t, "release")',
         Prepared(t, b)',
         b \notin lost =>
            /\ state'[b] = "recording" /\ ~Entering(t)' =>
                  IsDrawn(record'[b], content'[b], inOrder'[b])
            /\ At(t, "recordCreate")' => record'[b] = NoRecord
            /\ Records(t)' => \E c : /\ Lengthens(c, content'[b], Len(content'[b]))
                                     /\ IsDrawn(record'[b], c, inOrder'[b])
            /\ At(t, "recordFinalize")' => IsDrawn(record'[b], content'[b], inOrder'[b])
            /\ At(t, "dump")' => \E r : /\ IsDrawn(r, content'[b], inOrder'[b])
                                        /\ record'[b].dot = Append(r.dot, [line |-> "end"])
  PROVE  Tidy(b)'
  <1>1. /\ b \in Buffers /\ t \in Using(b) /\ t \in Recorders(b) /\ Tidy(b)
        /\ \A u \in Using(b) \ {t} : (At(u, "remove") \/ At(u, "release")) /\ refs[b] # 1
    BY Filling
  <1>2. /\ Using(b)' \subseteq Using(b)
        /\ \A u \in Using(b)' \ {t} : /\ u \in Using(b) \ {t} /\ call'[u] = call[u]
                                      /\ At(u, "remove")' \/ At(u, "release")'
                                      /\ refs'[b] # 1
    <2>1. b # NULL
      BY <1>1, BufferAssumption
    <2> QED BY <1>1, <2>1 DEF Using, At, Idle
  <1>3. \A u \in Using(b)' \ {t} : ~Entering(u)' /\ ~At(u, "command")' /\ ~At(u, "finalize")'
                                   /\ ~At(u, "recordFinalize")' /\ ~At(u, "dump")'
    BY <1>2 DEF At, Entering, Records
  <1>4. \A u, v \in Recorders(b)' : u = v
    BY <1>2 DEF Recorders
  <1>5. \A u \in Using(b)' : Prepared(u, b)'
    BY <1>3 DEF Prepared, Entering
  <1>6. ASSUME b \notin lost' PROVE RecordDraws(b)'
    <2>1. Current(b)' => IsDrawn(record'[b], content'[b], inOrder'[b])
      <3> SUFFICES ASSUME Current(b)' PROVE IsDrawn(record'[b], content'[b], inOrder'[b])
        OBVIOUS
      <3>1. ~Entering(t)'
        <4>1. CASE t \in Using(b)'
          BY <4>1 DEF Current
        <4>2. CASE t \notin Using(b)'
          BY <4>2 DEF Using, Entering, Records, At
        <4> QED BY <4>1, <4>2
      <3> QED BY <1>6, <3>1 DEF Current
    <2> QED BY <1>3, <1>6, <2>1 DEF RecordDraws, Entering, Records
  <1> QED BY <1>4, <1>5, <1>6 DEF Tidy

LEMMA RecordCreateDrawings ==
  ASSUME Inv, Drawings, NEW t \in Threads, RecordCreate(t)
  PROVE  Drawings'
  <1>0. PICK b : b = call[t].buffer
    OBVIOUS
  <1>1. /\ At(t, "recordCreate") /\ After(t)
        /\ record' = [record EXCEPT ![b] = recordCreate(@, inOrder[b])]
        /\ UNCHANGED <<state, refs, inOrder, content, lost>>
    BY <1>0 DEF RecordCreate, driver, history
  <1>2. /\ b \in Buffers /\ t \in Using(b) /\ Prepared(t, b) /\ Tidy(b) /\ state[b] # "free"
    BY <1>0, <1>1, Filling DEF ReleaseSteps
  <1>3. /\ \A u \in Threads \ {t} : call'[u] = call[u]
        /\ call'[t].buffer = b /\ call'[t].todo = Tail(call[t].todo)
        /\ call'[t].todo # <<>> /\ Head(call'[t].todo) = "addInfo"
    BY <1>0, <1>1, AfterFacts, NextSteps DEF At
  <1>4. \A s : At(t, s)' <=> s = "addInfo"
    BY <1>3 DEF At, Idle
  <1>5. record'[b] = recordCreate(record[b], inOrder[b])
    BY <1>1, <1>2 DEF Inv, Types
  <1>6. b \notin lost => IsDrawn(record'[b], content'[b], inOrder'[b])
    <2> SUFFICES ASSUME b \notin lost PROVE IsDrawn(record'[b], content'[b], inOrder'[b])
      OBVIOUS
    <2>1. record[b] = NoRecord /\ content[b] = <<>>
      BY <1>1, <1>2 DEF Tidy, RecordDraws, Prepared
    <2> QED BY <1>1, <1>5, <2>1, CreatedIsDrawn
  <1>7. Tidy(b)'
    <2>1. /\ Prepared(t, b)' /\ ~Records(t)' /\ ~At(t, "recordCreate")'
          /\ ~At(t, "remove")' /\ ~At(t, "release")'
          /\ ~At(t, "recordFinalize")' /\ ~At(t, "dump")'
      BY <1>4 DEF Prepared, Records
    <2>2. content'[b] \in Seq(Commands) /\ AllFit(content'[b]) /\ state'[b] # "free"
      BY <1>1, <1>2 DEF Tidy
    <2>3. call'[t].buffer \in {b, NULL} /\ (call'[t].buffer = NULL => Idle(t)')
      BY <1>2, <1>3, BufferAssumption
    <2>4. "recordCreate" \notin ReleaseSteps /\ UNCHANGED <<refs, lost>>
      BY <1>1 DEF ReleaseSteps
    <2> QED BY <1>0, <1>1, <1>3, <1>6, <2>1, <2>2, <2>3, <2>4, FillingTidy
  <1>8. Only(t, b)
    BY <1>0, <1>1, <1>2, <1>3 DEF Only, Drawings
  <1> QED BY <1>2, <1>7, <1>8, OnlyDrawings
LEMMA RecordCommandDrawings ==
  ASSUME Inv, Drawings, NEW t \in Threads, RecordCommand(t)
  PROVE  Drawings'
  <1>0. PICK b : b = call[t].buffer
    OBVIOUS
  <1>1. /\ \/ /\ At(t, "recordCommand")
              /\ record' = [record EXCEPT ![b] = recordCommand(@, call[t].command)]
           \/ /\ At(t, "recordBarrier")
              /\ record' = [record EXCEPT ![b] = recordBarrier(@, call[t].command)]
        /\ After(t) /\ UNCHANGED <<state, refs, inOrder, content, lost>>
    BY <1>0 DEF RecordCommand, driver, history
  <1>2. PICK s : s \in {"recordCommand", "recordBarrier"} /\ At(t, s)
    BY <1>1
  <1>3. s \notin ReleaseSteps /\ Records(t)
    BY <1>2 DEF ReleaseSteps, Records
  <1>4. /\ b \in Buffers /\ t \in Using(b) /\ Prepared(t, b) /\ Tidy(b) /\ state[b] # "free"
    BY <1>0, <1>2, <1>3, Filling
  <1>5. /\ \A u \in Threads \ {t} : call'[u] = call[u]
        /\ call'[t].buffer = b /\ call'[t].todo = Tail(call[t].todo)
        /\ call'[t].todo # <<>> /\ Head(call'[t].todo) = "addMutable"
    BY <1>0, <1>1, <1>2, AfterFacts, NextSteps DEF At
  <1>6. \A p : At(t, p)' <=> p = "addMutable"
    BY <1>5 DEF At, Idle
  <1>7. record'[b] = Recording(record[b], content[b][Len(content[b])])
    <2>1. /\ call[t].command = content[b][Len(content[b])]
          /\ At(t, "recordBarrier") <=> call[t].command.barrier
      BY <1>3, <1>4 DEF Prepared
    <2>2. DOMAIN record = Buffers /\ (At(t, "recordBarrier") <=> ~At(t, "recordCommand"))
      BY <1>2 DEF Inv, Types, At
    <2>3. CASE At(t, "recordBarrier")
      BY <1>1, <1>4, <2>1, <2>2, <2>3 DEF Recording
    <2>4. CASE At(t, "recordCommand")
      BY <1>1, <1>4, <2>1, <2>2, <2>4 DEF Recording
    <2> QED BY <2>2, <2>3, <2>4
  <1>8. b \notin lost => IsDrawn(record'[b], content'[b], inOrder'[b])
    <2> SUFFICES ASSUME b \notin lost PROVE IsDrawn(record'[b], content'[b], inOrder'[b])
      OBVIOUS
    <2>1. PICK c : /\ Lengthens(c, content[b], Len(content[b]))
                   /\ IsDrawn(record[b], c, inOrder[b])
      BY <1>3, <1>4 DEF Tidy, RecordDraws
    <2>2. IsDrawn(Recording(record[b], content[b][Len(content[b])]), content[b], inOrder[b])
      BY <1>4, <2>1, RecordedIsDrawn DEF Tidy
    <2> QED BY <1>1, <1>7, <2>2
  <1>9. Tidy(b)'
    <2>1. /\ Prepared(t, b)' /\ ~Records(t)' /\ ~At(t, "recordCreate")'
          /\ ~At(t, "remove")' /\ ~At(t, "release")'
          /\ ~At(t, "recordFinalize")' /\ ~At(t, "dump")'
      BY <1>6 DEF Prepared, Records
    <2>2. content'[b] \in Seq(Commands) /\ AllFit(content'[b]) /\ state'[b] # "free"
      BY <1>1, <1>4 DEF Tidy
    <2>3. call'[t].buffer \in {b, NULL} /\ (call'[t].buffer = NULL => Idle(t)')
      BY <1>4, <1>5, BufferAssumption
    <2>4. UNCHANGED <<refs, lost>>
      BY <1>1
    <2> QED BY <1>0, <1>2, <1>3, <1>5, <1>8, <2>1, <2>2, <2>3, <2>4, FillingTidy
  <1>10. Only(t, b)
    <2>1. \A c \in Buffers \ {b} : record'[c] = record[c]
      BY <1>1, <1>4 DEF Inv, Types
    <2> QED BY <1>0, <1>1, <1>4, <1>5, <2>1 DEF Only, Drawings
  <1> QED BY <1>4, <1>9, <1>10, OnlyDrawings

LEMMA RecordFinalizeDrawings ==
  ASSUME Inv, Drawings, NEW t \in Threads, RecordFinalize(t)
  PROVE  Drawings'
  <1>0. PICK b : b = call[t].buffer
    OBVIOUS
  <1>1. /\ At(t, "recordFinalize") /\ After(t)
        /\ record' = [record EXCEPT ![b] = recordFinalize(@)]
        /\ UNCHANGED <<state, refs, inOrder, content, lost>>
    BY <1>0 DEF RecordFinalize, driver, history
  <1>2. /\ b \in Buffers /\ t \in Using(b) /\ Prepared(t, b) /\ Tidy(b) /\ state[b] # "free"
    BY <1>0, <1>1, Filling DEF ReleaseSteps
  <1>3. /\ \A u \in Threads \ {t} : call'[u] = call[u]
        /\ call'[t].buffer = b /\ call'[t].todo = Tail(call[t].todo)
        /\ call'[t].todo # <<>> /\ Head(call'[t].todo) = "dump"
    BY <1>0, <1>1, AfterFacts, NextSteps DEF At
  <1>4. \A p : At(t, p)' <=> p = "dump"
    BY <1>3 DEF At, Idle
  <1>5. record'[b] = recordFinalize(record[b]) /\ state[b] # "recording"
    BY <1>1, <1>2 DEF Inv, Types, Prepared
  <1>6. b \notin lost => \E r : /\ IsDrawn(r, content'[b], inOrder'[b])
                                /\ record'[b].dot = Append(r.dot, [line |-> "end"])
    <2> SUFFICES ASSUME b \notin lost
                 PROVE  \E r : /\ IsDrawn(r, content'[b], inOrder'[b])
                               /\ record'[b].dot = Append(r.dot, [line |-> "end"])
      OBVIOUS
    <2>1. IsDrawn(record[b], content[b], inOrder[b])
      BY <1>1, <1>2 DEF Tidy, RecordDraws
    <2>2. DOMAIN record[b] = DOMAIN NoRecord
      BY <2>1 DEF IsDrawn
    <2>3. recordFinalize(record[b]).dot = Append(record[b].dot, [line |-> "end"])
      BY <2>2 DEF recordFinalize, NoRecord
    <2> QED BY <1>1, <1>5, <2>1, <2>3
  <1>7. Tidy(b)'
    <2>1. /\ Prepared(t, b)' /\ ~Records(t)' /\ ~At(t, "recordCreate")'
          /\ ~At(t, "remove")' /\ ~At(t, "release")' /\ ~At(t, "recordFinalize")'
      BY <1>1, <1>4, <1>5 DEF Prepared, Records
    <2>2. /\ content'[b] \in Seq(Commands) /\ AllFit(content'[b]) /\ state'[b] # "free"
          /\ state'[b] # "recording"
      BY <1>1, <1>2, <1>5 DEF Tidy
    <2>3. call'[t].buffer \in {b, NULL} /\ (call'[t].buffer = NULL => Idle(t)')
      BY <1>2, <1>3, BufferAssumption
    <2>4. "recordFinalize" \notin ReleaseSteps /\ UNCHANGED <<refs, lost>>
      BY <1>1 DEF ReleaseSteps
    <2> QED BY <1>0, <1>1, <1>3, <1>6, <2>1, <2>2, <2>3, <2>4, FillingTidy
  <1>8. Only(t, b)
    BY <1>0, <1>1, <1>2, <1>3 DEF Only, Drawings
  <1> QED BY <1>2, <1>7, <1>8, OnlyDrawings

LEMMA DumpDrawings ==
  ASSUME Inv, Drawings, NEW t \in Threads, DumpCommandBufferRecording(t)
  PROVE  Drawings'
  <1>0. PICK b : b = call[t].buffer
    OBVIOUS
  <1>1. /\ At(t, "dump") /\ After(t)
        /\ record' = [record EXCEPT ![b] = NoRecord]
        /\ content' = [content EXCEPT ![b] = <<>>]
        /\ inOrder' = [inOrder EXCEPT ![b] = FALSE]
        /\ UNCHANGED <<state, refs, lost>>
    BY <1>0 DEF DumpCommandBufferRecording, history
  <1>2. /\ b \in Buffers /\ t \in Using(b) /\ Prepared(t, b) /\ Tidy(b) /\ state[b] # "free"
    BY <1>0, <1>1, Filling DEF ReleaseSteps
  <1>3. /\ \A u \in Threads \ {t} : call'[u] = call[u]
        /\ call'[t].buffer = NULL /\ call'[t].todo = <<>>
    BY <1>0, <1>1, AfterFacts, NextSteps DEF At
  <1>4. \A p : ~At(t, p)'
    BY <1>3 DEF At, Idle
  <1>5. state[b] # "recording" /\ content'[b] = <<>>
    BY <1>1, <1>2 DEF Prepared, Drawings
  <1>6. Tidy(b)'
    <2>1. /\ Prepared(t, b)' /\ ~Records(t)' /\ ~At(t, "recordCreate")' /\ ~At(t, "dump")'
          /\ ~At(t, "remove")' /\ ~At(t, "release")' /\ ~At(t, "recordFinalize")'
      BY <1>4 DEF Prepared, Records
    <2>2. /\ content'[b] \in Seq(Commands) /\ AllFit(content'[b]) /\ state'[b] # "free"
          /\ state'[b] # "recording"
      BY <1>1, <1>2, <1>5, NoCommands
    <2>3. call'[t].buffer \in {b, NULL} /\ (call'[t].buffer = NULL => Idle(t)')
      BY <1>3 DEF Idle
    <2>4. "dump" \notin ReleaseSteps /\ UNCHANGED <<refs, lost>>
      BY <1>1 DEF ReleaseSteps
    <2> QED BY <1>0, <1>1, <1>3, <2>1, <2>2, <2>3, <2>4, FillingTidy
  <1>7. Only(t, b)
    <2>1. \A c \in Buffers \ {b} : /\ record'[c] = record[c] /\ content'[c] = content[c]
                                     /\ inOrder'[c] = inOrder[c]
      BY <1>1, <1>2 DEF Inv, Types, Drawings
    <2>2. DOMAIN content' = Buffers /\ DOMAIN inOrder' = Buffers
      BY <1>1 DEF Drawings
    <2> QED BY <1>0, <1>1, <1>2, <1>3, <2>1, <2>2 DEF Only
  <1> QED BY <1>2, <1>6, <1>7, OnlyDrawings

LEMMA DispatchFinalizeDrawings ==
  ASSUME Inv, Drawings, NEW t \in Threads, DispatchFinalize(t)
  PROVE  Drawings'
  <1>0. PICK b : b = call[t].buffer
    OBVIOUS
  <1>1. /\ At(t, "finalize")
        /\ UNCHANGED <<record, refs, inOrder, content, lost>>
        /\ \/ state' = [state EXCEPT ![b] = "executable"] /\ After(t)
           \/ Continues(t, call[t], Unconditional(call[t].todo)) /\ UNCHANGED state
    BY <1>0 DEF DispatchFinalize, layer, history
  <1>2. /\ b \in Buffers /\ t \in Using(b) /\ Prepared(t, b) /\ Tidy(b) /\ state[b] # "free"
    BY <1>0, <1>1, Filling DEF ReleaseSteps
  <1>3. /\ \A u \in Threads \ {t} : call'[u] = call[u]
        /\ \/ /\ state' = [state EXCEPT ![b] = "executable"]
              /\ call'[t].buffer = b /\ call'[t].todo # <<>>
              /\ Head(call'[t].todo) = "recordFinalize"
           \/ /\ UNCHANGED state
              /\ call'[t].buffer = NULL /\ call'[t].todo = <<>>
    <2>1. CASE state' = [state EXCEPT ![b] = "executable"] /\ After(t)
      BY <1>0, <1>1, <2>1, AfterFacts, NextSteps DEF At
    <2>2. CASE Continues(t, call[t], Unconditional(call[t].todo)) /\ UNCHANGED state
      <3>1. Unconditional(call[t].todo) = <<>>
        BY <1>1, UnconditionalFacts DEF At, Idle, Inv, Types, Locals
      <3>2. call' = [call EXCEPT ![t] = NoCall]
        BY <2>2, <3>1 DEF Continues
      <3>3. call'[t] = NoCall /\ \A u \in Threads \ {t} : call'[u] = call[u]
        BY <3>2 DEF Inv, Types, Locals
      <3> QED BY <2>2, <3>3, NoCallIsIdle
    <2> QED BY <1>1, <2>1, <2>2
  <1>4. b \notin lost => IsDrawn(record'[b], content'[b], inOrder'[b])
    BY <1>0, <1>1, FillingCurrent
  <1>5. Tidy(b)'
    <2>1. \A p : At(t, p)' => p = "recordFinalize" /\ state'[b] # "recording"
      BY <1>2, <1>3 DEF At, Idle, Inv, Types
    <2>2. /\ Prepared(t, b)' /\ ~Records(t)' /\ ~At(t, "recordCreate")' /\ ~At(t, "dump")'
          /\ ~At(t, "remove")' /\ ~At(t, "release")'
      BY <2>1 DEF Prepared, Records
    <2>3. /\ content'[b] \in Seq(Commands) /\ AllFit(content'[b]) /\ state'[b] # "free"
      BY <1>1, <1>2, <1>3 DEF Tidy, Inv, Types
    <2>4. call'[t].buffer \in {b, NULL} /\ (call'[t].buffer = NULL => Idle(t)')
      BY <1>2, <1>3, BufferAssumption DEF Idle
    <2>5. "finalize" \notin ReleaseSteps /\ UNCHANGED <<refs, lost>>
      BY <1>1 DEF ReleaseSteps
    <2> QED BY <1>0, <1>1, <1>3, <1>4, <2>2, <2>3, <2>4, <2>5, FillingTidy
  <1>6. Only(t, b)
    BY <1>0, <1>1, <1>2, <1>3 DEF Only, Drawings, Inv, Types
  <1> QED BY <1>2, <1>5, <1>6, OnlyDrawings
LEMMA DispatchCommandDrawings ==
  ASSUME Inv, Drawings, NEW t \in Threads, DispatchCommand(t)
  PROVE  Drawings'
  <1>0. PICK b, x, n : b = call[t].buffer /\ x = call[t].command /\ n = Len(content[b]) + 1
    OBVIOUS
  <1>1. /\ At(t, "command") /\ content' = [content EXCEPT ![b] = Append(@, x)]
        /\ UNCHANGED <<record, state, refs, inOrder, lost>>
    BY <1>0 DEF DispatchCommand, layer
  <1>2. PICK m : Continues(t, [call[t] EXCEPT !.mutable = m], Tail(call[t].todo))
    BY DEF DispatchCommand
  <1>3. /\ b \in Buffers /\ t \in Using(b) /\ Prepared(t, b) /\ Tidy(b) /\ state[b] # "free"
    BY <1>0, <1>1, Filling DEF ReleaseSteps
  <1>4. /\ state[b] = "recording" /\ x \in Commands /\ Fits(content[b], x, n)
        /\ call[t].todo = IF x.barrier THEN <<"command", "recordBarrier", "addMutable">>
                          ELSE <<"command", "recordCommand", "addMutable">>
    BY <1>0, <1>1, <1>3 DEF Prepared
  <1>5. PICK s : s = Tail(call[t].todo)
    OBVIOUS
  <1>6. /\ s = IF x.barrier THEN <<"recordBarrier", "addMutable">>
               ELSE <<"recordCommand", "addMutable">>
        /\ s # <<>> /\ s \in Programs
    BY <1>4, <1>5 DEF Programs
  <1>7. /\ \A u \in Threads \ {t} : call'[u] = call[u]
        /\ call'[t].buffer = b /\ call'[t].todo = s /\ call'[t].command = x
    <2> DEFINE c == [call[t] EXCEPT !.mutable = m]
    <2>1. DOMAIN c = DOMAIN NoCall /\ c.buffer = b /\ c.command = x
      BY <1>0 DEF Inv, Types, Locals, NoCall
    <2>2. Continues(t, c, s)
      BY <1>2, <1>5
    <2> HIDE DEF c
    <2>3. Others(t) /\ call'[t].todo = s /\ call'[t].buffer = b
      BY <1>3, <1>6, <2>1, <2>2, ContinuesUpdate DEF Inv, Types
    <2>4. call'[t].command = x
      BY <1>6, <2>1, <2>2, CommandUpdates DEF Inv, Types
    <2> QED BY <2>3, <2>4 DEF Others
  <1>8. /\ ~Idle(t)' /\ (At(t, "recordBarrier")' <=> x.barrier)
        /\ \A p : At(t, p)' => p \in {"recordBarrier", "recordCommand"}
    <2>1. CASE x.barrier
      BY <1>6, <1>7, <2>1 DEF At, Idle
    <2>2. CASE ~x.barrier
      BY <1>6, <1>7, <2>2 DEF At, Idle
    <2> QED BY <2>1, <2>2
  <1>9. content'[b] = Append(content[b], x)
    BY <1>1, <1>3 DEF Drawings
  <1>10. /\ content'[b] \in Seq(Commands) /\ Len(content'[b]) = n /\ content'[b][n] = x
         /\ Lengthens(content[b], content'[b], n)
    <2>1. content[b] \in Seq(Commands)
      BY <1>3 DEF Tidy
    <2>2. /\ n \in Nat \ {0} /\ n - 1 = Len(content[b])
      BY <1>0, <2>1
    <2>3. /\ content'[b] \in Seq(Commands) /\ Len(content'[b]) = n /\ content'[b][n] = x
          /\ \A k \in 1 .. n - 1 : content'[b][k] = content[b][k]
      BY <1>0, <1>4, <1>9, <2>1, <2>2, AppendProperties
    <2> QED BY <2>1, <2>2, <2>3 DEF Lengthens
  <1>11. AllFit(content'[b])
    <2> SUFFICES ASSUME NEW i \in 1 .. n PROVE Fits(content'[b], content'[b][i], i)
      BY <1>10 DEF AllFit
    <2>1. \A k \in 1 .. n - 1 : content'[b][k] = content[b][k]
      BY <1>10 DEF Lengthens
    <2>2. n \in Nat \ {0} /\ Len(content[b]) = n - 1
      BY <1>10 DEF Lengthens
    <2>3. \A j \in 1 .. i - 1 : j \in 1 .. n - 1
      BY <2>2
    <2>4. Fits(content[b], content'[b][i], i)
      <3>1. CASE i = n
        BY <1>4, <1>10, <3>1
      <3>2. CASE i # n
        <4>1. i \in 1 .. n - 1
          BY <2>2, <3>2
        <4> QED BY <1>3, <2>1, <2>2, <4>1 DEF Tidy, AllFit
      <3> QED BY <3>1, <3>2
    <2> QED BY <2>1, <2>3, <2>4 DEF Fits
  <1>12. b \notin lost => \E c : /\ Lengthens(c, content'[b], Len(content'[b]))
                                 /\ IsDrawn(record'[b], c, inOrder'[b])
    <2> SUFFICES ASSUME b \notin lost
                 PROVE  \E c : /\ Lengthens(c, content'[b], Len(content'[b]))
                               /\ IsDrawn(record'[b], c, inOrder'[b])
      OBVIOUS
    <2>1. IsDrawn(record[b], content[b], inOrder[b])
      BY <1>0, <1>1, FillingCurrent
    <2> QED BY <1>1, <1>10, <2>1
  <1>13. Tidy(b)'
    <2>1. /\ ~At(t, "recordCreate")' /\ ~At(t, "dump")' /\ ~At(t, "recordFinalize")'
          /\ ~At(t, "remove")' /\ ~At(t, "release")' /\ Entering(t)'
      <3>1. At(t, "recordBarrier")' \/ At(t, "recordCommand")'
        BY <1>6, <1>7, <1>8 DEF At
      <3> QED BY <1>8, <3>1 DEF Entering, Records
    <2>2. Prepared(t, b)'
      <3>1. n # 0
        BY <1>10 DEF Lengthens
      <3>2. ~At(t, "command")' /\ ~At(t, "finalize")' /\ state'[b] = "recording"
        BY <1>1, <1>4, <1>8
      <3> QED BY <1>7, <1>8, <1>10, <2>1, <3>1, <3>2 DEF Prepared
    <2>3. content'[b] \in Seq(Commands) /\ state'[b] # "free"
      BY <1>1, <1>3, <1>10
    <2>4. call'[t].buffer \in {b, NULL} /\ (call'[t].buffer = NULL => Idle(t)')
      BY <1>3, <1>7, BufferAssumption
    <2>5. "command" \notin ReleaseSteps /\ UNCHANGED <<refs, lost>>
      BY <1>1 DEF ReleaseSteps
    <2> QED BY <1>0, <1>1, <1>7, <1>11, <1>12, <2>1, <2>2, <2>3, <2>4, <2>5, FillingTidy
  <1>14. Only(t, b)
    <2>1. \A c \in Buffers \ {b} : content'[c] = content[c]
      BY <1>1, <1>3 DEF Drawings
    <2>2. DOMAIN content' = Buffers /\ DOMAIN inOrder' = Buffers
      BY <1>1 DEF Drawings
    <2> QED BY <1>0, <1>1, <1>3, <1>7, <2>1, <2>2 DEF Only
  <1> QED BY <1>3, <1>13, <1>14, OnlyDrawings

-----------------------------------------------------------------------------
(* Steps that fill nothing.                                                  *)

\* t's step leaves buffer b as it is, and so does its next one.
LEMMA PassiveDrawings ==
  ASSUME Inv, Drawings, NEW t \in Threads, NEW b \in Buffers, Only(t, b),
         call'[t].buffer = NULL => Idle(t)',
         record'[b] = record[b], content'[b] = content[b], inOrder'[b] = inOrder[b],
         state'[b] = state[b],
         b \in lost => b \in lost',
         t \notin Using(b) \/ (~Entering(t) /\ (At(t, "release") => refs[b] # 1)) \/ b \in lost',
         \A s \in {"recordCreate", "recordCommand", "recordBarrier", "recordFinalize", "dump"} :
            ~At(t, s)',
         \A u \in Using(b) \ {t} : At(u, "release")' => (refs'[b] = 1 <=> refs[b] = 1),
         t \in Recorders(b)' => t \in Recorders(b) \/ Recorders(b) = {},
         At(t, "command")' \/ At(t, "finalize")' => Prepared(t, b)'
  PROVE  Drawings'
  <1>0. b # NULL
    BY BufferAssumption
  <1>1. \A u \in Using(b)' \ {t} : u \in Using(b) \ {t} /\ call'[u] = call[u]
    BY DEF Only, Using
  <1>2. \A u \in Using(b) \ {t} : u \in Using(b)' \ {t} /\ call'[u] = call[u]
    BY DEF Only, Using
  <1>3. ASSUME NEW u \in Using(b)' \ {t}, NEW s PROVE At(u, s)' <=> At(u, s)
    BY <1>1 DEF At, Idle
  <1>4. Tidy(b)
    BY DEF Drawings
  <1>5. \A u, v \in Recorders(b)' : u = v
    <2>1. \A u \in Recorders(b)' \ {t} : u \in Recorders(b)
      BY <1>1, <1>3 DEF Recorders
    <2> QED BY <1>4, <2>1 DEF Tidy
  <1>6. ASSUME NEW u \in Using(b)' PROVE Prepared(u, b)'
    <2>1. CASE u = t
      BY <2>1 DEF Prepared, Records
    <2>2. CASE u # t
      <3>1. Prepared(u, b) /\ call'[u] = call[u]
        BY <1>1, <1>4, <2>2 DEF Tidy
      <3>2. \A s : At(u, s)' <=> At(u, s)
        BY <1>3, <2>2
      <3> QED BY <3>1, <3>2 DEF Prepared, Records
    <2> QED BY <2>1, <2>2
  <1>7. ASSUME b \notin lost' PROVE RecordDraws(b)'
    <2>1. RecordDraws(b)
      BY <1>4, <1>7 DEF Tidy
    <2>2. Current(b)' => Current(b)
      <3> SUFFICES ASSUME Current(b)' PROVE Current(b)
        OBVIOUS
      <3>1. ASSUME NEW u \in Using(b), u # t
            PROVE  ~Entering(u) /\ ~(At(u, "release") /\ refs[b] = 1)
        <4>1. u \in Using(b)' \ {t}
          BY <1>2, <3>1
        <4>2. ~Entering(u)' /\ ~(At(u, "release")' /\ refs'[b] = 1)
          BY <4>1 DEF Current
        <4>3. \A s : At(u, s)' <=> At(u, s)
          BY <1>3, <4>1
        <4> QED BY <3>1, <4>2, <4>3 DEF Entering, Records
      <3> QED BY <1>7, <3>1 DEF Current
    <2>3. \A u \in Using(b)' \ {t} : \A s : At(u, s)' <=> At(u, s)
      BY <1>3
    <2> QED BY <1>1, <2>1, <2>2, <2>3 DEF RecordDraws, Records
  <1>8. Tidy(b)'
    BY <1>4, <1>5, <1>6, <1>7 DEF Tidy
  <1> QED BY <1>8, OnlyDrawings
\* t's handler returns, or goes on with "release", and its step fills nothing.
LEMMA AddInfoDrawings ==
  ASSUME Inv, Drawings, NEW t \in Threads,
         AddCommandBufferInfo(t) \/ AddMutableCommandInfo(t)
  PROVE  Drawings'
  <1>0. PICK b : b = call[t].buffer
    OBVIOUS
  <1>2. /\ (At(t, "addInfo") \/ At(t, "addMutable")) /\ After(t) /\ ~Idle(t)
        /\ UNCHANGED <<record, state, refs, inOrder, content, lost>>
    BY DEF AddCommandBufferInfo, AddMutableCommandInfo, driver, history, At
  <1>3. /\ b \in Buffers /\ \A u \in Threads \ {t} : call'[u] = call[u]
        /\ call'[t].buffer = NULL /\ call'[t].todo = <<>>
    BY <1>0, <1>2, AfterFacts, NextSteps DEF At
  <1>4. \A s : ~At(t, s)'
    BY <1>3 DEF At, Idle
  <1>5. t \notin Recorders(b)' /\ ~Entering(t) /\ ~At(t, "release") /\ Idle(t)'
    BY <1>2, <1>3, BufferAssumption DEF Recorders, Using, Entering, Records, At, Idle
  <1>6. Only(t, b)
    BY <1>0, <1>2, <1>3 DEF Only, Drawings
  <1> QED BY <1>2, <1>3, <1>4, <1>5, <1>6, PassiveDrawings

LEMMA RefuseCommandDrawings ==
  ASSUME Inv, Drawings, NEW t \in Threads, RefuseCommand(t)
  PROVE  Drawings'
  <1>0. PICK b : b = call[t].buffer
    OBVIOUS
  <1>1. /\ At(t, "command") /\ UNCHANGED <<record, state, refs, inOrder, content, lost>>
    BY DEF RefuseCommand, layer, driver
  <1>2. PICK m : Continues(t, [call[t] EXCEPT !.mutable = m], Unconditional(call[t].todo))
    BY DEF RefuseCommand
  <1>3. Unconditional(call[t].todo) = <<"addMutable">>
    BY <1>1, UnconditionalFacts DEF At, Inv, Types, Locals, Idle
  <1>4. b \in Buffers /\ t \in Recorders(b)
    BY <1>0, <1>1, Filling DEF ReleaseSteps
  <1>5. /\ \A u \in Threads \ {t} : call'[u] = call[u]
        /\ call'[t].buffer = b /\ call'[t].todo = <<"addMutable">>
    <2> DEFINE c == [call[t] EXCEPT !.mutable = m]
    <2>1. DOMAIN c = DOMAIN NoCall /\ c.buffer = b
      BY <1>0 DEF Inv, Types, Locals, NoCall
    <2>2. Continues(t, c, <<"addMutable">>) /\ <<"addMutable">> \in Programs
      BY <1>2, <1>3 DEF Programs
    <2> HIDE DEF c
    <2>3. <<"addMutable">> # <<>>
      OBVIOUS
    <2>4. /\ Others(t) /\ call'[t].todo = <<"addMutable">>
          /\ call'[t].buffer = IF <<"addMutable">> = <<>> THEN NULL ELSE c.buffer
      BY <1>4, <2>1, <2>2, ContinuesUpdate DEF Inv, Types
    <2> QED BY <2>1, <2>3, <2>4 DEF Others
  <1>6. \A s : At(t, s)' => s = "addMutable"
    BY <1>5 DEF At, Idle
  <1>7. ~Entering(t) /\ ~At(t, "release") /\ b # NULL
    BY <1>1, <1>4, BufferAssumption DEF Entering, Records, At
  <1>8. Only(t, b)
    BY <1>0, <1>1, <1>5 DEF Only, Drawings
  <1> QED BY <1>1, <1>4, <1>5, <1>6, <1>7, <1>8, PassiveDrawings

\* A call with b begins.
LEMMA BeginsDrawings ==
  ASSUME Inv, Drawings, NEW t \in Threads, NEW b \in Buffers, Idle(t),
         UNCHANGED <<record, state, refs, inOrder, content, lost>>,
         NEW c, DOMAIN c = DOMAIN NoCall, c.buffer = b,
         NEW steps \in Programs, steps # <<>>, Continues(t, c, steps),
         Head(steps) \in {"command", "finalize", "remove"},
         Head(steps) # "remove" => Recorders(b) = {} /\ state[b] = "recording",
         Head(steps) = "command" =>
            /\ c.command \in Commands /\ Fits(content[b], c.command, Len(content[b]) + 1)
            /\ steps = IF c.command.barrier
                       THEN <<"command", "recordBarrier", "addMutable">>
                       ELSE <<"command", "recordCommand", "addMutable">>
  PROVE  Drawings'
  <1>1. Enters(t, b) /\ call'[t].todo = steps
    BY BeginsUpdate DEF Inv
  <1>2. /\ \A u \in Threads \ {t} : call'[u] = call[u]
        /\ call'[t].buffer = b /\ ~Idle(t)' /\ call'[t].command = c.command
    BY <1>1, CommandUpdates DEF Enters, Others, Inv, Types
  <1>3. call[t].buffer = NULL /\ b # NULL
    BY BufferAssumption DEF Inv, Types, Locals
  <1>4. \A s : At(t, s)' <=> s = Head(steps)
    BY <1>1, <1>2 DEF At
  <1>5. t \notin Using(b)
    BY <1>3 DEF Using
  <1>6. t \in Recorders(b)' => Recorders(b) = {}
    BY <1>4 DEF Recorders
  <1>7. At(t, "command")' \/ At(t, "finalize")' => Prepared(t, b)'
    <2>1. ~At(t, "recordCreate")' /\ ~Records(t)' /\ ~At(t, "recordFinalize")' /\ ~At(t, "dump")'
      BY <1>4 DEF Records
    <2> QED BY <1>1, <1>2, <1>4, <2>1 DEF Prepared
  <1>8. Only(t, b)
    BY <1>2, <1>3 DEF Only, Drawings
  <1>9. \A s \in {"recordCreate", "recordCommand", "recordBarrier", "recordFinalize", "dump"} :
            ~At(t, s)'
    BY <1>4
  <1> QED BY <1>2, <1>3, <1>5, <1>6, <1>7, <1>8, <1>9, PassiveDrawings

LEMMA BeginCommandDrawings ==
  ASSUME Inv, Drawings, NEW t \in Threads, NEW b \in Buffers, BeginCommand(t, b)
  PROVE  Drawings'
  <1>1. /\ Idle(t) /\ state[b] = "recording" /\ Recorders(b) = {}
        /\ Len(content[b]) < MaxCommands
        /\ UNCHANGED <<record, state, refs, inOrder, content, lost>>
    BY DEF BeginCommand, layer, driver
  <1>2. PICK h \in CommandHandlers, wanted \in BOOLEAN,
             waits \in SUBSET {content[b][i].point : i \in DOMAIN content[b]} :
            Continues(t, [NoCall EXCEPT !.buffer = b,
                            !.command = [barrier |-> h.barrier, waits |-> waits \ {0},
                                         point |-> IF wanted THEN Len(content[b]) + 1 ELSE 0]],
                      h.steps)
    BY DEF BeginCommand
  <1>3. PICK x : x = [barrier |-> h.barrier, waits |-> waits \ {0},
                      point |-> IF wanted THEN Len(content[b]) + 1 ELSE 0]
    OBVIOUS
  <1>4. Tidy(b) /\ content[b] \in Seq(Commands)
    BY DEF Drawings, Tidy
  <1>5. /\ h.barrier \in BOOLEAN
        /\ h.steps = IF h.barrier THEN <<"command", "recordBarrier", "addMutable">>
                     ELSE <<"command", "recordCommand", "addMutable">>
    <2>1. \/ h = Recorded(TRUE, "recordBarrier") \/ h = Recorded(FALSE, "recordCommand")
      BY DEF CommandHandlers, clCommandBarrierWithWaitListKHR,
             clCommandCopyBufferKHR, clCommandCopyBufferRectKHR, clCommandCopyBufferToImageKHR,
             clCommandCopyImageKHR, clCommandCopyImageToBufferKHR, clCommandFillBufferKHR,
             clCommandFillImageKHR, clCommandSVMMemcpyKHR, clCommandSVMMemFillKHR,
             clCommandNDRangeKernelKHR
    <2>2. CASE h = Recorded(TRUE, "recordBarrier")
      BY <2>2 DEF Recorded
    <2>3. CASE h = Recorded(FALSE, "recordCommand")
      BY <2>3 DEF Recorded
    <2> QED BY <2>1, <2>2, <2>3
  <1>6. DOMAIN content[b] = 1 .. Len(content[b]) /\ Len(content[b]) \in Nat
    BY <1>4
  <1>7. \A i \in DOMAIN content[b] : content[b][i].point \in Points \cup {0}
    <2>1. \A i \in DOMAIN content[b] : content[b][i] \in Commands
      BY <1>4
    <2> QED BY <2>1 DEF Commands
  <1>8. x \in Commands
    <2>1. x.waits \subseteq Points
      BY <1>3, <1>7
    <2>2. x.point \in Points \cup {0}
      BY <1>1, <1>3, <1>6, BufferAssumption DEF Points
    <2> QED BY <1>3, <1>5, <2>1, <2>2 DEF Commands
  <1>9. Fits(content[b], x, Len(content[b]) + 1)
    <2>1. ASSUME NEW p \in x.waits
          PROVE  p # 0 /\ \E j \in 1 .. Len(content[b]) + 1 - 1 : content[b][j].point = p
      <3>1. PICK i \in DOMAIN content[b] : p = content[b][i].point
        BY <1>3
      <3>2. i \in 1 .. Len(content[b]) + 1 - 1
        BY <1>6
      <3> QED BY <1>3, <3>1, <3>2
    <2>2. x.point \in {0, Len(content[b]) + 1}
      BY <1>3
    <2> QED BY <2>1, <2>2 DEF Fits
  <1> DEFINE c == [NoCall EXCEPT !.buffer = b, !.command = x]
  <1>10. DOMAIN c = DOMAIN NoCall /\ c.buffer = b /\ c.command = x
    BY DEF NoCall
  <1>11. Continues(t, c, h.steps)
    BY <1>2, <1>3
  <1>12. /\ h.steps \in Programs /\ h.steps # <<>> /\ Head(h.steps) = "command"
    BY CommandProgram
  <1>13. h.steps = IF x.barrier THEN <<"command", "recordBarrier", "addMutable">>
                   ELSE <<"command", "recordCommand", "addMutable">>
    BY <1>3, <1>5
  <1> HIDE DEF c
  <1> QED BY <1>1, <1>8, <1>9, <1>10, <1>11, <1>12, <1>13, BeginsDrawings

LEMMA BeginFinalizeDrawings ==
  ASSUME Inv, Drawings, NEW t \in Threads, NEW b \in Buffers, BeginFinalize(t, b)
  PROVE  Drawings'
  <1>1. /\ Idle(t) /\ state[b] = "recording" /\ Recorders(b) = {}
        /\ Continues(t, [NoCall EXCEPT !.buffer = b], clFinalizeCommandBufferKHR)
        /\ UNCHANGED <<record, state, refs, inOrder, content, lost>>
    BY DEF BeginFinalize, layer, driver, history
  <1> DEFINE c == [NoCall EXCEPT !.buffer = b]
  <1>2. DOMAIN c = DOMAIN NoCall /\ c.buffer = b /\ Continues(t, c, clFinalizeCommandBufferKHR)
    BY <1>1 DEF NoCall
  <1>3. /\ clFinalizeCommandBufferKHR \in Programs /\ clFinalizeCommandBufferKHR # <<>>
        /\ Head(clFinalizeCommandBufferKHR) = "finalize"
    BY DEF clFinalizeCommandBufferKHR, Programs
  <1> HIDE DEF c
  <1> QED BY <1>1, <1>2, <1>3, BeginsDrawings

LEMMA BeginReleaseDrawings ==
  ASSUME Inv, Drawings, NEW t \in Threads, NEW b \in Buffers, BeginRelease(t, b)
  PROVE  Drawings'
  <1>1. /\ Idle(t)
        /\ Continues(t, [NoCall EXCEPT !.buffer = b], clReleaseCommandBufferKHR)
        /\ UNCHANGED <<record, state, refs, inOrder, content, lost>>
    BY DEF BeginRelease, layer, driver, history
  <1> DEFINE c == [NoCall EXCEPT !.buffer = b]
  <1>2. DOMAIN c = DOMAIN NoCall /\ c.buffer = b /\ Continues(t, c, clReleaseCommandBufferKHR)
    BY <1>1 DEF NoCall
  <1>3. /\ clReleaseCommandBufferKHR \in Programs /\ clReleaseCommandBufferKHR # <<>>
        /\ Head(clReleaseCommandBufferKHR) = "remove"
    BY DEF clReleaseCommandBufferKHR, Programs
  <1> HIDE DEF c
  <1> QED BY <1>1, <1>2, <1>3, BeginsDrawings

LEMMA RetainDrawings ==
  ASSUME Inv, Drawings, NEW t \in Threads, NEW b \in Buffers, Retain(t, b)
  PROVE  Drawings'
  <1>1. /\ Idle(t) /\ state[b] # "free" /\ Spare(b) /\ refs' = [refs EXCEPT ![b] = @ + 1]
        /\ UNCHANGED <<call, record, state, inOrder, content, lost>>
    BY DEF Retain, layer
  <1>2. call[t].buffer = NULL /\ b # NULL
    BY <1>1, BufferAssumption DEF Inv, Types, Locals
  <1>3. refs[b] \in Nat \ {0} /\ refs'[b] = refs[b] + 1
    BY <1>1 DEF Inv, Types
  <1>4. refs[b] = 1 => Using(b) = {}
    <2> SUFFICES ASSUME refs[b] = 1, NEW u \in Using(b) PROVE FALSE
      OBVIOUS
    <2>1. Using(b) = {u}
      BY LastReferenceHasOneUser
    <2>2. Cardinality(Using(b)) = 1
      BY <2>1, FS_Singleton
    <2> QED BY <1>1, <2>2 DEF Spare
  <1>5. Only(t, b)
    BY <1>1, <1>2 DEF Only, Drawings, Inv, Types
  <1>6. t \notin Using(b) /\ t \notin Recorders(b)' /\ Idle(t)' /\ \A s : ~At(t, s)'
    BY <1>1, <1>2 DEF Using, Recorders, Idle, At
  <1>7. \A u \in Using(b) \ {t} : At(u, "release")' => (refs'[b] = 1 <=> refs[b] = 1)
    BY <1>3, <1>4
  <1> QED BY <1>1, <1>5, <1>6, <1>7, PassiveDrawings
-----------------------------------------------------------------------------
(* Releases and creations.                                                   *)

LEMMA RemoveDrawings ==
  ASSUME Inv, Drawings, NEW t \in Threads, CheckRemoveCommandBufferInfo(t)
  PROVE  Drawings'
  <1>0. PICK b : b = call[t].buffer
    OBVIOUS
  <1>1. /\ At(t, "remove") /\ ~Idle(t) /\ After(t)
        /\ \/ refs[b] = 1 /\ record' = [record EXCEPT ![b] = NoRecord]
           \/ UNCHANGED record
        /\ UNCHANGED <<state, refs, inOrder, content, lost>>
    BY <1>0 DEF CheckRemoveCommandBufferInfo, driver, history, At
  <1>2. /\ b \in Buffers /\ t \in Using(b) /\ \A u \in Threads \ {t} : call'[u] = call[u]
        /\ call'[t].buffer = b /\ call'[t].todo = Tail(call[t].todo)
        /\ call'[t].todo # <<>> /\ Head(call'[t].todo) = "release"
    BY <1>0, <1>1, AfterFacts, NextSteps DEF At
  <1>3. (\A s : At(t, s)' <=> s = "release") /\ b # NULL
    BY <1>2, BufferAssumption DEF At, Idle
  <1>4. Only(t, b)
    BY <1>0, <1>1, <1>2 DEF Only, Drawings, Inv, Types
  <1>5. CASE record' = record
    <2>1. ~Entering(t) /\ ~At(t, "release")
      BY <1>1 DEF Entering, Records, At
    <2>2. t \notin Recorders(b)'
      BY <1>3 DEF Recorders
    <2> QED BY <1>1, <1>2, <1>3, <1>4, <1>5, <2>1, <2>2, PassiveDrawings
  <1>6. CASE refs[b] = 1
    <2>1. Using(b) = {t} /\ Tidy(b)
      BY <1>2, <1>6, LastReferenceHasOneUser DEF Drawings
    <2>2. Using(b)' = {t}
      BY <1>2, <2>1 DEF Using
    <2>3. \A u, v \in Recorders(b)' : u = v
      BY <2>2 DEF Recorders
    <2>4. Prepared(t, b)'
      BY <1>3 DEF Prepared, Records
    <2>5. RecordDraws(b)'
      BY <1>1, <1>3, <1>6, <2>2 DEF RecordDraws, Current, Records
    <2>6. Tidy(b)'
      BY <1>1, <2>1, <2>2, <2>3, <2>4, <2>5 DEF Tidy
    <2> QED BY <1>2, <1>4, <2>6, OnlyDrawings
  <1> QED BY <1>1, <1>5, <1>6

LEMMA DispatchReleaseDrawings ==
  ASSUME Inv, Drawings, NEW t \in Threads, DispatchRelease(t)
  PROVE  Drawings'
  <1>0. PICK b : b = call[t].buffer
    OBVIOUS
  <1>1. /\ At(t, "release") /\ ~Idle(t) /\ After(t)
        /\ refs' = [refs EXCEPT ![b] = @ - 1]
        /\ state' = [state EXCEPT ![b] = IF refs[b] = 1 THEN "free" ELSE @]
        /\ content' = [content EXCEPT ![b] = IF refs[b] = 1 THEN <<>> ELSE @]
        /\ inOrder' = [inOrder EXCEPT ![b] = IF refs[b] = 1 THEN FALSE ELSE @]
        /\ UNCHANGED <<record, lost>>
    BY <1>0 DEF DispatchRelease, layer, history, At
  <1>2. /\ b \in Buffers /\ t \in Using(b) /\ \A u \in Threads \ {t} : call'[u] = call[u]
        /\ call'[t].buffer = NULL /\ call'[t].todo = <<>>
    BY <1>0, <1>1, AfterFacts, NextSteps DEF At
  <1>3. (\A s : ~At(t, s)') /\ b # NULL /\ Idle(t)'
    BY <1>2, BufferAssumption DEF At, Idle
  <1>4. Only(t, b)
    <2>1. \A c \in Buffers \ {b} : /\ content'[c] = content[c] /\ inOrder'[c] = inOrder[c]
                                   /\ state'[c] = state[c] /\ refs'[c] = refs[c]
      BY <1>1, <1>2 DEF Inv, Types, Drawings
    <2>2. DOMAIN content' = Buffers /\ DOMAIN inOrder' = Buffers
      BY <1>1 DEF Drawings
    <2> QED BY <1>0, <1>1, <1>2, <2>1, <2>2 DEF Only
  <1>5. CASE refs[b] = 1
    <2>1. Using(b) = {t}
      BY <1>2, <1>5, LastReferenceHasOneUser
    <2>2. Using(b)' = {} /\ Recorders(b)' = {}
      BY <1>2, <1>3, <2>1 DEF Using, Recorders
    <2>3. content'[b] = <<>> /\ state'[b] = "free"
      BY <1>1, <1>2, <1>5 DEF Inv, Types, Drawings
    <2>4. Tidy(b)'
      BY <2>2, <2>3, NoCommands DEF Tidy, RecordDraws, Current
    <2> QED BY <1>2, <1>4, <2>4, OnlyDrawings
  <1>6. CASE refs[b] # 1
    <2>1. state'[b] = state[b] /\ content'[b] = content[b] /\ inOrder'[b] = inOrder[b]
      BY <1>1, <1>2, <1>6 DEF Inv, Types, Drawings
    <2>2. ~Entering(t)
      BY <1>1 DEF Entering, Records, At
    <2>3. ASSUME NEW u \in Using(b) \ {t} PROVE ~At(u, "release")'
      <3>1. ~At(u, "release")
        BY <1>0, <1>1, <2>3 DEF Inv, OneRelease, Removing, At, ReleaseSteps, Using
      <3> QED BY <1>2, <2>3, <3>1 DEF At, Idle, Using
    <2>4. t \notin Recorders(b)'
      BY <1>2, <1>3 DEF Recorders, Using
    <2> QED BY <1>1, <1>2, <1>3, <1>4, <1>6, <2>1, <2>2, <2>3, <2>4, PassiveDrawings
  <1> QED BY <1>5, <1>6

LEMMA RefuseReleaseDrawings ==
  ASSUME Inv, Drawings, NEW t \in Threads, RefuseRelease(t)
  PROVE  Drawings'
  <1>0. PICK b : b = call[t].buffer
    OBVIOUS
  <1>1. /\ At(t, "release") /\ ~Idle(t) /\ After(t) /\ lost' = lost \cup {b}
        /\ UNCHANGED <<record, state, refs, inOrder, content>>
    BY <1>0 DEF RefuseRelease, layer, driver, At
  <1>2. /\ b \in Buffers /\ t \in Using(b) /\ \A u \in Threads \ {t} : call'[u] = call[u]
        /\ call'[t].buffer = NULL /\ call'[t].todo = <<>>
    BY <1>0, <1>1, AfterFacts, NextSteps DEF At
  <1>3. (\A s : ~At(t, s)') /\ b # NULL /\ Idle(t)'
    BY <1>2, BufferAssumption DEF At, Idle
  <1>4. Only(t, b)
    BY <1>0, <1>1, <1>2 DEF Only, Drawings
  <1>5. b \in lost' /\ t \notin Recorders(b)'
    BY <1>1, <1>2, <1>3 DEF Recorders, Using
  <1> QED BY <1>1, <1>2, <1>3, <1>4, <1>5, PassiveDrawings

\* A new buffer, of which the layer knows nothing.
LEMMA CreatesDrawings ==
  ASSUME Inv, Drawings, NEW t \in Threads, Idle(t), NEW b \in Buffers,
         NEW newState, NEW ordered, NEW steps, NEW ms,
         NEW todo \in Programs, todo = Tail(steps), todo # <<>>,
         \/ newState = "recording" /\ Head(todo) = "recordCreate"
         \/ newState = "executable" /\ Head(todo) = "addInfo",
         Creates(t, b, newState, ordered, ms, steps)
  PROVE  Drawings'
  <1> DEFINE c == [NoCall EXCEPT !.buffer = b]
  <1>1. DOMAIN c = DOMAIN NoCall /\ c.buffer = b
    BY DEF NoCall
  <1>2. /\ Continues(t, c, todo) /\ state[b] = "free"
        /\ state' = [state EXCEPT ![b] = newState] /\ refs' = [refs EXCEPT ![b] = 1]
        /\ inOrder' = [inOrder EXCEPT ![b] = ordered]
        /\ UNCHANGED <<record, content, lost>>
    BY DEF Creates, layer
  <1> HIDE DEF c
  <1>3. Enters(t, b) /\ call'[t].todo = todo
    BY <1>1, <1>2, BeginsUpdate DEF Inv
  <1>4. /\ \A u \in Threads \ {t} : call'[u] = call[u]
        /\ call'[t].buffer = b /\ ~Idle(t)'
    BY <1>3 DEF Enters, Others
  <1>5. Using(b) = {}
    BY <1>2, FreeIsUnused DEF Inv, Types
  <1>6. Using(b)' = {t}
    BY <1>4, <1>5 DEF Using
  <1>7. \A s : At(t, s)' <=> s = Head(todo)
    BY <1>3, <1>4 DEF At
  <1>8. /\ content'[b] = <<>> /\ state'[b] = newState
        /\ (b \notin lost => record'[b] = NoRecord)
    BY <1>2 DEF Drawings, Tidy, Inv, Types, FreedBuffersAreForgotten
  <1>9. Tidy(b)'
    <2>1. \A u, v \in Recorders(b)' : u = v
      BY <1>6 DEF Recorders
    <2>2. Prepared(t, b)'
      BY <1>7, <1>8 DEF Prepared, Records
    <2>3. b \notin lost' => RecordDraws(b)'
      <3>1. ~Current(b)'
        <4>1. CASE newState = "recording"
          BY <1>6, <1>7, <4>1 DEF Current, Entering
        <4>2. CASE newState = "executable"
          BY <1>8, <4>2 DEF Current
        <4> QED BY <4>1, <4>2
      <3> QED BY <1>2, <1>6, <1>7, <1>8, <3>1 DEF RecordDraws, Records
    <2> QED BY <1>6, <1>8, <2>1, <2>2, <2>3, NoCommands DEF Tidy
  <1>10. Only(t, b)
    <2>1. call[t].buffer = NULL
      BY DEF Inv, Types, Locals
    <2>2. \A d \in Buffers \ {b} : /\ inOrder'[d] = inOrder[d] /\ state'[d] = state[d]
                                   /\ refs'[d] = refs[d]
      BY <1>2 DEF Inv, Types, Drawings
    <2>3. DOMAIN content' = Buffers /\ DOMAIN inOrder' = Buffers
      BY <1>2 DEF Drawings
    <2> QED BY <1>2, <1>4, <2>1, <2>2, <2>3 DEF Only
  <1> QED BY <1>9, <1>10, OnlyDrawings

LEMMA DispatchCreateDrawings ==
  ASSUME Inv, Drawings, NEW t \in Threads, NEW b \in Buffers, DispatchCreate(t, b)
  PROVE  Drawings'
  <1>1. PICK todo : todo = Tail(clCreateCommandBufferKHR)
    OBVIOUS
  <1>2. todo \in Programs /\ todo # <<>> /\ Head(todo) = "recordCreate"
    BY <1>1 DEF Programs, clCreateCommandBufferKHR
  <1>3. /\ Idle(t)
        /\ \E ordered \in BOOLEAN : Creates(t, b, "recording", ordered, {},
                                            clCreateCommandBufferKHR)
    BY DEF DispatchCreate
  <1> QED BY <1>1, <1>2, <1>3, CreatesDrawings

LEMMA DispatchRemapDrawings ==
  ASSUME Inv, Drawings, NEW t \in Threads, NEW b \in Buffers, NEW old \in Buffers,
         DispatchRemap(t, old, b)
  PROVE  Drawings'
  <1>1. PICK todo : todo = Tail(clRemapCommandBufferKHR)
    OBVIOUS
  <1>2. todo \in Programs /\ todo # <<>> /\ Head(todo) = "addInfo"
    BY <1>1 DEF Programs, clRemapCommandBufferKHR
  <1>3. Idle(t) /\ \E ms : Creates(t, b, "executable", FALSE, ms, clRemapCommandBufferKHR)
    BY DEF DispatchRemap
  <1> QED BY <1>1, <1>2, <1>3, CreatesDrawings

LEMMA NextDrawings ==
  ASSUME Inv, Drawings, [Next]_vars
  PROVE  Drawings'
  <1>1. CASE UNCHANGED vars
    <2>1. UNCHANGED <<call, record, content, inOrder, state, refs, lost>>
      BY <1>1 DEF vars, layer, driver, history
    <2>2. \A b \in Buffers : Same(b)
      BY <2>1 DEF Same, Using
    <2> QED BY <2>1, <2>2, SameTidy DEF Drawings
  <1>2. CASE Next
    <2>1. PICK t \in Threads : Step(t)
      BY <1>2 DEF Next
    <2> QED BY <2>1, RecordCreateDrawings, AddInfoDrawings, DispatchCommandDrawings,
               RefuseCommandDrawings, RecordCommandDrawings, DispatchFinalizeDrawings,
               RecordFinalizeDrawings, DumpDrawings, RemoveDrawings, DispatchReleaseDrawings,
               RefuseReleaseDrawings, DispatchCreateDrawings, DispatchRemapDrawings,
               BeginCommandDrawings, BeginFinalizeDrawings, RetainDrawings, BeginReleaseDrawings
            DEF Step
  <1> QED BY <1>1, <1>2

\* What is about to be written is the drawing of all commands, and an end.
LEMMA DrawingsAreRight == Inv /\ Drawings => DumpsAreRight
  <1> SUFFICES ASSUME Inv, Drawings, NEW t \in Threads, NEW b, b = call[t].buffer,
                      At(t, "dump"), b \notin lost, NEW dot, dot = record[b].dot
               PROVE  /\ dot # <<>> /\ dot[Len(dot)].line = "end"
                      /\ Draws(SubSeq(dot, 1, Len(dot) - 1), content[b], inOrder[b])
    BY DEF DumpsAreRight
  <1>1. b \in Buffers /\ t \in Using(b) /\ Tidy(b)
    BY DEF At, Inv, Types, Locals, Using, Drawings
  <1>2. content[b] \in Seq(Commands) /\ AllFit(content[b])
    BY <1>1 DEF Tidy
  <1>3. PICK r : IsDrawn(r, content[b], inOrder[b]) /\ dot = Append(r.dot, [line |-> "end"])
    BY <1>1 DEF Tidy, RecordDraws
  <1>4. PICK d, e : d = Drawing(content[b], inOrder[b]) /\ e = [line |-> "end"]
    OBVIOUS
  <1>5. dot = Append(d, e) /\ e.line = "end"
    BY <1>3, <1>4 DEF IsDrawn
  <1>6. PICK n : n = Len(content[b]) + 1
    OBVIOUS
  <1>7. n \in Nat /\ DOMAIN d = 1 .. n /\ d = [k \in 1 .. n |-> d[k]]
    BY <1>2, <1>4, <1>6 DEF Drawing
  <1> DEFINE T == {d[k] : k \in 1 .. n} \cup {e}
  <1>8. d \in Seq(T) /\ Len(d) = n
    BY <1>7
  <1>9. e \in T
    OBVIOUS
  <1> HIDE DEF T
  <1>10. /\ dot \in Seq(T) /\ Len(dot) = n + 1 /\ dot[n + 1] = e
         /\ \A k \in 1 .. n : dot[k] = d[k]
    BY <1>5, <1>7, <1>8, <1>9, AppendProperties
  <1>11. SubSeq(dot, 1, n) = d
    <2>1. /\ SubSeq(dot, 1, n) \in Seq(T) /\ Len(SubSeq(dot, 1, n)) = n
          /\ \A k \in 1 .. n : SubSeq(dot, 1, n)[k] = dot[k]
      BY <1>7, <1>10
    <2> QED BY <1>8, <1>10, <2>1, SeqEqual
  <1>12. Draws(d, content[b], inOrder[b])
    BY <1>2, <1>4, DrawingIsRight
  <1>13. Len(dot) - 1 = n /\ dot # <<>> /\ dot[Len(dot)] = e
    BY <1>7, <1>10
  <1> QED BY <1>5, <1>11, <1>12, <1>13

\* recordCommand, recordBarrier and dumpCommandBufferRecording: what is written
\* is one complete graph of the buffer's commands, and its paths are the
\* dependencies the driver obeys, no fewer and no more, whatever another buffer
\* with the same handle held before, as long as no two threads release their
\* references to a buffer at once.
THEOREM DumpsAlwaysRight ==
  ASSUME Overlapping = FALSE
  PROVE  Spec => []DumpsAreRight
  <1> DEFINE I == Inv /\ Drawings
  <1>1. Init => I
    BY InitInv, InitDrawings
  <1>2. I /\ [Next]_vars => I'
    BY NextInv, NextDrawings
  <1>3. I => DumpsAreRight
    BY DrawingsAreRight
  <1> QED BY <1>1, <1>2, <1>3, PTL DEF Spec
-----------------------------------------------------------------------------
(* Types, whether or not releases overlap and whatever was refused.          *)

\* What is left of a handler after i steps.
Left(h, i) == SubSeq(h, i + 1, Len(h))
IsLeft(s, h) ==
    \E i \in 0 .. Len(h) : s \in {Left(h, i), Unconditional(Left(h, i))}

LEMMA LeftSteps ==
  ASSUME NEW S, NEW h \in Seq(S)
  PROVE  /\ Left(h, 0) = h
         /\ \A i \in Nat : i < Len(h) => Left(h, i + 1) = Tail(Left(h, i))
  <1>1. Left(h, 0) = h
    BY SubSeqFull DEF Left
  <1>2. ASSUME NEW i \in Nat, i < Len(h) PROVE Left(h, i + 1) = Tail(Left(h, i))
    <2>1. /\ i + 1 \in 1 .. Len(h) /\ Len(h) \in (i + 1) .. Len(h)
          /\ Len(h) \in 1 .. Len(h) /\ (i + 1) + 1 \in Int
      BY <1>2
    <2> QED BY <2>1, HeadTailOfSubSeq DEF Left
  <1> QED BY <1>1, <1>2

LEMMA ThreeSteps ==
  ASSUME NEW a, NEW b, NEW c
  PROVE  \A s \in {<<a, b, c>>, <<b, c>>, <<c>>, <<>>} : IsLeft(s, <<a, b, c>>)
  <1> DEFINE h == <<a, b, c>>
  <1>1. /\ h \in Seq({a, b, c}) /\ Len(h) = 3 /\ Tail(h) = <<b, c>>
        /\ Tail(<<b, c>>) = <<c>> /\ Tail(<<c>>) = <<>>
    OBVIOUS
  <1> HIDE DEF h
  <1>2. Left(h, 0) = h
    BY <1>1, LeftSteps
  <1>3. Left(h, 1) = Tail(Left(h, 0)) /\ Left(h, 2) = Tail(Left(h, 1))
        /\ Left(h, 3) = Tail(Left(h, 2))
    <2>1. \A i \in Nat : i < 3 => Left(h, i + 1) = Tail(Left(h, i))
      BY <1>1, LeftSteps
    <2> QED BY <2>1
  <1>4. Left(h, 1) = <<b, c>>
    BY <1>1, <1>2, <1>3
  <1>5. Left(h, 2) = <<c>>
    BY <1>1, <1>3, <1>4
  <1>6. Left(h, 3) = <<>>
    BY <1>1, <1>3, <1>5
  <1>7. \A i \in {0, 1, 2, 3} : i \in 0 .. Len(h)
    BY <1>1
  <1>8. \A i \in {0, 1, 2, 3} : IsLeft(Left(h, i), h)
    BY <1>7 DEF IsLeft
  <1> QED BY <1>2, <1>4, <1>5, <1>6, <1>8 DEF h

LEMMA TwoSteps ==
  ASSUME NEW a, NEW b
  PROVE  \A s \in {<<a, b>>, <<b>>} : IsLeft(s, <<a, b>>)
  <1> DEFINE h == <<a, b>>
  <1>1. h \in Seq({a, b}) /\ Len(h) = 2 /\ Tail(h) = <<b>>
    OBVIOUS
  <1> HIDE DEF h
  <1>2. Left(h, 0) = h
    BY <1>1, LeftSteps
  <1>3. Left(h, 1) = Tail(Left(h, 0))
    <2>1. \A i \in Nat : i < 2 => Left(h, i + 1) = Tail(Left(h, i))
      BY <1>1, LeftSteps
    <2> QED BY <2>1
  <1>4. Left(h, 1) = <<b>>
    BY <1>1, <1>2, <1>3
  <1>5. \A i \in {0, 1} : i \in 0 .. Len(h)
    BY <1>1
  <1>6. \A i \in {0, 1} : IsLeft(Left(h, i), h)
    BY <1>5 DEF IsLeft
  <1> QED BY <1>2, <1>4, <1>6 DEF h

LEMMA ProgramsAreLeft ==
  ASSUME NEW s \in Programs
  PROVE  \E h \in Handlers : IsLeft(s, h)
  <1>1. /\ <<"create", "recordCreate", "addInfo">> \in Handlers
        /\ <<"finalize", "recordFinalize", "dump">> \in Handlers
        /\ <<"remove", "release">> \in Handlers
        /\ <<"command", "recordCommand", "addMutable">> \in Handlers
        /\ <<"command", "recordBarrier", "addMutable">> \in Handlers
    BY DEF Handlers, CommandHandlers, Recorded, clCreateCommandBufferKHR,
           clFinalizeCommandBufferKHR, clReleaseCommandBufferKHR, clCommandCopyBufferKHR,
           clCommandBarrierWithWaitListKHR
  <1>2. CASE s \in {<<"recordCreate", "addInfo">>, <<"addInfo">>, <<>>}
    <2>1. IsLeft(s, <<"create", "recordCreate", "addInfo">>)
      BY <1>2, ThreeSteps
    <2> QED BY <1>1, <2>1
  <1>3. CASE s \in {<<"finalize", "recordFinalize", "dump">>, <<"recordFinalize", "dump">>,
                    <<"dump">>}
    <2>1. IsLeft(s, <<"finalize", "recordFinalize", "dump">>)
      BY <1>3, ThreeSteps
    <2> QED BY <1>1, <2>1
  <1>4. CASE s \in {<<"remove", "release">>, <<"release">>}
    <2>1. IsLeft(s, <<"remove", "release">>)
      BY <1>4, TwoSteps
    <2> QED BY <1>1, <2>1
  <1>5. CASE s \in {<<"command", "recordCommand", "addMutable">>,
                    <<"recordCommand", "addMutable">>, <<"addMutable">>}
    <2>1. IsLeft(s, <<"command", "recordCommand", "addMutable">>)
      BY <1>5, ThreeSteps
    <2> QED BY <1>1, <2>1
  <1>6. CASE s \in {<<"command", "recordBarrier", "addMutable">>,
                    <<"recordBarrier", "addMutable">>}
    <2>1. IsLeft(s, <<"command", "recordBarrier", "addMutable">>)
      BY <1>6, ThreeSteps
    <2> QED BY <1>1, <2>1
  <1> QED BY <1>2, <1>3, <1>4, <1>5, <1>6 DEF Programs

\* The parts of TypeOK that Types does not have.
Arguments ==
    \A t \in Threads : call[t].command \in Commands /\ call[t].mutable \in Mutables \cup {NULL}

IsRecord(r) ==
    /\ DOMAIN r = DOMAIN NoRecord
    /\ r.queueIsInOrder \in BOOLEAN
    /\ r.implicitDeps \subseteq Ids
    /\ r.outstandingIds \subseteq Ids
    /\ r.nextInternalId \in Nat

Layered ==
    /\ DOMAIN record = Buffers /\ \A b \in Buffers : IsRecord(record[b])
    /\ info \in [Buffers -> Platforms \cup {NULL}]
    /\ number \in Nat
    /\ mutableInfo \in [Mutables -> Platforms \cup {NULL}]
    /\ mutableList \in [Buffers -> SUBSET Mutables]

Driven ==
    /\ state \in [Buffers -> States] /\ refs \in [Buffers -> 0 .. MaxRefs]
    /\ platformOf \in [Buffers -> Platforms]
    /\ inOrder \in [Buffers -> BOOLEAN]
    /\ content \in [Buffers -> Seq(Commands)]
    /\ handles \in [Buffers -> SUBSET Mutables]
    /\ calls \in Nat /\ lost \subseteq Buffers /\ misnamed \subseteq Mutables

Counts == Types /\ CallsHaveReferences
Typed  == Counts /\ Arguments /\ Layered /\ Driven

LEMMA TypedIsTypeOK == Typed => TypeOK
  <1> SUFFICES ASSUME Typed PROVE TypeOK
    OBVIOUS
  <1>1. ASSUME NEW t \in Threads
        PROVE  /\ DOMAIN call[t] = DOMAIN NoCall
               /\ \E h \in Handlers : \E i \in 0 .. Len(h) :
                     call[t].todo \in {SubSeq(h, i + 1, Len(h)),
                                       Unconditional(SubSeq(h, i + 1, Len(h)))}
               /\ call[t].buffer \in Buffers \cup {NULL}
               /\ call[t].command \in Commands
               /\ call[t].mutable \in Mutables \cup {NULL}
    <2>1. \E h \in Handlers : IsLeft(call[t].todo, h)
      BY ProgramsAreLeft DEF Typed, Counts, Types, Locals
    <2>2. call[t].buffer \in Buffers \cup {NULL} /\ DOMAIN call[t] = DOMAIN NoCall
      BY DEF Typed, Counts, Types, Locals
    <2> QED BY <2>1, <2>2 DEF IsLeft, Left, Typed, Arguments
  <1> QED BY <1>1 DEF TypeOK, Typed, Layered, Driven, IsRecord

LEMMA NothingIsTyped ==
  /\ NoCall.command \in Commands /\ NoCall.mutable = NULL
  /\ IsRecord(NoRecord) /\ <<>> \in Seq(Commands)
  BY DEF NoCall, NoCommand, Commands, IsRecord, NoRecord

LEMMA InitTyped == Init => Typed
  <1> SUFFICES ASSUME Init PROVE Typed
    OBVIOUS
  <1>1. Counts
    BY InitInv DEF Inv, Counts
  <1>2. Arguments
    BY NothingIsTyped DEF Init, Arguments
  <1>3. Layered
    BY NothingIsTyped DEF Init, Layered
  <1>4. Driven
    BY NothingIsTyped, BufferAssumption DEF Init, Driven, States
  <1> QED BY <1>1, <1>2, <1>3, <1>4 DEF Typed

-----------------------------------------------------------------------------
(* How a step keeps the parts.                                               *)

LEMMA ContinuesTyped ==
  ASSUME Typed, NEW t \in Threads, NEW c, NEW steps \in Programs,
         DOMAIN c = DOMAIN NoCall, c.buffer \in Buffers, c.command \in Commands,
         c.mutable \in Mutables \cup {NULL}, Continues(t, c, steps)
  PROVE  /\ Others(t) /\ Locals' /\ Arguments' /\ call'[t].todo = steps
         /\ call'[t].buffer = IF steps = <<>> THEN NULL ELSE c.buffer
  <1>1. /\ Others(t) /\ Locals' /\ call'[t].todo = steps
        /\ call'[t].buffer = IF steps = <<>> THEN NULL ELSE c.buffer
        /\ call'[t].mutable = IF steps = <<>> THEN NULL ELSE c.mutable
    BY ContinuesUpdate DEF Typed, Counts, Types
  <1>2. call'[t].command \in Commands
    <2>1. CASE steps = <<>>
      <3>1. call'[t] = NoCall
        BY <2>1 DEF Continues, Typed, Counts, Types, Locals
      <3> QED BY <3>1, NothingIsTyped
    <2>2. CASE steps # <<>>
      BY <2>2, CommandUpdates DEF Typed, Counts, Types
    <2> QED BY <2>1, <2>2
  <1> QED BY <1>1, <1>2 DEF Arguments, Others, Typed

LEMMA AfterTyped ==
  ASSUME Typed, NEW t \in Threads, ~Idle(t), After(t)
  PROVE  /\ Stays(t) /\ Arguments' /\ call'[t].todo = Tail(call[t].todo)
         /\ call[t].buffer \in Buffers /\ t \in Using(call[t].buffer)
  <1>1. /\ call[t].todo \in Programs /\ call[t].todo # <<>> /\ call[t].buffer \in Buffers
        /\ DOMAIN call[t] = DOMAIN NoCall
    BY DEF Typed, Counts, Types, Locals, Idle
  <1>2. Tail(call[t].todo) \in Programs
    BY <1>1, TailFacts
  <1>3. call[t].command \in Commands /\ call[t].mutable \in Mutables \cup {NULL}
    BY DEF Typed, Arguments
  <1>4. Arguments'
    BY <1>1, <1>2, <1>3, ContinuesTyped DEF After
  <1>5. Stays(t) /\ call'[t].todo = Tail(call[t].todo)
    BY AfterUpdate DEF Typed, Counts, Types
  <1> QED BY <1>1, <1>4, <1>5 DEF Using

LEMMA StaysTyped ==
  ASSUME Typed, NEW t \in Threads, Stays(t), Arguments', Layered', Driven',
         UNCHANGED refs, \A b \in Buffers : state'[b] = "free" <=> state[b] = "free"
  PROVE  Typed'
  <1>1. Types'
    BY DEF Types, Typed, Counts, Stays, Layered, Driven
  <1>2. CallsHaveReferences'
    BY UsingShrinks, UsingIsFinite DEF CallsHaveReferences, Typed, Counts, Types
  <1> QED BY <1>1, <1>2 DEF Typed, Counts

LEMMA EntersTyped ==
  ASSUME Typed, NEW t \in Threads, NEW b \in Buffers, Enters(t, b), Spare(b),
         Arguments', Layered', Driven', UNCHANGED <<refs, state>>
  PROVE  Typed'
  <1>1. Types'
    BY DEF Types, Typed, Counts, Enters, Layered, Driven
  <1>2. CallsHaveReferences'
    <2> SUFFICES ASSUME NEW c \in Buffers PROVE Cardinality(Using(c)') <= refs[c]
      BY DEF CallsHaveReferences
    <2>1. Types
      BY DEF Typed, Counts
    <2>2. CASE c = b
      BY <2>1, <2>2, UsingGrows, UsingIsFinite DEF Spare, Types
    <2>3. CASE c # b
      BY <2>1, <2>3, UsingGrows DEF CallsHaveReferences, Typed, Counts
    <2> QED BY <2>2, <2>3
  <1> QED BY <1>1, <1>2 DEF Typed, Counts

-----------------------------------------------------------------------------
(* The records.                                                              *)

LEMMA CommandIdIsId ==
  ASSUME NEW r, NEW c \in Commands, IsRecord(r)
  PROVE  CommandId(r, c) \in Ids /\ Explicit(c) \subseteq Ids
  BY DEF CommandId, IsInternal, Ids, Explicit, IsRecord, Commands

LEMMA RecordsTyped ==
  ASSUME NEW r, IsRecord(r), NEW c \in Commands
  PROVE  /\ \A ordered \in BOOLEAN : IsRecord(recordCreate(r, ordered))
         /\ IsRecord(recordCommand(r, c)) /\ IsRecord(recordBarrier(r, c))
         /\ IsRecord(recordFinalize(r))
  <1>1. \A ordered \in BOOLEAN : IsRecord(recordCreate(r, ordered))
    BY DEF IsRecord, recordCreate, NoRecord
  <1>2. IsRecord(recordFinalize(r))
    BY DEF IsRecord, recordFinalize, NoRecord
  <1>3. ASSUME NEW dependencies
        PROVE  /\ DOMAIN Drawn(r, c, dependencies) = DOMAIN NoRecord
               /\ Drawn(r, c, dependencies).queueIsInOrder = r.queueIsInOrder
               /\ Drawn(r, c, dependencies).implicitDeps = r.implicitDeps
               /\ Drawn(r, c, dependencies).outstandingIds = r.outstandingIds
               /\ Drawn(r, c, dependencies).nextInternalId \in Nat
    <2>1. (r.nextInternalId + IF IsInternal(c) THEN 1 ELSE 0) \in Nat
      BY DEF IsRecord
    <2> QED BY <2>1 DEF IsRecord, Drawn, NoRecord
  <1>4. \A d : IsRecord(Drawn(r, c, d))
    BY <1>3 DEF IsRecord
  <1>5. IsRecord(recordCommand(r, c))
    <2> DEFINE d == Drawn(r, c, Explicit(c) \cup r.implicitDeps)
    <2>1. IsRecord(d) /\ CommandId(r, c) \in Ids
      BY <1>4, CommandIdIsId
    <2> HIDE DEF d
    <2>2. /\ IsRecord([d EXCEPT !.implicitDeps = {CommandId(r, c)}])
          /\ IsRecord([d EXCEPT !.outstandingIds = @ \cup {CommandId(r, c)}])
      BY <2>1 DEF IsRecord, NoRecord
    <2> QED BY <2>2 DEF recordCommand, d
  <1>6. IsRecord(recordBarrier(r, c))
    <2> DEFINE all == c.waits = {}
               d == Drawn(r, c, r.implicitDeps \cup
                                IF all THEN r.outstandingIds ELSE Explicit(c))
    <2>1. IsRecord(d) /\ CommandId(r, c) \in Ids
      BY <1>4, CommandIdIsId
    <2> HIDE DEF d
    <2>2. IsRecord([d EXCEPT !.outstandingIds = IF all THEN {} ELSE @,
                             !.implicitDeps = {CommandId(r, c)}])
      BY <2>1 DEF IsRecord, NoRecord
    <2> QED BY <2>2 DEF recordBarrier, d
  <1> QED BY <1>1, <1>2, <1>5, <1>6

-----------------------------------------------------------------------------
(* The steps.                                                                *)

\* A step of a handler that enters something into one record, or nothing.
LEMMA RecordStepTyped ==
  ASSUME Typed, NEW t \in Threads, ~Idle(t), After(t), NEW r,
         record' = [record EXCEPT ![call[t].buffer] = r], IsRecord(r),
         UNCHANGED <<info, number, mutableInfo, mutableList, state, refs, platformOf, inOrder,
                     content, handles, calls, lost, misnamed>>
  PROVE  Typed'
  <1>1. Stays(t) /\ Arguments' /\ call[t].buffer \in Buffers
    BY AfterTyped
  <1>2. Layered'
    BY <1>1 DEF Layered, Typed
  <1>3. Driven'
    BY DEF Driven, Typed
  <1> QED BY <1>1, <1>2, <1>3, StaysTyped

LEMMA RecordCreateTyped ==
  ASSUME Typed, NEW t \in Threads, RecordCreate(t)
  PROVE  Typed'
  <1>0. PICK b : b = call[t].buffer
    OBVIOUS
  <1>1. /\ ~Idle(t) /\ After(t)
        /\ record' = [record EXCEPT ![b] = recordCreate(@, inOrder[b])]
        /\ UNCHANGED <<info, number, mutableInfo, mutableList, state, refs, platformOf, inOrder,
                       content, handles, calls, lost, misnamed>>
    BY <1>0 DEF RecordCreate, At, driver, history
  <1>2. b \in Buffers
    BY <1>0, <1>1, AfterTyped
  <1>3. IsRecord(recordCreate(record[b], inOrder[b]))
    BY <1>2, RecordsTyped, CommandIdIsId, NothingIsTyped DEF Typed, Layered, Driven
  <1>4. record' = [record EXCEPT ![b] = recordCreate(record[b], inOrder[b])]
    BY <1>1, <1>2 DEF Typed, Layered
  <1> QED BY <1>0, <1>1, <1>3, <1>4, RecordStepTyped

LEMMA RecordCommandTyped ==
  ASSUME Typed, NEW t \in Threads, RecordCommand(t)
  PROVE  Typed'
  <1>0. PICK b, c : b = call[t].buffer /\ c = call[t].command
    OBVIOUS
  <1>1. /\ ~Idle(t) /\ After(t)
        /\ \/ record' = [record EXCEPT ![b] = recordCommand(@, c)]
           \/ record' = [record EXCEPT ![b] = recordBarrier(@, c)]
        /\ UNCHANGED <<info, number, mutableInfo, mutableList, state, refs, platformOf, inOrder,
                       content, handles, calls, lost, misnamed>>
    BY <1>0 DEF RecordCommand, At, driver, history
  <1>2. b \in Buffers /\ c \in Commands
    BY <1>0, <1>1, AfterTyped DEF Typed, Arguments
  <1>3. IsRecord(recordCommand(record[b], c)) /\ IsRecord(recordBarrier(record[b], c))
    BY <1>2, RecordsTyped DEF Typed, Layered
  <1>4. \/ record' = [record EXCEPT ![b] = recordCommand(record[b], c)]
        \/ record' = [record EXCEPT ![b] = recordBarrier(record[b], c)]
    BY <1>1, <1>2 DEF Typed, Layered
  <1> QED BY <1>0, <1>1, <1>3, <1>4, RecordStepTyped

LEMMA RecordFinalizeTyped ==
  ASSUME Typed, NEW t \in Threads, RecordFinalize(t)
  PROVE  Typed'
  <1>0. PICK b : b = call[t].buffer
    OBVIOUS
  <1>1. /\ ~Idle(t) /\ After(t)
        /\ record' = [record EXCEPT ![b] = recordFinalize(@)]
        /\ UNCHANGED <<info, number, mutableInfo, mutableList, state, refs, platformOf, inOrder,
                       content, handles, calls, lost, misnamed>>
    BY <1>0 DEF RecordFinalize, At, driver, history
  <1>2. b \in Buffers
    BY <1>0, <1>1, AfterTyped
  <1>3. IsRecord(recordFinalize(record[b]))
    BY <1>2, RecordsTyped, NothingIsTyped DEF Typed, Layered
  <1>4. record' = [record EXCEPT ![b] = recordFinalize(record[b])]
    BY <1>1, <1>2 DEF Typed, Layered
  <1> QED BY <1>0, <1>1, <1>3, <1>4, RecordStepTyped

LEMMA AddInfoTyped ==
  ASSUME Typed, NEW t \in Threads, AddCommandBufferInfo(t)
  PROVE  Typed'
  <1>0. PICK b : b = call[t].buffer
    OBVIOUS
  <1>1. /\ ~Idle(t) /\ After(t) /\ info' = [info EXCEPT ![b] = platformOf[b]]
        /\ UNCHANGED <<record, number, mutableInfo, mutableList, state, refs, platformOf,
                       inOrder, content, handles, calls, lost, misnamed>>
    BY <1>0 DEF AddCommandBufferInfo, At, driver, history
  <1>2. Stays(t) /\ Arguments' /\ b \in Buffers
    BY <1>0, <1>1, AfterTyped
  <1>3. Layered'
    BY <1>1, <1>2 DEF Layered, Driven, Typed
  <1>4. Driven'
    BY <1>1 DEF Driven, Typed
  <1> QED BY <1>1, <1>2, <1>3, <1>4, StaysTyped

LEMMA AddMutableTyped ==
  ASSUME Typed, NEW t \in Threads, AddMutableCommandInfo(t)
  PROVE  Typed'
  <1>0. PICK b, m : b = call[t].buffer /\ m = call[t].mutable
    OBVIOUS
  <1>1. /\ ~Idle(t) /\ After(t)
        /\ IF m = NULL THEN UNCHANGED <<mutableInfo, mutableList>>
           ELSE /\ mutableInfo' = [mutableInfo EXCEPT ![m] = info[b]]
                /\ mutableList' = [mutableList EXCEPT ![b] = @ \cup {m}]
        /\ UNCHANGED <<info, record, number, state, refs, platformOf, inOrder, content, handles,
                       calls, lost, misnamed>>
    BY <1>0 DEF AddMutableCommandInfo, At, driver, history
  <1>2. Stays(t) /\ Arguments' /\ b \in Buffers /\ m \in Mutables \cup {NULL}
    BY <1>0, <1>1, AfterTyped DEF Typed, Arguments
  <1>3. Layered'
    BY <1>1, <1>2 DEF Layered, Typed
  <1>4. Driven'
    BY <1>1 DEF Driven, Typed
  <1> QED BY <1>1, <1>2, <1>3, <1>4, StaysTyped

LEMMA DumpTyped ==
  ASSUME Typed, NEW t \in Threads, DumpCommandBufferRecording(t)
  PROVE  Typed'
  <1>0. PICK b : b = call[t].buffer
    OBVIOUS
  <1>1. /\ ~Idle(t) /\ After(t)
        /\ record' = [record EXCEPT ![b] = NoRecord]
        /\ content' = [content EXCEPT ![b] = <<>>]
        /\ inOrder' = [inOrder EXCEPT ![b] = FALSE]
        /\ number' = number + 1
        /\ UNCHANGED <<info, mutableInfo, mutableList, state, refs, platformOf, handles,
                       calls, lost, misnamed>>
    BY <1>0 DEF DumpCommandBufferRecording, At, history
  <1>2. Stays(t) /\ Arguments' /\ b \in Buffers
    BY <1>0, <1>1, AfterTyped
  <1>3. Layered'
    BY <1>1, <1>2, NothingIsTyped DEF Layered, Typed
  <1>4. Driven'
    BY <1>1, <1>2, NothingIsTyped DEF Driven, Typed
  <1> QED BY <1>1, <1>2, <1>3, <1>4, StaysTyped

LEMMA RemoveTyped ==
  ASSUME Typed, NEW t \in Threads, CheckRemoveCommandBufferInfo(t)
  PROVE  Typed'
  <1>0. PICK b : b = call[t].buffer
    OBVIOUS
  <1>1. /\ ~Idle(t) /\ After(t)
        /\ \/ /\ info' = [info EXCEPT ![b] = NULL]
              /\ record' = [record EXCEPT ![b] = NoRecord]
              /\ mutableInfo' = [m \in Mutables |-> IF m \in mutableList[b] THEN NULL
                                                    ELSE mutableInfo[m]]
              /\ mutableList' = [mutableList EXCEPT ![b] = {}]
           \/ UNCHANGED <<info, record, mutableInfo, mutableList>>
        /\ UNCHANGED <<number, state, refs, platformOf, inOrder, content, handles,
                       calls, lost, misnamed>>
    BY <1>0 DEF CheckRemoveCommandBufferInfo, At, driver, history
  <1>2. Stays(t) /\ Arguments' /\ b \in Buffers
    BY <1>0, <1>1, AfterTyped
  <1>3. Layered'
    BY <1>1, <1>2, NothingIsTyped DEF Layered, Typed
  <1>4. Driven'
    BY <1>1 DEF Driven, Typed
  <1> QED BY <1>1, <1>2, <1>3, <1>4, StaysTyped

\* The driver's part of a command: t goes on with a handle m, or the call was
\* refused and what m holds is entered all the same.
LEMMA CommandTyped ==
  ASSUME Typed, NEW t \in Threads, At(t, "command"), NEW m \in Mutables \cup {NULL},
         NEW steps, steps \in {Tail(call[t].todo), Unconditional(call[t].todo)},
         Continues(t, [call[t] EXCEPT !.mutable = m], steps)
  PROVE  Stays(t) /\ Arguments' /\ call[t].buffer \in Buffers
  <1> DEFINE c == [call[t] EXCEPT !.mutable = m]
  <1>1. ~Idle(t) /\ Head(call[t].todo) = "command"
    BY DEF At
  <1>2. /\ call[t].todo \in Programs /\ call[t].todo # <<>> /\ call[t].buffer \in Buffers
        /\ DOMAIN call[t] = DOMAIN NoCall
    BY <1>1 DEF Typed, Counts, Types, Locals, Idle
  <1>3. steps \in Programs
    BY <1>1, <1>2, TailFacts, UnconditionalFacts DEF Programs
  <1>4. /\ DOMAIN c = DOMAIN NoCall /\ c.buffer = call[t].buffer /\ c.mutable = m
        /\ c.command = call[t].command
    BY <1>2 DEF NoCall
  <1>5. Continues(t, c, steps) /\ call[t].command \in Commands
    BY DEF Typed, Arguments
  <1> HIDE DEF c
  <1>6. /\ Others(t) /\ Locals' /\ Arguments' /\ call'[t].todo = steps
        /\ call'[t].buffer = IF steps = <<>> THEN NULL ELSE c.buffer
    BY <1>2, <1>3, <1>4, <1>5, ContinuesTyped
  <1> QED BY <1>2, <1>4, <1>6 DEF Stays, Idle

LEMMA DispatchCommandTyped ==
  ASSUME Typed, NEW t \in Threads, DispatchCommand(t)
  PROVE  Typed'
  <1>0. PICK b, x : b = call[t].buffer /\ x = call[t].command
    OBVIOUS
  <1>1. /\ At(t, "command") /\ content' = [content EXCEPT ![b] = Append(@, x)]
        /\ UNCHANGED <<record, info, number, mutableInfo, mutableList, state, refs, platformOf,
                       inOrder, calls, lost>>
    BY <1>0 DEF DispatchCommand, layer
  <1>2. PICK m \in (Mutables \ UsedMutables) \cup {NULL} :
            /\ handles' = [handles EXCEPT ![b] = @ \cup ({m} \ {NULL})]
            /\ misnamed' = IF b \in lost THEN misnamed \cup ({m} \ {NULL}) ELSE misnamed
            /\ Continues(t, [call[t] EXCEPT !.mutable = m], Tail(call[t].todo))
    BY <1>0 DEF DispatchCommand
  <1>3. Stays(t) /\ Arguments' /\ b \in Buffers /\ x \in Commands
    BY <1>0, <1>1, <1>2, CommandTyped DEF Typed, Arguments
  <1>4. Layered'
    BY <1>1 DEF Layered, Typed
  <1>5. Driven'
    <2>1. content' \in [Buffers -> Seq(Commands)]
      BY <1>1, <1>3 DEF Driven, Typed
    <2>2. handles' \in [Buffers -> SUBSET Mutables] /\ misnamed' \subseteq Mutables
      BY <1>2, <1>3 DEF Driven, Typed
    <2> QED BY <1>1, <2>1, <2>2 DEF Driven, Typed
  <1> QED BY <1>1, <1>3, <1>4, <1>5, StaysTyped

LEMMA RefuseCommandTyped ==
  ASSUME Typed, NEW t \in Threads, RefuseCommand(t)
  PROVE  Typed'
  <1>1. /\ At(t, "command")
        /\ UNCHANGED <<record, info, number, mutableInfo, mutableList, state, refs, platformOf,
                       inOrder, content, handles, lost>>
    BY DEF RefuseCommand, layer, driver
  <1>2. PICK m \in Mutables \cup {NULL} :
            /\ IF m = NULL THEN UNCHANGED calls ELSE Counted
            /\ Continues(t, [call[t] EXCEPT !.mutable = m], Unconditional(call[t].todo))
            /\ misnamed' = misnamed \cup ({m} \ {NULL})
    BY DEF RefuseCommand
  <1>3. Stays(t) /\ Arguments'
    BY <1>1, <1>2, CommandTyped
  <1>4. Layered'
    BY <1>1 DEF Layered, Typed
  <1>5. Driven'
    <2>1. calls' \in Nat /\ misnamed' \subseteq Mutables
      BY <1>2 DEF Counted, Driven, Typed
    <2> QED BY <1>1, <2>1 DEF Driven, Typed
  <1> QED BY <1>1, <1>3, <1>4, <1>5, StaysTyped

LEMMA UsedHasReferences ==
  ASSUME Typed, NEW t \in Threads, ~Idle(t)
  PROVE  /\ call[t].buffer \in Buffers /\ t \in Using(call[t].buffer)
         /\ refs[call[t].buffer] \in Nat \ {0} /\ state[call[t].buffer] # "free"
  <1>1. call[t].buffer \in Buffers /\ t \in Using(call[t].buffer)
    BY DEF Typed, Counts, Types, Locals, Using
  <1> QED BY <1>1, FreeIsUnused DEF Typed, Counts, Types

LEMMA DispatchFinalizeTyped ==
  ASSUME Typed, NEW t \in Threads, DispatchFinalize(t)
  PROVE  Typed'
  <1>0. PICK b : b = call[t].buffer
    OBVIOUS
  <1>1. /\ At(t, "finalize") /\ ~Idle(t)
        /\ state' = [state EXCEPT ![b] = "executable"] \/ UNCHANGED state
        /\ UNCHANGED <<record, info, number, mutableInfo, mutableList, refs, platformOf,
                       inOrder, content, handles, calls, lost, misnamed>>
    BY <1>0 DEF DispatchFinalize, layer, history, At
  <1>2. /\ call[t].todo \in Programs /\ call[t].todo # <<>> /\ DOMAIN call[t] = DOMAIN NoCall
        /\ Head(call[t].todo) = "finalize"
    BY <1>1 DEF Typed, Counts, Types, Locals, Idle, At
  <1>3. PICK steps : /\ steps \in {Tail(call[t].todo), Unconditional(call[t].todo)}
                     /\ Continues(t, call[t], steps)
    BY DEF DispatchFinalize, After
  <1>4. steps \in Programs
    BY <1>2, <1>3, TailFacts, UnconditionalFacts DEF Programs
  <1>5. b \in Buffers /\ state[b] # "free"
    BY <1>0, <1>1, UsedHasReferences
  <1>6. Stays(t) /\ Arguments'
    <2>1. /\ Others(t) /\ Locals' /\ Arguments' /\ call'[t].todo = steps
          /\ call'[t].buffer = IF steps = <<>> THEN NULL ELSE call[t].buffer
      BY <1>0, <1>2, <1>3, <1>4, <1>5, ContinuesTyped DEF Typed, Arguments
    <2> QED BY <2>1 DEF Stays, Idle
  <1>7. Layered'
    BY <1>1 DEF Layered, Typed
  <1>8. Driven'
    BY <1>1, <1>5 DEF Driven, Typed, States
  <1>9. \A c \in Buffers : state'[c] = "free" <=> state[c] = "free"
    BY <1>1, <1>5 DEF Driven, Typed
  <1> QED BY <1>1, <1>6, <1>7, <1>8, <1>9, StaysTyped

\* A call that begins.
LEMMA BeginsTyped ==
  ASSUME Typed, NEW t \in Threads, Idle(t), NEW b \in Buffers,
         NEW c, DOMAIN c = DOMAIN NoCall, c.buffer = b, c.mutable = NULL,
         c.command \in Commands,
         NEW steps \in Programs, steps # <<>>, Continues(t, c, steps)
  PROVE  Enters(t, b) /\ Arguments'
  <1>1. Enters(t, b)
    BY BeginsUpdate DEF Typed, Counts
  <1>2. Arguments'
    BY ContinuesTyped
  <1> QED BY <1>1, <1>2

LEMMA BeginCommandTyped ==
  ASSUME Typed, NEW t \in Threads, NEW b \in Buffers, BeginCommand(t, b)
  PROVE  Typed'
  <1>1. /\ Idle(t) /\ Spare(b) /\ Len(content[b]) < MaxCommands /\ calls' = calls + 1
        /\ UNCHANGED <<record, info, number, mutableInfo, mutableList, state, refs, platformOf,
                       inOrder, content, handles, lost, misnamed>>
    BY DEF BeginCommand, Counted, layer, driver
  <1>2. PICK h \in CommandHandlers, wanted \in BOOLEAN,
             waits \in SUBSET {content[b][i].point : i \in DOMAIN content[b]} :
            Continues(t, [NoCall EXCEPT !.buffer = b,
                            !.command = [barrier |-> h.barrier, waits |-> waits \ {0},
                                         point |-> IF wanted THEN Len(content[b]) + 1 ELSE 0]],
                      h.steps)
    BY DEF BeginCommand
  <1>3. PICK x : x = [barrier |-> h.barrier, waits |-> waits \ {0},
                      point |-> IF wanted THEN Len(content[b]) + 1 ELSE 0]
    OBVIOUS
  <1>4. h.barrier \in BOOLEAN
    <2>1. \/ h = Recorded(TRUE, "recordBarrier") \/ h = Recorded(FALSE, "recordCommand")
      BY DEF CommandHandlers, clCommandBarrierWithWaitListKHR,
             clCommandCopyBufferKHR, clCommandCopyBufferRectKHR, clCommandCopyBufferToImageKHR,
             clCommandCopyImageKHR, clCommandCopyImageToBufferKHR, clCommandFillBufferKHR,
             clCommandFillImageKHR, clCommandSVMMemcpyKHR, clCommandSVMMemFillKHR,
             clCommandNDRangeKernelKHR
    <2>2. Recorded(TRUE, "recordBarrier").barrier \in BOOLEAN
      BY DEF Recorded
    <2>3. Recorded(FALSE, "recordCommand").barrier \in BOOLEAN
      BY DEF Recorded
    <2> QED BY <2>1, <2>2, <2>3
  <1>5. /\ content[b] \in Seq(Commands) /\ Len(content[b]) \in Nat
        /\ DOMAIN content[b] = 1 .. Len(content[b])
    BY DEF Typed, Driven
  <1>6. x \in Commands
    <2>1. \A i \in DOMAIN content[b] : content[b][i].point \in Points \cup {0}
      <3>1. \A i \in DOMAIN content[b] : content[b][i] \in Commands
        BY <1>5
      <3> QED BY <3>1 DEF Commands
    <2>2. x.waits \subseteq Points
      BY <1>3, <2>1
    <2>3. x.point \in Points \cup {0}
      BY <1>1, <1>3, <1>5, BufferAssumption DEF Points
    <2> QED BY <1>3, <1>4, <2>2, <2>3 DEF Commands
  <1>7. Enters(t, b) /\ Arguments'
    <2> DEFINE c == [NoCall EXCEPT !.buffer = b, !.command = x]
    <2>1. DOMAIN c = DOMAIN NoCall /\ c.buffer = b /\ c.mutable = NULL /\ c.command = x
      BY DEF NoCall
    <2>2. Continues(t, c, h.steps)
      BY <1>2, <1>3
    <2> HIDE DEF c
    <2> QED BY <1>1, <1>6, <2>1, <2>2, CommandProgram, BeginsTyped
  <1>8. Layered'
    BY <1>1 DEF Layered, Typed
  <1>9. Driven'
    BY <1>1 DEF Driven, Typed
  <1> QED BY <1>1, <1>7, <1>8, <1>9, EntersTyped

LEMMA BeginTyped ==
  ASSUME Typed, NEW t \in Threads, NEW b \in Buffers,
         BeginFinalize(t, b) \/ BeginRelease(t, b)
  PROVE  Typed'
  <1>1. /\ Idle(t) /\ Spare(b)
        /\ \/ Continues(t, [NoCall EXCEPT !.buffer = b], clFinalizeCommandBufferKHR)
           \/ Continues(t, [NoCall EXCEPT !.buffer = b], clReleaseCommandBufferKHR)
        /\ UNCHANGED <<record, info, number, mutableInfo, mutableList, state, refs, platformOf,
                       inOrder, content, handles, calls, lost, misnamed>>
    BY DEF BeginFinalize, BeginRelease, layer, driver, history
  <1>2. /\ clFinalizeCommandBufferKHR \in Programs /\ clFinalizeCommandBufferKHR # <<>>
        /\ clReleaseCommandBufferKHR \in Programs /\ clReleaseCommandBufferKHR # <<>>
    BY DEF Programs, clFinalizeCommandBufferKHR, clReleaseCommandBufferKHR
  <1>3. Enters(t, b) /\ Arguments'
    <2> DEFINE c == [NoCall EXCEPT !.buffer = b]
    <2>1. /\ DOMAIN c = DOMAIN NoCall /\ c.buffer = b /\ c.mutable = NULL
          /\ c.command \in Commands
      BY NothingIsTyped DEF NoCall
    <2>2. \/ Continues(t, c, clFinalizeCommandBufferKHR)
          \/ Continues(t, c, clReleaseCommandBufferKHR)
      BY <1>1
    <2> HIDE DEF c
    <2> QED BY <1>1, <1>2, <2>1, <2>2, BeginsTyped
  <1>4. Layered'
    BY <1>1 DEF Layered, Typed
  <1>5. Driven'
    BY <1>1 DEF Driven, Typed
  <1> QED BY <1>1, <1>3, <1>4, <1>5, EntersTyped

LEMMA RetainTyped ==
  ASSUME Typed, NEW t \in Threads, NEW b \in Buffers, Retain(t, b)
  PROVE  Typed'
  <1>1. /\ state[b] # "free" /\ refs[b] < MaxRefs /\ refs' = [refs EXCEPT ![b] = @ + 1]
        /\ calls' = calls + 1
        /\ UNCHANGED <<call, record, info, number, mutableInfo, mutableList, state, platformOf,
                       inOrder, content, handles, lost, misnamed>>
    BY DEF Retain, Counted, layer
  <1>2. refs[b] \in 0 .. MaxRefs /\ MaxRefs \in Nat
    BY BufferAssumption DEF Typed, Driven
  <1>3. refs'[b] = refs[b] + 1 /\ \A c \in Buffers \ {b} : refs'[c] = refs[c]
    BY <1>1 DEF Typed, Driven
  <1>4. refs' \in [Buffers -> 0 .. MaxRefs]
    BY <1>1, <1>2 DEF Typed, Driven
  <1>5. Locals' /\ Arguments'
    BY <1>1 DEF Typed, Counts, Types, Locals, Idle, Arguments
  <1>6. Layered'
    BY <1>1 DEF Layered, Typed
  <1>7. Driven'
    BY <1>1, <1>4 DEF Driven, Typed
  <1>8. Types'
    <2>1. refs' \in [Buffers -> Nat] /\ refs'[b] # 0
      BY <1>1, <1>2, <1>3, <1>4
    <2> QED BY <1>1, <1>3, <1>5, <2>1 DEF Types, Typed, Counts
  <1>9. CallsHaveReferences'
    <2>1. \A c \in Buffers : Using(c)' = Using(c) /\ Cardinality(Using(c)) <= refs[c]
      BY <1>1 DEF Using, Typed, Counts, CallsHaveReferences
    <2>2. Cardinality(Using(b)) \in Nat
      BY UsingIsFinite
    <2> QED BY <1>2, <1>3, <2>1, <2>2 DEF CallsHaveReferences
  <1> QED BY <1>5, <1>6, <1>7, <1>8, <1>9 DEF Typed, Counts

LEMMA DispatchReleaseTyped ==
  ASSUME Typed, NEW t \in Threads, DispatchRelease(t)
  PROVE  Typed'
  <1>0. PICK b : b = call[t].buffer
    OBVIOUS
  <1>1. /\ At(t, "release") /\ ~Idle(t) /\ After(t)
        /\ refs' = [refs EXCEPT ![b] = @ - 1]
        /\ state' = [state EXCEPT ![b] = IF refs[b] = 1 THEN "free" ELSE @]
        /\ handles' = [handles EXCEPT ![b] = IF refs[b] = 1 THEN {} ELSE @]
        /\ content' = [content EXCEPT ![b] = IF refs[b] = 1 THEN <<>> ELSE @]
        /\ inOrder' = [inOrder EXCEPT ![b] = IF refs[b] = 1 THEN FALSE ELSE @]
        /\ UNCHANGED <<record, info, number, mutableInfo, mutableList, platformOf, calls, lost,
                       misnamed>>
    BY <1>0 DEF DispatchRelease, layer, history, At
  <1>2. /\ Stays(t) /\ Arguments' /\ b \in Buffers /\ t \in Using(b)
        /\ call'[t].todo = Tail(call[t].todo)
    BY <1>0, <1>1, AfterTyped
  <1>3. refs[b] \in Nat \ {0} /\ refs[b] <= MaxRefs /\ state[b] # "free" /\ MaxRefs \in Nat
    BY <1>0, <1>1, UsedHasReferences, BufferAssumption DEF Typed, Driven
  <1>4. Idle(t)' /\ call'[t].buffer = NULL
    <2>1. call[t].todo \in Programs /\ call[t].todo # <<>> /\ Head(call[t].todo) = "release"
      BY <1>1 DEF Typed, Counts, Types, Locals, Idle, At
    <2>2. Idle(t)'
      BY <1>2, <2>1, TailFacts DEF Idle
    <2> QED BY <1>2, <2>2 DEF Stays, Locals
  <1>5. Layered'
    BY <1>1 DEF Layered, Typed
  <1>6. Driven'
    <2>1. refs' \in [Buffers -> 0 .. MaxRefs]
      <3>1. refs[b] - 1 \in 0 .. MaxRefs
        BY <1>3
      <3> QED BY <1>1, <3>1 DEF Typed, Driven
    <2>2. /\ state' \in [Buffers -> States] /\ handles' \in [Buffers -> SUBSET Mutables]
          /\ inOrder' \in [Buffers -> BOOLEAN]
      BY <1>1 DEF Typed, Driven, States
    <2>3. content' \in [Buffers -> Seq(Commands)]
      BY <1>1, NothingIsTyped DEF Typed, Driven
    <2> QED BY <1>1, <2>1, <2>2, <2>3 DEF Driven, Typed
  <1>7. /\ refs'[b] = refs[b] - 1 /\ state'[b] = IF refs[b] = 1 THEN "free" ELSE state[b]
        /\ \A c \in Buffers \ {b} : refs'[c] = refs[c] /\ state'[c] = state[c]
    BY <1>1, <1>2 DEF Typed, Driven
  <1>8. Types'
    <2>1. \A c \in Buffers : state'[c] = "free" <=> refs'[c] = 0
      BY <1>3, <1>7 DEF Typed, Counts, Types
    <2>2. refs' \in [Buffers -> Nat]
      BY <1>6, BufferAssumption DEF Driven
    <2> QED BY <1>1, <1>2, <1>5, <1>6, <2>1, <2>2 DEF Types, Stays, Layered, Driven
  <1>9. CallsHaveReferences'
    <2>0. Types
      BY DEF Typed, Counts
    <2> SUFFICES ASSUME NEW c \in Buffers PROVE Cardinality(Using(c)') <= refs'[c]
      BY DEF CallsHaveReferences
    <2>1. Cardinality(Using(c)) <= refs[c] /\ refs[c] \in Nat
      BY DEF Typed, Counts, CallsHaveReferences, Types
    <2>2. /\ Using(c)' \subseteq Using(c) /\ Cardinality(Using(c)') <= Cardinality(Using(c))
          /\ Cardinality(Using(c)') \in Nat /\ Cardinality(Using(c)) \in Nat
      BY <1>2, <2>0, UsingShrinks, UsingIsFinite
    <2>3. CASE c = b
      <3>1. Using(b)' \subseteq Using(b) \ {t}
        BY <1>4, <2>2, <2>3, BufferAssumption DEF Using
      <3>2. IsFiniteSet(Using(b) \ {t})
            /\ Cardinality(Using(b) \ {t}) = Cardinality(Using(b)) - 1
        BY <1>2, UsingIsFinite, FS_RemoveElement
      <3>3. Cardinality(Using(b)') <= Cardinality(Using(b) \ {t})
        BY <3>1, <3>2, FS_Subset
      <3> QED BY <1>7, <2>1, <2>2, <2>3, <3>2, <3>3
    <2>4. CASE c # b
      BY <1>7, <2>1, <2>2, <2>4
    <2> QED BY <2>3, <2>4
  <1> QED BY <1>2, <1>5, <1>6, <1>8, <1>9 DEF Typed, Counts

LEMMA RefuseReleaseTyped ==
  ASSUME Typed, NEW t \in Threads, RefuseRelease(t)
  PROVE  Typed'
  <1>0. PICK b : b = call[t].buffer
    OBVIOUS
  <1>1. /\ ~Idle(t) /\ After(t) /\ calls' = calls + 1 /\ lost' = lost \cup {b}
        /\ UNCHANGED <<record, info, number, mutableInfo, mutableList, state, refs, platformOf,
                       inOrder, content, handles, misnamed>>
    BY <1>0 DEF RefuseRelease, Counted, At, layer, driver
  <1>2. Stays(t) /\ Arguments' /\ b \in Buffers
    BY <1>0, <1>1, AfterTyped
  <1>3. Layered'
    BY <1>1 DEF Layered, Typed
  <1>4. Driven'
    BY <1>1, <1>2 DEF Driven, Typed
  <1> QED BY <1>1, <1>2, <1>3, <1>4, StaysTyped

\* A new buffer has no user but the call that makes it.
LEMMA CreatesTyped ==
  ASSUME Typed, NEW t \in Threads, Idle(t), NEW b \in Buffers,
         NEW newState \in States \ {"free"}, NEW ordered \in BOOLEAN,
         NEW ms \in SUBSET Mutables, NEW steps, Tail(steps) \in Programs, Tail(steps) # <<>>,
         Creates(t, b, newState, ordered, ms, steps), misnamed' \subseteq Mutables
  PROVE  Typed'
  <1>1. /\ state[b] = "free" /\ calls' = calls + 1
        /\ inOrder' = [inOrder EXCEPT ![b] = ordered]
        /\ state' = [state EXCEPT ![b] = newState]
        /\ refs' = [refs EXCEPT ![b] = 1]
        /\ handles' = [handles EXCEPT ![b] = ms]
        /\ UNCHANGED <<record, info, number, mutableInfo, mutableList, platformOf, content, lost>>
    BY DEF Creates, Counted, layer
  <1>2. Enters(t, b) /\ Arguments'
    <2> DEFINE c == [NoCall EXCEPT !.buffer = b]
    <2>1. /\ DOMAIN c = DOMAIN NoCall /\ c.buffer = b /\ c.mutable = NULL
          /\ c.command \in Commands
      BY NothingIsTyped DEF NoCall
    <2>2. Continues(t, c, Tail(steps))
      BY DEF Creates
    <2> HIDE DEF c
    <2> QED BY <2>1, <2>2, BeginsTyped
  <1>3. Layered'
    BY <1>1 DEF Layered, Typed
  <1>4. Driven'
    <2>1. 1 \in 0 .. MaxRefs
      BY BufferAssumption
    <2> QED BY <1>1, <2>1 DEF Driven, Typed
  <1>5. /\ refs'[b] = 1 /\ state'[b] # "free"
        /\ \A c \in Buffers \ {b} : refs'[c] = refs[c] /\ state'[c] = state[c]
    BY <1>1 DEF Driven, Typed
  <1>6. Types'
    <2>1. refs' \in [Buffers -> Nat]
      BY <1>4, BufferAssumption DEF Driven
    <2>2. \A c \in Buffers : state'[c] = "free" <=> refs'[c] = 0
      BY <1>5 DEF Typed, Counts, Types
    <2> QED BY <1>2, <1>3, <1>4, <2>1, <2>2 DEF Types, Enters, Layered, Driven
  <1>7. CallsHaveReferences'
    <2>0. Types
      BY DEF Typed, Counts
    <2>1. Using(b) = {}
      BY <1>1, FreeIsUnused DEF Typed, Counts, Types
    <2>2. Cardinality(Using(b)') = 1
      <3>1. Cardinality(Using(b)') = Cardinality(Using(b)) + 1
        BY <1>2, <2>0, UsingGrows
      <3>2. Cardinality(Using(b)) = 0
        BY <2>1, FS_EmptySet
      <3> QED BY <3>1, <3>2
    <2>3. \A c \in Buffers \ {b} : Using(c)' = Using(c)
      BY <1>2, <2>0, UsingGrows
    <2> QED BY <1>5, <2>2, <2>3 DEF CallsHaveReferences, Typed, Counts
  <1> QED BY <1>2, <1>3, <1>4, <1>6, <1>7 DEF Typed, Counts

LEMMA DispatchCreateTyped ==
  ASSUME Typed, NEW t \in Threads, NEW b \in Buffers, DispatchCreate(t, b)
  PROVE  Typed'
  <1>1. PICK ordered \in BOOLEAN :
            Creates(t, b, "recording", ordered, {}, clCreateCommandBufferKHR)
    BY DEF DispatchCreate
  <1>2. /\ Tail(clCreateCommandBufferKHR) = <<"recordCreate", "addInfo">>
        /\ Tail(clCreateCommandBufferKHR) \in Programs
        /\ Tail(clCreateCommandBufferKHR) # <<>>
    BY DEF clCreateCommandBufferKHR, Programs
  <1>3. Idle(t) /\ misnamed' \subseteq Mutables /\ "recording" \in States \ {"free"}
    BY DEF DispatchCreate, Typed, Driven, States
  <1> QED BY <1>1, <1>2, <1>3, CreatesTyped

LEMMA DispatchRemapTyped ==
  ASSUME Typed, NEW t \in Threads, NEW b \in Buffers, NEW old \in Buffers,
         DispatchRemap(t, old, b)
  PROVE  Typed'
  <1>1. PICK ms \in SUBSET (Mutables \ UsedMutables) :
            /\ misnamed' = misnamed \cup ms
            /\ Creates(t, b, "executable", FALSE, ms, clRemapCommandBufferKHR)
    BY DEF DispatchRemap
  <1>2. /\ Tail(clRemapCommandBufferKHR) = <<"addInfo">>
        /\ Tail(clRemapCommandBufferKHR) \in Programs
        /\ Tail(clRemapCommandBufferKHR) # <<>>
    BY DEF clRemapCommandBufferKHR, Programs
  <1>3. /\ Idle(t) /\ misnamed' \subseteq Mutables /\ "executable" \in States \ {"free"}
        /\ ms \in SUBSET Mutables
    BY <1>1 DEF DispatchRemap, Typed, Driven, States
  <1> QED BY <1>1, <1>2, <1>3, CreatesTyped

LEMMA NextTyped ==
  ASSUME Typed, [Next]_vars
  PROVE  Typed'
  <1>1. CASE UNCHANGED vars
    <2>1. UNCHANGED <<call, record, info, number, mutableInfo, mutableList, state, refs,
                      platformOf, inOrder, content, handles, calls, lost, misnamed>>
      BY <1>1 DEF vars, layer, driver, history
    <2>2. Types' /\ CallsHaveReferences' /\ Arguments'
      BY <2>1 DEF Typed, Counts, Types, Locals, Idle, CallsHaveReferences, Using, Arguments
    <2>3. Layered' /\ Driven'
      BY <2>1 DEF Typed, Layered, Driven
    <2> QED BY <2>2, <2>3 DEF Typed, Counts
  <1>2. CASE Next
    <2>1. PICK t \in Threads : Step(t)
      BY <1>2 DEF Next
    <2> QED BY <2>1, RecordCreateTyped, AddInfoTyped, DispatchCommandTyped, RefuseCommandTyped,
               RecordCommandTyped, AddMutableTyped, DispatchFinalizeTyped, RecordFinalizeTyped,
               DumpTyped, RemoveTyped, DispatchReleaseTyped, RefuseReleaseTyped,
               DispatchCreateTyped, DispatchRemapTyped, BeginCommandTyped, BeginTyped,
               RetainTyped
            DEF Step
  <1> QED BY <1>1, <1>2

\* The types of the layer's maps, its records and the handlers' locals, also
\* when releases overlap and whatever the driver refuses.  References are what
\* it rests on: each call has one of its own to the buffer it is passed.
THEOREM CommandBuffersTypesCorrect == Spec => []TypeOK
  BY InitTyped, NextTyped, TypedIsTypeOK, PTL DEF Spec
=============================================================================

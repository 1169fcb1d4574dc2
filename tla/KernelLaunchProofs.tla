------------------------- MODULE KernelLaunchProofs -------------------------
(* Theorems about the captures and dumps of KernelLaunch, for every set of   *)
(* threads, queues, kernels, arguments and memory, every bound and every set *)
(* of configurations.                                                        *)
EXTENDS KernelLaunch, FiniteSetTheorems, SequenceTheorems, WellFoundedInduction, TLAPS

-----------------------------------------------------------------------------
(* The invariant.                                                            *)

StepNames == {Steps[i] : i \in 1 .. 10}
Captures == [n : Nat, kernel : Kernels \cup {NULL}]

Locals ==
    /\ DOMAIN call = Threads
    /\ \A t \in Threads :
          /\ DOMAIN call[t] = DOMAIN NoCall
          /\ call[t].todo \in Seq(StepNames)
          /\ call[t].kernel \in Kernels \cup {NULL}
          /\ call[t].n \in Nat

Types ==
    /\ config \in Configs /\ counter \in Nat
    /\ skips \in Nat /\ captures \in Nat
    /\ captured \in Seq(Captures)
    /\ Locals

\* A launch asks to be captured in its first step and never again.
ChecksOnce == \A t \in Threads : \A j \in 2 .. Len(call[t].todo) : call[t].todo[j] # "check"

\* Launches in progress have numbers of their own.
Numbered ==
    /\ \A t \in Threads : call[t].n <= counter
    /\ \A t, u \in Threads : t # u /\ ~Idle(t) /\ ~Idle(u) => call[t].n # call[u].n

\* The captured launches have numbers of their own, and no launch that has yet
\* to ask has the number of one of them.
CapturesAreNumbered ==
    /\ \A i \in DOMAIN captured : captured[i].n <= counter
    /\ \A i, j \in DOMAIN captured : i # j => captured[i].n # captured[j].n
    /\ \A t \in Threads : At(t, "check") =>
          \A i \in DOMAIN captured : captured[i].n # call[t].n

\* The counters stand for the launches that were skipped and captured.
Counted ==
    /\ skips <= config.NumSkip
    /\ captured # <<>> => skips = config.NumSkip
    /\ Len(captured) <= captures /\ Len(captured) <= config.NumCapture

\* The set has every captured kernel, each of them once.
Remembered == config.UniqueKernels =>
    /\ \A i \in DOMAIN captured : Signature[captured[i].kernel] \in replaySet
    /\ \A i, j \in DOMAIN captured :
          i # j => Signature[captured[i].kernel] # Signature[captured[j].kernel]

Inv == Types /\ ChecksOnce /\ Numbered /\ CapturesAreNumbered /\ Counted /\ Remembered

LEMMA NoCallIsACall ==
  /\ NoCall.todo = <<>> /\ NoCall.todo \in Seq(StepNames)
  /\ NoCall.kernel = NULL /\ NoCall.n = 0 /\ NoCall.n \in Nat
  BY DEF NoCall

LEMMA StepsAreSteps == Steps \in Seq(StepNames)
  <1>1. Len(Steps) = 10 /\ DOMAIN Steps = 1 .. 10
    BY DEF Steps
  <1>2. Steps = [i \in 1 .. 10 |-> Steps[i]]
    BY DEF Steps
  <1> QED BY <1>1, <1>2 DEF StepNames

LEMMA TailIsSeq ==
  ASSUME NEW s \in Seq(StepNames), s # <<>>
  PROVE  Tail(s) \in Seq(StepNames)
  OBVIOUS

LEMMA InitInv == Init => Inv
  <1> SUFFICES ASSUME Init PROVE Inv
    OBVIOUS
  <1>1. DOMAIN call = Threads /\ \A t \in Threads : call[t] = NoCall
    BY DEF Init
  <1>2. NoCall.todo = <<>> /\ NoCall.kernel = NULL /\ NoCall.n = 0
    BY DEF NoCall
  <1>3. Types
    <2>1. Locals
      BY <1>1, NoCallIsACall DEF Locals
    <2>2. captured \in Seq(Captures)
      BY DEF Init
    <2> QED BY <2>1, <2>2 DEF Types, Init
  <1>4. ChecksOnce
    BY <1>1, <1>2 DEF ChecksOnce
  <1>5. Numbered
    BY <1>1, <1>2 DEF Numbered, Idle, Init
  <1>6. CapturesAreNumbered
    BY DEF CapturesAreNumbered, Init
  <1>7. Counted
    BY ReplayAssumption DEF Counted, Init
  <1>8. Remembered
    BY DEF Remembered, Init
  <1> QED BY <1>3, <1>4, <1>5, <1>6, <1>7, <1>8 DEF Inv

-----------------------------------------------------------------------------
(* The locals.                                                               *)

\* What the steps of a launch do to its locals, as far as captures can tell.
Moves(t) ==
    /\ Locals'
    /\ \A u \in Threads \ {t} : call'[u] = call[u]
    /\ call'[t].n = call[t].n /\ call'[t].kernel = call[t].kernel
    /\ call'[t].todo = Tail(call[t].todo)

\* The locals c differ from those of t in what was dumped, injected or captured.
SameLaunch(c, t) ==
    /\ DOMAIN c = DOMAIN NoCall
    /\ c.todo = call[t].todo /\ c.kernel = call[t].kernel /\ c.n = call[t].n

LEMMA GoesMoves ==
  ASSUME Locals, NEW t \in Threads, ~Idle(t), NEW c, SameLaunch(c, t), Goes(t, c)
  PROVE  Moves(t)
  <1> DEFINE d == [c EXCEPT !.todo = Tail(@)]
  <1>1. /\ DOMAIN d = DOMAIN NoCall /\ d.todo = Tail(c.todo)
        /\ d.kernel = c.kernel /\ d.n = c.n
    BY DEF SameLaunch, NoCall
  <1>2. call' = [call EXCEPT ![t] = d]
    BY DEF Goes
  <1> HIDE DEF d
  <1>3. DOMAIN call' = Threads /\ call'[t] = d /\ \A u \in Threads \ {t} : call'[u] = call[u]
    BY <1>2 DEF Locals
  <1>4. Tail(call[t].todo) \in Seq(StepNames)
    BY TailIsSeq DEF Locals, Idle
  <1>5. Locals'
    BY <1>1, <1>3, <1>4 DEF Locals, SameLaunch
  <1> QED BY <1>1, <1>3, <1>5 DEF Moves, SameLaunch

\* Whose locals are as before but for what NoCall has no room for.
Keeps ==
    /\ Locals'
    /\ \A t \in Threads : call'[t].n = call[t].n /\ call'[t].todo = call[t].todo

-----------------------------------------------------------------------------
(* Steps that leave the counters and the captured launches alone.            *)

Calm == UNCHANGED <<config, counter, skips, captures, replaySet, captured>>

LEMMA CalmKeepsCounts ==
  ASSUME Inv, Calm
  PROVE  Counted' /\ Remembered'
  BY DEF Inv, Calm, Counted, Remembered

LEMMA TailHasNoCheck ==
  ASSUME NEW s \in Seq(StepNames), s # <<>>, \A j \in 2 .. Len(s) : s[j] # "check"
  PROVE  /\ \A j \in 1 .. Len(Tail(s)) : Tail(s)[j] # "check"
         /\ Tail(s) # <<>> => Head(Tail(s)) # "check"
  <1>1. Tail(s) \in Seq(StepNames) /\ Len(Tail(s)) = Len(s) - 1
    OBVIOUS
  <1>2. \A j \in 1 .. Len(Tail(s)) : Tail(s)[j] = s[j + 1]
    OBVIOUS
  <1>3. \A j \in 1 .. Len(Tail(s)) : Tail(s)[j] # "check"
    BY <1>1, <1>2
  <1> QED BY <1>1, <1>3

\* A step of a launch past its first one, or a check that the others never repeat.
LEMMA MovesKeep ==
  ASSUME Inv, NEW t \in Threads, ~Idle(t), Moves(t), UNCHANGED counter
  PROVE  ChecksOnce' /\ Numbered' /\ ~At(t, "check")'
  <1>1. /\ \A j \in 1 .. Len(call'[t].todo) : call'[t].todo[j] # "check"
        /\ call'[t].todo # <<>> => Head(call'[t].todo) # "check"
    BY TailHasNoCheck DEF Moves, Inv, Types, Locals, ChecksOnce, Idle
  <1>2. ChecksOnce'
    <2>1. ASSUME NEW u \in Threads, NEW j \in 2 .. Len(call'[u].todo)
          PROVE  call'[u].todo[j] # "check"
      <3>1. CASE u = t
        <4>1. call'[t].todo \in Seq(StepNames)
          BY DEF Moves, Locals
        <4>2. j \in 1 .. Len(call'[t].todo)
          BY <2>1, <3>1, <4>1
        <4> QED BY <1>1, <3>1, <4>2
      <3>2. CASE u # t
        BY <2>1, <3>2 DEF ChecksOnce, Moves, Inv
      <3> QED BY <3>1, <3>2
    <2> QED BY <2>1 DEF ChecksOnce
  <1>3. Numbered'
    BY DEF Numbered, Moves, Inv, Idle
  <1> QED BY <1>1, <1>2, <1>3 DEF At, Idle

LEMMA CalmMoves ==
  ASSUME Inv, NEW t \in Threads, ~Idle(t), Moves(t), Calm
  PROVE  Inv'
  <1>1. ChecksOnce' /\ Numbered' /\ ~At(t, "check")'
    BY MovesKeep DEF Calm
  <1>2. CapturesAreNumbered'
    <2>1. ASSUME NEW u \in Threads, At(u, "check")'
          PROVE  u # t /\ At(u, "check") /\ call'[u] = call[u]
      BY <1>1, <2>1 DEF Moves, At, Idle
    <2> QED BY <2>1 DEF CapturesAreNumbered, Inv, Calm
  <1>3. Types'
    BY DEF Types, Inv, Calm, Moves
  <1> QED BY <1>1, <1>2, <1>3, CalmKeepsCounts DEF Inv

LEMMA CalmKeeps ==
  ASSUME Inv, Keeps, Calm
  PROVE  Inv'
  <1>1. ChecksOnce'
    BY DEF ChecksOnce, Inv, Keeps
  <1>2. Numbered'
    BY DEF Numbered, Inv, Keeps, Calm, Idle
  <1>3. CapturesAreNumbered'
    BY DEF CapturesAreNumbered, Inv, Calm, Keeps, At, Idle
  <1>4. Types'
    BY DEF Types, Inv, Calm, Keeps
  <1> QED BY <1>1, <1>2, <1>3, <1>4, CalmKeepsCounts DEF Inv

LEMMA UnchangedKeeps ==
  ASSUME Inv, UNCHANGED call
  PROVE  Keeps
  BY DEF Inv, Types, Keeps, Locals

-----------------------------------------------------------------------------
(* The actions.                                                              *)

LEMMA BeginInv ==
  ASSUME Inv, NEW t \in Threads, NEW k \in Kernels, NEW q \in Queues, Begin(t, k, q)
  PROVE  Inv'
  <1> DEFINE c == [NoCall EXCEPT !.todo = Steps, !.kernel = k, !.queue = q, !.n = counter + 1]
  <1>1. /\ DOMAIN c = DOMAIN NoCall /\ c.todo = Steps /\ c.kernel = k /\ c.n = counter + 1
    BY DEF NoCall
  <1>2. call' = [call EXCEPT ![t] = c]
    BY DEF Begin
  <1> HIDE DEF c
  <1>3. DOMAIN call' = Threads /\ call'[t] = c /\ \A u \in Threads \ {t} : call'[u] = call[u]
    BY <1>2 DEF Inv, Types, Locals
  <1>4. /\ counter' = counter + 1
        /\ UNCHANGED <<config, skips, captures, replaySet, captured>>
    BY DEF Begin, replay
  <1>5. Steps \in Seq(StepNames) /\ \A j \in 2 .. Len(Steps) : Steps[j] # "check"
    <2>1. Len(Steps) = 10
      BY DEF Steps
    <2>2. \A j \in 2 .. 10 : Steps[j] # "check"
      BY DEF Steps
    <2> QED BY <2>1, <2>2, StepsAreSteps
  <1>6. Types'
    <2>1. Locals'
      <3>1. counter + 1 \in Nat
        BY DEF Inv, Types
      <3> QED BY <1>1, <1>3, <1>5, <3>1 DEF Locals, Inv, Types
    <2> QED BY <1>4, <2>1 DEF Types, Inv
  <1>7. ChecksOnce'
    BY <1>1, <1>3, <1>5 DEF ChecksOnce, Inv
  <1>8. Numbered'
    <2>1. \A u \in Threads : call[u].n <= counter /\ call[u].n \in Nat
      BY DEF Numbered, Inv, Types, Locals
    <2>2. counter \in Nat
      BY DEF Inv, Types
    <2>3. \A u \in Threads : call'[u].n <= counter'
      BY <1>1, <1>3, <1>4, <2>1, <2>2
    <2>4. \A u \in Threads \ {t} : call'[u].n # call'[t].n
      BY <1>1, <1>3, <2>1, <2>2
    <2>5. ASSUME NEW u \in Threads, NEW v \in Threads, u # v, ~Idle(u)', ~Idle(v)'
          PROVE  call'[u].n # call'[v].n
      BY <1>3, <2>4, <2>5 DEF Numbered, Inv, Idle
    <2> QED BY <2>3, <2>5 DEF Numbered
  <1>9. CapturesAreNumbered'
    <2>1. counter \in Nat /\ \A i \in DOMAIN captured : captured[i].n \in Nat
      <3>1. captured \in Seq(Captures) /\ DOMAIN captured = 1 .. Len(captured)
        BY DEF Inv, Types
      <3>2. \A i \in DOMAIN captured : captured[i] \in Captures
        BY <3>1, ElementOfSeq
      <3> QED BY <3>2 DEF Inv, Types, Captures
    <2>2. \A i \in DOMAIN captured : captured[i].n <= counter' /\ captured[i].n # counter + 1
      BY <1>4, <2>1 DEF CapturesAreNumbered, Inv
    <2>3. ASSUME NEW u \in Threads, At(u, "check")', NEW i \in DOMAIN captured
          PROVE  captured[i].n # call'[u].n
      <3>1. CASE u = t
        BY <1>1, <1>3, <2>2, <3>1
      <3>2. CASE u # t
        <4>1. At(u, "check") /\ call'[u] = call[u]
          BY <1>3, <2>3, <3>2 DEF At, Idle
        <4> QED BY <4>1 DEF CapturesAreNumbered, Inv
      <3> QED BY <3>1, <3>2
    <2> QED BY <1>4, <2>2, <2>3 DEF CapturesAreNumbered, Inv
  <1>10. Counted' /\ Remembered'
    BY <1>4 DEF Counted, Remembered, Inv
  <1> QED BY <1>6, <1>7, <1>8, <1>9, <1>10 DEF Inv

\* The question itself.  A launch that is taken joins the captured ones.
LEMMA CheckInv ==
  ASSUME Inv, NEW t \in Threads, checkCaptureReplay(t)
  PROVE  Inv'
  <1> DEFINE k == call[t].kernel
             asked == config.CaptureReplay /\ InLimits(call[t].n) /\ k \in config.KernelName
             taken == asked /\ ~Skipped /\ ~Full /\ ~Repeated(k)
             c == [call[t] EXCEPT !.capture = taken]
             new == [n |-> call[t].n, kernel |-> k]
  <1>1. At(t, "check") /\ ~Idle(t)
    BY DEF checkCaptureReplay, At
  <1>2. /\ skips' = IF asked /\ Skipped THEN skips + 1 ELSE skips
        /\ captures' = IF asked /\ ~Skipped THEN captures + 1 ELSE captures
        /\ replaySet' = IF taken /\ config.UniqueKernels
                        THEN replaySet \cup {Signature[k]} ELSE replaySet
        /\ captured' = IF taken THEN Append(captured, new) ELSE captured
        /\ Goes(t, c)
        /\ UNCHANGED <<config, counter>>
    BY DEF checkCaptureReplay
  <1>3. SameLaunch(c, t)
    BY DEF SameLaunch, Inv, Types, Locals, NoCall
  <1>4. Moves(t)
    BY <1>1, <1>2, <1>3, GoesMoves DEF Inv, Types
  <1>5. ChecksOnce' /\ Numbered' /\ ~At(t, "check")'
    BY <1>1, <1>2, <1>4, MovesKeep
  <1>6. new \in Captures /\ new.n = call[t].n /\ new.kernel = k
    BY DEF Captures, Inv, Types, Locals
  <1>7. taken => /\ skips >= config.NumSkip /\ captures < config.NumCapture
                 /\ config.UniqueKernels => Signature[k] \notin replaySet
    BY ReplayAssumption DEF Skipped, Full, Repeated, Inv, Types
  <1>8. asked /\ Skipped => skips + 1 <= config.NumSkip /\ captured = <<>>
    BY ReplayAssumption DEF Skipped, Inv, Types, Counted
  <1>9. captured \in Seq(Captures) /\ captures \in Nat /\ skips \in Nat /\ config \in Configs
        /\ counter \in Nat /\ call[t].n <= counter /\ call[t].n \in Nat
    BY DEF Inv, Types, Numbered, Locals
  <1> HIDE DEF taken, asked, c, new
  <1>10. CASE ~taken
    <2>1. captured' = captured /\ replaySet' = replaySet /\ captures' \in Nat
          /\ captures' >= captures
      BY <1>2, <1>9, <1>10
    <2>2. /\ skips' \in Nat /\ skips' <= config.NumSkip
          /\ captured' # <<>> => skips' = config.NumSkip
      BY <1>2, <1>8, <1>9, <1>10 DEF Inv, Counted
    <2>3. Types'
      BY <1>2, <1>4, <2>1, <2>2 DEF Types, Moves, Inv
    <2>4. Counted'
      BY <1>2, <1>9, <2>1, <2>2 DEF Counted, Inv
    <2>5. Remembered'
      BY <1>2, <2>1 DEF Remembered, Inv
    <2>6. CapturesAreNumbered'
      BY <1>2, <1>4, <1>5, <2>1 DEF CapturesAreNumbered, Inv, Moves, At, Idle
    <2> QED BY <1>5, <2>3, <2>4, <2>5, <2>6 DEF Inv
  <1>11. CASE taken
    <2> DEFINE m == Len(captured)
    <2>1. /\ captured' = Append(captured, new) /\ captures' = captures + 1 /\ skips' = skips
          /\ replaySet' = IF config.UniqueKernels THEN replaySet \cup {Signature[k]}
                          ELSE replaySet
      <3>1. asked /\ ~Skipped
        BY <1>11 DEF taken
      <3> QED BY <1>2, <1>11, <3>1
    <2>2. /\ captured' \in Seq(Captures) /\ Len(captured') = m + 1
          /\ captured'[m + 1] = new /\ \A i \in 1 .. m : captured'[i] = captured[i]
          /\ m \in Nat /\ DOMAIN captured = 1 .. m /\ DOMAIN captured' = 1 .. m + 1
      BY <1>6, <1>9, <2>1
    <2> HIDE DEF m
    <2>3. Types'
      BY <1>2, <1>4, <1>9, <2>1, <2>2 DEF Types, Moves, Inv
    <2>4. Counted'
      <3>1. skips = config.NumSkip
        BY <1>7, <1>9, <1>11, ReplayAssumption DEF Counted, Inv
      <3>2. m <= captures /\ captures + 1 <= config.NumCapture
        BY <1>7, <1>9, <1>11, ReplayAssumption DEF Counted, Inv, m
      <3>3. Len(captured') <= captures' /\ Len(captured') <= config.NumCapture
        BY <1>9, <2>1, <2>2, <3>2, ReplayAssumption
      <3> QED BY <1>2, <1>9, <2>1, <3>1, <3>3, ReplayAssumption DEF Counted
    <2>5. Remembered'
      <3> SUFFICES ASSUME config.UniqueKernels PROVE Remembered'
        BY <1>2 DEF Remembered
      <3>1. Signature[k] \notin replaySet /\ replaySet' = replaySet \cup {Signature[k]}
        BY <1>7, <1>11, <2>1
      <3>2. \A i \in 1 .. m : Signature[captured'[i].kernel] \in replaySet
        BY <2>2 DEF Remembered, Inv
      <3>3. Signature[captured'[m + 1].kernel] = Signature[k]
        BY <1>6, <2>2
      <3>4. \A i \in 1 .. m + 1 : i \in 1 .. m \/ i = m + 1
        BY <2>2
      <3>5. \A i \in DOMAIN captured' : Signature[captured'[i].kernel] \in replaySet'
        BY <2>2, <3>1, <3>2, <3>3, <3>4
      <3>6. ASSUME NEW i \in DOMAIN captured', NEW j \in DOMAIN captured', i # j
            PROVE  Signature[captured'[i].kernel] # Signature[captured'[j].kernel]
        <4>1. CASE i \in 1 .. m /\ j \in 1 .. m
          BY <2>2, <4>1, <3>6 DEF Remembered, Inv
        <4>2. CASE i = m + 1 \/ j = m + 1
          BY <2>2, <3>1, <3>2, <3>3, <3>4, <3>6, <4>2
        <4> QED BY <2>2, <3>4, <4>1, <4>2
      <3> QED BY <3>5, <3>6 DEF Remembered
    <2>6. CapturesAreNumbered'
      <3>1. \A i \in 1 .. m : captured'[i].n <= counter /\ captured'[i].n # call[t].n
        BY <1>1, <2>2 DEF CapturesAreNumbered, Inv
      <3>2. captured'[m + 1].n = call[t].n
        BY <1>6, <2>2
      <3>3. \A i \in 1 .. m + 1 : i \in 1 .. m \/ i = m + 1
        BY <2>2
      <3>4. \A i \in DOMAIN captured' : captured'[i].n <= counter'
        BY <1>2, <1>9, <2>2, <3>1, <3>2, <3>3
      <3>5. ASSUME NEW i \in DOMAIN captured', NEW j \in DOMAIN captured', i # j
            PROVE  captured'[i].n # captured'[j].n
        <4>1. CASE i \in 1 .. m /\ j \in 1 .. m
          BY <2>2, <4>1, <3>5 DEF CapturesAreNumbered, Inv
        <4>2. CASE i = m + 1 \/ j = m + 1
          BY <2>2, <3>1, <3>2, <3>3, <3>5, <4>2
        <4> QED BY <2>2, <3>3, <4>1, <4>2
      <3>6. ASSUME NEW u \in Threads, At(u, "check")', NEW i \in DOMAIN captured'
            PROVE  captured'[i].n # call'[u].n
        <4>1. u # t
          BY <1>5, <3>6
        <4>2. call'[u] = call[u] /\ At(u, "check") /\ ~Idle(u)
          BY <1>4, <3>6, <4>1 DEF Moves, At, Idle
        <4>3. call[u].n # call[t].n
          BY <1>1, <4>1, <4>2 DEF Numbered, Inv
        <4>4. \A j \in 1 .. m : captured'[j].n # call[u].n
          BY <2>2, <4>2 DEF CapturesAreNumbered, Inv
        <4> QED BY <2>2, <3>2, <3>3, <4>2, <4>3, <4>4
      <3> QED BY <3>4, <3>5, <3>6 DEF CapturesAreNumbered
    <2> QED BY <1>5, <2>3, <2>4, <2>5, <2>6 DEF Inv
  <1> QED BY <1>10, <1>11

LEMMA startCaptureReplayInv ==
  ASSUME Inv, NEW t \in Threads, startCaptureReplay(t)
  PROVE  Inv'
  <1> DEFINE d == [call[t] EXCEPT !.args = dumpCaptureReplayKernelArguments(call[t].kernel)]
  <1>1. SameLaunch(call[t], t)
    BY DEF SameLaunch, Inv, Types, Locals
  <1>2. SameLaunch(d, t)
    BY DEF SameLaunch, Inv, Types, Locals, NoCall
  <1>3. ~Idle(t) /\ Calm /\ Goes(t, IF call[t].capture THEN d ELSE call[t])
    BY DEF startCaptureReplay, At, Calm, replay
  <1> HIDE DEF d
  <1> QED BY <1>1, <1>2, <1>3, GoesMoves, CalmMoves DEF Inv, Types

\* A dump before the kernel, or one after it.
LEMMA DumpInv ==
  ASSUME Inv, NEW t \in Threads, ~Idle(t), Calm, NEW files, NEW when,
         Goes(t, IF when = "Pre" THEN [call[t] EXCEPT !.pre = @ \cup files]
                 ELSE [call[t] EXCEPT !.post = @ \cup files])
  PROVE  Inv'
  <1> DEFINE c == [call[t] EXCEPT !.pre = @ \cup files]
             d == [call[t] EXCEPT !.post = @ \cup files]
  <1>1. SameLaunch(c, t)
    BY DEF SameLaunch, Inv, Types, Locals, NoCall
  <1>2. SameLaunch(d, t)
    BY DEF SameLaunch, Inv, Types, Locals, NoCall
  <1>3. Goes(t, c) \/ Goes(t, d)
    OBVIOUS
  <1> HIDE DEF c, d
  <1> QED BY <1>1, <1>2, <1>3, GoesMoves, CalmMoves DEF Inv, Types

LEMMA dumpBuffersInv ==
  ASSUME Inv, NEW t \in Threads, NEW when, dumpBuffersForKernel(t, when)
  PROVE  Inv'
  <1> DEFINE dumped == IF DumpsBuffers(call[t]) THEN Files(call[t].kernel, Buffers) ELSE {}
  <1>1. ~Idle(t) /\ Calm
    BY DEF dumpBuffersForKernel, At, Calm, replay
  <1>2. Goes(t, IF when = "Pre" THEN [call[t] EXCEPT !.pre = @ \cup dumped]
                ELSE [call[t] EXCEPT !.post = @ \cup dumped])
    BY DEF dumpBuffersForKernel
  <1> HIDE DEF dumped
  <1> QED BY <1>1, <1>2, DumpInv

LEMMA dumpImagesInv ==
  ASSUME Inv, NEW t \in Threads, NEW when, dumpImagesForKernel(t, when)
  PROVE  Inv'
  <1> DEFINE dumped == IF DumpsImages(call[t]) THEN Files(call[t].kernel, {"image"}) ELSE {}
  <1>1. ~Idle(t) /\ Calm
    BY DEF dumpImagesForKernel, At, Calm, replay
  <1>2. Goes(t, IF when = "Pre" THEN [call[t] EXCEPT !.pre = @ \cup dumped]
                ELSE [call[t] EXCEPT !.post = @ \cup dumped])
    BY DEF dumpImagesForKernel
  <1> HIDE DEF dumped
  <1> QED BY <1>1, <1>2, DumpInv

LEMMA InjectInv ==
  ASSUME Inv, NEW t \in Threads, ~Idle(t), NEW args, Inject(t, args)
  PROVE  Inv'
  <1> DEFINE c == [call[t] EXCEPT !.injected = @ \cup {argMem[call[t].kernel][i] : i \in args}]
  <1>1. SameLaunch(c, t)
    BY DEF SameLaunch, Inv, Types, Locals, NoCall
  <1>2. Calm /\ Goes(t, c)
    BY DEF Inject, Calm, replay
  <1> HIDE DEF c
  <1> QED BY <1>1, <1>2, GoesMoves, CalmMoves DEF Inv, Types

LEMMA EnqueueInv ==
  ASSUME Inv, NEW t \in Threads, clEnqueueNDRangeKernel(t)
  PROVE  Inv'
  <1>1. SameLaunch(call[t], t)
    BY DEF SameLaunch, Inv, Types, Locals
  <1>2. ~Idle(t) /\ Calm /\ Goes(t, call[t])
    BY DEF clEnqueueNDRangeKernel, At, Calm, replay
  <1> QED BY <1>1, <1>2, GoesMoves, CalmMoves DEF Inv, Types

LEMMA ReturnInv ==
  ASSUME Inv, NEW t \in Threads, Return(t)
  PROVE  Inv'
  <1>1. /\ DOMAIN call' = Threads /\ call'[t] = NoCall
        /\ \A u \in Threads \ {t} : call'[u] = call[u]
    BY DEF Return, Inv, Types, Locals
  <1>2. Calm
    BY DEF Return, Calm, replay
  <1>3. NoCall.todo = <<>> /\ NoCall.kernel = NULL /\ NoCall.n = 0
    BY DEF NoCall
  <1>4. Types'
    <2>1. Locals'
      BY <1>1, NoCallIsACall DEF Locals, Inv, Types
    <2> QED BY <1>2, <2>1 DEF Types, Inv, Calm
  <1>5. ChecksOnce'
    BY <1>1, <1>3 DEF ChecksOnce, Inv
  <1>6. Numbered'
    BY <1>1, <1>2, <1>3 DEF Numbered, Inv, Types, Calm, Idle
  <1>7. CapturesAreNumbered'
    BY <1>1, <1>2, <1>3 DEF CapturesAreNumbered, Inv, Calm, At, Idle
  <1> QED BY <1>2, <1>4, <1>5, <1>6, <1>7, CalmKeepsCounts DEF Inv

LEMMA RunInv ==
  ASSUME Inv, NEW q \in Queues, Run(q)
  PROVE  Inv'
  <1>1. Calm
    BY DEF Run, Calm, replay
  <1>2. Keeps
    <2> DEFINE r == Head(running[q])
               before == {[arg |-> i, content |-> content[real[r.kernel][i]]] :
                             i \in {j \in Args : real[r.kernel][j] \in Memory}}
               c == [call[r.thread] EXCEPT !.ran = before]
    <2>1. call' = call \/ call' = [call EXCEPT ![r.thread] = c]
      BY DEF Run
    <2>2. ASSUME r.thread \in Threads PROVE SameLaunch(c, r.thread)
      BY <2>2 DEF SameLaunch, Inv, Types, Locals, NoCall
    <2> HIDE DEF c, r
    <2>3. /\ DOMAIN call' = Threads
          /\ \A u \in Threads : call'[u] = call[u] \/ (u = r.thread /\ call'[u] = c)
      BY <2>1 DEF Inv, Types, Locals
    <2>4. \A u \in Threads : SameLaunch(call'[u], u)
      BY <2>2, <2>3 DEF Inv, Types, Locals, SameLaunch
    <2>5. Locals'
      BY <2>3, <2>4 DEF Inv, Types, Locals, SameLaunch
    <2> QED BY <2>4, <2>5 DEF Keeps, SameLaunch
  <1> QED BY <1>1, <1>2, CalmKeeps

\* Memory objects and arguments.
LEMMA OthersInv ==
  ASSUME Inv, UNCHANGED <<call, config, counter, replay>>
  PROVE  Inv'
  BY CalmKeeps, UnchangedKeeps DEF Calm, replay

LEMMA NextInv == Inv /\ [Next]_vars => Inv'
  <1> SUFFICES ASSUME Inv, [Next]_vars PROVE Inv'
    OBVIOUS
  <1>1. CASE \E m \in Memory : AddMemory(m) \/ RemoveMemory(m)
    BY <1>1, OthersInv DEF AddMemory, RemoveMemory
  <1>2. CASE \E k \in Kernels : \/ \E i \in Args : clSetKernelArg(k, i) \/ clSetKernelArgPointer(k, i)
                                \/ RecreateKernel(k)
    <2>1. \E k \in Kernels : MaySet(k)
      BY <1>2 DEF clSetKernelArg, clSetKernelArgPointer, RecreateKernel
    <2> QED BY <2>1, OthersInv DEF MaySet
  <1>3. CASE \E k \in Kernels, t \in Threads, q \in Queues : Begin(t, k, q)
    BY <1>3, BeginInv
  <1>4. CASE \E t \in Threads : checkCaptureReplay(t)
    BY <1>4, CheckInv
  <1>5. CASE \E t \in Threads : startCaptureReplay(t)
    BY <1>5, startCaptureReplayInv
  <1>6. CASE \E t \in Threads, when \in {"Pre", "Post"} :
                dumpBuffersForKernel(t, when) \/ dumpImagesForKernel(t, when)
    BY <1>6, dumpBuffersInv, dumpImagesInv
  <1>7. CASE \E t \in Threads : injectBuffersForKernel(t) \/ injectImagesForKernel(t)
    <2>1. PICK t \in Threads : injectBuffersForKernel(t) \/ injectImagesForKernel(t)
      BY <1>7
    <2>2. ~Idle(t) /\ \E args : Inject(t, args)
      BY <2>1 DEF injectBuffersForKernel, injectImagesForKernel, At
    <2> QED BY <2>2, InjectInv
  <1>8. CASE \E t \in Threads : clEnqueueNDRangeKernel(t)
    BY <1>8, EnqueueInv
  <1>9. CASE \E t \in Threads : Return(t)
    BY <1>9, ReturnInv
  <1>10. CASE \E q \in Queues : Run(q)
    BY <1>10, RunInv
  <1>11. CASE UNCHANGED vars
    BY <1>11, OthersInv DEF vars
  <1> QED
    BY <1>1, <1>2, <1>3, <1>4, <1>5, <1>6, <1>7, <1>8, <1>9, <1>10, <1>11 DEF Next

LEMMA InvImplies == Inv => ReplaysAreLimited
  BY DEF Inv, Counted, CapturesAreNumbered, Remembered, ReplaysAreLimited

\* checkCaptureReplayKernelSkips: the limits, the numbers of the directories and
\* the set of unique kernels hold for any number of threads that launch kernels.
THEOREM ReplaysAlwaysLimited == Spec => []ReplaysAreLimited
  BY InitInv, NextInv, InvImplies, PTL DEF Spec

-----------------------------------------------------------------------------
(* What the dumps show.  Each thread is at a number of steps from its return. *)

Left(t) == Len(call[t].todo)
Uses(t) == MemoryOf(call[t].kernel)
Entries(q) == {running[q][i] : i \in DOMAIN running[q]}
Launches == [thread : Threads, kernel : Kernels, n : Nat, memory : SUBSET Memory]

\* A launch takes the steps one after the other.
OnSteps == \A t \in Threads :
    /\ Left(t) \in 0 .. 10
    /\ \A j \in 1 .. Left(t) : call[t].todo[j] = Steps[10 - Left(t) + j]

CallsTyped == \A t \in Threads :
    /\ call[t].capture \in BOOLEAN
    /\ Idle(t) => call[t].n = 0
    /\ ~Idle(t) => call[t].n > 0 /\ call[t].kernel \in Kernels /\ call[t].queue \in Queues

StateTyped ==
    /\ counter <= MaxLaunches
    /\ objects \in 0 .. MaxObjects /\ number \in 1 .. objects + 1
    /\ numberOf \in [Memory -> 0 .. MaxObjects]
    /\ argMem \in [Kernels -> [Args -> Memory \cup {NULL}]]
    /\ argData \in [Kernels -> [Args -> Memory \cup {NULL}]]
    /\ argLocal \in [Kernels -> SUBSET Args] /\ known \in [Kernels -> SUBSET Args]
    /\ alive \subseteq Memory /\ content \in [Memory -> Nat]
    /\ real \in [Kernels -> [Args -> Memory \cup {NULL}]]
    /\ running \in [Queues -> Seq(Launches)]
    /\ \A m \in Memory : numberOf[m] > 0 => m \in alive
    /\ \A k \in Kernels : MemoryOf(k) \subseteq alive

\* What the layer has of the arguments it knows.
RecordsAreRight == \A k \in Kernels : \A i \in known[k] :
    real[k][i] \in Memory =>
        /\ argMem[k][i] = real[k][i] /\ argData[k][i] = real[k][i]
        /\ numberOf[real[k][i]] > 0

\* Launches in progress share neither the kernel nor memory.
Exclusive == \A t, u \in Threads : t # u /\ ~Idle(t) /\ ~Idle(u) =>
    call[t].kernel # call[u].kernel /\ Uses(t) \cap Uses(u) = {}

\* A queued kernel is the one its launch has enqueued, and has not run.
Queued == \A q \in Queues : \A r \in Entries(q) :
    /\ r.n > 0 /\ r.n <= counter /\ r.memory \subseteq alive
    /\ \A t \in Threads : r.n = call[t].n =>
          /\ r.thread = t /\ r.kernel = call[t].kernel /\ q = call[t].queue
          /\ r.memory = Uses(t) /\ Left(t) <= 3 /\ call[t].ran = {}
QueuedOnce == \A p, q \in Queues : \A i \in DOMAIN running[p], j \in DOMAIN running[q] :
    running[p][i].n = running[q][j].n => p = q /\ i = j

\* No other queued kernel uses the memory of a launch, once a captured launch has
\* waited for its own queue.
Apart == \A t \in Threads : \A q \in Queues : \A r \in Entries(q) :
    ~Idle(t) /\ r.n # call[t].n /\ (q = call[t].queue => call[t].capture /\ Left(t) <= 7) =>
        r.memory \cap Uses(t) = {}
\* Nor is its own kernel left, once it has waited a second time.
Waited == \A t \in Threads : \A q \in Queues : \A r \in Entries(q) :
    ~Idle(t) /\ call[t].capture /\ Left(t) <= 2 => r.n # call[t].n

\* The steps left when the memory has been dumped, before and after the kernel.
WhenPre(m)  == IF KindOf[m] = "image" THEN 6 ELSE 7
WhenPost(m) == IF KindOf[m] = "image" THEN 1 ELSE 2

ArgsShown(t) == Faithful(t) /\ Left(t) <= 8 =>
    \A i \in Args : LET m == real[call[t].kernel][i] IN
        m \in Memory => [arg |-> i, local |-> FALSE, value |-> m] \in call[t].args

FileBefore(t, i, m) == \E f \in call[t].pre :
    /\ f.arg = i /\ f.number = numberOf[m]
    /\ \/ m \in call[t].injected \cup stray
       \/ call[t].ran = {} /\ f.content = content[m]
       \/ [arg |-> i, content |-> f.content] \in call[t].ran
PreShown(t) == Faithful(t) =>
    \A i \in Args : LET m == real[call[t].kernel][i] IN
        m \in Memory /\ Left(t) <= WhenPre(m) => FileBefore(t, i, m)

\* What the kernel left is still there.
ResultKept(t) == call[t].ran # {} =>
    /\ Left(t) <= 3
    /\ \A q \in Queues : \A r \in Entries(q) : r.n # call[t].n
    /\ call[t].capture => \A m \in Uses(t) : m \in stray \/ content[m] = 10 + call[t].n

PostLater(t) ==
    /\ Left(t) >= 3 => call[t].post = {}
    /\ Left(t) = 2 => \A f \in call[t].post : /\ argMem[call[t].kernel][f.arg] \in Memory
                                             /\ KindOf[argMem[call[t].kernel][f.arg]] # "image"

PostShown(t) == Faithful(t) /\ Ran(t) =>
    \A i \in Args : LET m == real[call[t].kernel][i] IN
        m \in Memory /\ Left(t) <= WhenPost(m) =>
            m \in stray \/ {f \in call[t].post : f.arg = i} =
                              {[arg |-> i, number |-> numberOf[m], content |-> 10 + call[t].n]}

Shows(t) == ArgsShown(t) /\ PreShown(t) /\ ResultKept(t) /\ PostLater(t) /\ PostShown(t)

Shape == OnSteps /\ CallsTyped /\ StateTyped /\ RecordsAreRight /\ Exclusive
Queueing == Queued /\ QueuedOnce /\ Apart /\ Waited
DumpsInv == Inv /\ Shape /\ Queueing /\ \A t \in Threads : ~Idle(t) => Shows(t)

\* The number of steps left tells the step a thread is at.
LEMMA StepNumbers ==
  /\ Steps[1] = "check" /\ Steps[2] = "startReplay" /\ Steps[3] = "preBuffers"
  /\ Steps[4] = "preImages" /\ Steps[5] = "injectBuffers" /\ Steps[6] = "injectImages"
  /\ Steps[7] = "enqueue" /\ Steps[8] = "postBuffers" /\ Steps[9] = "postImages"
  /\ Steps[10] = "return"
  BY DEF Steps

LEMMA LeftIsANumber ==
  ASSUME Locals, OnSteps, NEW t \in Threads
  PROVE  /\ Left(t) \in Nat
         /\ Idle(t) <=> Left(t) = 0
         /\ ~Idle(t) => Left(t) \in 1 .. 10 /\ Head(call[t].todo) = Steps[11 - Left(t)]
  <1>1. call[t].todo \in Seq(StepNames) /\ Left(t) \in 0 .. 10
    BY DEF Locals, OnSteps
  <1>2. Idle(t) <=> Left(t) = 0
    BY <1>1 DEF Idle, Left
  <1>3. ASSUME ~Idle(t) PROVE Head(call[t].todo) = Steps[11 - Left(t)]
    <2>1. 1 \in 1 .. Left(t) /\ 10 - Left(t) + 1 = 11 - Left(t)
      BY <1>1, <1>2, <1>3
    <2>2. call[t].todo[1] = Steps[11 - Left(t)]
      BY <2>1 DEF OnSteps
    <2> QED BY <1>1, <2>2
  <1> QED BY <1>1, <1>2, <1>3

LEMMA StepAt ==
  ASSUME Locals, OnSteps, NEW t \in Threads, ~Idle(t)
  PROVE  /\ At(t, "check") <=> Left(t) = 10
         /\ At(t, "startReplay") <=> Left(t) = 9
         /\ At(t, "preBuffers") <=> Left(t) = 8
         /\ At(t, "preImages") <=> Left(t) = 7
         /\ At(t, "injectBuffers") <=> Left(t) = 6
         /\ At(t, "injectImages") <=> Left(t) = 5
         /\ At(t, "enqueue") <=> Left(t) = 4
         /\ At(t, "postBuffers") <=> Left(t) = 3
         /\ At(t, "postImages") <=> Left(t) = 2
         /\ At(t, "return") <=> Left(t) = 1
  <1>1. Left(t) \in 1 .. 10 /\ Head(call[t].todo) = Steps[11 - Left(t)]
    BY LeftIsANumber
  <1>2. \A n \in 1 .. 10 : n = 1 \/ n = 2 \/ n = 3 \/ n = 4 \/ n = 5 \/ n = 6 \/ n = 7 \/ n = 8
                           \/ n = 9 \/ n = 10
    OBVIOUS
  <1>3. /\ Left(t) = 10 <=> Head(call[t].todo) = "check"
        /\ Left(t) = 9 <=> Head(call[t].todo) = "startReplay"
        /\ Left(t) = 8 <=> Head(call[t].todo) = "preBuffers"
        /\ Left(t) = 7 <=> Head(call[t].todo) = "preImages"
        /\ Left(t) = 6 <=> Head(call[t].todo) = "injectBuffers"
        /\ Left(t) = 5 <=> Head(call[t].todo) = "injectImages"
        /\ Left(t) = 4 <=> Head(call[t].todo) = "enqueue"
        /\ Left(t) = 3 <=> Head(call[t].todo) = "postBuffers"
        /\ Left(t) = 2 <=> Head(call[t].todo) = "postImages"
        /\ Left(t) = 1 <=> Head(call[t].todo) = "return"
    BY <1>1, <1>2, StepNumbers
  <1> QED BY <1>3 DEF At

\* A step of thread t that changes, of what Shape and Queueing say, only the steps
\* left, and in the first of them whether the launch is captured.
Steady(c, t) ==
    /\ SameLaunch(c, t) /\ c.queue = call[t].queue /\ c.ran = call[t].ran
    /\ c.capture \in BOOLEAN /\ (Left(t) # 10 => c.capture = call[t].capture)

LEMMA GoesTo ==
  ASSUME Locals, OnSteps, NEW t \in Threads, ~Idle(t), NEW c, Steady(c, t), Goes(t, c)
  PROVE  /\ Moves(t) /\ Left(t)' = Left(t) - 1 /\ Left(t)' \in Nat
         /\ \A u \in Threads \ {t} : Left(u)' = Left(u)
         /\ call'[t].queue = call[t].queue /\ call'[t].capture = c.capture
         /\ call'[t].ran = call[t].ran /\ call'[t].injected = c.injected
         /\ call'[t].args = c.args /\ call'[t].pre = c.pre /\ call'[t].post = c.post
  <1> DEFINE d == [c EXCEPT !.todo = Tail(@)]
  <1>1. /\ d.queue = c.queue /\ d.capture = c.capture /\ d.ran = c.ran
        /\ d.injected = c.injected /\ d.args = c.args /\ d.pre = c.pre /\ d.post = c.post
    BY DEF Steady, SameLaunch, NoCall
  <1>2. call' = [call EXCEPT ![t] = d]
    BY DEF Goes
  <1> HIDE DEF d
  <1>3. call'[t] = d
    BY <1>2 DEF Locals
  <1>4. Moves(t)
    BY GoesMoves DEF Steady
  <1>5. call'[t].todo = Tail(call[t].todo) /\ call[t].todo \in Seq(StepNames)
        /\ call[t].todo # <<>>
    BY <1>4 DEF Moves, Locals, Idle
  <1>6. Left(t)' = Left(t) - 1 /\ Left(t)' \in Nat
    BY <1>5, HeadTailProperties, LenProperties DEF Left
  <1>7. \A u \in Threads \ {t} : Left(u)' = Left(u)
    BY <1>4 DEF Moves, Left
  <1> QED BY <1>1, <1>3, <1>4, <1>6, <1>7 DEF Steady


\* Thread u sees nothing of a step: what it rests on is as before, but for memory
\* that has been injected into for another launch.
Unseen(u) ==
    /\ call'[u] = call[u]
    /\ real'[call[u].kernel] = real[call[u].kernel]
    /\ known'[call[u].kernel] = known[call[u].kernel]
    /\ argMem'[call[u].kernel] = argMem[call[u].kernel]
    /\ \A m \in Uses(u) :
          /\ numberOf'[m] = numberOf[m] /\ (m \in stray => m \in stray')
          /\ call[u].capture /\ Left(u) <= 7 => content'[m] = content[m] \/ m \in stray'
    /\ \A q \in Queues : \A r \in Entries(q)' : r.n = call[u].n => r \in Entries(q)

LEMMA UnseenShows ==
  ASSUME DumpsInv, NEW u \in Threads, ~Idle(u), Unseen(u)
  PROVE  Shows(u)'
  <1> DEFINE k == call[u].kernel
  <1>1. /\ Left(u) \in Nat /\ Left(u)' = Left(u) /\ Uses(u)' = Uses(u) /\ k' = k
        /\ (Faithful(u)' <=> Faithful(u)) /\ (Ran(u)' <=> Ran(u)) /\ real'[k] = real[k]
    BY LeftIsANumber DEF DumpsInv, Inv, Types, Shape, Unseen, Left, Uses, MemoryOf, Faithful, Ran
  <1>2. Shows(u)
    BY DEF DumpsInv
  <1>3. \A i \in Args : real[k][i] \in Memory => real[k][i] \in Uses(u)
    BY DEF Uses, MemoryOf
  <1>4. ArgsShown(u)'
    BY <1>1, <1>2 DEF Shows, ArgsShown, Unseen
  <1>5. \A m \in Memory : WhenPre(m) <= 7 /\ WhenPre(m) \in Nat
    BY DEF WhenPre
  <1>6. PreShown(u)'
    <2> SUFFICES ASSUME Faithful(u)', NEW i \in Args, real'[k][i] \in Memory,
                        Left(u)' <= WhenPre(real'[k][i])
                 PROVE  \E f \in call'[u].pre :
                           /\ f.arg = i /\ f.number = numberOf'[real'[k][i]]
                           /\ \/ real'[k][i] \in call'[u].injected \cup stray'
                              \/ call'[u].ran = {} /\ f.content = content'[real'[k][i]]
                              \/ [arg |-> i, content |-> f.content] \in call'[u].ran
      BY <1>1 DEF PreShown, FileBefore
    <2> DEFINE m == real[k][i]
    <2>1. m = real'[k][i] /\ m \in Memory /\ m \in Uses(u) /\ Left(u) <= WhenPre(m)
      BY <1>1, <1>3 DEF WhenPre
    <2>2. PICK f \in call[u].pre :
             /\ f.arg = i /\ f.number = numberOf[m]
             /\ \/ m \in call[u].injected \cup stray
                \/ call[u].ran = {} /\ f.content = content[m]
                \/ [arg |-> i, content |-> f.content] \in call[u].ran
      BY <1>1, <1>2, <2>1 DEF Shows, PreShown, FileBefore
    <2>3. Left(u) <= 7 /\ call[u].capture
      BY <1>1, <1>5, <2>1 DEF Faithful
    <2>4. /\ numberOf'[m] = numberOf[m] /\ (m \in stray => m \in stray')
          /\ content'[m] = content[m] \/ m \in stray'
      BY <2>1, <2>3 DEF Unseen
    <2> HIDE DEF m
    <2> QED BY <2>1, <2>2, <2>4 DEF Unseen
  <1>7. ResultKept(u)'
    <2> SUFFICES ASSUME call'[u].ran # {} PROVE ResultKept(u)'
      BY DEF ResultKept
    <2>1. call[u].ran # {} /\ Left(u) <= 3
      BY <1>2 DEF Shows, ResultKept, Unseen
    <2>2. \A q \in Queues : \A r \in Entries(q)' : r.n # call'[u].n
      BY <1>2, <2>1 DEF Shows, ResultKept, Unseen
    <2>3. ASSUME call'[u].capture, NEW m \in Uses(u)
          PROVE  m \in stray' \/ content'[m] = 10 + call'[u].n
      <3>1. call[u].capture /\ Left(u) <= 7 /\ call'[u].n = call[u].n
        BY <1>1, <2>1, <2>3 DEF Unseen
      <3> QED BY <1>2, <2>1, <3>1 DEF Shows, ResultKept, Unseen
    <2> QED BY <1>1, <2>1, <2>2, <2>3 DEF ResultKept
  <1>8. PostLater(u)'
    BY <1>1, <1>2 DEF Shows, PostLater, Unseen
  <1>9. PostShown(u)'
    <2> SUFFICES ASSUME Faithful(u)', Ran(u)', NEW i \in Args, real'[k][i] \in Memory,
                        Left(u)' <= WhenPost(real'[k][i])
                 PROVE  real'[k][i] \in stray' \/ {f \in call'[u].post : f.arg = i} =
                           {[arg |-> i, number |-> numberOf'[real'[k][i]],
                             content |-> 10 + call'[u].n]}
      BY <1>1 DEF PostShown
    <2> DEFINE m == real[k][i]
    <2>1. m = real'[k][i] /\ m \in Memory /\ m \in Uses(u) /\ Left(u) <= WhenPost(m)
      BY <1>1, <1>3 DEF WhenPost
    <2>2. m \in stray \/ {f \in call[u].post : f.arg = i} =
                            {[arg |-> i, number |-> numberOf[m], content |-> 10 + call[u].n]}
      BY <1>1, <1>2, <2>1 DEF Shows, PostShown
    <2>3. numberOf'[m] = numberOf[m] /\ (m \in stray => m \in stray')
      BY <2>1 DEF Unseen
    <2> HIDE DEF m
    <2> QED BY <2>1, <2>2, <2>3 DEF Unseen
  <1> QED BY <1>4, <1>6, <1>7, <1>8, <1>9 DEF Shows


\* The steps of a launch but its first and last, as far as Shape can tell.
LEMMA LaunchKeepsShape ==
  ASSUME DumpsInv, NEW t \in Threads, ~Idle(t), Left(t) > 1, NEW c, Steady(c, t), Goes(t, c),
         UNCHANGED <<config, counter, layer, alive, real, known, objects>>,
         content' \in [Memory -> Nat], running' \in [Queues -> Seq(Launches)]
  PROVE  Shape'
  <1>1. /\ Moves(t) /\ Left(t)' = Left(t) - 1 /\ Left(t)' \in Nat
        /\ \A u \in Threads \ {t} : Left(u)' = Left(u) /\ call'[u] = call[u]
        /\ call'[t].queue = call[t].queue /\ call'[t].capture \in BOOLEAN
        /\ call'[t].n = call[t].n /\ call'[t].kernel = call[t].kernel
        /\ call'[t].todo = Tail(call[t].todo)
    BY GoesTo DEF DumpsInv, Inv, Types, Shape, Steady, Moves
  <1>2. \A u \in Threads : Left(u) \in Nat /\ (Idle(u) <=> Left(u) = 0) /\ Left(u) <= 10
    BY LeftIsANumber DEF DumpsInv, Inv, Types, Shape
  <1>3. Locals' /\ Left(t)' \in 1 .. 9 /\ ~Idle(t)'
    <2>1. Locals' /\ Left(t)' \in 1 .. 9
      BY <1>1, <1>2 DEF Moves
    <2>2. Len(call'[t].todo) # 0
      <3>1. Left(t)' # 0
        BY <2>1
      <3> QED BY <3>1 DEF Left
    <2>3. call'[t].todo # <<>>
      BY <2>2, EmptySeq
    <2> QED BY <2>1, <2>3 DEF Idle
  <1>4. OnSteps'
    <2>1. ASSUME NEW j \in 1 .. Left(t)'
          PROVE  call'[t].todo[j] = Steps[10 - Left(t)' + j]
      <3>1. call[t].todo \in Seq(StepNames) /\ call[t].todo # <<>>
        BY DEF DumpsInv, Inv, Types, Locals, Idle
      <3>2. Tail(call[t].todo)[j] = call[t].todo[j + 1]
        BY <1>1, <2>1, <3>1, HeadTailProperties DEF Left
      <3>3. j + 1 \in 1 .. Left(t) /\ 10 - Left(t) + (j + 1) = 10 - Left(t)' + j
        BY <1>1, <1>2, <2>1
      <3>4. call[t].todo[j + 1] = Steps[10 - Left(t) + (j + 1)]
        BY <3>3 DEF DumpsInv, Shape, OnSteps
      <3> QED BY <1>1, <3>2, <3>3, <3>4
    <2>2. ASSUME NEW u \in Threads \ {t}
          PROVE  /\ Left(u)' \in 0 .. 10
                 /\ \A j \in 1 .. Left(u)' : call'[u].todo[j] = Steps[10 - Left(u)' + j]
      BY <1>1, <2>2 DEF DumpsInv, Shape, OnSteps
    <2> QED BY <1>3, <2>1, <2>2 DEF OnSteps
  <1>5. CallsTyped'
    BY <1>1, <1>3 DEF DumpsInv, Shape, CallsTyped, Idle
  <1>6. StateTyped'
    BY DEF DumpsInv, Shape, StateTyped, layer, MemoryOf
  <1>7. RecordsAreRight'
    BY DEF DumpsInv, Shape, RecordsAreRight, layer
  <1>8. Exclusive'
    <2>1. \A u \in Threads : call'[u].kernel = call[u].kernel /\ (~Idle(u)' => ~Idle(u))
      BY <1>1 DEF Idle
    <2>2. \A u \in Threads : Uses(u)' = Uses(u)
      BY <2>1 DEF Uses, MemoryOf
    <2> QED BY <2>1, <2>2 DEF DumpsInv, Shape, Exclusive
  <1> QED BY <1>4, <1>5, <1>6, <1>7, <1>8 DEF Shape

LEMMA LaunchKeepsQueues ==
  ASSUME DumpsInv, NEW t \in Threads, ~Idle(t), Left(t) > 1, NEW c, Steady(c, t), Goes(t, c),
         UNCHANGED <<counter, alive, real, running>>,
         call[t].capture /\ Left(t) \in {3, 8} => running[call[t].queue] = <<>>
  PROVE  Queueing'
  <1>1. /\ Moves(t) /\ Left(t)' = Left(t) - 1 /\ Left(t) \in 1 .. 10
        /\ \A u \in Threads \ {t} : Left(u)' = Left(u) /\ call'[u] = call[u]
        /\ call'[t].capture = c.capture /\ (Left(t) # 10 => c.capture = call[t].capture)
    BY GoesTo, LeftIsANumber DEF DumpsInv, Inv, Types, Shape, Steady, Moves
  <1>2. \A u \in Threads : /\ call'[u].queue = call[u].queue /\ call'[u].ran = call[u].ran
                           /\ call'[u].n = call[u].n /\ call'[u].kernel = call[u].kernel
                           /\ (~Idle(u)' => ~Idle(u))
    BY <1>1, GoesTo DEF Idle, DumpsInv, Inv, Types, Shape, Steady, Moves
  <1>3. \A u \in Threads : Uses(u)' = Uses(u)
    BY <1>2 DEF Uses, MemoryOf
  <1>4. \A q \in Queues : Entries(q)' = Entries(q)
    BY DEF Entries
  <1>5. \A u \in Threads : Left(u) \in Nat
    BY LeftIsANumber DEF DumpsInv, Inv, Types, Shape
  <1>6. call[t].queue \in Queues
    BY DEF DumpsInv, Shape, CallsTyped
  <1>7. call[t].capture /\ Left(t) \in {3, 8} => Entries(call[t].queue) = {}
    BY DEF Entries
  <1>8. Queued'
    <2> SUFFICES ASSUME NEW q \in Queues, NEW r \in Entries(q)
                 PROVE  /\ r.n > 0 /\ r.n <= counter /\ r.memory \subseteq alive
                        /\ \A u \in Threads : r.n = call'[u].n =>
                              /\ r.thread = u /\ r.kernel = call'[u].kernel
                              /\ q = call'[u].queue /\ r.memory = Uses(u)'
                              /\ Left(u)' <= 3 /\ call'[u].ran = {}
      BY <1>4 DEF Queued
    <2>1. /\ r.n > 0 /\ r.n <= counter /\ r.memory \subseteq alive
          /\ \A u \in Threads : r.n = call[u].n =>
                /\ r.thread = u /\ r.kernel = call[u].kernel /\ q = call[u].queue
                /\ r.memory = Uses(u) /\ Left(u) <= 3 /\ call[u].ran = {}
      BY DEF DumpsInv, Queueing, Queued
    <2>2. \A u \in Threads : Left(u)' <= Left(u) /\ Left(u)' \in Int
      BY <1>1, <1>5
    <2>3. \A u \in Threads : Left(u) <= 3 => Left(u)' <= 3
      BY <2>2, <1>5
    <2> QED BY <1>2, <1>3, <2>1, <2>3
  <1>9. QueuedOnce'
    BY DEF DumpsInv, Queueing, QueuedOnce
  <1>10. Apart'
    <2> SUFFICES ASSUME NEW u \in Threads, NEW q \in Queues, NEW r \in Entries(q), ~Idle(u)',
                        r.n # call'[u].n,
                        q = call'[u].queue => call'[u].capture /\ Left(u)' <= 7
                 PROVE  r.memory \cap Uses(u) = {}
      BY <1>3, <1>4 DEF Apart
    <2>1. ~Idle(u) /\ r.n # call[u].n
      BY <1>2
    <2>2. CASE u = t /\ q = call[t].queue
      <3>1. call'[t].capture /\ Left(t)' <= 7
        BY <1>2, <2>2 DEF Left
      <3>2. call[t].capture /\ Left(t) <= 8
        <4>1. Left(t) <= 8 /\ Left(t) # 10
          BY <1>1, <3>1
        <4>2. call'[t].capture = call[t].capture
          BY <1>1, <4>1
        <4> QED BY <3>1, <4>1, <4>2
      <3>3. Left(t) # 8
        BY <1>7, <2>2, <3>2
      <3>4. Left(t) <= 7
        BY <1>1, <3>2, <3>3
      <3> QED BY <2>1, <2>2, <3>2, <3>4 DEF DumpsInv, Queueing, Apart
    <2>3. CASE u # t \/ q # call[t].queue
      <3>1. q = call[u].queue => call[u].capture /\ Left(u) <= 7
        BY <1>1, <1>2, <2>3
      <3> QED BY <2>1, <3>1 DEF DumpsInv, Queueing, Apart
    <2> QED BY <2>2, <2>3
  <1>11. Waited'
    <2> SUFFICES ASSUME NEW u \in Threads, NEW q \in Queues, NEW r \in Entries(q), ~Idle(u)',
                        call'[u].capture, Left(u)' <= 2, r.n = call[u].n
                 PROVE  FALSE
      BY <1>2, <1>4 DEF Waited
    <2>1. ~Idle(u) /\ q = call[u].queue
      BY <1>2 DEF DumpsInv, Queueing, Queued
    <2>2. CASE u = t
      <3>1. call[t].capture /\ Left(t) <= 3
        BY <1>1, <2>2
      <3>2. Left(t) # 3
        BY <1>7, <2>1, <2>2, <3>1
      <3>3. Left(t) <= 2
        BY <1>1, <3>1, <3>2
      <3> QED BY <2>1, <2>2, <3>1, <3>3 DEF DumpsInv, Queueing, Waited
    <2>3. CASE u # t
      BY <1>1, <2>1, <2>3 DEF DumpsInv, Queueing, Waited
    <2> QED BY <2>2, <2>3
  <1> QED BY <1>8, <1>9, <1>10, <1>11 DEF Queueing


\* What a step of a launch makes of its own locals.
LEMMA OwnStep ==
  ASSUME DumpsInv, NEW t \in Threads, ~Idle(t), Left(t) > 1, NEW c, Steady(c, t), Goes(t, c),
         UNCHANGED <<real, known>>
  PROVE  /\ Left(t) \in 2 .. 10 /\ Left(t)' = Left(t) - 1
         /\ call[t].kernel \in Kernels /\ call[t].queue \in Queues
         /\ call'[t].n = call[t].n /\ call'[t].kernel = call[t].kernel
         /\ call'[t].queue = call[t].queue /\ call'[t].ran = call[t].ran
         /\ call'[t].args = c.args /\ call'[t].pre = c.pre /\ call'[t].post = c.post
         /\ call'[t].injected = c.injected
         /\ Uses(t)' = Uses(t)
         /\ Left(t) # 10 => (call'[t].capture <=> call[t].capture) /\ (Faithful(t)' <=> Faithful(t))
         /\ Ran(t)' <=> Ran(t)
  <1>1. /\ Left(t) \in 1 .. 10 /\ Moves(t) /\ Left(t)' = Left(t) - 1
        /\ call'[t].queue = call[t].queue /\ call'[t].ran = call[t].ran
        /\ call'[t].capture = c.capture
        /\ call'[t].args = c.args /\ call'[t].pre = c.pre /\ call'[t].post = c.post
        /\ call'[t].injected = c.injected
    BY GoesTo, LeftIsANumber DEF DumpsInv, Inv, Types, Shape
  <1>2. call'[t].n = call[t].n /\ call'[t].kernel = call[t].kernel
    BY <1>1 DEF Moves
  <1>3. call[t].kernel \in Kernels /\ call[t].queue \in Queues
    BY DEF DumpsInv, Shape, CallsTyped
  <1>4. Uses(t)' = Uses(t) /\ (Ran(t)' <=> Ran(t))
    BY <1>1, <1>2 DEF Uses, MemoryOf, Ran
  <1>5. ASSUME Left(t) # 10
        PROVE  (call'[t].capture <=> call[t].capture) /\ (Faithful(t)' <=> Faithful(t))
    <2>1. call'[t].capture = call[t].capture
      BY <1>1, <1>5 DEF Steady
    <2> QED BY <1>2, <2>1 DEF Faithful
  <1>6. Left(t) \in 2 .. 10
    BY <1>1
  <1> QED BY <1>1, <1>2, <1>3, <1>4, <1>5, <1>6

\* Before the kernel is in its queue, all that can be said is of the files before it.
LEMMA EarlyShows ==
  ASSUME DumpsInv, NEW t \in Threads, ~Idle(t), Left(t) >= 4, NEW c, Steady(c, t), Goes(t, c),
         c.post = call[t].post, UNCHANGED <<real, known>>
  PROVE  ResultKept(t)' /\ PostLater(t)' /\ PostShown(t)' /\ call'[t].ran = {}
  <1>1. Left(t) > 1 /\ Left(t) \in 1 .. 10
    BY LeftIsANumber DEF DumpsInv, Inv, Types, Shape
  <1>2. call'[t].ran = call[t].ran /\ call'[t].post = c.post /\ Left(t)' = Left(t) - 1
    BY <1>1, OwnStep
  <1>3. call[t].ran = {}
    BY <1>1 DEF DumpsInv, Shows, ResultKept
  <1>4. Left(t)' >= 3 /\ Left(t)' # 2
    BY <1>1, <1>2
  <1>5. call'[t].post = {}
    BY <1>1, <1>2 DEF DumpsInv, Shows, PostLater
  <1>6. ResultKept(t)'
    BY <1>2, <1>3 DEF ResultKept
  <1>7. PostLater(t)'
    BY <1>4, <1>5 DEF PostLater
  <1>8. PostShown(t)'
    BY <1>2, <1>3 DEF PostShown, Ran
  <1> QED BY <1>2, <1>3, <1>6, <1>7, <1>8

\* The files before the kernel stay right as long as contents only change where
\* they are injected.
LEMMA BeforeKept ==
  ASSUME DumpsInv, NEW t \in Threads, ~Idle(t), NEW i \in Args, NEW m \in Uses(t),
         FileBefore(t, i, m),
         call[t].pre \subseteq call'[t].pre, call[t].injected \subseteq call'[t].injected,
         call'[t].ran = call[t].ran, numberOf' = numberOf, stray \subseteq stray',
         content'[m] = content[m] \/ m \in call'[t].injected \cup stray'
  PROVE  FileBefore(t, i, m)'
  <1>1. PICK f \in call[t].pre :
           /\ f.arg = i /\ f.number = numberOf[m]
           /\ \/ m \in call[t].injected \cup stray
              \/ call[t].ran = {} /\ f.content = content[m]
              \/ [arg |-> i, content |-> f.content] \in call[t].ran
    BY DEF FileBefore
  <1>2. f \in call'[t].pre /\ f.arg = i /\ f.number = numberOf'[m]
    BY <1>1
  <1>3. \/ m \in call'[t].injected \cup stray'
        \/ call'[t].ran = {} /\ f.content = content'[m]
        \/ [arg |-> i, content |-> f.content] \in call'[t].ran
    BY <1>1
  <1> QED BY <1>2, <1>3 DEF FileBefore

\* A step of a launch that touches nothing the others see.
LEMMA QuietStep ==
  ASSUME DumpsInv, NEW t \in Threads, ~Idle(t), Left(t) > 1, NEW c, Steady(c, t), Goes(t, c),
         UNCHANGED <<config, counter, layer, driver, history>>,
         call[t].capture /\ Left(t) \in {3, 8} => running[call[t].queue] = <<>>,
         Inv', Shows(t)'
  PROVE  DumpsInv'
  <1>1. UNCHANGED <<alive, content, real, running, known, stray, objects, argMem, numberOf>>
    BY DEF layer, driver, history
  <1>2. Shape'
    <2>1. content' \in [Memory -> Nat] /\ running' \in [Queues -> Seq(Launches)]
      BY <1>1 DEF DumpsInv, Shape, StateTyped
    <2> QED BY <1>1, <2>1, LaunchKeepsShape
  <1>3. Queueing'
    BY <1>1, LaunchKeepsQueues
  <1>4. ASSUME NEW u \in Threads, ~Idle(u)'
        PROVE  Shows(u)'
    <2>1. CASE u # t
      <3>1. call'[u] = call[u] /\ ~Idle(u)
        BY <1>4, <2>1, GoesTo DEF Moves, Idle, DumpsInv, Inv, Types, Shape
      <3>2. Unseen(u)
        BY <1>1, <3>1 DEF Unseen, Entries
      <3> QED BY <3>1, <3>2, UnseenShows
    <2> QED BY <2>1
  <1> QED BY <1>2, <1>3, <1>4 DEF DumpsInv


-----------------------------------------------------------------------------
(* The steps that only read: the question, the description and the dumps.    *)

LEMMA RecordOf ==
  ASSUME DumpsInv, NEW t \in Threads, ~Idle(t), Faithful(t), NEW i \in Args,
         real[call[t].kernel][i] \in Memory
  PROVE  /\ argMem[call[t].kernel][i] = real[call[t].kernel][i]
         /\ argData[call[t].kernel][i] = real[call[t].kernel][i]
         /\ numberOf[real[call[t].kernel][i]] > 0
         /\ real[call[t].kernel][i] \in Uses(t)
  <1>1. call[t].kernel \in Kernels /\ i \in known[call[t].kernel]
    BY DEF DumpsInv, Shape, CallsTyped, Faithful
  <1> QED BY <1>1 DEF DumpsInv, Shape, RecordsAreRight, Uses, MemoryOf

LEMMA CheckShows ==
  ASSUME DumpsInv, NEW t \in Threads, checkCaptureReplay(t)
  PROVE  DumpsInv'
  <1> DEFINE k == call[t].kernel
             asked == config.CaptureReplay /\ InLimits(call[t].n) /\ k \in config.KernelName
             taken == asked /\ ~Skipped /\ ~Full /\ ~Repeated(k)
             c == [call[t] EXCEPT !.capture = taken]
  <1>1. ~Idle(t) /\ At(t, "check") /\ Goes(t, c)
        /\ UNCHANGED <<config, counter, layer, driver, history>>
    BY DEF checkCaptureReplay, At
  <1>2. Left(t) = 10
    BY <1>1, StepAt DEF DumpsInv, Inv, Types, Shape
  <1>3. /\ taken \in BOOLEAN /\ SameLaunch(c, t) /\ c.capture = taken
        /\ c.queue = call[t].queue /\ c.ran = call[t].ran /\ c.post = call[t].post
    BY DEF SameLaunch, DumpsInv, Inv, Types, Locals, NoCall
  <1> HIDE DEF taken, c
  <1>4. Steady(c, t)
    BY <1>2, <1>3 DEF Steady
  <1>5. UNCHANGED <<real, known>>
    BY <1>1 DEF driver, history
  <1>6. ResultKept(t)' /\ PostLater(t)' /\ PostShown(t)'
    BY <1>1, <1>2, <1>3, <1>4, <1>5, EarlyShows
  <1>7. Left(t)' = 9
    BY <1>1, <1>2, <1>4, <1>5, OwnStep
  <1>8. ArgsShown(t)' /\ PreShown(t)'
    <2>1. ArgsShown(t)'
      BY <1>7 DEF ArgsShown
    <2>2. \A m : ~(Left(t)' <= WhenPre(m))
      BY <1>7 DEF WhenPre
    <2> QED BY <2>1, <2>2 DEF PreShown
  <1>9. Inv'
    BY CheckInv DEF DumpsInv
  <1> QED BY <1>1, <1>2, <1>4, <1>6, <1>8, <1>9, QuietStep DEF Shows

LEMMA StartShows ==
  ASSUME DumpsInv, NEW t \in Threads, startCaptureReplay(t)
  PROVE  DumpsInv'
  <1> DEFINE k == call[t].kernel
             d == [call[t] EXCEPT !.args = dumpCaptureReplayKernelArguments(k)]
             c == IF call[t].capture THEN d ELSE call[t]
  <1>1. ~Idle(t) /\ At(t, "startReplay") /\ Goes(t, c)
        /\ UNCHANGED <<config, counter, layer, replay, driver, history>>
    BY DEF startCaptureReplay, At
  <1>2. Left(t) = 9
    BY <1>1, StepAt DEF DumpsInv, Inv, Types, Shape
  <1>3. /\ SameLaunch(d, t) /\ SameLaunch(call[t], t) /\ d.capture = call[t].capture
        /\ d.queue = call[t].queue /\ d.ran = call[t].ran /\ d.post = call[t].post
        /\ d.args = dumpCaptureReplayKernelArguments(k)
    BY DEF SameLaunch, DumpsInv, Inv, Types, Locals, NoCall
  <1> HIDE DEF d
  <1>4. /\ SameLaunch(c, t) /\ c.capture = call[t].capture
        /\ c.queue = call[t].queue /\ c.ran = call[t].ran /\ c.post = call[t].post
    BY <1>3
  <1>a. call[t].capture => c.args = dumpCaptureReplayKernelArguments(k)
    BY <1>3
  <1> HIDE DEF c
  <1>5. Steady(c, t)
    BY <1>4 DEF Steady, DumpsInv, Shape, CallsTyped
  <1>6. UNCHANGED <<real, known>>
    BY <1>1 DEF driver, history
  <1>7. ResultKept(t)' /\ PostLater(t)' /\ PostShown(t)'
    BY <1>1, <1>2, <1>4, <1>5, <1>6, EarlyShows
  <1>8. /\ Left(t)' = 8 /\ call'[t].args = c.args /\ (Faithful(t)' <=> Faithful(t))
        /\ call'[t].kernel = k
    BY <1>1, <1>2, <1>5, <1>6, OwnStep
  <1>9. ArgsShown(t)'
    <2>1. ASSUME Faithful(t), NEW i \in Args, real[k][i] \in Memory
          PROVE  [arg |-> i, local |-> FALSE, value |-> real[k][i]] \in c.args
      <3>1. argData[k][i] = real[k][i] /\ argData[k][i] # NULL
        BY <1>1, <2>1, RecordOf, LaunchAssumption
      <3>2. [arg |-> i, local |-> FALSE, value |-> argData[k][i]]
               \in dumpCaptureReplayKernelArguments(k)
        BY <3>1 DEF dumpCaptureReplayKernelArguments
      <3>3. call[t].capture
        BY <2>1 DEF Faithful
      <3> QED BY <1>a, <3>1, <3>2, <3>3
    <2> QED BY <1>6, <1>8, <2>1 DEF ArgsShown
  <1>10. PreShown(t)'
    <2>1. \A m : ~(Left(t)' <= WhenPre(m))
      BY <1>8 DEF WhenPre
    <2> QED BY <2>1 DEF PreShown
  <1>11. Inv'
    BY startCaptureReplayInv DEF DumpsInv
  <1> QED BY <1>1, <1>2, <1>5, <1>7, <1>9, <1>10, <1>11, QuietStep DEF Shows

\* A dump before the kernel.
LEMMA PreDumpShows ==
  ASSUME DumpsInv, NEW t \in Threads, ~Idle(t), NEW kinds, NEW dumped,
         \/ Left(t) = 8 /\ kinds = Buffers
         \/ Left(t) = 7 /\ kinds = {"image"},
         Goes(t, [call[t] EXCEPT !.pre = @ \cup dumped]),
         call[t].capture => dumped = Files(call[t].kernel, kinds) /\ ~Pending(call[t].queue),
         UNCHANGED <<config, counter, layer, driver, history>>, Inv'
  PROVE  DumpsInv'
  <1> DEFINE k == call[t].kernel
             c == [call[t] EXCEPT !.pre = @ \cup dumped]
  <1>1. /\ SameLaunch(c, t) /\ c.capture = call[t].capture
        /\ c.queue = call[t].queue /\ c.ran = call[t].ran /\ c.post = call[t].post
        /\ c.args = call[t].args /\ c.pre = call[t].pre \cup dumped
        /\ c.injected = call[t].injected
    BY DEF SameLaunch, DumpsInv, Inv, Types, Locals, NoCall
  <1>2. Goes(t, c)
    OBVIOUS
  <1> HIDE DEF c
  <1>3. Steady(c, t)
    BY <1>1 DEF Steady, DumpsInv, Shape, CallsTyped
  <1>4. UNCHANGED <<real, known, numberOf, stray, content>>
    BY DEF driver, history, layer
  <1>5. ResultKept(t)' /\ PostLater(t)' /\ PostShown(t)' /\ call'[t].ran = {}
    BY <1>1, <1>2, <1>3, <1>4, EarlyShows
  <1>6. /\ Left(t)' = Left(t) - 1 /\ call'[t].args = call[t].args
        /\ (Faithful(t)' <=> Faithful(t)) /\ call'[t].kernel = k
        /\ call'[t].pre = call[t].pre \cup dumped /\ call'[t].injected = call[t].injected
        /\ call'[t].ran = call[t].ran
    BY <1>1, <1>2, <1>3, <1>4, OwnStep
  <1>7. ArgsShown(t)'
    BY <1>4, <1>6 DEF ArgsShown, DumpsInv, Shows
  <1>8. PreShown(t)'
    <2>1. ASSUME Faithful(t), NEW i \in Args, NEW m \in Memory, m = real[k][i],
                 Left(t) - 1 <= WhenPre(m)
          PROVE  FileBefore(t, i, m)'
      <3>1. m \in Uses(t) /\ argMem[k][i] = m /\ numberOf[m] > 0 /\ call[t].capture
        BY <2>1, RecordOf DEF Faithful
      <3>2. CASE Left(t) <= WhenPre(m)
        <4>1. FileBefore(t, i, m)
          BY <2>1, <3>2 DEF DumpsInv, Shows, PreShown
        <4> QED BY <1>4, <1>6, <3>1, <4>1, BeforeKept
      <3>3. CASE ~(Left(t) <= WhenPre(m))
        <4>1. KindOf[m] \in kinds
          BY <2>1, <3>3, LaunchAssumption DEF WhenPre, Buffers
        <4>2. i \in Recorded(k, kinds)
          BY <3>1, <4>1 DEF Recorded, Tracked
        <4> DEFINE f == [arg |-> i, number |-> numberOf[m], content |-> content[m]]
        <4>3. f \in call'[t].pre
          BY <1>6, <3>1, <4>2 DEF Files
        <4>4. f.arg = i /\ f.number = numberOf'[m] /\ f.content = content'[m]
          BY <1>4
        <4> HIDE DEF f
        <4> QED BY <1>5, <4>3, <4>4 DEF FileBefore
      <3> QED BY <3>2, <3>3
    <2> QED BY <1>4, <1>6, <2>1 DEF PreShown
  <1>9. call[t].capture /\ Left(t) \in {3, 8} => running[call[t].queue] = <<>>
    BY DEF Pending
  <1>10. Left(t) > 1
    OBVIOUS
  <1> QED BY <1>2, <1>3, <1>5, <1>7, <1>8, <1>9, <1>10, QuietStep DEF Shows


\* There is one file for each argument that is recorded with memory of these kinds.
LEMMA OneFile ==
  ASSUME NEW k, NEW kinds, NEW i \in Args
  PROVE  /\ i \in Recorded(k, kinds) =>
              {f \in Files(k, kinds) : f.arg = i} =
                 {[arg |-> i, number |-> numberOf[argMem[k][i]], content |-> content[argMem[k][i]]]}
         /\ i \notin Recorded(k, kinds) => {f \in Files(k, kinds) : f.arg = i} = {}
  <1>1. \A f \in Files(k, kinds) : \E j \in Recorded(k, kinds) :
           f = [arg |-> j, number |-> numberOf[argMem[k][j]], content |-> content[argMem[k][j]]]
    BY DEF Files
  <1>2. \A f \in Files(k, kinds) : f.arg \in Recorded(k, kinds) /\
           f = [arg |-> f.arg, number |-> numberOf[argMem[k][f.arg]],
                content |-> content[argMem[k][f.arg]]]
    BY <1>1
  <1>4. ASSUME i \in Recorded(k, kinds)
        PROVE  {f \in Files(k, kinds) : f.arg = i} =
                 {[arg |-> i, number |-> numberOf[argMem[k][i]], content |-> content[argMem[k][i]]]}
    <2> DEFINE g == [arg |-> i, number |-> numberOf[argMem[k][i]],
                     content |-> content[argMem[k][i]]]
    <2>1. g \in Files(k, kinds) /\ g.arg = i
      BY <1>4 DEF Files
    <2>2. \A f \in Files(k, kinds) : f.arg = i => f = g
      BY <1>2
    <2> QED BY <2>1, <2>2
  <1> QED BY <1>2, <1>4

\* A dump after the kernel.
LEMMA PostDumpShows ==
  ASSUME DumpsInv, NEW t \in Threads, ~Idle(t), NEW kinds, NEW dumped,
         \/ Left(t) = 3 /\ kinds = Buffers
         \/ Left(t) = 2 /\ kinds = {"image"},
         Goes(t, [call[t] EXCEPT !.post = @ \cup dumped]),
         dumped \subseteq Files(call[t].kernel, kinds),
         call[t].capture => dumped = Files(call[t].kernel, kinds) /\ ~Pending(call[t].queue),
         UNCHANGED <<config, counter, layer, driver, history>>, Inv'
  PROVE  DumpsInv'
  <1> DEFINE k == call[t].kernel
             c == [call[t] EXCEPT !.post = @ \cup dumped]
  <1>1. /\ SameLaunch(c, t) /\ c.capture = call[t].capture
        /\ c.queue = call[t].queue /\ c.ran = call[t].ran /\ c.pre = call[t].pre
        /\ c.args = call[t].args /\ c.post = call[t].post \cup dumped
        /\ c.injected = call[t].injected
    BY DEF SameLaunch, DumpsInv, Inv, Types, Locals, NoCall
  <1>2. Goes(t, c)
    OBVIOUS
  <1> HIDE DEF c
  <1>3. Steady(c, t)
    BY <1>1 DEF Steady, DumpsInv, Shape, CallsTyped
  <1>4. UNCHANGED <<real, known, numberOf, stray, content, argMem, running>>
    BY DEF driver, history, layer
  <1>5. /\ Left(t) \in 2 .. 3 /\ Left(t) > 1 /\ Left(t)' = Left(t) - 1
        /\ call'[t].args = call[t].args
        /\ (Faithful(t)' <=> Faithful(t)) /\ call'[t].kernel = k /\ call'[t].n = call[t].n
        /\ call'[t].post = call[t].post \cup dumped /\ call'[t].injected = call[t].injected
        /\ call'[t].ran = call[t].ran /\ call'[t].pre = call[t].pre
        /\ (call'[t].capture <=> call[t].capture) /\ Uses(t)' = Uses(t) /\ (Ran(t)' <=> Ran(t))
    BY <1>1, <1>2, <1>3, <1>4, OwnStep
  <1>6. Shows(t)
    BY DEF DumpsInv
  <1>7. ArgsShown(t)'
    BY <1>4, <1>5, <1>6 DEF ArgsShown, Shows
  <1>8. PreShown(t)'
    <2>1. ASSUME Faithful(t), NEW i \in Args, NEW m \in Memory, m = real[k][i]
          PROVE  FileBefore(t, i, m)'
      <3>1. m \in Uses(t)
        BY <2>1, RecordOf
      <3>2. FileBefore(t, i, m)
        BY <1>5, <1>6, <2>1 DEF Shows, PreShown, WhenPre
      <3> QED BY <1>4, <1>5, <3>1, <3>2, BeforeKept
    <2> QED BY <1>4, <1>5, <2>1 DEF PreShown
  <1>9. ResultKept(t)'
    <2>1. \A q \in Queues : Entries(q)' = Entries(q)
      BY <1>4 DEF Entries
    <2>2. Left(t)' <= 3
      BY <1>5
    <2> QED BY <1>4, <1>5, <1>6, <2>1, <2>2 DEF ResultKept, Shows
  <1>10. PostLater(t)'
    <2>1. ASSUME Left(t)' = 2
          PROVE  \A f \in call'[t].post : /\ argMem[k][f.arg] \in Memory
                                          /\ KindOf[argMem[k][f.arg]] # "image"
      <3>1. Left(t) = 3 /\ kinds = Buffers
        BY <1>5, <2>1
      <3>2. call'[t].post \subseteq Files(k, Buffers)
        BY <1>5, <1>6, <3>1 DEF Shows, PostLater
      <3>3. \A f \in Files(k, Buffers) : /\ argMem[k][f.arg] \in Memory
                                         /\ KindOf[argMem[k][f.arg]] \in Buffers
        <4>1. \A f \in Files(k, Buffers) : \E j \in Args : j \in Recorded(k, Buffers) /\ f.arg = j
          BY DEF Files, Recorded
        <4> QED BY <4>1 DEF Recorded, Tracked
      <3> QED BY <3>2, <3>3 DEF Buffers
    <2>2. ~(Left(t)' >= 3)
      BY <1>5
    <2> QED BY <1>4, <1>5, <2>1, <2>2 DEF PostLater
  <1>11. PostShown(t)'
    <2>1. ASSUME Faithful(t), Ran(t), NEW i \in Args, NEW m \in Memory, m = real[k][i],
                 Left(t) - 1 <= WhenPost(m), m \notin stray
          PROVE  {f \in call[t].post \cup dumped : f.arg = i} =
                    {[arg |-> i, number |-> numberOf[m], content |-> 10 + call[t].n]}
      <3>1. m \in Uses(t) /\ argMem[k][i] = m /\ numberOf[m] > 0 /\ call[t].capture
        BY <2>1, RecordOf DEF Faithful
      <3>2. dumped = Files(k, kinds)
        BY <3>1
      <3>3. content[m] = 10 + call[t].n
        BY <1>6, <2>1, <3>1 DEF Shows, ResultKept, Ran
      <3>4. i \in Recorded(k, kinds) <=> KindOf[m] \in kinds
        BY <3>1, <2>1 DEF Recorded, Tracked
      <3>5. {f \in call[t].post \cup dumped : f.arg = i} =
               {f \in call[t].post : f.arg = i} \cup {f \in Files(k, kinds) : f.arg = i}
        BY <3>2
      <3>6. CASE KindOf[m] \in kinds
        <4>1. {f \in Files(k, kinds) : f.arg = i} =
                 {[arg |-> i, number |-> numberOf[m], content |-> 10 + call[t].n]}
          BY <3>1, <3>3, <3>4, <3>6, OneFile
        <4>2. {f \in call[t].post : f.arg = i} = {}
          <5>1. CASE Left(t) = 3
            BY <1>6, <5>1 DEF Shows, PostLater
          <5>2. CASE Left(t) = 2
            <6>1. KindOf[m] = "image"
              BY <3>6, <5>2
            <6> QED BY <1>6, <3>1, <5>2, <6>1 DEF Shows, PostLater
          <5> QED BY <1>5, <5>1, <5>2
        <4> QED BY <3>5, <4>1, <4>2
      <3>7. CASE KindOf[m] \notin kinds
        <4>1. {f \in Files(k, kinds) : f.arg = i} = {}
          BY <3>4, <3>7, OneFile
        <4>2. Left(t) = 2 /\ KindOf[m] # "image"
          <5>1. Left(t) = 3 => FALSE
            BY <2>1, <3>7, LaunchAssumption DEF WhenPost, Buffers
          <5> QED BY <1>5, <3>7, <5>1
        <4>3. {f \in call[t].post : f.arg = i} =
                 {[arg |-> i, number |-> numberOf[m], content |-> 10 + call[t].n]}
          BY <1>6, <2>1, <4>2 DEF Shows, PostShown, WhenPost
        <4> QED BY <3>5, <4>1, <4>3
      <3> QED BY <3>6, <3>7
    <2> QED BY <1>4, <1>5, <2>1 DEF PostShown
  <1>12. call[t].capture /\ Left(t) \in {3, 8} => running[call[t].queue] = <<>>
    BY DEF Pending
  <1> QED BY <1>2, <1>3, <1>5, <1>7, <1>8, <1>9, <1>10, <1>11, <1>12, QuietStep DEF Shows


LEMMA DumpBuffersShows ==
  ASSUME DumpsInv, NEW t \in Threads, NEW when \in {"Pre", "Post"}, dumpBuffersForKernel(t, when)
  PROVE  DumpsInv'
  <1> DEFINE dumped == IF DumpsBuffers(call[t]) THEN Files(call[t].kernel, Buffers) ELSE {}
  <1>1. /\ At(t, IF when = "Pre" THEN "preBuffers" ELSE "postBuffers") /\ ~Idle(t)
        /\ Goes(t, IF when = "Pre" THEN [call[t] EXCEPT !.pre = @ \cup dumped]
                   ELSE [call[t] EXCEPT !.post = @ \cup dumped])
        /\ DumpsBuffers(call[t]) => ~Pending(call[t].queue)
        /\ UNCHANGED <<config, counter, layer, driver, history>>
    BY DEF dumpBuffersForKernel, At
  <1>2. /\ dumped \subseteq Files(call[t].kernel, Buffers)
        /\ call[t].capture => dumped = Files(call[t].kernel, Buffers) /\ ~Pending(call[t].queue)
    BY <1>1 DEF DumpsBuffers
  <1>3. Inv'
    BY dumpBuffersInv DEF DumpsInv
  <1> HIDE DEF dumped
  <1>4. CASE when = "Pre"
    <2>1. Left(t) = 8
      BY <1>1, <1>4, StepAt DEF DumpsInv, Inv, Types, Shape
    <2> QED BY <1>1, <1>2, <1>3, <1>4, <2>1, PreDumpShows
  <1>5. CASE when = "Post"
    <2>1. Left(t) = 3
      BY <1>1, <1>5, StepAt DEF DumpsInv, Inv, Types, Shape
    <2> QED BY <1>1, <1>2, <1>3, <1>5, <2>1, PostDumpShows
  <1> QED BY <1>4, <1>5

LEMMA DumpImagesShows ==
  ASSUME DumpsInv, NEW t \in Threads, NEW when \in {"Pre", "Post"}, dumpImagesForKernel(t, when)
  PROVE  DumpsInv'
  <1> DEFINE dumped == IF DumpsImages(call[t]) THEN Files(call[t].kernel, {"image"}) ELSE {}
  <1>1. /\ At(t, IF when = "Pre" THEN "preImages" ELSE "postImages") /\ ~Idle(t)
        /\ Goes(t, IF when = "Pre" THEN [call[t] EXCEPT !.pre = @ \cup dumped]
                   ELSE [call[t] EXCEPT !.post = @ \cup dumped])
        /\ DumpsImages(call[t]) => ~Pending(call[t].queue)
        /\ UNCHANGED <<config, counter, layer, driver, history>>
    BY DEF dumpImagesForKernel, At
  <1>2. /\ dumped \subseteq Files(call[t].kernel, {"image"})
        /\ call[t].capture => dumped = Files(call[t].kernel, {"image"}) /\ ~Pending(call[t].queue)
    BY <1>1 DEF DumpsImages
  <1>3. Inv'
    BY dumpImagesInv DEF DumpsInv
  <1> HIDE DEF dumped
  <1>4. CASE when = "Pre"
    <2>1. Left(t) = 7
      BY <1>1, <1>4, StepAt DEF DumpsInv, Inv, Types, Shape
    <2> QED BY <1>1, <1>2, <1>3, <1>4, <2>1, PreDumpShows
  <1>5. CASE when = "Post"
    <2>1. Left(t) = 2
      BY <1>1, <1>5, StepAt DEF DumpsInv, Inv, Types, Shape
    <2> QED BY <1>1, <1>2, <1>3, <1>5, <2>1, PostDumpShows
  <1> QED BY <1>4, <1>5

-----------------------------------------------------------------------------
(* The steps that write memory: the injections.                              *)

\* A finite set of numbers that has a member has a greatest one.
LEMMA SmallestSet ==
  ASSUME NEW F, F # {}, \A X \in F : IsFiniteSet(X)
  PROVE  \E X \in F : \A Y \in F : Y \subseteq X => Y = X
  <1> DEFINE U == UNION F
             R == StrictSubsetOrdering(U)
             D == FiniteSubsetsOf(U)
  <1>1. IsWellFoundedOn(R, D)
    BY FS_StrictSubsetOrderingWellFounded
  <1>2. F \subseteq D
    BY DEF FiniteSubsetsOf
  <1> HIDE DEF R, D
  <1>3. \E X \in F : \A Y \in F : ~ (<<Y, X>> \in R)
    BY <1>1, <1>2, WFMin
  <1>4. \A X, Y \in F : Y \subseteq X /\ Y # X => <<Y, X>> \in R
    BY <1>2 DEF R, D, StrictSubsetOrdering, FiniteSubsetsOf
  <1> QED BY <1>3, <1>4

LEMMA GreatestMember ==
  ASSUME NEW S \in SUBSET Nat, S # {}, IsFiniteSet(S)
  PROVE  \E x \in S : \A y \in S : x >= y
  <1> DEFINE F == {{y \in S : y >= x} : x \in S}
  <1>1. F # {} /\ \A X \in F : IsFiniteSet(X)
    <2>1. \A x \in S : IsFiniteSet({y \in S : y >= x})
      BY FS_Subset
    <2> QED BY <2>1
  <1> HIDE DEF F
  <1>2. PICK X \in F : \A Y \in F : Y \subseteq X => Y = X
    BY <1>1, SmallestSet
  <1>3. PICK x \in S : X = {y \in S : y >= x}
    BY <1>2 DEF F
  <1>4. ASSUME NEW z \in S, ~(x >= z)
        PROVE  FALSE
    <2> DEFINE Y == {y \in S : y >= z}
    <2>1. Y \in F
      BY DEF F
    <2>2. x \in Nat /\ z \in Nat /\ \A y \in S : y \in Nat
      OBVIOUS
    <2>3. x \in X /\ x \notin Y
      BY <1>3, <1>4, <2>2
    <2>4. \A y \in S : y >= z => y >= x
      BY <1>4, <2>2
    <2>5. Y \subseteq X
      BY <1>3, <2>4
    <2> QED BY <1>2, <2>1, <2>3, <2>5
  <1> QED BY <1>4

\* What is injected is a number: it says which argument it came by.
Contents(k, args) ==
    [m \in Memory |-> IF \E i \in args : argMem[k][i] = m
                      THEN Injected(Max({i \in args : argMem[k][i] = m})) ELSE content[m]]
LEMMA InjectedContent ==
  ASSUME StateTyped, NEW k, NEW args \in SUBSET Args
  PROVE  Contents(k, args) \in [Memory -> Nat]
  <1> SUFFICES ASSUME NEW m \in Memory, \E i \in args : argMem[k][i] = m
               PROVE  Injected(Max({i \in args : argMem[k][i] = m})) \in Nat
    BY DEF StateTyped, Contents
  <1> DEFINE S == {i \in args : argMem[k][i] = m}
  <1>1. S # {} /\ S \subseteq Nat /\ IsFiniteSet(S)
    BY FS_Subset, LaunchAssumption
  <1>2. Max(S) \in Nat
    BY <1>1, GreatestMember DEF Max
  <1> QED BY <1>2 DEF Injected

LEMMA InjectShows ==
  ASSUME DumpsInv, NEW t \in Threads, ~Idle(t), Left(t) \in {5, 6}, NEW args \in SUBSET Args,
         \A i \in args : argMem[call[t].kernel][i] \in Memory, Inject(t, args)
  PROVE  DumpsInv'
  <1> DEFINE k == call[t].kernel
             written == {argMem[k][i] : i \in args}
             c == [call[t] EXCEPT !.injected = @ \cup written]
  <1>1. /\ SameLaunch(c, t) /\ c.capture = call[t].capture
        /\ c.queue = call[t].queue /\ c.ran = call[t].ran /\ c.pre = call[t].pre
        /\ c.args = call[t].args /\ c.post = call[t].post
        /\ c.injected = call[t].injected \cup written
    BY DEF SameLaunch, DumpsInv, Inv, Types, Locals, NoCall
  <1>2. /\ Goes(t, c) /\ stray' = stray \cup (written \ MemoryOf(k))
        /\ UNCHANGED <<config, counter, layer, replay, alive, real, running, known, objects>>
    BY DEF Inject
  <1>3. content' \in [Memory -> Nat] /\ \A m \in Memory : m \notin written => content'[m] = content[m]
    <2>1. content' = Contents(k, args)
      BY DEF Inject, Contents
    <2>2. Contents(k, args) \in [Memory -> Nat]
      BY InjectedContent DEF DumpsInv, Shape
    <2>3. \A m \in Memory : m \notin written => Contents(k, args)[m] = content[m]
      BY DEF Contents
    <2> HIDE DEF written
    <2> QED BY <2>1, <2>2, <2>3
  <1> HIDE DEF c, written
  <1>4. Steady(c, t) /\ Left(t) > 1 /\ Left(t) >= 4
    BY <1>1 DEF Steady, DumpsInv, Shape, CallsTyped
  <1>5. UNCHANGED <<real, known, numberOf, argMem>> /\ stray \subseteq stray'
    BY <1>2 DEF layer
  <1>6. /\ Left(t)' = Left(t) - 1 /\ call'[t].args = call[t].args
        /\ (Faithful(t)' <=> Faithful(t)) /\ call'[t].kernel = k
        /\ call'[t].pre = call[t].pre /\ call'[t].injected = call[t].injected \cup written
        /\ call'[t].ran = call[t].ran
    BY <1>1, <1>2, <1>4, <1>5, OwnStep
  <1>7. ResultKept(t)' /\ PostLater(t)' /\ PostShown(t)'
    BY <1>1, <1>2, <1>4, <1>5, EarlyShows
  <1>8. ArgsShown(t)'
    BY <1>5, <1>6 DEF ArgsShown, DumpsInv, Shows
  <1>9. PreShown(t)'
    <2>1. ASSUME Faithful(t), NEW i \in Args, NEW m \in Memory, m = real[k][i]
          PROVE  Left(t)' <= WhenPre(m) => FileBefore(t, i, m)'
      <3>1. m \in Uses(t)
        BY <2>1, RecordOf
      <3>2. FileBefore(t, i, m)
        BY <2>1 DEF DumpsInv, Shows, PreShown, WhenPre
      <3>3. content'[m] = content[m] \/ m \in call'[t].injected \cup stray'
        BY <1>3, <1>6
      <3> QED BY <1>5, <1>6, <3>1, <3>2, <3>3, BeforeKept
    <2> QED BY <1>5, <1>6, <2>1 DEF PreShown
  <1>10. Shape'
    <2>1. running' \in [Queues -> Seq(Launches)]
      BY <1>2 DEF DumpsInv, Shape, StateTyped
    <2> QED BY <1>2, <1>3, <1>4, <2>1, LaunchKeepsShape
  <1>11. Queueing'
    BY <1>2, <1>4, LaunchKeepsQueues
  <1>12. ASSUME NEW u \in Threads \ {t}, ~Idle(u)'
         PROVE  Shows(u)'
    <2>1. call'[u] = call[u] /\ ~Idle(u)
      BY <1>2, <1>4, <1>12, GoesTo DEF Moves, Idle, DumpsInv, Inv, Types, Shape
    <2>2. \A m \in Uses(u) : content'[m] = content[m] \/ m \in stray'
      <3>1. \A m \in Uses(u) : m \in Memory /\ m \notin MemoryOf(k)
        BY <2>1 DEF DumpsInv, Shape, Exclusive, Uses, MemoryOf
      <3> QED BY <1>2, <1>3, <3>1
    <2>3. Unseen(u)
      BY <1>2, <1>5, <2>1, <2>2 DEF Unseen, Entries
    <2> QED BY <2>1, <2>3, UnseenShows
  <1>13. Inv'
    BY InjectInv DEF DumpsInv
  <1> QED BY <1>7, <1>8, <1>9, <1>10, <1>11, <1>12, <1>13 DEF DumpsInv, Shows


LEMMA InjectionsShow ==
  ASSUME DumpsInv, NEW t \in Threads, injectBuffersForKernel(t) \/ injectImagesForKernel(t)
  PROVE  DumpsInv'
  <1>1. ~Idle(t) /\ Left(t) \in {5, 6}
    <2>1. ~Idle(t) /\ (At(t, "injectBuffers") \/ At(t, "injectImages"))
      BY DEF injectBuffersForKernel, injectImagesForKernel, At
    <2> QED BY <2>1, StepAt DEF DumpsInv, Inv, Types, Shape
  <1>2. \A kinds : \A i \in Recorded(call[t].kernel, kinds) :
           i \in Args /\ argMem[call[t].kernel][i] \in Memory
    BY DEF Recorded, Tracked
  <1>3. \E kinds : \E args \in SUBSET Recorded(call[t].kernel, kinds) : Inject(t, args)
    <2>1. ASSUME NEW fits \in SUBSET Recorded(call[t].kernel, Buffers)
          PROVE  (IF config.InjectBuffers THEN fits ELSE {})
                    \in SUBSET Recorded(call[t].kernel, Buffers)
      OBVIOUS
    <2>2. ASSUME NEW fits \in SUBSET Recorded(call[t].kernel, {"image"}),
                 NEW other \in SUBSET (Recorded(call[t].kernel, {"image"}) \ fits)
          PROVE  (IF config.InjectImages THEN fits \cup {i \in other : \E j \in fits : j < i} ELSE {})
                    \in SUBSET Recorded(call[t].kernel, {"image"})
      OBVIOUS
    <2> QED BY <2>1, <2>2 DEF injectBuffersForKernel, injectImagesForKernel
  <1>4. \E args \in SUBSET Args : /\ Inject(t, args)
                                  /\ \A i \in args : argMem[call[t].kernel][i] \in Memory
    <2>1. PICK kinds, args : args \in SUBSET Recorded(call[t].kernel, kinds) /\ Inject(t, args)
      BY <1>3
    <2>2. args \in SUBSET Args /\ \A i \in args : argMem[call[t].kernel][i] \in Memory
      BY <1>2, <2>1
    <2> QED BY <2>1, <2>2
  <1> QED BY <1>1, <1>4, InjectShows

-----------------------------------------------------------------------------
(* The kernel goes into its queue.                                           *)

LEMMA EntriesTyped ==
  ASSUME StateTyped, NEW q \in Queues
  PROVE  /\ running[q] \in Seq(Launches) /\ DOMAIN running[q] = 1 .. Len(running[q])
         /\ Len(running[q]) \in Nat
         /\ \A i \in DOMAIN running[q] : running[q][i] \in Launches
         /\ \A r \in Entries(q) : /\ r.thread \in Threads /\ r.kernel \in Kernels /\ r.n \in Nat
                                  /\ r.memory \subseteq Memory
  <1>1. running[q] \in Seq(Launches)
    BY DEF StateTyped
  <1>2. DOMAIN running[q] = 1 .. Len(running[q]) /\ Len(running[q]) \in Nat
    BY <1>1
  <1>3. \A i \in DOMAIN running[q] : running[q][i] \in Launches
    BY <1>1, <1>2, ElementOfSeq
  <1> QED BY <1>1, <1>2, <1>3 DEF Entries, Launches

LEMMA EntriesAppend ==
  ASSUME StateTyped, NEW p \in Queues, NEW new \in Launches,
         running' = [running EXCEPT ![p] = Append(@, new)]
  PROVE  /\ running' \in [Queues -> Seq(Launches)]
         /\ Entries(p)' = Entries(p) \cup {new}
         /\ \A q \in Queues \ {p} : running'[q] = running[q] /\ Entries(q)' = Entries(q)
         /\ DOMAIN running'[p] = 1 .. Len(running[p]) + 1
         /\ running'[p][Len(running[p]) + 1] = new
         /\ \A i \in DOMAIN running[p] : running'[p][i] = running[p][i]
  <1>1. running[p] \in Seq(Launches) /\ running \in [Queues -> Seq(Launches)]
    BY DEF StateTyped
  <1>2. DOMAIN running[p] = 1 .. Len(running[p]) /\ Len(running[p]) \in Nat
    BY <1>1
  <1>3. running'[p] = Append(running[p], new) /\ \A q \in Queues \ {p} : running'[q] = running[q]
    BY <1>1
  <1>4. /\ Append(running[p], new) \in Seq(Launches)
        /\ Len(Append(running[p], new)) = Len(running[p]) + 1
        /\ \A i \in 1 .. Len(running[p]) : Append(running[p], new)[i] = running[p][i]
        /\ Append(running[p], new)[Len(running[p]) + 1] = new
    BY <1>1, AppendProperties
  <1>5. DOMAIN running'[p] = 1 .. Len(running[p]) + 1
    BY <1>3, <1>4
  <1>6. Entries(p)' = Entries(p) \cup {new}
    <2>1. \A i \in 1 .. Len(running[p]) + 1 : i \in 1 .. Len(running[p]) \/ i = Len(running[p]) + 1
      BY <1>2
    <2>2. \A i \in 1 .. Len(running[p]) : i \in 1 .. Len(running[p]) + 1
      BY <1>2
    <2>3. Len(running[p]) + 1 \in 1 .. Len(running[p]) + 1
      BY <1>2
    <2> DEFINE m == Len(running[p])
    <2> HIDE DEF m
    <2> QED BY <1>2, <1>3, <1>4, <1>5, <2>1, <2>2, <2>3 DEF Entries, m
  <1>7. running' \in [Queues -> Seq(Launches)]
    BY <1>1, <1>4
  <1>8. /\ running'[p][Len(running[p]) + 1] = new
        /\ \A i \in DOMAIN running[p] : running'[p][i] = running[p][i]
    BY <1>2, <1>3, <1>4
  <1>9. \A q \in Queues \ {p} : Entries(q)' = Entries(q)
    BY <1>3 DEF Entries
  <1> QED BY <1>3, <1>5, <1>6, <1>7, <1>8, <1>9


\* The kernel is queued: no other launch has its number, and none uses its memory.
LEMMA AppendKeepsQueues ==
  ASSUME DumpsInv, NEW t \in Threads, ~Idle(t), Left(t) = 4, Goes(t, call[t]),
         UNCHANGED <<counter, alive, real>>, NEW new \in Launches, NEW p \in Queues,
         new.thread = t, new.kernel = call[t].kernel, new.n = call[t].n, new.memory = Uses(t),
         p = call[t].queue, running' = [running EXCEPT ![p] = Append(@, new)]
  PROVE  Queueing'
  <1> DEFINE m == Len(running[p])
  <1>1. p \in Queues /\ call[t].kernel \in Kernels /\ call[t].n > 0 /\ call[t].n \in Nat
        /\ call[t].n <= counter
    BY DEF DumpsInv, Shape, CallsTyped, Inv, Types, Locals, Numbered
  <1>2. /\ Entries(p)' = Entries(p) \cup {new}
        /\ \A q \in Queues \ {p} : running'[q] = running[q] /\ Entries(q)' = Entries(q)
        /\ DOMAIN running'[p] = 1 .. m + 1 /\ running'[p][m + 1] = new
        /\ \A i \in DOMAIN running[p] : running'[p][i] = running[p][i]
    BY <1>1, EntriesAppend DEF DumpsInv, Shape
  <1>3. m \in Nat /\ DOMAIN running[p] = 1 .. m
    BY <1>1, EntriesTyped DEF DumpsInv, Shape
  <1>4. \A q \in Queues : \A r \in Entries(q)' : r \in Entries(q) \/ (q = p /\ r = new)
    BY <1>2
  <1> HIDE DEF m
  <1>5. Steady(call[t], t)
    BY DEF Steady, SameLaunch, DumpsInv, Inv, Types, Locals, Shape, CallsTyped
  <1>6. /\ Left(t)' = 3 /\ \A u \in Threads \ {t} : Left(u)' = Left(u) /\ call'[u] = call[u]
        /\ call'[t].capture = call[t].capture /\ call'[t].queue = call[t].queue
        /\ call'[t].n = call[t].n /\ call'[t].kernel = call[t].kernel
        /\ call'[t].ran = call[t].ran
    BY <1>5, GoesTo DEF DumpsInv, Inv, Types, Shape, Moves
  <1>7. \A u \in Threads : /\ call'[u].queue = call[u].queue /\ call'[u].ran = call[u].ran
                           /\ call'[u].n = call[u].n /\ call'[u].kernel = call[u].kernel
                           /\ (call'[u].capture <=> call[u].capture)
                           /\ (~Idle(u)' => ~Idle(u))
    BY <1>6 DEF Idle
  <1>8. \A u \in Threads : Uses(u)' = Uses(u)
    BY <1>7 DEF Uses, MemoryOf
  <1>9. \A u \in Threads : call[u].n = call[t].n => u = t
    <2>1. \A u \in Threads : Idle(u) => call[u].n = 0
      BY DEF DumpsInv, Shape, CallsTyped
    <2> QED BY <1>1, <2>1 DEF DumpsInv, Inv, Numbered
  <1>10. call[t].ran = {} /\ Uses(t) \subseteq alive
    <2>1. Left(t) > 3 /\ ~(Left(t) <= 3)
      OBVIOUS
    <2> QED BY <1>1, <2>1 DEF DumpsInv, Shows, ResultKept, Shape, StateTyped, Uses
  <1>11. \A q \in Queues : \A r \in Entries(q) : r.n # call[t].n
    BY DEF DumpsInv, Queueing, Queued
  <1>12. Queued'
    <2> SUFFICES ASSUME NEW q \in Queues, NEW r \in Entries(q)'
                 PROVE  /\ r.n > 0 /\ r.n <= counter /\ r.memory \subseteq alive
                        /\ \A u \in Threads : r.n = call[u].n =>
                              /\ r.thread = u /\ r.kernel = call[u].kernel
                              /\ q = call[u].queue /\ r.memory = Uses(u)
                              /\ Left(u)' <= 3 /\ call[u].ran = {}
      BY <1>7, <1>8 DEF Queued
    <2>1. CASE r \in Entries(q)
      <3>1. /\ r.n > 0 /\ r.n <= counter /\ r.memory \subseteq alive
            /\ \A u \in Threads : r.n = call[u].n =>
                  /\ r.thread = u /\ r.kernel = call[u].kernel
                  /\ q = call[u].queue /\ r.memory = Uses(u)
                  /\ Left(u) <= 3 /\ call[u].ran = {}
        BY <2>1 DEF DumpsInv, Queueing, Queued
      <3>2. \A u \in Threads : r.n = call[u].n => u # t
        BY <1>11, <2>1
      <3> QED BY <1>6, <3>1, <3>2
    <2>2. CASE q = p /\ r = new
      BY <1>1, <1>6, <1>9, <1>10, <2>2
    <2> QED BY <1>4, <2>1, <2>2
  <1>13. QueuedOnce'
    <2> SUFFICES ASSUME NEW q \in Queues, NEW s \in Queues,
                        NEW i \in DOMAIN running'[q], NEW j \in DOMAIN running'[s],
                        running'[q][i].n = running'[s][j].n
                 PROVE  q = s /\ i = j
      BY DEF QueuedOnce
    <2>1. ASSUME NEW a \in Queues, NEW b \in DOMAIN running'[a]
          PROVE  \/ /\ b \in DOMAIN running[a] /\ running'[a][b] = running[a][b]
                    /\ running'[a][b].n # call[t].n
                 \/ a = p /\ b = m + 1 /\ running'[a][b].n = call[t].n
      <3>1. CASE a # p
        BY <1>2, <1>11, <2>1, <3>1 DEF Entries
      <3>2. CASE a = p /\ b # m + 1
        <4>1. b \in DOMAIN running[p]
          BY <1>2, <1>3, <2>1, <3>2
        <4> QED BY <1>2, <1>11, <1>1, <3>2, <4>1 DEF Entries
      <3>3. CASE a = p /\ b = m + 1
        BY <1>2, <3>3
      <3> QED BY <3>1, <3>2, <3>3
    <2>2. CASE running'[q][i].n = call[t].n
      BY <2>1, <2>2
    <2>3. CASE running'[q][i].n # call[t].n
      <3>1. /\ i \in DOMAIN running[q] /\ running'[q][i] = running[q][i]
            /\ j \in DOMAIN running[s] /\ running'[s][j] = running[s][j]
        BY <2>1, <2>3
      <3> QED BY <3>1 DEF DumpsInv, Queueing, QueuedOnce
    <2> QED BY <2>2, <2>3
  <1>14. Apart'
    <2> SUFFICES ASSUME NEW u \in Threads, NEW q \in Queues, NEW r \in Entries(q)', ~Idle(u),
                        r.n # call[u].n,
                        q = call[u].queue => call[u].capture /\ Left(u)' <= 7
                 PROVE  r.memory \cap Uses(u) = {}
      BY <1>7, <1>8 DEF Apart
    <2>1. CASE r \in Entries(q)
      <3>1. q = call[u].queue => call[u].capture /\ Left(u) <= 7
        BY <1>6
      <3> QED BY <2>1, <3>1 DEF DumpsInv, Queueing, Apart
    <2>2. CASE q = p /\ r = new
      <3>1. u # t
        BY <2>2
      <3> QED BY <2>2, <3>1 DEF DumpsInv, Shape, Exclusive
    <2> QED BY <1>4, <2>1, <2>2
  <1>15. Waited'
    <2> SUFFICES ASSUME NEW u \in Threads, NEW q \in Queues, NEW r \in Entries(q)', ~Idle(u),
                        call[u].capture, Left(u)' <= 2
                 PROVE  r.n # call[u].n
      BY <1>7 DEF Waited
    <2>1. u # t /\ Left(u) <= 2
      BY <1>6
    <2>2. CASE r \in Entries(q)
      BY <2>1, <2>2 DEF DumpsInv, Queueing, Waited
    <2>3. CASE q = p /\ r = new
      BY <1>9, <2>1, <2>3
    <2> QED BY <1>4, <2>2, <2>3
  <1> QED BY <1>12, <1>13, <1>14, <1>15 DEF Queueing

LEMMA EnqueueShows ==
  ASSUME DumpsInv, NEW t \in Threads, clEnqueueNDRangeKernel(t)
  PROVE  DumpsInv'
  <1> DEFINE k == call[t].kernel
  <1>a. PICK new, p : /\ p = call[t].queue
                      /\ new = [thread |-> t, kernel |-> k, n |-> call[t].n, memory |-> MemoryOf(k)]
    OBVIOUS
  <1>1. /\ ~Idle(t) /\ At(t, "enqueue") /\ Goes(t, call[t])
        /\ \/ running' = [running EXCEPT ![p] = Append(@, new)]
           \/ UNCHANGED running
        /\ UNCHANGED <<config, counter, layer, replay, alive, content, real, history>>
    BY <1>a DEF clEnqueueNDRangeKernel, At
  <1>2. Left(t) = 4 /\ Left(t) > 1 /\ Left(t) >= 4
    <2>1. Left(t) = 4
      BY <1>1, StepAt DEF DumpsInv, Inv, Types, Shape
    <2> QED BY <2>1
  <1>3. Steady(call[t], t)
    BY DEF Steady, SameLaunch, DumpsInv, Inv, Types, Locals, Shape, CallsTyped
  <1>4. UNCHANGED <<config, counter, layer, alive, real, known, numberOf, argMem, stray, content,
                    objects>>
    BY <1>1 DEF layer, history
  <1>5. new \in Launches /\ new.thread = t /\ new.kernel = k /\ new.n = call[t].n
        /\ new.memory = Uses(t) /\ p \in Queues
    BY <1>1, <1>a DEF Launches, MemoryOf, Uses, DumpsInv, Shape, CallsTyped, Inv, Types, Locals
  <1>6. running' \in [Queues -> Seq(Launches)]
    BY <1>1, <1>5, EntriesAppend DEF DumpsInv, Shape, StateTyped
  <1>7. Shape'
    <2>1. content' \in [Memory -> Nat]
      BY <1>4 DEF DumpsInv, Shape, StateTyped
    <2> QED BY <1>1, <1>2, <1>3, <1>4, <1>6, <2>1, LaunchKeepsShape
  <1>8. Queueing'
    <2>1. CASE UNCHANGED running
      BY <1>1, <1>2, <1>3, <1>4, <2>1, LaunchKeepsQueues
    <2>2. CASE running' = [running EXCEPT ![p] = Append(@, new)]
      BY <1>1, <1>2, <1>4, <1>5, <1>a, <2>2, AppendKeepsQueues
    <2> QED BY <1>1, <2>1, <2>2
  <1>9. \A q \in Queues : \A r \in Entries(q)' : r \in Entries(q) \/ r = new
    <2>1. CASE UNCHANGED running
      BY <2>1 DEF Entries
    <2>2. CASE running' = [running EXCEPT ![p] = Append(@, new)]
      <3>1. /\ Entries(p)' = Entries(p) \cup {new}
            /\ \A q \in Queues \ {p} : Entries(q)' = Entries(q)
        BY <1>5, <2>2, EntriesAppend DEF DumpsInv, Shape
      <3> QED BY <3>1
    <2> QED BY <1>1, <2>1, <2>2
  <1>10. /\ (Faithful(t)' <=> Faithful(t)) /\ call'[t].kernel = k
         /\ call'[t].args = call[t].args /\ call'[t].pre = call[t].pre
         /\ call'[t].injected = call[t].injected /\ call'[t].ran = call[t].ran
         /\ Left(t)' = 3
    BY <1>1, <1>2, <1>3, <1>4, OwnStep
  <1>11. ResultKept(t)' /\ PostLater(t)' /\ PostShown(t)'
    BY <1>1, <1>2, <1>3, <1>4, EarlyShows
  <1>12. ArgsShown(t)'
    BY <1>1, <1>2, <1>4, <1>10 DEF ArgsShown, DumpsInv, Shows
  <1>13. PreShown(t)'
    <2>1. ASSUME Faithful(t), NEW i \in Args, NEW m \in Memory, m = real[k][i]
          PROVE  FileBefore(t, i, m)'
      <3>1. m \in Uses(t)
        BY <1>1, <2>1, RecordOf
      <3>2. FileBefore(t, i, m)
        BY <1>1, <1>2, <2>1 DEF DumpsInv, Shows, PreShown, WhenPre
      <3> QED BY <1>1, <1>4, <1>10, <3>1, <3>2, BeforeKept
    <2> QED BY <1>4, <1>10, <2>1 DEF PreShown
  <1>14. ASSUME NEW u \in Threads \ {t}, ~Idle(u)'
         PROVE  Shows(u)'
    <2>1. call'[u] = call[u] /\ ~Idle(u)
      BY <1>1, <1>3, <1>14, GoesTo DEF Moves, Idle, DumpsInv, Inv, Types, Shape
    <2>2. call[u].n # call[t].n
      BY <1>1, <1>14, <2>1 DEF DumpsInv, Inv, Numbered
    <2>3. Unseen(u)
      BY <1>4, <1>5, <1>9, <2>1, <2>2 DEF Unseen
    <2> QED BY <2>1, <2>3, UnseenShows
  <1>15. Inv'
    BY EnqueueInv DEF DumpsInv
  <1> QED BY <1>7, <1>8, <1>11, <1>12, <1>13, <1>14, <1>15 DEF DumpsInv, Shows


-----------------------------------------------------------------------------
(* A launch returns, and another begins.                                     *)

LEMMA ReturnShows ==
  ASSUME DumpsInv, NEW t \in Threads, Return(t)
  PROVE  DumpsInv'
  <1>1. /\ call'[t] = NoCall /\ \A u \in Threads \ {t} : call'[u] = call[u]
        /\ UNCHANGED <<config, counter, numberOf, number, argMem, argData, argLocal, alive,
                       content, real, running, known, stray, objects>>
    BY DEF Return, layer, driver, history, DumpsInv, Inv, Types, Locals
  <1>2. NoCall.todo = <<>> /\ NoCall.n = 0 /\ NoCall.capture = FALSE /\ Len(NoCall.todo) = 0
    BY DEF NoCall
  <1>3. Idle(t)' /\ Left(t)' = 0 /\ call'[t].n = 0 /\ call'[t].capture = FALSE
    BY <1>1, <1>2 DEF Idle, Left
  <1>4. \A u \in Threads \ {t} : /\ Left(u)' = Left(u) /\ (Idle(u)' <=> Idle(u))
                                 /\ Uses(u)' = Uses(u)
    BY <1>1 DEF Left, Idle, Uses, MemoryOf
  <1>5. \A q \in Queues : Entries(q)' = Entries(q)
    BY <1>1 DEF Entries
  <1>6. Shape'
    <2>1. OnSteps'
      <3>1. ASSUME NEW u \in Threads
            PROVE  /\ Left(u)' \in 0 .. 10
                   /\ \A j \in 1 .. Left(u)' : call'[u].todo[j] = Steps[10 - Left(u)' + j]
        <4>1. CASE u = t
          <5>1. Left(u)' = 0
            BY <1>3, <4>1 DEF Left
          <5> QED BY <5>1
        <4>2. CASE u # t
          BY <1>1, <1>4, <4>2 DEF DumpsInv, Shape, OnSteps
        <4> QED BY <4>1, <4>2
      <3> QED BY <3>1 DEF OnSteps
    <2>2. CallsTyped'
      BY <1>1, <1>3 DEF DumpsInv, Shape, CallsTyped, Idle
    <2>3. StateTyped'
      BY <1>1 DEF DumpsInv, Shape, StateTyped, MemoryOf
    <2>4. RecordsAreRight'
      BY <1>1 DEF DumpsInv, Shape, RecordsAreRight
    <2>5. Exclusive'
      <3> SUFFICES ASSUME NEW u \in Threads, NEW v \in Threads, u # v, ~Idle(u)', ~Idle(v)'
                   PROVE  call'[u].kernel # call'[v].kernel /\ Uses(u)' \cap Uses(v)' = {}
        BY DEF Exclusive
      <3>1. u # t /\ v # t
        BY <1>3 DEF Idle
      <3> QED BY <1>1, <1>4, <3>1 DEF DumpsInv, Shape, Exclusive
    <2> QED BY <2>1, <2>2, <2>3, <2>4, <2>5 DEF Shape
  <1>7. Queueing'
    <2>1. Queued'
      <3> SUFFICES ASSUME NEW q \in Queues, NEW r \in Entries(q)
                   PROVE  /\ r.n > 0 /\ r.n <= counter /\ r.memory \subseteq alive
                          /\ \A u \in Threads : r.n = call'[u].n =>
                                /\ r.thread = u /\ r.kernel = call'[u].kernel
                                /\ q = call'[u].queue /\ r.memory = Uses(u)'
                                /\ Left(u)' <= 3 /\ call'[u].ran = {}
        BY <1>1, <1>5 DEF Queued
      <3>1. r.n > 0 /\ r.n <= counter /\ r.memory \subseteq alive
        BY DEF DumpsInv, Queueing, Queued
      <3>2. ASSUME NEW u \in Threads, r.n = call'[u].n PROVE u # t
        BY <1>3, <3>1, <3>2
      <3> QED BY <1>1, <1>4, <3>1, <3>2 DEF DumpsInv, Queueing, Queued
    <2>2. QueuedOnce'
      BY <1>1 DEF DumpsInv, Queueing, QueuedOnce
    <2>3. Apart'
      <3> SUFFICES ASSUME NEW u \in Threads, NEW q \in Queues, NEW r \in Entries(q), ~Idle(u)',
                          r.n # call'[u].n,
                          q = call'[u].queue => call'[u].capture /\ Left(u)' <= 7
                   PROVE  r.memory \cap Uses(u)' = {}
        BY <1>5 DEF Apart
      <3>1. u # t
        BY <1>3 DEF Idle
      <3> QED BY <1>1, <1>4, <3>1 DEF DumpsInv, Queueing, Apart
    <2>4. Waited'
      <3> SUFFICES ASSUME NEW u \in Threads, NEW q \in Queues, NEW r \in Entries(q), ~Idle(u)',
                          call'[u].capture, Left(u)' <= 2
                   PROVE  r.n # call'[u].n
        BY <1>5 DEF Waited
      <3>1. u # t
        BY <1>3 DEF Idle
      <3> QED BY <1>1, <1>4, <3>1 DEF DumpsInv, Queueing, Waited
    <2> QED BY <2>1, <2>2, <2>3, <2>4 DEF Queueing
  <1>8. ASSUME NEW u \in Threads, ~Idle(u)'
        PROVE  Shows(u)'
    <2>1. u # t
      BY <1>3, <1>8 DEF Idle
    <2>2. call'[u] = call[u] /\ ~Idle(u)
      BY <1>1, <1>4, <1>8, <2>1
    <2>3. Unseen(u)
      BY <1>1, <1>5, <2>2 DEF Unseen
    <2> QED BY <2>2, <2>3, UnseenShows
  <1>9. Inv'
    BY ReturnInv DEF DumpsInv
  <1> QED BY <1>6, <1>7, <1>8, <1>9 DEF DumpsInv

LEMMA BeginShows ==
  ASSUME DumpsInv, NEW t \in Threads, NEW k \in Kernels, NEW p \in Queues, Begin(t, k, p)
  PROVE  DumpsInv'
  <1> DEFINE c == [NoCall EXCEPT !.todo = Steps, !.kernel = k, !.queue = p, !.n = counter + 1]
  <1>1. /\ c.todo = Steps /\ c.kernel = k /\ c.queue = p /\ c.n = counter + 1
        /\ c.capture = FALSE /\ c.ran = {} /\ c.post = {}
    BY DEF NoCall
  <1>2. call' = [call EXCEPT ![t] = c]
    BY DEF Begin
  <1> HIDE DEF c
  <1>3. /\ call'[t] = c /\ \A u \in Threads \ {t} : call'[u] = call[u]
        /\ counter' = counter + 1 /\ stray' = stray \ MemoryOf(k) /\ Idle(t)
        /\ counter < MaxLaunches
        /\ UNCHANGED <<config, numberOf, number, argMem, argData, argLocal, alive,
                       content, real, running, known, objects>>
    BY <1>2 DEF Begin, layer, driver, DumpsInv, Inv, Types, Locals
  <1>4. /\ \A u \in Threads : call[u].kernel # k
        /\ \A u \in Threads : ~Idle(u) => Uses(u) \cap MemoryOf(k) = {}
        /\ \A q \in Queues \ {p} : \A r \in Entries(q) : r.memory \cap MemoryOf(k) = {}
    BY DEF Begin, KernelInUse, Uses, Entries
  <1>5. counter \in Nat /\ MaxLaunches \in Nat
    BY LaunchAssumption DEF DumpsInv, Inv, Types
  <1>6. /\ ~Idle(t)' /\ Left(t)' = 10 /\ call'[t].n = counter + 1 /\ call'[t].capture = FALSE
        /\ call'[t].kernel = k /\ call'[t].queue = p /\ call'[t].ran = {} /\ call'[t].post = {}
        /\ call'[t].todo = Steps /\ Uses(t)' = MemoryOf(k)
    <2>1. Steps # <<>> /\ Len(Steps) = 10
      BY DEF Steps
    <2> QED BY <1>1, <1>3, <2>1 DEF Idle, Left, Uses, MemoryOf
  <1>7. \A u \in Threads \ {t} : /\ Left(u)' = Left(u) /\ (Idle(u)' <=> Idle(u))
                                 /\ Uses(u)' = Uses(u)
    BY <1>3 DEF Left, Idle, Uses, MemoryOf
  <1>8. \A q \in Queues : Entries(q)' = Entries(q)
    BY <1>3 DEF Entries
  <1>9. Shape'
    <2>1. OnSteps'
      <3>1. ASSUME NEW u \in Threads
            PROVE  /\ Left(u)' \in 0 .. 10
                   /\ \A j \in 1 .. Left(u)' : call'[u].todo[j] = Steps[10 - Left(u)' + j]
        <4>1. CASE u = t
          <5>1. Left(u)' = 10 /\ call'[u].todo = Steps
            BY <1>6, <4>1 DEF Left
          <5>2. \A j \in 1 .. 10 : 10 - 10 + j = j
            OBVIOUS
          <5> QED BY <5>1, <5>2
        <4>2. CASE u # t
          BY <1>3, <1>7, <4>2 DEF DumpsInv, Shape, OnSteps
        <4> QED BY <4>1, <4>2
      <3> QED BY <3>1 DEF OnSteps
    <2>2. CallsTyped'
      <3>1. counter + 1 > 0
        BY <1>5
      <3> QED BY <1>3, <1>6, <1>7, <3>1 DEF DumpsInv, Shape, CallsTyped, Idle
    <2>3. StateTyped'
      <3>1. counter' <= MaxLaunches
        BY <1>3, <1>5
      <3> QED BY <1>3, <3>1 DEF DumpsInv, Shape, StateTyped, MemoryOf
    <2>4. RecordsAreRight'
      BY <1>3 DEF DumpsInv, Shape, RecordsAreRight
    <2>5. Exclusive'
      <3> SUFFICES ASSUME NEW u \in Threads, NEW v \in Threads, u # v, ~Idle(u)', ~Idle(v)'
                   PROVE  call'[u].kernel # call'[v].kernel /\ Uses(u)' \cap Uses(v)' = {}
        BY DEF Exclusive
      <3>1. CASE u # t /\ v # t
        BY <1>3, <1>7, <3>1 DEF DumpsInv, Shape, Exclusive
      <3>2. CASE u = t
        <4>1. v # t /\ ~Idle(v) /\ call'[v].kernel = call[v].kernel /\ Uses(v)' = Uses(v)
          BY <1>3, <1>7, <3>2
        <4>2. call'[u].kernel = k /\ Uses(u)' = MemoryOf(k)
          BY <1>6, <3>2 DEF Uses
        <4> QED BY <1>4, <4>1, <4>2
      <3>3. CASE v = t
        <4>1. u # t /\ ~Idle(u) /\ call'[u].kernel = call[u].kernel /\ Uses(u)' = Uses(u)
          BY <1>3, <1>7, <3>3
        <4>2. call'[v].kernel = k /\ Uses(v)' = MemoryOf(k)
          BY <1>6, <3>3 DEF Uses
        <4> QED BY <1>4, <4>1, <4>2
      <3> QED BY <3>1, <3>2, <3>3
    <2> QED BY <2>1, <2>2, <2>3, <2>4, <2>5 DEF Shape
  <1>10. Queueing'
    <2>1. Queued'
      <3> SUFFICES ASSUME NEW q \in Queues, NEW r \in Entries(q)
                   PROVE  /\ r.n > 0 /\ r.n <= counter' /\ r.memory \subseteq alive
                          /\ \A u \in Threads : r.n = call'[u].n =>
                                /\ r.thread = u /\ r.kernel = call'[u].kernel
                                /\ q = call'[u].queue /\ r.memory = Uses(u)'
                                /\ Left(u)' <= 3 /\ call'[u].ran = {}
        BY <1>3, <1>8 DEF Queued
      <3>1. r.n > 0 /\ r.n <= counter /\ r.memory \subseteq alive /\ r.n \in Nat
        BY EntriesTyped DEF DumpsInv, Queueing, Queued, Shape
      <3>2. ASSUME NEW u \in Threads, r.n = call'[u].n PROVE u # t
        BY <1>5, <1>6, <3>1, <3>2
      <3>3. r.n <= counter'
        BY <1>3, <1>5, <3>1
      <3> QED BY <1>3, <1>7, <3>1, <3>2, <3>3 DEF DumpsInv, Queueing, Queued
    <2>2. QueuedOnce'
      BY <1>3 DEF DumpsInv, Queueing, QueuedOnce
    <2>3. Apart'
      <3> SUFFICES ASSUME NEW u \in Threads, NEW q \in Queues, NEW r \in Entries(q), ~Idle(u)',
                          r.n # call'[u].n,
                          q = call'[u].queue => call'[u].capture /\ Left(u)' <= 7
                   PROVE  r.memory \cap Uses(u)' = {}
        BY <1>8 DEF Apart
      <3>1. CASE u = t
        <4>1. q # p
          BY <1>6, <3>1
        <4> QED BY <1>4, <1>6, <3>1, <4>1 DEF Uses
      <3>2. CASE u # t
        BY <1>3, <1>7, <3>2 DEF DumpsInv, Queueing, Apart
      <3> QED BY <3>1, <3>2
    <2>4. Waited'
      <3> SUFFICES ASSUME NEW u \in Threads, NEW q \in Queues, NEW r \in Entries(q), ~Idle(u)',
                          call'[u].capture, Left(u)' <= 2
                   PROVE  r.n # call'[u].n
        BY <1>8 DEF Waited
      <3>1. u # t
        BY <1>6
      <3> QED BY <1>3, <1>7, <3>1 DEF DumpsInv, Queueing, Waited
    <2> QED BY <2>1, <2>2, <2>3, <2>4 DEF Queueing
  <1>11. Shows(t)'
    <2>1. ArgsShown(t)' /\ ResultKept(t)'
      BY <1>6 DEF ArgsShown, ResultKept
    <2>2. PreShown(t)' /\ PostShown(t)'
      BY <1>6 DEF PreShown, WhenPre, PostShown, Ran
    <2>3. PostLater(t)'
      BY <1>6 DEF PostLater
    <2> QED BY <2>1, <2>2, <2>3 DEF Shows
  <1>12. ASSUME NEW u \in Threads \ {t}, ~Idle(u)'
         PROVE  Shows(u)'
    <2>1. call'[u] = call[u] /\ ~Idle(u)
      BY <1>3, <1>7, <1>12
    <2>2. \A m \in Uses(u) : m \in stray => m \in stray'
      BY <1>3, <1>4, <2>1
    <2>3. Unseen(u)
      BY <1>3, <1>8, <2>1, <2>2 DEF Unseen
    <2> QED BY <2>1, <2>3, UnseenShows
  <1>13. Inv'
    BY BeginInv DEF DumpsInv
  <1> QED BY <1>9, <1>10, <1>11, <1>12, <1>13 DEF DumpsInv


-----------------------------------------------------------------------------
(* The driver runs a kernel.                                                 *)

\* The first kernel leaves its queue, the others stay.
LEMMA EntriesTail ==
  ASSUME StateTyped, QueuedOnce, NEW p \in Queues, running[p] # <<>>, NEW r,
         r = Head(running[p]), running' = [running EXCEPT ![p] = Tail(@)]
  PROVE  /\ running' \in [Queues -> Seq(Launches)] /\ r \in Entries(p) /\ r \in Launches
         /\ \A q \in Queues : Entries(q)' \subseteq Entries(q)
         /\ \A q \in Queues : \A s \in Entries(q)' : s.n # r.n
         /\ QueuedOnce'
  <1> DEFINE m == Len(running[p])
  <1>1. /\ running[p] \in Seq(Launches) /\ DOMAIN running[p] = 1 .. m /\ m \in Nat
        /\ running \in [Queues -> Seq(Launches)]
    BY EntriesTyped DEF StateTyped
  <1>2. /\ Tail(running[p]) \in Seq(Launches) /\ Len(Tail(running[p])) = m - 1 /\ m >= 1
        /\ \A i \in 1 .. m - 1 : Tail(running[p])[i] = running[p][i + 1]
    BY <1>1, HeadTailProperties, EmptySeq
  <1>3. r = running[p][1] /\ 1 \in DOMAIN running[p] /\ r \in Launches
    BY <1>1, <1>2, HeadTailProperties
  <1>4. running'[p] = Tail(running[p]) /\ \A q \in Queues \ {p} : running'[q] = running[q]
    BY <1>1
  <1>5. DOMAIN running'[p] = 1 .. m - 1
    <2>1. DOMAIN Tail(running[p]) = 1 .. Len(Tail(running[p]))
      BY <1>2, LenProperties
    <2> QED BY <1>2, <1>4, <2>1
  <1>6. running' \in [Queues -> Seq(Launches)]
    BY <1>1, <1>2
  <1> HIDE DEF m
  <1>7. \A i \in DOMAIN running'[p] : /\ i + 1 \in DOMAIN running[p] /\ i + 1 # 1
                                      /\ running'[p][i] = running[p][i + 1]
    BY <1>1, <1>2, <1>4, <1>5
  <1>8. \A q \in Queues : \A i \in DOMAIN running'[q] : \E j \in DOMAIN running[q] :
           running'[q][i] = running[q][j] /\ ~(q = p /\ j = 1)
           /\ j = IF q = p THEN i + 1 ELSE i
    BY <1>4, <1>7
  <1>9. \A q \in Queues : Entries(q)' \subseteq Entries(q)
    BY <1>8 DEF Entries
  <1>10. ASSUME NEW q \in Queues, NEW s \in Entries(q)'
         PROVE  s.n # r.n
    <2>1. PICK i \in DOMAIN running'[q] : s = running'[q][i]
      BY DEF Entries
    <2>2. PICK j \in DOMAIN running[q] : s = running[q][j] /\ ~(q = p /\ j = 1)
      BY <1>8, <2>1
    <2> QED BY <1>3, <2>2 DEF QueuedOnce
  <1>11. QueuedOnce'
    <2> SUFFICES ASSUME NEW q \in Queues, NEW s \in Queues,
                        NEW i \in DOMAIN running'[q], NEW j \in DOMAIN running'[s],
                        running'[q][i].n = running'[s][j].n
                 PROVE  q = s /\ i = j
      BY DEF QueuedOnce
    <2>1. PICK a \in DOMAIN running[q] : /\ running'[q][i] = running[q][a]
                                         /\ a = IF q = p THEN i + 1 ELSE i
      BY <1>8
    <2>2. PICK b \in DOMAIN running[s] : /\ running'[s][j] = running[s][b]
                                         /\ b = IF s = p THEN j + 1 ELSE j
      BY <1>8
    <2>3. q = s /\ a = b
      BY <2>1, <2>2 DEF QueuedOnce
    <2>4. ASSUME q = p PROVE i = j
      <3>1. i \in 1 .. m - 1 /\ j \in 1 .. m - 1
        BY <1>5, <2>3, <2>4
      <3> QED BY <1>1, <2>1, <2>2, <2>3, <2>4, <3>1
    <2>5. ASSUME q # p PROVE i = j
      BY <2>1, <2>2, <2>3, <2>5
    <2> QED BY <2>3, <2>4, <2>5
  <1> QED BY <1>3, <1>6, <1>9, <1>10, <1>11 DEF Entries

LEMMA RunShows ==
  ASSUME DumpsInv, NEW p \in Queues, Run(p)
  PROVE  DumpsInv'
  <1>1. PICK r : r = Head(running[p])
    OBVIOUS
  <1>2. PICK before : before = {[arg |-> i, content |-> content[real[r.kernel][i]]] :
                                   i \in {j \in Args : real[r.kernel][j] \in Memory}}
    OBVIOUS
  <1>3. /\ running[p] # <<>> /\ running' = [running EXCEPT ![p] = Tail(@)]
        /\ content' = [m \in Memory |-> IF m \in r.memory THEN 10 + r.n ELSE content[m]]
        /\ call' = IF call[r.thread].n = r.n THEN [call EXCEPT ![r.thread].ran = before] ELSE call
        /\ UNCHANGED <<config, counter, numberOf, number, argMem, argData, argLocal, alive, real,
                       known, stray, objects>>
    BY <1>1, <1>2 DEF Run, Pending, layer, history
  <1>4. /\ running' \in [Queues -> Seq(Launches)] /\ r \in Entries(p) /\ r \in Launches
        /\ \A q \in Queues : Entries(q)' \subseteq Entries(q)
        /\ \A q \in Queues : \A s \in Entries(q)' : s.n # r.n
        /\ QueuedOnce'
    BY <1>1, <1>3, EntriesTail DEF DumpsInv, Shape, Queueing
  <1>5. r.thread \in Threads /\ r.n \in Nat /\ r.n > 0
    BY <1>4 DEF Launches, DumpsInv, Queueing, Queued
  <1>6. \A u \in Threads : r.n = call[u].n =>
           /\ r.thread = u /\ r.kernel = call[u].kernel /\ p = call[u].queue
           /\ r.memory = Uses(u) /\ Left(u) <= 3 /\ call[u].ran = {} /\ ~Idle(u)
    BY <1>4, <1>5 DEF DumpsInv, Queueing, Queued, Shape, CallsTyped
  <1>7. \A u \in Threads : /\ r.n # call[u].n => call'[u] = call[u]
                           /\ r.n = call[u].n => call'[u] = [call[u] EXCEPT !.ran = before]
    <2>1. DOMAIN call = Threads
      BY DEF DumpsInv, Inv, Types, Locals
    <2> QED BY <1>3, <1>5, <1>6, <2>1
  <1>8. \A u \in Threads :
           /\ call'[u].todo = call[u].todo /\ call'[u].kernel = call[u].kernel
           /\ call'[u].queue = call[u].queue /\ call'[u].n = call[u].n
           /\ call'[u].capture = call[u].capture /\ call'[u].args = call[u].args
           /\ call'[u].pre = call[u].pre /\ call'[u].post = call[u].post
           /\ call'[u].injected = call[u].injected
           /\ r.n = call[u].n => call'[u].ran = before
    <2> SUFFICES ASSUME NEW u \in Threads, r.n = call[u].n
                 PROVE  /\ call'[u].todo = call[u].todo /\ call'[u].kernel = call[u].kernel
                        /\ call'[u].queue = call[u].queue /\ call'[u].n = call[u].n
                        /\ call'[u].capture = call[u].capture /\ call'[u].args = call[u].args
                        /\ call'[u].pre = call[u].pre /\ call'[u].post = call[u].post
                        /\ call'[u].injected = call[u].injected
                        /\ call'[u].ran = before
      BY <1>7
    <2> DEFINE c == [call[u] EXCEPT !.ran = before]
    <2>1. DOMAIN call[u] = DOMAIN NoCall
      BY DEF DumpsInv, Inv, Types, Locals
    <2>2. /\ c.todo = call[u].todo /\ c.kernel = call[u].kernel /\ c.queue = call[u].queue
          /\ c.n = call[u].n /\ c.capture = call[u].capture /\ c.args = call[u].args
          /\ c.pre = call[u].pre /\ c.post = call[u].post /\ c.injected = call[u].injected
          /\ c.ran = before
      BY <2>1 DEF NoCall
    <2>3. call'[u] = c
      BY <1>7
    <2> HIDE DEF c
    <2> QED BY <2>2, <2>3
  <1>9. \A u \in Threads : /\ Left(u)' = Left(u) /\ (Idle(u)' <=> Idle(u)) /\ Uses(u)' = Uses(u)
                           /\ (Faithful(u)' <=> Faithful(u))
    BY <1>3, <1>8 DEF Left, Idle, Uses, MemoryOf, Faithful
  <1>10. Shape'
    <2>1. OnSteps'
      BY <1>8, <1>9 DEF DumpsInv, Shape, OnSteps
    <2>2. CallsTyped'
      BY <1>8, <1>9 DEF DumpsInv, Shape, CallsTyped
    <2>3. StateTyped'
      <3>1. content' \in [Memory -> Nat]
        BY <1>3, <1>5 DEF DumpsInv, Shape, StateTyped
      <3> QED BY <1>3, <1>4, <3>1 DEF DumpsInv, Shape, StateTyped, MemoryOf
    <2>4. RecordsAreRight'
      BY <1>3 DEF DumpsInv, Shape, RecordsAreRight
    <2>5. Exclusive'
      BY <1>8, <1>9 DEF DumpsInv, Shape, Exclusive
    <2> QED BY <2>1, <2>2, <2>3, <2>4, <2>5 DEF Shape
  <1>11. Queueing'
    <2>1. Queued'
      <3> SUFFICES ASSUME NEW q \in Queues, NEW s \in Entries(q)'
                   PROVE  /\ s.n > 0 /\ s.n <= counter /\ s.memory \subseteq alive
                          /\ \A u \in Threads : s.n = call'[u].n =>
                                /\ s.thread = u /\ s.kernel = call'[u].kernel
                                /\ q = call'[u].queue /\ s.memory = Uses(u)'
                                /\ Left(u)' <= 3 /\ call'[u].ran = {}
        BY <1>3 DEF Queued
      <3>1. s \in Entries(q) /\ s.n # r.n
        BY <1>4
      <3>2. \A u \in Threads : s.n = call'[u].n => call'[u] = call[u]
        BY <1>7, <1>8, <3>1
      <3> QED BY <1>9, <3>1, <3>2 DEF DumpsInv, Queueing, Queued
    <2>2. Apart'
      BY <1>4, <1>8, <1>9 DEF DumpsInv, Queueing, Apart
    <2>3. Waited'
      BY <1>4, <1>8, <1>9 DEF DumpsInv, Queueing, Waited
    <2> QED BY <1>4, <2>1, <2>2, <2>3 DEF Queueing
  <1>12. ASSUME NEW u \in Threads, ~Idle(u)', r.n # call[u].n
         PROVE  Shows(u)'
    <2>1. call'[u] = call[u] /\ ~Idle(u)
      BY <1>7, <1>9, <1>12
    <2>2. ASSUME call[u].capture, Left(u) <= 7, NEW m \in Uses(u)
          PROVE  content'[m] = content[m]
      <3>1. r.memory \cap Uses(u) = {}
        BY <1>4, <1>12, <2>1, <2>2 DEF DumpsInv, Queueing, Apart
      <3>2. m \in Memory /\ m \notin r.memory
        BY <3>1 DEF Uses, MemoryOf
      <3> QED BY <1>3, <3>2
    <2>3. Unseen(u)
      BY <1>3, <1>4, <2>1, <2>2 DEF Unseen
    <2> QED BY <2>1, <2>3, UnseenShows
  <1>13. ASSUME NEW u \in Threads, ~Idle(u)', r.n = call[u].n
         PROVE  Shows(u)'
    <2>1. /\ ~Idle(u) /\ r.kernel = call[u].kernel /\ r.memory = Uses(u) /\ Left(u) <= 3
          /\ call[u].ran = {} /\ call'[u].ran = before /\ Shows(u)
      BY <1>6, <1>8, <1>13 DEF DumpsInv
    <2>2. ArgsShown(u)'
      BY <1>3, <1>8, <1>9, <2>1 DEF Shows, ArgsShown
    <2>3. PreShown(u)'
      <3>1. ASSUME Faithful(u), NEW i \in Args, NEW m \in Memory, m = real[call[u].kernel][i],
                   Left(u) <= WhenPre(m)
            PROVE  FileBefore(u, i, m)'
        <4>1. PICK f \in call[u].pre : /\ f.arg = i /\ f.number = numberOf[m]
                                       /\ \/ m \in call[u].injected \cup stray
                                          \/ f.content = content[m]
          BY <2>1, <3>1 DEF Shows, PreShown, FileBefore
        <4>2. [arg |-> i, content |-> content[m]] \in before
          BY <1>2, <2>1, <3>1
        <4>3. f \in call'[u].pre /\ f.number = numberOf'[m]
          BY <1>3, <1>8, <4>1
        <4>4. m \in call'[u].injected \cup stray' \/ [arg |-> i, content |-> f.content] \in call'[u].ran
          BY <1>3, <1>8, <2>1, <4>1, <4>2
        <4> QED BY <4>1, <4>3, <4>4 DEF FileBefore
      <3> QED BY <1>3, <1>8, <1>9, <3>1 DEF PreShown
    <2>4. ResultKept(u)'
      <3>1. \A m \in Uses(u) : content'[m] = 10 + call[u].n
        BY <1>3, <1>13, <2>1 DEF Uses, MemoryOf
      <3>2. \A q \in Queues : \A s \in Entries(q)' : s.n # call[u].n
        BY <1>4, <1>13
      <3> QED BY <1>8, <1>9, <2>1, <3>1, <3>2 DEF ResultKept
    <2>5. PostLater(u)'
      BY <1>3, <1>8, <1>9, <2>1 DEF Shows, PostLater
    <2>6. PostShown(u)'
      <3>1. ASSUME Faithful(u) PROVE ~(Left(u) <= 2)
        BY <1>4, <1>13, <2>1, <3>1 DEF DumpsInv, Queueing, Waited, Faithful
      <3>2. \A m : Left(u) <= WhenPost(m) => Left(u) <= 2
        <4>1. Left(u) \in Nat
          BY LeftIsANumber DEF DumpsInv, Inv, Types, Shape
        <4> QED BY <4>1 DEF WhenPost
      <3> QED BY <1>8, <1>9, <3>1, <3>2 DEF PostShown, WhenPost
    <2> QED BY <2>2, <2>3, <2>4, <2>5, <2>6 DEF Shows
  <1>14. Inv'
    BY RunInv DEF DumpsInv
  <1> QED BY <1>10, <1>11, <1>12, <1>13, <1>14 DEF DumpsInv


-----------------------------------------------------------------------------
(* Memory objects and arguments come and go.                                 *)

LEMMA OutsideShows ==
  ASSUME DumpsInv, UNCHANGED <<call, config, counter, replay, running, stray>>, StateTyped',
         RecordsAreRight', \A q \in Queues : \A r \in Entries(q) : r.memory \subseteq alive',
         \A u \in Threads : ~Idle(u) =>
            /\ real'[call[u].kernel] = real[call[u].kernel]
            /\ known'[call[u].kernel] = known[call[u].kernel]
            /\ argMem'[call[u].kernel] = argMem[call[u].kernel]
            /\ \A m \in Uses(u) : numberOf'[m] = numberOf[m] /\ content'[m] = content[m]
  PROVE  DumpsInv'
  <1>1. \A u \in Threads : /\ Left(u)' = Left(u) /\ (Idle(u)' <=> Idle(u))
                           /\ ~Idle(u) => Uses(u)' = Uses(u)
    BY DEF Left, Idle, Uses, MemoryOf
  <1>2. \A q \in Queues : Entries(q)' = Entries(q)
    BY DEF Entries
  <1>3. Shape'
    <2>1. OnSteps' /\ CallsTyped'
      BY DEF DumpsInv, Shape, OnSteps, CallsTyped, Left, Idle
    <2>2. Exclusive'
      BY <1>1 DEF DumpsInv, Shape, Exclusive
    <2> QED BY <2>1, <2>2 DEF Shape
  <1>4. Queueing'
    <2>1. Queued'
      <3> SUFFICES ASSUME NEW q \in Queues, NEW r \in Entries(q)
                   PROVE  /\ r.n > 0 /\ r.n <= counter /\ r.memory \subseteq alive'
                          /\ \A u \in Threads : r.n = call[u].n =>
                                /\ r.thread = u /\ r.kernel = call[u].kernel
                                /\ q = call[u].queue /\ r.memory = Uses(u)'
                                /\ Left(u)' <= 3 /\ call[u].ran = {}
        BY <1>2 DEF Queued
      <3>1. r.n \in Nat /\ r.n > 0
        BY EntriesTyped DEF DumpsInv, Shape, Queueing, Queued
      <3>2. \A u \in Threads : r.n = call[u].n => ~Idle(u)
        BY <3>1 DEF DumpsInv, Shape, CallsTyped
      <3> QED BY <1>1, <3>2 DEF DumpsInv, Queueing, Queued
    <2>2. QueuedOnce'
      BY DEF DumpsInv, Queueing, QueuedOnce
    <2>3. Apart'
      BY <1>1, <1>2 DEF DumpsInv, Queueing, Apart
    <2>4. Waited'
      BY <1>1, <1>2 DEF DumpsInv, Queueing, Waited
    <2> QED BY <2>1, <2>2, <2>3, <2>4 DEF Queueing
  <1>5. ASSUME NEW u \in Threads, ~Idle(u)'
        PROVE  Shows(u)'
    <2>1. ~Idle(u) /\ Unseen(u)
      BY <1>1, <1>2, <1>5 DEF Unseen
    <2> QED BY <2>1, UnseenShows
  <1>6. Inv'
    BY OthersInv DEF DumpsInv
  <1> QED BY <1>3, <1>4, <1>5, <1>6 DEF DumpsInv

LEMMA AddMemoryShows ==
  ASSUME DumpsInv, NEW a \in Memory, AddMemory(a)
  PROVE  DumpsInv'
  <1>1. /\ a \notin alive /\ alive' = alive \cup {a} /\ objects < MaxObjects
        /\ objects' = objects + 1 /\ content' = [content EXCEPT ![a] = 0]
        /\ \/ numberOf' = [numberOf EXCEPT ![a] = number] /\ number' = number + 1
           \/ UNCHANGED <<numberOf, number>>
        /\ UNCHANGED <<config, call, counter, argMem, argData, argLocal, replay, real, running,
                       known, stray>>
    BY DEF AddMemory
  <1>2. StateTyped
    BY DEF DumpsInv, Shape
  <1>3. StateTyped'
    <2>1. number \in 1 .. MaxObjects /\ objects' \in 0 .. MaxObjects
          /\ number' \in 1 .. objects' + 1
      BY <1>1, <1>2, LaunchAssumption DEF StateTyped
    <2>2. numberOf' \in [Memory -> 0 .. MaxObjects]
      <3>1. number \in 0 .. MaxObjects
        BY <2>1
      <3> QED BY <1>1, <1>2, <3>1 DEF StateTyped
    <2>3. \A m \in Memory : numberOf'[m] > 0 => m \in alive'
      BY <1>1, <1>2 DEF StateTyped
    <2>4. content' \in [Memory -> Nat]
      BY <1>1, <1>2 DEF StateTyped
    <2> QED BY <1>1, <1>2, <2>1, <2>2, <2>3, <2>4 DEF StateTyped, MemoryOf
  <1>4. \A m \in alive : numberOf'[m] = numberOf[m] /\ content'[m] = content[m]
    BY <1>1, <1>2 DEF StateTyped
  <1>5. RecordsAreRight'
    <2>1. \A k \in Kernels : \A i \in known[k] : real[k][i] \in Memory => real[k][i] \in alive
      BY <1>2 DEF StateTyped, MemoryOf
    <2> QED BY <1>1, <1>4, <2>1 DEF DumpsInv, Shape, RecordsAreRight
  <1>6. \A u \in Threads : ~Idle(u) => Uses(u) \subseteq alive
    BY <1>2 DEF DumpsInv, Shape, CallsTyped, StateTyped, Uses
  <1>7. \A q \in Queues : \A r \in Entries(q) : r.memory \subseteq alive'
    BY <1>1 DEF DumpsInv, Queueing, Queued
  <1> QED BY <1>1, <1>3, <1>4, <1>5, <1>6, <1>7, OutsideShows

LEMMA RemoveMemoryShows ==
  ASSUME DumpsInv, NEW a \in Memory, RemoveMemory(a)
  PROVE  DumpsInv'
  <1>1. /\ a \notin InUse /\ alive' = alive \ {a} /\ numberOf' = [numberOf EXCEPT ![a] = 0]
        /\ real' = [k \in Kernels |->
                      [i \in Args |-> IF real[k][i] = a THEN NULL ELSE real[k][i]]]
        /\ known' = [k \in Kernels |-> {i \in known[k] : real[k][i] # a}]
        /\ UNCHANGED <<config, call, counter, number, argMem, argData, argLocal, replay, content,
                       running, stray, objects>>
    BY DEF RemoveMemory
  <1>2. StateTyped
    BY DEF DumpsInv, Shape
  <1>3. /\ \A u \in Threads : ~Idle(u) => a \notin Uses(u)
        /\ \A q \in Queues : \A r \in Entries(q) : a \notin r.memory
    <2>1. \A u \in Threads : ~Idle(u) => MemoryOf(call[u].kernel) \subseteq InUse
      BY DEF InUse
    <2>2. ASSUME NEW q \in Queues, NEW i \in DOMAIN running[q], a \in running[q][i].memory
          PROVE  a \in InUse
      <3> DEFINE U(p) == UNION {running[p][j].memory : j \in DOMAIN running[p]}
      <3>1. a \in U(q)
        BY <2>2
      <3>2. UNION {U(p) : p \in Queues} \subseteq InUse
        BY DEF InUse
      <3> HIDE DEF U
      <3>3. a \in UNION {U(p) : p \in Queues}
        BY <3>1
      <3> QED BY <3>2, <3>3
    <2> QED BY <1>1, <2>1, <2>2 DEF Uses, Entries
  <1>4. \A k \in Kernels : \A i \in Args :
           real'[k][i] \in Memory => real'[k][i] = real[k][i] /\ real[k][i] # a
    BY <1>1, LaunchAssumption
  <1>5. StateTyped'
    <2>1. real' \in [Kernels -> [Args -> Memory \cup {NULL}]]
      BY <1>1, <1>2 DEF StateTyped
    <2>2. known' \in [Kernels -> SUBSET Args]
      BY <1>1, <1>2 DEF StateTyped
    <2>3. /\ numberOf' \in [Memory -> 0 .. MaxObjects]
          /\ \A m \in Memory : numberOf'[m] > 0 => m \in alive'
      BY <1>1, <1>2, LaunchAssumption DEF StateTyped
    <2>4. \A k \in Kernels : MemoryOf(k)' \subseteq alive'
      BY <1>1, <1>2, <1>4 DEF StateTyped, MemoryOf
    <2>5. alive' \subseteq Memory
      BY <1>1, <1>2 DEF StateTyped
    <2> QED BY <1>1, <1>2, <2>1, <2>2, <2>3, <2>4, <2>5 DEF StateTyped
  <1>6. RecordsAreRight'
    <2> SUFFICES ASSUME NEW k \in Kernels, NEW i \in known'[k], real'[k][i] \in Memory
                 PROVE  /\ argMem[k][i] = real'[k][i] /\ argData[k][i] = real'[k][i]
                        /\ numberOf'[real'[k][i]] > 0
      BY <1>1 DEF RecordsAreRight
    <2>1. i \in known[k] /\ i \in Args
      BY <1>1, <1>2 DEF StateTyped
    <2>2. real'[k][i] = real[k][i] /\ real[k][i] # a /\ real[k][i] \in Memory
      BY <1>4, <2>1
    <2>3. numberOf'[real[k][i]] = numberOf[real[k][i]]
      BY <1>1, <1>2, <2>2 DEF StateTyped
    <2> QED BY <2>1, <2>2, <2>3 DEF DumpsInv, Shape, RecordsAreRight
  <1>7. ASSUME NEW u \in Threads, ~Idle(u)
        PROVE  /\ real'[call[u].kernel] = real[call[u].kernel]
               /\ known'[call[u].kernel] = known[call[u].kernel]
               /\ \A m \in Uses(u) : numberOf'[m] = numberOf[m]
    <2>1. PICK k \in Kernels : k = call[u].kernel
      BY <1>7 DEF DumpsInv, Shape, CallsTyped
    <2>2. \A i \in Args : real[k][i] # a
      BY <1>3, <1>7, <2>1 DEF Uses, MemoryOf
    <2>3. real'[k] = real[k] /\ known'[k] = known[k]
      <3>1. real[k] \in [Args -> Memory \cup {NULL}] /\ known[k] \subseteq Args
        BY <1>2 DEF StateTyped
      <3>2. real'[k] = [i \in Args |-> real[k][i]]
        BY <1>1, <2>2
      <3> QED BY <1>1, <2>2, <3>1, <3>2
    <2>4. \A m \in Uses(u) : m # a /\ m \in Memory
      BY <1>3, <1>7 DEF Uses, MemoryOf
    <2>5. \A m \in Memory : m # a => numberOf'[m] = numberOf[m]
      BY <1>1, <1>2 DEF StateTyped
    <2> QED BY <2>1, <2>3, <2>4, <2>5
  <1>8. \A q \in Queues : \A r \in Entries(q) : r.memory \subseteq alive'
    BY <1>1, <1>3 DEF DumpsInv, Queueing, Queued
  <1> QED BY <1>1, <1>5, <1>6, <1>7, <1>8, OutsideShows


\* An argument of a kernel that no launch uses.
LEMMA ArgumentShows ==
  ASSUME DumpsInv, NEW k \in Kernels, NEW i \in Args, NEW value, NEW right,
         value \in alive \cup {NULL}, MaySet(k), Driver(k, i, value, right),
         argMem' \in [Kernels -> [Args -> Memory \cup {NULL}]],
         argData' \in [Kernels -> [Args -> Memory \cup {NULL}]],
         argLocal' \in [Kernels -> SUBSET Args],
         \A j \in Kernels \ {k} : argMem'[j] = argMem[j] /\ argData'[j] = argData[j],
         \A n \in Args \ {i} : argMem'[k][n] = argMem[k][n] /\ argData'[k][n] = argData[k][n],
         right /\ value \in Memory =>
            argMem'[k][i] = value /\ argData'[k][i] = value /\ numberOf[value] > 0
  PROVE  DumpsInv'
  <1>1. /\ \A u \in Threads : call[u].kernel # k
        /\ UNCHANGED <<config, call, counter, numberOf, number, replay, alive, content, running,
                       stray, objects>>
    BY DEF MaySet, KernelInUse
  <1>2. StateTyped /\ NULL \notin Memory
    BY LaunchAssumption DEF DumpsInv, Shape
  <1>3. \/ /\ real' = [real EXCEPT ![k][i] = value]
           /\ known' = [known EXCEPT ![k] = IF right THEN @ \cup {i} ELSE @ \ {i}]
        \/ real' = real /\ known' = [known EXCEPT ![k] = @ \ {i}]
    BY DEF Driver
  <1>4. /\ real \in [Kernels -> [Args -> Memory \cup {NULL}]] /\ known \in [Kernels -> SUBSET Args]
        /\ alive \subseteq Memory /\ value \in Memory \cup {NULL}
    BY <1>2 DEF StateTyped
  <1>5. /\ real' \in [Kernels -> [Args -> Memory \cup {NULL}]] /\ known' \in [Kernels -> SUBSET Args]
        /\ \A j \in Kernels \ {k} : real'[j] = real[j] /\ known'[j] = known[j]
        /\ \A n \in Args \ {i} : real'[k][n] = real[k][n]
        /\ \A n \in known'[k] : n = i \/ n \in known[k]
        /\ real'[k][i] = real[k][i] \/ real'[k][i] = value
        /\ i \in known'[k] => right /\ real'[k][i] = value
    <2>1. CASE real' = [real EXCEPT ![k][i] = value]
               /\ known' = [known EXCEPT ![k] = IF right THEN @ \cup {i} ELSE @ \ {i}]
      <3>1. /\ known'[k] = IF right THEN known[k] \cup {i} ELSE known[k] \ {i}
            /\ \A j \in Kernels \ {k} : known'[j] = known[j]
            /\ known' \in [Kernels -> SUBSET Args]
        BY <1>4, <2>1
      <3>2. /\ real' \in [Kernels -> [Args -> Memory \cup {NULL}]]
            /\ \A j \in Kernels \ {k} : real'[j] = real[j]
            /\ \A n \in Args \ {i} : real'[k][n] = real[k][n]
            /\ real'[k][i] = value
        BY <1>4, <2>1
      <3> QED BY <3>1, <3>2
    <2>2. CASE real' = real /\ known' = [known EXCEPT ![k] = @ \ {i}]
      <3>1. /\ known'[k] = known[k] \ {i} /\ \A j \in Kernels \ {k} : known'[j] = known[j]
            /\ known' \in [Kernels -> SUBSET Args]
        BY <1>4, <2>2
      <3> QED BY <1>4, <2>2, <3>1
    <2> QED BY <1>3, <2>1, <2>2
  <1>6. StateTyped'
    <2>1. ASSUME NEW j \in Kernels, NEW n \in Args, real'[j][n] \in Memory
          PROVE  real'[j][n] \in alive
      <3>1. real'[j][n] = real[j][n] \/ real'[j][n] = value
        BY <1>5
      <3>2. real[j][n] \in Memory => real[j][n] \in alive
        BY <1>2 DEF StateTyped, MemoryOf
      <3> QED BY <1>2, <2>1, <3>1, <3>2
    <2>2. \A j \in Kernels : MemoryOf(j)' \subseteq alive
      BY <2>1 DEF MemoryOf
    <2> QED BY <1>1, <1>2, <1>5, <2>2 DEF StateTyped
  <1>7. RecordsAreRight'
    <2> SUFFICES ASSUME NEW j \in Kernels, NEW n \in known'[j], real'[j][n] \in Memory
                 PROVE  /\ argMem'[j][n] = real'[j][n] /\ argData'[j][n] = real'[j][n]
                        /\ numberOf[real'[j][n]] > 0
      BY <1>1 DEF RecordsAreRight
    <2>1. CASE j = k /\ n = i
      BY <1>5, <2>1
    <2>2. CASE ~(j = k /\ n = i)
      <3>1. n \in known[j] /\ n \in Args
        BY <1>4, <1>5, <2>2
      <3>2. /\ real'[j][n] = real[j][n] /\ argMem'[j][n] = argMem[j][n]
            /\ argData'[j][n] = argData[j][n]
        BY <1>5, <2>2, <3>1
      <3> QED BY <3>1, <3>2 DEF DumpsInv, Shape, RecordsAreRight
    <2> QED BY <2>1, <2>2
  <1>8. \A u \in Threads : ~Idle(u) => call[u].kernel \in Kernels \ {k}
    BY <1>1 DEF DumpsInv, Shape, CallsTyped
  <1>9. \A q \in Queues : \A r \in Entries(q) : r.memory \subseteq alive'
    BY <1>1 DEF DumpsInv, Queueing, Queued
  <1> QED BY <1>1, <1>5, <1>6, <1>7, <1>8, <1>9, OutsideShows

LEMMA ArgsExcept ==
  ASSUME NEW f \in [Kernels -> [Args -> Memory \cup {NULL}]], NEW k \in Kernels, NEW i \in Args,
         NEW m \in Memory, NEW g, g = [f EXCEPT ![k][i] = m]
  PROVE  /\ g \in [Kernels -> [Args -> Memory \cup {NULL}]] /\ g[k][i] = m
         /\ \A j \in Kernels \ {k} : g[j] = f[j]
         /\ \A n \in Args \ {i} : g[k][n] = f[k][n]
  OBVIOUS

LEMMA SetKernelArgShows ==
  ASSUME DumpsInv, NEW k \in Kernels, NEW i \in Args, clSetKernelArg(k, i)
  PROVE  DumpsInv'
  <1>1. MaySet(k)
    BY DEF clSetKernelArg
  <1>2. /\ argMem \in [Kernels -> [Args -> Memory \cup {NULL}]]
        /\ argData \in [Kernels -> [Args -> Memory \cup {NULL}]]
        /\ argLocal \in [Kernels -> SUBSET Args] /\ alive \subseteq Memory /\ NULL \notin Memory
    BY LaunchAssumption DEF DumpsInv, Shape, StateTyped
  <1>3. ASSUME NEW m \in alive, setKernelArg(k, i, m), Driver(k, i, m, numberOf[m] > 0)
        PROVE  DumpsInv'
    <2>1. m \in Memory /\ UNCHANGED argLocal /\ argData' = [argData EXCEPT ![k][i] = m]
          /\ argMem' = IF numberOf[m] > 0 THEN [argMem EXCEPT ![k][i] = m] ELSE argMem
      BY <1>2, <1>3 DEF setKernelArg
    <2>2. /\ argData' \in [Kernels -> [Args -> Memory \cup {NULL}]] /\ argData'[k][i] = m
          /\ \A j \in Kernels \ {k} : argData'[j] = argData[j]
          /\ \A n \in Args \ {i} : argData'[k][n] = argData[k][n]
      BY <1>2, <2>1, ArgsExcept
    <2>3. /\ argMem' \in [Kernels -> [Args -> Memory \cup {NULL}]]
          /\ numberOf[m] > 0 => argMem'[k][i] = m
          /\ \A j \in Kernels \ {k} : argMem'[j] = argMem[j]
          /\ \A n \in Args \ {i} : argMem'[k][n] = argMem[k][n]
      <3>1. CASE numberOf[m] > 0
        <4>1. argMem' = [argMem EXCEPT ![k][i] = m]
          BY <2>1, <3>1
        <4> QED BY <1>2, <2>1, <4>1, ArgsExcept
      <3>2. CASE ~(numberOf[m] > 0)
        BY <1>2, <2>1, <3>2
      <3> QED BY <3>1, <3>2
    <2> QED BY <1>1, <1>2, <1>3, <2>1, <2>2, <2>3, ArgumentShows
  <1>4. ASSUME setKernelArgSize(k, i), Driver(k, i, NULL, i \in LocalArgs)
        PROVE  DumpsInv'
    <2>1. UNCHANGED <<argMem, argData>> /\ argLocal' \in [Kernels -> SUBSET Args]
      BY <1>2, <1>4 DEF setKernelArgSize
    <2> QED BY <1>1, <1>2, <1>4, <2>1, ArgumentShows
  <1> QED BY <1>3, <1>4 DEF clSetKernelArg

\* The allocation that is found is the one that was meant: allocations of a kind
\* do not overlap.
LEMMA HoldingIsRight ==
  ASSUME StateTyped, NEW m \in Memory, NEW offset \in Nat, offset < SizeOf[m],
         KindOf[m] \in {"svm", "usm"}, numberOf[m] > 0
  PROVE  Holding(KindOf[m], m + offset) = {m}
  <1> DEFINE p == m + offset
             S == {n \in Tracked({KindOf[m]}) : n <= p}
  <1>1. m \in Nat /\ SizeOf[m] \in Nat /\ p \in Nat /\ p < m + SizeOf[m] /\ m <= p
    BY LaunchAssumption, MemoryAssumption
  <1>2. m \in S /\ S \subseteq Nat /\ \A n \in S : n \in Memory /\ KindOf[n] = KindOf[m] /\ n <= p
    BY <1>1, LaunchAssumption DEF Tracked
  <1>3. \A n \in S : m >= n
    <2>1. ASSUME NEW n \in S, m < n PROVE FALSE
      <3>1. m + SizeOf[m] <= n /\ n <= p /\ n \in Nat
        BY <1>2, <2>1, MemoryAssumption
      <3> QED BY <1>1, <3>1
    <2>2. \A n \in S : n \in Nat
      BY <1>2
    <2> QED BY <1>1, <2>1, <2>2
  <1> HIDE DEF S, p
  <1>4. Max(S) = m
    <2>1. \E x \in S : \A y \in S : x >= y
      BY <1>2, <1>3
    <2>2. Max(S) \in S /\ \A y \in S : Max(S) >= y
      BY <2>1 DEF Max
    <2>3. Max(S) >= m /\ m >= Max(S) /\ Max(S) \in Nat
      BY <1>2, <1>3, <2>2
    <2> QED BY <1>1, <2>3
  <1>5. Holding(KindOf[m], p) = {n \in S : n = Max(S) /\ p < n + SizeOf[n]}
    BY DEF Holding, S
  <1>6. Holding(KindOf[m], p) = {m}
    BY <1>1, <1>2, <1>4, <1>5
  <1> QED BY <1>6 DEF p

LEMMA SetPointerShows ==
  ASSUME DumpsInv, NEW k \in Kernels, NEW i \in Args, clSetKernelArgPointer(k, i)
  PROVE  DumpsInv'
  <1>1. MaySet(k)
    BY DEF clSetKernelArgPointer
  <1>2. /\ argMem \in [Kernels -> [Args -> Memory \cup {NULL}]]
        /\ argData \in [Kernels -> [Args -> Memory \cup {NULL}]]
        /\ argLocal \in [Kernels -> SUBSET Args] /\ alive \subseteq Memory /\ StateTyped
    BY DEF DumpsInv, Shape, StateTyped
  <1>3. PICK m \in alive, offset \in 0 .. 1 :
           /\ KindOf[m] \in {"svm", "usm"} /\ offset < SizeOf[m]
           /\ setKernelArgPointer(KindOf[m], k, i, m + offset)
           /\ Driver(k, i, m, numberOf[m] > 0)
    BY DEF clSetKernelArgPointer
  <1>4. m \in Memory /\ offset \in Nat /\ UNCHANGED argLocal
    BY <1>2, <1>3 DEF setKernelArgPointer
  <1>5. numberOf[m] > 0 => Holding(KindOf[m], m + offset) = {m}
    BY <1>2, <1>3, <1>4, HoldingIsRight
  <1>6. CASE Holding(KindOf[m], m + offset) = {}
    <2>1. UNCHANGED <<argMem, argData>> /\ ~(numberOf[m] > 0)
      BY <1>3, <1>5, <1>6 DEF setKernelArgPointer
    <2> QED BY <1>1, <1>2, <1>3, <1>4, <2>1, ArgumentShows
  <1>7. CASE Holding(KindOf[m], m + offset) # {}
    <2>1. PICK n \in Holding(KindOf[m], m + offset) :
             argMem' = [argMem EXCEPT ![k][i] = n] /\ argData' = [argData EXCEPT ![k][i] = n]
      BY <1>3, <1>7 DEF setKernelArgPointer
    <2>2. n \in Memory /\ (numberOf[m] > 0 => n = m)
      BY <1>5, <2>1 DEF Holding, Tracked
    <2>3. /\ argData' \in [Kernels -> [Args -> Memory \cup {NULL}]] /\ argData'[k][i] = n
          /\ \A j \in Kernels \ {k} : argData'[j] = argData[j]
          /\ \A a \in Args \ {i} : argData'[k][a] = argData[k][a]
      BY <1>2, <2>1, <2>2, ArgsExcept
    <2>4. /\ argMem' \in [Kernels -> [Args -> Memory \cup {NULL}]] /\ argMem'[k][i] = n
          /\ \A j \in Kernels \ {k} : argMem'[j] = argMem[j]
          /\ \A a \in Args \ {i} : argMem'[k][a] = argMem[k][a]
      BY <1>2, <2>1, <2>2, ArgsExcept
    <2> QED BY <1>1, <1>2, <1>3, <1>4, <2>2, <2>3, <2>4, ArgumentShows
  <1> QED BY <1>6, <1>7

LEMMA RecreateShows ==
  ASSUME DumpsInv, NEW k \in Kernels, RecreateKernel(k)
  PROVE  DumpsInv'
  <1>1. /\ \A u \in Threads : call[u].kernel # k
        /\ real' = [real EXCEPT ![k] = [i \in Args |-> NULL]] /\ known' = [known EXCEPT ![k] = {}]
        /\ UNCHANGED <<config, call, counter, numberOf, number, replay, alive, content, running,
                       stray, objects, argMem, argData, argLocal>>
    BY DEF RecreateKernel, MaySet, KernelInUse
  <1>2. StateTyped /\ NULL \notin Memory
    BY LaunchAssumption DEF DumpsInv, Shape
  <1>3. /\ real'[k] = [i \in Args |-> NULL] /\ known'[k] = {}
        /\ \A j \in Kernels \ {k} : real'[j] = real[j] /\ known'[j] = known[j]
        /\ real' \in [Kernels -> [Args -> Memory \cup {NULL}]] /\ known' \in [Kernels -> SUBSET Args]
    BY <1>1, <1>2 DEF StateTyped
  <1>4. StateTyped'
    <2>1. \A j \in Kernels : MemoryOf(j)' \subseteq MemoryOf(j)
      BY <1>2, <1>3 DEF MemoryOf
    <2> QED BY <1>1, <1>2, <1>3, <2>1 DEF StateTyped
  <1>5. RecordsAreRight'
    BY <1>1, <1>3 DEF RecordsAreRight, DumpsInv, Shape
  <1>6. \A u \in Threads : ~Idle(u) => call[u].kernel \in Kernels \ {k}
    BY <1>1 DEF DumpsInv, Shape, CallsTyped
  <1>7. \A q \in Queues : \A r \in Entries(q) : r.memory \subseteq alive'
    BY <1>1 DEF DumpsInv, Queueing, Queued
  <1> QED BY <1>1, <1>3, <1>4, <1>5, <1>6, <1>7, OutsideShows


-----------------------------------------------------------------------------
(* The second invariant holds, and says what TypeOK and the dumps say.       *)

LEMMA InitShows == Init => DumpsInv
  <1> SUFFICES ASSUME Init PROVE DumpsInv
    OBVIOUS
  <1>1. /\ DOMAIN call = Threads /\ \A t \in Threads : call[t] = NoCall
        /\ \A q \in Queues : running[q] = <<>> /\ Entries(q) = {}
    BY DEF Init, Entries
  <1>2. NoCall.todo = <<>> /\ NoCall.n = 0 /\ NoCall.capture = FALSE /\ Len(NoCall.todo) = 0
    BY DEF NoCall
  <1>3. \A t \in Threads : Idle(t) /\ Left(t) = 0
    BY <1>1, <1>2 DEF Idle, Left
  <1>4. Shape
    <2>1. OnSteps
      <3>1. \A n : n \in 1 .. 0 => FALSE
        OBVIOUS
      <3> QED BY <1>3, <3>1 DEF OnSteps
    <2>2. CallsTyped
      BY <1>1, <1>2, <1>3 DEF CallsTyped
    <2>3. StateTyped
      <3>1. \A k \in Kernels : \A i \in Args : real[k][i] \notin Memory
        BY LaunchAssumption DEF Init
      <3>2. running \in [Queues -> Seq(Launches)]
        BY DEF Init
      <3>3. /\ counter <= MaxLaunches /\ objects \in 0 .. MaxObjects /\ number \in 1 .. objects + 1
            /\ numberOf \in [Memory -> 0 .. MaxObjects]
            /\ \A m \in Memory : numberOf[m] > 0 => m \in alive
        BY LaunchAssumption DEF Init
      <3>4. /\ argMem \in [Kernels -> [Args -> Memory \cup {NULL}]]
            /\ argData \in [Kernels -> [Args -> Memory \cup {NULL}]]
            /\ argLocal \in [Kernels -> SUBSET Args] /\ known \in [Kernels -> SUBSET Args]
            /\ alive \subseteq Memory /\ content \in [Memory -> Nat]
            /\ real \in [Kernels -> [Args -> Memory \cup {NULL}]]
        BY DEF Init
      <3>5. \A k \in Kernels : MemoryOf(k) \subseteq alive
        BY <3>1 DEF MemoryOf
      <3> QED BY <3>2, <3>3, <3>4, <3>5 DEF StateTyped
    <2>4. RecordsAreRight
      BY DEF RecordsAreRight, Init
    <2>5. Exclusive
      BY <1>3 DEF Exclusive
    <2> QED BY <2>1, <2>2, <2>3, <2>4, <2>5 DEF Shape
  <1>5. Queueing
    <2>1. QueuedOnce
      BY <1>1 DEF QueuedOnce
    <2> QED BY <1>1, <2>1 DEF Queueing, Queued, Apart, Waited
  <1> QED BY <1>3, <1>4, <1>5, InitInv DEF DumpsInv

LEMMA StutterShows ==
  ASSUME DumpsInv, UNCHANGED vars
  PROVE  DumpsInv'
  <1>1. UNCHANGED <<call, config, counter, layer, replay, driver, history>>
    BY DEF vars
  <1>2. UNCHANGED <<numberOf, number, argMem, argData, argLocal, alive, content, real, running,
                    known, stray, objects>>
    BY <1>1 DEF layer, driver, history
  <1>3. StateTyped' /\ RecordsAreRight'
    BY <1>1, <1>2 DEF DumpsInv, Shape, StateTyped, RecordsAreRight, MemoryOf
  <1>4. \A q \in Queues : \A r \in Entries(q) : r.memory \subseteq alive'
    BY <1>2 DEF DumpsInv, Queueing, Queued
  <1> QED BY <1>1, <1>2, <1>3, <1>4, OutsideShows

LEMMA NextShows == DumpsInv /\ [Next]_vars => DumpsInv'
  <1> SUFFICES ASSUME DumpsInv, [Next]_vars PROVE DumpsInv'
    OBVIOUS
  <1>1. CASE \E m \in Memory : AddMemory(m) \/ RemoveMemory(m)
    BY <1>1, AddMemoryShows, RemoveMemoryShows
  <1>2. CASE \E k \in Kernels : \/ \E i \in Args : clSetKernelArg(k, i) \/ clSetKernelArgPointer(k, i)
                                \/ RecreateKernel(k)
    BY <1>2, SetKernelArgShows, SetPointerShows, RecreateShows
  <1>3. CASE \E k \in Kernels, t \in Threads, q \in Queues : Begin(t, k, q)
    BY <1>3, BeginShows
  <1>4. CASE \E t \in Threads : checkCaptureReplay(t) \/ startCaptureReplay(t)
    BY <1>4, CheckShows, StartShows
  <1>5. CASE \E t \in Threads, when \in {"Pre", "Post"} :
                dumpBuffersForKernel(t, when) \/ dumpImagesForKernel(t, when)
    BY <1>5, DumpBuffersShows, DumpImagesShows
  <1>6. CASE \E t \in Threads : injectBuffersForKernel(t) \/ injectImagesForKernel(t)
    BY <1>6, InjectionsShow
  <1>7. CASE \E t \in Threads : clEnqueueNDRangeKernel(t) \/ Return(t)
    BY <1>7, EnqueueShows, ReturnShows
  <1>8. CASE \E q \in Queues : Run(q)
    BY <1>8, RunShows
  <1>9. CASE UNCHANGED vars
    BY <1>9, StutterShows
  <1> QED
    BY <1>1, <1>2, <1>3, <1>4, <1>5, <1>6, <1>7, <1>8, <1>9 DEF Next

\* The kernels in a queue have numbers of their own, so there are no more of them
\* than launches.
LEMMA QueuesAreShort ==
  ASSUME DumpsInv, NEW q \in Queues
  PROVE  Len(running[q]) <= MaxLaunches
  <1> DEFINE m == Len(running[q])
             f == [i \in 1 .. m |-> running[q][i].n]
  <1>1. /\ DOMAIN running[q] = 1 .. m /\ m \in Nat
        /\ \A i \in 1 .. m : running[q][i] \in Launches /\ running[q][i] \in Entries(q)
    BY EntriesTyped DEF DumpsInv, Shape, Entries
  <1>2. counter \in Nat /\ counter <= MaxLaunches /\ MaxLaunches \in Nat
    BY LaunchAssumption DEF DumpsInv, Inv, Types, Shape, StateTyped
  <1>3. \A i \in 1 .. m : running[q][i].n \in 1 .. counter
    <2>1. \A i \in 1 .. m : /\ running[q][i].n \in Nat /\ running[q][i].n > 0
                            /\ running[q][i].n <= counter
      BY <1>1 DEF Launches, DumpsInv, Queueing, Queued
    <2> QED BY <1>2, <2>1
  <1>4. \A i, j \in 1 .. m : running[q][i].n = running[q][j].n => i = j
    BY <1>1 DEF DumpsInv, Queueing, QueuedOnce
  <1> HIDE DEF m
  <1>5. f \in Injection(1 .. m, 1 .. counter)
    <2>1. f \in [1 .. m -> 1 .. counter]
      BY <1>3
    <2>2. IsInjective(f)
      BY <1>4 DEF IsInjective
    <2> QED BY <2>1, <2>2 DEF Injection
  <1>6. 1 \in Int /\ m \in Int /\ counter \in Int
    BY <1>1, <1>2
  <1>7. /\ IsFiniteSet(1 .. counter) /\ Cardinality(1 .. counter) = counter
        /\ Cardinality(1 .. m) = m
    <2>1. /\ Cardinality(1 .. m) = IF 1 > m THEN 0 ELSE m - 1 + 1
          /\ Cardinality(1 .. counter) = IF 1 > counter THEN 0 ELSE counter - 1 + 1
          /\ IsFiniteSet(1 .. counter)
      BY <1>6, FS_Interval
    <2> QED BY <1>1, <1>2, <2>1
  <1> HIDE DEF f
  <1>8. Cardinality(1 .. m) <= Cardinality(1 .. counter)
    BY <1>5, <1>7, FS_Injection
  <1>9. m <= MaxLaunches
    BY <1>1, <1>2, <1>7, <1>8
  <1> QED BY <1>9 DEF m

LEMMA DumpsInvTyped == DumpsInv => TypeOK
  <1> SUFFICES ASSUME DumpsInv PROVE TypeOK
    OBVIOUS
  <1>1. StateTyped /\ Types
    BY DEF DumpsInv, Shape, Inv
  <1>2. counter \in 0 .. MaxLaunches /\ number \in 1 .. MaxObjects + 1
    BY <1>1, LaunchAssumption DEF StateTyped, Types
  <1>3. \A t \in Threads : /\ DOMAIN call[t] = DOMAIN NoCall
                           /\ call[t].n <= counter /\ call[t].capture \in BOOLEAN
    BY <1>1 DEF Types, Locals, DumpsInv, Inv, Numbered, Shape, CallsTyped
  <1>4. \A q \in Queues : Len(running[q]) <= MaxLaunches
    BY QueuesAreShort
  <1> QED BY <1>1, <1>2, <1>3, <1>4 DEF TypeOK, StateTyped, Types

LEMMA DumpsInvImplies == DumpsInv => DumpsShowTheKernel
  <1> SUFFICES ASSUME DumpsInv, NEW t \in Threads, At(t, "return"), Faithful(t), Ran(t),
                      NEW i \in Args, NEW m \in Memory, m = real[call[t].kernel][i]
               PROVE  /\ \E f \in {g \in call[t].pre : g.arg = i} :
                            /\ f.number = numberOf[m]
                            /\ \/ m \in call[t].injected \cup stray
                               \/ [arg |-> i, content |-> f.content] \in call[t].ran
                      /\ m \in stray \/ {g \in call[t].post : g.arg = i} =
                            {[arg |-> i, number |-> numberOf[m], content |-> 10 + call[t].n]}
                      /\ [arg |-> i, local |-> FALSE, value |-> m] \in call[t].args
    BY DEF DumpsShowTheKernel
  <1>1. ~Idle(t) /\ Left(t) = 1
    BY StepAt DEF At, DumpsInv, Inv, Types, Shape
  <1>2. Shows(t) /\ call[t].ran # {}
    BY <1>1 DEF DumpsInv, Ran
  <1>3. [arg |-> i, local |-> FALSE, value |-> m] \in call[t].args
    BY <1>1, <1>2 DEF Shows, ArgsShown
  <1>4. FileBefore(t, i, m)
    BY <1>1, <1>2 DEF Shows, PreShown, WhenPre
  <1>5. \E f \in {g \in call[t].pre : g.arg = i} :
           /\ f.number = numberOf[m]
           /\ \/ m \in call[t].injected \cup stray
              \/ [arg |-> i, content |-> f.content] \in call[t].ran
    BY <1>2, <1>4 DEF FileBefore
  <1>6. m \in stray \/ {g \in call[t].post : g.arg = i} =
           {[arg |-> i, number |-> numberOf[m], content |-> 10 + call[t].n]}
    BY <1>1, <1>2 DEF Shows, PostShown, WhenPost
  <1> QED BY <1>3, <1>5, <1>6

\* The counters and maps of the launches have their types, and no queue holds more
\* kernels than were launched.
THEOREM KernelLaunchTypesCorrect == Spec => []TypeOK
  BY InitShows, NextShows, DumpsInvTyped, PTL DEF Spec

\* dumpBuffersForKernel, dumpImagesForKernel and the description of the arguments:
\* a captured launch whose arguments the layer knows leaves the contents its kernel
\* found, the ones it made, and what each argument is, whatever the other threads
\* launch, allocate, free or set meanwhile.
THEOREM DumpsAlwaysShowTheKernel == Spec => []DumpsShowTheKernel
  BY InitShows, NextShows, DumpsInvImplies, PTL DEF Spec
=============================================================================

------------------------- MODULE ProgramFilesProofs -------------------------
(* Theorems about ProgramFiles, for every finite set of threads, every set of *)
(* programs, sources and options, every bound and every set of configurations.*)
EXTENDS ProgramFiles, FiniteSetTheorems, TLAPS

-----------------------------------------------------------------------------
(* The inductive invariant: types; how far each call is; the numbers and      *)
(* counters that make names unique; and what files and the layer's maps say   *)
(* of a program's text and options.                                           *)

ToCome(t) == {Steps[call[t].op][i] : i \in call[t].todo}
Builds    == {"build", "compile"}
Texts     == {"source", "il", "binary"}
OptionKinds == {"options", "compile_options"}

\* The types, with the bounds left out that follow from the rest.
Types ==
    /\ run \in 1 .. 2 /\ config \in Configs
    /\ number \in Nat /\ creations \in 0 .. MaxCreations /\ builds \in 0 .. MaxBuilds
    /\ call \in [Threads -> Calls]
    /\ info \in [Programs \cup {NULL} -> [number : Nat, hash : Hashes, count : Nat,
                                          options : Options \cup {NULL}]]
    /\ live \in [Programs -> Held \cup {NULL}]

\* The steps to come are the last of those that the controls ask for.
Suffix(t) ==
    /\ call[t].op = NULL <=> call[t].todo = {}
    /\ call[t].op = NULL => call[t] = NoCall
    /\ call[t].op # NULL =>
          /\ call[t].todo \subseteq Asked(call[t].op)
          /\ \A i \in call[t].todo : \A j \in Asked(call[t].op) : i <= j => j \in call[t].todo

Suffixes == \A t \in Threads : Suffix(t)

\* A program that a call works on is living, was made by the kind of call that
\* says so, and no other call works on it.
Handles ==
    \A t \in Threads :
        LET c == call[t] IN
        /\ c.program # NULL =>
              /\ live[c.program] # NULL
              /\ IF c.op \in Builds THEN live[c.program].op \in Texts
                 ELSE live[c.program].op = c.op
              /\ \A u \in Threads \ {t} : call[u].program # c.program
        /\ c.op \in Builds => c.program # NULL
        /\ "create" \in ToCome(t) => c.program = NULL
        /\ c.op \in Texts /\ "create" \notin ToCome(t) /\ ~c.refused => c.program # NULL
        /\ c.op \notin Builds \cup {NULL} => c.content # NULL

\* There are as many numbers as calls that created a program.
NumbersTaken == number + Cardinality({t \in Threads : "number" \in ToCome(t)}) <= creations

\* A program is built at most as often as there are calls: one that is still to
\* count itself is not yet in the counter.
Counts ==
    /\ info[NULL].count = 0
    /\ \A p \in Programs : info[p].count <= builds + creations
    /\ \A t \in Threads :
          call[t].program # NULL /\ "increment" \in ToCome(t) /\ "number" \notin ToCome(t)
          => info[call[t].program].count < builds + creations

\* The layer has given the program its number.
Numbered(p) ==
    /\ live[p] # NULL /\ live[p].op # "builtin"
    /\ \A t \in Threads : call[t].program = p => "number" \notin ToCome(t)

\* No two living programs have one number, and the next one is free.
Numbering ==
    \A p \in Programs : Numbered(p) =>
        /\ info[p].number < number
        /\ \A q \in Programs \ {p} : Numbered(q) => info[p].number # info[q].number

\* What is left in the map of a program that is gone counts as well.
InfoNumbers == \A p \in Programs \cup {NULL} : info[p].number <= number

\* The files of this run whose name has a program's number, without those that
\* NothingIsOverwritten leaves out.
Right(f) ==
    /\ f.run = run /\ f.name.number # NULL
    /\ f.op = "link" => f.program # NULL /\ f.name.kind # "log"

\* The step that writes files of a kind.
StepOf(kind) == CASE kind \in {"options", "compile_options", "link_options"} -> "dumpOptions"
                  [] kind = "binary" -> "dumpBinary" [] kind = "isa" -> "dumpISA"
                  [] kind = "spv" -> "autoSPIRV" [] OTHER -> kind

\* A file's number was given out before.
FileNumbers ==
    \A f \in files :
      /\ f.run \in 1 .. run
      /\ f.name.count \in Nat \cup {NULL}
      /\ Right(f) => f.name.number \in Nat /\ f.name.number < number

\* A program's count is above that of every file that has its number: a call
\* counts itself after its files, whose steps are then not to come.  Without a
\* control that counts, only the options of a link are named by a count, which
\* is the first.
Latest ==
    \A f \in files, p \in Programs :
        Right(f) /\ f.name.count # NULL /\ Numbered(p) /\ f.name.number = info[p].number =>
           IF AnyOf(StepControls.increment)
           THEN \/ f.name.count < info[p].count
                \/ /\ f.name.count = info[p].count
                   /\ \E t \in Threads : /\ call[t].program = p /\ "increment" \in ToCome(t)
                                         /\ StepOf(f.name.kind) \notin ToCome(t)
           ELSE f.name.kind = "link_options" =>
                  /\ live[p].op = "link"
                  /\ \A t \in Threads : call[t].program = p => "dumpOptions" \notin ToCome(t)

\* Without a control that counts, files that are named by a count hold options,
\* and two of one name the same options.
NotCounted ==
    \A f \in files :
        Right(f) /\ f.name.count # NULL /\ ~AnyOf(StepControls.increment) =>
        /\ f.name.kind \in OptionKinds \cup {"link_options"}
        /\ f.name.kind \in OptionKinds /\ f.content.text # NULL =>
                f.content = [text |-> f.name.options, edited |-> FALSE,
                             more |-> On("AppendBuildOptions")]

\* The options that a build has in place of the application's: nothing is
\* injected in them in the first run.
Appended ==
    \A t \in Threads :
        LET c == call[t] IN
        c.op \in Builds /\ (run = 1 \/ ~On("InjectProgramSource")) =>
            c.new = IF On("AppendBuildOptions") /\ "appendOptions" \notin ToCome(t)
                    THEN [text |-> c.options, edited |-> FALSE, more |-> TRUE]
                    ELSE NULL

\* saveProgramOptionsHash has saved the options that the call has.
OptionsSaved ==
    \A t \in Threads :
        LET c == call[t] IN
        c.op \in Builds /\ c.options # NULL /\ AnyOf(SavesHash) /\ "saveOptions" \notin ToCome(t)
            => info[c.program].options = c.options

\* A file's name tells its source, and its options or those it was named after.
TextRight(kind, name, content) ==
    /\ kind = "source" => /\ content \in Plain /\ content.form = "source"
                          /\ name.hash = Hash(content)
    /\ kind \in OptionKinds =>
           /\ content \in BuildOptions
           /\ content.text \in {name.options, NULL} /\ (content.text = NULL => content.more)

\* What the first run dumps is named as the second run will look for it.
FirstRun ==
    run = 1 =>
       /\ inject = {}
       /\ \A f \in files :
           /\ DOMAIN f.name = {"dir", "kind", "number", "hash", "count", "options"}
           /\ f.name.kind \in Texts \cup {"spv"} => f.content \in Contents
           /\ TextRight(f.name.kind, f.name, f.content)

\* The files to inject are some of them, edited, and one of each name.
Injected ==
    /\ \A f, g \in inject : f.name = g.name => f = g
    /\ \A f \in inject :
         /\ f.name.kind \in Texts \cup OptionKinds \cup {"prepend"}
         /\ f.name.kind \in Texts => f.content \in Contents
         /\ f.name.kind # "prepend" => f.content.edited
         /\ TextRight(f.name.kind, f.name, f.content)

\* A program's source: its hash is the application's source's, injected or not,
\* and what is found to inject is what is handed on.
Sourced ==
    \A t \in Threads :
        LET c == call[t] IN c.op = "source" =>
           /\ c.content \in Plain /\ c.content.form = "source"
           /\ AnyOf(HashControls.source) => c.hash = Hash(c.content)
           /\ On("InjectProgramSource") /\ "inject" \notin ToCome(t)
              /\ InInject(Name("inject", "source", NULL, c.hash)) => c.content.edited
           /\ On("InjectProgramBinaries") /\ "binaries" \notin ToCome(t) /\ ~c.refused
              /\ InInject(Name("inject", "binary", NULL, c.hash)) => c.made # NULL /\ c.made.edited
           /\ c.made # NULL /\ "create" \in ToCome(t) => c.made.edited
           /\ c.program # NULL => live[c.program].own = Hash(c.content)

\* With source injection, the hash and the count that the layer keeps of a
\* program are those of the application's source and of its builds.
SourceInfo ==
    On("InjectProgramSource") =>
      /\ \A t \in Threads : call[t].program # NULL /\ "number" \in ToCome(t) =>
            live[call[t].program].builds = 0
      /\ \A p \in Programs : live[p] # NULL /\ live[p].op = "source" =>
       /\ (\A t \in Threads : call[t].program = p => "saveHash" \notin ToCome(t))
             => info[p].hash = live[p].own
       /\ Numbered(p) =>
           live[p].builds = info[p].count +
             IF \E t \in Threads : /\ call[t].program = p /\ call[t].op \in Builds
                                   /\ "build" \notin ToCome(t)
             THEN 1 ELSE 0

\* A build for which there are options to inject has them: the injected ones
\* name the application's, or nothing but what is appended.
Answered ==
    \A t \in Threads :
        LET c == call[t]
            p == live[c.program]
            i == [hash |-> p.own, count |-> p.builds, options |-> c.options]
            kind == IF c.op = "build" THEN "options" ELSE "compile_options"
        IN  /\ c.op \in Builds /\ c.options # NULL /\ On("InjectProgramSource")
            /\ "injectOptions" \notin ToCome(t) /\ "build" \in ToCome(t)
            /\ p.op = "source" /\ InInject(BuildName("inject", kind, NULL, i))
            => /\ c.new # NULL /\ c.new.edited
               /\ \/ c.new.text = c.options
                  \/ c.new.text = NULL /\ c.new.more

-----------------------------------------------------------------------------
(* The steps of the calls, and their order. *)

LEMMA StepLists ==
  /\ DOMAIN Steps = {"source", "il", "binary", "builtin", "link", "build", "compile"}
  /\ Steps["source"] = <<"inject", "prepend", "binaries", "spirv", "create", "number",
                         "saveHash">>
  /\ Steps["il"] = <<"spirv", "create", "number", "saveHash">>
  /\ Steps["binary"] = <<"create", "number", "saveHash">>
  /\ Steps["builtin"] = <<"create">>
  /\ Steps["link"] = <<"appendLink", "create", "log", "number", "saveOptions", "dumpOptions",
                       "dumpBinary", "dumpISA", "increment">>
  /\ Steps["build"] = <<"saveOptions", "injectOptions", "appendOptions", "dumpOptions", "build",
                        "log", "dumpBinary", "dumpISA", "autoSPIRV", "increment">>
  /\ Steps["compile"] = <<"saveOptions", "injectOptions", "appendOptions", "dumpOptions",
                          "build", "log", "dumpBinary", "increment">>
  BY DEF Steps

LEMMA StepPositions ==
  ASSUME NEW op \in DOMAIN Steps
  PROVE  /\ DOMAIN Steps[op] \in SUBSET Nat
         /\ \A i, j \in DOMAIN Steps[op] : Steps[op][i] = Steps[op][j] => i = j
  <1>1. CASE op = "source"
    <2>1. DOMAIN Steps[op] = 1 .. 7
      BY <1>1, StepLists
    <2> QED BY <1>1, <2>1, StepLists
  <1>2. CASE op = "il"
    <2>1. DOMAIN Steps[op] = 1 .. 4
      BY <1>2, StepLists
    <2> QED BY <1>2, <2>1, StepLists
  <1>3. CASE op = "binary"
    <2>1. DOMAIN Steps[op] = 1 .. 3
      BY <1>3, StepLists
    <2> QED BY <1>3, <2>1, StepLists
  <1>4. CASE op = "builtin"
    <2>1. DOMAIN Steps[op] = 1 .. 1
      BY <1>4, StepLists
    <2> QED BY <1>4, <2>1, StepLists
  <1>5. CASE op = "link"
    <2>1. DOMAIN Steps[op] = 1 .. 9
      BY <1>5, StepLists
    <2> QED BY <1>5, <2>1, StepLists
  <1>6. CASE op = "build"
    <2>1. DOMAIN Steps[op] = 1 .. 10
      BY <1>6, StepLists
    <2> QED BY <1>6, <2>1, StepLists
  <1>7. CASE op = "compile"
    <2>1. DOMAIN Steps[op] = 1 .. 8
      BY <1>7, StepLists
    <2> QED BY <1>7, <2>1, StepLists
  <1> QED BY <1>1, <1>2, <1>3, <1>4, <1>5, <1>6, <1>7, StepLists

-----------------------------------------------------------------------------
(* A thread that makes a step has one step less to come, and no other thread  *)
(* moves.                                                                     *)

Moves(t, step, c) ==
    /\ call' \in [Threads -> Calls]
    /\ \A u \in Threads \ {t} : call'[u] = call[u] /\ ToCome(u)' = ToCome(u)
    /\ step \in ToCome(t) /\ ToCome(t)' = ToCome(t) \ {step}
    /\ call[t].op \in DOMAIN Steps /\ c.op = call[t].op
    /\ \/ ToCome(t)' = {} /\ call'[t] = NoCall
       \/ /\ ToCome(t)' # {}
          /\ call'[t].op = c.op /\ call'[t].id = c.id /\ call'[t].program = c.program
          /\ call'[t].hash = c.hash /\ call'[t].content = c.content
          /\ call'[t].injected = c.injected /\ call'[t].made = c.made
          /\ call'[t].refused = c.refused /\ call'[t].options = c.options
          /\ call'[t].new = c.new

LEMMA GoesMoves ==
  ASSUME Types, Suffixes, NEW t \in Threads, NEW step, At(t, step),
         NEW c \in Calls, c.todo = call[t].todo, c.op = call[t].op, Goes(t, c),
         run' = run, config' = config
  PROVE  Moves(t, step, c) /\ Suffixes'
  <1> DEFINE rest == {j \in c.todo : \E i \in c.todo : i < j}
             op == call[t].op
             next == [c EXCEPT !.todo = rest]
  <1>1. call[t] \in Calls
    BY DEF Types
  <1>2. PICK i \in call[t].todo : Steps[op][i] = step /\ \A j \in call[t].todo : i <= j
    BY DEF At
  <1>3. op # NULL /\ op \in DOMAIN Steps
    BY <1>1, <1>2 DEF Suffixes, Suffix, Calls
  <1>4. /\ call[t].todo \subseteq Asked(op)
        /\ \A k \in call[t].todo : \A j \in Asked(op) : k <= j => j \in call[t].todo
    BY <1>3 DEF Suffixes, Suffix
  <1>5. Asked(op) \subseteq DOMAIN Steps[op] /\ DOMAIN Steps[op] \subseteq Nat
    BY <1>3, StepPositions DEF Asked
  <1>6. rest = call[t].todo \ {i}
    BY <1>2, <1>4, <1>5
  <1>7. call' = [call EXCEPT ![t] = IF rest = {} THEN NoCall ELSE next]
    BY DEF Goes
  <1>8. NoCall \in Calls
    BY DEF NoCall, Calls, Hashes
  <1>9. next \in Calls
    BY <1>1, <1>6 DEF Calls
  <1>10. call' \in [Threads -> Calls]
    BY <1>7, <1>8, <1>9 DEF Types
  <1>11. \A u \in Threads \ {t} : call'[u] = call[u] /\ ToCome(u)' = ToCome(u)
    BY <1>7 DEF Types, ToCome
  <1>12. call'[t] = IF rest = {} THEN NoCall ELSE next
    BY <1>7 DEF Types
  <1>13. call'[t].todo = rest
    BY <1>12 DEF NoCall, Calls
  <1>14. step \in ToCome(t)
    BY <1>2 DEF ToCome
  <1>15. rest # {} => call'[t].op = op
    BY <1>12 DEF Calls
  <1>16. ToCome(t)' = ToCome(t) \ {step}
    <2>1. ToCome(t)' = {Steps[op][j] : j \in rest}
      BY <1>13, <1>15 DEF ToCome
    <2>2. \A j \in call[t].todo : Steps[op][j] = step => j = i
      BY <1>2, <1>3, <1>4, <1>5, StepPositions
    <2> QED BY <1>2, <1>6, <2>1, <2>2 DEF ToCome
  <1>17. \/ ToCome(t)' = {} /\ call'[t] = NoCall
         \/ /\ ToCome(t)' # {}
            /\ call'[t].op = c.op /\ call'[t].id = c.id /\ call'[t].program = c.program
            /\ call'[t].hash = c.hash /\ call'[t].content = c.content
            /\ call'[t].injected = c.injected /\ call'[t].made = c.made
            /\ call'[t].refused = c.refused /\ call'[t].options = c.options
            /\ call'[t].new = c.new
    <2>1. CASE rest = {}
      BY <1>12, <1>13, <2>1 DEF ToCome
    <2>2. CASE rest # {}
      <3>1. ToCome(t)' # {}
        BY <1>13, <2>2 DEF ToCome
      <3> HIDE DEF rest
      <3> QED BY <1>12, <2>2, <3>1 DEF Calls
    <2> QED BY <2>1, <2>2
  <1>18. Moves(t, step, c)
    BY <1>3, <1>10, <1>11, <1>14, <1>16, <1>17 DEF Moves
  <1>19. Suffixes'
    <2>1. \A o : Asked(o)' = Asked(o)
      BY DEF Asked, AnyOf
    <2>2. ASSUME NEW u \in Threads \ {t}
          PROVE  Suffix(u)'
      <3>1. call'[u] = call[u] /\ Asked(call[u].op)' = Asked(call[u].op)
        BY <1>11, <2>1
      <3> QED BY <3>1 DEF Suffixes, Suffix
    <2>3. CASE rest = {}
      <3>1. Suffix(t)'
        BY <1>12, <2>3 DEF Suffix, NoCall
      <3> QED BY <2>2, <3>1 DEF Suffixes
    <2>4. CASE rest # {}
      <3>1. call'[t].op = op /\ call'[t].todo = rest
        BY <1>13, <1>15, <2>4
      <3>2. rest \subseteq Asked(op)
        BY <1>4, <1>6
      <3>3. \A k \in rest : \A j \in Asked(op) : k <= j => j \in rest
        BY <1>2, <1>4, <1>5, <1>6
      <3>4. Asked(call[t].op)' = Asked(op)
        BY <2>1, <3>1
      <3> HIDE DEF rest, op
      <3>5. Suffix(t)'
        BY <1>3, <2>4, <3>1, <3>2, <3>3, <3>4 DEF Suffix
      <3> QED BY <2>2, <3>5 DEF Suffixes
    <2> QED BY <2>3, <2>4
  <1> QED BY <1>18, <1>19

LEMMA AtPosition ==
  ASSUME Types, NEW t \in Threads, Suffix(t), NEW step, At(t, step)
  PROVE  /\ call[t].op \in DOMAIN Steps
         /\ \A s \in ToCome(t) : \E j \in Asked(call[t].op) : Steps[call[t].op][j] = s
         /\ step \in DOMAIN StepControls => AnyOf(StepControls[step])
         /\ \E i \in Asked(call[t].op) :
               /\ Steps[call[t].op][i] = step
               /\ \A j \in DOMAIN Steps[call[t].op] : j < i => Steps[call[t].op][j] \notin ToCome(t)
               /\ \A j \in Asked(call[t].op) : i <= j => Steps[call[t].op][j] \in ToCome(t)
  <1> DEFINE op == call[t].op
  <1>1. PICK i \in call[t].todo : Steps[op][i] = step /\ \A j \in call[t].todo : i <= j
    BY DEF At
  <1>2. op # NULL /\ op \in DOMAIN Steps
    BY <1>1 DEF Suffix, Types, Calls
  <1>3. /\ call[t].todo \subseteq Asked(op)
        /\ \A k \in call[t].todo : \A j \in Asked(op) : k <= j => j \in call[t].todo
    BY <1>2 DEF Suffix
  <1>4. Asked(op) \subseteq DOMAIN Steps[op] /\ DOMAIN Steps[op] \subseteq Nat
    BY <1>2, StepPositions DEF Asked
  <1>5. ASSUME NEW j \in DOMAIN Steps[op], j < i, Steps[op][j] \in ToCome(t)
        PROVE  FALSE
    <2>1. PICK k \in call[t].todo : Steps[op][k] = Steps[op][j]
      BY <1>5 DEF ToCome
    <2>2. k = j
      BY <1>2, <1>3, <1>4, <1>5, <2>1, StepPositions
    <2> QED BY <1>1, <1>3, <1>4, <1>5, <2>2
  <1>6. \A j \in Asked(op) : i <= j => Steps[op][j] \in ToCome(t)
    BY <1>1, <1>3 DEF ToCome
  <1>7. \A s \in ToCome(t) : \E j \in Asked(op) : Steps[op][j] = s
    BY <1>3 DEF ToCome
  <1>8. step \in DOMAIN StepControls => AnyOf(StepControls[step])
    BY <1>1, <1>3 DEF Asked
  <1> HIDE DEF op
  <1>9. i \in Asked(op)
    BY <1>1, <1>3
  <1> QED BY <1>1, <1>2, <1>5, <1>6, <1>7, <1>8, <1>9 DEF op

\* Which controls ask for the steps that the invariant speaks of.
LEMMA StepsAsked ==
  /\ "create" \notin DOMAIN StepControls /\ "number" \notin DOMAIN StepControls
  /\ "build" \notin DOMAIN StepControls
  /\ {"inject", "prepend", "binaries", "spirv", "saveHash", "saveOptions", "injectOptions",
      "appendOptions", "appendLink", "dumpOptions", "log", "dumpBinary", "dumpISA", "autoSPIRV",
      "increment"} = DOMAIN StepControls
  BY DEF StepControls

Creates == {"source", "il", "binary", "link"}
DumpSteps == {"dumpOptions", "log", "dumpBinary", "dumpISA", "autoSPIRV"}

\* The order of the steps, as far as the invariant depends on it.
Order(t, step) ==
    LET op == call[t].op IN
    /\ step = "inject" => op = "source"
    /\ step = "prepend" => op = "source"
    /\ step = "binaries" => op = "source"
    /\ step = "spirv" => op \in {"source", "il"}
    /\ step \in {"inject", "prepend", "binaries", "spirv"} => "create" \in ToCome(t)
    /\ step = "create" => /\ op \notin Builds
                          /\ op \in Creates => "number" \in ToCome(t)
                          /\ op \in Texts => "increment" \notin ToCome(t)
                          /\ op \in Texts /\ AnyOf(SavesHash) => "saveHash" \in ToCome(t)
    /\ step = "number" => /\ op \in Creates
                          /\ {"inject", "binaries", "create"} \cap ToCome(t) = {}
    /\ step = "saveHash" => op \in Texts /\ {"number", "create"} \cap ToCome(t) = {}
    /\ step = "saveOptions" => op \in Builds \cup {"link"} /\ "number" \notin ToCome(t)
    /\ step = "injectOptions" => op \in Builds /\ "saveOptions" \notin ToCome(t)
    /\ step = "appendOptions" => op \in Builds /\ "injectOptions" \notin ToCome(t)
    /\ step = "appendLink" => op = "link"
    /\ step = "dumpOptions" => op \in Builds \cup {"link"} /\ "saveOptions" \notin ToCome(t)
    /\ step = "dumpOptions" /\ op \in Builds => "appendOptions" \notin ToCome(t)
    /\ step = "build" => /\ op \in Builds
                         /\ {"saveOptions", "injectOptions"} \cap ToCome(t) = {}
    /\ step \in DumpSteps \cup {"increment"} =>
          /\ op \in Builds \cup {"link"}
          /\ step # "log" => "number" \notin ToCome(t)
          /\ op \in Builds => "number" \notin ToCome(t)
    /\ step = "autoSPIRV" => op = "build"
    /\ step = "increment" => ToCome(t) = {"increment"} /\ "build" \notin ToCome(t)
    /\ step \in DumpSteps \cup {"build"} /\ AnyOf(StepControls.increment)
          => "increment" \in ToCome(t)
    /\ step \in {"build", "log", "dumpBinary", "dumpISA", "autoSPIRV"}
          => "injectOptions" \notin ToCome(t)

LEMMA StepsInOrder ==
  ASSUME Types, NEW t \in Threads, Suffix(t), NEW step, At(t, step)
  PROVE  Order(t, step)
  <1> DEFINE op == call[t].op
  <1>1. op \in DOMAIN Steps /\ \A s \in ToCome(t) : \E j \in Asked(op) : Steps[op][j] = s
    BY AtPosition
  <1>2. PICK i \in Asked(op) :
           /\ Steps[op][i] = step
           /\ \A j \in DOMAIN Steps[op] : j < i => Steps[op][j] \notin ToCome(t)
           /\ \A j \in Asked(op) : i <= j => Steps[op][j] \in ToCome(t)
    BY AtPosition
  <1>3. /\ Asked(op) \subseteq DOMAIN Steps[op]
        /\ \A j \in DOMAIN Steps[op] :
              /\ Steps[op][j] \notin DOMAIN StepControls => j \in Asked(op)
              /\ Steps[op][j] = "increment" /\ AnyOf(StepControls.increment) => j \in Asked(op)
              /\ Steps[op][j] = "saveHash" /\ AnyOf(SavesHash) => j \in Asked(op)
    <2>1. StepControls["saveHash"] = SavesHash
      BY DEF StepControls
    <2>2. StepControls["increment"] = StepControls.increment
      OBVIOUS
    <2> HIDE DEF op
    <2> QED BY <2>1, <2>2 DEF Asked
  <1> HIDE DEF op
  <1>4. CASE op = "source"
    <2>1. /\ DOMAIN Steps[op] = 1 .. 7
          /\ Steps[op][1] = "inject"
          /\ Steps[op][2] = "prepend"
          /\ Steps[op][3] = "binaries"
          /\ Steps[op][4] = "spirv"
          /\ Steps[op][5] = "create"
          /\ Steps[op][6] = "number"
          /\ Steps[op][7] = "saveHash"
      BY <1>4, StepLists
    <2>2. i \in 1 .. 7
      BY <1>2, <1>3, <2>1
    <2>3. CASE i = 1
      BY <1>1, <1>2, <1>3, <1>4, <2>1, <2>3, StepsAsked
         DEF Order, op, Builds, Texts, Creates, DumpSteps
    <2>4. CASE i = 2
      BY <1>1, <1>2, <1>3, <1>4, <2>1, <2>4, StepsAsked
         DEF Order, op, Builds, Texts, Creates, DumpSteps
    <2>5. CASE i = 3
      BY <1>1, <1>2, <1>3, <1>4, <2>1, <2>5, StepsAsked
         DEF Order, op, Builds, Texts, Creates, DumpSteps
    <2>6. CASE i = 4
      BY <1>1, <1>2, <1>3, <1>4, <2>1, <2>6, StepsAsked
         DEF Order, op, Builds, Texts, Creates, DumpSteps
    <2>7. CASE i = 5
      BY <1>1, <1>2, <1>3, <1>4, <2>1, <2>7, StepsAsked
         DEF Order, op, Builds, Texts, Creates, DumpSteps
    <2>8. CASE i = 6
      BY <1>1, <1>2, <1>3, <1>4, <2>1, <2>8, StepsAsked
         DEF Order, op, Builds, Texts, Creates, DumpSteps
    <2>9. CASE i = 7
      BY <1>1, <1>2, <1>3, <1>4, <2>1, <2>9, StepsAsked
         DEF Order, op, Builds, Texts, Creates, DumpSteps
    <2> QED BY <2>2, <2>3, <2>4, <2>5, <2>6, <2>7, <2>8, <2>9
  <1>5. CASE op = "il"
    <2>1. /\ DOMAIN Steps[op] = 1 .. 4
          /\ Steps[op][1] = "spirv"
          /\ Steps[op][2] = "create"
          /\ Steps[op][3] = "number"
          /\ Steps[op][4] = "saveHash"
      BY <1>5, StepLists
    <2>2. i \in 1 .. 4
      BY <1>2, <1>3, <2>1
    <2>3. CASE i = 1
      BY <1>1, <1>2, <1>3, <1>5, <2>1, <2>3, StepsAsked
         DEF Order, op, Builds, Texts, Creates, DumpSteps
    <2>4. CASE i = 2
      BY <1>1, <1>2, <1>3, <1>5, <2>1, <2>4, StepsAsked
         DEF Order, op, Builds, Texts, Creates, DumpSteps
    <2>5. CASE i = 3
      BY <1>1, <1>2, <1>3, <1>5, <2>1, <2>5, StepsAsked
         DEF Order, op, Builds, Texts, Creates, DumpSteps
    <2>6. CASE i = 4
      BY <1>1, <1>2, <1>3, <1>5, <2>1, <2>6, StepsAsked
         DEF Order, op, Builds, Texts, Creates, DumpSteps
    <2> QED BY <2>2, <2>3, <2>4, <2>5, <2>6
  <1>6. CASE op = "binary"
    <2>1. /\ DOMAIN Steps[op] = 1 .. 3
          /\ Steps[op][1] = "create"
          /\ Steps[op][2] = "number"
          /\ Steps[op][3] = "saveHash"
      BY <1>6, StepLists
    <2>2. i \in 1 .. 3
      BY <1>2, <1>3, <2>1
    <2>3. CASE i = 1
      BY <1>1, <1>2, <1>3, <1>6, <2>1, <2>3, StepsAsked
         DEF Order, op, Builds, Texts, Creates, DumpSteps
    <2>4. CASE i = 2
      BY <1>1, <1>2, <1>3, <1>6, <2>1, <2>4, StepsAsked
         DEF Order, op, Builds, Texts, Creates, DumpSteps
    <2>5. CASE i = 3
      BY <1>1, <1>2, <1>3, <1>6, <2>1, <2>5, StepsAsked
         DEF Order, op, Builds, Texts, Creates, DumpSteps
    <2> QED BY <2>2, <2>3, <2>4, <2>5
  <1>7. CASE op = "builtin"
    <2>1. /\ DOMAIN Steps[op] = 1 .. 1
          /\ Steps[op][1] = "create"
      BY <1>7, StepLists
    <2>2. i \in 1 .. 1
      BY <1>2, <1>3, <2>1
    <2>3. CASE i = 1
      BY <1>1, <1>2, <1>3, <1>7, <2>1, <2>3, StepsAsked
         DEF Order, op, Builds, Texts, Creates, DumpSteps
    <2> QED BY <2>2, <2>3
  <1>8. CASE op = "link"
    <2>1. /\ DOMAIN Steps[op] = 1 .. 9
          /\ Steps[op][1] = "appendLink"
          /\ Steps[op][2] = "create"
          /\ Steps[op][3] = "log"
          /\ Steps[op][4] = "number"
          /\ Steps[op][5] = "saveOptions"
          /\ Steps[op][6] = "dumpOptions"
          /\ Steps[op][7] = "dumpBinary"
          /\ Steps[op][8] = "dumpISA"
          /\ Steps[op][9] = "increment"
      BY <1>8, StepLists
    <2>2. i \in 1 .. 9
      BY <1>2, <1>3, <2>1
    <2>3. CASE i = 1
      BY <1>1, <1>2, <1>3, <1>8, <2>1, <2>3, StepsAsked
         DEF Order, op, Builds, Texts, Creates, DumpSteps
    <2>4. CASE i = 2
      BY <1>1, <1>2, <1>3, <1>8, <2>1, <2>4, StepsAsked
         DEF Order, op, Builds, Texts, Creates, DumpSteps
    <2>5. CASE i = 3
      BY <1>1, <1>2, <1>3, <1>8, <2>1, <2>5, StepsAsked
         DEF Order, op, Builds, Texts, Creates, DumpSteps
    <2>6. CASE i = 4
      BY <1>1, <1>2, <1>3, <1>8, <2>1, <2>6, StepsAsked
         DEF Order, op, Builds, Texts, Creates, DumpSteps
    <2>7. CASE i = 5
      BY <1>1, <1>2, <1>3, <1>8, <2>1, <2>7, StepsAsked
         DEF Order, op, Builds, Texts, Creates, DumpSteps
    <2>8. CASE i = 6
      BY <1>1, <1>2, <1>3, <1>8, <2>1, <2>8, StepsAsked
         DEF Order, op, Builds, Texts, Creates, DumpSteps
    <2>9. CASE i = 7
      BY <1>1, <1>2, <1>3, <1>8, <2>1, <2>9, StepsAsked
         DEF Order, op, Builds, Texts, Creates, DumpSteps
    <2>10. CASE i = 8
      BY <1>1, <1>2, <1>3, <1>8, <2>1, <2>10, StepsAsked
         DEF Order, op, Builds, Texts, Creates, DumpSteps
    <2>11. CASE i = 9
      BY <1>1, <1>2, <1>3, <1>8, <2>1, <2>11, StepsAsked
         DEF Order, op, Builds, Texts, Creates, DumpSteps
    <2> QED BY <2>2, <2>3, <2>4, <2>5, <2>6, <2>7, <2>8, <2>9, <2>10, <2>11
  <1>9. CASE op = "build"
    <2>1. /\ DOMAIN Steps[op] = 1 .. 10
          /\ Steps[op][1] = "saveOptions"
          /\ Steps[op][2] = "injectOptions"
          /\ Steps[op][3] = "appendOptions"
          /\ Steps[op][4] = "dumpOptions"
          /\ Steps[op][5] = "build"
          /\ Steps[op][6] = "log"
          /\ Steps[op][7] = "dumpBinary"
          /\ Steps[op][8] = "dumpISA"
          /\ Steps[op][9] = "autoSPIRV"
          /\ Steps[op][10] = "increment"
      BY <1>9, StepLists
    <2>2. i \in 1 .. 10
      BY <1>2, <1>3, <2>1
    <2>3. CASE i = 1
      BY <1>1, <1>2, <1>3, <1>9, <2>1, <2>3, StepsAsked
         DEF Order, op, Builds, Texts, Creates, DumpSteps
    <2>4. CASE i = 2
      BY <1>1, <1>2, <1>3, <1>9, <2>1, <2>4, StepsAsked
         DEF Order, op, Builds, Texts, Creates, DumpSteps
    <2>5. CASE i = 3
      BY <1>1, <1>2, <1>3, <1>9, <2>1, <2>5, StepsAsked
         DEF Order, op, Builds, Texts, Creates, DumpSteps
    <2>6. CASE i = 4
      BY <1>1, <1>2, <1>3, <1>9, <2>1, <2>6, StepsAsked
         DEF Order, op, Builds, Texts, Creates, DumpSteps
    <2>7. CASE i = 5
      BY <1>1, <1>2, <1>3, <1>9, <2>1, <2>7, StepsAsked
         DEF Order, op, Builds, Texts, Creates, DumpSteps
    <2>8. CASE i = 6
      BY <1>1, <1>2, <1>3, <1>9, <2>1, <2>8, StepsAsked
         DEF Order, op, Builds, Texts, Creates, DumpSteps
    <2>9. CASE i = 7
      BY <1>1, <1>2, <1>3, <1>9, <2>1, <2>9, StepsAsked
         DEF Order, op, Builds, Texts, Creates, DumpSteps
    <2>10. CASE i = 8
      BY <1>1, <1>2, <1>3, <1>9, <2>1, <2>10, StepsAsked
         DEF Order, op, Builds, Texts, Creates, DumpSteps
    <2>11. CASE i = 9
      BY <1>1, <1>2, <1>3, <1>9, <2>1, <2>11, StepsAsked
         DEF Order, op, Builds, Texts, Creates, DumpSteps
    <2>12. CASE i = 10
      BY <1>1, <1>2, <1>3, <1>9, <2>1, <2>12, StepsAsked
         DEF Order, op, Builds, Texts, Creates, DumpSteps
    <2> QED BY <2>2, <2>3, <2>4, <2>5, <2>6, <2>7, <2>8, <2>9, <2>10, <2>11, <2>12
  <1>10. CASE op = "compile"
    <2>1. /\ DOMAIN Steps[op] = 1 .. 8
          /\ Steps[op][1] = "saveOptions"
          /\ Steps[op][2] = "injectOptions"
          /\ Steps[op][3] = "appendOptions"
          /\ Steps[op][4] = "dumpOptions"
          /\ Steps[op][5] = "build"
          /\ Steps[op][6] = "log"
          /\ Steps[op][7] = "dumpBinary"
          /\ Steps[op][8] = "increment"
      BY <1>10, StepLists
    <2>2. i \in 1 .. 8
      BY <1>2, <1>3, <2>1
    <2>3. CASE i = 1
      BY <1>1, <1>2, <1>3, <1>10, <2>1, <2>3, StepsAsked
         DEF Order, op, Builds, Texts, Creates, DumpSteps
    <2>4. CASE i = 2
      BY <1>1, <1>2, <1>3, <1>10, <2>1, <2>4, StepsAsked
         DEF Order, op, Builds, Texts, Creates, DumpSteps
    <2>5. CASE i = 3
      BY <1>1, <1>2, <1>3, <1>10, <2>1, <2>5, StepsAsked
         DEF Order, op, Builds, Texts, Creates, DumpSteps
    <2>6. CASE i = 4
      BY <1>1, <1>2, <1>3, <1>10, <2>1, <2>6, StepsAsked
         DEF Order, op, Builds, Texts, Creates, DumpSteps
    <2>7. CASE i = 5
      BY <1>1, <1>2, <1>3, <1>10, <2>1, <2>7, StepsAsked
         DEF Order, op, Builds, Texts, Creates, DumpSteps
    <2>8. CASE i = 6
      BY <1>1, <1>2, <1>3, <1>10, <2>1, <2>8, StepsAsked
         DEF Order, op, Builds, Texts, Creates, DumpSteps
    <2>9. CASE i = 7
      BY <1>1, <1>2, <1>3, <1>10, <2>1, <2>9, StepsAsked
         DEF Order, op, Builds, Texts, Creates, DumpSteps
    <2>10. CASE i = 8
      BY <1>1, <1>2, <1>3, <1>10, <2>1, <2>10, StepsAsked
         DEF Order, op, Builds, Texts, Creates, DumpSteps
    <2> QED BY <2>2, <2>3, <2>4, <2>5, <2>6, <2>7, <2>8, <2>9, <2>10
  <1> QED BY <1>1, StepLists, <1>4, <1>5, <1>6, <1>7, <1>8, <1>9, <1>10

-----------------------------------------------------------------------------
(* Names are looked up in their order. *)

LEMMA FirstPosition ==
  ASSUME NEW S \in SUBSET (1 .. 4), S # {}
  PROVE  Min(S) \in S /\ \A y \in S : Min(S) <= y
  <1>1. \E x \in S : \A y \in S : x =< y
    <2>1. CASE 1 \in S
      BY <2>1
    <2>2. CASE 1 \notin S /\ 2 \in S
      BY <2>2
    <2>3. CASE 1 \notin S /\ 2 \notin S /\ 3 \in S
      BY <2>3
    <2>4. CASE 1 \notin S /\ 2 \notin S /\ 3 \notin S
      <3>1. \A x \in S : x = 4
        BY <2>4
      <3>2. \E x : x \in S
        OBVIOUS
      <3> QED BY <3>1, <3>2
    <2> QED BY <2>1, <2>2, <2>3, <2>4
  <1> QED BY <1>1 DEF Min

LEMMA LookupFinds ==
  ASSUME NEW names, DOMAIN names \subseteq 1 .. 4
  PROVE  /\ \A f \in Lookup(names) : f \in inject /\ \E i \in DOMAIN names : f.name = names[i]
         /\ \A i \in DOMAIN names : InInject(names[i]) =>
               /\ Lookup(names) # {}
               /\ \A f \in Lookup(names) : \E j \in DOMAIN names : j <= i /\ f.name = names[j]
  <1> DEFINE there == {i \in DOMAIN names : \E f \in inject : f.name = names[i]}
  <1>1. Lookup(names) = {f \in inject : there # {} /\ f.name = names[Min(there)]}
    BY DEF Lookup
  <1>2. there # {} => Min(there) \in there /\ \A i \in there : Min(there) <= i
    BY FirstPosition
  <1>3. \A f \in Lookup(names) : f \in inject /\ \E i \in DOMAIN names : f.name = names[i]
    BY <1>1, <1>2
  <1>4. ASSUME NEW i \in DOMAIN names, InInject(names[i])
        PROVE  /\ Lookup(names) # {}
               /\ \A f \in Lookup(names) : \E j \in DOMAIN names : j <= i /\ f.name = names[j]
    <2>1. i \in there
      BY <1>4 DEF InInject
    <2>2. Min(there) \in there /\ Min(there) <= i
      BY <1>2, <2>1
    <2>3. \E f \in inject : f.name = names[Min(there)]
      BY <2>2
    <2> HIDE DEF there
    <2>4. Min(there) \in DOMAIN names
      BY <2>2 DEF there
    <2> QED BY <1>1, <2>1, <2>2, <2>3, <2>4
  <1> QED BY <1>3, <1>4

\* The names under which sources, binaries and SPIR-V are looked up.
LEMMA TwoNamesLookedUp ==
  ASSUME NEW kind, NEW h
  PROVE  /\ \A f \in Lookup(TwoNames(kind, h)) :
               f \in inject /\ f.name.kind = kind /\ f.name.hash = h
         /\ InInject(Name("inject", kind, NULL, h)) => Lookup(TwoNames(kind, h)) # {}
  <1> DEFINE names == TwoNames(kind, h)
  <1>1. /\ DOMAIN names = 1 .. 2
        /\ names[1] = Name("inject", kind, number, h)
        /\ names[2] = Name("inject", kind, NULL, h)
    BY DEF TwoNames
  <1>2. \A n : Name("inject", kind, n, h).kind = kind /\ Name("inject", kind, n, h).hash = h
    BY DEF Name
  <1> HIDE DEF names
  <1>3. \A f \in Lookup(names) : f \in inject /\ \E i \in DOMAIN names : f.name = names[i]
    BY <1>1, LookupFinds
  <1>4. InInject(names[2]) => Lookup(names) # {}
    BY <1>1, LookupFinds
  <1>5. \A f \in Lookup(names) : f.name.kind = kind /\ f.name.hash = h
    BY <1>1, <1>2, <1>3
  <1> QED BY <1>1, <1>3, <1>4, <1>5 DEF names

-----------------------------------------------------------------------------
(* What the actions do, as far as most of the invariant is concerned. *)

Kept == UNCHANGED <<run, config, inject, creations, builds>>

\* A step that leaves what a call was begun with and the program it works on.
Advances(t, step) ==
    \E c \in Calls : /\ Moves(t, step, c)
                     /\ c.program = call[t].program /\ c.hash = call[t].hash
                     /\ c.options = call[t].options /\ c.id = call[t].id
                     /\ call[t].content # NULL => c.content # NULL
                     /\ call[t].refused => c.refused

\* The call goes on unchanged.
LEMMA UnchangedAdvances ==
  ASSUME Types, Suffixes, NEW t \in Threads, NEW step, At(t, step), Goes(t, call[t]), Kept
  PROVE  Moves(t, step, call[t]) /\ Advances(t, step) /\ Suffixes'
  <1>1. call[t] \in Calls /\ run' = run /\ config' = config
    BY DEF Types, Kept
  <1>2. Moves(t, step, call[t]) /\ Suffixes'
    BY <1>1, GoesMoves
  <1> QED BY <1>1, <1>2 DEF Advances

\* injectProgramSource: the application's source, or one found for its hash.
SourceTaken(t) ==
    \/ /\ Moves(t, "inject", call[t])
       /\ Lookup(TwoNames("source", call[t].hash)) = {}
    \/ \E f \in Lookup(TwoNames("source", call[t].hash)) :
          Moves(t, "inject", [call[t] EXCEPT !.content = f.content, !.injected = TRUE])

LEMMA InjectSourceStep ==
  ASSUME Types, Suffixes, Injected, NEW t \in Threads, injectProgramSource(t)
  PROVE  /\ At(t, "inject") /\ Suffixes' /\ Kept /\ UNCHANGED <<number, info, files, live>>
         /\ Advances(t, "inject")
         /\ SourceTaken(t)
  <1> USE DEF SourceTaken
  <1> DEFINE found == Lookup(TwoNames("source", call[t].hash))
  <1>1. At(t, "inject") /\ Kept /\ UNCHANGED <<number, info, files, live>>
    BY DEF injectProgramSource, Kept
  <1>2. call[t] \in Calls
    BY DEF Types
  <1>3. CASE found = {}
    <2>1. Goes(t, call[t])
      BY <1>3 DEF injectProgramSource
    <2> QED BY <1>1, <1>3, <2>1, UnchangedAdvances
  <1>4. CASE found # {}
    <2>1. PICK f \in found : Goes(t, [call[t] EXCEPT !.content = f.content, !.injected = TRUE])
      BY <1>4 DEF injectProgramSource
    <2>2. f \in inject /\ f.name.kind = "source"
      BY <2>1, TwoNamesLookedUp
    <2>3. f.content \in Contents /\ f.content # NULL
      BY <2>2, ProgramNullAssumption DEF Injected, Texts
    <2> DEFINE c == [call[t] EXCEPT !.content = f.content, !.injected = TRUE]
    <2>4. /\ c \in Calls /\ c.todo = call[t].todo /\ c.op = call[t].op
          /\ c.program = call[t].program /\ c.hash = call[t].hash /\ c.options = call[t].options
          /\ c.id = call[t].id /\ c.content # NULL /\ c.refused = call[t].refused
      BY <1>2, <2>3 DEF Calls
    <2> HIDE DEF c, found
    <2>5. Moves(t, "inject", c) /\ Suffixes'
      BY <1>1, <2>1, <2>4, GoesMoves DEF c, Kept
    <2>6. Advances(t, "inject")
      BY <2>4, <2>5 DEF Advances
    <2> QED BY <1>1, <2>1, <2>5, <2>6 DEF c, found
  <1> QED BY <1>3, <1>4

\* prependProgramSource: the source, with something before it or not.
Prepends(t) ==
    \/ Moves(t, "prepend", call[t])
    \/ Moves(t, "prepend", [call[t] EXCEPT !.content.prepended = TRUE, !.injected = TRUE])

LEMMA PrependStep ==
  ASSUME Types, Suffixes, NEW t \in Threads, call[t].op = "source" => call[t].content \in Plain,
         prependProgramSource(t)
  PROVE  /\ At(t, "prepend") /\ Suffixes' /\ Kept /\ UNCHANGED <<number, info, files, live>>
         /\ Advances(t, "prepend")
         /\ Prepends(t)
  <1> USE DEF Prepends
  <1>1. At(t, "prepend") /\ Kept /\ UNCHANGED <<number, info, files, live>>
    BY DEF prependProgramSource, Kept
  <1>2. call[t] \in Calls
    BY DEF Types
  <1>3. CASE Goes(t, call[t])
    BY <1>1, <1>3, UnchangedAdvances
  <1> DEFINE c == [call[t] EXCEPT !.content.prepended = TRUE, !.injected = TRUE]
  <1>4. CASE Goes(t, c)
    <2>1. call[t].content \in Plain
      BY <1>1, StepsInOrder DEF Suffixes, Order
    <2>2. c.content \in Plain
      BY <1>2, <2>1 DEF Plain, Calls
    <2>3. c.content \in Contents /\ c.content # NULL
      BY <2>2, ProgramNullAssumption DEF Contents
    <2>4. /\ c \in Calls /\ c.todo = call[t].todo /\ c.op = call[t].op
          /\ c.program = call[t].program /\ c.hash = call[t].hash /\ c.options = call[t].options
          /\ c.id = call[t].id /\ c.refused = call[t].refused
      BY <1>2, <2>3 DEF Calls
    <2> HIDE DEF c
    <2>5. Moves(t, "prepend", c) /\ Suffixes'
      BY <1>1, <1>4, <2>4, GoesMoves DEF Kept
    <2>6. Advances(t, "prepend")
      BY <2>3, <2>4, <2>5 DEF Advances
    <2> QED BY <1>1, <2>5, <2>6 DEF c
  <1>5. Goes(t, call[t]) \/ Goes(t, c)
    BY DEF prependProgramSource
  <1> QED BY <1>3, <1>4, <1>5

\* A binary or SPIR-V to create the program from instead, or nothing.
ProgramTaken(t, step, kind) ==
    \/ /\ Moves(t, step, call[t])
       /\ call[t].made # NULL \/ Lookup(TwoNames(kind, call[t].hash)) = {}
    \/ Moves(t, step, [call[t] EXCEPT !.refused = TRUE])
    \/ \E f \in Lookup(TwoNames(kind, call[t].hash)) :
          f.content # NULL /\ Moves(t, step, [call[t] EXCEPT !.made = f.content])

LEMMA MadeStep ==
  ASSUME Types, Suffixes, Injected, NEW t \in Threads, NEW step, NEW kind \in Texts,
         injectProgram(t, step, kind)
  PROVE  /\ At(t, step) /\ Suffixes' /\ Kept /\ UNCHANGED <<number, info, files, live>>
         /\ Advances(t, step)
         /\ ProgramTaken(t, step, kind)
  <1> USE DEF ProgramTaken
  <1> DEFINE names == Lookup(TwoNames(kind, call[t].hash))
             found == IF call[t].made # NULL THEN {} ELSE names
             refused == [call[t] EXCEPT !.refused = TRUE]
  <1>1. At(t, step) /\ Kept /\ UNCHANGED <<number, info, files, live>>
    BY DEF injectProgram, Kept
  <1>2. call[t] \in Calls
    BY DEF Types
  <1>3. CASE found = {}
    <2>1. Goes(t, call[t])
      BY <1>3 DEF injectProgram
    <2> QED BY <1>1, <1>3, <2>1, UnchangedAdvances
  <1>4. ASSUME found # {}, Goes(t, refused)
        PROVE  Moves(t, step, refused) /\ Advances(t, step) /\ Suffixes'
    <2>1. /\ refused \in Calls /\ refused.todo = call[t].todo /\ refused.op = call[t].op
          /\ refused.program = call[t].program /\ refused.hash = call[t].hash
          /\ refused.options = call[t].options /\ refused.content = call[t].content
          /\ refused.id = call[t].id /\ refused.refused
      BY <1>2 DEF Calls
    <2> HIDE DEF refused
    <2>2. Moves(t, step, refused) /\ Suffixes'
      BY <1>1, <1>4, <2>1, GoesMoves DEF Kept
    <2> QED BY <2>1, <2>2 DEF Advances
  <1>5. ASSUME found # {}, NEW f \in found, Goes(t, [call[t] EXCEPT !.made = f.content])
        PROVE  /\ f \in names /\ f.content # NULL
               /\ Moves(t, step, [call[t] EXCEPT !.made = f.content])
               /\ Advances(t, step) /\ Suffixes'
    <2>1. f \in names
      BY <1>5
    <2>2. f \in inject /\ f.name.kind = kind
      BY <2>1, TwoNamesLookedUp
    <2>3. f.content \in Contents /\ f.content # NULL
      BY <2>2, ProgramNullAssumption DEF Injected
    <2> DEFINE c == [call[t] EXCEPT !.made = f.content]
    <2>4. /\ c \in Calls /\ c.todo = call[t].todo /\ c.op = call[t].op
          /\ c.program = call[t].program /\ c.hash = call[t].hash /\ c.options = call[t].options
          /\ c.id = call[t].id /\ c.content = call[t].content /\ c.refused = call[t].refused
      BY <1>2, <2>3 DEF Calls
    <2>5. Goes(t, c)
      BY <1>5
    <2> HIDE DEF c, found, names
    <2>6. Moves(t, step, c) /\ Suffixes'
      BY <1>1, <2>4, <2>5, GoesMoves DEF Kept
    <2>7. Advances(t, step)
      BY <2>4, <2>6 DEF Advances
    <2> QED BY <2>1, <2>3, <2>6, <2>7 DEF c
  <1>6. CASE found # {}
    <2>1. \E f \in found : Goes(t, [call[t] EXCEPT !.made = f.content]) \/ Goes(t, refused)
      BY <1>6 DEF injectProgram
    <2> HIDE DEF found, refused, names
    <2>2. PICK f \in found : Goes(t, [call[t] EXCEPT !.made = f.content]) \/ Goes(t, refused)
      BY <2>1
    <2>3. CASE Goes(t, refused)
      BY <1>1, <1>4, <1>6, <2>3 DEF refused
    <2>4. CASE Goes(t, [call[t] EXCEPT !.made = f.content])
      BY <1>1, <1>5, <1>6, <2>4 DEF names
    <2> QED BY <2>2, <2>3, <2>4
  <1> QED BY <1>3, <1>6

LEMMA InjectSpirvStep ==
  ASSUME Types, Suffixes, Injected, NEW t \in Threads, injectProgramSPIRV(t)
  PROVE  /\ At(t, "spirv") /\ Suffixes' /\ Kept /\ UNCHANGED <<number, info, files, live>>
         /\ Advances(t, "spirv") /\ call[t].op = "il"
  <1> DEFINE found == Lookup(TwoNames("il", call[t].hash))
  <1>1. At(t, "spirv") /\ Kept /\ UNCHANGED <<number, info, files, live>> /\ call[t].op = "il"
    BY DEF injectProgramSPIRV, Kept
  <1>2. call[t] \in Calls
    BY DEF Types
  <1>3. CASE found = {}
    <2>1. Goes(t, call[t])
      BY <1>3 DEF injectProgramSPIRV
    <2> QED BY <1>1, <2>1, UnchangedAdvances
  <1>4. CASE found # {}
    <2>1. PICK f \in found : Goes(t, [call[t] EXCEPT !.content = f.content, !.injected = TRUE])
      BY <1>4 DEF injectProgramSPIRV
    <2>2. f \in inject /\ f.name.kind = "il"
      BY <2>1, TwoNamesLookedUp
    <2>3. f.content \in Contents /\ f.content # NULL
      BY <2>2, ProgramNullAssumption DEF Injected, Texts
    <2> DEFINE c == [call[t] EXCEPT !.content = f.content, !.injected = TRUE]
    <2>4. /\ c \in Calls /\ c.todo = call[t].todo /\ c.op = call[t].op
          /\ c.program = call[t].program /\ c.hash = call[t].hash /\ c.options = call[t].options
          /\ c.id = call[t].id /\ c.content # NULL /\ c.refused = call[t].refused
      BY <1>2, <2>3 DEF Calls
    <2> HIDE DEF c, found
    <2>5. Moves(t, "spirv", c) /\ Suffixes'
      BY <1>1, <2>1, <2>4, GoesMoves DEF c, Kept
    <2>6. Advances(t, "spirv")
      BY <2>4, <2>5 DEF Advances
    <2> QED BY <1>1, <2>5, <2>6
  <1> QED BY <1>3, <1>4

\* The options that a build finds, with the hash of the given options if a file
\* without the program number is there.
LEMMA OptionsFound ==
  ASSUME Injected, NEW kind \in OptionKinds, NEW i,
         NEW names, names = <<BuildName("inject", kind, i.number, i),
                              BuildName("inject", kind, NULL, i),
                              Name("inject", kind, NULL, i.hash),
                              Name("beside", kind, NULL, NULL)>>
  PROVE  /\ \A f \in Lookup(names) :
               f \in inject /\ f.name.kind = kind /\ f.content \in BuildOptions /\ f.content # NULL
         /\ InInject(BuildName("inject", kind, NULL, i)) =>
               /\ Lookup(names) # {}
               /\ \A f \in Lookup(names) : f.name.options = i.options
  <1>1. /\ DOMAIN names = 1 .. 4
        /\ names[1] = BuildName("inject", kind, i.number, i)
        /\ names[2] = BuildName("inject", kind, NULL, i)
        /\ names[3] = Name("inject", kind, NULL, i.hash)
        /\ names[4] = Name("beside", kind, NULL, NULL)
    OBVIOUS
  <1>2. /\ \A n : /\ BuildName("inject", kind, n, i).kind = kind
                  /\ BuildName("inject", kind, n, i).options = i.options
        /\ \A d, n, h : Name(d, kind, n, h).kind = kind
    BY DEF BuildName, Name
  <1>3. \A j \in DOMAIN names : names[j].kind = kind
    BY <1>1, <1>2
  <1>4. names[1].options = i.options /\ names[2].options = i.options
    BY <1>1, <1>2
  <1>5. /\ \A f \in Lookup(names) : f \in inject /\ \E j \in DOMAIN names : f.name = names[j]
        /\ InInject(names[2]) =>
               /\ Lookup(names) # {}
               /\ \A f \in Lookup(names) : \E j \in DOMAIN names : j <= 2 /\ f.name = names[j]
    BY <1>1, LookupFinds
  <1>6. ASSUME NEW f \in Lookup(names)
        PROVE  f \in inject /\ f.name.kind = kind /\ f.content \in BuildOptions
               /\ f.content # NULL
    <2>1. f \in inject /\ f.name.kind = kind
      BY <1>3, <1>5
    <2>2. f.content \in BuildOptions
      BY <2>1 DEF Injected, TextRight
    <2> QED BY <2>1, <2>2, ProgramNullAssumption
  <1>7. ASSUME InInject(names[2]), NEW f \in Lookup(names)
        PROVE  f.name.options = i.options
    <2>1. \E j \in DOMAIN names : j <= 2 /\ f.name = names[j]
      BY <1>5, <1>7
    <2>2. f.name = names[1] \/ f.name = names[2]
      BY <1>1, <2>1
    <2> QED BY <1>4, <2>2
  <1> QED BY <1>1, <1>5, <1>6, <1>7

\* The kind of the file that has a call's options.
OptionKind(c) == IF c.op = "compile" THEN "compile_options" ELSE "options"

\* injectProgramOptions: the options found for the program and its build, or none.
OptionsTaken(t) ==
    LET i == info[call[t].program]
        there == InInject(BuildName("inject", OptionKind(call[t]), NULL, i))
    IN  \/ Moves(t, "injectOptions", call[t]) /\ ~there
        \/ \E f \in inject :
              /\ Moves(t, "injectOptions", [call[t] EXCEPT !.new = f.content, !.injected = TRUE])
              /\ f.name.kind = OptionKind(call[t])
              /\ f.content \in BuildOptions /\ f.content # NULL
              /\ there => f.name.options = i.options

LEMMA InjectOptionsStep ==
  ASSUME Types, Suffixes, Injected, NEW t \in Threads, injectProgramOptions(t)
  PROVE  /\ At(t, "injectOptions") /\ Suffixes' /\ Kept /\ UNCHANGED <<number, info, files, live>>
         /\ Advances(t, "injectOptions")
         /\ OptionsTaken(t)
  <1> USE DEF OptionsTaken
  <1> DEFINE i == info[call[t].program]
             kind == OptionKind(call[t])
             names == <<BuildName("inject", kind, i.number, i),
                        BuildName("inject", kind, NULL, i),
                        Name("inject", kind, NULL, i.hash),
                        Name("beside", kind, NULL, NULL)>>
             found == Lookup(names)
  <1>1. At(t, "injectOptions") /\ Kept /\ UNCHANGED <<number, info, files, live>>
    BY DEF injectProgramOptions, Kept
  <1>2. call[t] \in Calls /\ kind \in OptionKinds
    BY DEF Types, OptionKinds, OptionKind
  <1>3. IF found = {} THEN Goes(t, call[t])
        ELSE \E f \in found : Goes(t, [call[t] EXCEPT !.new = f.content, !.injected = TRUE])
    BY DEF injectProgramOptions, OptionKind
  <1>4. /\ \A f \in found :
              f \in inject /\ f.name.kind = kind /\ f.content \in BuildOptions /\ f.content # NULL
        /\ InInject(BuildName("inject", kind, NULL, i)) =>
              /\ found # {}
              /\ \A f \in found : f.name.options = i.options
    <2> HIDE DEF kind, i
    <2> QED BY <1>2, OptionsFound
  <1> HIDE DEF found, names
  <1>5. CASE found = {}
    BY <1>1, <1>3, <1>4, <1>5, UnchangedAdvances
  <1>6. CASE found # {}
    <2>1. PICK f \in found : Goes(t, [call[t] EXCEPT !.new = f.content, !.injected = TRUE])
      BY <1>3, <1>6
    <2> DEFINE c == [call[t] EXCEPT !.new = f.content, !.injected = TRUE]
    <2>2. /\ c \in Calls /\ c.todo = call[t].todo /\ c.op = call[t].op
          /\ c.program = call[t].program /\ c.hash = call[t].hash /\ c.options = call[t].options
          /\ c.id = call[t].id /\ c.content = call[t].content /\ c.refused = call[t].refused
      BY <1>2, <1>4 DEF Calls
    <2> HIDE DEF c
    <2>3. Moves(t, "injectOptions", c) /\ Suffixes'
      BY <1>1, <2>1, <2>2, GoesMoves DEF c, Kept
    <2>4. Advances(t, "injectOptions")
      BY <2>2, <2>3 DEF Advances
    <2> QED BY <1>1, <1>4, <2>3, <2>4 DEF c
  <1> QED BY <1>5, <1>6

LEMMA GivenOptions ==
  ASSUME NEW c \in Calls
  PROVE  Given(c) \in BuildOptions
  BY DEF Given, Calls, BuildOptions

\* appendBuildOptions, for a build or a link.
Appends(t, step) ==
    Moves(t, step, [call[t] EXCEPT !.new = [Given(call[t]) EXCEPT !.more = TRUE],
                                   !.injected = TRUE])

LEMMA AppendStep ==
  ASSUME Types, Suffixes, NEW t \in Threads, appendBuildOptions(t)
  PROVE  \E step \in {"appendOptions", "appendLink"} :
            /\ At(t, step) /\ Suffixes' /\ Kept /\ UNCHANGED <<number, info, files, live>>
            /\ Advances(t, step)
            /\ Appends(t, step)
  <1> DEFINE new == [Given(call[t]) EXCEPT !.more = TRUE]
             c == [call[t] EXCEPT !.new = new, !.injected = TRUE]
  <1>1. PICK step \in {"appendOptions", "appendLink"} : At(t, step)
    BY DEF appendBuildOptions
  <1>2. Goes(t, c) /\ Kept /\ UNCHANGED <<number, info, files, live>>
    BY DEF appendBuildOptions, Kept
  <1>3. call[t] \in Calls
    BY DEF Types
  <1>4. new \in BuildOptions
    BY <1>3, GivenOptions DEF BuildOptions
  <1> HIDE DEF new
  <1>5. /\ c \in Calls /\ c.todo = call[t].todo /\ c.op = call[t].op
        /\ c.program = call[t].program /\ c.hash = call[t].hash /\ c.options = call[t].options
        /\ c.id = call[t].id /\ c.content = call[t].content /\ c.refused = call[t].refused
    BY <1>3, <1>4 DEF Calls
  <1> HIDE DEF c
  <1>6. Moves(t, step, c) /\ Suffixes'
    BY <1>1, <1>2, <1>5, GoesMoves DEF Kept
  <1>7. Advances(t, step)
    BY <1>5, <1>6 DEF Advances
  <1> QED BY <1>1, <1>2, <1>6, <1>7 DEF c, new, Appends

\* A step that looks for something to inject or appends options.
EditSteps == {"inject", "prepend", "binaries", "spirv", "injectOptions", "appendOptions",
              "appendLink"}

\* What such a step does.
Edited(t, step) ==
    CASE step = "inject" -> SourceTaken(t)
      [] step = "prepend" -> Prepends(t)
      [] step = "binaries" -> ProgramTaken(t, step, "binary")
      [] step = "spirv" -> call[t].op = "il" \/ ProgramTaken(t, step, "il")
      [] step = "injectOptions" -> OptionsTaken(t)
      [] OTHER -> Appends(t, step)

\* A call makes such a step, and nothing else changes.
Edits(t) ==
    /\ \E step \in EditSteps : At(t, step) /\ Advances(t, step) /\ Edited(t, step)
    /\ Kept /\ UNCHANGED <<number, info, files, live>>

\* A call begins with all its steps to come.
Starts(t, op, c) ==
    /\ call[t] = NoCall /\ ToCome(t) = {} /\ op \in DOMAIN Steps
    /\ call' \in [Threads -> Calls]
    /\ \A u \in Threads \ {t} : call'[u] = call[u] /\ ToCome(u)' = ToCome(u)
    /\ \A s \in ToCome(t)' : \E j \in DOMAIN Steps[op] : Steps[op][j] = s
    /\ op \in Builds => "build" \in ToCome(t)' /\ "number" \notin ToCome(t)'
    /\ op \notin Builds => "create" \in ToCome(t)'
    /\ op \in Creates => "number" \in ToCome(t)'
    /\ On("InjectProgramSource") /\ op = "source" => "inject" \in ToCome(t)'
    /\ On("InjectProgramSource") /\ op \in Builds => "injectOptions" \in ToCome(t)'
    /\ On("InjectProgramBinaries") /\ op = "source" => "binaries" \in ToCome(t)'
    /\ On("AppendBuildOptions") /\ op \in Builds => "appendOptions" \in ToCome(t)'
    /\ AnyOf(SavesHash) /\ op \in Builds => "saveOptions" \in ToCome(t)'
    /\ AnyOf(SavesHash) /\ op \in Texts => "saveHash" \in ToCome(t)'
    /\ call'[t].op = op /\ call'[t].id = c.id /\ call'[t].program = c.program
    /\ call'[t].hash = c.hash /\ call'[t].content = c.content
    /\ call'[t].injected = c.injected /\ call'[t].made = c.made
    /\ call'[t].refused = c.refused /\ call'[t].options = c.options
    /\ call'[t].new = c.new
    /\ UNCHANGED <<run, config, inject, number, info, files, live>>

\* The steps that a call has if the controls ask for them.
LEMMA AllAsked ==
  ASSUME NEW op \in DOMAIN Steps, NEW todo, todo = {Steps[op][j] : j \in Asked(op)}
  PROVE  /\ Asked(op) # {} /\ Asked(op) \subseteq DOMAIN Steps[op]
         /\ op \in Builds => "build" \in todo /\ "number" \notin todo
         /\ op \notin Builds => "create" \in todo
         /\ op \in Creates => "number" \in todo
         /\ On("InjectProgramSource") /\ op = "source" => "inject" \in todo
         /\ On("InjectProgramSource") /\ op \in Builds => "injectOptions" \in todo
         /\ On("InjectProgramBinaries") /\ op = "source" => "binaries" \in todo
         /\ On("AppendBuildOptions") /\ op \in Builds => "appendOptions" \in todo
         /\ AnyOf(SavesHash) /\ op \in Builds => "saveOptions" \in todo
         /\ AnyOf(SavesHash) /\ op \in Texts => "saveHash" \in todo
  <1>1. /\ On("InjectProgramSource") => AnyOf(StepControls["inject"])
        /\ On("InjectProgramSource") => AnyOf(StepControls["injectOptions"])
        /\ On("InjectProgramBinaries") => AnyOf(StepControls["binaries"])
        /\ On("AppendBuildOptions") => AnyOf(StepControls["appendOptions"])
        /\ AnyOf(SavesHash) => AnyOf(StepControls["saveOptions"])
        /\ AnyOf(SavesHash) => AnyOf(StepControls["saveHash"])
    BY DEF On, AnyOf, StepControls
  <1>2. /\ Asked(op) \subseteq DOMAIN Steps[op]
        /\ \A j \in DOMAIN Steps[op] :
              Steps[op][j] \notin DOMAIN StepControls \/ AnyOf(StepControls[Steps[op][j]])
              => j \in Asked(op) /\ Steps[op][j] \in todo
    BY DEF Asked
  <1>3. CASE op = "source"
    <2>1. /\ DOMAIN Steps[op] = 1 .. 7
          /\ Steps[op][1] = "inject"
          /\ Steps[op][2] = "prepend"
          /\ Steps[op][3] = "binaries"
          /\ Steps[op][4] = "spirv"
          /\ Steps[op][5] = "create"
          /\ Steps[op][6] = "number"
          /\ Steps[op][7] = "saveHash"
      BY <1>3, StepLists
    <2> QED BY <1>1, <1>2, <1>3, <2>1, StepsAsked DEF Builds, Texts, Creates
  <1>4. CASE op = "il"
    <2>1. /\ DOMAIN Steps[op] = 1 .. 4
          /\ Steps[op][1] = "spirv"
          /\ Steps[op][2] = "create"
          /\ Steps[op][3] = "number"
          /\ Steps[op][4] = "saveHash"
      BY <1>4, StepLists
    <2> QED BY <1>1, <1>2, <1>4, <2>1, StepsAsked DEF Builds, Texts, Creates
  <1>5. CASE op = "binary"
    <2>1. /\ DOMAIN Steps[op] = 1 .. 3
          /\ Steps[op][1] = "create"
          /\ Steps[op][2] = "number"
          /\ Steps[op][3] = "saveHash"
      BY <1>5, StepLists
    <2> QED BY <1>1, <1>2, <1>5, <2>1, StepsAsked DEF Builds, Texts, Creates
  <1>6. CASE op = "builtin"
    <2>1. /\ DOMAIN Steps[op] = 1 .. 1
          /\ Steps[op][1] = "create"
      BY <1>6, StepLists
    <2> QED BY <1>1, <1>2, <1>6, <2>1, StepsAsked DEF Builds, Texts, Creates
  <1>7. CASE op = "link"
    <2>1. /\ DOMAIN Steps[op] = 1 .. 9
          /\ Steps[op][1] = "appendLink"
          /\ Steps[op][2] = "create"
          /\ Steps[op][3] = "log"
          /\ Steps[op][4] = "number"
          /\ Steps[op][5] = "saveOptions"
          /\ Steps[op][6] = "dumpOptions"
          /\ Steps[op][7] = "dumpBinary"
          /\ Steps[op][8] = "dumpISA"
          /\ Steps[op][9] = "increment"
      BY <1>7, StepLists
    <2> QED BY <1>1, <1>2, <1>7, <2>1, StepsAsked DEF Builds, Texts, Creates
  <1>8. CASE op = "build"
    <2>1. /\ DOMAIN Steps[op] = 1 .. 10
          /\ Steps[op][1] = "saveOptions"
          /\ Steps[op][2] = "injectOptions"
          /\ Steps[op][3] = "appendOptions"
          /\ Steps[op][4] = "dumpOptions"
          /\ Steps[op][5] = "build"
          /\ Steps[op][6] = "log"
          /\ Steps[op][7] = "dumpBinary"
          /\ Steps[op][8] = "dumpISA"
          /\ Steps[op][9] = "autoSPIRV"
          /\ Steps[op][10] = "increment"
      BY <1>8, StepLists
    <2> QED BY <1>1, <1>2, <1>8, <2>1, StepsAsked DEF Builds, Texts, Creates
  <1>9. CASE op = "compile"
    <2>1. /\ DOMAIN Steps[op] = 1 .. 8
          /\ Steps[op][1] = "saveOptions"
          /\ Steps[op][2] = "injectOptions"
          /\ Steps[op][3] = "appendOptions"
          /\ Steps[op][4] = "dumpOptions"
          /\ Steps[op][5] = "build"
          /\ Steps[op][6] = "log"
          /\ Steps[op][7] = "dumpBinary"
          /\ Steps[op][8] = "increment"
      BY <1>9, StepLists
    <2> QED BY <1>1, <1>2, <1>9, <2>1, StepsAsked DEF Builds, Texts, Creates
  <1> QED BY <1>3, <1>4, <1>5, <1>6, <1>7, <1>8, <1>9, StepLists

LEMMA BeginStarts ==
  ASSUME Types, Suffixes, NEW t \in Threads, NEW op \in DOMAIN Steps, NEW c \in Calls,
         Begin(t, op, c)
  PROVE  Starts(t, op, c) /\ Suffixes'
  <1> DEFINE next == [c EXCEPT !.op = op, !.todo = Asked(op)]
             todo == {Steps[op][j] : j \in Asked(op)}
  <1>1. call[t].todo = {} /\ call[t] = NoCall /\ ToCome(t) = {}
    <2>1. call[t].todo = {}
      BY DEF Begin, Idle
    <2>2. Suffix(t)
      BY DEF Suffixes
    <2> QED BY <2>1, <2>2 DEF Suffix, ToCome
  <1>2. Asked(op) # {} /\ Asked(op) \subseteq DOMAIN Steps[op] /\ DOMAIN Steps[op] \subseteq Nat
    BY AllAsked, StepPositions
  <1>3. next \in Calls
    BY <1>2 DEF Calls
  <1>4. call' = [call EXCEPT ![t] = next]
    BY DEF Begin
  <1>5. /\ call' \in [Threads -> Calls] /\ call'[t] = next
        /\ \A u \in Threads \ {t} : call'[u] = call[u]
    BY <1>3, <1>4 DEF Types
  <1>6. \A u \in Threads \ {t} : ToCome(u)' = ToCome(u)
    BY <1>5 DEF ToCome
  <1>7. call'[t].op = op /\ call'[t].todo = Asked(op)
    BY <1>5 DEF Calls
  <1>8. ToCome(t)' = todo
    BY <1>7 DEF ToCome
  <1>9. /\ call'[t].id = c.id /\ call'[t].program = c.program
        /\ call'[t].hash = c.hash /\ call'[t].content = c.content
        /\ call'[t].injected = c.injected /\ call'[t].made = c.made
        /\ call'[t].refused = c.refused /\ call'[t].options = c.options
        /\ call'[t].new = c.new
    BY <1>5 DEF Calls
  <1>10. UNCHANGED <<run, config, inject, number, info, files, live>>
    BY DEF Begin
  <1>11. \A s \in ToCome(t)' : \E j \in DOMAIN Steps[op] : Steps[op][j] = s
    BY <1>2, <1>8
  <1>12. Starts(t, op, c)
    <2> HIDE DEF next
    <2> QED BY <1>1, <1>5, <1>6, <1>7, <1>8, <1>9, <1>10, <1>11, AllAsked DEF Starts
  <1>13. Suffixes'
    <2>1. \A o : Asked(o)' = Asked(o)
      BY <1>10 DEF Asked, AnyOf
    <2>2. ASSUME NEW u \in Threads \ {t}
          PROVE  Suffix(u)'
      <3>1. call'[u] = call[u] /\ Asked(call[u].op)' = Asked(call[u].op)
        BY <1>5, <2>1
      <3> QED BY <3>1 DEF Suffixes, Suffix
    <2>3. Asked(call[t].op)' = Asked(op)
      BY <1>7, <2>1
    <2>4. Suffix(t)'
      <3> HIDE DEF next
      <3> QED BY <1>2, <1>7, <2>3, ProgramNullAssumption DEF Suffix
    <2> QED BY <2>2, <2>4 DEF Suffixes
  <1> QED BY <1>12, <1>13

LEMMA TextIsContent ==
  ASSUME NEW op \in DOMAIN Steps, NEW s \in Sources \cup {NULL}
  PROVE  /\ Text(op, s) \in Plain /\ Text(op, s) \in Contents /\ Text(op, s) # NULL
         /\ Text(op, s).form = op /\ Text(op, s).text = s
         /\ Hash(Text(op, s)) = <<op, s>>
         /\ op \in Texts /\ s \in Sources => Hash(Text(op, s)) \in Hashed
  <1>1. Text(op, s) \in Plain
    BY DEF Text, Plain
  <1>2. Text(op, s).form = op /\ Text(op, s).text = s /\ Hash(Text(op, s)) = <<op, s>>
    BY DEF Text, Hash
  <1>3. Text(op, s) \in Contents /\ Text(op, s) # NULL
    BY <1>1, ProgramNullAssumption DEF Contents
  <1>4. op \in Texts /\ s \in Sources => Hash(Text(op, s)) \in Hashed
    BY <1>2 DEF Texts, Hashed
  <1> QED BY <1>1, <1>2, <1>3, <1>4

\* A call that creates a program begins.
Created(t) ==
    \E op \in Creates \cup {"builtin"}, s \in Sources \cup {NULL}, c \in Calls :
        /\ Starts(t, op, c)
        /\ c.program = NULL /\ ~c.refused /\ c.made = NULL /\ c.new = NULL
        /\ c.content = Text(op, s) /\ (op \in Texts => s \in Sources)
        /\ op \in Texts /\ AnyOf(HashControls[op]) => c.hash = Hash(Text(op, s))
        /\ creations < MaxCreations /\ creations' = creations + 1 /\ builds' = builds

LEMMA CreationStarts ==
  ASSUME Types, Suffixes, NEW t \in Threads,
         \/ \E s \in Sources : \/ clCreateProgramWithSource(t, s)
                               \/ clCreateProgramWithBinary(t, s)
                               \/ clCreateProgramWithIL(t, s)
         \/ clCreateProgramWithBuiltInKernels(t)
         \/ \E o \in Options \cup {NULL} : clLinkProgram(t, o)
  PROVE  Created(t) /\ Suffixes'
  <1>1. ASSUME NEW op \in DOMAIN Steps, op \notin Builds, NEW s \in Sources \cup {NULL},
               NEW c \in Calls, MayCreate, Begin(t, op, c),
               c.program = NULL, ~c.refused, c.made = NULL, c.new = NULL, c.content = Text(op, s),
               op \in Texts => s \in Sources,
               op \in Texts /\ AnyOf(HashControls[op]) => c.hash = Hash(Text(op, s))
        PROVE  Created(t) /\ Suffixes'
    <2>1. creations < MaxCreations /\ creations' = creations + 1 /\ builds' = builds
      BY <1>1 DEF MayCreate
    <2>2. op \in Creates \cup {"builtin"}
      BY <1>1, StepLists DEF Builds, Creates
    <2>3. Starts(t, op, c) /\ Suffixes'
      BY <1>1, BeginStarts
    <2> QED BY <1>1, <2>1, <2>2, <2>3 DEF Created
  <1>2. /\ {"source", "il", "binary"} = Texts /\ Texts \cap Builds = {}
        /\ Texts \subseteq DOMAIN Steps /\ {"builtin", "link"} \subseteq DOMAIN Steps
        /\ {"builtin", "link"} \cap (Texts \cup Builds) = {} /\ NULL \in Hashes
        /\ MayCreate => creations' \in Nat
    BY StepLists DEF Texts, Builds, Hashes, MayCreate, Types
  <1>3. ASSUME NEW form \in Texts, NEW s \in Sources, clCreateProgram(t, form, s)
        PROVE  Created(t) /\ Suffixes'
    <2> DEFINE h == IF AnyOf(HashControls[form]) THEN Hash(Text(form, s)) ELSE NULL
               c == [NoCall EXCEPT !.id = creations', !.content = Text(form, s), !.hash = h]
    <2>1. h \in Hashes
      BY <1>2, TextIsContent DEF Hashes
    <2>2. MayCreate /\ Begin(t, form, c)
      BY <1>3 DEF clCreateProgram
    <2>3. AnyOf(HashControls[form]) => h = Hash(Text(form, s))
      OBVIOUS
    <2> HIDE DEF h
    <2>4. /\ c \in Calls /\ c.program = NULL /\ ~c.refused /\ c.made = NULL /\ c.new = NULL
          /\ c.content = Text(form, s) /\ c.hash = h
      BY <1>2, <2>1, <2>2, TextIsContent DEF NoCall, Calls
    <2> HIDE DEF c
    <2> QED BY <1>1, <1>2, <2>2, <2>3, <2>4
  <1>4. ASSUME clCreateProgramWithBuiltInKernels(t)
        PROVE  Created(t) /\ Suffixes'
    <2> DEFINE c == [NoCall EXCEPT !.id = creations', !.content = Text("builtin", NULL)]
    <2>1. MayCreate /\ Begin(t, "builtin", c)
      BY <1>4 DEF clCreateProgramWithBuiltInKernels
    <2>2. /\ c \in Calls /\ c.program = NULL /\ ~c.refused /\ c.made = NULL /\ c.new = NULL
          /\ c.content = Text("builtin", NULL)
      BY <1>2, <2>1, TextIsContent DEF NoCall, Calls
    <2> HIDE DEF c
    <2> QED BY <1>1, <1>2, <2>1, <2>2
  <1>5. ASSUME NEW o \in Options \cup {NULL}, clLinkProgram(t, o)
        PROVE  Created(t) /\ Suffixes'
    <2> DEFINE c == [NoCall EXCEPT !.id = creations', !.content = Text("link", NULL),
                                   !.options = o]
    <2>1. MayCreate /\ Begin(t, "link", c)
      BY <1>5 DEF clLinkProgram
    <2>2. /\ c \in Calls /\ c.program = NULL /\ ~c.refused /\ c.made = NULL /\ c.new = NULL
          /\ c.content = Text("link", NULL)
      BY <1>2, <2>1, TextIsContent DEF NoCall, Calls
    <2> HIDE DEF c
    <2> QED BY <1>1, <1>2, <2>1, <2>2
  <1>6. CASE \E s \in Sources : \/ clCreateProgramWithSource(t, s)
                                \/ clCreateProgramWithBinary(t, s)
                                \/ clCreateProgramWithIL(t, s)
    BY <1>2, <1>3, <1>6
       DEF clCreateProgramWithSource, clCreateProgramWithBinary, clCreateProgramWithIL
  <1> QED BY <1>4, <1>5, <1>6

\* A build or compile of a program that no call works on begins.
Built(t) ==
    \E op \in Builds, p \in Programs, o \in Options \cup {NULL} :
        /\ Starts(t, op, [NoCall EXCEPT !.program = p, !.options = o])
        /\ live[p] # NULL /\ live[p].op \in Texts
        /\ \A u \in Threads : call[u].program # p
        /\ builds < MaxBuilds /\ builds' = builds + 1 /\ creations' = creations

LEMMA BuildStarts ==
  ASSUME Types, Suffixes, NEW t \in Threads, NEW p \in Programs, NEW o \in Options \cup {NULL},
         clBuildProgram(t, p, o) \/ clCompileProgram(t, p, o)
  PROVE  Built(t) /\ Suffixes'
  <1>1. PICK op \in Builds : StartBuild(t, op, p, o)
    BY DEF clBuildProgram, clCompileProgram, Builds
  <1> DEFINE c == [NoCall EXCEPT !.program = p, !.options = o]
  <1>2. /\ live[p] # NULL /\ live[p].op \in Texts /\ ~Busy(p) /\ Begin(t, op, c)
        /\ builds < MaxBuilds /\ builds' = builds + 1 /\ creations' = creations
    BY <1>1 DEF StartBuild, HashControls, Texts
  <1>3. c \in Calls
    BY DEF NoCall, Calls, Hashes
  <1>4. op \in DOMAIN Steps
    BY StepLists DEF Builds
  <1> HIDE DEF c
  <1>5. Starts(t, op, c) /\ Suffixes'
    BY <1>2, <1>3, <1>4, BeginStarts
  <1>6. ASSUME NEW u \in Threads
        PROVE  call[u].program # p
    <2>1. CASE call[u].todo = {}
      <3>1. call[u].program = NULL
        BY <2>1 DEF Suffixes, Suffix, NoCall
      <3> QED BY <3>1, ProgramNullAssumption
    <2>2. CASE call[u].todo # {}
      BY <1>2, <2>2 DEF Busy, Idle
    <2> QED BY <2>1, <2>2
  <1> QED BY <1>2, <1>5, <1>6 DEF Built, c

\* The driver makes a new program of what the call has, or refuses.
Makes(t) ==
    /\ At(t, "create") /\ Kept /\ UNCHANGED <<number, info, files>>
    /\ \E c \in Calls :
          /\ Moves(t, "create", c)
          /\ c.hash = call[t].hash /\ c.content = call[t].content /\ c.options = call[t].options
          /\ c.id = call[t].id /\ c.new = call[t].new
          /\ \/ \E p \in Programs, held \in Held :
                  /\ live[p] = NULL /\ live' = [live EXCEPT ![p] = held]
                  /\ held.op = call[t].op /\ held.builds = 0
                  /\ held.own = <<call[t].op, call[t].content.text>>
                  /\ c.program = p /\ c.refused = call[t].refused
                  /\ c.made = (IF call[t].made # NULL THEN call[t].made ELSE call[t].content)
             \/ /\ live' = live /\ c.program = call[t].program
                /\ c.refused /\ c.made = call[t].made

LEMMA CreateStep ==
  ASSUME Types, Suffixes, Handles, NEW t \in Threads, Create(t)
  PROVE  Makes(t) /\ Suffixes'
  <1> DEFINE made == IF call[t].made # NULL THEN call[t].made ELSE call[t].content
             held == [op |-> call[t].op, made |-> made, id |-> call[t].id,
                      own |-> Hash(Text(call[t].op, call[t].content.text)), builds |-> 0]
             refused == [call[t] EXCEPT !.refused = TRUE]
  <1>1. At(t, "create") /\ Kept /\ UNCHANGED <<number, info, files>>
    BY DEF Create, Kept
  <1>2. call[t] \in Calls /\ live \in [Programs -> Held \cup {NULL}]
    BY DEF Types
  <1>3. call[t].op \in DOMAIN Steps /\ call[t].op \notin Builds
    BY <1>1, AtPosition, StepsInOrder DEF Suffixes, Order
  <1>4. call[t].content \in Contents /\ made \in Contents
    BY <1>2, <1>3, ProgramNullAssumption DEF Handles, Calls
  <1>5. call[t].content.text \in Sources \cup {NULL}
    BY <1>4 DEF Contents, Plain, Outputs
  <1>6. held \in Held /\ held.own = <<call[t].op, call[t].content.text>>
        /\ held.op = call[t].op /\ held.builds = 0
    <2>1. Hash(Text(call[t].op, call[t].content.text)) = <<call[t].op, call[t].content.text>>
      BY <1>3, <1>5, TextIsContent
    <2> HIDE DEF made
    <2> QED BY <1>2, <1>3, <1>4, <1>5, <2>1 DEF Held, Calls
  <1>7. \/ \E p \in Programs :
              /\ live[p] = NULL /\ live' = [live EXCEPT ![p] = held]
              /\ Goes(t, [call[t] EXCEPT !.program = p, !.made = made])
        \/ Goes(t, refused) /\ live' = live
    BY DEF Create
  <1> HIDE DEF held
  <1>8. ASSUME NEW p \in Programs, live[p] = NULL, live' = [live EXCEPT ![p] = held],
               Goes(t, [call[t] EXCEPT !.program = p, !.made = made])
        PROVE  Makes(t) /\ Suffixes'
    <2> DEFINE c == [call[t] EXCEPT !.program = p, !.made = made]
    <2>1. /\ c \in Calls /\ c.todo = call[t].todo /\ c.op = call[t].op
          /\ c.program = p /\ c.made = made
          /\ c.hash = call[t].hash /\ c.content = call[t].content /\ c.options = call[t].options
          /\ c.id = call[t].id /\ c.new = call[t].new /\ c.refused = call[t].refused
      <3> HIDE DEF made
      <3> QED BY <1>2, <1>4 DEF Calls
    <2>2. Goes(t, c)
      BY <1>8
    <2> HIDE DEF c
    <2>3. Moves(t, "create", c) /\ Suffixes'
      BY <1>1, <2>1, <2>2, GoesMoves DEF Kept
    <2> QED BY <1>1, <1>6, <1>8, <2>1, <2>3 DEF Makes
  <1>9. ASSUME Goes(t, refused), live' = live
        PROVE  Makes(t) /\ Suffixes'
    <2>1. /\ refused \in Calls /\ refused.todo = call[t].todo /\ refused.op = call[t].op
          /\ refused.program = call[t].program /\ refused.hash = call[t].hash
          /\ refused.options = call[t].options /\ refused.content = call[t].content
          /\ refused.id = call[t].id /\ refused.new = call[t].new
          /\ refused.refused /\ refused.made = call[t].made
      BY <1>2 DEF Calls
    <2> HIDE DEF refused
    <2>2. Moves(t, "create", refused) /\ Suffixes'
      BY <1>1, <1>9, <2>1, GoesMoves DEF Kept
    <2> QED BY <1>1, <1>9, <2>1, <2>2 DEF Makes
  <1> QED BY <1>7, <1>8, <1>9 DEF refused

\* The step that numbers the program and dumps its input.
Numbers(t) ==
    /\ At(t, "number") /\ Moves(t, "number", call[t]) /\ Kept /\ live' = live
    /\ number' = number + 1
    /\ info' = [info EXCEPT ![call[t].program].number = number, ![call[t].program].count = 0]
    /\ \/ files' = files
       \/ /\ call[t].op \in Texts /\ AnyOf(DumpControls[call[t].op])
          /\ \E dir : files' = files \cup {Written(call[t],
                                   Name(dir, call[t].op, Number(number), call[t].hash),
                                   call[t].content)}

LEMMA NumberStep ==
  ASSUME Types, Suffixes, NEW t \in Threads,
         \/ dumpProgramSource(t) \/ dumpProgramSPIRV(t) \/ dumpInputProgramBinaries(t)
         \/ saveProgramNumber(t)
  PROVE  Numbers(t) /\ Suffixes'
  <1>1. ASSUME NEW dumped, TakeNumber(t, dumped),
               \/ dumped = {}
               \/ /\ call[t].op \in Texts /\ AnyOf(DumpControls[call[t].op])
                  /\ \E dir : dumped = {Written(call[t],
                                   Name(dir, call[t].op, Number(number), call[t].hash),
                                   call[t].content)}
        PROVE  Numbers(t) /\ Suffixes'
    <2>1. /\ At(t, "number") /\ Goes(t, call[t]) /\ Kept /\ live' = live
          /\ number' = number + 1 /\ files' = files \cup dumped
          /\ info' = [info EXCEPT ![call[t].program].number = number,
                                  ![call[t].program].count = 0]
      BY <1>1 DEF TakeNumber, Kept
    <2>2. Moves(t, "number", call[t]) /\ Suffixes'
      BY <2>1, UnchangedAdvances
    <2>3. dumped = {} => files' = files
      BY <2>1
    <2> QED BY <1>1, <2>1, <2>2, <2>3 DEF Numbers
  <1>2. ASSUME NEW form \in Texts, DumpProgram(t, form)
        PROVE  Numbers(t) /\ Suffixes'
    <2> DEFINE dir == Dir(call[t].injected)
               file == Written(call[t], Name(dir, form, Number(number), call[t].hash),
                               call[t].content)
    <2>1. call[t].op = form /\ Dumps(call[t]) /\ TakeNumber(t, {file})
      BY <1>2 DEF DumpProgram
    <2>2. AnyOf(DumpControls[call[t].op])
      BY <2>1 DEF Dumps
    <2> QED BY <1>1, <2>1, <2>2
  <1>3. "source" \in Texts /\ "il" \in Texts /\ "binary" \in Texts
    BY DEF Texts
  <1>4. CASE saveProgramNumber(t)
    BY <1>1, <1>4 DEF saveProgramNumber
  <1> QED BY <1>2, <1>3, <1>4
          DEF dumpProgramSource, dumpProgramSPIRV, dumpInputProgramBinaries

\* A step that changes what the layer knows of the program, and moves on.
SavesOne(t) ==
    /\ Kept /\ UNCHANGED <<number, files, live>>
    /\ \/ /\ At(t, "saveHash") /\ Moves(t, "saveHash", call[t])
          /\ info' = IF call[t].program = NULL THEN info
                     ELSE [info EXCEPT ![call[t].program].hash = call[t].hash]
       \/ /\ At(t, "saveOptions") /\ Moves(t, "saveOptions", call[t])
          /\ info' = IF call[t].program = NULL \/ call[t].options = NULL THEN info
                     ELSE [info EXCEPT ![call[t].program].options = call[t].options]
       \/ /\ At(t, "increment") /\ Moves(t, "increment", call[t])
          /\ info' = IF call[t].program = NULL THEN info
                     ELSE [info EXCEPT ![call[t].program].count = @ + 1]

LEMMA SaveStep ==
  ASSUME Types, Suffixes, NEW t \in Threads,
         \/ saveProgramHash(t) \/ saveProgramOptionsHash(t) \/ incrementProgramCompileCount(t)
  PROVE  SavesOne(t) /\ Suffixes'
  <1>1. CASE saveProgramHash(t)
    <2>1. At(t, "saveHash") /\ Goes(t, call[t]) /\ Kept
      BY <1>1 DEF saveProgramHash, Kept
    <2>2. Moves(t, "saveHash", call[t]) /\ Suffixes'
      BY <2>1, UnchangedAdvances
    <2> QED BY <1>1, <2>1, <2>2 DEF saveProgramHash, SavesOne
  <1>2. CASE saveProgramOptionsHash(t)
    <2>1. At(t, "saveOptions") /\ Goes(t, call[t]) /\ Kept
      BY <1>2 DEF saveProgramOptionsHash, Kept
    <2>2. Moves(t, "saveOptions", call[t]) /\ Suffixes'
      BY <2>1, UnchangedAdvances
    <2> QED BY <1>2, <2>1, <2>2 DEF saveProgramOptionsHash, SavesOne
  <1>3. CASE incrementProgramCompileCount(t)
    <2>1. At(t, "increment") /\ Goes(t, call[t]) /\ Kept
      BY <1>3 DEF incrementProgramCompileCount, Kept
    <2>2. Moves(t, "increment", call[t]) /\ Suffixes'
      BY <2>1, UnchangedAdvances
    <2> QED BY <1>3, <2>1, <2>2 DEF incrementProgramCompileCount, SavesOne
  <1> QED BY <1>1, <1>2, <1>3

\* The step that builds a program.
BuildsProgram(t) ==
    /\ At(t, "build") /\ Moves(t, "build", call[t]) /\ Kept /\ UNCHANGED <<number, info, files>>
    /\ live' = [live EXCEPT ![call[t].program].builds = @ + 1]

LEMMA BuildStep ==
  ASSUME Types, Suffixes, NEW t \in Threads, Build(t)
  PROVE  BuildsProgram(t) /\ Suffixes'
  <1>1. At(t, "build") /\ Goes(t, call[t]) /\ Kept
    BY DEF Build, Kept
  <1>2. Moves(t, "build", call[t]) /\ Suffixes'
    BY <1>1, UnchangedAdvances
  <1> QED BY <1>1, <1>2 DEF Build, BuildsProgram

\* A step that writes a file about a build, or none.
Writes(t) ==
    /\ Kept /\ UNCHANGED <<number, info, live>>
    /\ \E step \in DumpSteps :
          /\ At(t, step) /\ Moves(t, step, call[t])
          /\ \/ files' = files
             \/ \E dir, kind, content :
                   LET i == info[call[t].program] IN
                   /\ files' = files \cup {Written(call[t],
                                    BuildName(dir, kind, Number(i.number), i), content)}
                   /\ StepOf(kind) = step
                   /\ kind \notin Texts \ {"binary"}
                   /\ kind \in {"binary", "spv"} => content \in Contents
                   /\ IF step = "dumpOptions"
                      THEN /\ kind \in OptionKinds \cup {"link_options"}
                           /\ kind = "link_options" <=> call[t].op = "link"
                           /\ content = Given(call[t])
                           /\ call[t].new # NULL \/ call[t].options # NULL
                      ELSE /\ kind \notin OptionKinds \cup {"link_options"}
                           /\ call[t].program # NULL /\ AnyOf(StepControls.increment)

LEMMA OutputIsContent ==
  ASSUME Types, Handles, NEW t \in Threads, call[t].program # NULL
  PROVE  Output(call[t]) \in Contents
  <1> DEFINE p == live[call[t].program]
  <1>1. call[t].program \in Programs
    BY DEF Types, Calls
  <1>2. p \in Held
    BY <1>1 DEF Types, Handles
  <1> HIDE DEF p
  <1>3. p.made \in Contents /\ p.id \in Nat /\ p.builds \in Nat
    BY <1>2 DEF Held
  <1>4. /\ p.made.text \in Sources \cup {NULL} /\ p.made.edited \in BOOLEAN
        /\ p.made.prepended \in BOOLEAN
    BY <1>3 DEF Contents, Plain, Outputs
  <1>5. Output(call[t]) \in Outputs
    BY <1>3, <1>4 DEF Output, Outputs, p
  <1> QED BY <1>5 DEF Contents

LEMMA WriteStep ==
  ASSUME Types, Suffixes, Handles, NEW t \in Threads,
         \/ dumpProgramOptions(t) \/ logBuild(t) \/ dumpProgramBinary(t)
         \/ dumpKernelISABinaries(t) \/ autoCreateSPIRV(t)
  PROVE  Writes(t) /\ Suffixes'
  <1> DEFINE i == info[call[t].program]
             name(dir, kind) == BuildName(dir, kind, Number(i.number), i)
  <1>1. CASE dumpProgramOptions(t)
    <2> DEFINE kind == CASE call[t].op = "compile" -> "compile_options"
                         [] call[t].op = "link" -> "link_options"
                         [] OTHER -> "options"
    <2>1. At(t, "dumpOptions") /\ Goes(t, call[t]) /\ Kept /\ UNCHANGED <<number, info, live>>
      BY <1>1 DEF dumpProgramOptions, Kept
    <2>2. Moves(t, "dumpOptions", call[t]) /\ Suffixes'
      BY <2>1, UnchangedAdvances
    <2>3. /\ kind \in OptionKinds \cup {"link_options"}
          /\ kind = "link_options" <=> call[t].op = "link"
          /\ StepOf(kind) = "dumpOptions" /\ kind \notin Texts /\ kind \notin {"binary", "spv"}
      BY DEF OptionKinds, StepOf, Texts
    <2>4. files' = IF call[t].new = NULL /\ call[t].options = NULL THEN files
                   ELSE files \cup {Written(call[t], name(Dir(call[t].injected), kind),
                                            Given(call[t]))}
      BY <1>1 DEF dumpProgramOptions
    <2> HIDE DEF kind
    <2>5. "dumpOptions" \in DumpSteps
      BY DEF DumpSteps
    <2>6. CASE call[t].new = NULL /\ call[t].options = NULL
      BY <2>1, <2>2, <2>4, <2>5, <2>6 DEF Writes
    <2>7. CASE ~(call[t].new = NULL /\ call[t].options = NULL)
      <3>1. files' = files \cup {Written(call[t], name(Dir(call[t].injected), kind),
                                         Given(call[t]))}
        BY <2>4, <2>7
      <3> QED BY <2>1, <2>2, <2>3, <2>5, <2>7, <3>1 DEF Writes
    <2> QED BY <2>6, <2>7
  <1>2. ASSUME NEW step \in DumpSteps, NEW kind, NEW asked, DumpBuild(t, step, kind, asked),
               StepOf(kind) = step, step # "dumpOptions", kind \notin Texts \ {"binary"},
               kind \notin OptionKinds \cup {"link_options"}
        PROVE  Writes(t) /\ Suffixes'
    <2>1. /\ At(t, step) /\ Goes(t, call[t]) /\ Kept /\ UNCHANGED <<number, info, live>>
          /\ files' = IF call[t].program # NULL /\ asked
                      THEN files \cup {Written(call[t], name("dump", kind), Output(call[t]))}
                      ELSE files
      BY <1>2 DEF DumpBuild, Kept
    <2>2. Moves(t, step, call[t]) /\ Suffixes'
      BY <2>1, UnchangedAdvances
    <2>3. AnyOf(StepControls.increment)
      <3>1. AnyOf(StepControls[step])
        BY <2>1, AtPosition, StepsAsked DEF Suffixes, DumpSteps
      <3>2. step \in {"log", "dumpBinary", "dumpISA", "autoSPIRV"}
        BY <1>2 DEF DumpSteps
      <3> QED BY <3>1, <3>2 DEF StepControls, AnyOf, SavesHash, Tracking
    <2>4. CASE files' = files
      BY <2>1, <2>2, <2>4 DEF Writes
    <2>5. CASE call[t].program # NULL /\ asked
      <3>1. Output(call[t]) \in Contents
        BY <2>5, OutputIsContent
      <3>2. files' = files \cup {Written(call[t], name("dump", kind), Output(call[t]))}
        BY <2>1, <2>5
      <3> QED BY <1>2, <2>1, <2>2, <2>3, <2>5, <3>1, <3>2 DEF Writes
    <2> QED BY <2>1, <2>4, <2>5
  <1>3. CASE logBuild(t)
    BY <1>2, <1>3 DEF logBuild, DumpSteps, StepOf, Texts, OptionKinds
  <1>4. CASE dumpProgramBinary(t)
    BY <1>2, <1>4 DEF dumpProgramBinary, DumpSteps, StepOf, Texts, OptionKinds
  <1>5. CASE dumpKernelISABinaries(t)
    BY <1>2, <1>5 DEF dumpKernelISABinaries, DumpSteps, StepOf, Texts, OptionKinds
  <1>6. CASE autoCreateSPIRV(t)
    BY <1>2, <1>6 DEF autoCreateSPIRV, DumpSteps, StepOf, Texts, OptionKinds
  <1> QED BY <1>1, <1>3, <1>4, <1>5, <1>6

\* Every step of the program is one of these.
Change ==
    \/ \E t \in Threads : \/ Created(t) \/ Built(t) \/ Edits(t) \/ Makes(t) \/ Numbers(t)
                          \/ SavesOne(t) \/ BuildsProgram(t) \/ Writes(t)
    \/ \E p \in Programs : Release(p)
    \/ Restart

LEMMA EditStep ==
  ASSUME Types, Suffixes, Injected, Sourced, NEW t \in Threads,
         \/ injectProgramSource(t) \/ prependProgramSource(t)
         \/ createProgramWithInjectionBinaries(t) \/ createProgramWithInjectionSPIRV(t)
         \/ injectProgramSPIRV(t) \/ injectProgramOptions(t) \/ appendBuildOptions(t)
  PROVE  Edits(t) /\ Suffixes'
  <1> USE DEF Edits, EditSteps, Edited
  <1>1. CASE injectProgramSource(t)
    BY <1>1, InjectSourceStep
  <1>2. CASE prependProgramSource(t)
    <2>1. call[t].op = "source" => call[t].content \in Plain
      BY DEF Sourced
    <2> QED BY <1>2, <2>1, PrependStep
  <1>3. CASE createProgramWithInjectionBinaries(t)
    BY <1>3, MadeStep DEF createProgramWithInjectionBinaries, Texts
  <1>4. CASE createProgramWithInjectionSPIRV(t)
    BY <1>4, MadeStep DEF createProgramWithInjectionSPIRV, Texts
  <1>5. CASE injectProgramSPIRV(t)
    BY <1>5, InjectSpirvStep
  <1>6. CASE injectProgramOptions(t)
    BY <1>6, InjectOptionsStep
  <1>7. CASE appendBuildOptions(t)
    BY <1>7, AppendStep
  <1> QED BY <1>1, <1>2, <1>3, <1>4, <1>5, <1>6, <1>7

LEMMA SuffixesRest ==
  ASSUME Types, Suffixes, Restart \/ \E p \in Programs : Release(p)
  PROVE  Suffixes'
  <1>1. CASE \E p \in Programs : Release(p)
    <2>1. UNCHANGED <<run, config, call>>
      BY <1>1 DEF Release
    <2> QED BY <2>1 DEF Suffixes, Suffix, Asked, AnyOf
  <1>2. CASE Restart
    <2>1. call' = call /\ \A t \in Threads : call[t].todo = {}
      BY <1>2 DEF Restart, Idle
    <2>2. \A t \in Threads : Suffix(t)'
      BY <2>1 DEF Suffixes, Suffix
    <2> QED BY <2>2 DEF Suffixes
  <1> QED BY <1>1, <1>2

LEMMA Changes ==
  ASSUME Types, Suffixes, Handles, Injected, Sourced, Next
  PROVE  Change /\ Suffixes'
  <1>1. ASSUME NEW t \in Threads,
               \/ \E s \in Sources : \/ clCreateProgramWithSource(t, s)
                                     \/ clCreateProgramWithBinary(t, s)
                                     \/ clCreateProgramWithIL(t, s)
               \/ clCreateProgramWithBuiltInKernels(t)
               \/ \E o \in Options \cup {NULL} :
                     \/ clLinkProgram(t, o)
                     \/ \E p \in Programs : clBuildProgram(t, p, o) \/ clCompileProgram(t, p, o)
        PROVE  Change /\ Suffixes'
    BY <1>1, CreationStarts, BuildStarts DEF Change
  <1>2. ASSUME NEW t \in Threads,
               \/ injectProgramSource(t) \/ prependProgramSource(t)
               \/ createProgramWithInjectionBinaries(t) \/ createProgramWithInjectionSPIRV(t)
               \/ injectProgramSPIRV(t) \/ injectProgramOptions(t) \/ appendBuildOptions(t)
        PROVE  Change /\ Suffixes'
    BY <1>2, EditStep DEF Change
  <1>3. ASSUME NEW t \in Threads, Create(t) \/ Build(t)
        PROVE  Change /\ Suffixes'
    BY <1>3, CreateStep, BuildStep DEF Change
  <1>4. ASSUME NEW t \in Threads,
               \/ dumpProgramSource(t) \/ dumpProgramSPIRV(t) \/ dumpInputProgramBinaries(t)
               \/ saveProgramNumber(t)
        PROVE  Change /\ Suffixes'
    BY <1>4, NumberStep DEF Change
  <1>5. ASSUME NEW t \in Threads,
               \/ saveProgramHash(t) \/ saveProgramOptionsHash(t)
               \/ incrementProgramCompileCount(t)
        PROVE  Change /\ Suffixes'
    BY <1>5, SaveStep DEF Change
  <1>6. ASSUME NEW t \in Threads,
               \/ dumpProgramOptions(t) \/ logBuild(t) \/ dumpProgramBinary(t)
               \/ dumpKernelISABinaries(t) \/ autoCreateSPIRV(t)
        PROVE  Change /\ Suffixes'
    BY <1>6, WriteStep DEF Change
  <1>7. CASE Restart \/ \E p \in Programs : Release(p)
    BY <1>7, SuffixesRest DEF Change
  <1> QED BY <1>1, <1>2, <1>3, <1>4, <1>5, <1>6, <1>7 DEF Next

-----------------------------------------------------------------------------
(* Types. *)

LEMMA TypesStep ==
  ASSUME Types, Suffixes, Handles, Change
  PROVE  Types'
  <1> USE DEF Types
  <1> DEFINE Infos == [number : Nat, hash : Hashes, count : Nat, options : Options \cup {NULL}]
  <1>1. ASSUME NEW t \in Threads, Created(t) \/ Built(t)
        PROVE  Types'
    <2>1. CASE Created(t)
      BY <2>1, ProgramBoundsAssumption DEF Created, Starts
    <2>2. CASE Built(t)
      BY <2>2, ProgramBoundsAssumption DEF Built, Starts
    <2> QED BY <1>1, <2>1, <2>2
  <1>2. ASSUME NEW t \in Threads, Edits(t)
        PROVE  Types'
    BY <1>2 DEF Edits, Advances, Moves, Kept
  <1>3. ASSUME NEW t \in Threads, Makes(t)
        PROVE  Types'
    BY <1>3 DEF Makes, Moves, Kept
  <1>4. ASSUME NEW t \in Threads, Numbers(t)
        PROVE  Types'
    <2>1. call[t].program \in Programs \cup {NULL} /\ call' \in [Threads -> Calls]
      BY <1>4 DEF Calls, Numbers, Moves
    <2>2. info' \in [Programs \cup {NULL} -> Infos]
      BY <1>4, <2>1 DEF Numbers
    <2> QED BY <1>4, <2>1, <2>2 DEF Numbers, Kept
  <1>5. ASSUME NEW t \in Threads, SavesOne(t)
        PROVE  Types'
    <2>1. /\ call[t].program \in Programs \cup {NULL} /\ call[t].hash \in Hashes
          /\ call[t].options \in Options \cup {NULL}
          /\ call' \in [Threads -> Calls]
      BY <1>5 DEF Calls, SavesOne, Moves
    <2>2. info' \in [Programs \cup {NULL} -> Infos]
      BY <1>5, <2>1 DEF SavesOne
    <2> QED BY <1>5, <2>1, <2>2 DEF SavesOne, Kept
  <1>6. ASSUME NEW t \in Threads, BuildsProgram(t)
        PROVE  Types'
    <2>1. call[t].program \in Programs /\ live[call[t].program] \in Held
      <3>1. call[t].op \in Builds
        BY <1>6, StepsInOrder DEF BuildsProgram, Suffixes, Order
      <3> QED BY <3>1 DEF Handles, Calls
    <2>2. live' \in [Programs -> Held \cup {NULL}]
      BY <1>6, <2>1 DEF BuildsProgram, Held
    <2> QED BY <1>6, <2>2 DEF BuildsProgram, Moves, Kept
  <1>7. ASSUME NEW t \in Threads, Writes(t)
        PROVE  Types'
    BY <1>7 DEF Writes, Moves, Kept
  <1>8. ASSUME NEW p \in Programs, Release(p)
        PROVE  Types'
    BY <1>8 DEF Release
  <1>9. CASE Restart
    BY <1>9, ProgramBoundsAssumption DEF Restart, Blank, Hashes
  <1> QED BY <1>1, <1>2, <1>3, <1>4, <1>5, <1>6, <1>7, <1>8, <1>9 DEF Change

-----------------------------------------------------------------------------
(* Handles: a program has one call at a time. *)

LEMMA NoCallFields ==
  /\ NoCall.op = NULL /\ NoCall.program = NULL /\ NoCall.content = NULL /\ NoCall.options = NULL
  /\ NoCall.new = NULL /\ NoCall.refused = FALSE /\ NoCall.hash = NULL /\ NoCall.made = NULL
  /\ NULL \notin Builds /\ NULL \notin Texts /\ NULL # "source" /\ NULL # "link"
  /\ NULL \notin Creates
  BY ProgramNullAssumption, StepLists DEF NoCall, Builds, Texts, Creates

\* A step that keeps the program of the call and the operations of the handles.
LEMMA HandlesMove ==
  ASSUME Types, Suffixes, Handles, NEW t \in Threads, NEW step, NEW c, Moves(t, step, c),
         step # "create", c.program = call[t].program,
         call[t].content # NULL => c.content # NULL, call[t].refused => c.refused,
         \A p \in Programs : live[p] # NULL => live'[p] # NULL /\ live'[p].op = live[p].op
  PROVE  Handles'
  <1>1. \A u \in Threads : call[u].program \in Programs \cup {NULL}
    BY DEF Types, Calls
  <1>2. CASE ToCome(t)' = {}
    <2>1. call'[t] = NoCall /\ \A u \in Threads \ {t} : call'[u] = call[u] /\ ToCome(u)' = ToCome(u)
      BY <1>2 DEF Moves
    <2> QED BY <1>1, <1>2, <2>1, NoCallFields DEF Handles
  <1>3. CASE ToCome(t)' # {}
    <2>1. /\ call'[t].op = call[t].op /\ call'[t].program = call[t].program
          /\ call[t].content # NULL => call'[t].content # NULL
          /\ call[t].refused => call'[t].refused
          /\ ToCome(t)' = ToCome(t) \ {step}
          /\ \A u \in Threads \ {t} : call'[u] = call[u] /\ ToCome(u)' = ToCome(u)
      BY <1>3 DEF Moves
    <2>2. \A u \in Threads : call'[u].program = call[u].program
      BY <2>1
    <2> QED BY <1>1, <2>1, <2>2 DEF Handles
  <1> QED BY <1>2, <1>3

LEMMA HandlesStep ==
  ASSUME Types, Suffixes, Handles, Change
  PROVE  Handles'
  <1>0. \A u \in Threads : call[u].program \in Programs \cup {NULL}
    BY DEF Types, Calls
  <1>1. ASSUME NEW t \in Threads, Created(t)
        PROVE  Handles'
    <2>1. PICK op \in Creates \cup {"builtin"}, s \in Sources \cup {NULL}, c \in Calls :
             /\ Starts(t, op, c) /\ c.program = NULL /\ c.content = Text(op, s)
      BY <1>1 DEF Created
    <2>2. /\ call'[t].op = op /\ call'[t].program = NULL /\ call'[t].content # NULL
          /\ op \notin Builds /\ "create" \in ToCome(t)'
          /\ \A u \in Threads \ {t} : call'[u] = call[u] /\ ToCome(u)' = ToCome(u)
          /\ live' = live
      BY <2>1, StepLists, TextIsContent DEF Starts, Creates, Builds
    <2> QED BY <2>2 DEF Handles
  <1>2. ASSUME NEW t \in Threads, Built(t)
        PROVE  Handles'
    <2>1. PICK op \in Builds, p \in Programs, o \in Options \cup {NULL} :
             /\ Starts(t, op, [NoCall EXCEPT !.program = p, !.options = o])
             /\ live[p] # NULL /\ live[p].op \in Texts
             /\ \A u \in Threads : call[u].program # p
      BY <1>2 DEF Built
    <2>2. /\ call'[t].op = op /\ call'[t].program = p /\ p # NULL
          /\ \A u \in Threads \ {t} : call'[u] = call[u] /\ ToCome(u)' = ToCome(u)
          /\ live' = live
      BY <2>1, ProgramNullAssumption DEF Starts, NoCall
    <2>3. "create" \notin ToCome(t)'
      <3>1. \A s \in ToCome(t)' : \E j \in DOMAIN Steps[op] : Steps[op][j] = s
        BY <2>1 DEF Starts
      <3>2. \A j \in DOMAIN Steps[op] : Steps[op][j] # "create"
        BY StepLists DEF Builds
      <3> QED BY <3>1, <3>2
    <2>4. op \notin Texts /\ op # NULL
      BY ProgramNullAssumption, StepLists DEF Builds, Texts
    <2> QED BY <2>1, <2>2, <2>3, <2>4 DEF Handles
  <1>3. ASSUME NEW t \in Threads, Edits(t)
        PROVE  Handles'
    <2>1. PICK step \in EditSteps : Advances(t, step)
      BY <1>3 DEF Edits
    <2>2. PICK c \in Calls :
             /\ Moves(t, step, c) /\ c.program = call[t].program
             /\ call[t].content # NULL => c.content # NULL
             /\ call[t].refused => c.refused
      BY <2>1 DEF Advances
    <2>3. live' = live /\ step # "create"
      BY <1>3, <2>1 DEF Edits, EditSteps
    <2> QED BY <2>2, <2>3, HandlesMove
  <1>4. ASSUME NEW t \in Threads, Makes(t)
        PROVE  Handles'
    <2>1. PICK c \in Calls :
             /\ Moves(t, "create", c) /\ c.content = call[t].content
             /\ \/ \E p \in Programs, held \in Held :
                      /\ live[p] = NULL /\ live' = [live EXCEPT ![p] = held]
                      /\ held.op = call[t].op /\ c.program = p /\ c.refused = call[t].refused
                \/ live' = live /\ c.program = call[t].program /\ c.refused
      BY <1>4 DEF Makes
    <2>2. /\ ToCome(t)' = ToCome(t) \ {"create"} /\ "create" \in ToCome(t)
          /\ \A u \in Threads \ {t} : call'[u] = call[u] /\ ToCome(u)' = ToCome(u)
          /\ c.op = call[t].op /\ call[t].op \in DOMAIN Steps
      BY <2>1 DEF Moves
    <2>3. call[t].op \notin Builds
      BY <1>4, StepsInOrder DEF Makes, Suffixes, Order
    <2>4. call[t].program = NULL /\ call[t].content # NULL
      BY <2>2, <2>3, ProgramNullAssumption DEF Handles
    <2>5. \/ /\ call'[t] = NoCall /\ ToCome(t)' = {}
          \/ /\ call'[t].op = call[t].op /\ call'[t].program = c.program
             /\ call'[t].content = c.content /\ call'[t].refused = c.refused
      BY <2>1, <2>2 DEF Moves
    <2>6. CASE live' = live /\ c.program = call[t].program /\ c.refused
      <3>1. CASE call'[t] = NoCall /\ ToCome(t)' = {}
        BY <1>0, <2>2, <2>6, <3>1, NoCallFields DEF Handles
      <3>2. CASE /\ call'[t].op = call[t].op /\ call'[t].program = c.program
                 /\ call'[t].content = c.content /\ call'[t].refused = c.refused
        <4>1. call'[t].program = NULL /\ call'[t].content # NULL /\ call'[t].refused
          BY <2>1, <2>4, <2>6, <3>2
        <4> QED BY <1>0, <2>2, <2>3, <2>6, <3>2, <4>1 DEF Handles
      <3> QED BY <2>5, <3>1, <3>2
    <2>7. ASSUME NEW p \in Programs, NEW held \in Held, live[p] = NULL,
                 live' = [live EXCEPT ![p] = held], held.op = call[t].op, c.program = p
          PROVE  Handles'
      <3>1. held # NULL /\ p # NULL
        BY ProgramNullAssumption
      <3>2. live'[p] = held /\ \A q \in Programs \ {p} : live'[q] = live[q]
        BY <2>7 DEF Types
      <3>3. \A u \in Threads : call[u].program # p
        BY <2>7, <3>1 DEF Handles
      <3> QED BY <1>0, <2>1, <2>2, <2>3, <2>4, <2>5, <2>7, <3>1, <3>2, <3>3, NoCallFields
              DEF Handles
    <2> QED BY <2>1, <2>6, <2>7
  <1>5. ASSUME NEW t \in Threads, Numbers(t)
        PROVE  Handles'
    BY <1>5, HandlesMove DEF Numbers
  <1>6. ASSUME NEW t \in Threads, SavesOne(t)
        PROVE  Handles'
    BY <1>6, HandlesMove DEF SavesOne
  <1>7. ASSUME NEW t \in Threads, BuildsProgram(t)
        PROVE  Handles'
    <2>1. live' = [live EXCEPT ![call[t].program].builds = @ + 1]
      BY <1>7 DEF BuildsProgram
    <2>2. ASSUME NEW p \in Programs, live[p] # NULL
          PROVE  live'[p] # NULL /\ live'[p].op = live[p].op
      <3>1. live[p] \in Held
        BY <2>2 DEF Types
      <3>2. CASE p = call[t].program
        <4>1. live'[p] = [live[p] EXCEPT !.builds = @ + 1]
          BY <2>1, <3>2 DEF Types
        <4>2. live'[p] \in Held /\ live'[p].op = live[p].op
          BY <3>1, <4>1 DEF Held
        <4> QED BY <4>2, ProgramNullAssumption
      <3>3. CASE p # call[t].program
        BY <2>1, <2>2, <3>3 DEF Types
      <3> QED BY <3>2, <3>3
    <2> QED BY <1>7, <2>2, HandlesMove DEF BuildsProgram
  <1>8. ASSUME NEW t \in Threads, Writes(t)
        PROVE  Handles'
    <2>1. PICK step \in DumpSteps : Moves(t, step, call[t])
      BY <1>8 DEF Writes
    <2>2. live' = live /\ step # "create"
      BY <1>8 DEF Writes, DumpSteps
    <2> QED BY <2>1, <2>2, HandlesMove
  <1>9. ASSUME NEW p \in Programs, Release(p)
        PROVE  Handles'
    <2>1. \A u \in Threads : call[u].program # p
      <3> TAKE u \in Threads
      <3>1. CASE call[u].todo = {}
        BY <3>1, NoCallFields, ProgramNullAssumption DEF Suffixes, Suffix
      <3>2. CASE call[u].todo # {}
        BY <1>9, <3>2 DEF Release, Busy, Idle
      <3> QED BY <3>1, <3>2
    <2>2. call' = call /\ \A q \in Programs \ {p} : live'[q] = live[q]
      BY <1>9 DEF Release, Types
    <2>3. \A u \in Threads : ToCome(u)' = ToCome(u)
      BY <2>2 DEF ToCome
    <2> QED BY <1>0, <2>1, <2>2, <2>3 DEF Handles
  <1>10. CASE Restart
    <2>1. \A u \in Threads : call'[u] = NoCall /\ ToCome(u)' = {}
      BY <1>10 DEF Restart, Idle, Suffixes, Suffix, ToCome
    <2> QED BY <2>1, NoCallFields DEF Handles
  <1> QED BY <1>1, <1>2, <1>3, <1>4, <1>5, <1>6, <1>7, <1>8, <1>9, <1>10 DEF Change

-----------------------------------------------------------------------------
(* The program number: one for each creation. *)

\* The calls whose program has no number yet.
Pending == {t \in Threads : "number" \in ToCome(t)}

LEMMA PendingFinite ==
  IsFiniteSet(Pending) /\ Cardinality(Pending) \in Nat
  <1>1. Pending \subseteq Threads
    BY DEF Pending
  <1> QED BY <1>1, ProgramThreadsAssumption, FS_Subset, FS_CardinalityType

LEMMA PendingMoves ==
  ASSUME NEW t \in Threads, NEW step, NEW c, Moves(t, step, c)
  PROVE  /\ step # "number" => Pending' = Pending
         /\ step = "number" => Cardinality(Pending') = Cardinality(Pending) - 1
  <1>1. /\ step \in ToCome(t) /\ ToCome(t)' = ToCome(t) \ {step}
        /\ \A u \in Threads \ {t} : ToCome(u)' = ToCome(u)
    BY DEF Moves
  <1>2. step # "number" => Pending' = Pending
    BY <1>1 DEF Pending
  <1>3. ASSUME step = "number"
        PROVE  Cardinality(Pending') = Cardinality(Pending) - 1
    <2>1. t \in Pending /\ Pending' = Pending \ {t}
      BY <1>1, <1>3 DEF Pending
    <2> QED BY <2>1, PendingFinite, FS_RemoveElement
  <1> QED BY <1>2, <1>3

LEMMA EditsMove ==
  ASSUME NEW t \in Threads, Edits(t)
  PROVE  /\ \E step \in EditSteps, c \in Calls :
               /\ At(t, step) /\ Moves(t, step, c)
               /\ c.program = call[t].program /\ c.hash = call[t].hash
               /\ c.options = call[t].options /\ c.id = call[t].id
         /\ Kept /\ UNCHANGED <<number, info, files, live>>
  <1>1. PICK step \in EditSteps : At(t, step) /\ Advances(t, step)
    BY DEF Edits
  <1> QED BY <1>1 DEF Edits, Advances

LEMMA NumbersTakenStep ==
  ASSUME Types, NumbersTaken, Change
  PROVE  NumbersTaken'
  <1>1. number \in Nat /\ creations \in Nat /\ Cardinality(Pending) \in Nat
        /\ number + Cardinality(Pending) <= creations
    BY PendingFinite DEF Types, NumbersTaken, Pending
  <1>2. ASSUME number' + Cardinality(Pending') <= creations'
        PROVE  NumbersTaken'
    BY <1>2 DEF NumbersTaken, Pending
  <1>3. ASSUME NEW t \in Threads, Created(t) \/ Built(t)
        PROVE  NumbersTaken'
    <2>1. \E op, c : Starts(t, op, c) /\ (op \in Builds \/ creations' = creations + 1)
      BY <1>3 DEF Created, Built
    <2>2. PICK op, c : Starts(t, op, c) /\ (op \in Builds \/ creations' = creations + 1)
      BY <2>1
    <2>3. /\ ToCome(t) = {} /\ \A u \in Threads \ {t} : ToCome(u)' = ToCome(u)
          /\ op \in Builds => "number" \notin ToCome(t)'
          /\ number' = number
      BY <2>2 DEF Starts
    <2>4. creations' = creations \/ creations' = creations + 1
      BY <1>3 DEF Created, Built
    <2>5. CASE op \in Builds
      <3>1. Pending' = Pending
        BY <2>3, <2>5 DEF Pending
      <3> QED BY <1>1, <1>2, <2>3, <2>4, <3>1
    <2>6. CASE creations' = creations + 1
      <3>1. Pending' = Pending \/ (Pending' = Pending \cup {t} /\ t \notin Pending)
        BY <2>3 DEF Pending
      <3>2. Cardinality(Pending') <= Cardinality(Pending) + 1
        BY <1>1, <3>1, PendingFinite, FS_AddElement
      <3>3. Cardinality(Pending') \in Nat
        BY <1>1, <3>1, PendingFinite, FS_AddElement
      <3> QED BY <1>1, <1>2, <2>3, <2>6, <3>2, <3>3
    <2> QED BY <2>2, <2>5, <2>6
  <1>4. ASSUME NEW t \in Threads, NEW step, NEW c, Moves(t, step, c), step # "number",
               number' = number, creations' = creations
        PROVE  NumbersTaken'
    BY <1>1, <1>2, <1>4, PendingMoves
  <1>5. ASSUME NEW t \in Threads, Edits(t)
        PROVE  NumbersTaken'
    <2>1. PICK step \in EditSteps, c \in Calls : Moves(t, step, c)
      BY <1>5, EditsMove
    <2>2. number' = number /\ creations' = creations /\ step # "number"
      BY <1>5, EditsMove DEF Kept, EditSteps
    <2> QED BY <1>4, <2>1, <2>2
  <1>6. ASSUME NEW t \in Threads, Makes(t)
        PROVE  NumbersTaken'
    BY <1>4, <1>6 DEF Makes, Kept
  <1>7. ASSUME NEW t \in Threads, Numbers(t)
        PROVE  NumbersTaken'
    <2>1. Moves(t, "number", call[t]) /\ number' = number + 1 /\ creations' = creations
      BY <1>7 DEF Numbers, Kept
    <2>2. Cardinality(Pending') = Cardinality(Pending) - 1
      BY <2>1, PendingMoves
    <2> QED BY <1>1, <1>2, <2>1, <2>2
  <1>8. ASSUME NEW t \in Threads, SavesOne(t)
        PROVE  NumbersTaken'
    BY <1>4, <1>8 DEF SavesOne, Kept
  <1>9. ASSUME NEW t \in Threads, BuildsProgram(t)
        PROVE  NumbersTaken'
    BY <1>4, <1>9 DEF BuildsProgram, Kept
  <1>10. ASSUME NEW t \in Threads, Writes(t)
         PROVE  NumbersTaken'
    BY <1>4, <1>10 DEF Writes, Kept, DumpSteps
  <1>11. ASSUME NEW p \in Programs, Release(p)
         PROVE  NumbersTaken'
    <2>1. number' = number /\ creations' = creations /\ call' = call
      BY <1>11 DEF Release
    <2>2. Pending' = Pending
      BY <2>1 DEF Pending, ToCome
    <2> QED BY <1>1, <1>2, <2>1, <2>2
  <1>12. CASE Restart
    <2>1. number' = 0 /\ creations' = 0 /\ \A u \in Threads : call'[u].todo = {}
      BY <1>12 DEF Restart, Idle
    <2>2. Pending' = {}
      BY <2>1 DEF Pending, ToCome
    <2>3. Cardinality(Pending') = 0
      BY <2>2, FS_EmptySet
    <2> QED BY <1>2, <2>1, <2>3
  <1> QED BY <1>3, <1>5, <1>6, <1>7, <1>8, <1>9, <1>10, <1>11, <1>12 DEF Change

\* A call that still takes a number has created something.
LEMMA PendingCreates ==
  ASSUME Types, NumbersTaken, NEW t \in Threads, "number" \in ToCome(t)
  PROVE  number < creations /\ 0 < creations
  <1>1. t \in Pending
    BY DEF Pending
  <1>2. Cardinality(Pending) # 0
    BY <1>1, PendingFinite, FS_EmptySet
  <1> QED BY <1>2, PendingFinite DEF Types, NumbersTaken, Pending

-----------------------------------------------------------------------------
(* The number of builds. *)

LEMMA CountsStep ==
  ASSUME Types, Suffixes, Handles, NumbersTaken, Counts, Change
  PROVE  Counts'
  <1> DEFINE total == builds + creations
             InStep(t) == call[t].program # NULL /\ "increment" \in ToCome(t)
                          /\ "number" \notin ToCome(t)
  <1>1. /\ builds \in Nat /\ creations \in Nat /\ total \in Nat
        /\ \A p \in Programs \cup {NULL} : info[p].count \in Nat
        /\ \A t \in Threads : call[t].program \in Programs \cup {NULL}
        /\ info[NULL].count = 0
        /\ \A p \in Programs : info[p].count <= total
        /\ \A t \in Threads : InStep(t) => info[call[t].program].count < total
        /\ NULL \notin Programs
    BY ProgramNullAssumption DEF Types, Counts, Calls
  \* A step that keeps the counts, and what a call has to count.
  <1>2. ASSUME NEW t \in Threads, NEW step, NEW c, Moves(t, step, c), step # "number",
               c.program = call[t].program,
               UNCHANGED <<builds, creations>>,
               \A p \in Programs \cup {NULL} : info'[p].count = info[p].count
        PROVE  Counts'
    <2>1. /\ ToCome(t)' = ToCome(t) \ {step}
          /\ \A u \in Threads \ {t} : call'[u] = call[u] /\ ToCome(u)' = ToCome(u)
          /\ ToCome(t)' = {} \/ call'[t].program = call[t].program
      BY <1>2 DEF Moves
    <2>2. ASSUME NEW u \in Threads, InStep(u)'
          PROVE  InStep(u) /\ call'[u].program = call[u].program
      BY <1>2, <2>1, <2>2
    <2>3. \A p \in Programs : info'[p].count <= total'
      BY <1>1, <1>2
    <2>4. \A u \in Threads : InStep(u)' => info'[call'[u].program].count < total'
      BY <1>1, <1>2, <2>2
    <2> QED BY <1>1, <1>2, <2>3, <2>4 DEF Counts
  <1>3. ASSUME NEW t \in Threads, NEW op, NEW c, Starts(t, op, c),
               total' = total + 1, total' \in Nat
        PROVE  Counts'
    <2>1. \A p \in Programs \cup {NULL} : info'[p] = info[p]
      BY <1>3 DEF Starts
    <2>2. \A u \in Threads \ {t} : call'[u] = call[u] /\ ToCome(u)' = ToCome(u)
      BY <1>3 DEF Starts
    <2>3. call'[t].program \in Programs \cup {NULL}
      BY <1>3 DEF Starts, Calls
    <2>4. \A u \in Threads : InStep(u)' => info'[call'[u].program].count < total'
      <3> TAKE u \in Threads
      <3>1. call'[u].program \in Programs \cup {NULL}
        BY <1>1, <2>2, <2>3
      <3>2. ASSUME call'[u].program # NULL
            PROVE  info'[call'[u].program].count < total'
        BY <1>1, <1>3, <2>1, <3>1, <3>2
      <3> QED BY <3>2
    <2>5. \A p \in Programs : info'[p].count <= total'
      BY <1>1, <1>3, <2>1
    <2> QED BY <1>1, <2>1, <2>4, <2>5 DEF Counts
  <1>4. ASSUME NEW t \in Threads, Created(t)
        PROVE  Counts'
    <2>1. PICK op, c : Starts(t, op, c)
      BY <1>4 DEF Created
    <2>2. total' = total + 1 /\ total' \in Nat
      BY <1>1, <1>4 DEF Created
    <2> QED BY <1>3, <2>1, <2>2
  <1>5. ASSUME NEW t \in Threads, Built(t)
        PROVE  Counts'
    <2>1. PICK op, c : Starts(t, op, c)
      BY <1>5 DEF Built
    <2>2. total' = total + 1 /\ total' \in Nat
      BY <1>1, <1>5 DEF Built
    <2> QED BY <1>3, <2>1, <2>2
  <1>6. ASSUME NEW t \in Threads, Edits(t)
        PROVE  Counts'
    <2>1. PICK step \in EditSteps, c \in Calls :
             Moves(t, step, c) /\ c.program = call[t].program
      BY <1>6, EditsMove
    <2>2. UNCHANGED <<builds, creations, info>> /\ step # "number"
      BY <1>6, EditsMove DEF Kept, EditSteps
    <2> QED BY <1>2, <2>1, <2>2
  <1>7. ASSUME NEW t \in Threads, Makes(t)
        PROVE  Counts'
    <2>1. PICK c \in Calls : Moves(t, "create", c)
      BY <1>7 DEF Makes
    <2>2. /\ ToCome(t)' = ToCome(t) \ {"create"}
          /\ \A u \in Threads \ {t} : call'[u] = call[u] /\ ToCome(u)' = ToCome(u)
      BY <2>1 DEF Moves
    <2>3. UNCHANGED <<builds, creations, info>>
      BY <1>7 DEF Makes, Kept
    <2>4. "increment" \in ToCome(t) => "number" \in ToCome(t)
      <3>1. Order(t, "create")
        BY <1>7, StepsInOrder DEF Makes, Suffixes
      <3>2. call[t].op \in DOMAIN Steps
        BY <2>1 DEF Moves
      <3>3. call[t].op = "builtin" => "increment" \notin ToCome(t)
        <4>1. \A s \in ToCome(t) : \E j \in Asked(call[t].op) : Steps[call[t].op][j] = s
          BY <1>7, AtPosition DEF Makes, Suffixes
        <4> QED BY <4>1, StepLists DEF Asked
      <3> QED BY <3>1, <3>2, <3>3, StepLists DEF Order, Creates, Builds
    <2>5. ASSUME NEW u \in Threads, InStep(u)'
          PROVE  InStep(u) /\ call'[u].program = call[u].program
      BY <2>2, <2>4, <2>5
    <2>6. \A u \in Threads : InStep(u)' => info'[call'[u].program].count < total'
      BY <1>1, <2>3, <2>5
    <2> QED BY <1>1, <2>3, <2>6 DEF Counts
  <1>8. ASSUME NEW t \in Threads, Numbers(t)
        PROVE  Counts'
    <2>1. /\ Moves(t, "number", call[t]) /\ UNCHANGED <<builds, creations>>
          /\ info' = [info EXCEPT ![call[t].program].number = number,
                                  ![call[t].program].count = 0]
      BY <1>8 DEF Numbers, Kept
    <2>2. /\ "number" \in ToCome(t)
          /\ \A u \in Threads \ {t} : call'[u] = call[u] /\ ToCome(u)' = ToCome(u)
          /\ ToCome(t)' = {} \/ call'[t].program = call[t].program
      BY <2>1 DEF Moves
    <2>3. 0 < total
      BY <1>1, <2>2, PendingCreates
    <2>4. \A p \in Programs \cup {NULL} :
             info'[p].count = IF p = call[t].program THEN 0 ELSE info[p].count
      BY <1>1, <2>1 DEF Types
    <2>5. total' = total
      BY <2>1
    <2> HIDE DEF total
    <2>6. ASSUME NEW u \in Threads, InStep(u)'
          PROVE  info'[call'[u].program].count < total
      <3>1. CASE u = t
        <4>1. call'[t].program = call[t].program
          BY <2>2, <2>6, <3>1
        <4> QED BY <1>1, <2>3, <2>4, <3>1, <4>1
      <3>2. CASE u # t
        <4>1. InStep(u) /\ call'[u].program = call[u].program
          BY <2>2, <2>6, <3>2
        <4> QED BY <1>1, <2>3, <2>4, <4>1
      <3> QED BY <3>1, <3>2
    <2>7. \A p \in Programs : info'[p].count <= total
      BY <1>1, <2>4
    <2>8. info'[NULL].count = 0
      BY <1>1, <2>4
    <2>9. \A u \in Threads : InStep(u)' => info'[call'[u].program].count < total'
      BY <2>5, <2>6
    <2>10. \A p \in Programs : info'[p].count <= total'
      BY <2>5, <2>7
    <2> QED BY <2>8, <2>9, <2>10 DEF Counts, total
  <1>9. ASSUME NEW t \in Threads, SavesOne(t)
        PROVE  Counts'
    <2>1. UNCHANGED <<builds, creations>>
      BY <1>9 DEF SavesOne, Kept
    <2>2. CASE /\ Moves(t, "saveHash", call[t])
               /\ info' = IF call[t].program = NULL THEN info
                          ELSE [info EXCEPT ![call[t].program].hash = call[t].hash]
      <3>1. \A p \in Programs \cup {NULL} : info'[p].count = info[p].count
        BY <1>1, <2>2 DEF Types
      <3> QED BY <1>2, <2>1, <2>2, <3>1
    <2>3. CASE /\ Moves(t, "saveOptions", call[t])
               /\ info' = IF call[t].program = NULL \/ call[t].options = NULL THEN info
                          ELSE [info EXCEPT ![call[t].program].options = call[t].options]
      <3>1. \A p \in Programs \cup {NULL} : info'[p].count = info[p].count
        BY <1>1, <2>3 DEF Types
      <3> QED BY <1>2, <2>1, <2>3, <3>1
    <2>4. CASE /\ At(t, "increment") /\ Moves(t, "increment", call[t])
               /\ info' = IF call[t].program = NULL THEN info
                          ELSE [info EXCEPT ![call[t].program].count = @ + 1]
      <3>1. CASE call[t].program = NULL
        <4>1. \A p \in Programs \cup {NULL} : info'[p].count = info[p].count
          BY <2>4, <3>1
        <4> QED BY <1>2, <2>1, <2>4, <4>1
      <3>2. CASE call[t].program # NULL
        <4>1. /\ ToCome(t) = {"increment"} /\ ToCome(t)' = {}
              /\ \A u \in Threads \ {t} : call'[u] = call[u] /\ ToCome(u)' = ToCome(u)
          BY <2>4, StepsInOrder DEF Suffixes, Order, Moves
        <4>2. \A p \in Programs \cup {NULL} :
                 info'[p].count = IF p = call[t].program THEN info[p].count + 1
                                  ELSE info[p].count
          BY <1>1, <2>4, <3>2 DEF Types
        <4>3. info[call[t].program].count < total
          BY <1>1, <3>2, <4>1
        <4>4. \A p \in Programs : info'[p].count <= total'
          BY <1>1, <2>1, <4>2, <4>3
        <4>5. \A u \in Threads \ {t} : call[u].program # NULL => call[u].program # call[t].program
          BY <3>2 DEF Handles
        <4>6. \A u \in Threads : InStep(u)' => info'[call'[u].program].count < total'
          BY <1>1, <2>1, <4>1, <4>2, <4>5
        <4>7. info'[NULL].count = 0
          BY <1>1, <3>2, <4>2
        <4> QED BY <4>4, <4>6, <4>7 DEF Counts
      <3> QED BY <3>1, <3>2
    <2> QED BY <1>9, <2>2, <2>3, <2>4 DEF SavesOne
  <1>10. ASSUME NEW t \in Threads, BuildsProgram(t)
         PROVE  Counts'
    BY <1>2, <1>10 DEF BuildsProgram, Kept
  <1>11. ASSUME NEW t \in Threads, Writes(t)
         PROVE  Counts'
    BY <1>2, <1>11 DEF Writes, Kept, DumpSteps
  <1>12. ASSUME NEW p \in Programs, Release(p)
         PROVE  Counts'
    <2>1. UNCHANGED <<builds, creations, info, call>>
      BY <1>12 DEF Release
    <2> QED BY <1>1, <2>1 DEF Counts, ToCome
  <1>13. CASE Restart
    <2>1. /\ builds' = 0 /\ creations' = 0 /\ info' = [p \in Programs \cup {NULL} |-> Blank]
          /\ \A u \in Threads : call'[u].todo = {}
      BY <1>13 DEF Restart, Idle
    <2>2. \A u \in Threads : ToCome(u)' = {}
      BY <2>1 DEF ToCome
    <2>3. \A p \in Programs \cup {NULL} : info'[p].count = 0
      BY <2>1 DEF Blank
    <2> QED BY <2>1, <2>2, <2>3 DEF Counts
  <1> QED BY <1>4, <1>5, <1>6, <1>7, <1>8, <1>9, <1>10, <1>11, <1>12, <1>13 DEF Change

-----------------------------------------------------------------------------
(* Programs that have their number. *)

\* A step of another kind gives no program a number.
LEMMA NumberedMove ==
  ASSUME Types, NEW t \in Threads, NEW step, NEW c, Moves(t, step, c), step # "number",
         c.program = call[t].program, NEW p \in Programs, Numbered(p)',
         live[p] # NULL, live'[p].op = live[p].op
  PROVE  Numbered(p)
  <1>1. /\ ToCome(t)' = ToCome(t) \ {step}
        /\ \A u \in Threads \ {t} : call'[u] = call[u] /\ ToCome(u)' = ToCome(u)
        /\ ToCome(t)' = {} \/ call'[t].program = call[t].program
    BY DEF Moves
  <1>2. \A u \in Threads : call'[u].program = p => "number" \notin ToCome(u)'
    BY DEF Numbered
  <1>3. \A u \in Threads : call[u].program = p => "number" \notin ToCome(u)
    BY <1>1, <1>2
  <1> QED BY <1>3 DEF Numbered

LEMMA NumberedBefore ==
  ASSUME Types, Suffixes, Handles, Change, NEW p \in Programs, Numbered(p)'
  PROVE  /\ ~Restart
         /\ \/ /\ Numbered(p) /\ info'[p].number = info[p].number
               /\ live'[p].op = live[p].op
               /\ ~\E t \in Threads : Numbers(t) /\ call[t].program = p
            \/ /\ info'[p].number = number /\ info'[p].count = 0
               /\ \E t \in Threads : Numbers(t) /\ call[t].program = p
  <1> DEFINE Same == /\ Numbered(p) /\ info'[p].number = info[p].number
                     /\ live'[p].op = live[p].op
  <1>0. p # NULL /\ \A u \in Threads : call[u].program \in Programs \cup {NULL}
    BY ProgramNullAssumption DEF Types, Calls
  <1>1. ASSUME NEW t \in Threads, Created(t) \/ Built(t)
        PROVE  Same
    <2>1. PICK op, c : Starts(t, op, c)
      BY <1>1 DEF Created, Built
    <2>2. /\ info' = info /\ live' = live /\ ToCome(t) = {}
          /\ \A u \in Threads \ {t} : call'[u] = call[u] /\ ToCome(u)' = ToCome(u)
      BY <2>1 DEF Starts
    <2> QED BY <2>2 DEF Numbered
  <1>2. ASSUME NEW t \in Threads, Edits(t)
        PROVE  Same
    <2>1. PICK step \in EditSteps, c \in Calls :
             Moves(t, step, c) /\ c.program = call[t].program
      BY <1>2, EditsMove
    <2>2. info' = info /\ live' = live /\ step # "number"
      BY <1>2, EditsMove DEF EditSteps
    <2>3. live[p] # NULL
      BY <2>2 DEF Numbered
    <2> QED BY <2>1, <2>2, <2>3, NumberedMove
  <1>3. ASSUME NEW t \in Threads, Makes(t)
        PROVE  Same
    <2>1. PICK c \in Calls :
             /\ Moves(t, "create", c)
             /\ \/ \E q \in Programs, held \in Held :
                      /\ live[q] = NULL /\ live' = [live EXCEPT ![q] = held]
                      /\ held.op = call[t].op /\ c.program = q
                \/ live' = live /\ c.program = call[t].program
      BY <1>3 DEF Makes
    <2>2. info' = info
      BY <1>3 DEF Makes
    <2>3. CASE live' = live /\ c.program = call[t].program
      <3>1. live[p] # NULL
        BY <2>3 DEF Numbered
      <3> QED BY <2>1, <2>2, <2>3, <3>1, NumberedMove
    <2>4. ASSUME NEW q \in Programs, NEW held \in Held,
                 live[q] = NULL, live' = [live EXCEPT ![q] = held],
                 held.op = call[t].op, c.program = q
          PROVE  Same
      <3>1. live'[q] = held /\ \A r \in Programs \ {q} : live'[r] = live[r]
        BY <2>4 DEF Types
      <3>2. /\ ToCome(t)' = ToCome(t) \ {"create"} /\ "create" \in ToCome(t)
            /\ \A u \in Threads \ {t} : call'[u] = call[u] /\ ToCome(u)' = ToCome(u)
            /\ ToCome(t)' = {} \/ call'[t].program = q
            /\ call[t].op \in DOMAIN Steps
        BY <2>1, <2>4 DEF Moves
      <3>3. call[t].program = NULL
        BY <3>2 DEF Handles
      <3>4. call[t].op # "builtin" => "number" \in ToCome(t)
        <4>1. Order(t, "create")
          BY <1>3, StepsInOrder DEF Makes, Suffixes
        <4> QED BY <3>2, <4>1, StepLists DEF Order, Creates, Builds
      <3>5. p # q
        <4>1. SUFFICES ASSUME p = q PROVE FALSE
          OBVIOUS
        <4>2. live'[p].op # "builtin"
          BY DEF Numbered
        <4>3. "number" \in ToCome(t)'
          BY <2>4, <3>1, <3>2, <3>4, <4>1, <4>2
        <4>4. call'[t].program = p
          BY <3>2, <4>1, <4>3
        <4> QED BY <4>3, <4>4 DEF Numbered
      <3>6. Numbered(p)
        <4>1. \A u \in Threads : call[u].program = p => "number" \notin ToCome(u)
          BY <1>0, <3>2, <3>3 DEF Numbered
        <4> QED BY <3>1, <3>5, <4>1 DEF Numbered
      <3> QED BY <2>2, <3>1, <3>5, <3>6
    <2> QED BY <2>1, <2>3, <2>4
  <1>4. ASSUME NEW t \in Threads, Numbers(t)
        PROVE  IF call[t].program = p THEN info'[p].number = number /\ info'[p].count = 0
               ELSE Same
    <2>1. /\ Moves(t, "number", call[t]) /\ live' = live
          /\ info' = [info EXCEPT ![call[t].program].number = number,
                                  ![call[t].program].count = 0]
      BY <1>4 DEF Numbers
    <2>2. CASE call[t].program = p
      BY <2>1, <2>2 DEF Types
    <2>3. CASE call[t].program # p
      <3>1. info'[p] = info[p]
        BY <2>1, <2>3 DEF Types
      <3>2. \A u \in Threads \ {t} : call'[u] = call[u] /\ ToCome(u)' = ToCome(u)
        BY <2>1 DEF Moves
      <3>3. Numbered(p)
        BY <2>1, <2>3, <3>2 DEF Numbered
      <3> QED BY <2>1, <2>3, <3>1, <3>3
    <2> QED BY <2>2, <2>3
  <1>5. ASSUME NEW t \in Threads, SavesOne(t)
        PROVE  Same
    <2>1. PICK step \in {"saveHash", "saveOptions", "increment"} : Moves(t, step, call[t])
      BY <1>5 DEF SavesOne
    <2>2. info'[p].number = info[p].number
      BY <1>0, <1>5 DEF SavesOne, Types
    <2>3. live' = live /\ step # "number"
      BY <1>5 DEF SavesOne
    <2>4. live[p] # NULL
      BY <2>3 DEF Numbered
    <2> QED BY <2>1, <2>2, <2>3, <2>4, NumberedMove
  <1>6. ASSUME NEW t \in Threads, BuildsProgram(t)
        PROVE  Same
    <2>1. Moves(t, "build", call[t]) /\ info' = info
          /\ live' = [live EXCEPT ![call[t].program].builds = @ + 1]
      BY <1>6 DEF BuildsProgram
    <2>2. live[p] # NULL /\ live'[p].op = live[p].op
      <3>1. CASE p = call[t].program
        <4>1. live[p] \in Held
          BY <1>0, <3>1 DEF Types, Handles
        <4>2. live'[p] = [live[p] EXCEPT !.builds = @ + 1]
          BY <2>1, <3>1 DEF Types
        <4> QED BY <4>1, <4>2, ProgramNullAssumption DEF Held
      <3>2. CASE p # call[t].program
        <4>1. live'[p] = live[p]
          BY <2>1, <3>2 DEF Types
        <4> QED BY <4>1 DEF Numbered
      <3> QED BY <3>1, <3>2
    <2> QED BY <2>1, <2>2, NumberedMove
  <1>7. ASSUME NEW t \in Threads, Writes(t)
        PROVE  Same
    <2>1. PICK step \in DumpSteps : Moves(t, step, call[t])
      BY <1>7 DEF Writes
    <2>2. live' = live /\ info' = info /\ step # "number"
      BY <1>7 DEF Writes, DumpSteps
    <2>3. live[p] # NULL
      BY <2>2 DEF Numbered
    <2> QED BY <2>1, <2>2, <2>3, NumberedMove
  <1>8. ASSUME NEW q \in Programs, Release(q)
        PROVE  Same
    <2>1. call' = call /\ info' = info /\ live' = [live EXCEPT ![q] = NULL]
      BY <1>8 DEF Release
    <2>2. p # q /\ live'[p] = live[p]
      BY <2>1 DEF Numbered, Types
    <2> QED BY <2>1, <2>2 DEF Numbered, ToCome
  <1>9. ~Restart
    <2>1. Restart => live'[p] = NULL
      BY DEF Restart
    <2> QED BY <2>1 DEF Numbered
  <1>10. CASE \E t \in Threads : Numbers(t) /\ call[t].program = p
    BY <1>4, <1>9, <1>10
  <1>11. CASE ~\E t \in Threads : Numbers(t) /\ call[t].program = p
    BY <1>1, <1>2, <1>3, <1>4, <1>5, <1>6, <1>7, <1>8, <1>9, <1>11 DEF Change
  <1> QED BY <1>10, <1>11

LEMMA NumberGrows ==
  ASSUME Types, Change, ~Restart
  PROVE  /\ number' = number \/ number' = number + 1
         /\ (\E t \in Threads : Numbers(t)) => number' = number + 1
         /\ run' = run /\ config' = config /\ inject' = inject
  <1>1. ASSUME NEW t \in Threads, Created(t) \/ Built(t)
        PROVE  UNCHANGED <<number, run, config, inject>>
    <2>1. PICK op, c : Starts(t, op, c)
      BY <1>1 DEF Created, Built
    <2> QED BY <2>1 DEF Starts
  <1>2. ASSUME NEW t \in Threads,
               Edits(t) \/ Makes(t) \/ SavesOne(t) \/ BuildsProgram(t) \/ Writes(t)
        PROVE  UNCHANGED <<number, run, config, inject>>
    BY <1>2 DEF Edits, Makes, SavesOne, BuildsProgram, Writes, Kept
  <1>3. ASSUME NEW t \in Threads, Numbers(t)
        PROVE  number' = number + 1 /\ UNCHANGED <<run, config, inject>>
    BY <1>3 DEF Numbers, Kept
  <1>4. ASSUME NEW p \in Programs, Release(p)
        PROVE  UNCHANGED <<number, run, config, inject>>
    BY <1>4 DEF Release
  <1> QED BY <1>1, <1>2, <1>3, <1>4 DEF Change

LEMMA NumberingStep ==
  ASSUME Types, Suffixes, Handles, Numbering, Change
  PROVE  Numbering'
  <1>1. ASSUME NEW p \in Programs, Numbered(p)'
        PROVE  /\ info'[p].number < number'
               /\ \A q \in Programs \ {p} : Numbered(q)' => info'[p].number # info'[q].number
    <2>1. number \in Nat /\ \A q \in Programs : info[q].number \in Nat
      BY DEF Types
    <2>2. ~Restart
      BY <1>1, NumberedBefore
    <2>3. /\ number' = number \/ number' = number + 1
          /\ (\E t \in Threads : Numbers(t)) => number' = number + 1
      BY <2>2, NumberGrows
    <2>4. ASSUME NEW q \in Programs, Numbered(q)'
          PROVE  \/ Numbered(q) /\ info'[q].number = info[q].number
                 \/ /\ info'[q].number = number
                    /\ \E t \in Threads : Numbers(t) /\ call[t].program = q
      BY <2>4, NumberedBefore
    <2>5. \A q \in Programs : Numbered(q) => info[q].number < number
      BY DEF Numbering
    <2>6. info'[p].number < number'
      BY <1>1, <2>1, <2>3, <2>4, <2>5
    <2>7. ASSUME NEW q \in Programs \ {p}, Numbered(q)'
          PROVE  info'[p].number # info'[q].number
      <3>1. CASE /\ Numbered(p) /\ info'[p].number = info[p].number
                 /\ Numbered(q) /\ info'[q].number = info[q].number
        BY <3>1 DEF Numbering
      <3>2. CASE /\ Numbered(p) /\ info'[p].number = info[p].number
                 /\ info'[q].number = number
        BY <2>1, <2>5, <3>2
      <3>3. CASE /\ info'[p].number = number
                 /\ Numbered(q) /\ info'[q].number = info[q].number
        BY <2>1, <2>5, <3>3
      <3>4. ASSUME NEW t \in Threads, Numbers(t), call[t].program = p,
                   NEW u \in Threads, Numbers(u), call[u].program = q
            PROVE  FALSE
        <4>1. call[t].program # call[u].program
          BY <3>4
        <4>2. /\ \A w \in Threads \ {t} : ToCome(w)' = ToCome(w)
              /\ ToCome(u)' = ToCome(u) \ {"number"} /\ "number" \in ToCome(u)
          BY <3>4 DEF Numbers, Moves
        <4> QED BY <4>1, <4>2
      <3> QED BY <1>1, <2>4, <2>7, <3>1, <3>2, <3>3, <3>4
    <2> QED BY <2>6, <2>7
  <1> QED BY <1>1 DEF Numbering

-----------------------------------------------------------------------------
(* Files: a step writes at most one. *)

NameFields == {"dir", "kind", "number", "hash", "count", "options"}

\* The input of a program, written with its number.
Dumped(t, f) ==
    /\ Numbers(t) /\ call[t].op \in Texts /\ AnyOf(DumpControls[call[t].op])
    /\ f.run = run /\ f.op = call[t].op /\ f.program = call[t].program
    /\ DOMAIN f.name = NameFields
    /\ f.name.kind = call[t].op /\ f.name.number = Number(number)
    /\ f.name.hash = call[t].hash /\ f.name.count = NULL /\ f.content = call[t].content

\* A file about a build, written with what the layer knows of the program.
Wrote(t, f) ==
    LET step == StepOf(f.name.kind)
        i == info[call[t].program]
    IN  /\ At(t, step) /\ Moves(t, step, call[t]) /\ step \in DumpSteps
        /\ Kept /\ UNCHANGED <<number, info, live>>
        /\ f.run = run /\ f.op = call[t].op /\ f.program = call[t].program
        /\ DOMAIN f.name = NameFields
        /\ f.name.number = Number(i.number) /\ f.name.hash = i.hash
        /\ f.name.count = i.count /\ f.name.options = i.options
        /\ f.name.kind \notin Texts \ {"binary"}
        /\ f.name.kind \in {"binary", "spv"} => f.content \in Contents
        /\ IF step = "dumpOptions"
           THEN /\ f.name.kind \in OptionKinds \cup {"link_options"}
                /\ f.name.kind = "link_options" <=> call[t].op = "link"
                /\ f.content = Given(call[t])
                /\ call[t].new # NULL \/ call[t].options # NULL
           ELSE /\ f.name.kind \notin OptionKinds \cup {"link_options"}
                /\ call[t].program # NULL /\ AnyOf(StepControls.increment)

LEMMA NameParts ==
  ASSUME NEW dir, NEW kind, NEW n, NEW h, NEW i, NEW c, NEW content
  PROVE  LET name == Name(dir, kind, n, h)
             build == BuildName(dir, kind, n, i)
         IN  /\ DOMAIN name = NameFields /\ DOMAIN build = NameFields
             /\ name.kind = kind /\ name.number = n /\ name.hash = h /\ name.count = NULL
             /\ name.options = NULL
             /\ build.kind = kind /\ build.number = n /\ build.hash = i.hash
             /\ build.count = i.count /\ build.options = i.options
  BY DEF Name, BuildName, NameFields

LEMMA WrittenParts ==
  ASSUME NEW c, NEW name, NEW content
  PROVE  LET f == Written(c, name, content) IN
         /\ f.run = run /\ f.op = c.op /\ f.program = c.program
         /\ f.name = name /\ f.content = content
  BY DEF Written

LEMMA FilesChange ==
  ASSUME Types, Suffixes, Handles, Change
  PROVE  \/ Restart
         \/ files' = files
         \/ \E f : /\ files' = files \cup {f}
                   /\ \E t \in Threads : Dumped(t, f) \/ Wrote(t, f)
  <1>1. ASSUME NEW t \in Threads, Created(t) \/ Built(t)
        PROVE  files' = files
    <2>1. PICK op, c : Starts(t, op, c)
      BY <1>1 DEF Created, Built
    <2> QED BY <2>1 DEF Starts
  <1>2. ASSUME NEW t \in Threads, Edits(t) \/ Makes(t) \/ SavesOne(t) \/ BuildsProgram(t)
        PROVE  files' = files
    BY <1>2 DEF Edits, Makes, SavesOne, BuildsProgram
  <1>3. ASSUME NEW t \in Threads, Numbers(t)
        PROVE  files' = files \/ \E f : files' = files \cup {f} /\ Dumped(t, f)
    <2>1. CASE files' # files
      <3>1. PICK dir : files' = files \cup {Written(call[t],
                          Name(dir, call[t].op, Number(number), call[t].hash), call[t].content)}
        BY <1>3, <2>1 DEF Numbers
      <3> DEFINE name == Name(dir, call[t].op, Number(number), call[t].hash)
                 f == Written(call[t], name, call[t].content)
      <3>2. /\ f.run = run /\ f.op = call[t].op /\ f.program = call[t].program
            /\ f.name = name /\ f.content = call[t].content
        BY WrittenParts
      <3>3. /\ DOMAIN name = NameFields
            /\ name.kind = call[t].op /\ name.number = Number(number)
            /\ name.hash = call[t].hash /\ name.count = NULL
        BY NameParts
      <3>4. call[t].op \in Texts /\ AnyOf(DumpControls[call[t].op])
        BY <1>3, <2>1 DEF Numbers
      <3>5. files' = files \cup {f}
        BY <3>1
      <3> HIDE DEF f, name
      <3>6. Dumped(t, f)
        BY <1>3, <3>2, <3>3, <3>4 DEF Dumped
      <3> QED BY <3>5, <3>6
    <2> QED BY <2>1
  <1>4. ASSUME NEW t \in Threads, Writes(t)
        PROVE  files' = files \/ \E f : files' = files \cup {f} /\ Wrote(t, f)
    <2> DEFINE i == info[call[t].program]
    <2>1. CASE files' # files
      <3>1. PICK step \in DumpSteps :
               /\ At(t, step) /\ Moves(t, step, call[t])
               /\ \E dir, kind, content :
                     /\ files' = files \cup {Written(call[t],
                                      BuildName(dir, kind, Number(i.number), i), content)}
                     /\ StepOf(kind) = step
                     /\ kind \notin Texts \ {"binary"}
                     /\ kind \in {"binary", "spv"} => content \in Contents
                     /\ IF step = "dumpOptions"
                        THEN /\ kind \in OptionKinds \cup {"link_options"}
                             /\ kind = "link_options" <=> call[t].op = "link"
                             /\ content = Given(call[t])
                             /\ call[t].new # NULL \/ call[t].options # NULL
                        ELSE /\ kind \notin OptionKinds \cup {"link_options"}
                             /\ call[t].program # NULL /\ AnyOf(StepControls.increment)
        BY <1>4, <2>1 DEF Writes
      <3>2. PICK dir, kind, content :
                     /\ files' = files \cup {Written(call[t],
                                      BuildName(dir, kind, Number(i.number), i), content)}
                     /\ StepOf(kind) = step
                     /\ kind \notin Texts \ {"binary"}
                     /\ kind \in {"binary", "spv"} => content \in Contents
                     /\ IF step = "dumpOptions"
                        THEN /\ kind \in OptionKinds \cup {"link_options"}
                             /\ kind = "link_options" <=> call[t].op = "link"
                             /\ content = Given(call[t])
                             /\ call[t].new # NULL \/ call[t].options # NULL
                        ELSE /\ kind \notin OptionKinds \cup {"link_options"}
                             /\ call[t].program # NULL /\ AnyOf(StepControls.increment)
        BY <3>1
      <3> DEFINE name == BuildName(dir, kind, Number(i.number), i)
                 f == Written(call[t], name, content)
      <3>3. /\ f.run = run /\ f.op = call[t].op /\ f.program = call[t].program
            /\ f.name = name /\ f.content = content
        BY WrittenParts
      <3>4. /\ DOMAIN name = NameFields
            /\ name.kind = kind /\ name.number = Number(i.number) /\ name.hash = i.hash
            /\ name.count = i.count /\ name.options = i.options
        BY NameParts
      <3>5. files' = files \cup {f}
        BY <3>2
      <3>6. Kept /\ UNCHANGED <<number, info, live>>
        BY <1>4 DEF Writes
      <3>7. f.name.kind = kind
        BY <3>3, <3>4
      <3> HIDE DEF f, name
      <3>8. Wrote(t, f)
        BY <3>1, <3>2, <3>3, <3>4, <3>6, <3>7 DEF Wrote
      <3> QED BY <3>5, <3>8
    <2> QED BY <2>1
  <1>5. ASSUME NEW p \in Programs, Release(p)
        PROVE  files' = files
    BY <1>5 DEF Release
  <1> QED BY <1>1, <1>2, <1>3, <1>4, <1>5 DEF Change

\* The program of a new file has its number, which is in the name.
LEMMA WriterNumbered ==
  ASSUME Types, Suffixes, Handles, NEW t \in Threads, NEW f, Wrote(t, f), Right(f)
  PROVE  /\ call[t].program \in Programs /\ Numbered(call[t].program)
         /\ f.name.number = info[call[t].program].number
         /\ \A u \in Threads \ {t} : call[u].program # call[t].program
  <1> DEFINE p == call[t].program
             step == StepOf(f.name.kind)
  <1>1. /\ Order(t, step) /\ call[t].op \in Builds \cup {"link"}
        /\ call[t].op \in Builds => "number" \notin ToCome(t)
    BY StepsInOrder DEF Wrote, Suffixes, Order
  <1>2. p # NULL
    BY <1>1 DEF Handles, Right, Wrote
  <1>3. p \in Programs
    BY <1>2 DEF Types, Calls
  <1>4. "number" \notin ToCome(t)
    <2>1. CASE call[t].op \in Builds
      BY <1>1, <2>1
    <2>2. CASE call[t].op = "link"
      <3>1. f.name.kind # "log"
        BY <2>2 DEF Right, Wrote
      <3>2. step # "log"
        BY <3>1 DEF StepOf
      <3> QED BY <1>1, <3>2 DEF Order, Wrote
    <2> QED BY <1>1, <2>1, <2>2
  <1>5. /\ live[p] # NULL /\ \A u \in Threads \ {t} : call[u].program # p
        /\ live[p].op \in Texts \cup {"link"}
    BY <1>1, <1>2 DEF Handles, Builds
  <1>6. live[p].op # "builtin"
    BY <1>5 DEF Texts
  <1>7. f.name.number = info[p].number
    BY DEF Wrote, Right, Number
  <1> QED BY <1>3, <1>4, <1>5, <1>6, <1>7 DEF Numbered

LEMMA InfoNumbersStep ==
  ASSUME Types, InfoNumbers, Change
  PROVE  InfoNumbers'
  <1> DEFINE Keys == Programs \cup {NULL}
  <1>0. number \in Nat /\ \A p \in Keys : info[p].number \in Nat /\ info[p].number <= number
    BY DEF Types, InfoNumbers
  <1>1. ASSUME NEW t \in Threads, Created(t) \/ Built(t)
        PROVE  InfoNumbers'
    <2>1. PICK op, c : Starts(t, op, c)
      BY <1>1 DEF Created, Built
    <2> QED BY <1>0, <2>1 DEF Starts, InfoNumbers
  <1>2. ASSUME NEW t \in Threads, Edits(t) \/ Makes(t) \/ BuildsProgram(t) \/ Writes(t)
        PROVE  InfoNumbers'
    BY <1>0, <1>2 DEF Edits, Makes, BuildsProgram, Writes, InfoNumbers
  <1>3. ASSUME NEW t \in Threads, Numbers(t)
        PROVE  InfoNumbers'
    <2>1. /\ number' = number + 1
          /\ \A p \in Keys : info'[p].number = number \/ info'[p].number = info[p].number
      BY <1>3 DEF Numbers, Types
    <2> QED BY <1>0, <2>1 DEF InfoNumbers
  <1>4. ASSUME NEW t \in Threads, SavesOne(t)
        PROVE  InfoNumbers'
    <2>1. number' = number /\ \A p \in Keys : info'[p].number = info[p].number
      BY <1>4 DEF SavesOne, Types
    <2> QED BY <1>0, <2>1 DEF InfoNumbers
  <1>5. ASSUME NEW p \in Programs, Release(p)
        PROVE  InfoNumbers'
    BY <1>0, <1>5 DEF Release, InfoNumbers
  <1>6. CASE Restart
    BY <1>6 DEF Restart, InfoNumbers, Blank
  <1> QED BY <1>1, <1>2, <1>3, <1>4, <1>5, <1>6 DEF Change

\* No file of the second run is there when it begins.
LEMMA RestartFiles ==
  ASSUME FileNumbers, Restart
  PROVE  run' = 2 /\ files' \subseteq files /\ \A f \in files' : f.run = 1 /\ ~Right(f)'
  <1>1. run = 1 /\ run' = 2 /\ files' \subseteq files
    BY DEF Restart
  <1>2. \A f \in files : f.run = 1
    BY <1>1 DEF FileNumbers
  <1> QED BY <1>1, <1>2 DEF Right

LEMMA FileNumbersStep ==
  ASSUME Types, Suffixes, Handles, Numbering, FileNumbers, Change
  PROVE  FileNumbers'
  <1>0. number \in Nat /\ run \in 1 .. 2 /\ NULL \notin Nat
    BY ProgramNullAssumption DEF Types
  <1>1. CASE Restart
    <2>1. run' = 2 /\ files' \subseteq files /\ \A f \in files' : f.run = 1 /\ ~Right(f)'
      BY <1>1, RestartFiles
    <2> QED BY <2>1 DEF FileNumbers
  <1>2. CASE ~Restart
    <2>1. run' = run /\ (number' = number \/ number' = number + 1)
      BY <1>2, NumberGrows
    <2>2. \A f : Right(f)' <=> Right(f)
      BY <2>1 DEF Right
    <2>3. ASSUME NEW f \in files
          PROVE  /\ f.run \in 1 .. run' /\ f.name.count \in Nat \cup {NULL}
                 /\ Right(f)' => f.name.number \in Nat /\ f.name.number < number'
      BY <1>0, <2>1, <2>2 DEF FileNumbers
    <2>4. ASSUME NEW t \in Threads, NEW f, Dumped(t, f)
          PROVE  /\ f.run \in 1 .. run' /\ f.name.count \in Nat \cup {NULL}
                 /\ Right(f)' => f.name.number \in Nat /\ f.name.number < number'
      <3>1. f.run = run /\ f.name.count = NULL /\ number' = number + 1
            /\ (f.name.number # NULL => f.name.number = number)
        BY <2>4 DEF Dumped, Numbers, Number
      <3> QED BY <1>0, <2>1, <2>2, <3>1 DEF Right
    <2>5. ASSUME NEW t \in Threads, NEW f, Wrote(t, f)
          PROVE  /\ f.run \in 1 .. run' /\ f.name.count \in Nat \cup {NULL}
                 /\ Right(f)' => f.name.number \in Nat /\ f.name.number < number'
      <3>1. f.run = run /\ number' = number /\ f.name.count = info[call[t].program].count
        BY <2>5 DEF Wrote
      <3>2. call[t].program \in Programs \cup {NULL}
        BY DEF Types, Calls
      <3>3. f.name.count \in Nat
        BY <3>1, <3>2 DEF Types
      <3>4. ASSUME Right(f)
            PROVE  f.name.number \in Nat /\ f.name.number < number
        <4>1. /\ call[t].program \in Programs /\ Numbered(call[t].program)
              /\ f.name.number = info[call[t].program].number
          BY <2>5, <3>4, WriterNumbered
        <4> QED BY <4>1 DEF Numbering, Types
      <3> QED BY <1>0, <2>1, <2>2, <3>1, <3>3, <3>4
    <2> QED BY <1>2, <2>3, <2>4, <2>5, FilesChange DEF FileNumbers
  <1> QED BY <1>1, <1>2

-----------------------------------------------------------------------------
(* The names of the files about builds are used once. *)

\* A call that works on a program worked on it before, or begins to build it.
LEMMA ProgramBefore ==
  ASSUME Types, Suffixes, Handles, Change, ~Restart, NEW p \in Programs, live[p] # NULL,
         NEW t \in Threads, call'[t].program = p
  PROVE  \/ /\ call[t].program = p /\ call'[t].op = call[t].op
            /\ ToCome(t)' \subseteq ToCome(t)
         \/ /\ call[t] = NoCall /\ ToCome(t) = {} /\ call'[t].op \in Builds
            /\ live[p].op \in Texts /\ call'[t].program = p
            /\ "build" \in ToCome(t)' /\ "number" \notin ToCome(t)'
            /\ On("InjectProgramSource") => "injectOptions" \in ToCome(t)'
            /\ AnyOf(SavesHash) => "saveOptions" \in ToCome(t)'
            /\ \A u \in Threads : call[u].program # p
  <1>0. p # NULL
    BY ProgramNullAssumption
  <1>1. ASSUME NEW u \in Threads, Created(u)
        PROVE  call[t].program = p /\ call'[t].op = call[t].op /\ ToCome(t)' \subseteq ToCome(t)
    <2>1. PICK op, c : Starts(u, op, c) /\ c.program = NULL
      BY <1>1 DEF Created
    <2> QED BY <1>0, <2>1 DEF Starts
  <1>2. ASSUME NEW u \in Threads, Built(u)
        PROVE  \/ /\ call[t].program = p /\ call'[t].op = call[t].op
                  /\ ToCome(t)' \subseteq ToCome(t)
               \/ /\ call[t] = NoCall /\ ToCome(t) = {} /\ call'[t].op \in Builds
                  /\ live[p].op \in Texts
                  /\ "build" \in ToCome(t)' /\ "number" \notin ToCome(t)'
                  /\ On("InjectProgramSource") => "injectOptions" \in ToCome(t)'
                  /\ AnyOf(SavesHash) => "saveOptions" \in ToCome(t)'
                  /\ \A w \in Threads : call[w].program # p
    <2>1. PICK op \in Builds, q \in Programs, o \in Options \cup {NULL} :
             /\ Starts(u, op, [NoCall EXCEPT !.program = q, !.options = o])
             /\ live[q].op \in Texts
             /\ \A w \in Threads : call[w].program # q
      BY <1>2 DEF Built
    <2>2. call'[u].program = q
      BY <2>1 DEF Starts, NoCall
    <2>3. CASE t = u
      BY <2>1, <2>2, <2>3 DEF Starts
    <2>4. CASE t # u
      BY <2>1, <2>4 DEF Starts
    <2> QED BY <2>3, <2>4
  <1>3. ASSUME NEW u \in Threads, NEW step, NEW c, Moves(u, step, c), c.program # p \/ t # u
               \/ c.program = call[u].program
        PROVE  call[t].program = p /\ call'[t].op = call[t].op /\ ToCome(t)' \subseteq ToCome(t)
    <2>1. NoCall.program = NULL
      BY DEF NoCall
    <2> QED BY <1>0, <1>3, <2>1 DEF Moves
  <1>4. ASSUME NEW u \in Threads, Edits(u)
        PROVE  call[t].program = p /\ call'[t].op = call[t].op /\ ToCome(t)' \subseteq ToCome(t)
    <2>1. PICK step \in EditSteps, c \in Calls : Moves(u, step, c) /\ c.program = call[u].program
      BY <1>4, EditsMove
    <2> QED BY <1>3, <2>1
  <1>5. ASSUME NEW u \in Threads, Makes(u)
        PROVE  call[t].program = p /\ call'[t].op = call[t].op /\ ToCome(t)' \subseteq ToCome(t)
    <2>1. PICK c \in Calls : Moves(u, "create", c) /\ (c.program # p \/ c.program = call[u].program)
      BY <1>5 DEF Makes
    <2> QED BY <1>3, <2>1
  <1>6. ASSUME NEW u \in Threads, Numbers(u) \/ SavesOne(u) \/ BuildsProgram(u) \/ Writes(u)
        PROVE  call[t].program = p /\ call'[t].op = call[t].op /\ ToCome(t)' \subseteq ToCome(t)
    <2>1. \E step : Moves(u, step, call[u])
      BY <1>6 DEF Numbers, SavesOne, BuildsProgram, Writes
    <2> QED BY <1>3, <2>1
  <1>7. ASSUME NEW q \in Programs, Release(q)
        PROVE  call[t].program = p /\ call'[t].op = call[t].op /\ ToCome(t)' \subseteq ToCome(t)
    BY <1>7 DEF Release, ToCome
  <1> QED BY <1>1, <1>2, <1>4, <1>5, <1>6, <1>7 DEF Change

\* The builds of a program are counted at the end of a call.
LEMMA CountBefore ==
  ASSUME Types, Suffixes, Handles, Change, ~Restart, NEW p \in Programs, live[p] # NULL,
         ~\E t \in Threads : Numbers(t) /\ call[t].program = p
  PROVE  \/ /\ info'[p].count = info[p].count
            /\ \A t \in Threads : call[t].program = p /\ "increment" \in ToCome(t) =>
                  /\ call'[t].program = p /\ call'[t].op = call[t].op
                  /\ "increment" \in ToCome(t)' /\ ToCome(t)' \subseteq ToCome(t)
         \/ /\ info'[p].count = info[p].count + 1
            /\ \E t \in Threads : /\ call[t].program = p /\ At(t, "increment")
                                  /\ Moves(t, "increment", call[t]) /\ live' = live
  <1> DEFINE Same == /\ info'[p].count = info[p].count
                     /\ \A t \in Threads : call[t].program = p /\ "increment" \in ToCome(t) =>
                           /\ call'[t].program = p /\ call'[t].op = call[t].op
                           /\ "increment" \in ToCome(t)' /\ ToCome(t)' \subseteq ToCome(t)
  <1>0. p # NULL
    BY ProgramNullAssumption
  <1>1. ASSUME NEW u \in Threads, Created(u) \/ Built(u)
        PROVE  Same
    <2>1. PICK op, c : Starts(u, op, c)
      BY <1>1 DEF Created, Built
    <2> QED BY <1>0, <2>1 DEF Starts
  <1>2. ASSUME NEW u \in Threads, NEW step, NEW c, Moves(u, step, c), step # "increment",
               c.program = call[u].program \/ call[u].program # p,
               info'[p].count = info[p].count
        PROVE  Same
    BY <1>2 DEF Moves
  <1>3. ASSUME NEW u \in Threads, Edits(u)
        PROVE  Same
    <2>1. PICK step \in EditSteps, c \in Calls : Moves(u, step, c) /\ c.program = call[u].program
      BY <1>3, EditsMove
    <2>2. info' = info /\ step # "increment"
      BY <1>3, EditsMove DEF EditSteps
    <2> QED BY <1>2, <2>1, <2>2
  <1>4. ASSUME NEW u \in Threads, Makes(u)
        PROVE  Same
    <2>1. PICK c \in Calls : Moves(u, "create", c)
      BY <1>4 DEF Makes
    <2>2. call[u].program = NULL
      BY <2>1 DEF Moves, Handles
    <2>3. info' = info
      BY <1>4 DEF Makes
    <2> QED BY <1>0, <1>2, <2>1, <2>2, <2>3
  <1>5. ASSUME NEW u \in Threads, Numbers(u)
        PROVE  Same
    <2>1. call[u].program # p
      BY <1>5
    <2>2. info'[p].count = info[p].count
      BY <1>5, <2>1 DEF Numbers, Types
    <2> QED BY <1>2, <1>5, <2>1, <2>2 DEF Numbers
  <1>6. ASSUME NEW u \in Threads, SavesOne(u)
        PROVE  \/ Same
               \/ /\ info'[p].count = info[p].count + 1 /\ call[u].program = p
                  /\ At(u, "increment") /\ Moves(u, "increment", call[u]) /\ live' = live
    <2>1. CASE /\ Moves(u, "saveHash", call[u])
               /\ info' = IF call[u].program = NULL THEN info
                          ELSE [info EXCEPT ![call[u].program].hash = call[u].hash]
      <3>1. info'[p].count = info[p].count
        BY <2>1 DEF Types
      <3> QED BY <1>2, <2>1, <3>1
    <2>2. CASE /\ Moves(u, "saveOptions", call[u])
               /\ info' = IF call[u].program = NULL \/ call[u].options = NULL THEN info
                          ELSE [info EXCEPT ![call[u].program].options = call[u].options]
      <3>1. info'[p].count = info[p].count
        BY <2>2 DEF Types
      <3> QED BY <1>2, <2>2, <3>1
    <2>3. CASE /\ At(u, "increment") /\ Moves(u, "increment", call[u])
               /\ info' = IF call[u].program = NULL THEN info
                          ELSE [info EXCEPT ![call[u].program].count = @ + 1]
      <3>1. CASE call[u].program = p
        <4>1. info'[p].count = info[p].count + 1
          BY <1>0, <2>3, <3>1 DEF Types
        <4> QED BY <1>6, <2>3, <3>1, <4>1 DEF SavesOne
      <3>2. CASE call[u].program # p
        <4>1. info'[p].count = info[p].count
          BY <2>3, <3>2 DEF Types
        <4> QED BY <2>3, <3>2, <4>1 DEF Moves
      <3> QED BY <3>1, <3>2
    <2> QED BY <1>6, <2>1, <2>2, <2>3 DEF SavesOne
  <1>7. ASSUME NEW u \in Threads, BuildsProgram(u)
        PROVE  Same
    BY <1>2, <1>7 DEF BuildsProgram
  <1>8. ASSUME NEW u \in Threads, Writes(u)
        PROVE  Same
    <2>1. PICK step \in DumpSteps : Moves(u, step, call[u])
      BY <1>8 DEF Writes
    <2>2. info' = info /\ step # "increment"
      BY <1>8 DEF Writes, DumpSteps
    <2> QED BY <1>2, <2>1, <2>2
  <1>9. ASSUME NEW q \in Programs, Release(q)
        PROVE  Same
    BY <1>9 DEF Release, ToCome
  <1> QED BY <1>1, <1>3, <1>4, <1>5, <1>6, <1>7, <1>8, <1>9 DEF Change

LEMMA LatestStep ==
  ASSUME Types, Suffixes, Handles, Numbering, FileNumbers, Latest, Change
  PROVE  Latest'
  <1> DEFINE Counted(f, p) ==
                \/ f.name.count < info[p].count
                \/ /\ f.name.count = info[p].count
                   /\ \E t \in Threads : /\ call[t].program = p /\ "increment" \in ToCome(t)
                                         /\ StepOf(f.name.kind) \notin ToCome(t)
             Linked(f, p) ==
                f.name.kind = "link_options" =>
                  /\ live[p].op = "link"
                  /\ \A t \in Threads : call[t].program = p => "dumpOptions" \notin ToCome(t)
  <1>0. number \in Nat /\ \A p \in Programs : info[p].count \in Nat /\ info[p].number \in Nat
    BY DEF Types
  <1>1. SUFFICES ASSUME NEW f \in files', NEW p \in Programs, Right(f)', f.name.count # NULL,
                        Numbered(p)', f.name.number = info'[p].number
                 PROVE  IF AnyOf(StepControls.increment)' THEN Counted(f, p)'
                        ELSE Linked(f, p)'
    BY DEF Latest
  <1>2. /\ ~Restart
        /\ \/ /\ Numbered(p) /\ info'[p].number = info[p].number /\ live'[p].op = live[p].op
              /\ ~\E t \in Threads : Numbers(t) /\ call[t].program = p
           \/ info'[p].number = number /\ \E t \in Threads : Numbers(t)
    BY <1>1, NumberedBefore
  <1>3. /\ run' = run /\ config' = config
        /\ (\E t \in Threads : Numbers(t)) => number' = number + 1
    BY <1>2, NumberGrows
  <1>4. Right(f) /\ AnyOf(StepControls.increment)' = AnyOf(StepControls.increment)
    BY <1>1, <1>3 DEF Right, AnyOf
  <1>5. CASE f \in files
    <2>1. f.name.number < number /\ f.name.count \in Nat
      BY <1>1, <1>4, <1>5 DEF FileNumbers
    <2>2. /\ Numbered(p) /\ info'[p].number = info[p].number /\ live'[p].op = live[p].op
          /\ ~\E t \in Threads : Numbers(t) /\ call[t].program = p
      BY <1>0, <1>1, <1>2, <2>1
    <2>3. live[p] # NULL
      BY <2>2 DEF Numbered
    <2>4. CASE AnyOf(StepControls.increment)
      <3>1. Counted(f, p)
        BY <1>1, <1>4, <1>5, <2>2, <2>4 DEF Latest
      <3>2. Counted(f, p)'
        BY <1>0, <1>2, <2>1, <2>2, <2>3, <3>1, CountBefore
      <3> QED BY <1>4, <2>4, <3>2
    <2>5. CASE ~AnyOf(StepControls.increment)
      <3>1. Linked(f, p)
        BY <1>1, <1>4, <1>5, <2>2, <2>5 DEF Latest
      <3>2. Linked(f, p)'
        <4>1. SUFFICES ASSUME f.name.kind = "link_options"
                       PROVE  /\ live'[p].op = "link"
                              /\ \A t \in Threads : call'[t].program = p
                                                       => "dumpOptions" \notin ToCome(t)'
          OBVIOUS
        <4>2. live'[p].op = "link"
          BY <2>2, <3>1, <4>1
        <4>3. ASSUME NEW t \in Threads, call'[t].program = p
              PROVE  "dumpOptions" \notin ToCome(t)'
          <5>1. live[p].op = "link" /\ "link" \notin Texts
            BY <3>1, <4>1 DEF Texts
          <5>2. call[t].program = p /\ ToCome(t)' \subseteq ToCome(t)
            BY <1>2, <2>3, <4>3, <5>1, ProgramBefore
          <5> QED BY <3>1, <4>1, <5>2
        <4> QED BY <4>2, <4>3
      <3> QED BY <1>4, <2>5, <3>2
    <2> QED BY <2>4, <2>5
  <1>6. ASSUME NEW t \in Threads, Wrote(t, f)
        PROVE  IF AnyOf(StepControls.increment)' THEN Counted(f, p)' ELSE Linked(f, p)'
    <2> DEFINE q == call[t].program
               step == StepOf(f.name.kind)
    <2>1. /\ q \in Programs /\ Numbered(q) /\ f.name.number = info[q].number
          /\ \A u \in Threads \ {t} : call[u].program # q
      BY <1>4, <1>6, WriterNumbered
    <2>2. UNCHANGED <<number, info, live>> /\ Moves(t, step, call[t]) /\ At(t, step)
          /\ step \in DumpSteps /\ f.name.count = info[q].count
      BY <1>6 DEF Wrote
    <2>3. Numbered(p) /\ info[p].number = info[q].number
      BY <1>0, <1>1, <1>2, <1>3, <2>1, <2>2
    <2>4. p = q
      BY <2>1, <2>3 DEF Numbering
    <2>5. /\ step \notin ToCome(t)' /\ step # "increment"
          /\ "increment" \in ToCome(t) =>
                "increment" \in ToCome(t)' /\ call'[t].program = call[t].program
          /\ \A u \in Threads \ {t} : call'[u] = call[u]
      BY <2>2 DEF Moves, DumpSteps
    <2>6. Order(t, step)
      BY <2>2, StepsInOrder DEF Suffixes
    <2>7. AnyOf(StepControls.increment) => "increment" \in ToCome(t)
      BY <2>2, <2>6 DEF Order
    <2>8. CASE AnyOf(StepControls.increment)
      BY <1>4, <2>2, <2>4, <2>5, <2>7, <2>8
    <2>9. CASE ~AnyOf(StepControls.increment)
      <3>1. ASSUME f.name.kind = "link_options"
            PROVE  /\ live'[p].op = "link"
                   /\ \A u \in Threads : call'[u].program = p => "dumpOptions" \notin ToCome(u)'
        <4>1. step = "dumpOptions"
          BY <3>1 DEF StepOf
        <4>2. call[t].op = "link"
          BY <1>6, <3>1, <4>1 DEF Wrote
        <4>3. live[q].op = "link"
          BY <2>1, <4>2, ProgramNullAssumption DEF Handles, Builds
        <4> QED BY <2>1, <2>2, <2>4, <2>5, <4>1, <4>3
      <3> QED BY <1>4, <2>9, <3>1
    <2> QED BY <2>8, <2>9
  <1>7. ASSUME NEW t \in Threads, Dumped(t, f)
        PROVE  FALSE
    BY <1>1, <1>7 DEF Dumped
  <1> QED BY <1>2, <1>5, <1>6, <1>7, FilesChange

-----------------------------------------------------------------------------
(* Options: what a build is given, and what the layer keeps of it. *)

\* How a step leaves the call of a thread that builds.
LEMMA BuildingBefore ==
  ASSUME Types, Suffixes, Handles, Change, ~Restart, NEW t \in Threads, call'[t].op \in Builds
  PROVE  \/ /\ call[t] = NoCall /\ call'[t].new = NULL
            /\ On("InjectProgramSource") => "injectOptions" \in ToCome(t)'
            /\ AnyOf(SavesHash) => "saveOptions" \in ToCome(t)'
            /\ On("AppendBuildOptions") => "appendOptions" \in ToCome(t)'
         \/ call'[t] = call[t] /\ ToCome(t)' = ToCome(t)
         \/ /\ call[t].op = call'[t].op /\ call'[t].program = call[t].program
            /\ call'[t].options = call[t].options
            /\ \E step : /\ At(t, step) /\ Order(t, step) /\ ToCome(t)' = ToCome(t) \ {step}
                         /\ \/ /\ step = "injectOptions" /\ OptionsTaken(t)
                               /\ UNCHANGED <<info, live>>
                            \/ /\ step = "appendOptions" /\ Appends(t, step)
                               /\ UNCHANGED <<info, live>>
                            \/ /\ step \notin EditSteps \cup {"create", "number", "saveHash"}
                               /\ Moves(t, step, call[t]) /\ call'[t].new = call[t].new
                               /\ step = "saveOptions" => SavesOne(t)
  <1> DEFINE Begun == /\ call[t] = NoCall /\ call'[t].new = NULL
                      /\ On("InjectProgramSource") => "injectOptions" \in ToCome(t)'
                      /\ AnyOf(SavesHash) => "saveOptions" \in ToCome(t)'
                      /\ On("AppendBuildOptions") => "appendOptions" \in ToCome(t)'
             Same == call'[t] = call[t] /\ ToCome(t)' = ToCome(t)
             Step(step) == /\ At(t, step) /\ Order(t, step) /\ ToCome(t)' = ToCome(t) \ {step}
                           /\ \/ /\ step = "injectOptions" /\ OptionsTaken(t)
                                 /\ UNCHANGED <<info, live>>
                              \/ /\ step = "appendOptions" /\ Appends(t, step)
                                 /\ UNCHANGED <<info, live>>
                              \/ /\ step \notin EditSteps \cup {"create", "number", "saveHash"}
                                 /\ Moves(t, step, call[t]) /\ call'[t].new = call[t].new
                                 /\ step = "saveOptions" => SavesOne(t)
             Stepped == /\ call[t].op = call'[t].op /\ call'[t].program = call[t].program
                        /\ call'[t].options = call[t].options
                        /\ \E step : Step(step)
  <1>0. NULL \notin Builds /\ NoCall.op = NULL
    BY NoCallFields
  <1>1. ASSUME NEW u \in Threads, Created(u)
        PROVE  Same
    <2>1. PICK op \in Creates \cup {"builtin"}, c \in Calls : Starts(u, op, c)
      BY <1>1 DEF Created
    <2>2. op \notin Builds
      BY StepLists DEF Creates, Builds
    <2> QED BY <2>1, <2>2 DEF Starts
  <1>2. ASSUME NEW u \in Threads, Built(u)
        PROVE  Begun \/ Same
    <2>1. PICK op \in Builds, q \in Programs, o \in Options \cup {NULL} :
             Starts(u, op, [NoCall EXCEPT !.program = q, !.options = o])
      BY <1>2 DEF Built
    <2>2. [NoCall EXCEPT !.program = q, !.options = o].new = NULL
      BY DEF NoCall
    <2>3. CASE t = u
      BY <2>1, <2>2, <2>3 DEF Starts
    <2>4. CASE t # u
      BY <2>1, <2>4 DEF Starts
    <2> QED BY <2>3, <2>4
  <1>3. ASSUME NEW u \in Threads, NEW step, NEW c, Moves(u, step, c), t # u
        PROVE  Same
    BY <1>3 DEF Moves
  <1>4. ASSUME NEW step, NEW c, Moves(t, step, c), At(t, step)
        PROVE  /\ call[t].op = call'[t].op /\ call[t].op \in Builds
               /\ call'[t].program = c.program /\ call'[t].options = c.options
               /\ call'[t].new = c.new /\ Order(t, step)
               /\ ToCome(t)' = ToCome(t) \ {step} /\ step \in ToCome(t)
    <2>1. Order(t, step)
      BY <1>4, StepsInOrder DEF Suffixes
    <2> QED BY <1>0, <1>4, <2>1 DEF Moves
  <1>5. ASSUME Edits(t)
        PROVE  Stepped
    <2>1. PICK step \in EditSteps : At(t, step) /\ Advances(t, step) /\ Edited(t, step)
      BY <1>5 DEF Edits
    <2>2. PICK c \in Calls : /\ Moves(t, step, c)
                             /\ c.program = call[t].program /\ c.options = call[t].options
      BY <2>1 DEF Advances
    <2>3. /\ call[t].op = call'[t].op /\ call[t].op \in Builds
          /\ call'[t].program = c.program /\ call'[t].options = c.options
          /\ Order(t, step) /\ ToCome(t)' = ToCome(t) \ {step}
      BY <1>4, <2>1, <2>2
    <2>4. step = "injectOptions" \/ step = "appendOptions"
      BY <2>1, <2>3 DEF EditSteps, Order, Builds
    <2>5. UNCHANGED <<info, live>>
      BY <1>5 DEF Edits
    <2>6. Step(step)
      BY <2>1, <2>3, <2>4, <2>5 DEF Edited
    <2> HIDE DEF Step
    <2> QED BY <2>2, <2>3, <2>6
  <1>6. ASSUME NEW step, step \notin EditSteps \cup {"create", "number", "saveHash"},
               Moves(t, step, call[t]), At(t, step), step = "saveOptions" => SavesOne(t)
        PROVE  Stepped
    <2>1. Step(step)
      BY <1>4, <1>6
    <2> HIDE DEF Step
    <2> QED BY <1>4, <1>6, <2>1
  <1>7. ASSUME NEW step \in {"create", "number", "saveHash"}, NEW c, Moves(t, step, c),
               At(t, step)
        PROVE  FALSE
    BY <1>4, <1>7 DEF Order, Creates, Builds, Texts
  <1>8. ASSUME NEW u \in Threads,
               Edits(u) \/ Makes(u) \/ Numbers(u) \/ SavesOne(u) \/ BuildsProgram(u) \/ Writes(u)
        PROVE  \E step, c : Moves(u, step, c)
    BY <1>8 DEF Edits, Advances, Makes, Numbers, SavesOne, BuildsProgram, Writes
  <1>9. ASSUME SavesOne(t)
        PROVE  Stepped
    <2>1. CASE At(t, "saveHash") /\ Moves(t, "saveHash", call[t])
      BY <1>7, <2>1
    <2>2. CASE At(t, "saveOptions") /\ Moves(t, "saveOptions", call[t])
      BY <1>6, <1>9, <2>2 DEF EditSteps
    <2>3. CASE At(t, "increment") /\ Moves(t, "increment", call[t])
      BY <1>6, <2>3 DEF EditSteps
    <2> QED BY <1>9, <2>1, <2>2, <2>3 DEF SavesOne
  <1>10. ASSUME BuildsProgram(t)
         PROVE  Stepped
    BY <1>6, <1>10 DEF BuildsProgram, EditSteps
  <1>11. ASSUME Writes(t)
         PROVE  Stepped
    <2>1. PICK step \in DumpSteps : At(t, step) /\ Moves(t, step, call[t])
      BY <1>11 DEF Writes
    <2>2. step \notin EditSteps \cup {"create", "number", "saveHash"} /\ step # "saveOptions"
      BY DEF DumpSteps, EditSteps
    <2> QED BY <1>6, <2>1, <2>2
  <1>12. ASSUME NEW q \in Programs, Release(q)
         PROVE  Same
    BY <1>12 DEF Release, ToCome
  <1> HIDE DEF Begun, Same, Stepped
  <1>13. Begun \/ Same \/ Stepped
    BY <1>1, <1>2, <1>3, <1>5, <1>7, <1>8, <1>9, <1>10, <1>11, <1>12
       DEF Change, Makes, Numbers
  <1> QED BY <1>13 DEF Begun, Same, Stepped

LEMMA SameOptions ==
  ASSUME NEW x \in BuildOptions, NEW y \in BuildOptions,
         x.text = y.text, x.edited = y.edited, x.more = y.more
  PROVE  x = y
  BY DEF BuildOptions

LEMMA MoreAppended ==
  ASSUME NEW o \in Options \cup {NULL},
         NEW given, given = [text |-> o, edited |-> FALSE, more |-> FALSE]
  PROVE  [given EXCEPT !.more = TRUE] = [text |-> o, edited |-> FALSE, more |-> TRUE]
  <1> DEFINE x == [given EXCEPT !.more = TRUE]
             y == [text |-> o, edited |-> FALSE, more |-> TRUE]
  <1>1. x \in BuildOptions /\ x.text = o /\ x.edited = FALSE /\ x.more = TRUE
    <2>1. given \in BuildOptions /\ given.text = o /\ given.edited = FALSE
      BY DEF BuildOptions
    <2> QED BY <2>1 DEF BuildOptions
  <1>2. y \in BuildOptions /\ y.text = o /\ y.edited = FALSE /\ y.more = TRUE
    BY DEF BuildOptions
  <1> HIDE DEF x, y
  <1>3. x = y
    BY <1>1, <1>2, SameOptions
  <1> QED BY <1>3 DEF x, y

LEMMA AppendedStep ==
  ASSUME Types, Suffixes, Handles, FirstRun, Appended, Change
  PROVE  Appended'
  <1> DEFINE More(o) == [text |-> o, edited |-> FALSE, more |-> TRUE]
  <1>1. CASE Restart
    <2>1. \A t \in Threads : call'[t].op = NULL
      BY <1>1, NoCallFields DEF Restart, Idle, Suffixes, Suffix
    <2> QED BY <2>1, NoCallFields DEF Appended
  <1>2. CASE ~Restart
    <2>1. run' = run /\ config' = config /\ inject' = inject
      BY <1>2, NumberGrows
    <2>2. On("InjectProgramSource")' = On("InjectProgramSource")
          /\ On("AppendBuildOptions")' = On("AppendBuildOptions")
      BY <2>1 DEF On
    <2>3. SUFFICES ASSUME NEW t \in Threads, call'[t].op \in Builds,
                          run = 1 \/ ~On("InjectProgramSource")
                   PROVE  call'[t].new = IF On("AppendBuildOptions")
                                            /\ "appendOptions" \notin ToCome(t)'
                                         THEN More(call'[t].options) ELSE NULL
      BY <2>1, <2>2 DEF Appended
    <2>4. call[t].op \in Builds =>
             call[t].new = IF On("AppendBuildOptions") /\ "appendOptions" \notin ToCome(t)
                           THEN More(call[t].options) ELSE NULL
      BY <2>3 DEF Appended
    <2>5. CASE /\ call[t] = NoCall /\ call'[t].new = NULL
               /\ On("AppendBuildOptions") => "appendOptions" \in ToCome(t)'
      BY <2>5
    <2>6. CASE call'[t] = call[t] /\ ToCome(t)' = ToCome(t)
      BY <2>3, <2>4, <2>6
    <2>7. ASSUME call[t].op = call'[t].op, call'[t].options = call[t].options,
                 NEW step, At(t, step), Order(t, step), ToCome(t)' = ToCome(t) \ {step},
                 step = "injectOptions", OptionsTaken(t)
          PROVE  call'[t].new = IF On("AppendBuildOptions") /\ "appendOptions" \notin ToCome(t)'
                                THEN More(call'[t].options) ELSE NULL
      <3>1. AnyOf(StepControls["injectOptions"])
        BY <2>7, AtPosition, StepsAsked DEF Suffixes
      <3>2. On("InjectProgramSource")
        BY <3>1 DEF AnyOf, On, StepControls
      <3>3. inject = {}
        BY <2>3, <3>2 DEF FirstRun
      <3>4. Moves(t, "injectOptions", call[t])
        BY <2>7, <3>3 DEF OptionsTaken
      <3>5. call'[t].new = call[t].new
        BY <2>3, <3>4, NoCallFields DEF Moves
      <3> QED BY <2>3, <2>4, <2>7, <3>5
    <2>8. ASSUME call[t].op = call'[t].op, call'[t].options = call[t].options,
                 NEW step, At(t, step), Order(t, step), ToCome(t)' = ToCome(t) \ {step},
                 step = "appendOptions", Appends(t, step)
          PROVE  call'[t].new = IF On("AppendBuildOptions") /\ "appendOptions" \notin ToCome(t)'
                                THEN More(call'[t].options) ELSE NULL
      <3>1. AnyOf(StepControls["appendOptions"]) /\ step \in ToCome(t)
        BY <2>8, AtPosition, StepsAsked DEF Suffixes, Appends, Moves
      <3>2. On("AppendBuildOptions")
        BY <3>1 DEF AnyOf, On, StepControls
      <3>3. call[t].new = NULL
        BY <2>3, <2>4, <2>8, <3>1
      <3>4. [Given(call[t]) EXCEPT !.more = TRUE] = More(call[t].options)
        <4>1. Given(call[t]) = [text |-> call[t].options, edited |-> FALSE, more |-> FALSE]
          BY <3>3 DEF Given
        <4>2. call[t].options \in Options \cup {NULL}
          BY DEF Types, Calls
        <4> QED BY <4>1, <4>2, MoreAppended
      <3> DEFINE c == [call[t] EXCEPT !.new = More(call[t].options), !.injected = TRUE]
      <3>5. Moves(t, step, c)
        BY <2>8, <3>4 DEF Appends
      <3>6. c.new = More(call[t].options)
        BY DEF Types, Calls
      <3> HIDE DEF c
      <3>7. call'[t].new = c.new
        BY <2>3, <3>5, NoCallFields DEF Moves
      <3> QED BY <2>8, <3>2, <3>6, <3>7
    <2>9. ASSUME call[t].op = call'[t].op, call'[t].options = call[t].options,
                 NEW step, ToCome(t)' = ToCome(t) \ {step}, step \notin EditSteps,
                 call'[t].new = call[t].new
          PROVE  call'[t].new = IF On("AppendBuildOptions") /\ "appendOptions" \notin ToCome(t)'
                                THEN More(call'[t].options) ELSE NULL
      BY <2>3, <2>4, <2>9 DEF EditSteps
    <2> HIDE DEF More
    <2> QED BY <1>2, <2>3, <2>5, <2>6, <2>7, <2>8, <2>9, BuildingBefore
  <1> QED BY <1>1, <1>2

\* The options of a program that the layer keeps are those of the last build that
\* saved some.
LEMMA OptionsBefore ==
  ASSUME Types, Change, ~Restart, NEW p \in Programs
  PROVE  \/ info'[p].options = info[p].options
         \/ \E t \in Threads : /\ call[t].program = p /\ At(t, "saveOptions")
                               /\ Moves(t, "saveOptions", call[t])
                               /\ info'[p].options = call[t].options
  <1>0. p # NULL
    BY ProgramNullAssumption
  <1>1. ASSUME NEW u \in Threads, Created(u) \/ Built(u)
        PROVE  info' = info
    <2>1. PICK op, c : Starts(u, op, c)
      BY <1>1 DEF Created, Built
    <2> QED BY <2>1 DEF Starts
  <1>2. ASSUME NEW u \in Threads, Edits(u) \/ Makes(u) \/ BuildsProgram(u) \/ Writes(u)
        PROVE  info' = info
    BY <1>2 DEF Edits, Makes, BuildsProgram, Writes
  <1>3. ASSUME NEW u \in Threads, Numbers(u)
        PROVE  info'[p].options = info[p].options
    BY <1>3 DEF Numbers, Types
  <1>4. ASSUME NEW u \in Threads, SavesOne(u)
        PROVE  \/ info'[p].options = info[p].options
               \/ /\ call[u].program = p /\ At(u, "saveOptions")
                  /\ Moves(u, "saveOptions", call[u])
                  /\ info'[p].options = call[u].options
    BY <1>0, <1>4 DEF SavesOne, Types
  <1>5. ASSUME NEW q \in Programs, Release(q)
        PROVE  info' = info
    BY <1>5 DEF Release
  <1> QED BY <1>1, <1>2, <1>3, <1>4, <1>5 DEF Change

LEMMA OptionsSavedStep ==
  ASSUME Types, Suffixes, Handles, OptionsSaved, Change
  PROVE  OptionsSaved'
  <1>1. CASE Restart
    <2>1. \A t \in Threads : call'[t].op = NULL
      BY <1>1, NoCallFields DEF Restart, Idle, Suffixes, Suffix
    <2> QED BY <2>1, NoCallFields DEF OptionsSaved
  <1>2. CASE ~Restart
    <2>1. run' = run /\ config' = config
      BY <1>2, NumberGrows
    <2>2. SUFFICES ASSUME NEW t \in Threads, call'[t].op \in Builds, call'[t].options # NULL,
                          AnyOf(SavesHash), "saveOptions" \notin ToCome(t)'
                   PROVE  info'[call'[t].program].options = call'[t].options
      BY <2>1 DEF OptionsSaved, AnyOf
    <2>3. /\ call[t].op = call'[t].op /\ call'[t].program = call[t].program
          /\ call'[t].options = call[t].options
          /\ \/ "saveOptions" \notin ToCome(t)
             \/ SavesOne(t) /\ Moves(t, "saveOptions", call[t]) /\ At(t, "saveOptions")
      BY <1>2, <2>2, BuildingBefore, NoCallFields DEF EditSteps
    <2> DEFINE p == call[t].program
    <2>4. p # NULL /\ p \in Programs /\ \A u \in Threads \ {t} : call[u].program # p
      BY <2>2, <2>3 DEF Handles, Types, Calls
    <2>5. CASE SavesOne(t) /\ Moves(t, "saveOptions", call[t]) /\ At(t, "saveOptions")
      <3>1. "saveOptions" \in ToCome(t) /\ ToCome(t)' = ToCome(t) \ {"saveOptions"}
        BY <2>5 DEF Moves
      <3>2. info' = [info EXCEPT ![p].options = call[t].options]
        BY <2>2, <2>3, <2>4, <2>5, <3>1 DEF SavesOne, Moves
      <3> QED BY <2>3, <2>4, <3>2 DEF Types
    <2>6. CASE "saveOptions" \notin ToCome(t)
      <3>1. info[p].options = call[t].options
        BY <2>2, <2>3, <2>6 DEF OptionsSaved
      <3>2. info'[p].options = info[p].options
        BY <1>2, <2>4, <2>6, OptionsBefore DEF Moves
      <3> QED BY <2>3, <3>1, <3>2
    <2> QED BY <2>3, <2>5, <2>6
  <1> QED BY <1>1, <1>2

-----------------------------------------------------------------------------
(* Without the count of builds the options are the only files about builds. *)

LEMMA NotCountedStep ==
  ASSUME Types, Suffixes, Handles, FileNumbers, NotCounted, Appended, OptionsSaved, Change
  PROVE  NotCounted'
  <1>1. CASE Restart
    BY <1>1, RestartFiles DEF NotCounted
  <1>2. CASE ~Restart
    <2>1. run' = run /\ config' = config
      BY <1>2, NumberGrows
    <2>2. /\ AnyOf(StepControls.increment)' = AnyOf(StepControls.increment)
          /\ On("AppendBuildOptions")' = On("AppendBuildOptions")
      BY <2>1 DEF AnyOf, On
    <2>3. SUFFICES ASSUME NEW f \in files', Right(f), f.name.count # NULL,
                          ~AnyOf(StepControls.increment)
                   PROVE  /\ f.name.kind \in OptionKinds \cup {"link_options"}
                          /\ f.name.kind \in OptionKinds /\ f.content.text # NULL =>
                                f.content = [text |-> f.name.options, edited |-> FALSE,
                                             more |-> On("AppendBuildOptions")]
      BY <2>1, <2>2 DEF NotCounted, Right
    <2>4. CASE f \in files
      BY <2>3, <2>4 DEF NotCounted
    <2>5. ASSUME NEW t \in Threads, Dumped(t, f)
          PROVE  FALSE
      BY <2>3, <2>5 DEF Dumped
    <2>6. ASSUME NEW t \in Threads, Wrote(t, f)
          PROVE  /\ f.name.kind \in OptionKinds \cup {"link_options"}
                 /\ f.name.kind \in OptionKinds /\ f.content.text # NULL =>
                       f.content = [text |-> f.name.options, edited |-> FALSE,
                                    more |-> On("AppendBuildOptions")]
      <3>1. StepOf(f.name.kind) = "dumpOptions"
        BY <2>3, <2>6 DEF Wrote
      <3>2. /\ At(t, "dumpOptions") /\ f.program = call[t].program
            /\ f.name.options = info[call[t].program].options
            /\ f.name.kind \in OptionKinds \cup {"link_options"}
            /\ f.name.kind = "link_options" <=> call[t].op = "link"
            /\ f.content = Given(call[t])
        BY <2>6, <3>1 DEF Wrote
      <3>3. ASSUME f.name.kind \in OptionKinds, f.content.text # NULL
            PROVE  f.content = [text |-> f.name.options, edited |-> FALSE,
                                more |-> On("AppendBuildOptions")]
        <4>1. /\ call[t].op \in Builds
              /\ "appendOptions" \notin ToCome(t) /\ "saveOptions" \notin ToCome(t)
          BY <3>2, <3>3, StepsInOrder DEF Suffixes, Order, OptionKinds
        <4>2. ~On("InjectProgramSource")
          BY <2>3 DEF On, AnyOf, StepControls, SavesHash
        <4>3. AnyOf(SavesHash)
          <5>1. AnyOf(StepControls["dumpOptions"])
            BY <3>2, AtPosition, StepsAsked DEF Suffixes
          <5> QED BY <5>1 DEF StepControls, AnyOf, SavesHash
        <4>4. call[t].new = IF On("AppendBuildOptions")
                            THEN [text |-> call[t].options, edited |-> FALSE, more |-> TRUE]
                            ELSE NULL
          BY <4>1, <4>2 DEF Appended
        <4>5. f.content = [text |-> call[t].options, edited |-> FALSE,
                           more |-> On("AppendBuildOptions")]
          <5>1. CASE On("AppendBuildOptions")
            <6>1. call[t].new # NULL
              <7>1. call[t].new = [text |-> call[t].options, edited |-> FALSE, more |-> TRUE]
                BY <4>4, <5>1
              <7>2. call[t].options \in Options \cup {NULL}
                BY DEF Types, Calls
              <7>3. call[t].new \in BuildOptions
                BY <7>1, <7>2 DEF BuildOptions
              <7> QED BY <7>3, ProgramNullAssumption
            <6> QED BY <3>2, <4>4, <5>1, <6>1 DEF Given
          <5>2. CASE ~On("AppendBuildOptions")
            <6>1. call[t].new = NULL
              BY <4>4, <5>2
            <6>2. f.content = [text |-> call[t].options, edited |-> FALSE, more |-> FALSE]
              BY <3>2, <6>1 DEF Given
            <6>3. On("AppendBuildOptions") = FALSE
              BY <5>2 DEF On
            <6> QED BY <6>2, <6>3
          <5> QED BY <5>1, <5>2
        <4>6. call[t].options # NULL
          BY <3>3, <4>5
        <4>7. f.name.options = call[t].options
          BY <3>2, <4>1, <4>3, <4>6 DEF OptionsSaved
        <4> QED BY <4>5, <4>7
      <3> QED BY <3>2, <3>3
    <2> QED BY <1>2, <2>3, <2>4, <2>5, <2>6, FilesChange
  <1> QED BY <1>1, <1>2

-----------------------------------------------------------------------------
(* No file is written over. *)

\* What NothingIsOverwritten says of one file.
Fixed(f) ==
    /\ Right(f)
    /\ f.name.kind \in OptionKinds /\ f.content.text = NULL => AnyOf(StepControls.increment)

LEMMA FixedFiles ==
  NothingIsOverwritten <=>
    \A f, g \in files : Fixed(f) /\ Fixed(g) /\ f.name = g.name => f.content = g.content
  BY DEF NothingIsOverwritten, Fixed, Right, OptionKinds

\* A new file has a name of its own, or its contents were there.
LEMMA NewName ==
  ASSUME Types, Suffixes, Handles, FileNumbers, Latest, NotCounted, NotCounted', Change,
         ~Restart, NEW f \in files', NEW t \in Threads, Dumped(t, f) \/ Wrote(t, f), Fixed(f),
         NEW g \in files, Fixed(g), f.name = g.name
  PROVE  f.content = g.content
  <1>0. number \in Nat /\ NULL \notin Nat
    BY ProgramNullAssumption DEF Types
  <1>1. Right(f) /\ Right(g) /\ g.name.number < number /\ g.name.number \in Nat
    BY DEF Fixed, FileNumbers
  <1>2. run' = run /\ config' = config
    BY NumberGrows
  <1>3. CASE Dumped(t, f)
    BY <1>0, <1>1, <1>3 DEF Dumped, Right, Number
  <1>4. CASE Wrote(t, f)
    <2> DEFINE p == call[t].program
               step == StepOf(f.name.kind)
    <2>1. /\ p \in Programs /\ Numbered(p) /\ f.name.number = info[p].number
          /\ \A u \in Threads \ {t} : call[u].program # p
      BY <1>1, <1>4, WriterNumbered
    <2>2. f.name.count = info[p].count /\ step \in ToCome(t)
      BY <1>4 DEF Wrote, Moves
    <2>3. info[p].count \in Nat
      BY <2>1 DEF Types
    <2>4. g.name.count # NULL /\ g.name.count = info[p].count /\ g.name.number = info[p].number
          /\ g.name.kind = f.name.kind
      BY <1>0, <2>1, <2>2, <2>3
    <2>5. ~AnyOf(StepControls.increment)
      <3>1. SUFFICES ASSUME AnyOf(StepControls.increment)
                     PROVE  FALSE
        OBVIOUS
      <3>2. \/ g.name.count < info[p].count
            \/ \E u \in Threads : call[u].program = p /\ StepOf(g.name.kind) \notin ToCome(u)
        BY <1>1, <2>1, <2>4, <3>1 DEF Latest
      <3> QED BY <2>1, <2>2, <2>3, <2>4, <3>2
    <2>6. f.name.kind \in OptionKinds \cup {"link_options"}
      BY <1>1, <2>4, <2>5 DEF NotCounted
    <2>7. f.name.kind # "link_options"
      <3>1. SUFFICES ASSUME f.name.kind = "link_options"
                     PROVE  FALSE
        OBVIOUS
      <3>2. step = "dumpOptions"
        BY <3>1 DEF StepOf
      <3>3. \A u \in Threads : call[u].program = p => "dumpOptions" \notin ToCome(u)
        BY <1>1, <2>1, <2>4, <2>5, <3>1 DEF Latest
      <3> QED BY <2>2, <3>2, <3>3
    <2>8. g.content = [text |-> g.name.options, edited |-> FALSE,
                       more |-> On("AppendBuildOptions")]
      BY <1>1, <2>4, <2>5, <2>6, <2>7 DEF NotCounted, Fixed
    <2>9. f.content = [text |-> f.name.options, edited |-> FALSE,
                       more |-> On("AppendBuildOptions")]
      <3>1. Right(f)' /\ ~AnyOf(StepControls.increment)'
            /\ On("AppendBuildOptions")' = On("AppendBuildOptions")
        BY <1>1, <1>2, <2>5 DEF Right, AnyOf, On
      <3> QED BY <2>4, <2>5, <2>6, <2>7, <3>1 DEF NotCounted, Fixed
    <2> QED BY <2>8, <2>9
  <1> QED BY <1>3, <1>4

LEMMA NothingIsOverwrittenStep ==
  ASSUME Types, Suffixes, Handles, FileNumbers, Latest, NotCounted, NotCounted', Change,
         NothingIsOverwritten
  PROVE  NothingIsOverwritten'
  <1>0. (\A f, g \in files : Fixed(f) /\ Fixed(g) /\ f.name = g.name => f.content = g.content)'
           => NothingIsOverwritten'
    BY DEF NothingIsOverwritten, Fixed, Right, OptionKinds
  <1>1. CASE Restart
    <2>1. \A f \in files' : ~Fixed(f)'
      BY <1>1, RestartFiles DEF Fixed
    <2> QED BY <1>0, <2>1
  <1>2. CASE ~Restart
    <2>1. \A f : Fixed(f)' <=> Fixed(f)
      BY <1>2, NumberGrows DEF Fixed, Right, AnyOf
    <2>2. \A f, g \in files : Fixed(f) /\ Fixed(g) /\ f.name = g.name => f.content = g.content
      BY FixedFiles
    <2>3. CASE files' = files
      BY <1>0, <2>1, <2>2, <2>3
    <2>4. ASSUME NEW h, files' = files \cup {h}, NEW t \in Threads, Dumped(t, h) \/ Wrote(t, h)
          PROVE  NothingIsOverwritten'
      <3>1. \A g \in files : Fixed(h) /\ Fixed(g) /\ h.name = g.name => h.content = g.content
        BY <1>2, <2>4, NewName
      <3>2. \A f, g \in files' :
               Fixed(f) /\ Fixed(g) /\ f.name = g.name => f.content = g.content
        BY <2>2, <2>4, <3>1
      <3> QED BY <1>0, <2>1, <3>2
    <2> QED BY <1>2, <2>3, <2>4, FilesChange
  <1> QED BY <1>1, <1>2

-----------------------------------------------------------------------------
(* What the files of the first run hold, and the copies that the second finds. *)

LEMMA FirstRunStep ==
  ASSUME Types, Suffixes, Handles, FileNumbers, FirstRun, Sourced, Appended, OptionsSaved, Change
  PROVE  FirstRun'
  <1>1. CASE Restart
    BY <1>1, RestartFiles DEF FirstRun
  <1>2. CASE ~Restart
    <2>1. run' = run /\ inject' = inject
      BY <1>2, NumberGrows
    <2> DEFINE FileRight(f) ==
                  /\ DOMAIN f.name = NameFields
                  /\ f.name.kind \in Texts \cup {"spv"} => f.content \in Contents
                  /\ TextRight(f.name.kind, f.name, f.content)
    <2>2. SUFFICES ASSUME run = 1, NEW f \in files'
                   PROVE  FileRight(f)
      BY <2>1 DEF FirstRun, NameFields
    <2>3. CASE f \in files
      BY <2>2, <2>3 DEF FirstRun, NameFields
    <2>4. ASSUME NEW t \in Threads, Dumped(t, f)
          PROVE  FileRight(f)
      <3>1. /\ f.name.kind = call[t].op /\ call[t].op \in Texts
            /\ AnyOf(DumpControls[call[t].op]) /\ DOMAIN f.name = NameFields
            /\ f.name.hash = call[t].hash /\ f.content = call[t].content
        BY <2>4 DEF Dumped
      <3>2. call[t].content \in Contents
        <4>1. call[t].op \notin Builds \cup {NULL}
          BY <3>1, NoCallFields DEF Builds, Texts
        <4> QED BY <4>1 DEF Handles, Types, Calls
      <3>3. Texts \cap OptionKinds = {}
        BY DEF Texts, OptionKinds
      <3>4. ASSUME call[t].op = "source"
            PROVE  /\ call[t].content \in Plain /\ call[t].content.form = "source"
                   /\ call[t].hash = Hash(call[t].content)
        <4>1. AnyOf(DumpControls["source"])
          BY <3>1, <3>4
        <4>2. AnyOf(HashControls.source)
          BY <4>1 DEF AnyOf, DumpControls, HashControls
        <4> QED BY <3>4, <4>2 DEF Sourced
      <3> QED BY <3>1, <3>2, <3>3, <3>4 DEF TextRight
    <2>5. ASSUME NEW t \in Threads, Wrote(t, f)
          PROVE  FileRight(f)
      <3>1. /\ DOMAIN f.name = NameFields
            /\ f.name.kind \notin Texts \ {"binary"}
            /\ f.name.kind \in {"binary", "spv"} => f.content \in Contents
        BY <2>5 DEF Wrote
      <3>2. ASSUME f.name.kind \in OptionKinds
            PROVE  /\ f.content \in BuildOptions
                   /\ f.content.text \in {f.name.options, NULL}
                   /\ f.content.text = NULL => f.content.more
        <4> DEFINE c == call[t]
        <4>1. StepOf(f.name.kind) = "dumpOptions"
          BY <3>2 DEF StepOf, OptionKinds
        <4>2. /\ At(t, "dumpOptions") /\ f.name.options = info[c.program].options
              /\ f.name.kind = "link_options" <=> c.op = "link"
              /\ f.content = Given(c)
              /\ c.new # NULL \/ c.options # NULL
          BY <2>5, <4>1 DEF Wrote
        <4>3. /\ c.op \in Builds
              /\ "appendOptions" \notin ToCome(t) /\ "saveOptions" \notin ToCome(t)
          BY <3>2, <4>2, StepsInOrder DEF Suffixes, Order, OptionKinds
        <4>4. AnyOf(SavesHash)
          <5>1. AnyOf(StepControls["dumpOptions"])
            BY <4>2, AtPosition, StepsAsked DEF Suffixes
          <5> QED BY <5>1 DEF StepControls, AnyOf, SavesHash
        <4>5. c.new = IF On("AppendBuildOptions")
                      THEN [text |-> c.options, edited |-> FALSE, more |-> TRUE]
                      ELSE NULL
          BY <2>2, <4>3 DEF Appended
        <4>6. c.options # NULL => f.name.options = c.options
          BY <4>2, <4>3, <4>4 DEF OptionsSaved
        <4>7. Given(c) \in BuildOptions
          BY GivenOptions DEF Types
        <4>8. Given(c).text = c.options
          BY <4>5 DEF Given
        <4>9. c.options = NULL => Given(c).more
          BY <4>2, <4>5 DEF Given
        <4> HIDE DEF c
        <4> QED BY <4>2, <4>6, <4>7, <4>8, <4>9
      <3> QED BY <3>1, <3>2 DEF TextRight, Texts
    <2> QED BY <1>2, <2>2, <2>3, <2>4, <2>5, FilesChange
  <1> QED BY <1>1, <1>2

LEMMA EditedContent ==
  ASSUME NEW content \in Contents
  PROVE  LET edited == [content EXCEPT !.edited = TRUE] IN
         /\ edited \in Contents /\ edited.edited /\ Hash(edited) = Hash(content)
         /\ content \in Plain => edited \in Plain /\ edited.form = content.form
  <1> DEFINE edited == [content EXCEPT !.edited = TRUE]
  <1>1. CASE content \in Plain
    <2>1. edited \in Plain /\ edited.edited = TRUE
          /\ edited.form = content.form /\ edited.text = content.text
      BY <1>1 DEF Plain
    <2> QED BY <2>1 DEF Contents, Hash
  <1>2. CASE content \in Outputs /\ content \notin Plain
    <2>1. edited \in Outputs /\ edited.edited = TRUE
          /\ edited.form = content.form /\ edited.text = content.text
      BY <1>2 DEF Outputs
    <2> QED BY <1>2, <2>1 DEF Contents, Hash
  <1> QED BY <1>1, <1>2 DEF Contents

LEMMA EditedOptions ==
  ASSUME NEW content \in BuildOptions
  PROVE  LET edited == [content EXCEPT !.edited = TRUE] IN
         /\ edited \in BuildOptions /\ edited.edited
         /\ edited.text = content.text /\ edited.more = content.more
  BY DEF BuildOptions

\* A copy is named for the hash and the options of the file it is made from.
LEMMA CopyParts ==
  ASSUME NEW f, DOMAIN f.name = NameFields, NEW n
  PROVE  LET copy == Copied(f, n) IN
         /\ copy.content = [f.content EXCEPT !.edited = TRUE]
         /\ copy.name.kind = (IF f.name.kind = "spv" THEN "il" ELSE f.name.kind)
         /\ copy.name.hash = f.name.hash
         /\ f.name.kind \notin {"binary", "spv"} => copy.name.options = f.name.options
  <1> DEFINE copy == Copied(f, n)
             same == [f.name EXCEPT !.dir = "inject", !.number = n]
  <1>1. copy.content = [f.content EXCEPT !.edited = TRUE]
    BY DEF Copied
  <1>2. same.kind = f.name.kind /\ same.hash = f.name.hash /\ same.options = f.name.options
    BY DEF NameFields
  <1> HIDE DEF same
  <1>3. copy.name = CASE f.name.kind = "binary" -> Name("inject", "binary", n, f.name.hash)
                      [] f.name.kind = "spv" -> Name("inject", "il", n, f.name.hash)
                      [] OTHER -> same
    BY DEF Copied, same
  <1>4. CASE f.name.kind = "binary"
    BY <1>1, <1>3, <1>4 DEF Name
  <1>5. CASE f.name.kind = "spv"
    BY <1>1, <1>3, <1>5 DEF Name
  <1>6. CASE f.name.kind \notin {"binary", "spv"}
    <2>1. copy.name = same
      BY <1>3, <1>6
    <2> QED BY <1>1, <1>2, <1>6, <2>1
  <1> QED BY <1>4, <1>5, <1>6

LEMMA InjectedStep ==
  ASSUME Types, FirstRun, Injected, Change
  PROVE  Injected'
  <1>1. CASE ~Restart
    BY <1>1, NumberGrows DEF Injected
  <1>2. CASE Restart
    <2>1. run = 1
      BY <1>2 DEF Restart
    <2>2. /\ inject' \subseteq Copies \cup Prepended
          /\ \A f, g \in inject' : f # g => f.name # g.name
      BY <1>2 DEF Restart
    <2> DEFINE FileRight(f) ==
                 /\ f.name.kind \in Texts \cup OptionKinds \cup {"prepend"}
                 /\ f.name.kind \in Texts => f.content \in Contents
                 /\ f.name.kind # "prepend" => f.content.edited
                 /\ TextRight(f.name.kind, f.name, f.content)
    <2>3. ASSUME NEW f \in Prepended
          PROVE  FileRight(f)
      <3>1. f.name.kind = "prepend"
        BY DEF Prepended, Name
      <3> QED BY <3>1 DEF TextRight, Texts, OptionKinds
    <2>4. ASSUME NEW g \in files, g.name.kind \in Copyable, NEW n
          PROVE  FileRight(Copied(g, n))
      <3> DEFINE copy == Copied(g, n)
      <3>1. /\ DOMAIN g.name = NameFields
            /\ g.name.kind \in Texts \cup {"spv"} => g.content \in Contents
            /\ TextRight(g.name.kind, g.name, g.content)
        BY <2>1 DEF FirstRun, NameFields
      <3>2. /\ copy.content = [g.content EXCEPT !.edited = TRUE]
            /\ copy.name.kind = (IF g.name.kind = "spv" THEN "il" ELSE g.name.kind)
            /\ copy.name.hash = g.name.hash
            /\ g.name.kind \notin {"binary", "spv"} => copy.name.options = g.name.options
        BY <3>1, CopyParts
      <3>3. g.name.kind \in Texts \cup {"spv"} \cup OptionKinds
        BY <2>4 DEF Copyable, Texts, OptionKinds
      <3>4. Texts \cap OptionKinds = {} /\ "il" \in Texts /\ "spv" \notin Texts \cup OptionKinds
            /\ "prepend" \notin Texts \cup OptionKinds /\ "source" \in Texts
            /\ "binary" \notin OptionKinds
        BY DEF Texts, OptionKinds
      <3> HIDE DEF copy
      <3>5. CASE g.name.kind \in Texts \cup {"spv"}
        <4>1. /\ copy.content \in Contents /\ copy.content.edited
              /\ Hash(copy.content) = Hash(g.content)
              /\ g.content \in Plain =>
                    copy.content \in Plain /\ copy.content.form = g.content.form
          BY <3>1, <3>2, <3>5, EditedContent
        <4>2. copy.name.kind \in Texts /\ copy.name.kind \notin OptionKinds
              /\ copy.name.kind # "prepend"
          BY <3>2, <3>4, <3>5
        <4>3. copy.name.kind = "source" =>
                 /\ copy.content \in Plain /\ copy.content.form = "source"
                 /\ copy.name.hash = Hash(copy.content)
          BY <3>1, <3>2, <4>1 DEF TextRight
        <4>4. FileRight(copy)
          BY <4>1, <4>2, <4>3 DEF TextRight
        <4> QED BY <4>4 DEF copy
      <3>6. CASE g.name.kind \in OptionKinds
        <4>1. /\ g.content \in BuildOptions
              /\ g.content.text \in {g.name.options, NULL}
              /\ g.content.text = NULL => g.content.more
          BY <3>1, <3>6 DEF TextRight
        <4>2. /\ copy.content \in BuildOptions /\ copy.content.edited
              /\ copy.content.text = g.content.text /\ copy.content.more = g.content.more
          BY <3>2, <4>1, EditedOptions
        <4>3. copy.name.kind = g.name.kind /\ copy.name.options = g.name.options
          BY <3>2, <3>4, <3>6
        <4>4. FileRight(copy)
          BY <3>4, <3>6, <4>1, <4>2, <4>3 DEF TextRight
        <4> QED BY <4>4 DEF copy
      <3> QED BY <3>3, <3>5, <3>6
    <2>5. \A f \in Copies : \E g \in files : \E n : g.name.kind \in Copyable /\ f = Copied(g, n)
      BY DEF Copies
    <2>6. \A f \in inject' : FileRight(f)
      <3> HIDE DEF FileRight
      <3> QED BY <2>2, <2>3, <2>4, <2>5
    <2> QED BY <2>2, <2>6 DEF Injected, TextRight
  <1> QED BY <1>1, <1>2

-----------------------------------------------------------------------------
(* Sources, and the programs that the driver makes of them. *)

\* What the driver holds for a handle changes when the program is made, built or
\* released.
LEMMA LiveBefore ==
  ASSUME Types, Suffixes, Handles, Change, ~Restart, NEW p \in Programs, live'[p] # NULL
  PROVE  \/ live'[p] = live[p]
         \/ /\ live[p] = NULL /\ info' = info
            /\ \E t \in Threads :
                  /\ Makes(t) /\ call[t].program = NULL /\ "create" \in ToCome(t)
                  /\ ToCome(t)' = ToCome(t) \ {"create"}
                  /\ live'[p].op = call[t].op /\ live'[p].builds = 0
                  /\ ToCome(t)' # {} => call'[t].program = p /\ call'[t].op = call[t].op
         \/ /\ live[p] # NULL /\ info' = info
            /\ live'[p].op = live[p].op /\ live'[p].own = live[p].own
            /\ live'[p].builds = live[p].builds + 1
            /\ \E t \in Threads : BuildsProgram(t) /\ call[t].program = p
  <1>1. ASSUME NEW u \in Threads, Created(u) \/ Built(u)
        PROVE  live' = live
    <2>1. PICK op, c : Starts(u, op, c)
      BY <1>1 DEF Created, Built
    <2> QED BY <2>1 DEF Starts
  <1>2. ASSUME NEW u \in Threads, Edits(u) \/ Numbers(u) \/ SavesOne(u) \/ Writes(u)
        PROVE  live' = live
    BY <1>2 DEF Edits, Numbers, SavesOne, Writes
  <1>3. ASSUME NEW u \in Threads, Makes(u), live'[p] # live[p]
        PROVE  /\ live[p] = NULL /\ info' = info
               /\ call[u].program = NULL /\ "create" \in ToCome(u)
               /\ ToCome(u)' = ToCome(u) \ {"create"}
               /\ live'[p].op = call[u].op /\ live'[p].builds = 0
               /\ ToCome(u)' # {} => call'[u].program = p /\ call'[u].op = call[u].op
    <2>1. PICK c \in Calls, q \in Programs, held \in Held :
             /\ Moves(u, "create", c) /\ live[q] = NULL /\ live' = [live EXCEPT ![q] = held]
             /\ held.op = call[u].op /\ held.builds = 0 /\ c.program = q
      BY <1>3 DEF Makes
    <2>2. p = q /\ live'[p] = held
      BY <1>3, <2>1 DEF Types
    <2>3. info' = info
      BY <1>3 DEF Makes
    <2> QED BY <2>1, <2>2, <2>3 DEF Moves, Handles
  <1>4. ASSUME NEW u \in Threads, BuildsProgram(u), live'[p] # live[p]
        PROVE  /\ live[p] # NULL /\ info' = info
               /\ live'[p].op = live[p].op /\ live'[p].own = live[p].own
               /\ live'[p].builds = live[p].builds + 1
               /\ call[u].program = p
    <2>1. live' = [live EXCEPT ![call[u].program].builds = @ + 1] /\ info' = info
      BY <1>4 DEF BuildsProgram
    <2>2. call[u].program = p /\ live'[p] = [live[p] EXCEPT !.builds = @ + 1]
      BY <1>4, <2>1 DEF Types
    <2>3. live[p] # NULL
      BY <2>2, ProgramNullAssumption DEF Handles
    <2>4. live[p] \in Held
      BY <2>3 DEF Types
    <2> QED BY <2>1, <2>2, <2>3, <2>4 DEF Held
  <1>5. ASSUME NEW q \in Programs, Release(q)
        PROVE  live'[p] = live[p]
    BY <1>5 DEF Release, Types
  <1> QED BY <1>1, <1>2, <1>3, <1>4, <1>5 DEF Change

\* How a step leaves the call of a thread that creates a program from source.
LEMMA CreatingBefore ==
  ASSUME Types, Suffixes, Handles, Change, ~Restart, NEW t \in Threads, call'[t].op = "source"
  PROVE  \/ \E s \in Sources :
               /\ call'[t].content = Text("source", s)
               /\ AnyOf(HashControls.source) => call'[t].hash = Hash(Text("source", s))
               /\ On("InjectProgramSource") => "inject" \in ToCome(t)'
               /\ On("InjectProgramBinaries") => "binaries" \in ToCome(t)'
               /\ call'[t].program = NULL /\ call'[t].made = NULL
         \/ call'[t] = call[t] /\ ToCome(t)' = ToCome(t)
         \/ /\ call[t].op = "source"
            /\ \E step \in EditSteps : /\ At(t, step) /\ Edited(t, step) /\ Order(t, step)
                                       /\ ToCome(t)' = ToCome(t) \ {step}
            /\ live' = live /\ call'[t].hash = call[t].hash
            /\ call'[t].program = NULL
         \/ call[t].op = "source" /\ Makes(t)
         \/ /\ call[t].op = "source"
            /\ \E step \in {"number", "saveHash"} : Moves(t, step, call[t])
  <1>0. call'[t].op # NULL /\ NoCall.op = NULL
    BY NoCallFields
  <1>1. ASSUME NEW u \in Threads, Created(u), u = t
        PROVE  \E s \in Sources :
                  /\ call'[t].content = Text("source", s)
                  /\ AnyOf(HashControls.source) => call'[t].hash = Hash(Text("source", s))
                  /\ On("InjectProgramSource") => "inject" \in ToCome(t)'
                  /\ On("InjectProgramBinaries") => "binaries" \in ToCome(t)'
                  /\ call'[t].program = NULL /\ call'[t].made = NULL
    <2>1. PICK op \in Creates \cup {"builtin"}, s \in Sources \cup {NULL}, c \in Calls :
             /\ Starts(t, op, c) /\ c.program = NULL /\ c.made = NULL
             /\ c.content = Text(op, s) /\ (op \in Texts => s \in Sources)
             /\ op \in Texts /\ AnyOf(HashControls[op]) => c.hash = Hash(Text(op, s))
      BY <1>1 DEF Created
    <2>2. /\ op = "source" /\ call'[t].content = c.content /\ call'[t].hash = c.hash
          /\ call'[t].program = NULL /\ call'[t].made = NULL
          /\ On("InjectProgramSource") => "inject" \in ToCome(t)'
      BY <2>1 DEF Starts
    <2>3. On("InjectProgramBinaries") => "binaries" \in ToCome(t)'
      BY <2>1, <2>2 DEF Starts
    <2>4. "source" \in Texts
      BY DEF Texts
    <2>5. s \in Sources /\ c.content = Text("source", s)
      BY <2>1, <2>2, <2>4 DEF Text
    <2>6. AnyOf(HashControls.source) => c.hash = Hash(Text("source", s))
      BY <2>1, <2>2, <2>4 DEF AnyOf, Text, Hash
    <2> QED BY <2>2, <2>3, <2>5, <2>6
  <1>2. ASSUME NEW u \in Threads, Built(u) \/ Created(u), u # t \/ Built(u)
        PROVE  call'[t] = call[t] /\ ToCome(t)' = ToCome(t)
    <2>1. CASE u # t
      BY <1>2, <2>1 DEF Built, Created, Starts
    <2>2. CASE u = t /\ Built(u)
      <3>1. call'[t].op \in Builds
        BY <2>2 DEF Built, Starts
      <3> QED BY <3>1 DEF Builds
    <2> QED BY <1>2, <2>1, <2>2
  <1>3. ASSUME NEW u \in Threads, NEW step, NEW c, Moves(u, step, c)
        PROVE  \/ call'[t] = call[t] /\ ToCome(t)' = ToCome(t)
               \/ /\ u = t /\ call[t].op = "source" /\ ToCome(t)' = ToCome(t) \ {step}
                  /\ step \in ToCome(t)
                  /\ call'[t].hash = c.hash /\ call'[t].program = c.program
    BY <1>0, <1>3 DEF Moves
  <1>4. ASSUME NEW u \in Threads, Edits(u)
        PROVE  \/ call'[t] = call[t] /\ ToCome(t)' = ToCome(t)
               \/ /\ call[t].op = "source"
                  /\ \E step \in EditSteps : /\ At(t, step) /\ Edited(t, step) /\ Order(t, step)
                                             /\ ToCome(t)' = ToCome(t) \ {step}
                  /\ live' = live /\ call'[t].hash = call[t].hash
                  /\ call'[t].program = NULL
    <2>1. PICK step \in EditSteps : At(u, step) /\ Advances(u, step) /\ Edited(u, step)
      BY <1>4 DEF Edits
    <2>2. PICK c \in Calls : /\ Moves(u, step, c)
                             /\ c.program = call[u].program /\ c.hash = call[u].hash
      BY <2>1 DEF Advances
    <2>3. live' = live
      BY <1>4 DEF Edits
    <2>4. ASSUME u = t, call[t].op = "source"
          PROVE  Order(t, step) /\ call[t].program = NULL
      <3>1. Order(t, step)
        BY <2>1, <2>4, StepsInOrder DEF Suffixes
      <3>2. "create" \in ToCome(t)
        BY <2>4, <3>1 DEF Order, EditSteps, Builds
      <3> QED BY <3>1, <3>2 DEF Handles
    <2> QED BY <1>3, <2>1, <2>2, <2>3, <2>4
  <1>5. ASSUME NEW u \in Threads, Makes(u)
        PROVE  \/ call'[t] = call[t] /\ ToCome(t)' = ToCome(t)
               \/ call[t].op = "source" /\ Makes(t)
    <2>1. PICK c : Moves(u, "create", c)
      BY <1>5 DEF Makes
    <2> QED BY <1>3, <1>5, <2>1
  <1>6. ASSUME NEW u \in Threads, NEW step, Moves(u, step, call[u]),
               u = t => step \in {"number", "saveHash"} \/ Order(t, step),
               step \notin {"inject", "prepend", "binaries", "spirv", "create", "appendLink"}
        PROVE  \/ call'[t] = call[t] /\ ToCome(t)' = ToCome(t)
               \/ /\ call[t].op = "source"
                  /\ \E s \in {"number", "saveHash"} : Moves(t, s, call[t])
    <2>1. CASE u = t /\ call[t].op = "source" /\ step \notin {"number", "saveHash"}
      <3>1. step \in ToCome(t) /\ call[t].op \in DOMAIN Steps
            /\ \A s \in ToCome(t) : \E j \in DOMAIN Steps["source"] : Steps["source"][j] = s
        BY <1>6, <2>1, StepLists DEF Moves, ToCome, Suffixes, Suffix, Asked
      <3> QED BY <1>6, <2>1, <3>1, StepLists
    <2> QED BY <1>3, <1>6, <2>1
  <1>7. ASSUME NEW u \in Threads, Numbers(u) \/ SavesOne(u) \/ BuildsProgram(u) \/ Writes(u)
        PROVE  \/ call'[t] = call[t] /\ ToCome(t)' = ToCome(t)
               \/ /\ call[t].op = "source"
                  /\ \E s \in {"number", "saveHash"} : Moves(t, s, call[t])
    <2>1. PICK step \in {"number", "saveHash", "saveOptions", "increment", "build"} \cup DumpSteps :
             At(u, step) /\ Moves(u, step, call[u])
      BY <1>7 DEF Numbers, SavesOne, BuildsProgram, Writes
    <2>2. step \notin {"inject", "prepend", "binaries", "spirv", "create", "appendLink"}
      BY DEF DumpSteps
    <2>3. Order(u, step)
      BY <2>1, StepsInOrder DEF Suffixes
    <2> QED BY <1>6, <2>1, <2>2, <2>3
  <1>8. ASSUME NEW q \in Programs, Release(q)
        PROVE  call'[t] = call[t] /\ ToCome(t)' = ToCome(t)
    BY <1>8 DEF Release, ToCome
  <1>9. CASE \E u \in Threads : Created(u) \/ Built(u)
    BY <1>1, <1>2, <1>9
  <1>10. CASE \E u \in Threads : Edits(u)
    BY <1>4, <1>10
  <1>11. CASE \E u \in Threads : Makes(u)
    BY <1>5, <1>11
  <1>12. CASE \E u \in Threads : Numbers(u) \/ SavesOne(u) \/ BuildsProgram(u) \/ Writes(u)
    BY <1>7, <1>12
  <1> QED BY <1>8, <1>9, <1>10, <1>11, <1>12 DEF Change

\* What Sourced says of one call.
SourceRight(t) ==
    LET c == call[t] IN
    /\ c.content \in Plain /\ c.content.form = "source"
    /\ AnyOf(HashControls.source) => c.hash = Hash(c.content)
    /\ On("InjectProgramSource") /\ "inject" \notin ToCome(t)
       /\ InInject(Name("inject", "source", NULL, c.hash)) => c.content.edited
    /\ On("InjectProgramBinaries") /\ "binaries" \notin ToCome(t) /\ ~c.refused
       /\ InInject(Name("inject", "binary", NULL, c.hash)) => c.made # NULL /\ c.made.edited
    /\ c.made # NULL /\ "create" \in ToCome(t) => c.made.edited
    /\ c.program # NULL => live[c.program].own = Hash(c.content)

\* The parts of a source that a call goes on with.
SourceKept(t, c) ==
    /\ c.content \in Plain /\ c.content.form = "source"
    /\ Hash(c.content) = Hash(call[t].content) \/ c.hash = Hash(c.content)
    /\ c.hash = call[t].hash
    /\ On("InjectProgramSource") /\ "inject" \notin ToCome(t)'
       /\ InInject(Name("inject", "source", NULL, c.hash)) => c.content.edited
    /\ On("InjectProgramBinaries") /\ "binaries" \notin ToCome(t)' /\ ~c.refused
       /\ InInject(Name("inject", "binary", NULL, c.hash)) => c.made # NULL /\ c.made.edited
    /\ c.made # NULL => c.made.edited

LEMMA EditedSource ==
  ASSUME Types, Injected, NEW t \in Threads, SourceRight(t), NEW step \in EditSteps,
         Edited(t, step), Order(t, step), step \in ToCome(t), call[t].op = "source",
         ToCome(t)' = ToCome(t) \ {step}, call'[t].op = "source"
  PROVE  SourceKept(t, call'[t])
  <1>1. call[t] \in Calls /\ NoCall.op # "source"
    BY NoCallFields DEF Types
  <1>2. /\ step \in {"inject", "prepend", "binaries", "spirv"} /\ "create" \in ToCome(t)
        /\ call[t].made # NULL => call[t].made.edited
    BY DEF Order, EditSteps, Builds, SourceRight
  <1>3. ASSUME NEW c, Moves(t, step, c)
        PROVE  /\ call'[t].content = c.content /\ call'[t].hash = c.hash
               /\ call'[t].made = c.made /\ call'[t].refused = c.refused
    BY <1>1, <1>3 DEF Moves
  <1>4. ASSUME Moves(t, step, call[t]), step \notin {"inject", "binaries"}
        PROVE  SourceKept(t, call'[t])
    <2>1. /\ call'[t].content = call[t].content /\ call'[t].hash = call[t].hash
          /\ call'[t].made = call[t].made /\ call'[t].refused = call[t].refused
      BY <1>3, <1>4
    <2> QED BY <1>2, <1>4, <2>1 DEF SourceKept, SourceRight
  <1>5. CASE step = "inject"
    <2> DEFINE found == Lookup(TwoNames("source", call[t].hash))
    <2>1. /\ \A f \in found : f \in inject /\ f.name.kind = "source"
                              /\ f.name.hash = call[t].hash
          /\ InInject(Name("inject", "source", NULL, call[t].hash)) => found # {}
      BY TwoNamesLookedUp
    <2>2. SourceTaken(t)
      BY <1>5 DEF Edited
    <2>3. ASSUME Moves(t, "inject", call[t]), found = {}
          PROVE  SourceKept(t, call'[t])
      <3>1. /\ call'[t].content = call[t].content /\ call'[t].hash = call[t].hash
            /\ call'[t].made = call[t].made /\ call'[t].refused = call[t].refused
        BY <1>3, <1>5, <2>3
      <3> HIDE DEF found
      <3> QED BY <1>2, <1>5, <2>1, <2>3, <3>1 DEF SourceKept, SourceRight
    <2>4. ASSUME NEW f \in found,
                 Moves(t, "inject", [call[t] EXCEPT !.content = f.content, !.injected = TRUE])
          PROVE  SourceKept(t, call'[t])
      <3> DEFINE c == [call[t] EXCEPT !.content = f.content, !.injected = TRUE]
      <3>1. /\ c.content = f.content /\ c.hash = call[t].hash /\ c.made = call[t].made
            /\ c.refused = call[t].refused
        BY <1>1 DEF Calls
      <3>2. Moves(t, step, c)
        BY <1>5, <2>4
      <3> HIDE DEF c
      <3>3. /\ call'[t].content = f.content /\ call'[t].hash = call[t].hash
            /\ call'[t].made = call[t].made /\ call'[t].refused = call[t].refused
        BY <1>3, <3>1, <3>2
      <3>4. /\ f.content \in Plain /\ f.content.form = "source" /\ f.content.edited
            /\ call[t].hash = Hash(f.content)
        BY <2>1, <2>4 DEF Injected, TextRight
      <3> HIDE DEF found
      <3> QED BY <1>2, <1>5, <3>3, <3>4 DEF SourceKept, SourceRight
    <2> QED BY <2>2, <2>3, <2>4 DEF SourceTaken
  <1>6. CASE step = "prepend"
    <2>1. Prepends(t)
      BY <1>6 DEF Edited
    <2>2. ASSUME Moves(t, "prepend", [call[t] EXCEPT !.content.prepended = TRUE,
                                                     !.injected = TRUE])
          PROVE  SourceKept(t, call'[t])
      <3> DEFINE c == [call[t] EXCEPT !.content.prepended = TRUE, !.injected = TRUE]
                 content == [call[t].content EXCEPT !.prepended = TRUE]
      <3>1. /\ c.content = content /\ c.hash = call[t].hash /\ c.made = call[t].made
            /\ c.refused = call[t].refused
        BY <1>1 DEF Calls
      <3>2. Moves(t, step, c)
        BY <1>6, <2>2
      <3> HIDE DEF c
      <3>3. /\ call'[t].content = content /\ call'[t].hash = call[t].hash
            /\ call'[t].made = call[t].made /\ call'[t].refused = call[t].refused
        BY <1>3, <3>1, <3>2
      <3>4. /\ content \in Plain /\ content.form = call[t].content.form
            /\ content.text = call[t].content.text /\ content.edited = call[t].content.edited
        BY DEF SourceRight, Plain
      <3> HIDE DEF content
      <3>5. Hash(content) = Hash(call[t].content)
        BY <3>4 DEF Hash
      <3> QED BY <1>2, <1>6, <3>3, <3>4, <3>5 DEF SourceKept, SourceRight
    <2> QED BY <1>4, <1>6, <2>1, <2>2 DEF Prepends
  <1>7. ASSUME NEW kind \in Texts, ProgramTaken(t, step, kind),
               \/ step = "binaries" /\ kind = "binary"
               \/ step = "spirv"
        PROVE  SourceKept(t, call'[t])
    <2> DEFINE found == Lookup(TwoNames(kind, call[t].hash))
    <2>1. /\ \A f \in found : f \in inject /\ f.name.kind = kind
          /\ InInject(Name("inject", kind, NULL, call[t].hash)) => found # {}
      BY TwoNamesLookedUp
    <2>2. ASSUME Moves(t, step, call[t]), call[t].made # NULL \/ found = {}
          PROVE  SourceKept(t, call'[t])
      <3>1. /\ call'[t].content = call[t].content /\ call'[t].hash = call[t].hash
            /\ call'[t].made = call[t].made /\ call'[t].refused = call[t].refused
        BY <1>3, <2>2
      <3> HIDE DEF found
      <3>2. CASE step = "binaries"
        BY <1>2, <1>7, <2>1, <2>2, <3>1, <3>2 DEF SourceKept, SourceRight
      <3>3. CASE step = "spirv"
        BY <1>4, <2>2, <3>3
      <3> QED BY <1>7, <3>2, <3>3
    <2>3. ASSUME Moves(t, step, [call[t] EXCEPT !.refused = TRUE])
          PROVE  SourceKept(t, call'[t])
      <3> DEFINE c == [call[t] EXCEPT !.refused = TRUE]
      <3>1. /\ c.content = call[t].content /\ c.hash = call[t].hash /\ c.made = call[t].made
            /\ c.refused = TRUE
        BY <1>1 DEF Calls
      <3> HIDE DEF c
      <3>2. /\ call'[t].content = call[t].content /\ call'[t].hash = call[t].hash
            /\ call'[t].made = call[t].made /\ call'[t].refused = TRUE
        BY <1>3, <2>3, <3>1 DEF c
      <3> QED BY <1>2, <1>7, <3>2 DEF SourceKept, SourceRight
    <2>4. ASSUME NEW f \in found, f.content # NULL,
                 Moves(t, step, [call[t] EXCEPT !.made = f.content])
          PROVE  SourceKept(t, call'[t])
      <3> DEFINE c == [call[t] EXCEPT !.made = f.content]
      <3>1. /\ c.content = call[t].content /\ c.hash = call[t].hash /\ c.made = f.content
            /\ c.refused = call[t].refused
        BY <1>1 DEF Calls
      <3> HIDE DEF c
      <3>2. /\ call'[t].content = call[t].content /\ call'[t].hash = call[t].hash
            /\ call'[t].made = f.content /\ call'[t].refused = call[t].refused
        BY <1>3, <2>4, <3>1 DEF c
      <3>3. f.content.edited
        BY <2>1, <2>4 DEF Injected, Texts
      <3> HIDE DEF found
      <3> QED BY <1>2, <1>7, <2>4, <3>2, <3>3 DEF SourceKept, SourceRight
    <2> QED BY <1>7, <2>2, <2>3, <2>4 DEF ProgramTaken
  <1>8. CASE step = "binaries"
    BY <1>7, <1>8 DEF Edited, Texts
  <1>9. CASE step = "spirv"
    BY <1>7, <1>9 DEF Edited, Texts
  <1> QED BY <1>2, <1>5, <1>6, <1>8, <1>9

LEMMA SourcedStep ==
  ASSUME Types, Suffixes, Handles, Injected, Sourced, Change
  PROVE  Sourced'
  <1>1. CASE Restart
    <2>1. \A t \in Threads : call'[t].op = NULL
      BY <1>1, NoCallFields DEF Restart, Idle, Suffixes, Suffix
    <2> QED BY <2>1, NoCallFields DEF Sourced
  <1>2. CASE ~Restart
    <2>1. run' = run /\ config' = config /\ inject' = inject
      BY <1>2, NumberGrows
    <2>2. SUFFICES ASSUME NEW t \in Threads, call'[t].op = "source"
                   PROVE  SourceRight(t)'
      BY DEF Sourced, SourceRight
    <2>3. /\ \A control : On(control)' = On(control)
          /\ AnyOf(HashControls.source)' = AnyOf(HashControls.source)
          /\ \A name : InInject(name)' = InInject(name)
      BY <2>1 DEF On, AnyOf, InInject
    <2>4. call[t].op = "source" => SourceRight(t)
      BY DEF Sourced, SourceRight
    <2>5. \A p \in Programs : live'[p] # NULL /\ live[p] # NULL => live'[p].own = live[p].own
      BY <1>2, LiveBefore
    <2>6. call'[t].program # NULL => call'[t].program \in Programs /\ live'[call'[t].program] # NULL
      <3>1. Types' /\ Handles'
        BY TypesStep, HandlesStep
      <3> QED BY <3>1 DEF Types, Handles, Calls
    <2>7. ASSUME NEW s \in Sources,
                 call'[t].content = Text("source", s),
                 AnyOf(HashControls.source) => call'[t].hash = Hash(Text("source", s)),
                 On("InjectProgramSource") => "inject" \in ToCome(t)',
                 On("InjectProgramBinaries") => "binaries" \in ToCome(t)',
                 call'[t].program = NULL, call'[t].made = NULL
          PROVE  SourceRight(t)'
      <3>1. Text("source", s) \in Plain /\ Text("source", s).form = "source"
        BY StepLists, TextIsContent
      <3> QED BY <2>3, <2>7, <3>1 DEF SourceRight
    <2>8. ASSUME call[t].op = "source", call'[t].content = call[t].content,
                 call'[t].hash = call[t].hash, call'[t].made = call[t].made,
                 call'[t].refused = call[t].refused, call'[t].program = call[t].program,
                 ToCome(t)' \subseteq ToCome(t),
                 "inject" \in ToCome(t) => "inject" \in ToCome(t)',
                 "binaries" \in ToCome(t) => "binaries" \in ToCome(t)'
          PROVE  SourceRight(t)'
      <3>1. call[t].program # NULL =>
               live'[call[t].program].own = live[call[t].program].own
        BY <2>5, <2>6, <2>8 DEF Handles
      <3> QED BY <2>3, <2>4, <2>8, <3>1 DEF SourceRight
    <2>9. ASSUME call[t].op = "source", NEW step \in EditSteps, At(t, step),
                 Edited(t, step), Order(t, step), ToCome(t)' = ToCome(t) \ {step},
                 call'[t].hash = call[t].hash, call'[t].program = NULL
          PROVE  SourceRight(t)'
      <3>1. step \in ToCome(t)
        BY <2>9 DEF At, ToCome
      <3>2. SourceKept(t, call'[t])
        BY <2>2, <2>4, <2>9, <3>1, EditedSource
      <3> QED BY <2>3, <2>4, <2>9, <3>2 DEF SourceKept, SourceRight
    <2>10. ASSUME call[t].op = "source", Makes(t)
           PROVE  SourceRight(t)'
      <3>1. PICK c \in Calls :
               /\ Moves(t, "create", c)
               /\ c.hash = call[t].hash /\ c.content = call[t].content
               /\ \/ \E p \in Programs, held \in Held :
                        /\ live' = [live EXCEPT ![p] = held]
                        /\ held.own = <<call[t].op, call[t].content.text>>
                        /\ c.program = p /\ c.refused = call[t].refused
                        /\ c.made = (IF call[t].made # NULL THEN call[t].made
                                     ELSE call[t].content)
                  \/ c.program = call[t].program /\ c.refused /\ c.made = call[t].made
        BY <2>10 DEF Makes
      <3>2. /\ call'[t].content = call[t].content /\ call'[t].hash = call[t].hash
            /\ call'[t].made = c.made /\ call'[t].refused = c.refused
            /\ call'[t].program = c.program
            /\ "create" \in ToCome(t) /\ ToCome(t)' = ToCome(t) \ {"create"}
        BY <2>2, <3>1, NoCallFields DEF Moves
      <3>3. call[t].program = NULL
        BY <3>2 DEF Handles
      <3>4. c.program # NULL => live'[c.program].own = Hash(call[t].content)
        <4>1. ASSUME NEW p \in Programs, NEW held \in Held,
                     live' = [live EXCEPT ![p] = held],
                     held.own = <<call[t].op, call[t].content.text>>
              PROVE  live'[p].own = Hash(call[t].content)
          BY <2>4, <2>10, <4>1 DEF Types, Hash, SourceRight
        <4> QED BY <3>1, <3>3, <4>1
      <3>5. /\ On("InjectProgramBinaries") /\ "binaries" \notin ToCome(t) /\ ~c.refused
               /\ InInject(Name("inject", "binary", NULL, call[t].hash))
                  => c.made # NULL /\ c.made.edited
        BY <2>4, <2>10, <3>1 DEF SourceRight
      <3> QED BY <2>3, <2>4, <2>10, <3>2, <3>4, <3>5 DEF SourceRight
    <2>11. ASSUME call[t].op = "source",
                  NEW step \in {"number", "saveHash"}, Moves(t, step, call[t])
           PROVE  SourceRight(t)'
      <3>1. /\ call'[t].content = call[t].content
            /\ call'[t].hash = call[t].hash /\ call'[t].made = call[t].made
            /\ call'[t].refused = call[t].refused /\ call'[t].program = call[t].program
            /\ ToCome(t)' = ToCome(t) \ {step}
        BY <2>2, <2>11, NoCallFields DEF Moves
      <3> QED BY <2>8, <2>11, <3>1
    <2>12. CASE call'[t] = call[t] /\ ToCome(t)' = ToCome(t)
      BY <2>2, <2>8, <2>12
    <2> QED BY <1>2, <2>2, <2>7, <2>9, <2>10, <2>11, <2>12, CreatingBefore
  <1> QED BY <1>1, <1>2

-----------------------------------------------------------------------------
(* What the layer knows of a program made from source: its hash, and how often it *)
(* was built.                                                                     *)

\* The action that makes a step of a call that works on a program.
Makers(t, step) ==
    \/ step \in EditSteps /\ Edits(t)
    \/ step = "create" /\ Makes(t)
    \/ step = "number" /\ Numbers(t)
    \/ step \in {"saveHash", "saveOptions", "increment"} /\ SavesOne(t)
    \/ step = "build" /\ BuildsProgram(t)
    \/ step \in DumpSteps /\ Writes(t)

LEMMA StepPending ==
  ASSUME Types, Suffixes, Handles, Change, ~Restart, NEW p \in Programs,
         NEW t \in Threads, call[t].program = p, NEW step \in ToCome(t)
  PROVE  \/ call'[t].program = p /\ call'[t].op = call[t].op /\ step \in ToCome(t)'
         \/ Makers(t, step) /\ At(t, step)
  <1> DEFINE Stays == call'[t].program = p /\ call'[t].op = call[t].op /\ step \in ToCome(t)'
  <1>0. p # NULL /\ NoCall.program = NULL
    BY NoCallFields, ProgramNullAssumption
  <1>1. ASSUME NEW u \in Threads, Created(u) \/ Built(u)
        PROVE  Stays
    <2>1. PICK op, c : Starts(u, op, c)
      BY <1>1 DEF Created, Built
    <2> QED BY <1>0, <2>1 DEF Starts
  <1>2. ASSUME NEW u \in Threads, NEW s, NEW c, Moves(u, s, c), u # t \/ c.program = p
        PROVE  Stays \/ (u = t /\ s = step)
    BY <1>2 DEF Moves
  <1>3. ASSUME NEW u \in Threads, Edits(u)
        PROVE  Stays \/ (Makers(t, step) /\ At(t, step))
    <2>1. PICK s \in EditSteps, c \in Calls :
             At(u, s) /\ Moves(u, s, c) /\ c.program = call[u].program
      BY <1>3, EditsMove
    <2> QED BY <1>2, <1>3, <2>1 DEF Makers
  <1>4. ASSUME NEW u \in Threads, Makes(u)
        PROVE  Stays
    <2>1. PICK c \in Calls : Moves(u, "create", c)
      BY <1>4 DEF Makes
    <2>2. u # t
      BY <1>0, <2>1 DEF Moves, Handles
    <2> QED BY <1>2, <2>1, <2>2
  <1>5. ASSUME NEW u \in Threads,
               \/ Numbers(u) \/ SavesOne(u) \/ BuildsProgram(u) \/ Writes(u)
        PROVE  Stays \/ (Makers(t, step) /\ At(t, step))
    <2>1. PICK s : /\ At(u, s) /\ Moves(u, s, call[u])
                   /\ \/ s = "number" /\ Numbers(u)
                      \/ s \in {"saveHash", "saveOptions", "increment"} /\ SavesOne(u)
                      \/ s = "build" /\ BuildsProgram(u)
                      \/ s \in DumpSteps /\ Writes(u)
      BY <1>5 DEF Numbers, SavesOne, BuildsProgram, Writes
    <2> QED BY <1>2, <2>1 DEF Makers
  <1>6. ASSUME NEW q \in Programs, Release(q)
        PROVE  Stays
    BY <1>6 DEF Release, ToCome
  <1> QED BY <1>1, <1>3, <1>4, <1>5, <1>6 DEF Change

\* A call that builds counts the build at its end.
LEMMA IncrementLast ==
  ASSUME NEW t \in Threads, Suffix(t), call[t].op \in Builds, AnyOf(StepControls.increment)
  PROVE  "increment" \in ToCome(t)
  <1>1. call[t].op \in DOMAIN Steps /\ call[t].op # NULL
    BY StepLists, NoCallFields DEF Builds
  <1>2. StepControls["increment"] = StepControls.increment
    OBVIOUS
  <1>3. /\ call[t].todo # {} /\ call[t].todo \subseteq Asked(call[t].op)
        /\ \A i \in call[t].todo : \A j \in Asked(call[t].op) : i <= j => j \in call[t].todo
    BY <1>1 DEF Suffix
  <1>4. ASSUME NEW last \in Nat, DOMAIN Steps[call[t].op] = 1 .. last, last > 0,
               Steps[call[t].op][last] = "increment"
        PROVE  "increment" \in ToCome(t)
    <2>1. last \in Asked(call[t].op) /\ Asked(call[t].op) \subseteq 1 .. last
      BY <1>2, <1>4 DEF Asked
    <2>2. last \in call[t].todo
      BY <1>3, <2>1
    <2> QED BY <1>4, <2>2 DEF ToCome
  <1>5. CASE call[t].op = "build"
    <2>1. DOMAIN Steps["build"] = 1 .. 10 /\ Steps["build"][10] = "increment"
      BY StepLists
    <2> QED BY <1>4, <1>5, <2>1
  <1>6. CASE call[t].op = "compile"
    <2>1. DOMAIN Steps["compile"] = 1 .. 8 /\ Steps["compile"][8] = "increment"
      BY StepLists
    <2> QED BY <1>4, <1>6, <2>1
  <1> QED BY <1>5, <1>6 DEF Builds

\* A call that builds has no step that makes a program.
LEMMA BuildSteps ==
  ASSUME NEW t \in Threads, Suffix(t), call[t].op \in Builds
  PROVE  {"create", "number", "saveHash"} \cap ToCome(t) = {}
  <1>1. call[t].op \in DOMAIN Steps /\ call[t].op # NULL
    BY StepLists, NoCallFields DEF Builds
  <1>2. \A s \in ToCome(t) : \E j \in DOMAIN Steps[call[t].op] : Steps[call[t].op][j] = s
    BY <1>1 DEF Suffix, Asked, ToCome
  <1>3. CASE call[t].op = "build"
    <2>1. \A j \in DOMAIN Steps["build"] :
             Steps["build"][j] \notin {"create", "number", "saveHash"}
      BY StepLists
    <2> QED BY <1>2, <1>3, <2>1
  <1>4. CASE call[t].op = "compile"
    <2>1. \A j \in DOMAIN Steps["compile"] :
             Steps["compile"][j] \notin {"create", "number", "saveHash"}
      BY StepLists
    <2> QED BY <1>2, <1>4, <2>1
  <1> QED BY <1>3, <1>4 DEF Builds

LEMMA HashBefore ==
  ASSUME Types, Change, ~Restart, NEW p \in Programs
  PROVE  \/ info'[p].hash = info[p].hash /\ ~\E t \in Threads : /\ call[t].program = p
                                                               /\ SavesOne(t)
                                                               /\ At(t, "saveHash")
                                                               /\ Moves(t, "saveHash", call[t])
         \/ \E t \in Threads : /\ call[t].program = p /\ At(t, "saveHash") /\ live' = live
                               /\ Moves(t, "saveHash", call[t])
                               /\ info'[p].hash = call[t].hash
  <1>0. p # NULL
    BY ProgramNullAssumption
  <1>1. ASSUME NEW u \in Threads, Created(u) \/ Built(u)
        PROVE  info' = info
    <2>1. PICK op, c : Starts(u, op, c)
      BY <1>1 DEF Created, Built
    <2> QED BY <2>1 DEF Starts
  <1>2. ASSUME NEW u \in Threads, Edits(u) \/ Makes(u) \/ BuildsProgram(u) \/ Writes(u)
        PROVE  info' = info
    BY <1>2 DEF Edits, Makes, BuildsProgram, Writes
  <1>3. ASSUME NEW u \in Threads, Numbers(u)
        PROVE  info'[p].hash = info[p].hash
    BY <1>3 DEF Numbers, Types
  <1>4. ASSUME NEW u \in Threads, SavesOne(u)
        PROVE  \/ info'[p].hash = info[p].hash
               \/ /\ call[u].program = p /\ At(u, "saveHash") /\ live' = live
                  /\ Moves(u, "saveHash", call[u])
                  /\ info'[p].hash = call[u].hash
    BY <1>0, <1>4 DEF SavesOne, Types
  <1>5. ASSUME NEW u \in Threads, SavesOne(u), call[u].program = p,
               At(u, "saveHash"), Moves(u, "saveHash", call[u])
        PROVE  live' = live /\ info'[p].hash = call[u].hash
    <2>1. /\ "saveHash" \in ToCome(u) /\ ToCome(u)' = ToCome(u) \ {"saveHash"}
      BY <1>5 DEF Moves
    <2>2. ~Moves(u, "saveOptions", call[u]) /\ ~Moves(u, "increment", call[u])
      BY <2>1 DEF Moves
    <2>3. info' = [info EXCEPT ![p].hash = call[u].hash] /\ live' = live
      BY <1>0, <1>5, <2>2 DEF SavesOne
    <2> QED BY <2>3 DEF Types
  <1>6. ASSUME NEW q \in Programs, Release(q)
        PROVE  info' = info
    BY <1>6 DEF Release
  <1>7. \/ info'[p].hash = info[p].hash
        \/ \E t \in Threads : /\ call[t].program = p /\ At(t, "saveHash") /\ live' = live
                              /\ Moves(t, "saveHash", call[t])
                              /\ info'[p].hash = call[t].hash
    BY <1>1, <1>2, <1>3, <1>4, <1>6 DEF Change
  <1> QED BY <1>5, <1>7

\* The layer has saved the program's hash.
HashSaved(p) == \A t \in Threads : call[t].program = p => "saveHash" \notin ToCome(t)

\* Between a build of a program and its count.
Built1(t, p) == call[t].program = p /\ call[t].op \in Builds /\ "build" \notin ToCome(t)

LEMMA NotYetBuilt ==
  ASSUME Types, Suffixes, Handles, SourceInfo, Change, ~Restart, On("InjectProgramSource"),
         NEW t \in Threads, call'[t].program # NULL, "number" \in ToCome(t)'
  PROVE  live'[call'[t].program].builds = 0
  <1> DEFINE p == call'[t].program
  <1>1. Types' /\ Handles'
    BY TypesStep, HandlesStep
  <1>2. p \in Programs /\ live'[p] # NULL
    BY <1>1 DEF Types, Calls, Handles
  <1>3. \A u \in Threads : call[u].program # NULL /\ "number" \in ToCome(u)
                             => live[call[u].program].builds = 0
    BY DEF SourceInfo
  <1> HIDE DEF p
  <1>4. call'[t].program = p /\ p # NULL
    BY <1>2, ProgramNullAssumption DEF p
  <1>5. live[p] # NULL => call[t].program = p /\ "number" \in ToCome(t)
    BY <1>2, <1>4, ProgramBefore
  <1>6. CASE live'[p] = live[p]
    BY <1>2, <1>3, <1>4, <1>5, <1>6 DEF p
  <1>7. ASSUME live[p] # NULL, NEW u \in Threads, BuildsProgram(u), call[u].program = p
        PROVE  FALSE
    <2>1. u = t
      BY <1>4, <1>5, <1>7 DEF Handles
    <2>2. call[t].op \in Builds
      BY <1>7, <2>1, StepsInOrder DEF BuildsProgram, Suffixes, Order
    <2> QED BY <1>5, <1>7, <2>2, BuildSteps DEF Suffixes
  <1> QED BY <1>2, <1>6, <1>7, LiveBefore DEF p

LEMMA HashKept ==
  ASSUME Types, Suffixes, Handles, Sourced, SourceInfo, Change, ~Restart,
         On("InjectProgramSource"), NEW p \in Programs,
         live'[p] # NULL, live'[p].op = "source", HashSaved(p)'
  PROVE  info'[p].hash = live'[p].own
  <1>1. AnyOf(SavesHash) /\ AnyOf(HashControls.source)
    BY DEF On, AnyOf, SavesHash, HashControls
  <1>2. ASSUME NEW t \in Threads, Makes(t), "create" \in ToCome(t),
               ToCome(t)' = ToCome(t) \ {"create"}, call[t].op = "source",
               ToCome(t)' # {} => call'[t].program = p
        PROVE  FALSE
    <2>1. Order(t, "create")
      BY <1>2, StepsInOrder DEF Makes, Suffixes
    <2>2. "saveHash" \in ToCome(t)
      BY <1>1, <1>2, <2>1 DEF Order, Texts
    <2> QED BY <1>2, <2>2 DEF HashSaved
  <1>3. live[p] # NULL /\ live[p].op = "source" /\ live'[p].own = live[p].own
    BY <1>2, LiveBefore
  <1>4. ASSUME NEW t \in Threads, call[t].program = p, At(t, "saveHash"),
               info'[p].hash = call[t].hash
        PROVE  info'[p].hash = live[p].own
    <2>1. call[t].op \in Texts
      BY <1>4, StepsInOrder DEF Suffixes, Order
    <2>2. p # NULL /\ call[t].op \notin Builds
      BY <2>1, ProgramNullAssumption DEF Texts, Builds
    <2>3. call[t].op = "source"
      BY <1>3, <1>4, <2>2 DEF Handles
    <2> QED BY <1>1, <1>4, <2>2, <2>3 DEF Sourced
  <1>5. ASSUME ~\E t \in Threads : /\ call[t].program = p /\ SavesOne(t) /\ At(t, "saveHash")
                                   /\ Moves(t, "saveHash", call[t]),
               NEW t \in Threads, call[t].program = p, "saveHash" \in ToCome(t)
        PROVE  FALSE
    <2>1. ~(call'[t].program = p /\ "saveHash" \in ToCome(t)')
      BY DEF HashSaved
    <2>2. Makers(t, "saveHash") /\ At(t, "saveHash")
      BY <1>5, <2>1, StepPending
    <2>3. SavesOne(t)
      BY <2>2 DEF Makers, EditSteps, DumpSteps
    <2>4. call[t].op \in Texts
      BY <2>2, StepsInOrder DEF Suffixes, Order
    <2>5. ~At(t, "saveOptions") /\ ~At(t, "increment")
      <3>1. At(t, "saveOptions") => call[t].op \in Builds \cup {"link"}
        BY StepsInOrder DEF Suffixes, Order
      <3>2. At(t, "increment") => ToCome(t) = {"increment"}
        BY StepsInOrder DEF Suffixes, Order
      <3> QED BY <1>5, <2>4, <3>1, <3>2 DEF Texts, Builds
    <2> QED BY <1>5, <2>2, <2>3, <2>5 DEF SavesOne
  <1>6. HashSaved(p) => info[p].hash = live[p].own
    BY <1>3 DEF SourceInfo, HashSaved
  <1> QED BY <1>3, <1>4, <1>5, <1>6, HashBefore DEF HashSaved

LEMMA BuildsCounted ==
  ASSUME Types, Suffixes, Handles, SourceInfo, Change, ~Restart,
         On("InjectProgramSource"), NEW p \in Programs, Numbered(p)', live'[p].op = "source"
  PROVE  live'[p].builds = info'[p].count + IF \E t \in Threads : Built1(t, p)' THEN 1 ELSE 0
  <1>1. AnyOf(StepControls.increment)
    BY DEF On, AnyOf, StepControls, SavesHash
  <1>2. p # NULL /\ NoCall.program = NULL /\ live'[p] # NULL
    BY NoCallFields, ProgramNullAssumption DEF Numbered
  <1>3. \A t \in Threads : call[t].op \in Builds => "increment" \in ToCome(t)
    BY <1>1, IncrementLast DEF Suffixes
  <1>4. \A t, u \in Threads : call[t].program = p /\ call[u].program = p => t = u
    BY <1>2 DEF Handles
  <1>5. ASSUME NEW t \in Threads, Numbers(t), call[t].program = p, info'[p].count = 0
        PROVE  live'[p].builds = info'[p].count
                                 + IF \E u \in Threads : Built1(u, p)' THEN 1 ELSE 0
    <2>1. live' = live /\ "number" \in ToCome(t)
      BY <1>5 DEF Numbers, Moves
    <2>2. live[p].builds = 0
      BY <1>2, <1>5, <2>1 DEF SourceInfo
    <2>3. ASSUME NEW u \in Threads, Built1(u, p)'
          PROVE  FALSE
      <3>1. call[u].program = p /\ call'[u].op = call[u].op
        BY <1>2, <1>5, <2>1, <2>3, ProgramBefore DEF Built1
      <3>2. u = t /\ call[t].op \in Builds
        BY <1>4, <1>5, <2>3, <3>1 DEF Built1
      <3> QED BY <2>1, <3>2, BuildSteps DEF Suffixes
    <2> QED BY <1>5, <2>1, <2>2, <2>3
  <1>6. ASSUME Numbered(p), live'[p].op = live[p].op,
               ~\E t \in Threads : Numbers(t) /\ call[t].program = p
        PROVE  live'[p].builds = info'[p].count
                                 + IF \E u \in Threads : Built1(u, p)' THEN 1 ELSE 0
    <2>1. live[p] # NULL /\ live[p].op = "source"
      BY <1>6 DEF Numbered
    <2>2. live[p].builds = info[p].count + IF \E t \in Threads : Built1(t, p) THEN 1 ELSE 0
      BY <1>6, <2>1 DEF SourceInfo, Built1
    <2>3. live[p].builds \in Nat /\ info[p].count \in Nat
      BY <2>1 DEF Types, Held
    <2>4. ASSUME NEW t \in Threads, call[t].program = p, At(t, "increment"),
                 Moves(t, "increment", call[t]), live' = live,
                 info'[p].count = info[p].count + 1
          PROVE  (\E u \in Threads : Built1(u, p)) /\ ~\E u \in Threads : Built1(u, p)'
      <3>1. ToCome(t) = {"increment"} /\ call[t].op \in Builds \cup {"link"}
        BY <2>4, StepsInOrder DEF Suffixes, Order
      <3>2. call[t].op \in Builds
        BY <1>2, <2>1, <2>4, <3>1 DEF Handles
      <3>3. Built1(t, p)
        BY <2>4, <3>1, <3>2 DEF Built1
      <3>4. call'[t] = NoCall /\ \A u \in Threads \ {t} : call'[u] = call[u]
        BY <2>4, <3>1 DEF Moves
      <3>5. \A u \in Threads : call'[u].program # p
        BY <1>2, <1>4, <2>4, <3>4
      <3> QED BY <3>3, <3>5 DEF Built1
    <2>5. ASSUME info'[p].count = info[p].count,
                 \A t \in Threads : call[t].program = p /\ "increment" \in ToCome(t) =>
                    /\ call'[t].program = p /\ call'[t].op = call[t].op
                    /\ "increment" \in ToCome(t)' /\ ToCome(t)' \subseteq ToCome(t),
                 live'[p] = live[p]
          PROVE  (\E u \in Threads : Built1(u, p)) <=> (\E u \in Threads : Built1(u, p)')
      <3>1. \A t \in Threads : Built1(t, p) => Built1(t, p)'
        BY <1>3, <2>5 DEF Built1
      <3>2. ASSUME NEW t \in Threads, Built1(t, p)'
            PROVE  Built1(t, p)
        <4>1. call[t].program = p /\ call'[t].op = call[t].op
          BY <2>1, <3>2, ProgramBefore DEF Built1
        <4>2. ASSUME "build" \in ToCome(t)
              PROVE  FALSE
          <5>1. Makers(t, "build")
            BY <3>2, <4>1, <4>2, StepPending DEF Built1
          <5>2. BuildsProgram(t)
            BY <5>1 DEF Makers, EditSteps, DumpSteps
          <5>3. live'[p] = [live[p] EXCEPT !.builds = @ + 1]
            BY <4>1, <5>2 DEF BuildsProgram, Types
          <5>4. live'[p].builds = live[p].builds + 1
            BY <2>1, <5>3 DEF Types, Held
          <5> QED BY <2>3, <2>5, <5>4
        <4> QED BY <3>2, <4>1, <4>2 DEF Built1
      <3> QED BY <3>1, <3>2
    <2>6. ASSUME info'[p].count = info[p].count,
                 \A t \in Threads : call[t].program = p /\ "increment" \in ToCome(t) =>
                    /\ call'[t].program = p /\ call'[t].op = call[t].op
                    /\ "increment" \in ToCome(t)' /\ ToCome(t)' \subseteq ToCome(t),
                 NEW u \in Threads, BuildsProgram(u), call[u].program = p
          PROVE  (\E w \in Threads : Built1(w, p)') /\ ~\E w \in Threads : Built1(w, p)
      <3>1. /\ call[u].op \in Builds /\ "build" \in ToCome(u)
            /\ ToCome(u)' = ToCome(u) \ {"build"}
        BY <2>6, StepsInOrder DEF Suffixes, Order, BuildsProgram, Moves
      <3>2. Built1(u, p)'
        BY <1>3, <2>6, <3>1 DEF Built1
      <3> QED BY <1>4, <2>6, <3>1, <3>2 DEF Built1
    <2>7. CASE live'[p] = live[p]
      BY <1>2, <1>6, <2>1, <2>2, <2>3, <2>4, <2>5, <2>7, CountBefore
    <2>8. CASE /\ live'[p].builds = live[p].builds + 1
               /\ \E t \in Threads : BuildsProgram(t) /\ call[t].program = p
      BY <1>2, <1>6, <2>1, <2>2, <2>3, <2>4, <2>6, <2>8, CountBefore
    <2> QED BY <1>2, <2>1, <2>7, <2>8, LiveBefore
  <1> QED BY <1>5, <1>6, NumberedBefore

LEMMA SourceInfoStep ==
  ASSUME Types, Suffixes, Handles, Sourced, SourceInfo, Change
  PROVE  SourceInfo'
  <1>1. CASE Restart
    <2>1. \A t \in Threads : ToCome(t)' = {}
      BY <1>1 DEF Restart, Idle, ToCome
    <2>2. \A p \in Programs : live'[p] = NULL
      BY <1>1 DEF Restart
    <2> QED BY <2>1, <2>2 DEF SourceInfo
  <1>2. CASE ~Restart
    <2>1. On("InjectProgramSource")' = On("InjectProgramSource")
      BY <1>2, NumberGrows DEF On
    <2>2. SUFFICES ASSUME On("InjectProgramSource") PROVE SourceInfo'
      BY <2>1 DEF SourceInfo
    <2>3. \A t \in Threads : call'[t].program # NULL /\ "number" \in ToCome(t)'
                               => live'[call'[t].program].builds = 0
      BY <1>2, <2>2, NotYetBuilt
    <2>4. ASSUME NEW p \in Programs, live'[p] # NULL, live'[p].op = "source"
          PROVE  /\ HashSaved(p)' => info'[p].hash = live'[p].own
                 /\ Numbered(p)' => live'[p].builds = info'[p].count +
                       IF \E t \in Threads : Built1(t, p)' THEN 1 ELSE 0
      BY <1>2, <2>2, <2>4, HashKept, BuildsCounted
    <2> QED BY <2>3, <2>4 DEF SourceInfo, HashSaved, Built1
  <1> QED BY <1>1, <1>2

-----------------------------------------------------------------------------
(* The options that the second run injects are those that the user edited.  *)

\* A program that a thread builds is not changed by a step of another thread.
LEMMA BuildsAlone ==
  ASSUME Types, Suffixes, Handles, Change, ~Restart, NEW t \in Threads,
         call[t].op \in Builds, call'[t].program = call[t].program,
         "build" \in ToCome(t)', call'[t].op \in Builds
  PROVE  /\ call[t].program \in Programs /\ live[call[t].program] # NULL
         /\ live'[call[t].program] = live[call[t].program]
  <1> DEFINE p == call[t].program
  <1>1. p \in Programs /\ live[p] # NULL
    BY DEF Types, Calls, Handles
  <1>2. live'[p] # NULL
    <2>1. Handles'
      BY HandlesStep
    <2> QED BY <1>1, <2>1, ProgramNullAssumption DEF Handles
  <1>3. ASSUME NEW u \in Threads, BuildsProgram(u), call[u].program = p
        PROVE  FALSE
    <2>1. u = t
      BY <1>1, <1>3, ProgramNullAssumption DEF Handles
    <2> QED BY <1>3, <2>1 DEF BuildsProgram, Moves
  <1> HIDE DEF p
  <1>4. live'[p] = live[p]
    BY <1>1, <1>2, <1>3, LiveBefore
  <1> QED BY <1>1, <1>4 DEF p

\* What the layer knows of a program that is about to be built.
LEMMA InfoIsRight ==
  ASSUME Types, Suffixes, Handles, SourceInfo, OptionsSaved, On("InjectProgramSource"),
         NEW t \in Threads, call[t].op \in Builds, call[t].options # NULL,
         "build" \in ToCome(t), "saveOptions" \notin ToCome(t),
         live[call[t].program].op = "source"
  PROVE  /\ info[call[t].program].hash = live[call[t].program].own
         /\ info[call[t].program].count = live[call[t].program].builds
         /\ info[call[t].program].options = call[t].options
  <1> DEFINE p == call[t].program
  <1>1. p \in Programs /\ live[p] # NULL
    BY DEF Types, Calls, Handles
  <1>2. \A u \in Threads : call[u].program = p => u = t
    BY <1>1, ProgramNullAssumption DEF Handles
  <1>3. {"number", "saveHash"} \cap ToCome(t) = {}
    BY BuildSteps DEF Suffixes
  <1>4. HashSaved(p) /\ Numbered(p) /\ ~\E u \in Threads : Built1(u, p)
    BY <1>1, <1>2, <1>3 DEF HashSaved, Numbered, Built1
  <1>5. AnyOf(SavesHash)
    BY DEF On, AnyOf, SavesHash
  <1>6. info[p].options = call[t].options
    BY <1>5 DEF OptionsSaved
  <1>7. live[p].builds = info[p].count + 0 /\ info[p].hash = live[p].own
    BY <1>1, <1>4 DEF SourceInfo, HashSaved, Built1
  <1>8. info[p].count \in Nat
    BY <1>1 DEF Types
  <1> QED BY <1>6, <1>7, <1>8

LEMMA AnsweredStep ==
  ASSUME Types, Suffixes, Handles, Injected, OptionsSaved, SourceInfo, Answered, Change
  PROVE  Answered'
  <1>1. CASE Restart
    <2>1. \A t \in Threads : call'[t].op = NULL
      BY <1>1, NoCallFields DEF Restart, Idle, Suffixes, Suffix
    <2> QED BY <2>1, NoCallFields DEF Answered
  <1>2. CASE ~Restart
    <2> DEFINE info1(t) == [hash |-> live[call[t].program].own,
                            count |-> live[call[t].program].builds, options |-> call[t].options]
               kind(t) == IF call[t].op = "build" THEN "options" ELSE "compile_options"
               there(t) == InInject(BuildName("inject", kind(t), NULL, info1(t)))
               right(new, options) == /\ new # NULL /\ new.edited
                                      /\ \/ new.text = options
                                         \/ new.text = NULL /\ new.more
    <2>1. /\ On("InjectProgramSource")' = On("InjectProgramSource")
          /\ \A name : InInject(name)' = InInject(name)
      BY <1>2, NumberGrows DEF On, InInject
    <2>2. SUFFICES ASSUME NEW t \in Threads, call'[t].op \in Builds, call'[t].options # NULL,
                          On("InjectProgramSource"), "injectOptions" \notin ToCome(t)',
                          "build" \in ToCome(t)', live'[call'[t].program].op = "source",
                          there(t)'
                   PROVE  right(call'[t].new, call'[t].options)
      BY <2>1 DEF Answered
    <2>3. call'[t] \in Calls /\ NoCall.op \notin Builds
      <3>1. Types'
        BY TypesStep
      <3> QED BY <3>1, NoCallFields DEF Types
    <2>4. ASSUME call[t].op = call'[t].op, call'[t].program = call[t].program,
                 call'[t].options = call[t].options
          PROVE  /\ live[call[t].program].op = "source" /\ there(t)
                 /\ "build" \in ToCome(t) /\ "injectOptions" \notin ToCome(t)
                    => right(call[t].new, call[t].options)
      <3>1. live'[call[t].program] = live[call[t].program]
        BY <1>2, <2>2, <2>4, BuildsAlone
      <3>2. live[call[t].program].op = "source" /\ there(t)
        BY <2>1, <2>2, <2>4, <3>1
      <3> QED BY <2>2, <2>4, <3>2 DEF Answered
    <2>5. CASE call'[t] = call[t] /\ ToCome(t)' = ToCome(t)
      BY <2>2, <2>4, <2>5
    <2>6. ASSUME call[t].op = call'[t].op, call'[t].program = call[t].program,
                 call'[t].options = call[t].options,
                 NEW step, At(t, step), Order(t, step), ToCome(t)' = ToCome(t) \ {step}
          PROVE  /\ step = "injectOptions" /\ OptionsTaken(t)
                       => right(call'[t].new, call'[t].options)
                 /\ step = "appendOptions" /\ Appends(t, step)
                       => right(call'[t].new, call'[t].options)
                 /\ step \notin EditSteps /\ call'[t].new = call[t].new
                       => right(call'[t].new, call'[t].options)
      <3>1. live[call[t].program].op = "source" /\ there(t) /\ "build" \in ToCome(t)
        BY <2>2, <2>4, <2>6
      <3>2. step # "injectOptions" => right(call[t].new, call[t].options)
        BY <2>2, <2>4, <2>6, <3>1
      <3>3. ASSUME step = "injectOptions", OptionsTaken(t)
            PROVE  right(call'[t].new, call'[t].options)
        <4> DEFINE i == info[call[t].program]
        <4>1. i.hash = info1(t).hash /\ i.count = info1(t).count /\ i.options = info1(t).options
          BY <2>2, <2>6, <3>1, <3>3, InfoIsRight DEF Order
        <4>2. OptionKind(call[t]) = kind(t)
          BY <2>2, <2>6 DEF OptionKind, Builds
        <4> HIDE DEF i, info1, kind
        <4>3. BuildName("inject", OptionKind(call[t]), NULL, i)
                 = BuildName("inject", kind(t), NULL, info1(t))
          BY <4>1, <4>2 DEF BuildName
        <4>4. PICK f \in inject :
                 /\ Moves(t, "injectOptions", [call[t] EXCEPT !.new = f.content,
                                                              !.injected = TRUE])
                 /\ f.name.kind = OptionKind(call[t])
                 /\ f.content \in BuildOptions /\ f.content # NULL
                 /\ f.name.options = i.options
          BY <3>1, <3>3, <4>3 DEF OptionsTaken, i
        <4>5. call'[t].new = f.content
          <5>1. [call[t] EXCEPT !.new = f.content, !.injected = TRUE].new = f.content
            BY DEF Types, Calls
          <5> QED BY <2>2, <2>3, <4>4, <5>1 DEF Moves
        <4>6. f.content.edited /\ TextRight(f.name.kind, f.name, f.content)
          BY <4>4 DEF Injected, OptionKind
        <4>7. f.content.text \in {f.name.options, NULL} /\ (f.content.text = NULL => f.content.more)
          BY <4>4, <4>6 DEF TextRight, OptionKind, OptionKinds
        <4>8. f.name.options = call'[t].options
          BY <2>6, <4>1, <4>4 DEF info1
        <4> QED BY <4>4, <4>5, <4>6, <4>7, <4>8
      <3>4. ASSUME step = "appendOptions", Appends(t, step)
            PROVE  right(call'[t].new, call'[t].options)
        <4>1. right(call[t].new, call[t].options)
          BY <3>2, <3>4
        <4>2. call[t] \in Calls
          BY DEF Types
        <4>3. Given(call[t]) = call[t].new /\ call[t].new \in BuildOptions
          BY <4>1, <4>2 DEF Given, Calls
        <4> DEFINE new == [call[t].new EXCEPT !.more = TRUE]
        <4>4. call'[t].new = new
          <5>1. [call[t] EXCEPT !.new = new, !.injected = TRUE].new = new
            BY <4>2 DEF Calls
          <5> HIDE DEF new
          <5> QED BY <2>2, <2>3, <3>4, <4>3, <5>1 DEF Moves, Appends, new
        <4>5. /\ new \in BuildOptions /\ new.text = call[t].new.text
              /\ new.edited = call[t].new.edited /\ new.more
          BY <4>3 DEF BuildOptions
        <4> HIDE DEF new
        <4> QED BY <2>6, <4>1, <4>4, <4>5, ProgramNullAssumption
      <3> QED BY <2>6, <3>2, <3>3, <3>4 DEF EditSteps
    <2> HIDE DEF right
    <2> QED BY <1>2, <2>2, <2>3, <2>5, <2>6, BuildingBefore
  <1> QED BY <1>1, <1>2

-----------------------------------------------------------------------------
(* The invariant holds at the beginning, and every step keeps it.           *)

IInv ==
    /\ Types /\ Suffixes /\ Handles
    /\ NumbersTaken /\ Counts /\ Numbering /\ InfoNumbers
    /\ FileNumbers /\ Latest /\ NotCounted /\ NothingIsOverwritten
    /\ Appended /\ OptionsSaved
    /\ FirstRun /\ Injected /\ Sourced /\ SourceInfo /\ Answered

LEMMA InitInvariant ==
  ASSUME Init
  PROVE  IInv
  <1> USE DEF Init
  <1>1. /\ \A t \in Threads : call[t] = NoCall /\ ToCome(t) = {} /\ call[t].program = NULL
                              /\ call[t].op = NULL /\ call[t].todo = {}
        /\ NULL \notin Builds /\ NULL \notin DOMAIN Steps
    <2>1. \A t \in Threads : call[t] = NoCall
      OBVIOUS
    <2> QED BY <2>1, NoCallFields, ProgramNullAssumption DEF ToCome, NoCall
  <1>2. Types
    <2>1. NoCall \in Calls
      BY DEF NoCall, Calls, Hashes
    <2>2. Blank \in [number : Nat, hash : Hashes, count : Nat, options : Options \cup {NULL}]
      BY DEF Blank, Hashes
    <2> QED BY <2>1, <2>2, ProgramBoundsAssumption DEF Types
  <1>3. Suffixes /\ Handles
    <2>1. NULL # "source" /\ NULL \notin Texts
      BY <1>1, StepLists DEF Texts
    <2> QED BY <1>1, <2>1 DEF Suffixes, Suffix, Handles
  <1>4. NumbersTaken
    <2>1. {t \in Threads : "number" \in ToCome(t)} = {}
      BY <1>1
    <2> QED BY <2>1, FS_EmptySet DEF NumbersTaken
  <1>5. Counts /\ InfoNumbers
    <2>1. /\ \A p \in Programs \cup {NULL} : info[p] = Blank
          /\ Blank.count = 0 /\ Blank.number = 0
      BY DEF Blank
    <2> QED BY <1>1, <2>1 DEF Counts, InfoNumbers
  <1>6. Numbering
    BY DEF Numbering, Numbered
  <1>7. FileNumbers /\ Latest /\ NotCounted /\ NothingIsOverwritten
    BY DEF FileNumbers, Latest, NotCounted, NothingIsOverwritten
  <1>8. Appended /\ OptionsSaved /\ Answered
    BY <1>1 DEF Appended, OptionsSaved, Answered
  <1>9. FirstRun /\ Injected
    BY DEF FirstRun, Injected
  <1>10. Sourced
    <2>1. "source" \in DOMAIN Steps
      BY StepLists
    <2> QED BY <1>1, <2>1 DEF Sourced
  <1>11. SourceInfo
    BY <1>1 DEF SourceInfo
  <1> QED BY <1>2, <1>3, <1>4, <1>5, <1>6, <1>7, <1>8, <1>9, <1>10, <1>11 DEF IInv

LEMMA StepInvariant ==
  ASSUME IInv, [Next]_vars
  PROVE  IInv'
  <1>1. CASE Next
    <2> USE DEF IInv
    <2>1. Change /\ Suffixes'
      BY <1>1, Changes
    <2>2. Types' /\ Handles' /\ NumbersTaken' /\ Counts'
      BY <2>1, TypesStep, HandlesStep, NumbersTakenStep, CountsStep
    <2>3. Numbering' /\ InfoNumbers' /\ FileNumbers' /\ Latest'
      BY <2>1, NumberingStep, InfoNumbersStep, FileNumbersStep, LatestStep
    <2>4. NotCounted' /\ NothingIsOverwritten'
      BY <2>1, NotCountedStep, NothingIsOverwrittenStep
    <2>5. Appended' /\ OptionsSaved' /\ FirstRun' /\ Injected'
      BY <2>1, AppendedStep, OptionsSavedStep, FirstRunStep, InjectedStep
    <2>6. Sourced' /\ SourceInfo' /\ Answered'
      BY <2>1, SourcedStep, SourceInfoStep, AnsweredStep
    <2> QED BY <2>1, <2>2, <2>3, <2>4, <2>5, <2>6
  <1>2. CASE UNCHANGED vars
    <2> USE <1>2 DEF vars
    <2>1. /\ \A t \in Threads : ToCome(t)' = ToCome(t)
          /\ \A controls : AnyOf(controls)' = AnyOf(controls)
          /\ \A control : On(control)' = On(control)
          /\ \A op : Asked(op)' = Asked(op)
          /\ \A name : InInject(name)' = InInject(name)
      BY DEF ToCome, AnyOf, On, Asked, InInject
    <2>2. /\ \A p \in Programs : Numbered(p)' = Numbered(p)
          /\ \A f : Right(f)' = Right(f)
      BY <2>1 DEF Numbered, Right
    <2>3. (Types /\ Suffixes /\ Handles)'
      BY <2>1 DEF IInv, Types, Suffixes, Suffix, Handles
    <2>4. NumbersTaken' /\ Counts' /\ Numbering' /\ InfoNumbers'
      BY <2>1, <2>2 DEF IInv, NumbersTaken, Counts, Numbering, InfoNumbers
    <2>5. FileNumbers' /\ Latest' /\ NotCounted'
      BY <2>1, <2>2 DEF IInv, FileNumbers, Latest, NotCounted
    <2>6. NothingIsOverwritten'
      BY <2>1 DEF IInv, NothingIsOverwritten
    <2>7. Appended' /\ OptionsSaved' /\ FirstRun' /\ Injected'
      BY <2>1 DEF IInv, Appended, OptionsSaved, FirstRun, Injected
    <2>8. Sourced'
      BY <2>1 DEF IInv, Sourced
    <2>9. SourceInfo'
      BY <2>1, <2>2 DEF IInv, SourceInfo
    <2>10. Answered'
      BY <2>1 DEF IInv, Answered
    <2> QED BY <2>3, <2>4, <2>5, <2>6, <2>7, <2>8, <2>9, <2>10 DEF IInv
  <1> QED BY <1>1, <1>2

LEMMA InvariantHolds == Spec => []IInv
  <1>1. Init => IInv
    BY InitInvariant
  <1>2. IInv /\ [Next]_vars => IInv'
    BY StepInvariant
  <1> QED BY <1>1, <1>2, PTL DEF Spec

-----------------------------------------------------------------------------
(* Theorems. *)

\* What the layer keeps of programs and of calls always has its form: the numbers
\* of programs and the counts of builds stay below the bounds, a program is there
\* while it is built, and no two files of the Inject directory have one name.
THEOREM TypesCorrect == Spec => []TypeOK
  <1>0. ASSUME IInv
        PROVE  \A p \in Programs \cup {NULL} : info[p].number <= number
    BY <1>0 DEF IInv, InfoNumbers
  <1>1. ASSUME IInv
        PROVE  TypeOK
    <2>0. \A p \in Programs \cup {NULL} : info[p].number <= number
      BY <1>0, <1>1
    <2>1. /\ number \in Nat /\ creations \in 0 .. MaxCreations /\ builds \in 0 .. MaxBuilds
          /\ MaxCreations \in Nat /\ MaxBuilds \in Nat
      BY <1>1, ProgramBoundsAssumption DEF IInv, Types
    <2>2. number \in 0 .. MaxCreations
      <3>1. number + Cardinality(Pending) <= creations
        BY <1>1 DEF IInv, NumbersTaken, Pending
      <3> QED BY <2>1, <3>1, PendingFinite
    <2>3. info \in [Programs \cup {NULL} -> [number : 0 .. MaxCreations, hash : Hashes,
                                             count : 0 .. MaxBuilds + MaxCreations,
                                             options : Options \cup {NULL}]]
      <3>1. ASSUME NEW p \in Programs \cup {NULL}
            PROVE  info[p] \in [number : 0 .. MaxCreations, hash : Hashes,
                                count : 0 .. MaxBuilds + MaxCreations,
                                options : Options \cup {NULL}]
        <4>1. info[p] \in [number : Nat, hash : Hashes, count : Nat, options : Options \cup {NULL}]
          BY <1>1 DEF IInv, Types
        <4>2. info[p].number \in Nat /\ info[p].number <= number
          BY <2>0, <4>1
        <4>3. info[p].number \in 0 .. MaxCreations
          BY <2>1, <2>2, <4>2
        <4>4. info[p].count \in Nat /\ (info[p].count <= builds + creations \/ info[p].count = 0)
          BY <1>1, <4>1 DEF IInv, Counts
        <4>5. info[p].count \in 0 .. MaxBuilds + MaxCreations
          BY <2>1, <4>4
        <4> QED BY <4>1, <4>3, <4>5
      <3> QED BY <1>1, <3>1 DEF IInv, Types
    <2>4. \A t \in Threads : call[t].op \in {"build", "compile"} => live[call[t].program] # NULL
      BY <1>1 DEF IInv, Handles, Builds
    <2>5. ASSUME NEW f \in inject
          PROVE  Cardinality({g \in inject : g.name = f.name}) = 1
      <3>1. {g \in inject : g.name = f.name} = {f}
        BY <1>1 DEF IInv, Injected
      <3> QED BY <3>1, FS_Singleton
    <2> QED BY <1>1, <2>2, <2>3, <2>4, <2>5 DEF IInv, Types, TypeOK
  <1> QED BY <1>1, InvariantHolds, PTL

\* A file with a program number in its name is not written over with something else
\* in one run: the number, the count of builds and the hashes that the layer keeps
\* apart from the driver's handles name each source, binary and set of options once.
THEOREM FilesKept == Spec => []NothingIsOverwritten
  <1>1. IInv => NothingIsOverwritten
    BY DEF IInv
  <1> QED BY <1>1, InvariantHolds, PTL

\* What the first run dumped and the user edited is what the second run uses, for a
\* source, for the binary in its place and for the options of a build.
THEOREM DumpsInjected == Spec => []DumpedFilesAreFound
  <1>1. ASSUME IInv, NEW t \in Threads, At(t, "number"), call[t].op = "source", ~call[t].refused
        PROVE  LET c == call[t]
                   own == live[c.program].own
               IN  /\ On("InjectProgramSource") /\ InInject(Name("inject", "source", NULL, own))
                         => c.content.edited /\ Hash(c.content) = own
                   /\ On("InjectProgramBinaries") /\ InInject(Name("inject", "binary", NULL, own))
                         => c.made.edited
    <2>1. {"inject", "binaries", "create"} \cap ToCome(t) = {}
      BY <1>1, StepsInOrder DEF IInv, Suffixes, Order
    <2>2. call[t].program # NULL
      BY <1>1, <2>1 DEF IInv, Handles, Texts
    <2>3. live[call[t].program].own = Hash(call[t].content)
      BY <1>1, <2>2 DEF IInv, Sourced
    <2>4. On("InjectProgramSource") \/ On("InjectProgramBinaries")
             => call[t].hash = Hash(call[t].content)
      BY <1>1 DEF IInv, Sourced, On, AnyOf, HashControls
    <2> QED BY <1>1, <2>1, <2>3, <2>4 DEF IInv, Sourced
  <1>2. ASSUME IInv, NEW t \in Threads, At(t, "build")
        PROVE  /\ call[t].op \in Builds /\ "injectOptions" \notin ToCome(t)
               /\ "build" \in ToCome(t)
    BY <1>2, StepsInOrder DEF IInv, Suffixes, Order, At, ToCome
  <1>3. IInv => DumpedFilesAreFound
    <2> SUFFICES ASSUME IInv PROVE DumpedFilesAreFound
      OBVIOUS
    <2>1. Answered
      BY DEF IInv
    <2> QED BY <1>1, <1>2, <2>1 DEF Answered, DumpedFilesAreFound
  <1> QED BY <1>3, InvariantHolds, PTL
=============================================================================

---------------------------- MODULE ProgramFiles ----------------------------
(***************************************************************************)
(* The files that the layer writes about the programs of an application,   *)
(* and the files that it reads to replace their sources and build options. *)
(* A user of the layer runs the application once to dump its programs,     *)
(* copies files to the Inject directory, edits them, and runs it again     *)
(* (docs/injecting_programs.md): `run' is 1, then 2.                       *)
(*                                                                         *)
(* A file's name has the number of the program, given in the order of the  *)
(* creations, the hash of its source, the number of builds so far and the  *)
(* hash of the options.  Each step below is one section of m_Mutex.  Which *)
(* steps a call makes depends on the controls: the lists are long, and     *)
(* each has to fit the others.  A hash stands for its text, and NULL for   *)
(* zero: no two texts have one hash.  A program is built by one thread at  *)
(* a time and released after its builds; the layer reads and writes files  *)
(* without errors, and there is one device.                                *)
(***************************************************************************)
EXTENDS Naturals, Sequences, FiniteSets, FiniteSetsExt

CONSTANTS
    Threads, Programs, Sources, Options, NULL,
    Configs,        \* the controls that are on in both runs, the calls made in them
    MaxCreations,   \* bound: programs created in one run
    MaxBuilds,      \* bound: builds in one run
    MaxCopies       \* bound: files in the Inject directory

ASSUME ProgramThreadsAssumption == IsFiniteSet(Threads)
ASSUME ProgramBoundsAssumption ==
    MaxCreations \in Nat /\ MaxBuilds \in Nat /\ MaxCopies \in Nat

VARIABLES
    run, config,       \* the run, the settings of both
    inject,            \* the files in the Inject directory
    call,              \* the call each thread is in
    number,            \* m_ProgramNumber
    info,              \* m_ProgramInfoMap; NULL is a key as well
    files,             \* the files written
    live,              \* driver: what the programs hold; NULL: no such handle
    creations, builds  \* bounds, counted in each run

vars == <<run, config, inject, call, number, info, files, live, creations, builds>>

On(control)     == control \in config.runs[run]
AnyOf(controls) == controls \cap config.runs[run] # {}

Blank  == [number |-> 0, hash |-> NULL, count |-> 0, options |-> NULL]
Text(form, s) == [form |-> form, text |-> s, edited |-> FALSE, prepended |-> FALSE]
Hash(content) == <<content.form, content.text>>
NoCall == [todo |-> {}, op |-> NULL, id |-> 0, program |-> NULL, hash |-> NULL, content |-> NULL,
           injected |-> FALSE, made |-> NULL, refused |-> FALSE, options |-> NULL,
           new |-> NULL]

-----------------------------------------------------------------------------
(* Which controls ask for a step, and for the hash of a program.           *)

Tracking == {"BuildLogging", "KernelNameHashTracking", "DumpProgramBuildLogs",
             "DumpKernelISABinaries", "AubCaptureUniqueKernels"}

HashControls ==
    [source |-> Tracking \cup {"SimpleDumpProgramSource", "DumpProgramSourceScript",
                               "DumpProgramSource", "DumpProgramBinaries", "DumpProgramSPIRV",
                               "InjectProgramSource", "InjectProgramBinaries",
                               "PrependProgramSource", "AutoCreateSPIRV", "CaptureReplay"},
     il     |-> Tracking \cup {"DumpProgramSPIRV", "InjectProgramBinaries", "CaptureReplay"},
     binary |-> Tracking \cup {"DumpInputProgramBinaries", "DumpProgramBinaries",
                               "InjectProgramBinaries", "CaptureReplay"}]

\* Mutant: the hash of a program is not kept when options are injected.
SavesHashForDumps == Tracking \cup {"DumpProgramSource", "DumpInputProgramBinaries",
                                    "DumpProgramBinaries", "DumpProgramSPIRV",
                                    "AutoCreateSPIRV"}

SavesHash == Tracking \cup {"DumpProgramSource", "DumpInputProgramBinaries",
                            "DumpProgramBinaries", "DumpProgramSPIRV", "InjectProgramSource",
                            "AutoCreateSPIRV"}

StepControls ==
    [inject |-> {"InjectProgramSource"}, prepend |-> {"PrependProgramSource"},
     binaries |-> {"InjectProgramBinaries"}, spirv |-> {"InjectProgramSPIRV"},
     saveHash |-> SavesHash, saveOptions |-> SavesHash,
     injectOptions |-> {"InjectProgramSource"}, appendOptions |-> {"AppendBuildOptions"},
     appendLink |-> {"AppendLinkOptions"},
     dumpOptions |-> {"DumpProgramSource", "DumpInputProgramBinaries", "DumpProgramBinaries",
                      "DumpProgramSPIRV"},
     log |-> {"BuildLogging"}, dumpBinary |-> {"DumpProgramBinaries"},
     dumpISA |-> {"DumpKernelISABinaries"}, autoSPIRV |-> {"AutoCreateSPIRV"},
     increment |-> (SavesHash \ {"DumpInputProgramBinaries"}) \cup {"DumpProgramSourceScript"}]

DumpControls == [source |-> {"DumpProgramSource", "AutoCreateSPIRV"},
                 il     |-> {"DumpProgramSPIRV"}, binary |-> {"DumpInputProgramBinaries"}]

Steps ==
    [source  |-> <<"inject", "prepend", "binaries", "spirv", "create", "number", "saveHash">>,
     il      |-> <<"spirv", "create", "number", "saveHash">>,
     binary  |-> <<"create", "number", "saveHash">>,
     builtin |-> <<"create">>,
     link    |-> <<"appendLink", "create", "log", "number", "saveOptions", "dumpOptions",
                   "dumpBinary", "dumpISA", "increment">>,
     build   |-> <<"saveOptions", "injectOptions", "appendOptions", "dumpOptions", "build", "log",
                   "dumpBinary", "dumpISA", "autoSPIRV", "increment">>,
     compile |-> <<"saveOptions", "injectOptions", "appendOptions", "dumpOptions", "build", "log",
                   "dumpBinary", "increment">>]

\* The positions of the steps that a call still has to make, and the step it is at.
Idle(t)     == call[t].todo = {}
At(t, step) ==
    \E i \in call[t].todo : Steps[call[t].op][i] = step /\ \A j \in call[t].todo : i <= j
Goes(t, c)  ==
    LET rest == {j \in c.todo : \E i \in c.todo : i < j}
    IN  call' = [call EXCEPT ![t] = IF rest = {} THEN NoCall ELSE [c EXCEPT !.todo = rest]]

Asked(op) == {i \in DOMAIN Steps[op] :
                 Steps[op][i] \notin DOMAIN StepControls \/ AnyOf(StepControls[Steps[op][i]])}

-----------------------------------------------------------------------------
(* What the layer and the driver keep of sources, binaries and options.    *)

Hashed   == {"source", "il", "binary"} \X Sources
Hashes   == Hashed \cup {NULL}
Plain    == [form : DOMAIN Steps, text : Sources \cup {NULL}, edited : BOOLEAN,
             prepended : BOOLEAN]
Outputs  == [form : {"output"}, text : Sources \cup {NULL}, edited : BOOLEAN,
             prepended : BOOLEAN, id : Nat, build : Nat]
Contents == Plain \cup Outputs
BuildOptions == [text : Options \cup {NULL}, edited : BOOLEAN, more : BOOLEAN]
Held     == [op : DOMAIN Steps, made : Contents, id : Nat,
             own : (DOMAIN Steps) \X (Sources \cup {NULL}), builds : Nat]

\* NULL is none of the things that it stands for the absence of.
ASSUME ProgramNullAssumption ==
    /\ NULL \notin Nat \cup DOMAIN Steps \cup Programs \cup Sources \cup Options
    /\ NULL \notin Hashed \cup Contents
    /\ NULL \notin BuildOptions \cup Held

Calls == [todo : SUBSET Nat, op : DOMAIN Steps \cup {NULL}, id : Nat,
          program : Programs \cup {NULL}, hash : Hashes, content : Contents \cup {NULL},
          injected : BOOLEAN, made : Contents \cup {NULL}, refused : BOOLEAN,
          options : Options \cup {NULL}, new : BuildOptions \cup {NULL}]

TypeOK ==
    /\ run \in 1 .. 2 /\ config \in Configs
    /\ number \in 0 .. MaxCreations
    /\ call \in [Threads -> Calls]
    /\ info \in [Programs \cup {NULL} -> [number : 0 .. MaxCreations, hash : Hashes,
                                          count : 0 .. MaxBuilds + MaxCreations,
                                          options : Options \cup {NULL}]]
    /\ live \in [Programs -> Held \cup {NULL}]
    /\ \A t \in Threads : call[t].op \in {"build", "compile"} => live[call[t].program] # NULL
    /\ \A f \in inject : Cardinality({g \in inject : g.name = f.name}) = 1

Init ==
    /\ run = 1 /\ config \in Configs /\ inject = {}
    /\ call = [t \in Threads |-> NoCall]
    /\ number = 0 /\ info = [p \in Programs \cup {NULL} |-> Blank]
    /\ files = {} /\ live = [p \in Programs |-> NULL] /\ creations = 0 /\ builds = 0

Begin(t, op, c) ==
    /\ Idle(t) /\ op \in config.calls
    /\ call' = [call EXCEPT ![t] = [c EXCEPT !.op = op, !.todo = Asked(op)]]
    /\ UNCHANGED <<run, config, inject, number, info, files, live>>

-----------------------------------------------------------------------------
(* Names.                                                                  *)

Name(dir, kind, n, h) ==
    [dir |-> dir, kind |-> kind, number |-> n, hash |-> h, count |-> NULL, options |-> NULL]
BuildName(dir, kind, n, i) ==
    [dir |-> dir, kind |-> kind, number |-> n, hash |-> i.hash, count |-> i.count,
     options |-> i.options]

Number(n) == IF On("OmitProgramNumber") THEN NULL ELSE n
Dir(modified) == IF modified THEN "modified" ELSE "dump"

\* The first of the names that is in the Inject directory: its file, or nothing.
Lookup(names) ==
    LET there == {i \in DOMAIN names : \E f \in inject : f.name = names[i]}
    IN  {f \in inject : there # {} /\ f.name = names[Min(there)]}

TwoNames(kind, h) == <<Name("inject", kind, number, h), Name("inject", kind, NULL, h)>>

Written(c, name, content) ==
    [run |-> run, op |-> c.op, program |-> c.program, name |-> name, content |-> content]

-----------------------------------------------------------------------------
(* Creating programs.                                                      *)

MayCreate == creations < MaxCreations /\ creations' = creations + 1 /\ UNCHANGED builds

clCreateProgram(t, form, s) ==
    /\ MayCreate
    /\ Begin(t, form, [NoCall EXCEPT
          !.id = creations', !.content = Text(form, s),
          !.hash = IF AnyOf(HashControls[form]) THEN Hash(Text(form, s)) ELSE NULL])

clCreateProgramWithSource(t, s) == clCreateProgram(t, "source", s)
clCreateProgramWithBinary(t, s) == clCreateProgram(t, "binary", s)
clCreateProgramWithIL(t, s)     == clCreateProgram(t, "il", s)

clCreateProgramWithBuiltInKernels(t) ==
    /\ MayCreate
    /\ Begin(t, "builtin", [NoCall EXCEPT !.id = creations', !.content = Text("builtin", NULL)])

clLinkProgram(t, o) ==
    /\ MayCreate
    /\ Begin(t, "link", [NoCall EXCEPT !.id = creations', !.content = Text("link", NULL),
                                       !.options = o])

injectProgramSource(t) ==
    /\ At(t, "inject")
    /\ LET c == call[t]
           found == Lookup(TwoNames("source", c.hash))
       IN  IF found = {} THEN Goes(t, c)
           ELSE \E f \in found : Goes(t, [c EXCEPT !.content = f.content, !.injected = TRUE])
    /\ UNCHANGED <<run, config, inject, number, info, files, live, creations, builds>>

prependProgramSource(t) ==
    /\ At(t, "prepend")
    /\ LET c == call[t]
           found == Lookup(TwoNames("prepend", c.hash)
                           \o <<Name("inject", "prepend", NULL, NULL)>>)
       IN  Goes(t, IF found = {} THEN c
                   ELSE [c EXCEPT !.content.prepended = TRUE, !.injected = TRUE])
    /\ UNCHANGED <<run, config, inject, number, info, files, live, creations, builds>>

\* A program from an injected binary or SPIR-V instead of its source, if the driver
\* takes it.
injectProgram(t, step, kind) ==
    /\ At(t, step) /\ call[t].op = "source"
    /\ LET c == call[t]
           found == IF c.made # NULL THEN {} ELSE Lookup(TwoNames(kind, c.hash))
       IN  IF found = {} THEN Goes(t, c)
           ELSE \E f \in found : \/ Goes(t, [c EXCEPT !.made = f.content])
                                 \/ Goes(t, [c EXCEPT !.refused = TRUE])
    /\ UNCHANGED <<run, config, inject, number, info, files, live, creations, builds>>

createProgramWithInjectionBinaries(t) == injectProgram(t, "binaries", "binary")
createProgramWithInjectionSPIRV(t)    == injectProgram(t, "spirv", "il")

injectProgramSPIRV(t) ==
    /\ At(t, "spirv") /\ call[t].op = "il"
    /\ LET c == call[t]
           found == Lookup(TwoNames("il", c.hash))
       IN  IF found = {} THEN Goes(t, c)
           ELSE \E f \in found : Goes(t, [c EXCEPT !.content = f.content, !.injected = TRUE])
    /\ UNCHANGED <<run, config, inject, number, info, files, live, creations, builds>>

\* The driver makes the program, or refuses.
Create(t) ==
    /\ At(t, "create")
    /\ LET c == call[t]
           made == IF c.made # NULL THEN c.made ELSE c.content
       IN  \/ /\ ~(c.op = "binary" /\ On("RejectProgramBinaries"))
              /\ \E p \in Programs :
                    /\ live[p] = NULL
                    /\ live' = [live EXCEPT ![p] = [op |-> c.op, made |-> made, id |-> c.id,
                                                    own |-> Hash(Text(c.op, c.content.text)),
                                                    builds |-> 0]]
                    /\ Goes(t, [c EXCEPT !.program = p, !.made = made])
           \/ c.made = NULL /\ Goes(t, [c EXCEPT !.refused = TRUE]) /\ UNCHANGED live
    /\ UNCHANGED <<run, config, inject, number, info, files, creations, builds>>

\* Mutant: the dump takes a number and saveProgramNumber takes another.
TakeTwoNumbers(t, dumped) ==
    /\ At(t, "number") /\ number' = number + 2
    /\ info' = [info EXCEPT ![call[t].program].number = number + 1, ![call[t].program].count = 0]
    /\ files' = files \cup dumped /\ Goes(t, call[t])
    /\ UNCHANGED <<run, config, inject, live, creations, builds>>

\* A number for the program, also for one the driver refused.
TakeNumber(t, dumped) ==
    /\ At(t, "number") /\ number' = number + 1
    /\ info' = [info EXCEPT ![call[t].program].number = number, ![call[t].program].count = 0]
    /\ files' = files \cup dumped /\ Goes(t, call[t])
    /\ UNCHANGED <<run, config, inject, live, creations, builds>>

Dumps(c) == c.op \in DOMAIN DumpControls /\ AnyOf(DumpControls[c.op])

DumpProgram(t, form) ==
    LET c == call[t]
        name == Name(Dir(c.injected), form, Number(number), c.hash)
    IN  c.op = form /\ Dumps(c) /\ TakeNumber(t, {Written(c, name, c.content)})

dumpProgramSource(t)        == DumpProgram(t, "source")
dumpProgramSPIRV(t)         == DumpProgram(t, "il")
dumpInputProgramBinaries(t) == DumpProgram(t, "binary")
saveProgramNumber(t)        == ~Dumps(call[t]) /\ TakeNumber(t, {})

saveProgramHash(t) ==
    /\ At(t, "saveHash")
    /\ info' = IF call[t].program = NULL THEN info
               ELSE [info EXCEPT ![call[t].program].hash = call[t].hash]
    /\ Goes(t, call[t])
    /\ UNCHANGED <<run, config, inject, number, files, live, creations, builds>>

-----------------------------------------------------------------------------
(* Building programs.                                                      *)

Busy(p) == \E t \in Threads : ~Idle(t) /\ call[t].program = p

\* Linked programs and built-in kernels are not built.
StartBuild(t, op, p, o) ==
    /\ live[p] # NULL /\ ~Busy(p)
    /\ live[p].op \in DOMAIN HashControls
    /\ builds < MaxBuilds /\ builds' = builds + 1 /\ UNCHANGED creations
    /\ Begin(t, op, [NoCall EXCEPT !.program = p, !.options = o])

clBuildProgram(t, p, o)   == StartBuild(t, "build", p, o)
clCompileProgram(t, p, o) == StartBuild(t, "compile", p, o)

\* Without options the hash of the last build stays.
saveProgramOptionsHash(t) ==
    /\ At(t, "saveOptions")
    /\ LET c == call[t] IN
       /\ info' = IF c.program = NULL \/ c.options = NULL THEN info
                  ELSE [info EXCEPT ![c.program].options = c.options]
       /\ Goes(t, c)
    /\ UNCHANGED <<run, config, inject, number, files, live, creations, builds>>

\* The last name lacks its directory: .../Inject_options.txt, beside Inject.
injectProgramOptions(t) ==
    /\ At(t, "injectOptions")
    /\ LET c == call[t]
           i == info[c.program]
           kind == IF c.op = "compile" THEN "compile_options" ELSE "options"
           found == Lookup(<<BuildName("inject", kind, i.number, i),
                             BuildName("inject", kind, NULL, i),
                             Name("inject", kind, NULL, i.hash),
                             Name("beside", kind, NULL, NULL)>>)
       IN  IF found = {} THEN Goes(t, c)
           ELSE \E f \in found : Goes(t, [c EXCEPT !.new = f.content, !.injected = TRUE])
    /\ UNCHANGED <<run, config, inject, number, info, files, live, creations, builds>>

Given(c) == IF c.new # NULL THEN c.new ELSE [text |-> c.options, edited |-> FALSE, more |-> FALSE]

\* RelaxAllocationLimits appends in the same way.
appendBuildOptions(t) ==
    /\ At(t, "appendOptions") \/ At(t, "appendLink")
    /\ Goes(t, [call[t] EXCEPT !.new = [Given(call[t]) EXCEPT !.more = TRUE], !.injected = TRUE])
    /\ UNCHANGED <<run, config, inject, number, info, files, live, creations, builds>>

dumpProgramOptions(t) ==
    /\ At(t, "dumpOptions")
    /\ LET c == call[t]
           i == info[c.program]
           kind == CASE c.op = "compile" -> "compile_options" [] c.op = "link" -> "link_options"
                     [] OTHER -> "options"
           name == BuildName(Dir(c.injected), kind, Number(i.number), i)
       IN  /\ files' = IF c.new = NULL /\ c.options = NULL THEN files
                       ELSE files \cup {Written(c, name, Given(c))}
           /\ Goes(t, c)
    /\ UNCHANGED <<run, config, inject, number, info, live, creations, builds>>

\* With the new options, and with the application's if the driver refuses them.
Build(t) ==
    /\ At(t, "build")
    /\ live' = [live EXCEPT ![call[t].program].builds = @ + 1]
    /\ Goes(t, call[t])
    /\ UNCHANGED <<run, config, inject, number, info, files, creations, builds>>

\* What the build made of the program.
Output(c) ==
    LET p == live[c.program]
    IN  [form |-> "output", text |-> p.made.text, edited |-> p.made.edited,
         prepended |-> p.made.prepended, id |-> p.id, build |-> p.builds]

\* logBuild, dumpProgramBinary and dumpKernelISABinaries.
DumpBuild(t, step, kind, asked) ==
    /\ At(t, step)
    /\ LET c == call[t]
           i == info[c.program]
       IN  /\ files' = IF c.program # NULL /\ asked
                       THEN files \cup {Written(c, BuildName("dump", kind, Number(i.number), i),
                                                Output(c))}
                       ELSE files
           /\ Goes(t, c)
    /\ UNCHANGED <<run, config, inject, number, info, live, creations, builds>>

logBuild(t)              == DumpBuild(t, "log", "log", On("DumpProgramBuildLogs"))
dumpProgramBinary(t)     == DumpBuild(t, "dumpBinary", "binary", TRUE)
dumpKernelISABinaries(t) == DumpBuild(t, "dumpISA", "isa", TRUE)

\* The compiler reads the source dumped when the program was created.
autoCreateSPIRV(t) ==
    LET i == info[call[t].program]
        source == Name("dump", "source", Number(i.number), i.hash)
    IN  DumpBuild(t, "autoSPIRV", "spv", \E f \in files : f.name = source)

\* Mutant: builds are not counted.
CompileCountStays(t) ==
    /\ At(t, "increment") /\ Goes(t, call[t])
    /\ UNCHANGED <<run, config, inject, number, info, files, live, creations, builds>>

incrementProgramCompileCount(t) ==
    /\ At(t, "increment")
    /\ info' = IF call[t].program = NULL THEN info
               ELSE [info EXCEPT ![call[t].program].count = @ + 1]
    /\ Goes(t, call[t])
    /\ UNCHANGED <<run, config, inject, number, files, live, creations, builds>>

\* m_ProgramInfoMap keeps what it says of the handle.
Release(p) ==
    /\ live[p] # NULL /\ ~Busy(p) /\ live' = [live EXCEPT ![p] = NULL]
    /\ UNCHANGED <<run, config, inject, call, number, info, files, creations, builds>>

-----------------------------------------------------------------------------
(* Between the runs the user copies files, with the program's number in    *)
(* the name or without it, edits them, and writes sources to prepend.      *)

Copied(f, n) ==
    [name |-> CASE f.name.kind = "binary" -> Name("inject", "binary", n, f.name.hash)
                [] f.name.kind = "spv" -> Name("inject", "il", n, f.name.hash)
                [] OTHER -> [f.name EXCEPT !.dir = "inject", !.number = n],
     content |-> [f.content EXCEPT !.edited = TRUE]]

Copyable == {"source", "il", "binary", "spv", "options", "compile_options"}
Copies == UNION {{Copied(f, n) : n \in {NULL, f.name.number}} :
                    f \in {g \in files : g.name.kind \in Copyable}}
Prepended == {[name |-> Name("inject", "prepend", NULL, h), content |-> NULL] : h \in Hashes}

Restart ==
    /\ run = 1 /\ \A t \in Threads : Idle(t)
    /\ run' = 2
    /\ \E chosen \in SUBSET (Copies \cup IF "PrependProgramSource" \in config.runs[2] THEN Prepended
                                         ELSE {}) :
          /\ Cardinality(chosen) <= MaxCopies
          /\ \A f, g \in chosen : f # g => f.name # g.name
          /\ inject' = chosen
    /\ number' = 0 /\ info' = [p \in Programs \cup {NULL} |-> Blank]
    /\ live' = [p \in Programs |-> NULL] /\ creations' = 0 /\ builds' = 0
    \* Of the files of the first run only the sources are read again.
    /\ files' = {f \in files : f.name.kind = "source"}
    /\ UNCHANGED <<config, call>>

Next ==
    \/ \E t \in Threads :
          \/ \E s \in Sources : \/ clCreateProgramWithSource(t, s)
                                \/ clCreateProgramWithBinary(t, s)
                                \/ clCreateProgramWithIL(t, s)
          \/ clCreateProgramWithBuiltInKernels(t)
          \/ \E o \in Options \cup {NULL} :
                \/ clLinkProgram(t, o)
                \/ \E p \in Programs : clBuildProgram(t, p, o) \/ clCompileProgram(t, p, o)
          \/ injectProgramSource(t) \/ prependProgramSource(t)
          \/ createProgramWithInjectionBinaries(t) \/ createProgramWithInjectionSPIRV(t)
          \/ injectProgramSPIRV(t) \/ Create(t)
          \/ dumpProgramSource(t) \/ dumpProgramSPIRV(t) \/ dumpInputProgramBinaries(t)
          \/ saveProgramNumber(t) \/ saveProgramHash(t)
          \/ saveProgramOptionsHash(t) \/ injectProgramOptions(t) \/ appendBuildOptions(t)
          \/ dumpProgramOptions(t) \/ Build(t) \/ logBuild(t) \/ dumpProgramBinary(t)
          \/ dumpKernelISABinaries(t) \/ autoCreateSPIRV(t) \/ incrementProgramCompileCount(t)
    \/ \E p \in Programs : Release(p)
    \/ Restart

Spec == Init /\ [][Next]_vars

-----------------------------------------------------------------------------
(* Properties                                                              *)

\* With the program number in their names, no file of a run is written over with
\* something else, whatever handles the driver uses again and whichever threads
\* create and build programs.  The build log of a link is left out: it is written
\* before the program has its number; and so is a link that the driver refused,
\* for which all threads share the entry of the NULL handle.  With only input
\* binaries dumped builds are not counted, and the options appended to none have
\* the name of the last build with options.
NothingIsOverwritten ==
    LET named == {f \in files : f.run = run /\ f.name.number # NULL}
        right == {f \in named : f.op = "link" => f.program # NULL /\ f.name.kind # "log"}
        fixed == {f \in right :
                     f.name.kind \in {"options", "compile_options"} /\ f.content.text = NULL
                     => AnyOf(StepControls.increment)}
    IN  \A f, g \in fixed : f.name = g.name => f.content = g.content

InInject(name) == \E f \in inject : f.name = name

\* What the first run dumped, the second finds, if the user leaves out the program
\* number (docs/injecting_programs.md): a source, the binary that replaces it, and
\* the options that a program was built with when it had been built as often.  Those
\* may be options appended to none: a build without options leaves the hash of the
\* last build with options.
DumpedFilesAreFound ==
    \A t \in Threads :
        LET c == call[t] IN
        /\ At(t, "number") /\ c.op = "source" /\ ~c.refused =>
              LET own == live[c.program].own IN
              /\ On("InjectProgramSource") /\ InInject(Name("inject", "source", NULL, own))
                    => c.content.edited /\ Hash(c.content) = own
              /\ On("InjectProgramBinaries") /\ InInject(Name("inject", "binary", NULL, own))
                    => c.made.edited
        /\ At(t, "build") /\ c.options # NULL /\ On("InjectProgramSource") =>
              LET p == live[c.program]
                  i == [hash |-> p.own, count |-> p.builds, options |-> c.options]
                  kind == IF c.op = "build" THEN "options" ELSE "compile_options"
              IN  p.op = "source" /\ InInject(BuildName("inject", kind, NULL, i))
                    => /\ c.new # NULL /\ c.new.edited
                       /\ \/ c.new.text = c.options
                          \/ c.new.text = NULL /\ c.new.more

\* The same of SPIR-V: DumpProgramSPIRV is there "to dump SPIRV programs for SPIRV
\* injection" (docs/controls.md:468).  Without a control that asks for hashes
\* clCreateProgramWithIL looks for a file with the hash zero.
DumpedSpirvIsFound ==
    \A t \in Threads :
        At(t, "number") /\ call[t].op = "il" /\ ~call[t].refused
            /\ On("InjectProgramSPIRV")
            /\ InInject(Name("inject", "il", NULL, live[call[t].program].own))
        => call[t].content.edited
=============================================================================

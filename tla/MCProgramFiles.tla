--------------------------- MODULE MCProgramFiles ---------------------------
(* Pairs of runs: dump, then inject. *)
EXTENDS ProgramFiles, TLC

Runs(calls, first, second) == [calls |-> calls, runs |-> <<first, second>>]

\* Sources and options; handles that built-in kernels use again.
SourceRuns == Runs({"source", "builtin", "build"},
                   {"DumpProgramSource"}, {"InjectProgramSource", "DumpProgramBinaries"})
CompileRuns == Runs({"source", "compile", "link"},
                    {"DumpProgramSource", "AppendLinkOptions"}, {"InjectProgramSource"})
BinaryRuns == Runs({"source", "build"}, {"DumpProgramBinaries", "AppendBuildOptions"},
                   {"InjectProgramBinaries", "PrependProgramSource"})
SpirvRuns  == Runs({"source", "il", "build"},
                   {"DumpProgramSPIRV", "AutoCreateSPIRV", "OmitProgramNumber"},
                   {"InjectProgramSPIRV", "DumpProgramSPIRV"})
LogRuns    == Runs({"binary", "link", "build"},
                   {"DumpInputProgramBinaries", "DumpKernelISABinaries"},
                   {"BuildLogging", "DumpProgramBuildLogs", "RejectProgramBinaries"})

\* Options appended to every build, and to none.
AppendRuns == Runs({"source", "build"}, {"DumpProgramSource", "AppendBuildOptions"},
                   {"InjectProgramSource"})
InputRuns  == Runs({"binary", "build", "link"}, {"DumpInputProgramBinaries", "AppendBuildOptions"},
                   {"DumpInputProgramBinaries", "InjectProgramSource"})

MCConfigs == {AppendRuns, InputRuns, SourceRuns, CompileRuns, BinaryRuns, SpirvRuns, LogRuns}
MCSpirv   == {Runs({"il"}, {"DumpProgramSPIRV"}, {"InjectProgramSPIRV"})}

Symmetry == Permutations(Threads) \cup Permutations(Programs)
=============================================================================

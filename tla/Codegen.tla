------------------------------- MODULE Codegen ------------------------------
(***************************************************************************)
(* The program codegen (main.cpp): the command line is read, and then the  *)
(* parser benchmark runs, or the files are loaded one by one, each of them *)
(* printed or turned into C++ before the next one is opened.  An exception *)
(* ends the program and leaves on stdout what was written before.          *)
(*                                                                         *)
(* The contents of a file are a record: no file ("missing"), an empty one, *)
(* a compiled set of descriptors, which may be cut, or a .proto source,    *)
(* which the parser may reject or whose types may be unresolved.           *)
(***************************************************************************)
EXTENDS CommandLine, CodeGenerator, ParserBenchmark

CONSTANT Contents(_)    \* what a file named by an argument holds

VARIABLE file           \* index of the next file

argumentVars == <<argv, next, given, values, files, command>>
vars == <<cmdlineVars, generatorVars, benchmarkVars, file>>

EmptyFile == [package |-> <<>>, syntax |-> "", messages |-> <<>>]

(* An empty file is an empty set, which is refused, and a source without   *)
(* declarations, which is not.                                             *)
DecodeSingleFile(contents) ==
    IF contents.kind = "set" /\ contents.whole /\ Len(contents.files) = 1
    THEN contents.files[1] ELSE Fault

ParseSourceFile(contents) ==
    CASE contents.kind = "empty" -> EmptyFile
      [] contents.kind = "source" /\ contents.valid -> contents.file
      [] OTHER -> Fault

HasUnresolvedTypes(contents) == contents.kind = "source" /\ ~contents.resolved

Descriptor(name, c) ==
    IF c.format = "set" THEN DecodeSingleFile(Contents(name)) ELSE ParseSourceFile(Contents(name))

(* A descriptor lists its messages.                                        *)
ASSUME ContentsAssumption ==
    \A name \in Arguments, format \in {"set", "source"} :
        LET d == Descriptor(name, [format |-> format])
        IN  d # Fault => d.messages \in Seq(ToSet(d.messages))

(* What the generator has code for: no groups (README.md:22), and maps     *)
(* whose keys are scalars, the only ones the parser accepts.               *)
Supported(message) ==
    /\ \A i \in DOMAIN message.fields : message.fields[i].type \in ScalarMethods \cup {"message"}
    /\ \A n \in MapEntries(message) : n.fields \in Seq(ToSet(n.fields)) /\
         \A i \in DOMAIN n.fields :
            /\ n.fields[i].type \in ScalarMethods \cup {"message"}
            /\ n.fields[i].number = 1 => n.fields[i].type # "message"

AllSupported ==
    \A name \in Arguments, format \in {"set", "source"} :
        LET d == Descriptor(name, [format |-> format])
        IN  d # Fault => \A message \in ToSet(d.messages) : Supported(message)

Refused(name, c) ==
    \/ Descriptor(name, c) = Fault
    \/ c.action = "generate" /\ c.format = "source" /\ HasUnresolvedTypes(Contents(name))

Readable(name) == Contents(name).kind # "missing"
ReadableAt(i) == Readable(files[i])
ParsesAt(i) == ParseSourceFile(Contents(files[i])) # Fault

Printed(name) ==
    (IF Len(files) > 1 THEN <<[kind |-> "title", file |-> name]>> ELSE <<>>)
    \o <<[kind |-> "tree", file |-> name]>>

-----------------------------------------------------------------------------
Init ==
    /\ CommandLineInit
    /\ GeneratorInit
    /\ BenchmarkInit
    /\ file = 1

ReadCommandLine ==
    /\ ParseCommandLine
    /\ UNCHANGED <<generatorVars, benchmarkVars, file>>

(* The loop over the files goes on when the one before is done.            *)
AtFile(action) ==
    /\ phase = "running" /\ command.action = action
    /\ messages = <<>>
    /\ file <= Len(files)

FileRefused ==
    /\ AtFile(command.action) /\ command.action # "benchmark"
    /\ Refused(files[file], command)
    /\ phase' = "failed"
    /\ UNCHANGED <<argumentVars, generatorVars, benchmarkVars, file>>

PrintDescriptor ==
    /\ AtFile("print")
    /\ ~Refused(files[file], command)
    /\ stdout' = stdout \o Printed(files[file])
    /\ file' = file + 1
    /\ UNCHANGED <<cmdlineVars, globals, messages, benchmarkVars>>

GenerateFile ==
    /\ AtFile("generate")
    /\ ~Refused(files[file], command)
    /\ BeginFile(files[file], Descriptor(files[file], command))
    /\ file' = file + 1
    /\ UNCHANGED <<cmdlineVars, benchmarkVars>>

(* An exception in the generator ends the program.                         *)
NextMessage ==
    /\ phase = "running"
    /\ messages # <<>>
    /\ \E code \in {CodeOf(Head(messages), command)} :
        /\ GenerateMessage(code)
        /\ phase' = IF code = <<Fault>> THEN "failed" ELSE phase
    /\ UNCHANGED <<argumentVars, benchmarkVars, file>>

AllFilesDone ==
    /\ phase = "running" /\ command.action # "benchmark"
    /\ messages = <<>> /\ file > Len(files)
    /\ phase' = "done"
    /\ UNCHANGED <<argumentVars, generatorVars, benchmarkVars, file>>

Benchmark ==
    /\ phase = "running" /\ command.action = "benchmark"
    /\ \/ StartBenchmark
       \/ ReadSource(Len(files), ReadableAt(source))
       \/ WarmUp(Len(files), ParsesAt(source))
       \/ MeasuredParse(Len(files), ParsesAt(source), command.milliseconds)
    /\ UNCHANGED <<cmdlineVars, generatorVars, file>>

BenchmarkEnds ==
    /\ phase = "running" /\ stage \in {"report", "failed"}
    /\ phase' = IF stage = "report" THEN "done" ELSE "failed"
    /\ UNCHANGED <<argumentVars, generatorVars, benchmarkVars, file>>

Program ==
    \/ ReadCommandLine
    \/ FileRefused \/ PrintDescriptor \/ GenerateFile \/ NextMessage \/ AllFilesDone
    \/ Benchmark \/ BenchmarkEnds

TimePasses ==
    /\ Tick
    /\ UNCHANGED <<cmdlineVars, generatorVars, file>>

Next == Program \/ TimePasses

Spec == Init /\ [][Next]_vars

(* The program is one thread that is always given time again, and time     *)
(* itself goes on.                                                         *)
FairSpec == Spec /\ WF_vars(Program) /\ WF_vars(TimePasses)

-----------------------------------------------------------------------------
(* PROPERTIES                                                              *)

TypeOK ==
    /\ next \in 1..Len(argv) + 1
    /\ given \subseteq Switches \cup ValueOptions
    /\ DOMAIN values = ValueOptions
    /\ phase \in {"arguments", "help", "running", "failed", "done"}
    /\ command.action \in {"none", "generate", "print", "benchmark"}
    /\ current_file_is_proto3 \in BOOLEAN
    /\ stage \in {"idle", "read", "warm-up", "measure", "report", "failed"}
    /\ stage # "idle" => source \in 1..Len(files)
    /\ clock \in Nat /\ started \in 0..clock /\ rounds \in 0..MAX_ROUNDS
    /\ file \in 1..Len(files) + 1

(* What the loop over the files owes to stdout, file by file up to the     *)
(* first that fails, whatever was done for the files before it.            *)
OutputOf(name, descriptor, c) ==
    IF descriptor = Fault THEN [whole |-> FALSE, output |-> <<>>]
    ELSE IF c.action = "print" THEN [whole |-> TRUE, output |-> Printed(name)]
    ELSE CodeOfFile(name, descriptor, c)

Owed(outputs) ==
    LET bad == SelectInSeq(outputs, LAMBDA o : ~o.whole)
    IN  [ whole  |-> bad = 0,
          output |-> FlattenSeq([i \in 1..(IF bad = 0 THEN Len(outputs) ELSE bad) |-> outputs[i].output]) ]

IsOutput(owed) ==
    /\ IsPrefix(stdout, owed.output)
    /\ phase # "running" => stdout = owed.output /\ (phase = "done" <=> owed.whole)

(* The output is that of the files, one after the other: each as if it     *)
(* were the only one (the globals at codegen.cpp:34), with nothing of a    *)
(* message or file that fails and all that comes before it (main.cpp:372). *)
OutputIsFilesInOrder ==
    command.action \in {"generate", "print"} =>
        IsOutput(Owed([i \in DOMAIN files |->
            OutputOf(files[i],
                     IF Refused(files[i], command) THEN Fault ELSE Descriptor(files[i], command), command)]))

(* What is measured is parsing, never failing: an input the benchmark      *)
(* cannot use, a compiled set that came without --descriptor-set for       *)
(* example (main.cpp:256), ends it before time is taken, and a result      *)
(* stands for at least one round.                                          *)
MeasuresParsing ==
    stage \in {"measure", "report"} =>
        /\ \A i \in DOMAIN files : Contents(files[i]).kind \in {"empty", "source"} /\ ParsesAt(i)
        /\ stage = "report" => rounds > 0 /\ clock - started >= MIN_BENCHMARK

(* Every run of the program ends, the benchmark too (parser_benchmark.cpp: *)
(* 139), which has only the clock to stop it.                              *)
Ends == <>(phase \in {"help", "failed", "done"})
=============================================================================

---------------------------- MODULE CodegenProof ----------------------------
(***************************************************************************)
(* Proofs about the program codegen, for all command lines and contents of *)
(* files: every argument plays one part, the parser benchmark measures     *)
(* parsing, what is written to stdout is the code of the files in order,   *)
(* and it is consistent.                                                   *)
(***************************************************************************)
EXTENDS Codegen, SequenceFacts

(* Arguments are read one by one into a list of files; a time to measure   *)
(* that was given is a number.                                             *)
ArgumentsRead ==
    /\ argv \in Seq(Arguments)
    /\ next \in Nat \ {0}
    /\ files \in Seq(Arguments)
    /\ DOMAIN values = ValueOptions
    /\ phase = "arguments" /\ "benchmark-ms" \in given => Parses("benchmark-ms", values["benchmark-ms"])

(* The program runs on at least one file, and benchmarks for long enough.  *)
CommandSound ==
    /\ phase = "arguments" => stage = "idle"
    /\ phase = "running" => files # <<>>
    /\ phase = "running" /\ command.action = "benchmark" =>
         command.milliseconds \in Int /\ command.milliseconds >= MIN_BENCHMARK

(* The files before the next one have been parsed, and all of them once    *)
(* measuring has begun.                                                    *)
ParsedSoFar ==
    /\ source \in Nat
    /\ stage = "warm-up" => \A i \in 1 .. source - 1 : ParsesAt(i)
    /\ stage \in {"measure", "report"} => \A i \in DOMAIN files : ParsesAt(i)

Measured ==
    /\ clock \in Nat /\ started \in Nat /\ rounds \in Nat
    /\ stage = "report" => rounds > 0 /\ clock - started >= MIN_BENCHMARK

IInv == ArgumentsRead /\ CommandSound /\ ParsedSoFar /\ Measured

-----------------------------------------------------------------------------
(* A file that can be parsed is not a compiled set.                        *)
LEMMA ParsedKinds ==
  ASSUME NEW i, ParsesAt(i)
  PROVE  Contents(files[i]).kind \in {"empty", "source"}
BY DEF ParsesAt, ParseSourceFile

LEMMA InvariantImpliesProperty ==
  ASSUME IInv
  PROVE  MeasuresParsing
BY ParsedKinds DEF IInv, ParsedSoFar, Measured, MeasuresParsing

LEMMA InitHasIInv ==
  ASSUME Init
  PROVE  IInv
<1>1. /\ argv \in CommandLines /\ next = 1 /\ files = <<>> /\ given = {}
      /\ values = [o \in ValueOptions |-> NoValue] /\ phase = "arguments"
  BY DEF Init, CommandLineInit
<1>2. clock = 0 /\ stage = "idle" /\ source = 1 /\ started = 0 /\ rounds = 0
  BY DEF Init, BenchmarkInit
<1>3. ArgumentsRead
  <2>1. argv \in Seq(Arguments)
    BY <1>1, LinesAssumption
  <2>2. files \in Seq(Arguments)
    BY <1>1
  <2> QED BY <1>1, <2>1, <2>2 DEF ArgumentsRead
<1>4. CommandSound /\ ParsedSoFar /\ Measured
  BY <1>1, <1>2 DEF CommandSound, ParsedSoFar, Measured
<1> QED BY <1>3, <1>4 DEF IInv

(* Nothing that is promised of the files depends on anything else.         *)
LEMMA SameFiles ==
  ASSUME files' = files
  PROVE  \A i : ParsesAt(i)' <=> ParsesAt(i)
BY DEF ParsesAt

LEMMA SwitchesOnly ==
  ASSUME NEW arg
  PROVE  Reading(arg).switches \subseteq Switches
BY DEF Reading, LongOption, ShortCluster

-----------------------------------------------------------------------------
(* The command line.                                                       *)
LEMMA OptionStep ==
  ASSUME IInv, ReadOption
  PROVE  ArgumentsRead' /\ phase' \in {"arguments", "failed"}
<1>1. /\ given' = given \cup Reading(argv[next]).switches \cup Reading(argv[next]).valued
      /\ next' = After(argv, next)
      /\ phase = "arguments"
      /\ UNCHANGED <<argv, files>>
  BY DEF ReadOption, At
<1>2. PICK value :
        /\ values' = [o \in ValueOptions |-> IF o \in Reading(argv[next]).valued THEN value ELSE values[o]]
        /\ phase' = IF \A o \in Reading(argv[next]).valued : Parses(o, value) THEN phase ELSE "failed"
  BY DEF ReadOption
<1>3. "benchmark-ms" \notin Switches /\ "benchmark-ms" \in ValueOptions
  BY DEF Switches, GenerationSwitches, ValueOptions
<1>4. next' \in Nat \ {0}
  BY <1>1 DEF IInv, ArgumentsRead, After
<1>5. ASSUME phase' = "arguments", "benchmark-ms" \in given'
      PROVE  Parses("benchmark-ms", values'["benchmark-ms"])
  <2>1. CASE "benchmark-ms" \in Reading(argv[next]).valued
    BY <1>2, <1>3, <1>5, <2>1
  <2>2. CASE "benchmark-ms" \notin Reading(argv[next]).valued
    <3>1. "benchmark-ms" \in given
      BY <1>1, <1>3, <1>5, <2>2, SwitchesOnly
    <3> QED BY <1>1, <1>2, <1>3, <2>2, <3>1 DEF IInv, ArgumentsRead
  <2> QED BY <2>1, <2>2
<1>6. phase' \in {"arguments", "failed"} /\ DOMAIN values' = ValueOptions
  BY <1>1, <1>2
<1> QED BY <1>1, <1>4, <1>5, <1>6 DEF IInv, ArgumentsRead

LEMMA WordStep ==
  ASSUME IInv, ReadWord
  PROVE  ArgumentsRead' /\ phase' = "arguments"
<1>1. /\ next \in 1 .. Len(argv) /\ argv[next] \in Arguments
      /\ files' = Append(files, argv[next]) /\ next' = next + 1
      /\ UNCHANGED <<argv, given, values, phase>> /\ phase = "arguments"
  BY DEF IInv, ArgumentsRead, ReadWord, At
<1>2. files' \in Seq(Arguments) /\ next' \in Nat \ {0}
  BY <1>1 DEF IInv, ArgumentsRead
<1> QED BY <1>1, <1>2 DEF IInv, ArgumentsRead

LEMMA DashesStep ==
  ASSUME IInv, ReadDashes
  PROVE  ArgumentsRead' /\ phase' = "arguments"
<1> DEFINE rest == SubSeq(argv, next + 1, Len(argv))
<1>1. /\ next \in 1 .. Len(argv)
      /\ files' = files \o rest /\ next' = next + 1
      /\ UNCHANGED <<argv, given, values, phase>> /\ phase = "arguments"
  BY DEF IInv, ArgumentsRead, ReadDashes, At
<1>2. rest \in Seq(Arguments)
  <2>1. argv \in Seq(Arguments) /\ Len(argv) \in Nat
    BY DEF IInv, ArgumentsRead
  <2>2. \A i \in next + 1 .. Len(argv) : argv[i] \in Arguments
    BY <1>1, <2>1
  <2> QED BY <1>1, <2>1, <2>2
<1>3. files' \in Seq(Arguments) /\ next' \in Nat \ {0}
  BY <1>1, <1>2 DEF IInv, ArgumentsRead
<1> QED BY <1>1, <1>3 DEF IInv, ArgumentsRead

LEMMA CheckStep ==
  ASSUME IInv, CheckOptions
  PROVE  ArgumentsRead' /\ CommandSound'
<1>1. UNCHANGED <<argv, next, given, values, files>> /\ phase = "arguments"
  BY DEF CheckOptions
<1>2. phase' \in {"help", "failed", "running"}
  BY DEF CheckOptions
<1>3. ArgumentsRead'
  BY <1>1, <1>2 DEF IInv, ArgumentsRead
<1>4. ASSUME phase' = "running"
      PROVE  /\ files # <<>>
             /\ command'.action = Action(given) /\ command'.milliseconds = Milliseconds
             /\ ~Conflict(given)
  BY <1>4 DEF CheckOptions
<1>5. Milliseconds \in Int
  <2>1. CASE "benchmark-ms" \in given
    BY <1>1, <2>1, TimeAssumption DEF IInv, ArgumentsRead, Parses, Milliseconds
  <2>2. CASE "benchmark-ms" \notin given
    BY <2>2, TimeAssumption DEF Milliseconds
  <2> QED BY <2>1, <2>2
<1>6. ASSUME ~Conflict(given)
      PROVE  Milliseconds >= MIN_BENCHMARK
  BY <1>5, <1>6, TimeAssumption DEF Conflict, Milliseconds
<1> QED BY <1>1, <1>2, <1>3, <1>4, <1>5, <1>6 DEF CommandSound

LEMMA CommandLineStep ==
  ASSUME IInv, ReadCommandLine
  PROVE  IInv'
<1>1. ParseCommandLine /\ UNCHANGED <<clock, stage, source, started, rounds>>
  BY DEF ReadCommandLine, benchmarkVars
<1>2. phase = "arguments" /\ stage = "idle"
  BY <1>1 DEF ParseCommandLine, ReadOption, ReadWord, ReadDashes, CheckOptions, At, IInv, CommandSound
<1>3. ParsedSoFar' /\ Measured'
  BY <1>1, <1>2 DEF IInv, ParsedSoFar, Measured
<1>4. ArgumentsRead' /\ CommandSound'
  <2>1. CASE ReadOption
    BY <1>1, <1>2, <2>1, OptionStep DEF CommandSound
  <2>2. CASE ReadWord
    BY <1>1, <1>2, <2>2, WordStep DEF CommandSound
  <2>3. CASE ReadDashes
    BY <1>1, <1>2, <2>3, DashesStep DEF CommandSound
  <2>4. CASE CheckOptions
    BY <2>4, CheckStep
  <2> QED BY <1>1, <2>1, <2>2, <2>3, <2>4 DEF ParseCommandLine
<1> QED BY <1>3, <1>4 DEF IInv

(* Steps of the loop over the files, and the end of the program.           *)
LEMMA OtherStep ==
  ASSUME IInv, UNCHANGED <<argv, next, given, values, files, command>>, UNCHANGED benchmarkVars,
         phase' = phase \/ (phase = "running" /\ phase' \in {"failed", "done"})
  PROVE  IInv'
<1>1. UNCHANGED <<clock, stage, source, started, rounds>>
  BY DEF benchmarkVars
<1>2. ArgumentsRead' /\ CommandSound'
  BY <1>1 DEF IInv, ArgumentsRead, CommandSound
<1>3. ParsedSoFar' /\ Measured'
  BY <1>1, SameFiles DEF IInv, ParsedSoFar, Measured
<1> QED BY <1>2, <1>3 DEF IInv

-----------------------------------------------------------------------------
(* The benchmark.                                                          *)
LEMMA BenchmarkStep ==
  ASSUME IInv, Benchmark
  PROVE  IInv'
<1> DEFINE n == Len(files)
<1>1. /\ phase = "running" /\ command.action = "benchmark"
      /\ UNCHANGED <<argv, next, given, values, files, phase, command>>
  BY DEF Benchmark, cmdlineVars
<1>2. ArgumentsRead' /\ CommandSound'
  BY <1>1 DEF IInv, ArgumentsRead, CommandSound
<1>3. /\ n \in Nat /\ DOMAIN files = 1 .. n /\ source \in Nat
      /\ command.milliseconds \in Int /\ command.milliseconds >= MIN_BENCHMARK
      /\ clock \in Nat /\ started \in Nat /\ rounds \in Nat
  BY <1>1 DEF IInv, ArgumentsRead, CommandSound, ParsedSoFar, Measured
<1>4. /\ source = n => Following(n) = 1
      /\ source # n => Following(n) = source + 1
      /\ Following(n) \in Nat
  <2>1. source \in Nat
    BY <1>3
  <2>2. CASE source = n
    BY <2>2 DEF Following
  <2>3. CASE source # n
    BY <2>1, <2>3 DEF Following
  <2> QED BY <2>2, <2>3
<1>5. CASE StartBenchmark
  BY <1>1, <1>2, <1>3, <1>5 DEF StartBenchmark, IInv, ParsedSoFar, Measured
<1>6. CASE ReadSource(n, ReadableAt(source))
  <2>1. /\ stage' \in {"failed", "read", "warm-up"} /\ source' = Following(n)
        /\ stage' = "warm-up" => source = n
        /\ UNCHANGED <<clock, started, rounds>>
    BY <1>6 DEF ReadSource, Over
  <2>2. stage' = "warm-up" => 1 .. source' - 1 = {}
    BY <1>4, <2>1
  <2>3. ParsedSoFar'
    BY <1>4, <2>1, <2>2 DEF ParsedSoFar
  <2> QED BY <1>2, <1>3, <2>1, <2>3 DEF IInv, Measured
<1>7. CASE WarmUp(n, ParsesAt(source))
  <2>1. /\ stage = "warm-up" /\ stage' \in {"failed", "warm-up", "measure"} /\ source' = Following(n)
        /\ stage' # "failed" => ParsesAt(source)
        /\ stage' = "measure" => source = n
        /\ stage' = "warm-up" => source # n
        /\ started' = clock /\ UNCHANGED <<clock, rounds>>
    BY <1>7 DEF WarmUp, Over
  <2>2. ASSUME stage' # "failed"
        PROVE  \A i \in 1 .. source : ParsesAt(i)
    <3>1. \A i \in 1 .. source : i \in 1 .. source - 1 \/ i = source
      BY <1>3
    <3> QED BY <2>1, <2>2, <3>1 DEF IInv, ParsedSoFar
  <2>3. ASSUME stage' = "warm-up"
        PROVE  1 .. source' - 1 = 1 .. source
    <3>1. source' = source + 1 /\ source \in Nat
      BY <1>3, <1>4, <2>1, <2>3
    <3> QED BY <3>1
  <2>4. ParsedSoFar'
    BY <1>1, <1>3, <1>4, <2>1, <2>2, <2>3, SameFiles DEF ParsedSoFar
  <2> QED BY <1>2, <1>3, <2>1, <2>4 DEF IInv, Measured
<1>8. CASE MeasuredParse(n, ParsesAt(source), command.milliseconds)
  <2>1. /\ stage = "measure" /\ stage' \in {"failed", "measure", "report"} /\ source' = Following(n)
        /\ stage' = "report" => source = n /\ Elapsed >= command.milliseconds
        /\ rounds' = IF source = n /\ rounds < MAX_ROUNDS THEN rounds + 1 ELSE rounds
        /\ UNCHANGED <<clock, started>>
    BY <1>8 DEF MeasuredParse, Over
  <2>2. ParsedSoFar'
    BY <1>1, <1>4, <2>1, SameFiles DEF IInv, ParsedSoFar
  <2>3. rounds' \in Nat /\ (source = n => rounds' > 0)
    <3>1. rounds \in Nat /\ MAX_ROUNDS \in Nat \ {0}
      BY <1>3, RoundsAssumption
    <3>2. CASE source = n /\ rounds < MAX_ROUNDS
      BY <2>1, <3>1, <3>2
    <3>3. CASE source = n /\ ~(rounds < MAX_ROUNDS)
      BY <2>1, <3>1, <3>3
    <3>4. CASE source # n
      BY <2>1, <3>1, <3>4
    <3> QED BY <3>2, <3>3, <3>4
  <2>4. Elapsed >= command.milliseconds => clock - started >= MIN_BENCHMARK
    BY <1>3, TimeAssumption DEF Elapsed
  <2> QED BY <1>2, <1>3, <2>1, <2>2, <2>3, <2>4 DEF IInv, Measured
<1> QED BY <1>5, <1>6, <1>7, <1>8 DEF Benchmark

LEMMA TimeStep ==
  ASSUME IInv, TimePasses
  PROVE  IInv'
<1>1. /\ UNCHANGED <<argv, next, given, values, files, phase, command>>
      /\ clock' = clock + 1 /\ UNCHANGED <<stage, source, started, rounds>>
  BY DEF TimePasses, Tick, cmdlineVars
<1>2. ArgumentsRead' /\ CommandSound'
  BY <1>1 DEF IInv, ArgumentsRead, CommandSound
<1>3. ParsedSoFar'
  BY <1>1, SameFiles DEF IInv, ParsedSoFar
<1>4. Measured'
  BY <1>1, TimeAssumption DEF IInv, Measured
<1> QED BY <1>2, <1>3, <1>4 DEF IInv

LEMMA NextKeepsIInv ==
  ASSUME IInv, [Next]_vars
  PROVE  IInv'
<1>1. CASE UNCHANGED vars
  BY <1>1, OtherStep DEF vars, cmdlineVars
<1>2. CASE ReadCommandLine
  BY <1>2, CommandLineStep
<1>3. CASE FileRefused
  BY <1>3, OtherStep DEF FileRefused, AtFile, argumentVars
<1>4. CASE PrintDescriptor
  BY <1>4, OtherStep DEF PrintDescriptor, cmdlineVars
<1>5. CASE GenerateFile
  BY <1>5, OtherStep DEF GenerateFile, cmdlineVars
<1>6. CASE NextMessage
  BY <1>6, OtherStep DEF NextMessage, argumentVars
<1>7. CASE AllFilesDone
  BY <1>7, OtherStep DEF AllFilesDone, argumentVars
<1>8. CASE Benchmark
  BY <1>8, BenchmarkStep
<1>9. CASE BenchmarkEnds
  BY <1>9, OtherStep DEF BenchmarkEnds, argumentVars
<1>10. CASE TimePasses
  BY <1>10, TimeStep
<1> QED BY <1>1, <1>2, <1>3, <1>4, <1>5, <1>6, <1>7, <1>8, <1>9, <1>10 DEF Next, Program

LEMMA Invariance == Spec => []IInv
<1>1. Init => IInv
  BY InitHasIInv
<1>2. IInv /\ [Next]_vars => IInv'
  BY NextKeepsIInv
<1> QED BY <1>1, <1>2, PTL DEF Spec

(* Time is taken only over files that have all been parsed before, none of *)
(* them a compiled set, and a report stands for at least one whole round   *)
(* and the time that was asked for (run_parser_benchmark).                 *)
THEOREM BenchmarkMeasuresParsing == Spec => []MeasuresParsing
<1>1. IInv => MeasuresParsing
  BY InvariantImpliesProperty
<1> QED BY <1>1, Invariance, PTL

-----------------------------------------------------------------------------
(* Each argument plays one part.                                           *)

IsNext(v, i) ==
    /\ i > 1
    /\ ~v[i - 1]
    /\ argv[i - 1].kind \in {"long", "short"}
    /\ WantsValue(argv[i - 1])

LEMMA ValuesExist ==
  ASSUME argv \in Seq(Arguments)
  PROVE  \A i \in 0 .. Len(argv) : IsValue[i] = IsNext(IsValue, i)
<1> DEFINE n == Len(argv)
           Upto(k, v) == \A i \in 0 .. k : v[i] = IsNext(v, i)
           T == {k \in 0 .. n : \E v : Upto(k, v)}
<1>1. n \in Nat
  OBVIOUS
<1> HIDE DEF n
<1>2. 0 \in T
  <2> DEFINE v == [i \in {0} |-> FALSE]
  <2>1. \A i \in 0 .. 0 : i = 0
    OBVIOUS
  <2>2. v[0] = FALSE
    OBVIOUS
  <2> HIDE DEF v
  <2>3. IsNext(v, 0) = FALSE
    BY DEF IsNext
  <2>4. Upto(0, v)
    BY <2>1, <2>2, <2>3
  <2> QED BY <1>1, <2>4
<1>3. ASSUME NEW k \in 1 .. n, k - 1 \in T
      PROVE  k \in T
  <2>1. PICK v : Upto(k - 1, v)
    BY <1>3
  <2> DEFINE w == [i \in 0 .. k |-> IF i < k THEN v[i] ELSE IsNext(v, k)]
  <2>2. \A i \in 0 .. k : w[i] = IF i < k THEN v[i] ELSE IsNext(v, k)
    OBVIOUS
  <2> HIDE DEF w
  <2>3. ASSUME NEW i \in 0 .. k
        PROVE  w[i] = IsNext(w, i)
    <3>1. i \in Nat /\ k \in Nat /\ i <= k /\ (i > 1 => i - 1 \in 0 .. k /\ i - 1 < k)
      BY <1>1
    <3>2. i > 1 => w[i - 1] = v[i - 1]
      BY <2>2, <3>1
    <3>3. IsNext(w, i) = IsNext(v, i)
      BY <3>2 DEF IsNext
    <3>4. CASE i < k
      <4>1. i \in 0 .. k - 1
        BY <3>1, <3>4
      <4> QED BY <2>1, <2>2, <3>3, <3>4, <4>1
    <3>5. CASE i = k
      <4>1. ~(i < k)
        BY <3>1, <3>5
      <4> QED BY <2>2, <3>3, <3>5, <4>1
    <3> QED BY <3>1, <3>4, <3>5
  <2>4. Upto(k, w) /\ k \in 0 .. n
    BY <1>1, <2>3
  <2> QED BY <2>4
<1>4. n \in T
  <2> HIDE DEF T
  <2>1. 0 .. n \subseteq T
    BY <1>1, <1>2, <1>3, Induction
  <2> QED BY <1>1, <2>1
<1>5. PICK v : Upto(n, v)
  BY <1>4
<1> DEFINE P(w) == w = [i \in 0 .. n |-> IsNext(w, i)]
           g == [i \in 0 .. n |-> v[i]]
<1>6. P(g)
  <2>1. \A i \in 0 .. n : g[i] = v[i]
    OBVIOUS
  <2>2. ASSUME NEW i \in 0 .. n
        PROVE  v[i] = IsNext(g, i)
    <3>1. i > 1 => i - 1 \in 0 .. n
      BY <1>1
    <3>2. i > 1 => g[i - 1] = v[i - 1]
      BY <2>1, <3>1
    <3>3. IsNext(g, i) = IsNext(v, i)
      BY <3>2 DEF IsNext
    <3> QED BY <1>5, <3>3
  <2> QED BY <2>2
<1>7. IsValue = CHOOSE w : P(w)
  BY DEF IsValue, IsNext, n
<1>8. P(IsValue)
  <2> HIDE DEF P, g
  <2> QED BY <1>6, <1>7
<1> QED BY <1>8 DEF n

(* The options and the names among the arguments before the n-th.          *)
OptionsBefore(n) == {i \in 1 .. n - 1 : argv[i].kind \in {"long", "short"} /\ ~IsValue[i]}
NamesBefore(n) == {i \in 1 .. n - 1 : argv[i].kind = "word" /\ ~IsValue[i]}

Says(i) == Reading(argv[i]).switches \cup Reading(argv[i]).valued

ReadSoFar ==
    /\ phase \notin {"arguments", "failed"} => next > Len(argv)
    /\ phase # "failed" /\ (\A i \in DOMAIN argv : argv[i].kind # "dashes") =>
         /\ next <= Len(argv) + 1
         /\ next <= Len(argv) => ~IsValue[next]
         /\ given = UNION {Says(i) : i \in OptionsBefore(next)}
         /\ ToSet(files) = {argv[i] : i \in NamesBefore(next)}
         /\ Len(files) = Cardinality(NamesBefore(next))

LEMMA ReadSoFarIsAll ==
  ASSUME IInv, ReadSoFar
  PROVE  EachArgumentReadOnce
<1> SUFFICES ASSUME phase \notin {"arguments", "failed"}, \A i \in DOMAIN argv : argv[i].kind # "dashes"
             PROVE  /\ given = UNION {Says(i) : i \in {j \in DOMAIN argv : argv[j].kind \in {"long", "short"} /\ ~IsValue[j]}}
                    /\ ToSet(files) = {argv[i] : i \in {j \in DOMAIN argv : argv[j].kind = "word" /\ ~IsValue[j]}}
                    /\ Len(files) = Cardinality({j \in DOMAIN argv : argv[j].kind = "word" /\ ~IsValue[j]})
  BY DEF EachArgumentReadOnce, Says
<1>1. next = Len(argv) + 1 /\ Len(argv) \in Nat /\ DOMAIN argv = 1 .. Len(argv)
  BY DEF IInv, ArgumentsRead, ReadSoFar
<1>2. 1 .. next - 1 = DOMAIN argv
  BY <1>1
<1>3. /\ OptionsBefore(next) = {j \in DOMAIN argv : argv[j].kind \in {"long", "short"} /\ ~IsValue[j]}
      /\ NamesBefore(next) = {j \in DOMAIN argv : argv[j].kind = "word" /\ ~IsValue[j]}
  BY <1>2 DEF OptionsBefore, NamesBefore
<1> QED BY <1>3 DEF ReadSoFar

(* What an argument is depends on the arguments alone.                     *)
LEMMA SameParts ==
  ASSUME argv' = argv
  PROVE  /\ IsValue' = IsValue
         /\ \A n : OptionsBefore(n)' = OptionsBefore(n) /\ NamesBefore(n)' = NamesBefore(n)
         /\ \A i : Says(i)' = Says(i)
<1>1. IsValue' = IsValue
  BY DEF IsValue
<1> QED BY <1>1 DEF OptionsBefore, NamesBefore, Says

(* The n-th argument, which is no value, and the value it takes, if any.   *)
LEMMA OneMore ==
  ASSUME argv \in Seq(Arguments), NEW n \in 1 .. Len(argv), ~IsValue[n]
  PROVE  /\ OptionsBefore(n + 1) = OptionsBefore(n) \cup (IF argv[n].kind \in {"long", "short"} THEN {n} ELSE {})
         /\ NamesBefore(n + 1) = NamesBefore(n) \cup (IF argv[n].kind = "word" THEN {n} ELSE {})
         /\ n < Len(argv) =>
              (IsValue[n + 1] <=> argv[n].kind \in {"long", "short"} /\ WantsValue(argv[n]))
         /\ n < Len(argv) /\ IsValue[n + 1] =>
              /\ OptionsBefore(n + 2) = OptionsBefore(n + 1)
              /\ NamesBefore(n + 2) = NamesBefore(n + 1)
              /\ n + 2 <= Len(argv) => ~IsValue[n + 2]
<1>1. Len(argv) \in Nat /\ n \in Nat /\ n >= 1 /\ n <= Len(argv)
  OBVIOUS
<1>2. /\ 1 .. (n + 1) - 1 = (1 .. n - 1) \cup {n}
      /\ 1 .. (n + 2) - 1 = (1 .. (n + 1) - 1) \cup {n + 1}
  BY <1>1
<1>3. ASSUME n < Len(argv)
      PROVE  IsValue[n + 1] = IsNext(IsValue, n + 1)
  BY <1>1, <1>3, ValuesExist
<1>4. ASSUME n + 2 <= Len(argv)
      PROVE  IsValue[n + 2] = IsNext(IsValue, n + 2)
  BY <1>1, <1>4, ValuesExist
<1>5. (n + 1) - 1 = n /\ n + 1 > 1 /\ (n + 2) - 1 = n + 1
  BY <1>1
<1>6. ASSUME n < Len(argv)
      PROVE  IsValue[n + 1] <=> argv[n].kind \in {"long", "short"} /\ WantsValue(argv[n])
  BY <1>3, <1>5, <1>6 DEF IsNext
<1>7. ASSUME n + 2 <= Len(argv), IsValue[n + 1]
      PROVE  ~IsValue[n + 2]
  BY <1>4, <1>5, <1>7 DEF IsNext
<1>8. /\ OptionsBefore(n + 1) = OptionsBefore(n) \cup (IF argv[n].kind \in {"long", "short"} THEN {n} ELSE {})
      /\ NamesBefore(n + 1) = NamesBefore(n) \cup (IF argv[n].kind = "word" THEN {n} ELSE {})
  BY <1>2 DEF OptionsBefore, NamesBefore
<1>9. ASSUME IsValue[n + 1]
      PROVE  OptionsBefore(n + 2) = OptionsBefore(n + 1) /\ NamesBefore(n + 2) = NamesBefore(n + 1)
  BY <1>2, <1>9 DEF OptionsBefore, NamesBefore
<1> QED BY <1>6, <1>7, <1>8, <1>9

LEMMA OptionRead ==
  ASSUME IInv, ReadSoFar, ReadOption
  PROVE  ReadSoFar'
<1> DEFINE arg == argv[next]
           taken == TakesNext(argv, next)
<1>1. /\ given' = given \cup Says(next)
      /\ next' = IF taken THEN next + 2 ELSE next + 1
      /\ phase = "arguments" /\ arg.kind \in {"long", "short"}
      /\ next \in 1 .. Len(argv) /\ Len(argv) \in Nat /\ argv \in Seq(Arguments)
      /\ phase' \in {"arguments", "failed"}
      /\ UNCHANGED <<argv, files>>
  BY DEF ReadOption, At, Says, After, IInv, ArgumentsRead
<1> SUFFICES ASSUME phase' # "failed", \A i \in DOMAIN argv : argv[i].kind # "dashes"
             PROVE  /\ next' <= Len(argv) + 1
                    /\ next' <= Len(argv) => ~IsValue[next']
                    /\ given' = UNION {Says(i) : i \in OptionsBefore(next')}
                    /\ ToSet(files) = {argv[i] : i \in NamesBefore(next')}
                    /\ Len(files) = Cardinality(NamesBefore(next'))
  BY <1>1, SameParts DEF ReadSoFar
<1>2. /\ ~IsValue[next]
      /\ given = UNION {Says(i) : i \in OptionsBefore(next)}
      /\ ToSet(files) = {argv[i] : i \in NamesBefore(next)}
      /\ Len(files) = Cardinality(NamesBefore(next))
  BY <1>1 DEF ReadSoFar
<1>3. /\ OptionsBefore(next + 1) = OptionsBefore(next) \cup {next}
      /\ NamesBefore(next + 1) = NamesBefore(next)
      /\ next < Len(argv) => (IsValue[next + 1] <=> WantsValue(arg))
      /\ next < Len(argv) /\ IsValue[next + 1] =>
           /\ OptionsBefore(next + 2) = OptionsBefore(next + 1)
           /\ NamesBefore(next + 2) = NamesBefore(next + 1)
           /\ next + 2 <= Len(argv) => ~IsValue[next + 2]
  BY <1>1, <1>2, OneMore
<1>4. UNION {Says(i) : i \in OptionsBefore(next) \cup {next}} = given \cup Says(next)
  BY <1>2
<1>5. CASE taken
  <2>1. next < Len(argv) /\ IsValue[next + 1]
    BY <1>1, <1>3, <1>5 DEF TakesNext
  <2> QED BY <1>1, <1>2, <1>3, <1>4, <1>5, <2>1
<1>6. CASE ~taken
  <2>1. next + 1 <= Len(argv) => ~IsValue[next + 1]
    BY <1>1, <1>3, <1>6 DEF TakesNext
  <2> QED BY <1>1, <1>2, <1>3, <1>4, <1>6, <2>1
<1> QED BY <1>5, <1>6

LEMMA WordRead ==
  ASSUME IInv, ReadSoFar, ReadWord
  PROVE  ReadSoFar'
<1>1. /\ files' = Append(files, argv[next]) /\ next' = next + 1
      /\ phase = "arguments" /\ argv[next].kind = "word"
      /\ next \in 1 .. Len(argv) /\ Len(argv) \in Nat /\ argv \in Seq(Arguments) /\ files \in Seq(Arguments)
      /\ UNCHANGED <<argv, given, phase>>
  BY DEF ReadWord, At, IInv, ArgumentsRead
<1> SUFFICES ASSUME \A i \in DOMAIN argv : argv[i].kind # "dashes"
             PROVE  /\ next' <= Len(argv) + 1
                    /\ next' <= Len(argv) => ~IsValue[next']
                    /\ given = UNION {Says(i) : i \in OptionsBefore(next')}
                    /\ ToSet(files') = {argv[i] : i \in NamesBefore(next')}
                    /\ Len(files') = Cardinality(NamesBefore(next'))
  BY <1>1, SameParts DEF ReadSoFar
<1>2. /\ ~IsValue[next]
      /\ given = UNION {Says(i) : i \in OptionsBefore(next)}
      /\ ToSet(files) = {argv[i] : i \in NamesBefore(next)}
      /\ Len(files) = Cardinality(NamesBefore(next))
  BY <1>1 DEF ReadSoFar
<1>3. /\ OptionsBefore(next + 1) = OptionsBefore(next)
      /\ NamesBefore(next + 1) = NamesBefore(next) \cup {next}
      /\ next < Len(argv) => ~IsValue[next + 1]
  BY <1>1, <1>2, OneMore
<1>4. ToSet(files') = ToSet(files) \cup {argv[next]}
  <2>1. argv[next] \in Arguments
    BY <1>1
  <2>2. Len(files') = Len(files) + 1 /\ files'[Len(files) + 1] = argv[next] /\ \A i \in 1 .. Len(files) : files'[i] = files[i]
    BY <1>1, <2>1
  <2>3. DOMAIN files' = (DOMAIN files) \cup {Len(files) + 1} /\ DOMAIN files = 1 .. Len(files)
    BY <1>1, <2>1
  <2> QED BY <2>2, <2>3 DEF ToSet
<1>5. {argv[i] : i \in NamesBefore(next) \cup {next}} = ToSet(files')
  BY <1>2, <1>4
<1>6. Cardinality(NamesBefore(next) \cup {next}) = Len(files) + 1
  <2>1. NamesBefore(next) \subseteq 1 .. next - 1 /\ next - 1 \in Nat
    BY <1>1 DEF NamesBefore
  <2>2. IsFiniteSet(1 .. next - 1)
    BY <2>1, FS_Interval
  <2>3. IsFiniteSet(NamesBefore(next))
    BY <2>1, <2>2, FS_Subset
  <2>4. next \notin 1 .. next - 1
    BY <1>1
  <2> QED BY <1>2, <2>1, <2>3, <2>4, FS_AddElement
<1>7. Len(files') = Len(files) + 1
  BY <1>1
<1>8. next' <= Len(argv) + 1 /\ (next' <= Len(argv) => ~IsValue[next'])
  BY <1>1, <1>3
<1>9. OptionsBefore(next') = OptionsBefore(next) /\ NamesBefore(next') = NamesBefore(next) \cup {next}
  BY <1>1, <1>3
<1> QED BY <1>2, <1>5, <1>6, <1>7, <1>8, <1>9

LEMMA ReadingKeepsReadSoFar ==
  ASSUME IInv, ReadSoFar, ParseCommandLine
  PROVE  ReadSoFar'
<1>1. CASE ReadOption
  BY <1>1, OptionRead
<1>2. CASE ReadWord
  BY <1>2, WordRead
<1>3. CASE ReadDashes
  <2>1. /\ argv' = argv /\ phase' = phase /\ phase = "arguments"
        /\ next \in DOMAIN argv /\ argv[next].kind = "dashes"
    BY <1>3 DEF ReadDashes, At, IInv, ArgumentsRead
  <2> QED BY <2>1 DEF ReadSoFar
<1>4. CASE CheckOptions
  <2>1. UNCHANGED <<argv, next, given, files>> /\ phase = "arguments" /\ next > Len(argv)
    BY <1>4 DEF CheckOptions
  <2> QED BY <2>1, SameParts DEF ReadSoFar
<1> QED BY <1>1, <1>2, <1>3, <1>4 DEF ParseCommandLine

(* Once the command line is read it stays as it is.                        *)
LEMMA Beyond ==
  ASSUME [Next]_vars, ~ReadCommandLine
  PROVE  /\ UNCHANGED <<argv, next, given, values, files, command>>
         /\ phase' = phase \/ (phase = "running" /\ phase' \in {"failed", "done"})
<1>1. CASE UNCHANGED vars
  BY <1>1 DEF vars, cmdlineVars
<1>2. CASE FileRefused
  BY <1>2 DEF FileRefused, AtFile, argumentVars
<1>3. CASE PrintDescriptor
  BY <1>3 DEF PrintDescriptor, cmdlineVars
<1>4. CASE GenerateFile
  BY <1>4 DEF GenerateFile, cmdlineVars
<1>5. CASE NextMessage
  BY <1>5 DEF NextMessage, argumentVars
<1>6. CASE AllFilesDone
  BY <1>6 DEF AllFilesDone, argumentVars
<1>7. CASE Benchmark
  BY <1>7 DEF Benchmark, cmdlineVars
<1>8. CASE BenchmarkEnds
  BY <1>8 DEF BenchmarkEnds, argumentVars
<1>9. CASE TimePasses
  BY <1>9 DEF TimePasses, cmdlineVars
<1> QED BY <1>1, <1>2, <1>3, <1>4, <1>5, <1>6, <1>7, <1>8, <1>9 DEF Next, Program

(* Every argument before the next one has played its part: an option, the  *)
(* value of the option before it, or a file (popl::OptionParser::parse).   *)
THEOREM ArgumentsPlayOnePart == Spec => []EachArgumentReadOnce
<1>1. Init => ReadSoFar
  <2> SUFFICES ASSUME Init PROVE ReadSoFar
    OBVIOUS
  <2>1. /\ argv \in Seq(Arguments) /\ next = 1 /\ files = <<>> /\ given = {} /\ phase = "arguments"
    BY LinesAssumption DEF Init, CommandLineInit
  <2>2. Len(argv) \in Nat /\ 1 .. next - 1 = {}
    BY <2>1
  <2>3. OptionsBefore(next) = {} /\ NamesBefore(next) = {}
    BY <2>2 DEF OptionsBefore, NamesBefore
  <2>4. next <= Len(argv) => ~IsValue[next]
    <3>1. next <= Len(argv) => IsValue[1] = IsNext(IsValue, 1)
      BY <2>1, <2>2, ValuesExist
    <3>2. ~IsNext(IsValue, 1)
      BY DEF IsNext
    <3>3. next = 1
      BY <2>1
    <3> QED BY <3>1, <3>2, <3>3
  <2>5. ToSet(files) = {} /\ Len(files) = 0 /\ Cardinality({}) = 0
    BY <2>1, FS_EmptySet DEF ToSet
  <2>6. UNION {Says(i) : i \in {}} = {} /\ {argv[i] : i \in {}} = {}
    OBVIOUS
  <2>7. next <= Len(argv) + 1
    BY <2>1, <2>2
  <2> QED BY <2>1, <2>3, <2>4, <2>5, <2>6, <2>7 DEF ReadSoFar
<1>2. IInv /\ ReadSoFar /\ [Next]_vars => ReadSoFar'
  <2> SUFFICES ASSUME IInv, ReadSoFar, [Next]_vars PROVE ReadSoFar'
    OBVIOUS
  <2>1. CASE ReadCommandLine
    BY <2>1, ReadingKeepsReadSoFar DEF ReadCommandLine
  <2>2. CASE ~ReadCommandLine
    BY <2>2, Beyond, SameParts DEF ReadSoFar
  <2> QED BY <2>1, <2>2
<1>3. IInv /\ ReadSoFar => EachArgumentReadOnce
  BY ReadSoFarIsAll
<1> QED BY <1>1, <1>2, <1>3, Invariance, PTL DEF Spec

-----------------------------------------------------------------------------
(* The types.                                                              *)

TypeInv ==
    /\ TypeOK
    /\ stage = "idle" => source = 1
    /\ phase = "arguments" => file = 1

LEMMA ValuedOnly ==
  ASSUME NEW arg \in Arguments, arg.kind \in {"long", "short"}
  PROVE  Reading(arg).valued \subseteq ValueOptions
<1>1. CASE arg.kind = "long"
  BY <1>1 DEF Reading, LongOption
<1>2. CASE arg.kind # "long"
  <2> DEFINE named == [i \in DOMAIN arg.letters |->
                        IF arg.letters[i] \in DOMAIN ShortNames THEN ShortNames[arg.letters[i]] ELSE ""]
             I == {i \in 1 .. Len(named) : named[i] \in ValueOptions}
             last == IF I = {} THEN 0 ELSE Min(I)
  <2>1. arg.letters \in Seq(ToSet(arg.letters))
    BY <1>2, LinesAssumption
  <2>2. DOMAIN named = 1 .. Len(arg.letters) /\ Len(arg.letters) \in Nat
    BY <2>1
  <2>3. Len(named) \in Nat
    <3> HIDE DEF named
    <3> QED BY <2>2
  <2>4. Reading(arg).valued = IF last = 0 THEN {} ELSE {named[last]}
    BY <1>2 DEF Reading, ShortCluster, SelectInSeq
  <2>5. I # {} => named[Min(I)] \in ValueOptions
    <3>1. I \subseteq Nat
      <4> HIDE DEF named
      <4> QED BY <2>3
    <3>2. I # {} => Min(I) \in I
      <4> HIDE DEF I
      <4> QED BY <3>1, LeastOf
    <3> QED BY <3>2
  <2> HIDE DEF named, I
  <2> QED BY <2>4, <2>5
<1> QED BY <1>1, <1>2

LEMMA ReadingTypes ==
  ASSUME IInv, TypeInv, ReadCommandLine
  PROVE  TypeInv'
<1>1. /\ ParseCommandLine /\ argv \in Seq(Arguments) /\ Len(argv) \in Nat /\ next \in Nat \ {0}
      /\ UNCHANGED <<current_file_is_proto3, clock, stage, source, started, rounds, file>>
  BY DEF ReadCommandLine, generatorVars, benchmarkVars, IInv, ArgumentsRead
<1>2. phase = "arguments" /\ stage = "idle" /\ source = 1 /\ file = 1
  BY <1>1 DEF ParseCommandLine, ReadOption, ReadWord, ReadDashes, CheckOptions, At, IInv, CommandSound, TypeInv
<1>3. files' \in Seq(Arguments)
  <2>1. ArgumentsRead'
    BY CommandLineStep DEF IInv
  <2> QED BY <2>1 DEF ArgumentsRead
<1>4. file' \in 1 .. Len(files') + 1
  BY <1>1, <1>2, <1>3
<1>5. /\ next' \in 1 .. Len(argv') + 1
      /\ given' \subseteq Switches \cup ValueOptions
      /\ DOMAIN values' = ValueOptions
      /\ phase' \in {"arguments", "help", "running", "failed", "done"}
      /\ command'.action \in {"none", "generate", "print", "benchmark"}
  <2>1. CASE ReadOption
    <3>1. /\ argv' = argv /\ command' = command /\ DOMAIN values' = ValueOptions
          /\ next \in 1 .. Len(argv) /\ argv[next].kind \in {"long", "short"}
          /\ given' = given \cup Reading(argv[next]).switches \cup Reading(argv[next]).valued
          /\ next' = After(argv, next)
          /\ phase' \in {"arguments", "failed"}
      BY <1>1, <2>1 DEF ReadOption, At
    <3>2. next' \in 1 .. Len(argv) + 1
      BY <1>1, <3>1 DEF After, TakesNext
    <3>3. argv[next] \in Arguments
      BY <1>1, <3>1
    <3>4. given' \subseteq Switches \cup ValueOptions
      BY <3>1, <3>3, ValuedOnly, SwitchesOnly DEF TypeInv, TypeOK
    <3> QED BY <3>1, <3>2, <3>4 DEF TypeInv, TypeOK
  <2>2. CASE ReadWord
    BY <1>1, <2>2 DEF ReadWord, At, TypeInv, TypeOK
  <2>3. CASE ReadDashes
    BY <1>1, <2>3 DEF ReadDashes, At, TypeInv, TypeOK
  <2>4. CASE CheckOptions
    <3>1. UNCHANGED <<argv, next, given, values>> /\ phase' \in {"help", "failed", "running"}
      BY <2>4 DEF CheckOptions
    <3>2. command' = command \/ command'.action = Action(given)
      BY <2>4 DEF CheckOptions
    <3>3. Action(given) \in {"generate", "print", "benchmark"}
      BY DEF Action
    <3> QED BY <3>1, <3>2, <3>3 DEF TypeInv, TypeOK
  <2> QED BY <1>1, <2>1, <2>2, <2>3, <2>4 DEF ParseCommandLine
<1>6. phase' = "arguments" => file' = 1
  BY <1>1, <1>2
<1> QED BY <1>1, <1>2, <1>4, <1>5, <1>6 DEF TypeInv, TypeOK

LEMMA NextTypes ==
  ASSUME IInv, TypeInv, [Next]_vars
  PROVE  TypeInv'
<1> DEFINE n == Len(files)
<1>1. CASE ReadCommandLine
  BY <1>1, ReadingTypes
<1>2. CASE ~ReadCommandLine
  <2>1. /\ UNCHANGED <<argv, next, given, values, files, command>>
        /\ phase' = phase \/ (phase = "running" /\ phase' \in {"failed", "done"})
    BY <1>2, Beyond
  <2>2. /\ n \in Nat /\ source \in Nat /\ clock \in Nat /\ started \in Nat /\ rounds \in Nat
        /\ started <= clock /\ rounds <= MAX_ROUNDS /\ MAX_ROUNDS \in Nat /\ file \in 1 .. n + 1
    BY RoundsAssumption DEF IInv, ArgumentsRead, ParsedSoFar, Measured, TypeInv, TypeOK
  <2>3. file' \in 1 .. n + 1 /\ (phase' = "arguments" => file' = 1) /\ current_file_is_proto3' \in BOOLEAN
    <3>1. CASE PrintDescriptor
      BY <2>2, <3>1 DEF PrintDescriptor, AtFile, cmdlineVars, globals, TypeInv, TypeOK
    <3>2. CASE GenerateFile
      BY <2>2, <3>2 DEF GenerateFile, BeginFile, Syntax, AtFile, cmdlineVars
    <3>3. CASE NextMessage
      BY <3>3 DEF NextMessage, GenerateMessage, TypeInv, TypeOK
    <3>4. CASE UNCHANGED <<current_file_is_proto3, file>>
      BY <2>1, <3>4 DEF TypeInv, TypeOK
    <3> QED BY <1>2, <3>1, <3>2, <3>3, <3>4
            DEF Next, Program, vars, FileRefused, AllFilesDone, Benchmark, BenchmarkEnds, TimePasses, generatorVars
  <2>4. /\ stage' \in {"idle", "read", "warm-up", "measure", "report", "failed"}
        /\ stage' # "idle" => source' \in 1 .. n
        /\ stage' = "idle" => source' = 1
        /\ clock' \in Nat /\ started' \in 0 .. clock' /\ rounds' \in 0 .. MAX_ROUNDS
    <3>1. CASE Benchmark
      <4>1. n # 0
        BY <2>2, <3>1 DEF Benchmark, IInv, ArgumentsRead, CommandSound
      <4>2. stage # "idle" => Following(n) \in 1 .. n
        BY <2>2, <4>1 DEF Following, TypeInv, TypeOK
      <4>3. CASE StartBenchmark
        BY <2>2, <4>1, <4>3 DEF StartBenchmark, TypeInv, TypeOK
      <4>4. CASE ReadSource(n, ReadableAt(source))
        BY <2>2, <4>2, <4>4 DEF ReadSource, Over
      <4>5. CASE WarmUp(n, ParsesAt(source))
        BY <2>2, <4>2, <4>5 DEF WarmUp, Over
      <4>6. CASE MeasuredParse(n, ParsesAt(source), command.milliseconds)
        BY <2>2, <4>2, <4>6 DEF MeasuredParse, Over
      <4> QED BY <3>1, <4>3, <4>4, <4>5, <4>6 DEF Benchmark
    <3>2. CASE TimePasses
      BY <2>2, <3>2 DEF TimePasses, Tick, TypeInv, TypeOK
    <3>3. CASE UNCHANGED benchmarkVars
      BY <2>2, <3>3 DEF benchmarkVars, TypeInv, TypeOK
    <3> QED BY <1>2, <3>1, <3>2, <3>3
            DEF Next, Program, vars, FileRefused, PrintDescriptor, GenerateFile, NextMessage, AllFilesDone, BenchmarkEnds
  <2> QED BY <2>1, <2>3, <2>4 DEF TypeInv, TypeOK
<1> QED BY <1>1, <1>2

LEMMA TypeInvariance == Spec => []TypeInv
<1>1. Init => TypeInv
  <2> SUFFICES ASSUME Init PROVE TypeInv
    OBVIOUS
  <2>1. /\ argv \in Seq(Arguments) /\ next = 1 /\ files = <<>> /\ given = {} /\ phase = "arguments"
        /\ DOMAIN values = ValueOptions /\ command.action = "none"
    BY LinesAssumption DEF Init, CommandLineInit
  <2>2. /\ current_file_is_proto3 = FALSE /\ file = 1
        /\ clock = 0 /\ stage = "idle" /\ source = 1 /\ started = 0 /\ rounds = 0
    BY DEF Init, GeneratorInit, BenchmarkInit
  <2>3. Len(argv) \in Nat /\ Len(files) = 0
    BY <2>1
  <2>4. next \in 1 .. Len(argv) + 1 /\ file \in 1 .. Len(files) + 1
    BY <2>1, <2>2, <2>3
  <2>5. clock \in Nat /\ started \in 0 .. clock /\ rounds \in 0 .. MAX_ROUNDS
    BY <2>2, RoundsAssumption
  <2> QED BY <2>1, <2>2, <2>4, <2>5 DEF TypeInv, TypeOK
<1>2. IInv /\ TypeInv /\ [Next]_vars => TypeInv'
  BY NextTypes
<1> QED BY <1>1, <1>2, Invariance, PTL DEF Spec

(* The variables of the program have their types, and the indexes of the   *)
(* argument, the file and the source to be read next stay within their     *)
(* lists (popl::OptionParser::parse, main, run_parser_benchmark).          *)
THEOREM TypeCorrect == Spec => []TypeOK
<1>1. TypeInv => TypeOK
  BY DEF TypeInv
<1> QED BY <1>1, TypeInvariance, PTL

-----------------------------------------------------------------------------
(* The code of a file is that of its messages, one after the other.        *)

Code(d, c, j) == MessageCode(d.messages[j], c, d.syntax = "proto3", d.package, <<d.messages[j].name>>)

(* What is written to stdout is made of these.                             *)
CodesOf(d, c) == {Code(d, c, j) : j \in DOMAIN d.messages}
Texts(c) ==
    {Header(name) : name \in Arguments}
    \cup {[kind |-> "title", file |-> name] : name \in Arguments}
    \cup {[kind |-> "tree", file |-> name] : name \in Arguments}
    \cup UNION { UNION {ToSet(code) : code \in CodesOf(Descriptor(name, c), c)} :
                 name \in {x \in Arguments : Descriptor(x, c) # Fault} }

(* Of a file and its first j messages.                                     *)
Codes(name, d, c) == << <<Header(name)>> >> \o [j \in DOMAIN d.messages |-> Code(d, c, j)]
PartOf(name, d, c, j) == FlattenSeq(SubSeq(Codes(name, d, c), 1, j + 1))

LEMMA CodeIsList ==
  ASSUME NEW d, NEW c, NEW j
  PROVE  Code(d, c, j) \in Seq(ToSet(Code(d, c, j)))
<1> SUFFICES \E B : Code(d, c, j) \in Seq(B)
  BY OwnElements
<1> DEFINE m == d.messages[j]
           maps == [i \in DOMAIN m.fields |-> FindMapType(m.fields[i], m, d.package, <<m.name>>)]
           fields == [i \in DOMAIN maps |-> FieldCode(m.fields[i], maps[i], c, d.syntax = "proto3", d.package, <<m.name>>)]
           P(kind) == [kind |-> kind, message |-> m.name, fields |-> fields]
           B == {P("class"), P("encoder"), P("decoder")}
<1>1. Code(d, c, j) = IF Faulty(m, maps, c) THEN <<Fault>> ELSE Pieces(m.name, fields, c)
  BY DEF Code, MessageCode, CodeWithMaps
<1>2. \A kind \in {"class", "encoder", "decoder"} : Piece(kind, m.name, fields, c) \in Seq(B)
  <2>1. \A kind \in {"class", "encoder", "decoder"} : P(kind) \in B
    OBVIOUS
  <2>2. \A kind : Piece(kind, m.name, fields, c) \in {<<>>, <<P(kind)>>}
    BY DEF Piece
  <2> HIDE DEF P, B, fields
  <2>3. <<>> \in Seq(B) /\ \A p \in B : <<p>> \in Seq(B)
    OBVIOUS
  <2> QED BY <2>1, <2>2, <2>3
<1> HIDE DEF B, fields
<1>3. Pieces(m.name, fields, c) \in Seq(B)
  BY <1>2 DEF Pieces
<1>4. <<Fault>> \in Seq({Fault})
  OBVIOUS
<1> QED BY <1>1, <1>3, <1>4

(* The descriptor of a file that is not refused lists its messages.        *)
LEMMA MessagesListed ==
  ASSUME NEW name \in Arguments, NEW c, c.format \in {"set", "source"}, NEW d, d = Descriptor(name, c), d # Fault
  PROVE  d.messages \in Seq(ToSet(d.messages)) /\ Len(d.messages) \in Nat /\ DOMAIN d.messages = 1 .. Len(d.messages)
<1>1. d = Descriptor(name, [format |-> c.format])
  BY DEF Descriptor
<1>2. d.messages \in Seq(ToSet(d.messages))
  BY <1>1, ContentsAssumption
<1> QED BY <1>2

LEMMA CodesAre ==
  ASSUME NEW name \in Arguments, NEW c, c.format \in {"set", "source"}, NEW d, d = Descriptor(name, c), d # Fault
  PROVE  /\ Codes(name, d, c) \in Seq(Seq(Texts(c)))
         /\ Len(Codes(name, d, c)) = Len(d.messages) + 1
         /\ Codes(name, d, c)[1] = <<Header(name)>>
         /\ \A j \in 1 .. Len(d.messages) : Codes(name, d, c)[j + 1] = Code(d, c, j)
         /\ \A j \in 1 .. Len(d.messages) : Code(d, c, j) \in Seq(Texts(c))
<1> DEFINE n == Len(d.messages)
           A == Texts(c)
           body == [j \in 1 .. n |-> Code(d, c, j)]
<1>1. n \in Nat /\ DOMAIN d.messages = 1 .. n
  BY MessagesListed
<1>2. ASSUME NEW j \in 1 .. n
      PROVE  Code(d, c, j) \in Seq(A)
  <2>1. Code(d, c, j) \in CodesOf(d, c)
    BY <1>1 DEF CodesOf
  <2>2. ToSet(Code(d, c, j)) \subseteq UNION {ToSet(code) : code \in CodesOf(d, c)}
    BY <2>1
  <2>3. UNION {ToSet(code) : code \in CodesOf(d, c)} \subseteq A
    BY DEF Texts
  <2> QED BY <2>2, <2>3, CodeIsList, SeqMonotonic
<1>3. Header(name) \in A
  BY DEF Texts
<1>4. <<Header(name)>> \in Seq(A)
  <2> HIDE DEF A
  <2> QED BY <1>3
<1> DEFINE S == Seq(A)
<1> HIDE DEF n, S
<1>5. body \in Seq(S) /\ Len(body) = n /\ \A j \in 1 .. n : body[j] = Code(d, c, j)
  BY <1>1, <1>2 DEF S
<1>6. Codes(name, d, c) = << <<Header(name)>> >> \o body
  BY <1>1 DEF Codes
<1> HIDE DEF body, A
<1>7. << <<Header(name)>> >> \in Seq(S)
  BY <1>4 DEF S
<1>8. << <<Header(name)>> >> \o body \in Seq(S)
  BY <1>5, <1>7
<1>9. Len(Codes(name, d, c)) = n + 1 /\ Codes(name, d, c)[1] = <<Header(name)>>
  BY <1>1, <1>5, <1>6, <1>7
<1>10. \A j \in 1 .. n : Codes(name, d, c)[j + 1] = body[j]
  BY <1>1, <1>5, <1>6, <1>7
<1> QED BY <1>2, <1>5, <1>6, <1>8, <1>9, <1>10 DEF A, S, n

PartsJoin(name, d, c) ==
    \A j \in 1 .. Len(d.messages) : PartOf(name, d, c, j) = PartOf(name, d, c, j - 1) \o Code(d, c, j)

LEMMA PartIs ==
  ASSUME NEW name \in Arguments, NEW c, c.format \in {"set", "source"}, NEW d, d = Descriptor(name, c), d # Fault
  PROVE  /\ PartOf(name, d, c, 0) = <<Header(name)>>
         /\ \A j \in 0 .. Len(d.messages) : PartOf(name, d, c, j) \in Seq(Texts(c))
         /\ PartsJoin(name, d, c)
<1> DEFINE n == Len(d.messages)
           A == Texts(c)
           s == Codes(name, d, c)
           S == Seq(A)
<1>1. n \in Nat
  BY MessagesListed
<1>2. /\ s \in Seq(S) /\ Len(s) = n + 1 /\ s[1] = <<Header(name)>> /\ s[1] \in S
      /\ \A j \in 1 .. n : s[j + 1] = Code(d, c, j) /\ Code(d, c, j) \in S
  <2>1. /\ s \in Seq(S) /\ Len(s) = n + 1 /\ s[1] = <<Header(name)>>
        /\ \A j \in 1 .. n : s[j + 1] = Code(d, c, j) /\ Code(d, c, j) \in S
    BY CodesAre
  <2> HIDE DEF S, s, n
  <2>2. 1 \in 1 .. n + 1
    BY <1>1
  <2> QED BY <2>1, <2>2
<1> HIDE DEF n, A, s
<1>3. ASSUME NEW j \in 0 .. n
      PROVE  SubSeq(s, 1, j + 1) \in Seq(S) /\ PartOf(name, d, c, j) = FlattenSeq(SubSeq(s, 1, j + 1))
  <2> HIDE DEF S
  <2>1. j + 1 \in Int /\ \A i \in 1 .. j + 1 : s[i] \in S
    BY <1>1, <1>2
  <2>2. SubSeq(s, 1, j + 1) \in Seq(S)
    BY <2>1, SubSeqProperties
  <2> QED BY <2>2 DEF PartOf, s
<1>4. ASSUME NEW j \in 1 .. n
      PROVE  PartOf(name, d, c, j) = PartOf(name, d, c, j - 1) \o Code(d, c, j)
  <2>1. SubSeq(s, 1, j + 1) = Append(SubSeq(s, 1, (j - 1) + 1), s[j + 1])
    <3> HIDE DEF S
    <3> QED BY <1>1, <1>2
  <2>2. j - 1 \in 0 .. n /\ j \in 0 .. n /\ s[j + 1] = Code(d, c, j) /\ Code(d, c, j) \in S
    BY <1>1, <1>2
  <2>3. SubSeq(s, 1, (j - 1) + 1) \in Seq(S)
    BY <1>3, <2>2
  <2> DEFINE r == SubSeq(s, 1, (j - 1) + 1)
  <2>4. PartOf(name, d, c, j) = FlattenSeq(Append(r, Code(d, c, j))) /\ PartOf(name, d, c, j - 1) = FlattenSeq(r)
    BY <1>3, <2>1, <2>2
  <2> HIDE DEF r
  <2>5. FlattenSeq(Append(r, Code(d, c, j))) = FlattenSeq(r) \o Code(d, c, j)
    BY <2>2, <2>3, FlattenAppend DEF r
  <2> QED BY <2>4, <2>5
<1>5. PartOf(name, d, c, 0) = <<Header(name)>>
  <2>1. s \in Seq(S) /\ Len(s) >= 1 /\ 0 \in 0 .. n /\ 0 + 1 = 1
    BY <1>1, <1>2
  <2>2. SubSeq(s, 1, 1) = <<s[1]>>
    <3> HIDE DEF S
    <3> QED BY <2>1, FirstAlone
  <2>3. PartOf(name, d, c, 0) = FlattenSeq(<<s[1]>>)
    BY <1>3, <2>1, <2>2
  <2>4. FlattenSeq(<<s[1]>>) = s[1]
    BY <1>2, FlattenOne
  <2> QED BY <1>2, <2>3, <2>4
<1>6. \A j \in 0 .. n : PartOf(name, d, c, j) \in Seq(A)
  BY <1>3, FlattenType
<1> QED BY <1>4, <1>5, <1>6 DEF n, A, PartsJoin

-----------------------------------------------------------------------------
(* What is owed for each file, and for the first k.                        *)

Trees(fs, name) ==
    (IF Len(fs) > 1 THEN <<[kind |-> "title", file |-> name]>> ELSE <<>>)
    \o <<[kind |-> "tree", file |-> name]>>

Out(fs, c, i) ==
    IF Refused(fs[i], c) THEN [whole |-> FALSE, output |-> <<>>]
    ELSE IF c.action = "print" THEN [whole |-> TRUE, output |-> Trees(fs, fs[i])]
    ELSE CodeOfFile(fs[i], Descriptor(fs[i], c), c)

Outputs(fs, c, k) == [i \in 1 .. k |-> Out(fs, c, i).output]
Written(fs, c, k) == FlattenSeq(Outputs(fs, c, k))

(* A command over files.                                                   *)
OverFiles(fs, c) ==
    /\ fs \in Seq(Arguments)
    /\ c.action \in {"generate", "print"} /\ c.format \in {"set", "source"}

LEMMA TreesAre ==
  ASSUME NEW fs, NEW name \in Arguments, NEW c
  PROVE  Trees(fs, name) \in Seq(Texts(c))
<1> DEFINE title == [kind |-> "title", file |-> name]
           tree == [kind |-> "tree", file |-> name]
           A == Texts(c)
<1>1. title \in A /\ tree \in A
  BY DEF Texts
<1>2. Trees(fs, name) = (IF Len(fs) > 1 THEN <<title>> ELSE <<>>) \o <<tree>>
  BY DEF Trees
<1> HIDE DEF title, tree, A
<1>3. <<title>> \in Seq(A) /\ <<tree>> \in Seq(A) /\ <<>> \in Seq(A)
  BY <1>1
<1>4. <<title>> \o <<tree>> \in Seq(A) /\ <<>> \o <<tree>> \in Seq(A)
  BY <1>3
<1> QED BY <1>2, <1>4 DEF A

(* A file whose code faults at the j-th message is cut before it.          *)
CutAtFault(code, name, d, c) ==
    /\ (\A j \in 1 .. Len(d.messages) : Code(d, c, j) # <<Fault>>) =>
         code.whole = TRUE /\ code.output = PartOf(name, d, c, Len(d.messages))
    /\ \A j \in 1 .. Len(d.messages) :
         Code(d, c, j) = <<Fault>> /\ (\A i \in 1 .. j - 1 : Code(d, c, i) # <<Fault>>) =>
            code.whole = FALSE /\ code.output = PartOf(name, d, c, j - 1)

LEMMA CodeOfFileIs ==
  ASSUME NEW name \in Arguments, NEW c, c.format \in {"set", "source"}, NEW d, d = Descriptor(name, c), d # Fault
  PROVE  CutAtFault(CodeOfFile(name, d, c), name, d, c)
<1> DEFINE n == Len(d.messages)
           s == Codes(name, d, c)
           I == {i \in 1 .. Len(s) : s[i] = <<Fault>>}
           faulty == IF I # {} THEN Min(I) ELSE 0
<1>1. /\ CodeOfFile(name, d, c).whole = (faulty = 0)
      /\ CodeOfFile(name, d, c).output = FlattenSeq(IF faulty = 0 THEN s ELSE SubSeq(s, 1, faulty - 1))
  BY DEF CodeOfFile, UpToFault, SelectInSeq, Codes, Code
<1> DEFINE S == Seq(Texts(c))
<1>2. /\ n \in Nat /\ s \in Seq(S) /\ Len(s) = n + 1 /\ s[1] = <<Header(name)>>
      /\ \A j \in 1 .. n : s[j + 1] = Code(d, c, j)
  BY CodesAre, MessagesListed
<1>3. <<Header(name)>> # <<Fault>>
  <2>1. Header(name).kind = "header" /\ Fault.kind = "fault"
    BY DEF Header, Fault
  <2>2. <<Header(name)>>[1] = Header(name) /\ <<Fault>>[1] = Fault
    OBVIOUS
  <2> QED BY <2>1, <2>2
<1> HIDE DEF s, n, S
<1>4. \A i \in I : i \in 2 .. n + 1 /\ Code(d, c, i - 1) = <<Fault>>
  <2> SUFFICES ASSUME NEW i \in I PROVE i \in 2 .. n + 1 /\ Code(d, c, i - 1) = <<Fault>>
    OBVIOUS
  <2>1. i \in 1 .. n + 1 /\ s[i] = <<Fault>> /\ i # 1
    BY <1>2, <1>3
  <2>2. i - 1 \in 1 .. n /\ (i - 1) + 1 = i
    BY <1>2, <2>1
  <2>3. s[(i - 1) + 1] = Code(d, c, i - 1)
    BY <1>2, <2>2
  <2>4. i \in 2 .. n + 1
    BY <1>2, <2>1
  <2>5. s[(i - 1) + 1] = s[i]
    BY <2>2
  <2> QED BY <2>1, <2>3, <2>4, <2>5
<1>5. ASSUME \A j \in 1 .. n : Code(d, c, j) # <<Fault>>
      PROVE  I = {}
  <2> SUFFICES ASSUME NEW i \in I PROVE FALSE
    OBVIOUS
  <2>1. i \in 2 .. n + 1 /\ Code(d, c, i - 1) = <<Fault>>
    BY <1>4
  <2>2. i - 1 \in 1 .. n
    BY <1>2, <2>1
  <2> QED BY <1>5, <2>1, <2>2
<1>6. ASSUME NEW j \in 1 .. n, Code(d, c, j) = <<Fault>>, \A i \in 1 .. j - 1 : Code(d, c, i) # <<Fault>>
      PROVE  I # {} /\ Min(I) = j + 1
  <2>1. j + 1 \in I /\ I \subseteq 1 .. n + 1 /\ n + 1 \in Nat
    BY <1>2, <1>6
  <2>2. ASSUME NEW i \in 1 .. (j + 1) - 1
        PROVE  i \notin I
    <3> SUFFICES ASSUME i \in I PROVE FALSE
      OBVIOUS
    <3>1. Code(d, c, i - 1) = <<Fault>> /\ i \in 2 .. n + 1
      BY <1>4
    <3>2. i - 1 \in 1 .. j - 1
      BY <1>2, <2>2, <3>1
    <3> QED BY <1>6, <3>1, <3>2
  <2> HIDE DEF I
  <2> QED BY <2>1, <2>2, LeastIs
<1>7. SubSeq(s, 1, n + 1) = s
  BY <1>2
<1> HIDE DEF I
<1>8. ASSUME \A j \in 1 .. n : Code(d, c, j) # <<Fault>>
      PROVE  /\ CodeOfFile(name, d, c).whole = TRUE
             /\ CodeOfFile(name, d, c).output = PartOf(name, d, c, n)
  BY <1>1, <1>5, <1>7, <1>8 DEF PartOf, s
<1>9. ASSUME NEW j \in 1 .. n, Code(d, c, j) = <<Fault>>, \A i \in 1 .. j - 1 : Code(d, c, i) # <<Fault>>
      PROVE  /\ CodeOfFile(name, d, c).whole = FALSE
             /\ CodeOfFile(name, d, c).output = PartOf(name, d, c, j - 1)
  <2>1. faulty = j + 1
    BY <1>6, <1>9
  <2>2. j + 1 # 0 /\ (j + 1) - 1 = (j - 1) + 1
    BY <1>2
  <2> HIDE DEF faulty
  <2> QED BY <1>1, <2>1, <2>2 DEF PartOf, s
<1> QED BY <1>8, <1>9 DEF CutAtFault, n

LEMMA SomeFault ==
  ASSUME NEW n \in Nat, NEW T, T \subseteq 1 .. n, T # {}
  PROVE  \E k \in T : \A i \in 1 .. k - 1 : i \notin T
<1>1. T \subseteq Nat
  OBVIOUS
<1>2. Min(T) \in T /\ \A k \in T : Min(T) <= k
  BY <1>1, LeastOf
<1>3. Min(T) \in Nat
  BY <1>1, <1>2
<1>4. \A i \in 1 .. Min(T) - 1 : ~(Min(T) <= i)
  BY <1>3
<1> QED BY <1>2, <1>4

LEMMA OutIs ==
  ASSUME NEW fs, NEW c, OverFiles(fs, c), NEW i \in DOMAIN fs
  PROVE  Out(fs, c, i).output \in Seq(Texts(c)) /\ Out(fs, c, i).whole \in BOOLEAN
<1> DEFINE name == fs[i]
           d == Descriptor(name, c)
           n == Len(d.messages)
<1>1. name \in Arguments /\ c.action \in {"generate", "print"} /\ c.format \in {"set", "source"}
  BY DEF OverFiles
<1>2. CASE Refused(name, c)
  BY <1>2 DEF Out
<1>3. CASE ~Refused(name, c) /\ c.action = "print"
  <2> HIDE DEF name
  <2>1. Trees(fs, name) \in Seq(Texts(c))
    BY <1>1, TreesAre
  <2> QED BY <1>3, <2>1 DEF Out, name
<1>4. CASE ~Refused(name, c) /\ c.action # "print"
  <2>1. d # Fault
    BY <1>4 DEF Refused
  <2>2. Out(fs, c, i) = CodeOfFile(name, d, c)
    BY <1>4 DEF Out
  <2> DEFINE T == {j \in 1 .. n : Code(d, c, j) = <<Fault>>}
  <2>3. n \in Nat /\ n = Len(d.messages) /\ d = Descriptor(name, c)
    BY <1>1, <2>1, MessagesListed
  <2> HIDE DEF name, d, n
  <2> DEFINE code == CodeOfFile(name, d, c)
  <2>4. CutAtFault(code, name, d, c)
    BY <1>1, <2>1, <2>3, CodeOfFileIs
  <2> HIDE DEF code
  <2>5. CASE T = {}
    <3>1. \A j \in 1 .. n : Code(d, c, j) # <<Fault>>
      BY <2>5
    <3>2. code.whole = TRUE /\ code.output = PartOf(name, d, c, n)
      BY <2>3, <2>4, <3>1 DEF CutAtFault
    <3>3. n \in 0 .. n
      BY <2>3
    <3>4. PartOf(name, d, c, n) \in Seq(Texts(c))
      BY <1>1, <2>1, <2>3, <3>3, PartIs
    <3> QED BY <2>2, <3>2, <3>4 DEF code
  <2>6. CASE T # {}
    <3>1. PICK j \in T : \A l \in 1 .. j - 1 : l \notin T
      <4>1. T \subseteq 1 .. n
        OBVIOUS
      <4> HIDE DEF T
      <4> QED BY <2>3, <2>6, <4>1, SomeFault
    <3>2. j \in 1 .. n /\ Code(d, c, j) = <<Fault>>
      OBVIOUS
    <3>3. \A l \in 1 .. j - 1 : Code(d, c, l) # <<Fault>>
      <4>1. \A l \in 1 .. j - 1 : l \in 1 .. n
        BY <2>3, <3>2
      <4> QED BY <3>1, <4>1
    <3>4. code.whole = FALSE /\ code.output = PartOf(name, d, c, j - 1)
      BY <2>3, <2>4, <3>2, <3>3 DEF CutAtFault
    <3>5. j - 1 \in 0 .. n
      BY <2>3, <3>2
    <3>6. PartOf(name, d, c, j - 1) \in Seq(Texts(c))
      BY <1>1, <2>1, <2>3, <3>5, PartIs
    <3> QED BY <2>2, <3>4, <3>6 DEF code
  <2> QED BY <2>5, <2>6
<1> QED BY <1>2, <1>3, <1>4

LEMMA WrittenIs ==
  ASSUME NEW fs, NEW c, OverFiles(fs, c)
  PROVE  /\ Len(fs) \in Nat /\ DOMAIN fs = 1 .. Len(fs)
         /\ Written(fs, c, 0) = <<>>
         /\ \A k \in 0 .. Len(fs) : Written(fs, c, k) \in Seq(Texts(c))
         /\ \A k \in 1 .. Len(fs) : Written(fs, c, k) = Written(fs, c, k - 1) \o Out(fs, c, k).output
         /\ \A l \in 0 .. Len(fs) : \A k \in 0 .. l :
              \E u \in Seq(Texts(c)) : Written(fs, c, l) = Written(fs, c, k) \o u
<1> DEFINE n == Len(fs)
           A == Texts(c)
           S == Seq(A)
           o(i) == Out(fs, c, i).output
           s(k) == Outputs(fs, c, k)
<1>1. n \in Nat /\ DOMAIN fs = 1 .. n
  BY DEF OverFiles
<1>2. \A i \in 1 .. n : o(i) \in S
  BY <1>1, OutIs
<1>3. \A k : s(k) = [i \in 1 .. k |-> o(i)] /\ Written(fs, c, k) = FlattenSeq(s(k))
  BY DEF Outputs, Written
<1> HIDE DEF n, S, o, s
<1>4. ASSUME NEW k \in 0 .. n
      PROVE  s(k) \in Seq(S) /\ Len(s(k)) = k /\ \A i \in 1 .. k : s(k)[i] = o(i)
  <2>1. k \in Nat /\ \A i \in 1 .. k : o(i) \in S
    BY <1>1, <1>2
  <2> DEFINE f == [i \in 1 .. k |-> o(i)]
  <2>2. f \in Seq(S) /\ Len(f) = k /\ \A i \in 1 .. k : f[i] = o(i)
    BY <2>1
  <2> HIDE DEF f
  <2>3. s(k) = f
    BY <1>3 DEF f
  <2> QED BY <2>2, <2>3
<1>5. ASSUME NEW k \in 0 .. n
      PROVE  Written(fs, c, k) \in Seq(A)
  <2>1. s(k) \in Seq(Seq(A))
    BY <1>4 DEF S
  <2> QED BY <1>3, <2>1, FlattenType
<1>6. ASSUME NEW k \in 1 .. n
      PROVE  Written(fs, c, k) = Written(fs, c, k - 1) \o o(k)
  <2>1. k \in 0 .. n /\ k - 1 \in 0 .. n /\ o(k) \in S
    BY <1>1, <1>2
  <2> DEFINE t == s(k - 1)
             r == s(k)
  <2>2. /\ t \in Seq(S) /\ Len(t) = k - 1 /\ \A i \in 1 .. k - 1 : t[i] = o(i)
        /\ r \in Seq(S) /\ Len(r) = k /\ \A i \in 1 .. k : r[i] = o(i)
    BY <1>4, <2>1
  <2> DEFINE a == Append(t, o(k))
  <2>3. /\ a \in Seq(S) /\ Len(a) = (k - 1) + 1 /\ a[(k - 1) + 1] = o(k)
        /\ \A i \in 1 .. k - 1 : a[i] = t[i]
    BY <2>1, <2>2, AppendIs
  <2> HIDE DEF t, r, a
  <2>4. (k - 1) + 1 = k /\ \A i \in 1 .. k : i \in 1 .. k - 1 \/ i = k
    BY <1>1
  <2>5. \A i \in 1 .. k : a[i] = o(i)
    BY <2>2, <2>3, <2>4
  <2>6. r = a
    <3>1. Len(r) = Len(a) /\ \A i \in 1 .. Len(r) : r[i] = a[i]
      BY <2>2, <2>3, <2>4, <2>5
    <3> QED BY <2>2, <2>3, <3>1, SeqEqual
  <2>7. FlattenSeq(a) = FlattenSeq(t) \o o(k)
    BY <2>1, <2>2, FlattenAppend DEF a, S
  <2> QED BY <1>3, <2>6, <2>7 DEF r, t
<1>7. Written(fs, c, 0) = <<>>
  <2>1. 0 \in 0 .. n
    BY <1>1
  <2>2. s(0) \in Seq(S) /\ Len(s(0)) = 0
    BY <1>4, <2>1
  <2>3. s(0) = <<>>
    BY <2>2
  <2> QED BY <1>3, <2>3, FlattenEmpty
<1>8. ASSUME NEW l \in 0 .. n, NEW k \in 0 .. l
      PROVE  \E u \in Seq(A) : Written(fs, c, l) = Written(fs, c, k) \o u
  <2> DEFINE r == s(l)
             t == s(k)
  <2>1. k \in 0 .. n /\ k \in 0 .. l /\ l \in Nat /\ k \in Nat /\ k <= l
    BY <1>1
  <2>2. /\ t \in Seq(S) /\ Len(t) = k /\ \A i \in 1 .. k : t[i] = o(i)
        /\ r \in Seq(S) /\ Len(r) = l /\ \A i \in 1 .. l : r[i] = o(i)
    BY <1>4, <2>1
  <2> HIDE DEF r, t
  <2> DEFINE q == SubSeq(r, 1, k)
  <2>3. q \in Seq(S) /\ Len(q) = k /\ \A i \in 1 .. k : q[i] = r[i]
    BY <2>1, <2>2
  <2> HIDE DEF q
  <2>4. \A i \in 1 .. k : q[i] = t[i]
    BY <2>1, <2>2, <2>3
  <2>5. q = t
    BY <2>2, <2>3, <2>4, SeqEqual
  <2>6. r \in Seq(Seq(A)) /\ k \in 0 .. Len(r)
    BY <2>1, <2>2 DEF S
  <2>7. PICK u \in Seq(A) : FlattenSeq(r) = FlattenSeq(q) \o u
    BY <2>6, FlattenExtends DEF q
  <2> QED BY <1>3, <2>5, <2>7 DEF r, t
<1> QED BY <1>1, <1>5, <1>6, <1>7, <1>8 DEF n, o

(* The files before the k-th can all be done.                              *)
DoneBefore(fs, c, k) == \A i \in 1 .. k - 1 : Out(fs, c, i).whole

OwedUpTo(owed, fs, c) ==
    /\ DoneBefore(fs, c, Len(fs) + 1) =>
         owed.whole = TRUE /\ owed.output = Written(fs, c, Len(fs))
    /\ \A k \in 1 .. Len(fs) :
         DoneBefore(fs, c, k) /\ ~Out(fs, c, k).whole =>
            owed.whole = FALSE /\ owed.output = Written(fs, c, k)

LEMMA OwedIs ==
  ASSUME NEW fs, NEW c, OverFiles(fs, c)
  PROVE  OwedUpTo(Owed([i \in DOMAIN fs |-> Out(fs, c, i)]), fs, c)
<1> DEFINE n == Len(fs)
           outs == [i \in 1 .. n |-> Out(fs, c, i)]
           I == {i \in 1 .. Len(outs) : ~outs[i].whole}
           bad == IF I # {} THEN Min(I) ELSE 0
           upto == IF bad = 0 THEN Len(outs) ELSE bad
           owed == Owed(outs)
<1>1. n \in Nat /\ DOMAIN fs = 1 .. n
  BY DEF OverFiles
<1>2. Len(outs) = n /\ \A i \in 1 .. n : outs[i] = Out(fs, c, i)
  BY <1>1
<1>3. owed = [whole |-> bad = 0, output |-> FlattenSeq([i \in 1 .. upto |-> outs[i].output])]
  BY DEF Owed, SelectInSeq
<1> HIDE DEF outs, n, owed
<1>4. I = {i \in 1 .. n : ~Out(fs, c, i).whole}
  BY <1>2
<1>5. ASSUME NEW k \in 0 .. n
      PROVE  FlattenSeq([i \in 1 .. k |-> outs[i].output]) = Written(fs, c, k)
  <2>1. \A i \in 1 .. k : outs[i] = Out(fs, c, i)
    BY <1>1, <1>2
  <2>2. [i \in 1 .. k |-> outs[i].output] = [i \in 1 .. k |-> Out(fs, c, i).output]
    BY <2>1
  <2> QED BY <2>2 DEF Written, Outputs
<1> HIDE DEF I
<1>6. ASSUME DoneBefore(fs, c, n + 1)
      PROVE  owed.whole = TRUE /\ owed.output = Written(fs, c, n)
  <2>1. (n + 1) - 1 = n /\ n \in 0 .. n
    BY <1>1
  <2>2. I = {}
    BY <1>4, <1>6, <2>1 DEF DoneBefore
  <2>3. upto = n /\ bad = 0
    BY <1>2, <2>2
  <2> QED BY <1>3, <1>5, <2>1, <2>3
<1>7. ASSUME NEW k \in 1 .. n, DoneBefore(fs, c, k), ~Out(fs, c, k).whole
      PROVE  owed.whole = FALSE /\ owed.output = Written(fs, c, k)
  <2>1. k \in I /\ I \subseteq 1 .. n
    BY <1>4, <1>7
  <2>2. \A i \in 1 .. k - 1 : i \notin I
    BY <1>4, <1>7 DEF DoneBefore
  <2>3. Min(I) = k
    BY <1>1, <2>1, <2>2, LeastIs
  <2>4. bad = k /\ k # 0 /\ k \in 0 .. n
    BY <1>1, <2>1, <2>3
  <2>5. upto = k
    BY <2>4
  <2> QED BY <1>3, <1>5, <2>4, <2>5
<1> QED BY <1>1, <1>6, <1>7 DEF OwedUpTo, owed, outs, n

PartsGrow(name, d, c) ==
    \A l \in 0 .. Len(d.messages) : \A k \in 0 .. l :
        \E u \in Seq(Texts(c)) : PartOf(name, d, c, l) = PartOf(name, d, c, k) \o u

LEMMA PartExtends ==
  ASSUME NEW name \in Arguments, NEW c, c.format \in {"set", "source"}, NEW d, d = Descriptor(name, c), d # Fault
  PROVE  PartsGrow(name, d, c)
<1> SUFFICES ASSUME NEW l \in 0 .. Len(d.messages), NEW k \in 0 .. l
             PROVE  \E u \in Seq(Texts(c)) : PartOf(name, d, c, l) = PartOf(name, d, c, k) \o u
  BY DEF PartsGrow
<1> DEFINE n == Len(d.messages)
           A == Texts(c)
           s == Codes(name, d, c)
           S == Seq(A)
           r == SubSeq(s, 1, l + 1)
           t == SubSeq(s, 1, k + 1)
           q == SubSeq(r, 1, k + 1)
<1>1. n \in Nat /\ l \in 0 .. n /\ k \in 0 .. l
  BY MessagesListed
<1>2. s \in Seq(S) /\ Len(s) = n + 1
  BY CodesAre
<1> HIDE DEF n, S, s
<1>3. /\ r \in Seq(S) /\ Len(r) = l + 1 /\ \A i \in 1 .. l + 1 : r[i] = s[i]
      /\ t \in Seq(S) /\ Len(t) = k + 1 /\ \A i \in 1 .. k + 1 : t[i] = s[i]
  BY <1>1, <1>2
<1> HIDE DEF r, t
<1>4. q \in Seq(S) /\ Len(q) = k + 1 /\ \A i \in 1 .. k + 1 : q[i] = r[i]
  BY <1>1, <1>3
<1> HIDE DEF q
<1>5. \A i \in 1 .. k + 1 : i \in 1 .. l + 1
  BY <1>1
<1>6. q = t
  <2>1. \A i \in 1 .. k + 1 : q[i] = t[i]
    BY <1>3, <1>4, <1>5
  <2> QED BY <1>3, <1>4, <2>1, SeqEqual
<1>7. r \in Seq(Seq(A)) /\ k + 1 \in 0 .. Len(r)
  BY <1>1, <1>3 DEF S
<1>8. PICK u \in Seq(A) : FlattenSeq(r) = FlattenSeq(q) \o u
  BY <1>7, FlattenExtends DEF q
<1> QED BY <1>6, <1>8 DEF PartOf, r, t, s

-----------------------------------------------------------------------------
(* What has been written.                                                  *)

(* Files are done, and no other is begun; a file is being generated; a     *)
(* file was cut.                                                           *)
Between(fs, c, k, out) == DoneBefore(fs, c, k + 1) /\ out = Written(fs, c, k)

Within(fs, c, k, d, ms, out) ==
    /\ c.action = "generate" /\ ~Refused(fs[k], c) /\ DoneBefore(fs, c, k)
    /\ d = Descriptor(fs[k], c)
    /\ \E j \in 0 .. Len(d.messages) - 1 :
         /\ ms = SubSeq(d.messages, j + 1, Len(d.messages))
         /\ \A i \in 1 .. j : Code(d, c, i) # <<Fault>>
         /\ out = Written(fs, c, k - 1) \o PartOf(fs[k], d, c, j)

Cut(fs, c, out) ==
    \E k \in 1 .. Len(fs) :
        DoneBefore(fs, c, k) /\ ~Out(fs, c, k).whole /\ out = Written(fs, c, k)

Begun(code, name, d, c) ==
    \A j \in 0 .. Len(d.messages) :
        (\A i \in 1 .. j : Code(d, c, i) # <<Fault>>) =>
            \E u \in Seq(Texts(c)) : code.output = PartOf(name, d, c, j) \o u

LEMMA PartBegins ==
  ASSUME NEW fs, NEW c, OverFiles(fs, c), NEW k \in DOMAIN fs, NEW d, d = Descriptor(fs[k], c),
         ~Refused(fs[k], c), c.action = "generate"
  PROVE  Begun(Out(fs, c, k), fs[k], d, c)
<1> SUFFICES ASSUME NEW j \in 0 .. Len(d.messages), \A i \in 1 .. j : Code(d, c, i) # <<Fault>>
             PROVE  \E u \in Seq(Texts(c)) : Out(fs, c, k).output = PartOf(fs[k], d, c, j) \o u
  BY DEF Begun
<1> DEFINE name == fs[k]
           n == Len(d.messages)
           T == {i \in 1 .. n : Code(d, c, i) = <<Fault>>}
           code == CodeOfFile(name, d, c)
<1>1. name \in Arguments /\ c.format \in {"set", "source"} /\ d = Descriptor(name, c) /\ d # Fault
  BY DEF OverFiles, Refused
<1>2. Out(fs, c, k) = code
  BY DEF Out
<1> HIDE DEF name, code
<1>3. n \in Nat
  BY <1>1, MessagesListed
<1>4. CutAtFault(code, name, d, c)
  BY <1>1, CodeOfFileIs DEF code
<1>5. \E l \in j .. n : code.output = PartOf(name, d, c, l)
  <2>1. CASE T = {}
    <3>1. \A i \in 1 .. n : Code(d, c, i) # <<Fault>>
      BY <2>1
    <3>2. code.output = PartOf(name, d, c, n) /\ n \in j .. n
      BY <1>3, <1>4, <3>1 DEF CutAtFault
    <3> QED BY <3>2
  <2>2. CASE T # {}
    <3>1. PICK f \in T : \A i \in 1 .. f - 1 : i \notin T
      <4>1. T \subseteq 1 .. n
        OBVIOUS
      <4> HIDE DEF T, n
      <4> QED BY <1>3, <2>2, <4>1, SomeFault
    <3>2. f \in 1 .. n /\ Code(d, c, f) = <<Fault>>
      OBVIOUS
    <3>3. \A i \in 1 .. f - 1 : Code(d, c, i) # <<Fault>>
      <4>1. \A i \in 1 .. f - 1 : i \in 1 .. n
        BY <1>3, <3>2
      <4> QED BY <3>1, <4>1
    <3>4. ~(f \in 1 .. j)
      BY <3>2
    <3>5. f - 1 \in j .. n
      BY <1>3, <3>2, <3>4
    <3>6. code.output = PartOf(name, d, c, f - 1)
      BY <1>4, <3>2, <3>3 DEF CutAtFault
    <3> QED BY <3>5, <3>6
  <2> QED BY <2>1, <2>2
<1>6. PICK l \in j .. n : code.output = PartOf(name, d, c, l)
  BY <1>5
<1>7. l \in 0 .. n /\ j \in 0 .. l
  BY <1>3
<1>8. PartsGrow(name, d, c)
  BY <1>1, PartExtends
<1>9. \E u \in Seq(Texts(c)) : PartOf(name, d, c, l) = PartOf(name, d, c, j) \o u
  BY <1>7, <1>8 DEF PartsGrow
<1> QED BY <1>2, <1>6, <1>9 DEF name

(* The generator knows the file it is in.                                  *)
Knows(proto3, package, d) == proto3 = (d.syntax = "proto3") /\ package = d.package

Progress(fs, c, f, ph, ms, out) ==
    /\ OverFiles(fs, c) /\ f \in 1 .. Len(fs) + 1
    /\ ph \in {"running", "failed", "done"}
    /\ ph = "running" /\ ms = <<>> => Between(fs, c, f - 1, out)
    /\ ms # <<>> => ph = "running" /\ f > 1 /\ Within(fs, c, f - 1, Descriptor(fs[f - 1], c), ms, out)
    /\ ph = "failed" => Cut(fs, c, out)
    /\ ph = "done" => Between(fs, c, Len(fs), out)

CommandKnown ==
    /\ phase = "arguments" => command.action = "none" /\ file = 1
    /\ phase = "running" => command.action # "none"
    /\ stage # "idle" => command.action = "benchmark"

OutputInv ==
    /\ CommandKnown
    /\ command.action \notin {"generate", "print"} => messages = <<>> /\ stdout = <<>>
    /\ command.action \in {"generate", "print"} =>
         /\ Progress(files, command, file, phase, messages, stdout)
         /\ "no-has-fields" \in command.option => "no-required" \in command.option
         /\ messages # <<>> => Knows(current_file_is_proto3, package_name_prefix, Descriptor(files[file - 1], command))

LEMMA OutputKnown ==
  ASSUME OutputInv
  PROVE  OutputIsFilesInOrder
<1> DEFINE fs == files
           c == command
           n == Len(fs)
           owed == Owed([i \in DOMAIN fs |-> Out(fs, c, i)])
<1> SUFFICES ASSUME c.action \in {"generate", "print"} PROVE IsOutput(owed)
  <2> DEFINE given_(i) == IF Refused(files[i], command) THEN Fault ELSE Descriptor(files[i], command)
  <2>1. ASSUME NEW i \in DOMAIN fs, c.action \in {"generate", "print"}
        PROVE  OutputOf(files[i], given_(i), command) = Out(fs, c, i)
    <3>1. ~Refused(files[i], command) => Descriptor(files[i], command) # Fault
      BY DEF Refused
    <3>2. Printed(files[i]) = Trees(files, files[i])
      BY DEF Printed, Trees
    <3> QED BY <3>1, <3>2 DEF OutputOf, Out
  <2>2. c.action \in {"generate", "print"} =>
          [i \in DOMAIN files |-> OutputOf(files[i], given_(i), command)] = [i \in DOMAIN fs |-> Out(fs, c, i)]
    BY <2>1
  <2> QED BY <2>2 DEF OutputIsFilesInOrder
<1>1. /\ OverFiles(fs, c) /\ file \in 1 .. n + 1
      /\ phase \in {"running", "failed", "done"}
      /\ phase = "running" /\ messages = <<>> => Between(fs, c, file - 1, stdout)
      /\ messages # <<>> =>
           /\ phase = "running" /\ file > 1
           /\ Within(fs, c, file - 1, Descriptor(fs[file - 1], c), messages, stdout)
      /\ phase = "failed" => Cut(fs, c, stdout)
      /\ phase = "done" => Between(fs, c, n, stdout)
  BY DEF OutputInv, Progress
<1>2. OwedUpTo(owed, fs, c)
  BY <1>1, OwedIs
<1> DEFINE A == Texts(c)
           W(k) == Written(fs, c, k)
<1>3. /\ n \in Nat /\ DOMAIN fs = 1 .. n
      /\ \A k \in 0 .. n : W(k) \in Seq(A)
      /\ \A k \in 1 .. n : W(k) = W(k - 1) \o Out(fs, c, k).output
      /\ \A l \in 0 .. n : \A k \in 0 .. l : \E u \in Seq(A) : W(l) = W(k) \o u
  BY <1>1, WrittenIs, ZenonT(60)
<1> HIDE DEF owed, A, W, n
<1>4. \E last \in 0 .. n :
        /\ owed.output = W(last)
        /\ last = n \/ (last # 0 /\ ~Out(fs, c, last).whole)
  <2> DEFINE T == {k \in 1 .. n : ~Out(fs, c, k).whole}
  <2>1. CASE T = {}
    <3>1. (n + 1) - 1 = n /\ n \in 0 .. n
      BY <1>3
    <3>2. DoneBefore(fs, c, n + 1)
      BY <2>1, <3>1 DEF DoneBefore
    <3>3. owed.output = W(n)
      BY <1>2, <3>2 DEF OwedUpTo, W, n
    <3> QED BY <3>1, <3>3
  <2>2. CASE T # {}
    <3>1. PICK k \in T : \A i \in 1 .. k - 1 : i \notin T
      <4>1. T \subseteq 1 .. n
        OBVIOUS
      <4> HIDE DEF T
      <4> QED BY <1>3, <2>2, <4>1, SomeFault
    <3>2. k \in 1 .. n /\ ~Out(fs, c, k).whole /\ k \in 0 .. n /\ k # 0
      BY <1>3
    <3>3. \A i \in 1 .. k - 1 : i \in 1 .. n
      BY <1>3, <3>2
    <3>4. DoneBefore(fs, c, k)
      BY <3>1, <3>3 DEF DoneBefore
    <3> QED BY <1>2, <3>2, <3>4 DEF OwedUpTo, W, n
  <2> QED BY <2>1, <2>2
<1>5. PICK last \in 0 .. n : owed.output = W(last) /\ (last = n \/ (last # 0 /\ ~Out(fs, c, last).whole))
  BY <1>4
<1>6. CASE phase = "running"
  <2>1. SUFFICES \E u \in Seq(A) : owed.output = stdout \o u /\ stdout \in Seq(A)
    BY <1>6, Begins DEF IsOutput
  <2>2. CASE messages = <<>>
    <3>1. DoneBefore(fs, c, file) /\ stdout = W(file - 1) /\ file - 1 \in 0 .. n
      <4>1. (file - 1) + 1 = file /\ file - 1 \in 0 .. n
        BY <1>1, <1>3 DEF n
      <4> QED BY <1>1, <1>6, <2>2, <4>1 DEF Between, W
    <3>2. file - 1 <= last
      <4>1. CASE last = n
        BY <1>3, <3>1, <4>1
      <4>2. CASE last # 0 /\ ~Out(fs, c, last).whole
        <5>1. ~(last \in 1 .. file - 1)
          BY <3>1, <4>2 DEF DoneBefore
        <5> QED BY <1>3, <3>1, <4>2, <5>1
      <4> QED BY <1>5, <4>1, <4>2
    <3>3. file - 1 \in 0 .. last
      BY <1>3, <3>1, <3>2
    <3> QED BY <1>3, <1>5, <3>1, <3>3
  <2>3. CASE messages # <<>>
    <3> DEFINE k == file - 1
               d == Descriptor(fs[k], c)
    <3>1. k \in 1 .. n /\ k - 1 \in 0 .. n /\ k \in 0 .. n /\ k \in DOMAIN fs
      BY <1>1, <1>3, <2>3 DEF n
    <3>2. Within(fs, c, k, d, messages, stdout)
      BY <1>1, <2>3
    <3> HIDE DEF k, d
    <3>3. /\ c.action = "generate" /\ ~Refused(fs[k], c) /\ DoneBefore(fs, c, k) /\ d = Descriptor(fs[k], c)
      BY <3>2 DEF Within
    <3>4. PICK j \in 0 .. Len(d.messages) - 1 :
            /\ \A i \in 1 .. j : Code(d, c, i) # <<Fault>>
            /\ stdout = W(k - 1) \o PartOf(fs[k], d, c, j)
      BY <3>2 DEF Within, W
    <3>5. fs[k] \in Arguments /\ c.format \in {"set", "source"} /\ d # Fault
      BY <1>1, <3>1, <3>3 DEF OverFiles, Refused
    <3>6. Len(d.messages) \in Nat
      BY <3>3, <3>5, MessagesListed
    <3>7. j \in 0 .. Len(d.messages)
      BY <3>6
    <3> DEFINE p == PartOf(fs[k], d, c, j)
    <3>8. p \in Seq(A)
      BY <3>3, <3>5, <3>7, PartIs DEF A
    <3>9. PICK v \in Seq(A) : Out(fs, c, k).output = p \o v
      <4>1. Begun(Out(fs, c, k), fs[k], d, c)
        BY <1>1, <3>1, <3>3, PartBegins
      <4> QED BY <3>4, <3>7, <4>1 DEF Begun, A
    <3>10. k <= last
      <4>1. CASE last = n
        BY <1>3, <3>1, <4>1
      <4>2. CASE last # 0 /\ ~Out(fs, c, last).whole
        <5>1. ~(last \in 1 .. k - 1)
          BY <3>3, <4>2 DEF DoneBefore
        <5> QED BY <1>3, <3>1, <4>2, <5>1
      <4> QED BY <1>5, <4>1, <4>2
    <3>11. k \in 0 .. last
      BY <1>3, <3>1, <3>10
    <3>12. PICK u \in Seq(A) : W(last) = W(k) \o u
      BY <1>3, <3>11
    <3> HIDE DEF p
    <3>13. W(k) = W(k - 1) \o (p \o v) /\ stdout = W(k - 1) \o p /\ W(k - 1) \in Seq(A)
      BY <1>3, <3>1, <3>4, <3>9 DEF p
    <3>14. W(last) = stdout \o (v \o u) /\ stdout \in Seq(A) /\ v \o u \in Seq(A)
      <4>1. W(last) = (W(k - 1) \o (p \o v)) \o u
        BY <3>12, <3>13
      <4>2. /\ (W(k - 1) \o (p \o v)) \o u = (W(k - 1) \o p) \o (v \o u)
            /\ W(k - 1) \o p \in Seq(A) /\ v \o u \in Seq(A)
        <5>1. Regroups(A, W(k - 1), p, v, u)
          BY <3>8, <3>13, Regrouped
        <5> QED BY <5>1 DEF Regroups
      <4> QED BY <3>13, <4>1, <4>2
    <3> QED BY <1>5, <3>14
  <2> QED BY <2>2, <2>3
<1>7. CASE phase = "failed"
  <2>1. PICK k \in 1 .. n : DoneBefore(fs, c, k) /\ ~Out(fs, c, k).whole /\ stdout = W(k)
    BY <1>1, <1>7 DEF Cut, W, n
  <2>2. owed.whole = FALSE /\ owed.output = stdout
    BY <1>2, <2>1 DEF OwedUpTo, W, n
  <2>3. stdout \in Seq(A)
    <3>1. k \in 0 .. n
      BY <1>3
    <3> QED BY <1>3, <2>1, <3>1
  <2>4. stdout \o <<>> = stdout /\ <<>> \in Seq(A)
    BY <2>3
  <2>5. IsPrefix(stdout, stdout)
    BY <2>3, <2>4, Begins
  <2> QED BY <1>7, <2>2, <2>5 DEF IsOutput
<1>8. CASE phase = "done"
  <2>1. DoneBefore(fs, c, n + 1) /\ stdout = W(n)
    BY <1>1, <1>8 DEF Between, W, n
  <2>2. owed.whole = TRUE /\ owed.output = stdout
    BY <1>2, <2>1 DEF OwedUpTo, W, n
  <2>3. stdout \in Seq(A)
    <3>1. n \in 0 .. n
      BY <1>3
    <3> QED BY <1>3, <2>1, <3>1
  <2>4. stdout \o <<>> = stdout /\ <<>> \in Seq(A)
    BY <2>3
  <2>5. IsPrefix(stdout, stdout)
    BY <2>3, <2>4, Begins
  <2> QED BY <1>8, <2>2, <2>5 DEF IsOutput
<1> QED BY <1>1, <1>6, <1>7, <1>8

-----------------------------------------------------------------------------
(* The steps of the loop over the files.                                   *)
LEMMA FileDone ==
  ASSUME NEW fs, NEW c, OverFiles(fs, c), NEW k \in 1 .. Len(fs), DoneBefore(fs, c, k), Out(fs, c, k).whole
  PROVE  DoneBefore(fs, c, k + 1)
<1>1. Len(fs) \in Nat
  BY WrittenIs
<1>2. \A i \in 1 .. (k + 1) - 1 : i \in 1 .. k - 1 \/ i = k
  BY <1>1
<1> QED BY <1>2 DEF DoneBefore

LEMMA LoopBegins ==
  ASSUME NEW fs, NEW c, OverFiles(fs, c)
  PROVE  Progress(fs, c, 1, "running", <<>>, <<>>)
<1>1. Len(fs) \in Nat /\ Written(fs, c, 0) = <<>>
  BY WrittenIs
<1>2. DoneBefore(fs, c, 1)
  BY DEF DoneBefore
<1>3. 1 \in 1 .. Len(fs) + 1 /\ 1 - 1 = 0 /\ 0 + 1 = 1
  BY <1>1
<1> QED BY <1>1, <1>2, <1>3 DEF Progress, Between

(* A file between the others.                                              *)
LEMMA AtNextFile ==
  ASSUME NEW fs, NEW c, NEW k \in 1 .. Len(fs), NEW out, Progress(fs, c, k, "running", <<>>, out)
  PROVE  /\ OverFiles(fs, c) /\ Len(fs) \in Nat /\ k \in DOMAIN fs /\ fs[k] \in Arguments
         /\ DoneBefore(fs, c, k) /\ out = Written(fs, c, k - 1)
         /\ Written(fs, c, k) = Written(fs, c, k - 1) \o Out(fs, c, k).output
         /\ Written(fs, c, k - 1) \in Seq(Texts(c))
<1>1. OverFiles(fs, c) /\ Between(fs, c, k - 1, out)
  BY DEF Progress
<1>2. Len(fs) \in Nat /\ DOMAIN fs = 1 .. Len(fs)
  BY <1>1, WrittenIs
<1>3. (k - 1) + 1 = k /\ k - 1 \in 0 .. Len(fs)
  BY <1>2
<1>4. DoneBefore(fs, c, k) /\ out = Written(fs, c, k - 1)
  BY <1>1, <1>3 DEF Between
<1>5. /\ Written(fs, c, k) = Written(fs, c, k - 1) \o Out(fs, c, k).output
      /\ Written(fs, c, k - 1) \in Seq(Texts(c))
  BY <1>1, <1>3, WrittenIs
<1> QED BY <1>1, <1>2, <1>4, <1>5 DEF OverFiles

LEMMA FileFails ==
  ASSUME NEW fs, NEW c, NEW k \in 1 .. Len(fs), NEW out, Progress(fs, c, k, "running", <<>>, out),
         Refused(fs[k], c)
  PROVE  Progress(fs, c, k, "failed", <<>>, out)
<1>1. /\ OverFiles(fs, c) /\ DoneBefore(fs, c, k) /\ out = Written(fs, c, k - 1)
      /\ Written(fs, c, k) = Written(fs, c, k - 1) \o Out(fs, c, k).output
      /\ Written(fs, c, k - 1) \in Seq(Texts(c))
  BY AtNextFile
<1>2. Out(fs, c, k) = [whole |-> FALSE, output |-> <<>>]
  BY DEF Out
<1>3. Written(fs, c, k - 1) \o <<>> = Written(fs, c, k - 1)
  <2> DEFINE A == Texts(c)
             w == Written(fs, c, k - 1)
  <2>1. w \in Seq(A)
    BY <1>1
  <2> HIDE DEF A, w
  <2>2. w \o <<>> = w
    BY <2>1
  <2> QED BY <2>2 DEF w
<1>4. out = Written(fs, c, k) /\ ~Out(fs, c, k).whole
  BY <1>1, <1>2, <1>3
<1>5. Cut(fs, c, out)
  BY <1>1, <1>4 DEF Cut
<1>6. k \in 1 .. Len(fs) + 1
  BY DEF Progress
<1> QED BY <1>1, <1>5, <1>6 DEF Progress

(* A file that is written at once.                                         *)
LEMMA FileWritten ==
  ASSUME NEW fs, NEW c, NEW k \in 1 .. Len(fs), NEW out, Progress(fs, c, k, "running", <<>>, out),
         NEW text, Out(fs, c, k) = [whole |-> TRUE, output |-> text]
  PROVE  Progress(fs, c, k + 1, "running", <<>>, out \o text)
<1>1. /\ OverFiles(fs, c) /\ Len(fs) \in Nat /\ DoneBefore(fs, c, k) /\ out = Written(fs, c, k - 1)
      /\ Written(fs, c, k) = Written(fs, c, k - 1) \o Out(fs, c, k).output
  BY AtNextFile
<1>2. Out(fs, c, k).whole /\ out \o text = Written(fs, c, k)
  BY <1>1
<1>3. DoneBefore(fs, c, k + 1)
  BY <1>1, <1>2, FileDone
<1>4. (k + 1) - 1 = k /\ k + 1 \in 1 .. Len(fs) + 1
  BY <1>1
<1>5. Between(fs, c, (k + 1) - 1, out \o text)
  BY <1>2, <1>3, <1>4 DEF Between
<1> QED BY <1>1, <1>4, <1>5 DEF Progress

LEMMA LoopEnds ==
  ASSUME NEW fs, NEW c, NEW f, NEW out, Progress(fs, c, f, "running", <<>>, out), f > Len(fs)
  PROVE  Progress(fs, c, f, "done", <<>>, out)
<1>1. OverFiles(fs, c) /\ f \in 1 .. Len(fs) + 1 /\ Between(fs, c, f - 1, out)
  BY DEF Progress
<1>2. Len(fs) \in Nat
  BY <1>1, WrittenIs
<1>3. f - 1 = Len(fs)
  BY <1>1, <1>2
<1> QED BY <1>1, <1>3 DEF Progress

(* The code of a file whose first j messages do not fault.                 *)
SoFar(fs, c, k, d, j) ==
    /\ fs[k] \in Arguments /\ c.format \in {"set", "source"} /\ d # Fault
    /\ Len(d.messages) \in Nat
    /\ PartOf(fs[k], d, c, j) \in Seq(Texts(c))
    /\ j = Len(d.messages) => Out(fs, c, k).whole = TRUE /\ Out(fs, c, k).output = PartOf(fs[k], d, c, j)
    /\ j < Len(d.messages) /\ Code(d, c, j + 1) = <<Fault>> =>
         Out(fs, c, k).whole = FALSE /\ Out(fs, c, k).output = PartOf(fs[k], d, c, j)
    /\ j < Len(d.messages) =>
         /\ PartOf(fs[k], d, c, j + 1) = PartOf(fs[k], d, c, j) \o Code(d, c, j + 1)
         /\ Code(d, c, j + 1) \in Seq(Texts(c))

LEMMA FileSoFar ==
  ASSUME NEW fs, NEW c, OverFiles(fs, c), NEW k \in DOMAIN fs, c.action = "generate", ~Refused(fs[k], c),
         NEW d, d = Descriptor(fs[k], c),
         NEW j \in 0 .. Len(d.messages), \A i \in 1 .. j : Code(d, c, i) # <<Fault>>
  PROVE  SoFar(fs, c, k, d, j)
<1> DEFINE name == fs[k]
           n == Len(d.messages)
           code == CodeOfFile(name, d, c)
<1>1. name \in Arguments /\ c.format \in {"set", "source"} /\ d = Descriptor(name, c) /\ d # Fault
  BY DEF OverFiles, Refused
<1>2. Out(fs, c, k) = code
  BY DEF Out
<1> HIDE DEF name, code
<1>3. n \in Nat
  BY <1>1, MessagesListed
<1>4. CutAtFault(code, name, d, c)
  BY <1>1, CodeOfFileIs DEF code
<1>5. PartOf(name, d, c, j) \in Seq(Texts(c))
  BY <1>1, PartIs
<1>6. ASSUME j = n
      PROVE  code.whole = TRUE /\ code.output = PartOf(name, d, c, j)
  BY <1>4, <1>6 DEF CutAtFault
<1>7. ASSUME j < n, Code(d, c, j + 1) = <<Fault>>
      PROVE  code.whole = FALSE /\ code.output = PartOf(name, d, c, j)
  <2>1. j + 1 \in 1 .. n /\ (j + 1) - 1 = j
    BY <1>3, <1>7
  <2> QED BY <1>4, <1>7, <2>1 DEF CutAtFault
<1>8. ASSUME j < n
      PROVE  /\ PartOf(name, d, c, j + 1) = PartOf(name, d, c, j) \o Code(d, c, j + 1)
             /\ Code(d, c, j + 1) \in Seq(Texts(c))
  <2>1. j + 1 \in 1 .. n /\ (j + 1) - 1 = j
    BY <1>3, <1>8
  <2>2. PartsJoin(name, d, c)
    BY <1>1, PartIs
  <2>3. Code(d, c, j + 1) \in Seq(Texts(c))
    BY <1>1, <2>1, CodesAre
  <2> QED BY <2>1, <2>2, <2>3 DEF PartsJoin
<1> QED BY <1>1, <1>2, <1>3, <1>5, <1>6, <1>7, <1>8 DEF name, SoFar

(* After j messages of a file without a fault, with ms still to be done.   *)
LEMMA MessageDone ==
  ASSUME NEW fs, NEW c, OverFiles(fs, c), NEW k \in 1 .. Len(fs), c.action = "generate", ~Refused(fs[k], c),
         DoneBefore(fs, c, k), NEW d, d = Descriptor(fs[k], c),
         NEW j \in 0 .. Len(d.messages), \A i \in 1 .. j : Code(d, c, i) # <<Fault>>,
         NEW ms, ms = SubSeq(d.messages, j + 1, Len(d.messages)),
         NEW out, out = Written(fs, c, k - 1) \o PartOf(fs[k], d, c, j)
  PROVE  Progress(fs, c, k + 1, "running", ms, out)
<1> DEFINE n == Len(d.messages)
<1>1. Len(fs) \in Nat /\ DOMAIN fs = 1 .. Len(fs)
      /\ Written(fs, c, k) = Written(fs, c, k - 1) \o Out(fs, c, k).output
  BY WrittenIs
<1>2. k \in DOMAIN fs
  BY <1>1
<1>3. /\ n \in Nat /\ fs[k] \in Arguments /\ c.format \in {"set", "source"} /\ d # Fault
      /\ j = n => Out(fs, c, k).whole = TRUE /\ Out(fs, c, k).output = PartOf(fs[k], d, c, j)
  <2>1. SoFar(fs, c, k, d, j)
    BY <1>2, FileSoFar
  <2> QED BY <2>1 DEF SoFar
<1>4. d.messages \in Seq(ToSet(d.messages))
  BY <1>3, MessagesListed
<1>5. (k + 1) - 1 = k /\ k + 1 \in 1 .. Len(fs) + 1 /\ k + 1 > 1
  BY <1>1
<1>6. CASE j = n
  <2>1. ms = <<>>
    BY <1>3, <1>4, <1>6
  <2>2. Out(fs, c, k).whole /\ out = Written(fs, c, k)
    BY <1>1, <1>3, <1>6
  <2>3. DoneBefore(fs, c, k + 1)
    BY <2>2, FileDone
  <2>4. Between(fs, c, k, out)
    BY <2>2, <2>3 DEF Between
  <2> QED BY <1>5, <2>1, <2>4 DEF Progress
<1>7. CASE j # n
  <2>1. j \in 0 .. n - 1 /\ j + 1 <= n
    BY <1>3, <1>7
  <2>2. ms # <<>>
    <3>1. Len(ms) = n - j /\ n - j # 0
      BY <1>3, <1>4, <2>1
    <3> QED BY <3>1
  <2>3. Within(fs, c, k, d, ms, out)
    BY <2>1 DEF Within
  <2> QED BY <1>5, <2>2, <2>3 DEF Progress
<1> QED BY <1>6, <1>7

LEMMA FileBegun ==
  ASSUME NEW fs, NEW c, NEW k \in 1 .. Len(fs), NEW out, Progress(fs, c, k, "running", <<>>, out),
         c.action = "generate", ~Refused(fs[k], c), NEW d, d = Descriptor(fs[k], c)
  PROVE  Progress(fs, c, k + 1, "running", d.messages, Append(out, Header(fs[k])))
<1> DEFINE ms == d.messages
           new == Append(out, Header(fs[k]))
<1>1. /\ OverFiles(fs, c) /\ k \in DOMAIN fs /\ fs[k] \in Arguments /\ DoneBefore(fs, c, k)
      /\ out = Written(fs, c, k - 1) /\ Written(fs, c, k - 1) \in Seq(Texts(c))
  BY AtNextFile
<1>2. c.format \in {"set", "source"} /\ d # Fault
  BY <1>1 DEF OverFiles, Refused
<1>3. Len(d.messages) \in Nat /\ ms \in Seq(ToSet(ms))
  BY <1>1, <1>2, MessagesListed
<1>4. ms = SubSeq(d.messages, 0 + 1, Len(d.messages))
  BY <1>3
<1>5. PartOf(fs[k], d, c, 0) = <<Header(fs[k])>>
  BY <1>1, <1>2, PartIs
<1>6. new = Written(fs, c, k - 1) \o PartOf(fs[k], d, c, 0)
  <2> DEFINE A == Texts(c)
             h == Header(fs[k])
  <2>1. out \in Seq(A) /\ h \in A
    BY <1>1 DEF Texts
  <2> HIDE DEF A, h
  <2>2. Append(out, h) = out \o <<h>>
    BY <2>1, AppendIs
  <2> QED BY <1>1, <1>5, <2>2 DEF h
<1>7. 0 \in 0 .. Len(d.messages) /\ \A i \in 1 .. 0 : Code(d, c, i) # <<Fault>>
  BY <1>3
<1> HIDE DEF ms, new
<1>8. Progress(fs, c, k + 1, "running", ms, new)
  BY <1>1, <1>4, <1>6, <1>7, MessageDone
<1> QED BY <1>8 DEF ms, new

LEMMA MessageGenerated ==
  ASSUME NEW fs, NEW c, NEW f, NEW d, NEW ms, NEW out, Progress(fs, c, f, "running", ms, out), ms # <<>>,
         d = Descriptor(fs[f - 1], c), NEW code, code = Code(d, c, Len(d.messages) + 1 - Len(ms))
  PROVE  /\ Head(ms) = d.messages[Len(d.messages) + 1 - Len(ms)]
         /\ code = <<Fault>> => Progress(fs, c, f, "failed", <<>>, out)
         /\ code # <<Fault>> => Progress(fs, c, f, "running", Tail(ms), out \o code)
<1> DEFINE k == f - 1
           n == Len(d.messages)
           A == Texts(c)
<1>1. OverFiles(fs, c) /\ f \in 1 .. Len(fs) + 1 /\ f > 1 /\ Within(fs, c, k, d, ms, out)
  BY DEF Progress
<1>2. /\ Len(fs) \in Nat /\ DOMAIN fs = 1 .. Len(fs)
      /\ \A i \in 0 .. Len(fs) : Written(fs, c, i) \in Seq(A)
      /\ \A i \in 1 .. Len(fs) : Written(fs, c, i) = Written(fs, c, i - 1) \o Out(fs, c, i).output
  BY <1>1, WrittenIs
<1>3. k \in 1 .. Len(fs) /\ k - 1 \in 0 .. Len(fs) /\ k \in DOMAIN fs /\ k + 1 = f
  BY <1>1, <1>2
<1>4. d = Descriptor(fs[k], c)
  OBVIOUS
<1> HIDE DEF k, A
<1>5. c.action = "generate" /\ ~Refused(fs[k], c) /\ DoneBefore(fs, c, k)
  BY <1>1 DEF Within
<1>6. PICK j \in 0 .. n - 1 :
        /\ ms = SubSeq(d.messages, j + 1, n)
        /\ \A i \in 1 .. j : Code(d, c, i) # <<Fault>>
        /\ out = Written(fs, c, k - 1) \o PartOf(fs[k], d, c, j)
  BY <1>1 DEF Within
<1>7. fs[k] \in Arguments /\ c.format \in {"set", "source"} /\ d # Fault
  BY <1>1, <1>3, <1>5 DEF OverFiles, Refused
<1>8. n \in Nat /\ d.messages \in Seq(ToSet(d.messages))
  BY <1>4, <1>7, MessagesListed
<1>9. j \in 0 .. n /\ j < n /\ j + 1 \in 0 .. n /\ j + 1 \in 1 .. n
  BY <1>8
<1>10. Len(ms) = n - j /\ Head(ms) = d.messages[j + 1] /\ Tail(ms) = SubSeq(d.messages, (j + 1) + 1, n)
  BY <1>6, <1>8, <1>9
<1>11. n + 1 - Len(ms) = j + 1
  BY <1>8, <1>10
<1>12. code = Code(d, c, j + 1)
  BY <1>11
<1>13. /\ PartOf(fs[k], d, c, j) \in Seq(A)
       /\ Code(d, c, j + 1) = <<Fault>> =>
            Out(fs, c, k).whole = FALSE /\ Out(fs, c, k).output = PartOf(fs[k], d, c, j)
       /\ PartOf(fs[k], d, c, j + 1) = PartOf(fs[k], d, c, j) \o Code(d, c, j + 1)
       /\ Code(d, c, j + 1) \in Seq(A)
  <2>1. SoFar(fs, c, k, d, j)
    BY <1>1, <1>3, <1>4, <1>5, <1>6, <1>9, FileSoFar
  <2> QED BY <1>9, <2>1 DEF SoFar, A
<1>14. ASSUME code = <<Fault>>
       PROVE  Progress(fs, c, f, "failed", <<>>, out)
  <2>1. out = Written(fs, c, k) /\ ~Out(fs, c, k).whole
    BY <1>2, <1>3, <1>6, <1>12, <1>13, <1>14
  <2>2. Cut(fs, c, out)
    BY <1>3, <1>5, <2>1 DEF Cut
  <2> QED BY <1>1, <2>2 DEF Progress
<1>15. ASSUME code # <<Fault>>
       PROVE  Progress(fs, c, f, "running", Tail(ms), out \o code)
  <2> DEFINE w == Written(fs, c, k - 1)
             p == PartOf(fs[k], d, c, j)
             new == out \o code
             rest == Tail(ms)
  <2>1. w \in Seq(A) /\ p \in Seq(A) /\ code \in Seq(A) /\ out = w \o p
    BY <1>2, <1>3, <1>6, <1>12, <1>13
  <2> HIDE DEF w, p
  <2>2. (w \o p) \o code = w \o (p \o code)
    BY <2>1, ConcatAssociative, SMTT(60)
  <2>3. new = Written(fs, c, k - 1) \o PartOf(fs[k], d, c, j + 1)
    BY <1>12, <1>13, <2>1, <2>2 DEF w, p
  <2>4. \A i \in 1 .. j + 1 : Code(d, c, i) # <<Fault>>
    <3>1. \A i \in 1 .. j + 1 : i \in 1 .. j \/ i = j + 1
      BY <1>9
    <3> QED BY <1>6, <1>12, <1>15, <3>1
  <2>5. rest = SubSeq(d.messages, (j + 1) + 1, Len(d.messages))
    BY <1>10
  <2> HIDE DEF new, rest
  <2>6. Progress(fs, c, k + 1, "running", rest, new)
    BY <1>1, <1>3, <1>4, <1>5, <1>9, <2>3, <2>4, <2>5, MessageDone
  <2> QED BY <1>3, <2>6 DEF new, rest
<1> QED BY <1>10, <1>11, <1>14, <1>15

-----------------------------------------------------------------------------
(* Every step keeps what is known of the output.                           *)
LEMMA ReadingOutput ==
  ASSUME IInv, OutputInv, ReadCommandLine
  PROVE  OutputInv'
<1>1. ParseCommandLine /\ UNCHANGED <<generatorVars, benchmarkVars, file>>
  BY DEF ReadCommandLine
<1>2. /\ phase = "arguments" /\ command.action = "none" /\ file = 1
      /\ stage = "idle" /\ messages = <<>> /\ stdout = <<>>
  BY <1>1 DEF ParseCommandLine, ReadOption, ReadWord, ReadDashes, CheckOptions, At, IInv, CommandSound,
              OutputInv, CommandKnown
<1>3. UNCHANGED <<stage, messages, stdout, file>>
  BY <1>1 DEF generatorVars, benchmarkVars
<1>4. CASE command' = command
  <2>1. phase' # "running"
    <3>1. CASE CheckOptions
      <4>1. phase' = "running" => command'.action = Action(given)
        BY <3>1 DEF CheckOptions
      <4> QED BY <1>2, <1>4, <4>1 DEF Action
    <3>2. CASE ~CheckOptions
      BY <1>1, <1>2, <3>2 DEF ParseCommandLine, ReadOption, ReadWord, ReadDashes
    <3> QED BY <3>1, <3>2
  <2> QED BY <1>2, <1>3, <1>4, <2>1 DEF OutputInv, CommandKnown
<1>5. CASE command' # command
  <2>1. CheckOptions
    BY <1>1, <1>5 DEF ParseCommandLine, ReadOption, ReadWord, ReadDashes
  <2>2. /\ files' = files /\ phase' = "running"
        /\ command'.action = Action(given) /\ command'.format = Format(given)
        /\ command'.option = Completed(given \cap GenerationSwitches)
    BY <1>5, <2>1 DEF CheckOptions
  <2>3. /\ command'.action \in {"generate", "print", "benchmark"}
        /\ command'.format \in {"set", "source"}
        /\ "no-has-fields" \in command'.option => "no-required" \in command'.option
    BY <2>2 DEF Action, Format, Completed
  <2>4. CASE command'.action = "benchmark"
    BY <1>2, <1>3, <2>2, <2>4 DEF OutputInv, CommandKnown
  <2>5. CASE command'.action # "benchmark"
    <3>1. OverFiles(files', command')
      BY <2>2, <2>3, <2>5 DEF OverFiles, IInv, ArgumentsRead
    <3>2. Progress(files', command', 1, "running", <<>>, <<>>)
      BY <3>1, LoopBegins
    <3>3. CommandKnown'
      BY <1>2, <1>3, <2>2, <2>3 DEF CommandKnown
    <3>4. messages' = <<>> /\ stdout' = <<>> /\ file' = 1 /\ phase' = "running"
      BY <1>2, <1>3, <2>2
    <3> QED BY <2>3, <3>2, <3>3, <3>4 DEF OutputInv
  <2> QED BY <2>4, <2>5
<1> QED BY <1>4, <1>5

(* A step of the loop, which moves Progress on.                            *)
LEMMA LoopOutput ==
  ASSUME OutputInv, UNCHANGED <<files, command, stage>>, phase = "running", phase' \in {"running", "failed", "done"},
         command.action \in {"generate", "print"},
         Progress(files, command, file', phase', messages', stdout'),
         messages' # <<>> =>
           Knows(current_file_is_proto3', package_name_prefix', Descriptor(files[file' - 1], command))
  PROVE  OutputInv'
<1>1. CommandKnown'
  BY DEF OutputInv, CommandKnown
<1>2. "no-has-fields" \in command.option => "no-required" \in command.option
  BY DEF OutputInv
<1>3. Progress(files, command, file, phase, messages, stdout)'
  OBVIOUS
<1>4. messages' # <<>> => Knows(current_file_is_proto3, package_name_prefix, Descriptor(files[file - 1], command))'
  OBVIOUS
<1> QED BY <1>1, <1>2, <1>3, <1>4 DEF OutputInv

LEMMA FileRefusedOutput ==
  ASSUME TypeInv, OutputInv, FileRefused
  PROVE  OutputInv'
<1>1. /\ phase = "running" /\ command.action # "benchmark" /\ messages = <<>> /\ file <= Len(files)
      /\ Refused(files[file], command) /\ phase' = "failed"
      /\ UNCHANGED <<files, command, stage, file, stdout, messages>>
  BY DEF FileRefused, AtFile, argumentVars, generatorVars, benchmarkVars
<1>2. command.action \in {"generate", "print"}
  BY <1>1 DEF OutputInv, CommandKnown, TypeInv, TypeOK
<1>3. Progress(files, command, file, "running", <<>>, stdout) /\ file \in 1 .. Len(files)
  <2>1. Progress(files, command, file, "running", <<>>, stdout)
    BY <1>1, <1>2 DEF OutputInv
  <2>2. file \in 1 .. Len(files) + 1 /\ Len(files) \in Nat
    BY <2>1, WrittenIs DEF Progress
  <2> QED BY <1>1, <2>1, <2>2
<1>4. Progress(files, command, file, "failed", <<>>, stdout)
  BY <1>1, <1>3, FileFails
<1>5. Progress(files, command, file', phase', messages', stdout')
  BY <1>1, <1>4
<1> QED BY <1>1, <1>2, <1>5, LoopOutput

LEMMA PrintOutput ==
  ASSUME TypeInv, OutputInv, PrintDescriptor
  PROVE  OutputInv'
<1>1. /\ phase = "running" /\ command.action = "print" /\ messages = <<>> /\ file <= Len(files)
      /\ ~Refused(files[file], command) /\ stdout' = stdout \o Printed(files[file]) /\ file' = file + 1
      /\ UNCHANGED <<files, command, stage, phase, messages>>
  BY DEF PrintDescriptor, AtFile, cmdlineVars, benchmarkVars
<1>2. Progress(files, command, file, "running", <<>>, stdout) /\ file \in 1 .. Len(files)
  <2>1. Progress(files, command, file, "running", <<>>, stdout)
    BY <1>1 DEF OutputInv
  <2>2. file \in 1 .. Len(files) + 1 /\ Len(files) \in Nat
    BY <2>1, WrittenIs DEF Progress
  <2> QED BY <1>1, <2>1, <2>2
<1> DEFINE text == Printed(files[file])
<1>3. text = Trees(files, files[file])
  BY DEF Printed, Trees
<1>4. Out(files, command, file) = [whole |-> TRUE, output |-> text]
  BY <1>1, <1>3 DEF Out
<1> HIDE DEF text
<1>5. Progress(files, command, file + 1, "running", <<>>, stdout \o text)
  BY <1>2, <1>4, FileWritten
<1>6. Progress(files, command, file', phase', messages', stdout')
  BY <1>1, <1>5 DEF text
<1> QED BY <1>1, <1>6, LoopOutput

LEMMA GenerateOutput ==
  ASSUME TypeInv, OutputInv, GenerateFile
  PROVE  OutputInv'
<1> DEFINE d == Descriptor(files[file], command)
<1>1. /\ phase = "running" /\ command.action = "generate" /\ messages = <<>> /\ file <= Len(files)
      /\ ~Refused(files[file], command) /\ stdout' = Append(stdout, Header(files[file])) /\ file' = file + 1
      /\ current_file_is_proto3' = (d.syntax = "proto3") /\ package_name_prefix' = d.package
      /\ messages' = d.messages
      /\ UNCHANGED <<files, command, stage, phase>>
  BY DEF GenerateFile, BeginFile, Syntax, AtFile, cmdlineVars, benchmarkVars
<1>2. Progress(files, command, file, "running", <<>>, stdout) /\ file \in 1 .. Len(files)
  <2>1. Progress(files, command, file, "running", <<>>, stdout)
    BY <1>1 DEF OutputInv
  <2>2. file \in 1 .. Len(files) + 1 /\ Len(files) \in Nat
    BY <2>1, WrittenIs DEF Progress
  <2> QED BY <1>1, <2>1, <2>2
<1>3. d = Descriptor(files[file], command)
  OBVIOUS
<1>4. (file + 1) - 1 = file
  BY <1>2
<1>5. Descriptor(files[file' - 1], command) = d
  BY <1>1, <1>4
<1> HIDE DEF d
<1>6. Progress(files, command, file + 1, "running", d.messages, Append(stdout, Header(files[file])))
  BY <1>1, <1>2, <1>3, FileBegun
<1>7. Progress(files, command, file', phase', messages', stdout')
  BY <1>1, <1>6
<1>8. Knows(current_file_is_proto3', package_name_prefix', d)
  BY <1>1 DEF Knows
<1> QED BY <1>1, <1>5, <1>7, <1>8, LoopOutput

LEMMA MessageOutput ==
  ASSUME TypeInv, OutputInv, NextMessage
  PROVE  OutputInv'
<1> DEFINE d == Descriptor(files[file - 1], command)
           code == CodeOf(Head(messages), command)
<1>1. /\ phase = "running" /\ messages # <<>>
      /\ stdout' = IF code = <<Fault>> THEN stdout ELSE stdout \o code
      /\ messages' = IF code = <<Fault>> THEN <<>> ELSE Tail(messages)
      /\ phase' = IF code = <<Fault>> THEN "failed" ELSE phase
      /\ UNCHANGED <<files, command, stage, file, current_file_is_proto3, package_name_prefix>>
  BY DEF NextMessage, GenerateMessage, argumentVars, benchmarkVars
<1>2. command.action \in {"generate", "print"}
  BY <1>1 DEF OutputInv
<1>3. /\ Progress(files, command, file, "running", messages, stdout)
      /\ Knows(current_file_is_proto3, package_name_prefix, d)
  BY <1>1, <1>2 DEF OutputInv
<1> DEFINE j == Len(d.messages) + 1 - Len(messages)
           fits == Code(d, command, j)
<1>4. d = Descriptor(files[file - 1], command) /\ fits = Code(d, command, Len(d.messages) + 1 - Len(messages))
  OBVIOUS
<1> HIDE DEF d, fits, code
<1>5. /\ Head(messages) = d.messages[j]
      /\ fits = <<Fault>> => Progress(files, command, file, "failed", <<>>, stdout)
      /\ fits # <<Fault>> => Progress(files, command, file, "running", Tail(messages), stdout \o fits)
  BY <1>1, <1>3, <1>4, MessageGenerated
<1>6. code = fits
  <2>1. code = MessageCode(d.messages[j], command, current_file_is_proto3, package_name_prefix, <<d.messages[j].name>>)
    BY <1>5 DEF code, CodeOf
  <2>2. current_file_is_proto3 = (d.syntax = "proto3") /\ package_name_prefix = d.package
    BY <1>3 DEF Knows
  <2> HIDE DEF j
  <2> QED BY <2>1, <2>2 DEF fits, Code
<1>7. Progress(files, command, file', phase', messages', stdout')
  BY <1>1, <1>5, <1>6
<1>8. Knows(current_file_is_proto3', package_name_prefix', Descriptor(files[file' - 1], command))
  BY <1>1, <1>3 DEF d
<1>9. phase' \in {"running", "failed"}
  BY <1>1
<1> QED BY <1>1, <1>2, <1>7, <1>8, <1>9, LoopOutput

LEMMA DoneOutput ==
  ASSUME TypeInv, OutputInv, AllFilesDone
  PROVE  OutputInv'
<1>1. /\ phase = "running" /\ command.action # "benchmark" /\ messages = <<>> /\ file > Len(files)
      /\ phase' = "done"
      /\ UNCHANGED <<files, command, stage, file, stdout, messages>>
  BY DEF AllFilesDone, argumentVars, generatorVars, benchmarkVars
<1>2. command.action \in {"generate", "print"}
  BY <1>1 DEF OutputInv, CommandKnown, TypeInv, TypeOK
<1>3. Progress(files, command, file, "running", <<>>, stdout)
  BY <1>1, <1>2 DEF OutputInv
<1>4. Progress(files, command, file, "done", <<>>, stdout)
  BY <1>1, <1>3, LoopEnds
<1>5. Progress(files, command, file', phase', messages', stdout')
  BY <1>1, <1>4
<1> QED BY <1>1, <1>2, <1>5, LoopOutput

LEMMA NextOutput ==
  ASSUME IInv, TypeInv, OutputInv, [Next]_vars
  PROVE  OutputInv'
<1>1. CASE ReadCommandLine
  BY <1>1, ReadingOutput
<1>2. CASE FileRefused
  BY <1>2, FileRefusedOutput
<1>3. CASE PrintDescriptor
  BY <1>3, PrintOutput
<1>4. CASE GenerateFile
  BY <1>4, GenerateOutput
<1>5. CASE NextMessage
  BY <1>5, MessageOutput
<1>6. CASE AllFilesDone
  BY <1>6, DoneOutput
<1>7. CASE Benchmark
  <2>1. command.action = "benchmark" /\ phase = "running"
        /\ UNCHANGED <<command, phase, messages, stdout>>
    BY <1>7 DEF Benchmark, cmdlineVars, generatorVars
  <2> QED BY <2>1 DEF OutputInv, CommandKnown
<1>8. CASE BenchmarkEnds
  <2>1. /\ stage # "idle" /\ phase = "running" /\ phase' \in {"done", "failed"}
        /\ UNCHANGED <<command, stage, messages, stdout>>
    BY <1>8 DEF BenchmarkEnds, argumentVars, generatorVars, benchmarkVars
  <2> QED BY <2>1 DEF OutputInv, CommandKnown
<1>9. CASE TimePasses \/ UNCHANGED vars
  <2>1. UNCHANGED <<files, command, phase, stage, file, messages, stdout, current_file_is_proto3, package_name_prefix>>
    BY <1>9 DEF TimePasses, Tick, vars, cmdlineVars, generatorVars, benchmarkVars
  <2>2. Progress(files, command, file, phase, messages, stdout)'
          = Progress(files, command, file, phase, messages, stdout)
    BY <2>1
  <2>3. Knows(current_file_is_proto3, package_name_prefix, Descriptor(files[file - 1], command))'
          = Knows(current_file_is_proto3, package_name_prefix, Descriptor(files[file - 1], command))
    BY <2>1
  <2> QED BY <2>1, <2>2, <2>3 DEF OutputInv, CommandKnown
<1> QED BY <1>1, <1>2, <1>3, <1>4, <1>5, <1>6, <1>7, <1>8, <1>9 DEF Next, Program

LEMMA OutputInvariance == Spec => []OutputInv
<1>1. Init => OutputInv
  <2> SUFFICES ASSUME Init PROVE OutputInv
    OBVIOUS
  <2>1. /\ phase = "arguments" /\ command.action = "none" /\ file = 1 /\ stage = "idle"
        /\ messages = <<>> /\ stdout = <<>>
    BY DEF Init, CommandLineInit, GeneratorInit, BenchmarkInit
  <2> QED BY <2>1 DEF OutputInv, CommandKnown
<1>2. IInv /\ TypeInv /\ OutputInv /\ [Next]_vars => OutputInv'
  BY NextOutput
<1> QED BY <1>1, <1>2, Invariance, TypeInvariance, PTL DEF Spec

(* At every moment stdout begins what is owed for the files, and when the  *)
(* program ends it is all of it, or all before the message or the file at  *)
(* which it failed, each file's as if it were the only one (main.cpp's     *)
(* loop over the files and generator()).                                   *)
THEOREM OutputInOrder == Spec => []OutputIsFilesInOrder
<1>1. OutputInv => OutputIsFilesInOrder
  BY OutputKnown
<1> QED BY <1>1, OutputInvariance, PTL

-----------------------------------------------------------------------------
(* The code of a supported message calls what the library has.             *)
FieldCompiles(f) ==
    /\ LibraryHas(f.put, f.method) /\ LibraryHas(f.get, f.method)
    /\ f.type[1] = f.get
    /\ f.required => f.has
    /\ f.put = "packed" => f.get = "repeated"
    /\ f.has => f.get = "single"

PieceCompiles(piece) ==
    piece.kind \in {"class", "encoder", "decoder"} =>
        \A j \in DOMAIN piece.fields : FieldCompiles(piece.fields[j])

(* The last field of a map entry with a number, if it is not malformed.    *)
LEMMA NumberedIs ==
  ASSUME NEW n, n.fields \in Seq(ToSet(n.fields)), NEW number, Numbered(n, number) # 0
  PROVE  Numbered(n, number) \in DOMAIN n.fields /\ n.fields[Numbered(n, number)].number = number
<1> DEFINE I == {i \in 1 .. Len(n.fields) : n.fields[i].number = number}
<1>1. Numbered(n, number) = IF I # {} THEN Max(I) ELSE 0
  BY DEF Numbered, SelectLastInSeq
<1>2. Len(n.fields) \in Nat /\ DOMAIN n.fields = 1 .. Len(n.fields)
  OBVIOUS
<1>3. I \subseteq 0 .. Len(n.fields)
  OBVIOUS
<1> HIDE DEF I
<1>4. I # {}
  BY <1>1
<1>5. Max(I) \in I
  BY <1>2, <1>3, <1>4, GreatestNatural
<1> QED BY <1>1, <1>2, <1>4, <1>5 DEF I

MapSupported(map) ==
    map # Nothing => map.key.type \in ScalarMethods /\ map.value.type \in ScalarMethods \cup {"message"}

LEMMA MapIs ==
  ASSUME NEW m, Supported(m), ~MalformedEntry(m), NEW field, NEW package, NEW prefix
  PROVE  /\ FindMapType(field, m, package, prefix) # Nothing => IsRepeated(field)
         /\ MapSupported(FindMapType(field, m, package, prefix))
<1> DEFINE map == FindMapType(field, m, package, prefix)
           named == {n \in MapEntries(m) :
                       field.type = "message" /\ package \o prefix \o <<n.name>> = field.type_name}
<1>1. CASE ~IsRepeated(field) \/ named = {}
  <2>1. map = Nothing
    BY <1>1 DEF FindMapType
  <2> QED BY <2>1 DEF MapSupported
<1>2. CASE IsRepeated(field) /\ named # {}
  <2> DEFINE n == CHOOSE n \in named : TRUE
  <2>1. n \in MapEntries(m)
    BY <1>2
  <2>2. map = [kind |-> "map", key |-> n.fields[Numbered(n, 1)], value |-> n.fields[Numbered(n, 2)]]
    BY <1>2 DEF FindMapType
  <2> HIDE DEF n, map
  <2>3. Numbered(n, 1) # 0 /\ Numbered(n, 2) # 0
    BY <2>1 DEF MalformedEntry
  <2>4. n.fields \in Seq(ToSet(n.fields))
    BY <2>1 DEF Supported
  <2>5. /\ Numbered(n, 1) \in DOMAIN n.fields /\ n.fields[Numbered(n, 1)].number = 1
        /\ Numbered(n, 2) \in DOMAIN n.fields
    BY <2>3, <2>4, NumberedIs
  <2>6. /\ n.fields[Numbered(n, 1)].type \in ScalarMethods \cup {"message"}
        /\ n.fields[Numbered(n, 1)].type # "message"
        /\ n.fields[Numbered(n, 2)].type \in ScalarMethods \cup {"message"}
    BY <2>1, <2>5 DEF Supported
  <2> QED BY <1>2, <2>2, <2>6 DEF MapSupported, map
<1> QED BY <1>1, <1>2

LEMMA FieldIs ==
  ASSUME NEW field, field.type \in ScalarMethods \cup {"message"},
         NEW map, map # Nothing => IsRepeated(field), MapSupported(map),
         NEW c, "no-has-fields" \in c.option => "no-required" \in c.option,
         NEW proto3, NEW package, NEW prefix
  PROVE  FieldCompiles(FieldCode(field, map, c, proto3, package, prefix))
<1> DEFINE f == FieldCode(field, map, c, proto3, package, prefix)
<1>1. /\ f.type[1] = IF map # Nothing THEN "map" ELSE IF IsRepeated(field) THEN "repeated" ELSE "single"
      /\ f.get = IF map # Nothing THEN "map" ELSE IF IsRepeated(field) THEN "repeated" ELSE "single"
  BY DEF FieldCode
<1>2. f.put = IF map # Nothing THEN "map" ELSE IF ~IsRepeated(field) THEN "single"
              ELSE IF WriteAsPacked(field, c, proto3) THEN "packed" ELSE "repeated"
  BY DEF FieldCode
<1>3. f.has = HasFieldEnabled(field, c) /\ f.required = (field.label = "required" /\ "no-required" \notin c.option)
  BY DEF FieldCode
<1>4. f.method = IF map # Nothing THEN <<map.key.type, map.value.type>> ELSE <<field.type>>
  BY DEF FieldCode
<1>5. map # Nothing => f.method[1] \in ScalarMethods /\ f.method[2] \in ScalarMethods \cup {"message"}
  BY <1>4 DEF MapSupported
<1>6. map = Nothing => f.method[1] = field.type
  BY <1>4
<1>7. WriteAsPacked(field, c, proto3) => IsRepeated(field) /\ field.type \in ScalarMethods \ {"string", "bytes"}
  BY DEF WriteAsPacked, IsNumeric
<1>8. LibraryHas(f.put, f.method)
  BY <1>2, <1>5, <1>6, <1>7 DEF LibraryHas
<1>9. LibraryHas(f.get, f.method)
  BY <1>1, <1>5, <1>6 DEF LibraryHas
<1>10. f.required => f.has
  <2>1. field.label = "required" => ~IsRepeated(field)
    BY DEF IsRepeated
  <2> QED BY <1>3, <2>1 DEF HasFieldEnabled
<1>11. f.has => f.get = "single"
  BY <1>1, <1>3 DEF HasFieldEnabled
<1>12. f.put = "packed" => f.get = "repeated"
  BY <1>1, <1>2
<1> QED BY <1>1, <1>8, <1>9, <1>10, <1>11, <1>12 DEF FieldCompiles

LEMMA CodeIs ==
  ASSUME NEW d, NEW c, "no-has-fields" \in c.option => "no-required" \in c.option,
         NEW j, Supported(d.messages[j]), NEW piece \in ToSet(Code(d, c, j))
  PROVE  PieceCompiles(piece)
<1> DEFINE m == d.messages[j]
           maps == [i \in DOMAIN m.fields |-> FindMapType(m.fields[i], m, d.package, <<m.name>>)]
           fields == [i \in DOMAIN maps |-> FieldCode(m.fields[i], maps[i], c, d.syntax = "proto3", d.package, <<m.name>>)]
           P(kind) == [kind |-> kind, message |-> m.name, fields |-> fields]
           B == {P("class"), P("encoder"), P("decoder")}
<1>1. Code(d, c, j) = IF Faulty(m, maps, c) THEN <<Fault>> ELSE Pieces(m.name, fields, c)
  BY DEF Code, MessageCode, CodeWithMaps
<1>2. CASE Faulty(m, maps, c)
  <2>1. piece = Fault
    BY <1>1, <1>2 DEF ToSet
  <2> QED BY <2>1 DEF PieceCompiles, Fault
<1>3. CASE ~Faulty(m, maps, c)
  <2>1. \A kind \in {"class", "encoder", "decoder"} : Piece(kind, m.name, fields, c) \in Seq(B)
    <3>1. \A kind \in {"class", "encoder", "decoder"} : P(kind) \in B
      OBVIOUS
    <3>2. \A kind : Piece(kind, m.name, fields, c) \in {<<>>, <<P(kind)>>}
      BY DEF Piece
    <3> HIDE DEF P, B, fields
    <3>3. <<>> \in Seq(B) /\ \A p \in B : <<p>> \in Seq(B)
      OBVIOUS
    <3> QED BY <3>1, <3>2, <3>3
  <2>2. piece \in B
    <3> HIDE DEF B, fields
    <3>1. Pieces(m.name, fields, c) \in Seq(B)
      BY <2>1 DEF Pieces
    <3>2. Code(d, c, j) \in Seq(B)
      BY <1>1, <1>3, <3>1
    <3> QED BY <3>2 DEF ToSet
  <2>3. piece.fields = fields
    <3> HIDE DEF fields
    <3> QED BY <2>2
  <2>4. ASSUME NEW i \in DOMAIN fields
        PROVE  FieldCompiles(fields[i])
    <3> DEFINE field == m.fields[i]
               map == FindMapType(field, m, d.package, <<m.name>>)
    <3>1. i \in DOMAIN m.fields /\ maps[i] = map
      OBVIOUS
    <3>2. field.type \in ScalarMethods \cup {"message"}
      BY <3>1 DEF Supported
    <3>3. ~MalformedEntry(m)
      BY <1>3 DEF Faulty
    <3>4. fields[i] = FieldCode(field, map, c, d.syntax = "proto3", d.package, <<m.name>>)
      OBVIOUS
    <3> HIDE DEF field
    <3>5. (map # Nothing => IsRepeated(field)) /\ MapSupported(map)
      BY <3>3, MapIs
    <3> HIDE DEF map, fields
    <3>6. FieldCompiles(FieldCode(field, map, c, d.syntax = "proto3", d.package, <<m.name>>))
      BY <3>2, <3>5, FieldIs
    <3> QED BY <3>4, <3>6
  <2> HIDE DEF fields
  <2> QED BY <2>3, <2>4 DEF PieceCompiles
<1> QED BY <1>2, <1>3

LEMMA TextsCompile ==
  ASSUME AllSupported, NEW c, c.format \in {"set", "source"},
         "no-has-fields" \in c.option => "no-required" \in c.option,
         NEW piece \in Texts(c)
  PROVE  PieceCompiles(piece)
<1>1. CASE \E name \in Arguments :
             piece \in {Header(name), [kind |-> "title", file |-> name], [kind |-> "tree", file |-> name]}
  <2>1. piece.kind \in {"header", "title", "tree"}
    BY <1>1 DEF Header
  <2> QED BY <2>1 DEF PieceCompiles
<1>2. CASE \E name \in Arguments :
             /\ Descriptor(name, c) # Fault
             /\ \E code \in CodesOf(Descriptor(name, c), c) : piece \in ToSet(code)
  <2>1. PICK name \in Arguments :
             /\ Descriptor(name, c) # Fault
             /\ \E code \in CodesOf(Descriptor(name, c), c) : piece \in ToSet(code)
    BY <1>2
  <2> DEFINE d == Descriptor(name, c)
  <2>2. PICK j \in DOMAIN d.messages : piece \in ToSet(Code(d, c, j))
    BY <2>1 DEF CodesOf
  <2>3. d = Descriptor(name, [format |-> c.format])
    BY DEF Descriptor
  <2>4. d.messages[j] \in ToSet(d.messages)
    BY <2>1, <2>2, MessagesListed DEF ToSet
  <2>5. Supported(d.messages[j])
    BY <2>1, <2>3, <2>4 DEF AllSupported
  <2> HIDE DEF d
  <2> QED BY <2>2, <2>5, CodeIs
<1> QED BY <1>1, <1>2 DEF Texts

LEMMA OutputTyped ==
  ASSUME NEW fs, NEW c, NEW f, NEW ph, NEW ms, NEW out, Progress(fs, c, f, ph, ms, out)
  PROVE  out \in Seq(Texts(c))
<1> DEFINE A == Texts(c)
           k == f - 1
           d == Descriptor(fs[k], c)
<1>1. /\ OverFiles(fs, c) /\ f \in 1 .. Len(fs) + 1
      /\ ph \in {"running", "failed", "done"}
  BY DEF Progress
<1>2. /\ Len(fs) \in Nat /\ DOMAIN fs = 1 .. Len(fs)
      /\ \A i \in 0 .. Len(fs) : Written(fs, c, i) \in Seq(A)
  BY <1>1, WrittenIs
<1>3. f - 1 \in 0 .. Len(fs) /\ Len(fs) \in 0 .. Len(fs) /\ (f > 1 => f - 1 \in 1 .. Len(fs) /\ (f - 1) - 1 \in 0 .. Len(fs))
  BY <1>1, <1>2
<1> HIDE DEF A
<1>4. CASE ms # <<>>
  <2>1. f > 1 /\ Within(fs, c, k, d, ms, out)
    BY <1>4 DEF Progress
  <2>2. k \in DOMAIN fs /\ k - 1 \in 0 .. Len(fs) /\ d = Descriptor(fs[k], c)
    BY <1>2, <1>3, <2>1
  <2> HIDE DEF k, d
  <2>3. c.action = "generate" /\ ~Refused(fs[k], c)
    BY <2>1 DEF Within
  <2>4. PICK j \in 0 .. Len(d.messages) - 1 :
          /\ \A i \in 1 .. j : Code(d, c, i) # <<Fault>>
          /\ out = Written(fs, c, k - 1) \o PartOf(fs[k], d, c, j)
    BY <2>1 DEF Within
  <2>5. fs[k] \in Arguments /\ c.format \in {"set", "source"} /\ d # Fault
    BY <1>1, <2>2, <2>3 DEF OverFiles, Refused
  <2>6. Len(d.messages) \in Nat
    BY <2>2, <2>5, MessagesListed
  <2>7. j \in 0 .. Len(d.messages)
    BY <2>6
  <2>8. PartOf(fs[k], d, c, j) \in Seq(A)
    BY <2>2, <2>5, <2>7, PartIs DEF A
  <2>9. Written(fs, c, k - 1) \in Seq(A)
    BY <1>2, <2>2
  <2> QED BY <2>4, <2>8, <2>9 DEF A
<1>5. CASE ms = <<>>
  <2>1. \E i \in 0 .. Len(fs) : out = Written(fs, c, i)
    <3>1. CASE ph = "running"
      BY <1>3, <1>5, <3>1 DEF Progress, Between
    <3>2. CASE ph = "failed"
      <4>1. PICK i \in 1 .. Len(fs) : out = Written(fs, c, i)
        BY <3>2 DEF Progress, Cut
      <4>2. i \in 0 .. Len(fs)
        BY <1>2
      <4> QED BY <4>1, <4>2
    <3>3. CASE ph = "done"
      BY <1>3, <3>3 DEF Progress, Between
    <3> QED BY <1>1, <3>1, <3>2, <3>3
  <2> QED BY <1>2, <2>1 DEF A
<1> QED BY <1>4, <1>5

(* The code written for supported messages is consistent, whatever the     *)
(* options: it calls methods the library has, with a variable of the right *)
(* shape, and checks flags only where the struct has them (codegen.cpp and *)
(* the options that main.cpp completes).                                   *)
THEOREM CodeCompiles ==
  ASSUME AllSupported
  PROVE  Spec => []GeneratedCodeCompiles
<1>1. ASSUME OutputInv
      PROVE  GeneratedCodeCompiles
  <2>1. SUFFICES ASSUME NEW i \in DOMAIN stdout
                 PROVE  PieceCompiles(stdout[i])
    BY DEF GeneratedCodeCompiles, PieceCompiles, FieldCompiles
  <2>2. CASE command.action \in {"generate", "print"}
    <3> DEFINE A == Texts(command)
    <3>1. /\ Progress(files, command, file, phase, messages, stdout)
          /\ "no-has-fields" \in command.option => "no-required" \in command.option
      BY <1>1, <2>2 DEF OutputInv
    <3>2. command.format \in {"set", "source"}
      BY <3>1 DEF Progress, OverFiles
    <3>3. stdout \in Seq(A)
      BY <3>1, OutputTyped
    <3> HIDE DEF A
    <3>4. stdout[i] \in A
      BY <3>3
    <3> QED BY <3>1, <3>2, <3>4, TextsCompile DEF A
  <2>3. CASE command.action \notin {"generate", "print"}
    <3>1. stdout = <<>>
      BY <1>1, <2>3 DEF OutputInv
    <3> QED BY <3>1
  <2> QED BY <2>2, <2>3
<1>2. OutputInv => GeneratedCodeCompiles
  BY <1>1
<1> QED BY <1>2, OutputInvariance, PTL
=============================================================================

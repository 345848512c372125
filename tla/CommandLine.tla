----------------------------- MODULE CommandLine ----------------------------
(***************************************************************************)
(* The command line of codegen: the options library reads the arguments    *)
(* one by one (popl::OptionParser::parse), parse_cmdline then refuses      *)
(* combinations that make no sense, completes the options and chooses the  *)
(* input format.                                                           *)
(*                                                                         *)
(* An argument is a record: "--", a long option with or without "=value",  *)
(* a cluster of short options, or any other word.  The text of a word      *)
(* matters in three ways, which are constants: it may be a number, a name  *)
(* that ends in ".pbs", or a container template with placeholders.         *)
(***************************************************************************)
EXTENDS Integers, Sequences, SequencesExt, FiniteSets

CONSTANTS
    CommandLines,       \* the argument vectors a user may type
    NumberOf,           \* the words that are numbers, with their values
    PbsNames,           \* the words that end in ".pbs"
    Placeholders,       \* the words with placeholders, with the types they ask for
    MIN_BENCHMARK       \* 100 milliseconds in the code

Arguments == UNION { {line[i] : i \in DOMAIN line} : line \in CommandLines }

ASSUME LinesAssumption ==
    /\ CommandLines \subseteq Seq(Arguments)
    /\ \A arg \in Arguments : arg.kind = "short" => arg.letters \in Seq(ToSet(arg.letters))

ASSUME TimeAssumption ==
    /\ MIN_BENCHMARK \in Nat
    /\ \A word \in DOMAIN NumberOf : NumberOf[word] \in Int

VARIABLES
    argv,           \* the arguments
    next,           \* the first argument not read yet
    given,          \* the options set so far
    values,         \* the last value of each option that takes one
    files,          \* arguments that are not options
    phase,          \* "arguments", then how parse_cmdline ended
    command         \* what the program is to do, once it is known

cmdlineVars == <<argv, next, given, values, files, phase, command>>

GenerationSwitches ==
    { "no-class", "no-decoder", "no-encoder", "no-has-fields", "no-required",
      "no-default-values", "packed", "no-packed" }
Switches ==
    GenerationSwitches
    \cup {"help", "groff", "bash", "descriptor-set", "print-descriptor", "benchmark-parser"}
TypeOptions == {"string-type", "repeated-type", "map-type"}
ValueOptions == TypeOptions \cup {"benchmark-ms"}
GenerationOptions == GenerationSwitches \cup TypeOptions

ShortNames ==
    [ h |-> "help", c |-> "no-class", d |-> "no-decoder", e |-> "no-encoder", f |-> "no-has-fields",
      p |-> "packed", s |-> "string-type", r |-> "repeated-type", m |-> "map-type" ]

NoValue == [kind |-> "none"]
Word(text) == [kind |-> "word", text |-> text]

-----------------------------------------------------------------------------
(* What one argument says by itself: the switches it sets, the option it   *)
(* gives a value to, and that value if the argument holds it.              *)
LongOption(arg) ==
    [ switches |-> IF arg.value = NoValue THEN {arg.name} \cap Switches ELSE {},
      valued   |-> {arg.name} \cap ValueOptions,
      value    |-> arg.value ]

ShortCluster(arg) ==
    LET named == [i \in DOMAIN arg.letters |->
                    IF arg.letters[i] \in DOMAIN ShortNames THEN ShortNames[arg.letters[i]] ELSE ""]
        last == SelectInSeq(named, LAMBDA n : n \in ValueOptions)   \* the rest is its value
        head == IF last = 0 THEN named ELSE SubSeq(named, 1, last - 1)
    IN  [ switches |-> ToSet(head) \cap Switches,
          valued   |-> IF last = 0 THEN {} ELSE {named[last]},
          value    |-> IF last \in {0, Len(named)} THEN NoValue ELSE Word("rest") ]

Reading(arg) == IF arg.kind = "long" THEN LongOption(arg) ELSE ShortCluster(arg)

(* An option whose argument holds no value takes the next argument,        *)
(* whatever it is, if there is one.                                        *)
WantsValue(arg) == Reading(arg).valued # {} /\ Reading(arg).value = NoValue
TakesNext(args, n) == WantsValue(args[n]) /\ n < Len(args)

(* Mutant of After: the value is looked at and not stepped over.           *)
AfterOption(args, n) == n + 1

After(args, n) == IF TakesNext(args, n) THEN n + 2 ELSE n + 1

Parses(o, value) ==
    IF o = "benchmark-ms"
    THEN value.kind = "word" /\ value.text \in DOMAIN NumberOf
    ELSE value # NoValue

CommandLineInit ==
    /\ argv \in CommandLines
    /\ next = 1
    /\ given = {}
    /\ values = [o \in ValueOptions |-> NoValue]
    /\ files = <<>>
    /\ phase = "arguments"
    /\ command = [action |-> "none"]

At(kinds) == phase = "arguments" /\ next <= Len(argv) /\ argv[next].kind \in kinds

ReadOption ==
    /\ At({"long", "short"})
    /\ LET r == Reading(argv[next])
           taken == TakesNext(argv, next)
           value == IF taken THEN argv[next + 1] ELSE r.value
       IN  /\ given' = given \cup r.switches \cup r.valued
           /\ values' = [o \in ValueOptions |-> IF o \in r.valued THEN value ELSE values[o]]
           /\ next' = After(argv, next)
           /\ phase' = IF \A o \in r.valued : Parses(o, value) THEN phase ELSE "failed"
    /\ UNCHANGED <<argv, files, command>>

ReadWord ==
    /\ At({"word"})
    /\ files' = Append(files, argv[next])
    /\ next' = next + 1
    /\ UNCHANGED <<argv, given, values, phase, command>>

(* The rest of the arguments are names; the loop over the arguments goes   *)
(* on with them all the same.                                              *)
ReadDashes ==
    /\ At({"dashes"})
    /\ files' = files \o SubSeq(argv, next + 1, Len(argv))
    /\ next' = next + 1
    /\ UNCHANGED <<argv, given, values, phase, command>>

-----------------------------------------------------------------------------
Action(set) ==
    IF "benchmark-parser" \in set THEN "benchmark"
    ELSE IF "print-descriptor" \in set THEN "print" ELSE "generate"

Milliseconds == IF "benchmark-ms" \in given THEN NumberOf[values["benchmark-ms"].text] ELSE MIN_BENCHMARK

IsPbs(name) == name.kind = "word" /\ name.text \in PbsNames
AnyPbs == \E i \in DOMAIN files : IsPbs(files[i])
AnySource == \E i \in DOMAIN files : ~IsPbs(files[i])

Conflict(set) ==
    \/ {"print-descriptor", "benchmark-parser"} \subseteq set
    \/ "benchmark-ms" \in set /\ (Milliseconds < MIN_BENCHMARK \/ Action(set) # "benchmark")
    \/ Action(set) = "benchmark" /\ "descriptor-set" \in set
    \/ Action(set) # "generate" /\ set \cap GenerationOptions # {}
    \/ {"packed", "no-packed"} \subseteq set

(* Mutant of Completed: the options are taken as they were given.          *)
AsGiven(set) == set

(* A required field is checked through its has_ flag: without the flags    *)
(* there is no check.                                                      *)
Completed(set) ==
    IF "no-has-fields" \in set THEN set \cup {"no-required"} ELSE set

(* A container template may ask for more types than the generator gives it.*)
TypesGiven == [o \in {"repeated-type", "map-type"} |-> IF o = "map-type" THEN 2 ELSE 1]
TypesAsked(value) ==
    IF value.kind = "word" /\ value.text \in DOMAIN Placeholders THEN Placeholders[value.text] ELSE 0

Format(set) == IF "descriptor-set" \in set \/ AnyPbs THEN "set" ELSE "source"

CheckOptions ==
    /\ phase = "arguments" /\ next > Len(argv)
    /\ phase' = IF given \cap {"help", "groff", "bash"} # {} \/ files = <<>> THEN "help"
                ELSE IF Conflict(given) \/ ("descriptor-set" \notin given /\ AnyPbs /\ AnySource)
                THEN "failed" ELSE "running"
    /\ command' = IF phase' = "running"
                  THEN [ action |-> Action(given), format |-> Format(given),
                         option |-> Completed(given \cap GenerationSwitches),
                         wide |-> {o \in DOMAIN TypesGiven : TypesAsked(values[o]) > TypesGiven[o]},
                         milliseconds |-> Milliseconds ]
                  ELSE command
    /\ UNCHANGED <<argv, next, given, values, files>>

ParseCommandLine == ReadOption \/ ReadWord \/ ReadDashes \/ CheckOptions

-----------------------------------------------------------------------------
(* PROPERTIES                                                              *)

(* Every argument plays one part: an option, the value of the one before   *)
(* it, or a file, decided from left to right; what the program is told is  *)
(* what the options and files say.  About the loop that advances over the  *)
(* values it takes (popl.hpp:997), for arguments without "--".             *)
IsValue ==
    LET value[n \in 0..Len(argv)] ==
            /\ n > 1
            /\ ~value[n - 1]
            /\ argv[n - 1].kind \in {"long", "short"}
            /\ WantsValue(argv[n - 1])
    IN  value

EachArgumentReadOnce ==
    phase \notin {"arguments", "failed"} /\ (\A i \in DOMAIN argv : argv[i].kind # "dashes") =>
        LET options == {i \in DOMAIN argv : argv[i].kind \in {"long", "short"} /\ ~IsValue[i]}
            names == {i \in DOMAIN argv : argv[i].kind = "word" /\ ~IsValue[i]}
        IN  /\ given = UNION {Reading(argv[i]).switches \cup Reading(argv[i]).valued : i \in options}
            /\ ToSet(files) = {argv[i] : i \in names}
            /\ Len(files) = Cardinality(names)

(* After "--" there are only names, each of them once (the comment at      *)
(* popl.hpp:1004).  The loop reads these arguments a second time.          *)
OnlyNamesAfterDashes ==
    \A d \in DOMAIN argv :
        phase = "running" /\ argv[d].kind = "dashes" /\ (\A i \in 1..d - 1 : argv[i].kind = "word") =>
            files = SubSeq(argv, 1, d - 1) \o SubSeq(argv, d + 1, Len(argv)) /\ given = {}
=============================================================================

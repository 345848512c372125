--------------------------- MODULE ParserBenchmark --------------------------
(***************************************************************************)
(* The parser benchmark (run_parser_benchmark): all files are read, parsed *)
(* once without being measured, and then parsed round after round until a  *)
(* monotonic clock says that enough time has passed.                       *)
(***************************************************************************)
EXTENDS Naturals, Sequences

CONSTANTS
    MAX_CLOCK,      \* bound: ticks before measuring begins
    MAX_ELAPSED,    \* bound: ticks while measuring
    MAX_ROUNDS      \* bound: rounds that are counted

ASSUME RoundsAssumption == MAX_ROUNDS \in Nat \ {0}

VARIABLES
    clock,          \* std::chrono::steady_clock
    stage,          \* "idle", "read", "warm-up", "measure", "report", "failed"
    source,         \* index of the file to be read or parsed next
    started,        \* the clock when measuring began
    rounds          \* rounds measured, up to MAX_ROUNDS

benchmarkVars == <<clock, stage, source, started, rounds>>

BenchmarkInit ==
    /\ clock = 0
    /\ stage = "idle"
    /\ source = 1
    /\ started = 0
    /\ rounds = 0

Tick ==
    /\ clock < IF stage = "measure" THEN started + MAX_ELAPSED ELSE MAX_CLOCK
    /\ clock' = clock + 1
    /\ UNCHANGED <<stage, source, started, rounds>>

StartBenchmark ==
    /\ stage = "idle"
    /\ stage' = "read"
    /\ UNCHANGED <<clock, source, started, rounds>>

(* Mutant of Following: the index is not reset for the next stage.         *)
FollowingUnbounded(n) == source + 1

Following(n) == IF source = n THEN 1 ELSE source + 1

(* The step over the next of n files, which succeeds or ends the program;  *)
(* after the last one comes the next stage.                                *)
Over(this, after, n, ok) ==
    /\ stage = this
    /\ stage' = IF ~ok THEN "failed" ELSE IF source = n THEN after ELSE this
    /\ source' = Following(n)

ReadSource(n, readable) ==
    /\ Over("read", "warm-up", n, readable)
    /\ UNCHANGED <<clock, started, rounds>>

(* Mutant of WarmUp: only the first file is parsed.                        *)
WarmUpFirst(n, parses) ==
    /\ Over("warm-up", "measure", 1, parses)
    /\ started' = clock
    /\ UNCHANGED <<clock, rounds>>

WarmUp(n, parses) ==
    /\ Over("warm-up", "measure", n, parses)
    /\ started' = clock
    /\ UNCHANGED <<clock, rounds>>

(* Mutant of Elapsed: time is measured by whole rounds, from the last one. *)
ElapsedOfRound == IF rounds = 0 THEN clock - started ELSE 0

Elapsed == clock - started

MeasuredParse(n, parses, minimum) ==
    /\ Over("measure", IF Elapsed >= minimum THEN "report" ELSE "measure", n, parses)
    /\ rounds' = IF source = n /\ rounds < MAX_ROUNDS THEN rounds + 1 ELSE rounds
    /\ UNCHANGED <<clock, started>>
=============================================================================

------------------------------ MODULE SuiteRun ------------------------------
(***************************************************************************)
(* run_tests: the set-up barrier, the tests at most parallel_jobs at a     *)
(* time, the tear-down barrier, the reports and the exit code.             *)
(*                                                                         *)
(* Everything runs on one task: fixtures one after the other, the tests as *)
(* futures of one buffer_unordered stream that pulls the next work item    *)
(* when it has room.  A test is the interval between its on_test_start and *)
(* its on_test_end; what happens in it is TestRun's.                       *)
(***************************************************************************)
EXTENDS Naturals, Sequences, FiniteSets

CONSTANTS
    NumDirs,        \* the directories, in path order
    Works,          \* the lists of work items considered
    NumReporters,
    Parallels       \* values of --parallel considered: 0 is legal

Dirs == 1..NumDirs
WorkItem == [dir : Dirs, error : BOOLEAN]

ASSUME SuiteAssumption ==
    /\ NumDirs \in Nat /\ NumReporters \in Nat /\ Parallels \subseteq Nat
    /\ Works \subseteq Seq(WorkItem)

VARIABLES
    parallel, work, setups, teardowns,
    phase,              \* "collect", "setup", "tests", "teardown", "flush"
    dir,                \* the directory a fixture loop is at
    next,               \* the work item the stream pulls next
    running,            \* the tests in flight
    dir_setup_vars,     \* directories whose tests are seeded
    dirs_setup_failed,
    seeded,             \* tests that started with their set-up's variables
    passed, failed,     \* test_results and fixture_results, as sets of units
    reported,           \* on_test_end calls each reporter has had
    flushed,            \* reporters whose on_suite_end is done
    exit_code

plan == <<parallel, work, setups, teardowns>>
fixtures == <<dir_setup_vars, dirs_setup_failed>>
tests == <<next, running, seeded>>
results == <<passed, failed, reported>>
vars == <<plan, phase, dir, tests, fixtures, results, flushed, exit_code>>

parallel_jobs == IF parallel > 1 THEN parallel ELSE 1

active_dirs == {work[k].dir : k \in DOMAIN work}

\* What the reporters are told to expect before anything has run.
total_reported ==
    Len(work) + Cardinality(active_dirs \cap setups) + Cardinality(active_dirs \cap teardowns)

Init ==
    /\ parallel \in Parallels
    /\ work \in Works /\ setups \in SUBSET Dirs /\ teardowns \in SUBSET Dirs
    /\ phase = "collect" /\ dir = 1 /\ next = 1 /\ running = {} /\ seeded = {}
    /\ dir_setup_vars = {} /\ dirs_setup_failed = {}
    /\ passed = {} /\ failed = {} /\ reported = 0 /\ flushed = 0 /\ exit_code = "none"

\* Nothing to run is a failure; otherwise the set-ups are next.
Collect ==
    /\ phase = "collect" /\ exit_code = "none"
    /\ IF work = <<>> THEN exit_code' = "1" /\ UNCHANGED phase
                      ELSE phase' = "setup" /\ UNCHANGED exit_code
    /\ UNCHANGED <<plan, dir, tests, fixtures, results, flushed>>

-----------------------------------------------------------------------------
(* Fixtures                                                                *)

Record(unit, ok) ==
    /\ passed' = IF ok THEN passed \cup {unit} ELSE passed
    /\ failed' = IF ok THEN failed ELSE failed \cup {unit}
    /\ reported' = reported + 1

RunSetup(ok) ==
    /\ phase = "setup" /\ dir \in active_dirs \cap setups
    /\ dir_setup_vars' = IF ok THEN dir_setup_vars \cup {dir} ELSE dir_setup_vars
    /\ dirs_setup_failed' = IF ok THEN dirs_setup_failed ELSE dirs_setup_failed \cup {dir}
    /\ Record(<<"setup", dir>>, ok)
    /\ dir' = dir + 1
    /\ UNCHANGED <<plan, phase, tests, flushed, exit_code>>

\* The tear-down of a directory runs whatever became of its set-up and tests.
RunTeardown(ok) ==
    /\ phase = "teardown" /\ dir \in active_dirs \cap teardowns
    /\ Record(<<"teardown", dir>>, ok)
    /\ dir' = dir + 1
    /\ UNCHANGED <<plan, phase, tests, fixtures, flushed, exit_code>>

\* A directory with no test left, or no such fixture, is passed over.
SkipDir ==
    /\ dir \in Dirs
    /\ \/ phase = "setup" /\ dir \notin active_dirs \cap setups
       \/ phase = "teardown" /\ dir \notin active_dirs \cap teardowns
    /\ dir' = dir + 1
    /\ UNCHANGED <<plan, phase, tests, fixtures, results, flushed, exit_code>>

EndOfLoop ==
    /\ dir \notin Dirs
    /\ \/ phase = "setup" /\ phase' = "tests"
       \/ phase = "teardown" /\ phase' = "flush"
    /\ dir' = 1
    /\ UNCHANGED <<plan, tests, fixtures, results, flushed, exit_code>>

-----------------------------------------------------------------------------
(* Tests                                                                   *)

\* Variant: the workers as asked for, so that none is none.
RoomUnclamped == Cardinality(running) < parallel

\* Variant: every work item at once.
RoomUnbounded == TRUE

Room == Cardinality(running) < parallel_jobs

\* Variant: a test looks for the failure of any set-up but its own.
SkippedBySetupOfAnother(k) == dirs_setup_failed \ {work[k].dir} # {}

item_skipped_by_setup(k) == ~work[k].error /\ work[k].dir \in dirs_setup_failed

\* The stream pulls an item: on_test_start, and the test begins with the variables
\* its directory's set-up bound.
StartTest ==
    /\ phase = "tests" /\ next \in DOMAIN work /\ Room
    /\ running' = running \cup {next}
    /\ seeded' = IF ~work[next].error /\ work[next].dir \in dir_setup_vars
                 THEN seeded \cup {next} ELSE seeded
    /\ next' = next + 1
    /\ UNCHANGED <<plan, phase, dir, fixtures, results, flushed, exit_code>>

\* A test ends, in any order; a doomed one only by failing.
EndTest(k, ok) ==
    /\ k \in running
    /\ ok => ~work[k].error /\ ~item_skipped_by_setup(k)
    /\ running' = running \ {k}
    /\ Record(<<"test", k>>, ok)
    /\ UNCHANGED <<plan, phase, dir, next, seeded, fixtures, flushed, exit_code>>

\* Variant: the tear-downs start once the last test has been pulled.
TestsPulled ==
    /\ phase = "tests" /\ next \notin DOMAIN work
    /\ phase' = "teardown"
    /\ UNCHANGED <<plan, dir, tests, fixtures, results, flushed, exit_code>>

TestsDrained ==
    /\ phase = "tests" /\ next \notin DOMAIN work /\ running = {}
    /\ phase' = "teardown"
    /\ UNCHANGED <<plan, dir, tests, fixtures, results, flushed, exit_code>>

-----------------------------------------------------------------------------
(* Reports                                                                 *)

\* on_suite_end of the next reporter.  The first that fails ends the run.
Flush(ok) ==
    /\ phase = "flush" /\ exit_code = "none" /\ flushed < NumReporters
    /\ IF ok THEN flushed' = flushed + 1 /\ UNCHANGED exit_code
             ELSE exit_code' = "1" /\ UNCHANGED flushed
    /\ UNCHANGED <<plan, phase, dir, tests, fixtures, results>>

\* Variant: the exit code is that of the tests alone.
ExitIgnoresFixtures ==
    /\ phase = "flush" /\ exit_code = "none" /\ flushed = NumReporters
    /\ exit_code' = IF \E u \in failed : u[1] = "test" THEN "1" ELSE "0"
    /\ UNCHANGED <<plan, phase, dir, tests, fixtures, results, flushed>>

Exit ==
    /\ phase = "flush" /\ exit_code = "none" /\ flushed = NumReporters
    /\ exit_code' = IF failed = {} THEN "0" ELSE "1"
    /\ UNCHANGED <<plan, phase, dir, tests, fixtures, results, flushed>>

Fixture == \E ok \in BOOLEAN : RunSetup(ok) \/ RunTeardown(ok)

Step == Collect \/ Fixture \/ SkipDir \/ EndOfLoop \/ StartTest \/ TestsDrained
        \/ Exit \/ \E ok \in BOOLEAN : Flush(ok)

Next == Step \/ \E k \in DOMAIN work, ok \in BOOLEAN : EndTest(k, ok)

\* The task runs, and every test ends: run_one's own termination is Runner's.
Fairness ==
    /\ WF_vars(Step)
    /\ \A k \in UNION {DOMAIN w : w \in Works} : WF_vars(\E ok \in BOOLEAN : EndTest(k, ok))

Spec == Init /\ [][Next]_vars
FairSpec == Spec /\ Fairness

-----------------------------------------------------------------------------
(* Properties                                                              *)

Units == {"setup", "teardown"} \X Dirs \cup {"test"} \X DOMAIN work

\* Every variable keeps to its type, and no more than parallel_jobs tests are ever
\* in flight.
TypeOK ==
    /\ parallel \in Parallels
    /\ work \in Works /\ setups \subseteq Dirs /\ teardowns \subseteq Dirs
    /\ phase \in {"collect", "setup", "tests", "teardown", "flush"}
    /\ dir \in 1..(NumDirs + 1) /\ next \in 1..(Len(work) + 1)
    /\ running \subseteq DOMAIN work /\ Cardinality(running) <= parallel_jobs
    /\ seeded \subseteq DOMAIN work
    /\ dir_setup_vars \subseteq Dirs /\ dirs_setup_failed \subseteq Dirs
    /\ passed \subseteq Units /\ failed \subseteq Units
    /\ reported \in Nat /\ flushed \in 0..NumReporters
    /\ exit_code \in {"none", "0", "1"}

Ended == passed \cup failed

\* A test passes only in an environment its directory's set-up prepared: if there
\* is a set-up it passed, and the test began with its variables.
PassedTestsWereSetUp ==
    \A k \in DOMAIN work :
        <<"test", k>> \in passed /\ work[k].dir \in setups
        => <<"setup", work[k].dir>> \in passed /\ k \in seeded

\* No tear-down of any directory runs while a test, of any directory, is in flight
\* or still to come.
TeardownsLast ==
    (\E d \in Dirs : <<"teardown", d>> \in Ended) => {"test"} \X DOMAIN work \subseteq Ended

\* The fixtures of a directory are where its tests need them: set up before, torn
\* down after the last test of the suite.
FixturesBracketTests == PassedTestsWereSetUp /\ TeardownsLast

\* By the time the reports are written every unit announced to the reporters has
\* been reported once, the tear-downs of failed set-ups included.
EveryUnitReported ==
    phase = "flush" =>
        /\ reported = total_reported
        /\ {"teardown"} \X (active_dirs \cap teardowns) \subseteq Ended

\* The exit code is a verdict on everything that ran: 0 exactly when every unit
\* passed and every report was written.
ExitCodeTells ==
    exit_code # "none" =>
        (exit_code = "0" <=> /\ work # <<>> /\ failed = {} /\ flushed = NumReporters
                             /\ {"test"} \X DOMAIN work \subseteq passed)

\* What the reporters and the shell are told is what happened, whatever failed.
ReportTells == EveryUnitReported /\ ExitCodeTells

\* The run implements its promise, with fixtures, streams and reports hidden.
Promise == INSTANCE SuiteSpec WITH
    Dirs <- Dirs, work <- work, setups <- setups, teardowns <- teardowns,
    passed <- passed, failed <- failed, exit_code <- exit_code
PromiseKept == Promise!Spec

\* Every suite whose tests end comes to an exit code.
Exits == <>(exit_code # "none")

\* reporters.md:42: "A throwing/erroring hook is logged and skipped; it does not
\* abort the run."
EveryReporterFlushed == phase = "flush" /\ exit_code # "none" => flushed = NumReporters

=============================================================================
